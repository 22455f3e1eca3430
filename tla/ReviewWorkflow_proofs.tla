------------------------ MODULE ReviewWorkflow_proofs ------------------------
(***************************************************************************)
(* Proofs about the review workflow, for any requests, proposals, cases,   *)
(* agents and restarts.  IInv is inductive; what a person is told about a  *)
(* decision, recovery, closed requests and new case ids follow from it.    *)
(* WaysOn, inductive with it, gives that an open request is never stuck.   *)
(***************************************************************************)
EXTENDS ReviewWorkflow, WellFoundedInduction, TLAPS

USE ConstantsAssumption

-----------------------------------------------------------------------------
(* What the helpers of the store return. *)

LEMMA WithStatusType ==
  ASSUME TypeOK, NEW r \in Requests, NEW s \in RequestStatuses, NEW p \in 0..MaxProposals
  PROVE  WithStatus(r, s, p) \in [Requests -> Request]
  BY DEF TypeOK, Request, WithStatus

(* Only r's status and latest proposal change. *)
LEMMA WithStatusFrame ==
  ASSUME TypeOK, NEW r \in Requests, NEW s \in RequestStatuses, NEW p \in 0..MaxProposals
  PROVE  \A q \in Requests :
            /\ WithStatus(r, s, p)[q].status = IF q = r THEN s ELSE request[q].status
            /\ WithStatus(r, s, p)[q].target = request[q].target
            /\ WithStatus(r, s, p)[q].op = request[q].op
  BY DEF TypeOK, Request, WithStatus

(* Superseding changes no proposal's request, target or existence. *)
LEMMA SupersededFrame ==
  ASSUME TypeOK, NEW r \in Requests
  PROVE  /\ Superseded(r) \in [Proposals -> Proposal]
         /\ \A p \in Proposals :
               /\ Superseded(r)[p].req = proposal[p].req
               /\ Superseded(r)[p].target = proposal[p].target
               /\ Superseded(r)[p].op = proposal[p].op
               /\ Superseded(r)[p].status = "NONE" <=> proposal[p].status = "NONE"
  BY DEF TypeOK, Proposal, ProposalStatuses, Superseded, ReadyOf, ProposalsOf, Stored

LEMMA NoAgentType ==
  InitialSuite \in Suites /\ NoDraft \in Proposal /\ NoAgent \in Agent /\ Idle \in Handler
  <1>1. InitialSuite \in Suites
    BY DEF InitialSuite, Suites, Contents
  <1>2. NoDraft \in Proposal
    BY <1>1 DEF NoDraft, Proposal, Operations, ProposalStatuses
  <1>3. NoAgent \in Agent
    BY <1>1, <1>2 DEF NoAgent, Agent
  <1>4. QED
    BY <1>1, <1>2, <1>3 DEF Idle, Handler, RequestStatuses

(* The agents' steps keep their types. *)
LEMMA AgentReads ==
  ASSUME NEW x \in Agent, NEW s \in Suites
  PROVE  [x EXCEPT !.pc = "informed", !.read = s] \in Agent
  BY DEF Agent

LEMMA AgentDrafts ==
  ASSUME NEW x \in Agent, NEW d \in Proposal
  PROVE  [x EXCEPT !.pc = "submitting", !.draft = d] \in Agent
  BY DEF Agent

LEMMA AgentNumbers ==
  ASSUME NEW x \in Agent, NEW n \in 0..MaxProposals
  PROVE  [x EXCEPT !.pc = "saving", !.slot = n] \in Agent
  BY DEF Agent

LEMMA AgentIsDone ==
  ASSUME NEW x \in Agent, NEW n \in 0..MaxProposals, NEW d \in Proposal
  PROVE  [x EXCEPT !.pc = "informed", !.slot = n, !.draft = d] \in Agent
  BY DEF Agent

LEMMA AgentEnds ==
  ASSUME NEW x \in Agent, NEW n \in 0..MaxProposals, NEW d \in Proposal, NEW s \in Suites
  PROVE  [x EXCEPT !.pc = "exited", !.slot = n, !.draft = d, !.read = s] \in Agent
  BY DEF Agent

LEMMA AgentIsOrphaned ==
  ASSUME NEW x \in Agent, NEW n \in 0..Attempts, NEW b \in SUBSET Proposals
  PROVE  [x EXCEPT !.awaited = FALSE, !.attempt = n, !.before = b] \in Agent
  BY DEF Agent

LEMMA Zeros == 0 \in 0..MaxProposals /\ 0 \in 0..Attempts /\ {} \in SUBSET Proposals
  OBVIOUS

LEMMA StartedType ==
  ASSUME TypeOK, NEW a \in Agents, NEW r \in Requests, NEW n \in 0..Attempts,
         NEW b \in SUBSET Proposals
  PROVE  /\ Started(a, r, n, b) \in [Agents -> Agent]
         /\ \A c \in Agents : c # a => Started(a, r, n, b)[c] = agent[c]
         /\ Started(a, r, n, b)[a].pc = "working"
         /\ Started(a, r, n, b)[a].awaited
         /\ Started(a, r, n, b)[a].req = r
  BY NoAgentType DEF TypeOK, Started, Agent, NoAgent

(* idAllocator gives an id that neither the suite nor any request names. *)
LEMMA FreshIdsAreNew == FreshIds \cap KnownCaseIds = {}
  BY DEF FreshIds, Cases

-----------------------------------------------------------------------------
(* The initial states. *)

LEMMA InitIInv == Init => IInv
  <1> SUFFICES ASSUME Init PROVE IInv
    OBVIOUS
  <1>1. TypeOK
    <2>1. InitialSuite \in Suites
      BY DEF InitialSuite, Suites, Contents
    <2>2. request \in [Requests -> Request]
      BY DEF Init, Request, Operations, RequestStatuses
    <2>3. QED
      BY <2>1, <2>2, NoAgentType DEF Init, TypeOK
  <1>2. \A a \in Agents : agent[a].pc = "exited" /\ ~agent[a].awaited
    BY DEF Init, NoAgent
  <1>3. Stored = {} /\ gone = {} /\ written = {} /\ handler.todo = "nothing"
    BY DEF Init, Stored, NoDraft, Idle
  <1>4. \A r \in Requests : request[r].status = "NONE"
    BY DEF Init
  <1>5. QED
    BY <1>1, <1>2, <1>3, <1>4
       DEF IInv, JobsBelong, OneJobPerRequest, ProcessingHasJob, HandlerOwnsRequest,
           ProposalsAreAbout, DraftsAreAbout, DeletedAreTargets, WrittenIsDecided

-----------------------------------------------------------------------------
(* Steps that change no agent's state: the handlers of requests and        *)
(* decisions.  Each has its type, then what it can disturb.                *)
LEMMA CreateRequestStep ==
  ASSUME IInv, NEW r \in Requests, NEW op \in Operations,
         NEW t \in Cases \cup {None}, CreateRequest(r, op, t)
  PROVE  IInv'
  <1> USE DEF IInv, CreateRequest, Free, history, Request, RequestStatuses, Handler
  <1>1. TypeOK'
    BY DEF TypeOK
  <1>2. JobsBelong'
    BY DEF TypeOK, JobsBelong
  <1>3. OneJobPerRequest'
    BY DEF TypeOK, OneJobPerRequest, JobsBelong
  <1>4. ProcessingHasJob'
    BY DEF TypeOK, ProcessingHasJob, Jobs, JobsBelong
  <1>5. HandlerOwnsRequest'
    BY DEF TypeOK, HandlerOwnsRequest, Stored
  <1>6. ProposalsAreAbout'
    BY DEF TypeOK, ProposalsAreAbout, About, Stored
  <1>7. DraftsAreAbout'
    BY DEF TypeOK, DraftsAreAbout, About
  <1>8. DeletedAreTargets'
    BY DEF TypeOK, DeletedAreTargets
  <1>9. WrittenIsDecided'
    BY DEF TypeOK, WrittenIsDecided
  <1>10. QED
    BY <1>1, <1>2, <1>3, <1>4, <1>5, <1>6, <1>7, <1>8, <1>9

LEMMA ProcessingRefusedStep ==
  ASSUME IInv, NEW r \in Requests, ProcessingRefused(r)
  PROVE  IInv'
  <1> USE DEF IInv, ProcessingRefused, Free, history, Processable, RequestStatuses, Closed
  <1>1. /\ request' \in [Requests -> Request]
        /\ \A q \in Requests :
              /\ request'[q].status = IF q = r THEN "FAILED" ELSE request[q].status
              /\ request'[q].target = request[q].target
    BY WithStatusType, WithStatusFrame
  <1>2. TypeOK'
    BY <1>1 DEF TypeOK
  <1>3. JobsBelong'
    BY <1>1 DEF TypeOK, JobsBelong
  <1>4. OneJobPerRequest'
    BY <1>1 DEF TypeOK, OneJobPerRequest, JobsBelong
  <1>5. ProcessingHasJob'
    BY <1>1 DEF TypeOK, ProcessingHasJob, Jobs, JobsBelong
  <1>6. HandlerOwnsRequest'
    BY <1>1 DEF TypeOK, HandlerOwnsRequest, Stored
  <1>7. ProposalsAreAbout'
    BY <1>1 DEF TypeOK, ProposalsAreAbout, About, Stored
  <1>8. DraftsAreAbout'
    BY <1>1 DEF TypeOK, DraftsAreAbout, About
  <1>9. DeletedAreTargets'
    BY <1>1 DEF TypeOK, DeletedAreTargets
  <1>10. WrittenIsDecided'
    BY <1>1 DEF TypeOK, WrittenIsDecided
  <1>11. QED
    BY <1>2, <1>3, <1>4, <1>5, <1>6, <1>7, <1>8, <1>9, <1>10

LEMMA ProposeDeletionStep ==
  ASSUME IInv, ProposeDeletion
  PROVE  IInv'
  <1> USE DEF IInv, ProposeDeletion, history, Closed
  <1>1. handler.req \in Requests /\ request[handler.req].status = "PENDING" /\ handler.status = "NONE"
    BY DEF HandlerOwnsRequest
  <1>2. /\ proposal' \in [Proposals -> Proposal]
        /\ \A p \in Proposals : p # NextProposal =>
              /\ proposal'[p].req = proposal[p].req
              /\ proposal'[p].target = proposal[p].target
              /\ proposal'[p].status = "NONE" <=> proposal[p].status = "NONE"
        /\ proposal'[NextProposal].req = handler.req
        /\ proposal'[NextProposal].target = request[handler.req].target
    BY <1>1, SupersededFrame DEF TypeOK, Proposal, Operations, ProposalStatuses, Request
  <1>3. TypeOK'
    BY <1>1, <1>2 DEF TypeOK, Handler, RequestStatuses, Proposals
  <1>4. JobsBelong'
    BY <1>1, <1>2 DEF TypeOK, JobsBelong
  <1>5. OneJobPerRequest'
    BY <1>1, <1>2 DEF TypeOK, OneJobPerRequest, JobsBelong
  <1>6. ProcessingHasJob'
    BY <1>1, <1>2 DEF TypeOK, ProcessingHasJob, Jobs, JobsBelong
  <1>7. HandlerOwnsRequest'
    BY <1>1, <1>2 DEF TypeOK, HandlerOwnsRequest, Stored
  <1>8. ProposalsAreAbout'
    BY <1>1, <1>2 DEF TypeOK, ProposalsAreAbout, About, Stored
  <1>9. DraftsAreAbout'
    BY <1>1, <1>2 DEF TypeOK, DraftsAreAbout, About
  <1>10. DeletedAreTargets'
    BY <1>1, <1>2 DEF TypeOK, DeletedAreTargets
  <1>11. WrittenIsDecided'
    BY <1>1, <1>2 DEF TypeOK, WrittenIsDecided
  <1>12. QED
    BY <1>3, <1>4, <1>5, <1>6, <1>7, <1>8, <1>9, <1>10, <1>11

LEMMA ApplyStep ==
  ASSUME IInv, NEW p \in Proposals, Apply(p)
  PROVE  IInv'
  <1> USE DEF IInv, Apply, Free, Closed
  <1>1. p \in Stored /\ About(proposal[p])
    BY DEF ActiveProposal, ProposalsAreAbout, Stored
  <1>2. suite' \in Suites
    BY DEF TypeOK, CandidateSuite, Suites, Contents, Proposals
  <1>3. \A c \in gone' \ gone : c \in Cases /\ c = proposal[p].target
    <2> SUFFICES ASSUME NEW c \in ActiveCases, suite'[c] = None
                 PROVE  c = proposal[p].target
      BY DEF ActiveCases
    <2>1. c \in Cases /\ suite[c] # None /\ p # None
      BY DEF ActiveCases, Proposals
    <2>2. QED
      BY <2>1 DEF CandidateSuite
  <1>4. TypeOK'
    BY <1>1, <1>2, <1>3 DEF TypeOK, Handler, RequestStatuses, Proposals, ActiveCases, About
  <1>5. JobsBelong'
    BY <1>1, <1>2, <1>3 DEF TypeOK, JobsBelong, ActiveProposal, About
  <1>6. OneJobPerRequest'
    BY <1>1, <1>2, <1>3 DEF TypeOK, OneJobPerRequest, JobsBelong, ActiveProposal, About
  <1>7. ProcessingHasJob'
    BY <1>1, <1>2, <1>3 DEF TypeOK, ProcessingHasJob, Jobs, JobsBelong, ActiveProposal, About
  <1>8. HandlerOwnsRequest'
    BY <1>1, <1>2, <1>3 DEF TypeOK, HandlerOwnsRequest, Stored, ActiveProposal, About
  <1>9. ProposalsAreAbout'
    BY <1>1, <1>2, <1>3 DEF TypeOK, ProposalsAreAbout, About, Stored
  <1>10. DraftsAreAbout'
    BY <1>1, <1>2, <1>3 DEF TypeOK, DraftsAreAbout, About
  <1>11. DeletedAreTargets'
    BY <1>1, <1>2, <1>3 DEF TypeOK, DeletedAreTargets, About
  <1>12. WrittenIsDecided'
    BY <1>1, <1>2, <1>3 DEF TypeOK, WrittenIsDecided, ActiveProposal
  <1>13. QED
    BY <1>4, <1>5, <1>6, <1>7, <1>8, <1>9, <1>10, <1>11, <1>12

LEMMA TurnDownStep ==
  ASSUME IInv, NEW p \in Proposals, NEW s \in {"REJECTED", "CHANGES_REQUESTED"}, TurnDown(p, s)
  PROVE  IInv'
  <1> USE DEF IInv, TurnDown, Free, history, Closed
  <1>1. p \in Stored /\ About(proposal[p])
    BY DEF ActiveProposal, ProposalsAreAbout, Stored
  <1>2. /\ proposal' \in [Proposals -> Proposal]
        /\ \A q \in Proposals :
              /\ proposal'[q].req = proposal[q].req
              /\ proposal'[q].target = proposal[q].target
              /\ proposal'[q].status # "NONE" <=> q \in Stored
    BY <1>1 DEF TypeOK, WithProposalStatus, Proposal, ProposalStatuses, Stored
  <1>3. TypeOK'
    BY <1>1, <1>2 DEF TypeOK, Handler, RequestStatuses, Proposals, About
  <1>4. JobsBelong'
    BY <1>1, <1>2 DEF TypeOK, JobsBelong, ActiveProposal, About
  <1>5. OneJobPerRequest'
    BY <1>1, <1>2 DEF TypeOK, OneJobPerRequest, JobsBelong, ActiveProposal, About
  <1>6. ProcessingHasJob'
    BY <1>1, <1>2 DEF TypeOK, ProcessingHasJob, Jobs, JobsBelong, ActiveProposal, About
  <1>7. HandlerOwnsRequest'
    BY <1>1, <1>2 DEF TypeOK, HandlerOwnsRequest, Stored, ActiveProposal, About
  <1>8. ProposalsAreAbout'
    BY <1>1, <1>2 DEF TypeOK, ProposalsAreAbout, About, Stored
  <1>9. DraftsAreAbout'
    BY <1>1, <1>2 DEF TypeOK, DraftsAreAbout, About
  <1>10. DeletedAreTargets'
    BY <1>1, <1>2 DEF TypeOK, DeletedAreTargets
  <1>11. WrittenIsDecided'
    BY <1>1, <1>2 DEF TypeOK, WrittenIsDecided, ActiveProposal, About
  <1>12. QED
    BY <1>3, <1>4, <1>5, <1>6, <1>7, <1>8, <1>9, <1>10, <1>11

LEMMA CloseHandlerStep ==
  ASSUME IInv, CloseHandler
  PROVE  IInv'
  <1> USE DEF IInv, CloseHandler, history, Closed, Idle
  <1>1. /\ handler.req \in Requests /\ handler.prop \in Proposals
        /\ handler.status \in RequestStatuses \ {"NONE", "PROCESSING"}
        /\ request[handler.req].status \in {"PENDING", "PROPOSAL_READY"}
    BY DEF HandlerOwnsRequest, RequestStatuses, Stored
  <1>2. /\ request' \in [Requests -> Request]
        /\ \A q \in Requests :
              /\ request'[q].status = IF q = handler.req THEN handler.status ELSE request[q].status
              /\ request'[q].target = request[q].target
    BY <1>1, WithStatusType, WithStatusFrame DEF Proposals
  <1>3. TypeOK'
    BY <1>1, <1>2, NoAgentType DEF TypeOK, Idle
  <1>4. JobsBelong'
    BY <1>1, <1>2 DEF TypeOK, JobsBelong
  <1>5. OneJobPerRequest'
    BY <1>1, <1>2 DEF TypeOK, OneJobPerRequest, JobsBelong
  <1>6. ProcessingHasJob'
    BY <1>1, <1>2 DEF TypeOK, ProcessingHasJob, Jobs, JobsBelong
  <1>7. HandlerOwnsRequest'
    BY <1>1, <1>2 DEF TypeOK, HandlerOwnsRequest, Stored
  <1>8. ProposalsAreAbout'
    BY <1>1, <1>2 DEF TypeOK, ProposalsAreAbout, About, Stored
  <1>9. DraftsAreAbout'
    BY <1>1, <1>2 DEF TypeOK, DraftsAreAbout, About
  <1>10. DeletedAreTargets'
    BY <1>1, <1>2 DEF TypeOK, DeletedAreTargets
  <1>11. WrittenIsDecided'
    BY <1>1, <1>2 DEF TypeOK, WrittenIsDecided
  <1>12. QED
    BY <1>3, <1>4, <1>5, <1>6, <1>7, <1>8, <1>9, <1>10, <1>11

-----------------------------------------------------------------------------
(* Steps of the jobs, of their agents and of the server.  First what the   *)
(* step does, then the invariant from that alone.                          *)

LEMMA BeginProcessingStep ==
  ASSUME IInv, NEW r \in Requests, NEW a \in Agents, BeginProcessing(r, a)
  PROVE  IInv'
  <1>1. /\ up /\ r \notin Jobs /\ handler.todo = "nothing"
        /\ request[r].status \in {"PENDING", "CHANGES_REQUESTED", "FAILED"}
        /\ ~agent[a].awaited
        /\ UNCHANGED <<proposal, suite, up, starts, handler, gone, written, torn, disturbed>>
    BY DEF BeginProcessing, Free, Processable, history
  <1>2. /\ request' \in [Requests -> Request]
        /\ \A q \in Requests :
              /\ request'[q].status = IF q = r THEN "PROCESSING" ELSE request[q].status
              /\ request'[q].target = request[q].target
    BY WithStatusType, WithStatusFrame DEF BeginProcessing, RequestStatuses, IInv
  <1>3. /\ agent' \in [Agents -> Agent]
        /\ \A c \in Agents : c # a => agent'[c] = agent[c]
        /\ agent'[a].pc = "working" /\ agent'[a].awaited /\ agent'[a].req = r
    BY StartedType DEF BeginProcessing, ProposalsOf, Stored, IInv
  <1>4. TypeOK'
    BY <1>1, <1>2, <1>3 DEF IInv, TypeOK
  <1>5. JobsBelong'
    BY <1>1, <1>2, <1>3 DEF IInv, JobsBelong
  <1>6. OneJobPerRequest'
    BY <1>1, <1>2, <1>3 DEF IInv, OneJobPerRequest, JobsBelong, Jobs
  <1>7. ProcessingHasJob'
    BY <1>1, <1>2, <1>3 DEF IInv, ProcessingHasJob, Jobs, JobsBelong
  <1>8. HandlerOwnsRequest'
    BY <1>1, <1>2, <1>3 DEF IInv, HandlerOwnsRequest, Stored, Jobs
  <1>9. ProposalsAreAbout'
    BY <1>1, <1>2, <1>3 DEF IInv, ProposalsAreAbout, About, Stored
  <1>10. DraftsAreAbout'
    BY <1>1, <1>2, <1>3 DEF IInv, DraftsAreAbout, About
  <1>11. DeletedAreTargets'
    BY <1>1, <1>2, <1>3 DEF IInv, DeletedAreTargets
  <1>12. WrittenIsDecided'
    BY <1>1, <1>2, <1>3 DEF IInv, WrittenIsDecided
  <1>13. QED
    BY <1>4, <1>5, <1>6, <1>7, <1>8, <1>9, <1>10, <1>11, <1>12 DEF IInv

LEMMA TryAgainStep ==
  ASSUME IInv, NEW a \in Agents, TryAgain(a)
  PROVE  IInv'
  <1>1. /\ up /\ agent[a].awaited
        /\ UNCHANGED <<request, proposal, suite, up, starts, handler, gone, written, torn, disturbed>>
    BY DEF TryAgain, Free, history
  <1>2. agent[a].req \in Requests /\ request[agent[a].req].status \in {"PROCESSING", "FAILED"}
    BY <1>1 DEF JobsBelong, IInv
  <1>3. /\ agent[a].attempt + 1 \in 0..Attempts
        /\ agent[a].before \in SUBSET Proposals
    BY DEF TryAgain, IInv, TypeOK, Agent
  <1>4. /\ agent' \in [Agents -> Agent]
        /\ \A c \in Agents : c # a => agent'[c] = agent[c]
        /\ agent'[a].pc = "working" /\ agent'[a].awaited
        /\ agent'[a].req = agent[a].req
    BY <1>2, <1>3, StartedType DEF TryAgain, IInv
  <1>5. TypeOK'
    BY <1>1, <1>2, <1>3, <1>4 DEF IInv, TypeOK
  <1>6. JobsBelong'
    BY <1>1, <1>2, <1>3, <1>4 DEF IInv, JobsBelong
  <1>7. OneJobPerRequest'
    BY <1>1, <1>2, <1>3, <1>4 DEF IInv, OneJobPerRequest, JobsBelong
  <1>8. ProcessingHasJob'
    BY <1>1, <1>2, <1>3, <1>4 DEF IInv, ProcessingHasJob, Jobs, JobsBelong
  <1>9. HandlerOwnsRequest'
    BY <1>1, <1>2, <1>3, <1>4 DEF IInv, HandlerOwnsRequest, Stored
  <1>10. ProposalsAreAbout'
    BY <1>1, <1>2, <1>3, <1>4 DEF IInv, ProposalsAreAbout, About, Stored
  <1>11. DraftsAreAbout'
    BY <1>1, <1>2, <1>3, <1>4 DEF IInv, DraftsAreAbout, About
  <1>12. DeletedAreTargets'
    BY <1>1, <1>2, <1>3, <1>4 DEF IInv, DeletedAreTargets
  <1>13. WrittenIsDecided'
    BY <1>1, <1>2, <1>3, <1>4 DEF IInv, WrittenIsDecided
  <1>14. QED
    BY <1>5, <1>6, <1>7, <1>8, <1>9, <1>10, <1>11, <1>12, <1>13 DEF IInv

LEMMA FinishProcessingStep ==
  ASSUME IInv, NEW a \in Agents, FinishProcessing(a)
  PROVE  IInv'
  <1>1. /\ up /\ agent[a].awaited /\ handler.todo = "nothing"
        /\ UNCHANGED <<proposal, suite, up, starts, handler, gone, written, torn, disturbed>>
    BY DEF FinishProcessing, Free, history
  <1>2. agent[a].req \in Requests /\ request[agent[a].req].status \in {"PROCESSING", "FAILED"}
    BY <1>1 DEF JobsBelong, IInv
  <1>3. \E s \in {"FAILED", "PROPOSAL_READY"} :
         /\ request' \in [Requests -> Request]
         /\ \A q \in Requests :
               /\ request'[q].status = IF q = agent[a].req THEN s ELSE request[q].status
               /\ request'[q].target = request[q].target
    <2> DEFINE fresh == Gained(a) \cap ReadyOf(agent[a].req)
    <2>1. CASE request' = WithStatus(agent[a].req, "FAILED", 0)
      BY <1>2, <2>1, WithStatusType, WithStatusFrame DEF RequestStatuses, IInv
    <2>2. CASE \E p \in fresh : request' = WithStatus(agent[a].req, "PROPOSAL_READY", p)
      <3>1. PICK p \in fresh : request' = WithStatus(agent[a].req, "PROPOSAL_READY", p)
        BY <2>2
      <3>2. p \in 0..MaxProposals
        BY DEF ReadyOf, ProposalsOf, Stored, Proposals
      <3>3. QED
        BY <1>2, <3>1, <3>2, WithStatusType, WithStatusFrame DEF RequestStatuses, IInv
    <2>3. QED
      BY <2>1, <2>2 DEF FinishProcessing
  <1>4. /\ agent' \in [Agents -> Agent]
        /\ \A c \in Agents : c # a => agent'[c] = agent[c]
        /\ agent'[a].pc = "exited" /\ ~agent'[a].awaited
    BY NoAgentType DEF FinishProcessing, IInv, TypeOK, NoAgent
  <1>5. TypeOK'
    BY <1>1, <1>2, <1>3, <1>4 DEF IInv, TypeOK
  <1>6. JobsBelong'
    BY <1>1, <1>2, <1>3, <1>4 DEF IInv, JobsBelong, OneJobPerRequest
  <1>7. OneJobPerRequest'
    BY <1>1, <1>2, <1>3, <1>4 DEF IInv, OneJobPerRequest, JobsBelong
  <1>8. ProcessingHasJob'
    BY <1>1, <1>2, <1>3, <1>4 DEF IInv, ProcessingHasJob, Jobs, JobsBelong
  <1>9. HandlerOwnsRequest'
    BY <1>1, <1>2, <1>3, <1>4 DEF IInv, HandlerOwnsRequest, Stored
  <1>10. ProposalsAreAbout'
    BY <1>1, <1>2, <1>3, <1>4 DEF IInv, ProposalsAreAbout, About, Stored
  <1>11. DraftsAreAbout'
    BY <1>1, <1>2, <1>3, <1>4 DEF IInv, DraftsAreAbout, About
  <1>12. DeletedAreTargets'
    BY <1>1, <1>2, <1>3, <1>4 DEF IInv, DeletedAreTargets
  <1>13. WrittenIsDecided'
    BY <1>1, <1>2, <1>3, <1>4 DEF IInv, WrittenIsDecided
  <1>14. QED
    BY <1>5, <1>6, <1>7, <1>8, <1>9, <1>10, <1>11, <1>12, <1>13 DEF IInv

LEMMA ReadChangeRequestStep ==
  ASSUME IInv, NEW a \in Agents, ReadChangeRequest(a)
  PROVE  IInv'
  <1>1. agent[a].pc \in {"working", "informed"}
    BY DEF ReadChangeRequest
  <1>2. agent[a].req \in Requests /\ request[agent[a].req].status # "NONE"
    BY <1>1 DEF DraftsAreAbout, IInv
  <1>3. /\ UNCHANGED <<request, proposal, suite, up, starts, handler, gone, written, torn, disturbed>>
    BY DEF ReadChangeRequest, history
  <1>4. [agent[a] EXCEPT !.pc = "informed", !.read = suite] \in Agent
    BY AgentReads, NoAgentType DEF IInv, TypeOK, Proposals
  <1>5. /\ agent' \in [Agents -> Agent]
        /\ \A c \in Agents : c # a => agent'[c] = agent[c]
        /\ agent'[a].pc = "informed" /\ agent'[a].awaited = agent[a].awaited
        /\ agent'[a].req = agent[a].req
    BY <1>4 DEF ReadChangeRequest, IInv, TypeOK, Agent
  <1>6. TypeOK'
    BY <1>1, <1>2, <1>3, <1>4, <1>5 DEF IInv, TypeOK
  <1>7. JobsBelong'
    BY <1>1, <1>2, <1>3, <1>4, <1>5 DEF IInv, JobsBelong
  <1>8. OneJobPerRequest'
    BY <1>1, <1>2, <1>3, <1>4, <1>5 DEF IInv, OneJobPerRequest, JobsBelong
  <1>9. ProcessingHasJob'
    BY <1>1, <1>2, <1>3, <1>4, <1>5 DEF IInv, ProcessingHasJob, Jobs, JobsBelong
  <1>10. HandlerOwnsRequest'
    BY <1>1, <1>2, <1>3, <1>4, <1>5 DEF IInv, HandlerOwnsRequest, Stored
  <1>11. ProposalsAreAbout'
    BY <1>1, <1>2, <1>3, <1>4, <1>5 DEF IInv, ProposalsAreAbout, About, Stored
  <1>12. DraftsAreAbout'
    BY <1>1, <1>2, <1>3, <1>4, <1>5 DEF IInv, DraftsAreAbout, About
  <1>13. DeletedAreTargets'
    BY <1>1, <1>2, <1>3, <1>4, <1>5 DEF IInv, DeletedAreTargets
  <1>14. WrittenIsDecided'
    BY <1>1, <1>2, <1>3, <1>4, <1>5 DEF IInv, WrittenIsDecided
  <1>15. QED
    BY <1>6, <1>7, <1>8, <1>9, <1>10, <1>11, <1>12, <1>13, <1>14 DEF IInv

LEMMA SubmitDraftStep ==
  ASSUME IInv, NEW a \in Agents, NEW extra \in BOOLEAN, SubmitDraft(a, extra)
  PROVE  IInv'
  <1>1. /\ UNCHANGED <<request, proposal, suite, up, starts, handler, gone, written, torn, disturbed>>
        /\ agent[a].pc = "informed"
    BY DEF SubmitDraft, history
  <1>2. agent[a].req \in Requests /\ request[agent[a].req].status # "NONE"
    BY <1>1 DEF DraftsAreAbout, IInv
  <1>3. PICK d \in Proposal :
         /\ About(d) /\ d.status = "READY"
         /\ agent' = [agent EXCEPT ![a].pc = "submitting", ![a].draft = d]
    <2> DEFINE d == [req |-> agent[a].req, op |-> request[agent[a].req].op,
                     target |-> request[agent[a].req].target, base |-> suite,
                     fromBase |-> agent[a].read = suite,
                     new |-> IF extra THEN FreshIds ELSE {}, status |-> "READY"]
    <2>1. d \in Proposal
      BY <1>2 DEF Proposal, ProposalStatuses, IInv, TypeOK, Request, FreshIds
    <2>2. About(d) /\ d.status = "READY"
      BY <1>2 DEF About
    <2>3. agent' = [agent EXCEPT ![a].pc = "submitting", ![a].draft = d]
      BY DEF SubmitDraft
    <2>4. QED
      BY <2>1, <2>2, <2>3
  <1>4. [agent[a] EXCEPT !.pc = "submitting", !.draft = d] \in Agent
    BY AgentDrafts, NoAgentType DEF IInv, TypeOK
  <1>5. /\ agent' \in [Agents -> Agent]
        /\ \A c \in Agents : c # a => agent'[c] = agent[c]
        /\ agent'[a].pc = "submitting" /\ agent'[a].awaited = agent[a].awaited
        /\ agent'[a].req = agent[a].req /\ agent'[a].draft = d
    BY <1>3, <1>4 DEF IInv, TypeOK, Agent
  <1>6. TypeOK'
    BY <1>1, <1>2, <1>3, <1>4, <1>5 DEF IInv, TypeOK
  <1>7. JobsBelong'
    BY <1>1, <1>2, <1>3, <1>4, <1>5 DEF IInv, JobsBelong
  <1>8. OneJobPerRequest'
    BY <1>1, <1>2, <1>3, <1>4, <1>5 DEF IInv, OneJobPerRequest, JobsBelong
  <1>9. ProcessingHasJob'
    BY <1>1, <1>2, <1>3, <1>4, <1>5 DEF IInv, ProcessingHasJob, Jobs, JobsBelong
  <1>10. HandlerOwnsRequest'
    BY <1>1, <1>2, <1>3, <1>4, <1>5 DEF IInv, HandlerOwnsRequest, Stored
  <1>11. ProposalsAreAbout'
    BY <1>1, <1>2, <1>3, <1>4, <1>5 DEF IInv, ProposalsAreAbout, About, Stored
  <1>12. DraftsAreAbout'
    BY <1>1, <1>2, <1>3, <1>4, <1>5 DEF IInv, DraftsAreAbout, About
  <1>13. DeletedAreTargets'
    BY <1>1, <1>2, <1>3, <1>4, <1>5 DEF IInv, DeletedAreTargets
  <1>14. WrittenIsDecided'
    BY <1>1, <1>2, <1>3, <1>4, <1>5 DEF IInv, WrittenIsDecided
  <1>15. QED
    BY <1>6, <1>7, <1>8, <1>9, <1>10, <1>11, <1>12, <1>13, <1>14 DEF IInv

LEMMA SupersedeAndNumberStep ==
  ASSUME IInv, NEW a \in Agents, SupersedeAndNumber(a)
  PROVE  IInv'
  <1>1. /\ UNCHANGED <<request, suite, up, starts, handler, gone, written, torn>>
        /\ agent[a].pc = "submitting" /\ NextProposal \in Proposals
        /\ disturbed' \subseteq disturbed \cup {agent[a].req}
    BY DEF SupersedeAndNumber
  <1>2. agent[a].req \in Requests /\ About(agent[a].draft) /\ agent[a].draft.status = "READY"
    BY <1>1 DEF DraftsAreAbout, IInv
  <1>3. /\ proposal' \in [Proposals -> Proposal]
        /\ \A p \in Proposals :
              /\ proposal'[p].req = proposal[p].req
              /\ proposal'[p].target = proposal[p].target
              /\ proposal'[p].status = "NONE" <=> proposal[p].status = "NONE"
    BY <1>2, SupersededFrame DEF SupersedeAndNumber, IInv
  <1>4. [agent[a] EXCEPT !.pc = "saving", !.slot = NextProposal] \in Agent
    <2>1. NextProposal \in 0..MaxProposals
      BY <1>1 DEF Proposals
    <2>2. QED
      BY <2>1, AgentNumbers DEF IInv, TypeOK
  <1>5. /\ agent' \in [Agents -> Agent]
        /\ \A c \in Agents : c # a => agent'[c] = agent[c]
        /\ agent'[a].pc = "saving" /\ agent'[a].awaited = agent[a].awaited
        /\ agent'[a].req = agent[a].req /\ agent'[a].draft = agent[a].draft
        /\ agent'[a].slot = NextProposal
    BY <1>4 DEF SupersedeAndNumber, IInv, TypeOK, Agent
  <1>6. TypeOK'
    BY <1>1, <1>2, <1>3, <1>4, <1>5 DEF IInv, TypeOK
  <1>7. JobsBelong'
    BY <1>1, <1>2, <1>3, <1>4, <1>5 DEF IInv, JobsBelong
  <1>8. OneJobPerRequest'
    BY <1>1, <1>2, <1>3, <1>4, <1>5 DEF IInv, OneJobPerRequest, JobsBelong
  <1>9. ProcessingHasJob'
    BY <1>1, <1>2, <1>3, <1>4, <1>5 DEF IInv, ProcessingHasJob, Jobs, JobsBelong
  <1>10. HandlerOwnsRequest'
    BY <1>1, <1>2, <1>3, <1>4, <1>5 DEF IInv, HandlerOwnsRequest, Stored
  <1>11. ProposalsAreAbout'
    BY <1>1, <1>2, <1>3, <1>4, <1>5 DEF IInv, ProposalsAreAbout, About, Stored
  <1>12. DraftsAreAbout'
    BY <1>1, <1>2, <1>3, <1>4, <1>5 DEF IInv, DraftsAreAbout, About
  <1>13. DeletedAreTargets'
    BY <1>1, <1>2, <1>3, <1>4, <1>5 DEF IInv, DeletedAreTargets
  <1>14. WrittenIsDecided'
    BY <1>1, <1>2, <1>3, <1>4, <1>5 DEF IInv, WrittenIsDecided
  <1>15. QED
    BY <1>6, <1>7, <1>8, <1>9, <1>10, <1>11, <1>12, <1>13, <1>14 DEF IInv

LEMMA SaveProposalStep ==
  ASSUME IInv, NEW a \in Agents, SaveProposal(a)
  PROVE  IInv'
  <1>1. /\ UNCHANGED <<request, suite, up, starts, handler, gone, written, torn>>
        /\ agent[a].pc = "saving"
    BY DEF SaveProposal
  <1>2. /\ agent[a].slot \in Proposals /\ agent[a].draft \in Proposal
        /\ About(agent[a].draft) /\ agent[a].draft.status = "READY"
        /\ agent[a].req \in Requests /\ request[agent[a].req].status # "NONE"
    BY <1>1 DEF IInv, TypeOK, Agent, DraftsAreAbout
  <1>3. /\ proposal' \in [Proposals -> Proposal]
        /\ proposal'[agent[a].slot] = agent[a].draft
        /\ \A p \in Proposals : p # agent[a].slot => proposal'[p] = proposal[p]
    BY <1>2 DEF SaveProposal, IInv, TypeOK
  <1>4. [agent[a] EXCEPT !.pc = "informed", !.slot = 0, !.draft = NoDraft] \in Agent
    BY AgentIsDone, Zeros, NoAgentType DEF IInv, TypeOK
  <1>5. /\ agent' \in [Agents -> Agent]
        /\ \A c \in Agents : c # a => agent'[c] = agent[c]
        /\ agent'[a].pc = "informed" /\ agent'[a].awaited = agent[a].awaited
        /\ agent'[a].req = agent[a].req
    BY <1>4 DEF SaveProposal, IInv, TypeOK, Agent
  <1>6. disturbed' \subseteq Requests
    BY DEF SaveProposal, IInv, TypeOK, ProposalsAreAbout, About
  <1>7. TypeOK'
    BY <1>1, <1>2, <1>3, <1>4, <1>5, <1>6 DEF IInv, TypeOK
  <1>8. JobsBelong'
    BY <1>1, <1>2, <1>3, <1>4, <1>5, <1>6 DEF IInv, JobsBelong
  <1>9. OneJobPerRequest'
    BY <1>1, <1>2, <1>3, <1>4, <1>5, <1>6 DEF IInv, OneJobPerRequest, JobsBelong
  <1>10. ProcessingHasJob'
    BY <1>1, <1>2, <1>3, <1>4, <1>5, <1>6 DEF IInv, ProcessingHasJob, Jobs, JobsBelong
  <1>11. HandlerOwnsRequest'
    BY <1>1, <1>2, <1>3, <1>4, <1>5, <1>6 DEF IInv, HandlerOwnsRequest, Stored
  <1>12. ProposalsAreAbout'
    BY <1>1, <1>2, <1>3, <1>4, <1>5, <1>6 DEF IInv, ProposalsAreAbout, About, Stored
  <1>13. DraftsAreAbout'
    BY <1>1, <1>2, <1>3, <1>4, <1>5, <1>6 DEF IInv, DraftsAreAbout, About
  <1>14. DeletedAreTargets'
    BY <1>1, <1>2, <1>3, <1>4, <1>5, <1>6 DEF IInv, DeletedAreTargets
  <1>15. WrittenIsDecided'
    BY <1>1, <1>2, <1>3, <1>4, <1>5, <1>6 DEF IInv, WrittenIsDecided
  <1>16. QED
    BY <1>7, <1>8, <1>9, <1>10, <1>11, <1>12, <1>13, <1>14, <1>15 DEF IInv

LEMMA AgentExitStep ==
  ASSUME IInv, NEW a \in Agents, AgentExit(a)
  PROVE  IInv'
  <1>1. /\ UNCHANGED <<request, proposal, suite, up, starts, handler, gone, written, torn, disturbed>>
    BY DEF AgentExit, history
  <1>2. /\ agent'[a] \in Agent /\ agent'[a].pc = "exited" /\ agent'[a].awaited = agent[a].awaited
        /\ agent[a].awaited => agent'[a].req = agent[a].req
    <2>1. CASE ~agent[a].awaited
      <3>1. agent'[a] = NoAgent
        BY <2>1 DEF AgentExit, Ended, IInv, TypeOK
      <3>2. QED
        BY <2>1, <3>1, NoAgentType DEF NoAgent, Agent, IInv, TypeOK
    <2>2. CASE agent[a].awaited
      <3>1. [agent[a] EXCEPT !.pc = "exited", !.slot = 0, !.draft = NoDraft,
                             !.read = InitialSuite] \in Agent
        BY AgentEnds, Zeros, NoAgentType DEF IInv, TypeOK
      <3>2. agent'[a] = [agent[a] EXCEPT !.pc = "exited", !.slot = 0, !.draft = NoDraft,
                                         !.read = InitialSuite]
        BY <2>2 DEF AgentExit, Ended, IInv, TypeOK
      <3>3. QED
        BY <3>1, <3>2 DEF IInv, TypeOK, Agent
    <2>3. QED
      BY <2>1, <2>2
  <1>3. /\ agent' \in [Agents -> Agent]
        /\ \A c \in Agents : c # a => agent'[c] = agent[c]
    <2>1. agent' = [agent EXCEPT ![a] = Ended(a)] /\ agent \in [Agents -> Agent]
      BY DEF AgentExit, IInv, TypeOK
    <2>2. agent'[a] = Ended(a)
      BY <2>1
    <2>3. QED
      BY <1>2, <2>1, <2>2
  <1>4. TypeOK'
    BY <1>1, <1>2, <1>3 DEF IInv, TypeOK
  <1>5. JobsBelong'
    BY <1>1, <1>2, <1>3 DEF IInv, JobsBelong
  <1>6. OneJobPerRequest'
    BY <1>1, <1>2, <1>3 DEF IInv, OneJobPerRequest, JobsBelong
  <1>7. ProcessingHasJob'
    BY <1>1, <1>2, <1>3 DEF IInv, ProcessingHasJob, Jobs, JobsBelong
  <1>8. HandlerOwnsRequest'
    BY <1>1, <1>2, <1>3 DEF IInv, HandlerOwnsRequest, Stored
  <1>9. ProposalsAreAbout'
    BY <1>1, <1>2, <1>3 DEF IInv, ProposalsAreAbout, About, Stored
  <1>10. DraftsAreAbout'
    BY <1>1, <1>2, <1>3 DEF IInv, DraftsAreAbout, About
  <1>11. DeletedAreTargets'
    BY <1>1, <1>2, <1>3 DEF IInv, DeletedAreTargets
  <1>12. WrittenIsDecided'
    BY <1>1, <1>2, <1>3 DEF IInv, WrittenIsDecided
  <1>13. QED
    BY <1>4, <1>5, <1>6, <1>7, <1>8, <1>9, <1>10, <1>11, <1>12 DEF IInv

LEMMA CrashStep ==
  ASSUME IInv, Crash
  PROVE  IInv'
  <1>1. /\ handler' = Idle
        /\ torn' = torn \cup (IF handler.todo = "nothing" THEN {} ELSE {handler.req})
        /\ up' = FALSE
        /\ UNCHANGED <<request, proposal, suite, starts, gone, written, disturbed>>
    BY DEF Crash
  <1>2. \A a \in Agents :
         /\ agent'[a] \in Agent
         /\ ~agent'[a].awaited
         /\ agent'[a].pc # "exited" =>
               /\ agent'[a].pc = agent[a].pc /\ agent'[a].req = agent[a].req
               /\ agent'[a].draft = agent[a].draft /\ agent'[a].slot = agent[a].slot
    <2> TAKE a \in Agents
    <2>1. CASE agent[a].pc = "exited"
      BY <2>1, NoAgentType DEF Crash, NoAgent
    <2>2. CASE agent[a].pc # "exited"
      <3>1. [agent[a] EXCEPT !.awaited = FALSE, !.attempt = 0, !.before = {}] \in Agent
        BY AgentIsOrphaned, Zeros DEF IInv, TypeOK
      <3>2. agent'[a] = [agent[a] EXCEPT !.awaited = FALSE, !.attempt = 0, !.before = {}]
        BY <2>2 DEF Crash
      <3>3. QED
        BY <3>1, <3>2 DEF IInv, TypeOK, Agent
    <2>3. QED
      BY <2>1, <2>2
  <1>3. agent' \in [Agents -> Agent]
    BY <1>2 DEF Crash
  <1>4. torn' \subseteq Requests /\ Idle \in Handler
    BY <1>1, NoAgentType DEF IInv, TypeOK, HandlerOwnsRequest
  <1>5. TypeOK'
    BY <1>1, <1>2, <1>3, <1>4 DEF IInv, TypeOK
  <1>6. JobsBelong'
    BY <1>1, <1>2, <1>3, <1>4 DEF IInv, JobsBelong
  <1>7. OneJobPerRequest'
    BY <1>1, <1>2, <1>3, <1>4 DEF IInv, OneJobPerRequest, JobsBelong
  <1>8. ProcessingHasJob'
    BY <1>1, <1>2, <1>3, <1>4 DEF IInv, ProcessingHasJob, Jobs, JobsBelong
  <1>9. HandlerOwnsRequest'
    BY <1>1, <1>2, <1>3, <1>4 DEF IInv, HandlerOwnsRequest, Stored, Idle
  <1>10. ProposalsAreAbout'
    BY <1>1, <1>2, <1>3, <1>4 DEF IInv, ProposalsAreAbout, About, Stored
  <1>11. DraftsAreAbout'
    BY <1>1, <1>2, <1>3, <1>4 DEF IInv, DraftsAreAbout, About
  <1>12. DeletedAreTargets'
    BY <1>1, <1>2, <1>3, <1>4 DEF IInv, DeletedAreTargets
  <1>13. WrittenIsDecided'
    BY <1>1, <1>2, <1>3, <1>4 DEF IInv, WrittenIsDecided, Idle
  <1>14. QED
    BY <1>5, <1>6, <1>7, <1>8, <1>9, <1>10, <1>11, <1>12, <1>13 DEF IInv

LEMMA StartServerStep ==
  ASSUME IInv, StartServer
  PROVE  IInv'
  <1>1. /\ up' = TRUE /\ starts' \in 0..MaxStarts
        /\ UNCHANGED <<proposal, suite, handler, agent, gone, written, torn, disturbed>>
    BY DEF StartServer, history, IInv, TypeOK
  <1>2. /\ request' \in [Requests -> Request]
        /\ \A r \in Requests :
              /\ request'[r].target = request[r].target
              /\ request'[r].status =
                    IF request[r].status = "PROCESSING" THEN "FAILED" ELSE request[r].status
    BY DEF StartServer, IInv, TypeOK, Request, RequestStatuses
  <1>3. TypeOK'
    BY <1>1, <1>2 DEF IInv, TypeOK
  <1>4. JobsBelong'
    BY <1>1, <1>2 DEF IInv, JobsBelong
  <1>5. OneJobPerRequest'
    BY <1>1, <1>2 DEF IInv, OneJobPerRequest, JobsBelong
  <1>6. ProcessingHasJob'
    BY <1>1, <1>2 DEF IInv, ProcessingHasJob, Jobs, JobsBelong
  <1>7. HandlerOwnsRequest'
    BY <1>1, <1>2 DEF IInv, HandlerOwnsRequest, Stored, Closed
  <1>8. ProposalsAreAbout'
    BY <1>1, <1>2 DEF IInv, ProposalsAreAbout, About, Stored
  <1>9. DraftsAreAbout'
    BY <1>1, <1>2 DEF IInv, DraftsAreAbout, About
  <1>10. DeletedAreTargets'
    BY <1>1, <1>2 DEF IInv, DeletedAreTargets
  <1>11. WrittenIsDecided'
    BY <1>1, <1>2 DEF IInv, WrittenIsDecided
  <1>12. QED
    BY <1>3, <1>4, <1>5, <1>6, <1>7, <1>8, <1>9, <1>10, <1>11 DEF IInv

LEMMA MarkAppliedStep ==
  ASSUME IInv, MarkApplied
  PROVE  IInv'
  <1>1. /\ handler.todo = "mark" /\ handler' = [handler EXCEPT !.todo = "close"]
        /\ handler.prop \in Proposals /\ proposal[handler.prop].status # "NONE"
        /\ UNCHANGED <<request, suite, up, starts, agent, gone, written, torn, disturbed>>
    BY DEF MarkApplied, history, IInv, HandlerOwnsRequest, Stored
  <1>2. /\ proposal' \in [Proposals -> Proposal]
        /\ \A p \in Proposals :
              /\ proposal'[p].req = proposal[p].req
              /\ proposal'[p].target = proposal[p].target
              /\ proposal'[p].status = "NONE" <=> proposal[p].status = "NONE"
    BY <1>1 DEF MarkApplied, WithProposalStatus, IInv, TypeOK, Proposal, ProposalStatuses
  <1>3. TypeOK'
    BY <1>1, <1>2 DEF IInv, TypeOK, Handler
  <1>4. JobsBelong'
    BY <1>1, <1>2 DEF IInv, JobsBelong
  <1>5. OneJobPerRequest'
    BY <1>1, <1>2 DEF IInv, OneJobPerRequest, JobsBelong
  <1>6. ProcessingHasJob'
    BY <1>1, <1>2 DEF IInv, ProcessingHasJob, Jobs, JobsBelong
  <1>7. HandlerOwnsRequest'
    BY <1>1, <1>2 DEF IInv, HandlerOwnsRequest, Stored
  <1>8. ProposalsAreAbout'
    BY <1>1, <1>2 DEF IInv, ProposalsAreAbout, About, Stored
  <1>9. DraftsAreAbout'
    BY <1>1, <1>2 DEF IInv, DraftsAreAbout, About
  <1>10. DeletedAreTargets'
    BY <1>1, <1>2 DEF IInv, DeletedAreTargets
  <1>11. WrittenIsDecided'
    BY <1>1, <1>2 DEF IInv, WrittenIsDecided
  <1>12. QED
    BY <1>3, <1>4, <1>5, <1>6, <1>7, <1>8, <1>9, <1>10, <1>11 DEF IInv

-----------------------------------------------------------------------------
(* The theorems. *)

LEMMA NextIInv == IInv /\ [Next]_vars => IInv'
  <1> SUFFICES ASSUME IInv, [Next]_vars PROVE IInv'
    OBVIOUS
  <1>1. CASE UNCHANGED vars
    BY <1>1 DEF vars, IInv, TypeOK, JobsBelong, OneJobPerRequest, ProcessingHasJob, Jobs,
                HandlerOwnsRequest, ProposalsAreAbout, DraftsAreAbout, About, Stored,
                DeletedAreTargets, WrittenIsDecided
  <1>2. CASE Next
    BY <1>2, CreateRequestStep, ProcessingRefusedStep, BeginProcessingStep, TryAgainStep,
       FinishProcessingStep, AgentExitStep, ReadChangeRequestStep, SubmitDraftStep,
       SupersedeAndNumberStep, SaveProposalStep, ApplyStep, TurnDownStep,
       ProposeDeletionStep, MarkAppliedStep, CloseHandlerStep, CrashStep, StartServerStep
       DEF Next, HandlerStep, AfterAgent
  <1>3. QED
    BY <1>1, <1>2

(* The invariant holds of every behaviour, for any instance. *)
THEOREM ReviewInvariant == Spec => []IInv
  BY InitIInv, NextIInv, PTL DEF Spec

(* What a request says was decided is what happened to the suite           *)
(* (applyProposal, rejectProposal against any interleaving and crash).     *)
THEOREM DecisionsMatch == Spec => []DecisionMatchesSuite
  <1>1. IInv => DecisionMatchesSuite
    BY DEF IInv, WrittenIsDecided, DecisionMatchesSuite
  <1>2. QED
    BY <1>1, ReviewInvariant, PTL

(* recoverInterrupted leaves no request PROCESSING without a job. *)
THEOREM ProcessingIsLive == Spec => []ProcessingHasJob
  <1>1. IInv => ProcessingHasJob
    BY DEF IInv
  <1>2. QED
    BY <1>1, ReviewInvariant, PTL

(* No step takes a request out of APPLIED or REJECTED: each handler that   *)
(* sets a status has found, or is entitled to, another one.                *)
LEMMA ClosedStep ==
  ASSUME IInv, [Next]_vars, NEW q \in Requests, request[q].status \in Closed
  PROVE  request'[q].status = request[q].status
  <1> USE DEF Closed
  <1>1. CASE request' = request
    BY <1>1
  <1>2. ASSUME NEW r \in Requests, NEW op \in Operations, NEW t \in Cases \cup {None},
               CreateRequest(r, op, t)
        PROVE  request'[q] = request[q]
    BY <1>2 DEF CreateRequest, IInv, TypeOK
  <1>3. ASSUME NEW r \in Requests, ProcessingRefused(r)
        PROVE  request'[q].status = request[q].status
    <2>1. q # r /\ request' = WithStatus(r, "FAILED", 0)
      BY <1>3 DEF ProcessingRefused, Processable
    <2>2. QED
      BY <2>1, WithStatusFrame DEF IInv, RequestStatuses
  <1>4. ASSUME NEW r \in Requests, NEW a \in Agents, BeginProcessing(r, a)
        PROVE  request'[q].status = request[q].status
    <2>1. q # r /\ request' = WithStatus(r, "PROCESSING", 0)
      BY <1>4 DEF BeginProcessing, Processable
    <2>2. QED
      BY <2>1, WithStatusFrame DEF IInv, RequestStatuses
  <1>5. ASSUME NEW a \in Agents, FinishProcessing(a)
        PROVE  request'[q].status = request[q].status
    <2>1. agent[a].req \in Requests /\ q # agent[a].req
      BY <1>5 DEF FinishProcessing, IInv, JobsBelong
    <2>2. PICK s \in {"FAILED", "PROPOSAL_READY"}, p \in 0..MaxProposals :
             request' = WithStatus(agent[a].req, s, p)
      BY <1>5 DEF FinishProcessing, ReadyOf, ProposalsOf, Stored, Proposals
    <2>3. QED
      BY <2>1, <2>2, WithStatusFrame DEF IInv, RequestStatuses
  <1>6. CASE CloseHandler
    <2>1. /\ handler.req \in Requests /\ q # handler.req
          /\ handler.status \in RequestStatuses /\ handler.prop \in 0..MaxProposals
      BY <1>6 DEF CloseHandler, IInv, HandlerOwnsRequest, TypeOK, Handler
    <2>2. QED
      BY <1>6, <2>1, WithStatusFrame DEF CloseHandler, IInv
  <1>7. CASE StartServer
    BY <1>7 DEF StartServer
  <1>8. QED
    BY <1>1, <1>2, <1>3, <1>4, <1>5, <1>6, <1>7
       DEF Next, vars, AfterAgent, HandlerStep, TryAgain, AgentExit, ReadChangeRequest,
           SupersedeAndNumber, SaveProposal, SubmitDraft, Apply, TurnDown, ProposeDeletion,
           MarkApplied, Crash

(* An applied or rejected request is never reopened. *)
THEOREM ClosedForGood == Spec => ClosedStaysClosed
  <1>1. IInv /\ [Next]_vars =>
            [\A r \in Requests : request[r].status \in Closed =>
                 request'[r].status = request[r].status]_vars
    BY ClosedStep
  <1>2. QED
    BY <1>1, ReviewInvariant, PTL DEF Spec, ClosedStaysClosed

(* Only submit_test_case_proposal gives ids, and knownCaseIds holds every  *)
(* case of the suite and, as a request's target, every deleted one.        *)
LEMMA FreshIdsStep ==
  ASSUME IInv, [Next]_vars, NEW a \in Agents,
         agent'[a].pc = "submitting", agent[a].pc # "submitting"
  PROVE  agent'[a].draft.new \cap (ActiveCases \cup gone) = {}
  <1>1. ActiveCases \cup gone \subseteq KnownCaseIds
    <2>1. ASSUME NEW c \in gone PROVE c \in TargetIds
      <3>1. c # None
        BY DEF IInv, TypeOK, Cases
      <3>2. QED
        BY <3>1 DEF IInv, DeletedAreTargets, TargetIds
    <2>2. QED
      BY <2>1 DEF KnownCaseIds
  <1>2. ASSUME NEW b \in Agents, NEW extra \in BOOLEAN, SubmitDraft(b, extra)
        PROVE  agent'[a].draft.new \subseteq FreshIds
    <2>1. a = b
      BY <1>2 DEF SubmitDraft, IInv, TypeOK
    <2>2. agent'[a].draft.new = IF extra THEN FreshIds ELSE {}
      BY <1>2, <2>1 DEF SubmitDraft, IInv, TypeOK, Agent
    <2>3. QED
      BY <2>2
  <1>3. CASE agent' = agent
    BY <1>3
  <1>4. ASSUME NEW b \in Agents, NEW x, x.pc # "submitting", agent' = [agent EXCEPT ![b] = x]
        PROVE  FALSE
    BY <1>4 DEF IInv, TypeOK
  <1>5. ASSUME NEW r \in Requests, NEW b \in Agents, BeginProcessing(r, b)
        PROVE  FALSE
    BY <1>4, <1>5 DEF BeginProcessing, Started, NoAgent
  <1>6. ASSUME NEW b \in Agents,
               TryAgain(b) \/ FinishProcessing(b) \/ AgentExit(b) \/ ReadChangeRequest(b)
                 \/ SupersedeAndNumber(b) \/ SaveProposal(b)
        PROVE  FALSE
    <2>1. CASE TryAgain(b)
      BY <1>4, <2>1 DEF TryAgain, Started, NoAgent
    <2>2. CASE FinishProcessing(b)
      BY <1>4, <2>2 DEF FinishProcessing, NoAgent
    <2>3. CASE AgentExit(b)
      <3>1. Ended(b).pc = "exited"
        BY DEF Ended, NoAgent, IInv, TypeOK, Agent
      <3>2. QED
        BY <1>4, <2>3, <3>1 DEF AgentExit
    <2>4. CASE ReadChangeRequest(b)
      BY <2>4 DEF ReadChangeRequest, IInv, TypeOK, Agent
    <2>5. CASE SupersedeAndNumber(b)
      BY <2>5 DEF SupersedeAndNumber, IInv, TypeOK, Agent
    <2>6. CASE SaveProposal(b)
      BY <2>6 DEF SaveProposal, IInv, TypeOK, Agent
    <2>7. QED
      BY <1>6, <2>1, <2>2, <2>3, <2>4, <2>5, <2>6
  <1>7. ~Crash
    <2>1. SUFFICES ASSUME Crash PROVE FALSE
      OBVIOUS
    <2>2. CASE agent[a].pc = "exited"
      BY <2>1, <2>2 DEF Crash, NoAgent
    <2>3. CASE agent[a].pc # "exited"
      <3>1. agent'[a] = [agent[a] EXCEPT !.awaited = FALSE, !.attempt = 0, !.before = {}]
        BY <2>1, <2>3 DEF Crash
      <3>2. QED
        BY <3>1 DEF IInv, TypeOK, Agent
    <2>4. QED
      BY <2>2, <2>3
  <1>8. QED
    BY <1>1, <1>2, <1>3, <1>5, <1>6, <1>7, FreshIdsAreNew
       DEF Next, vars, AfterAgent, HandlerStep, CreateRequest, ProcessingRefused, Apply,
           TurnDown, ProposeDeletion, MarkApplied, CloseHandler, StartServer

(* No draft is given an id that a case has, or had before its deletion.    *)
THEOREM FreshIdsAreFresh == Spec => FreshIdsWhenGiven
  <1>1. IInv /\ [Next]_vars =>
            [\A a \in Agents :
                 agent'[a].pc = "submitting" /\ agent[a].pc # "submitting" =>
                     agent'[a].draft.new \cap (ActiveCases \cup gone) = {}]_vars
    BY FreshIdsStep
  <1>2. QED
    BY <1>1, ReviewInvariant, PTL DEF Spec, FreshIdsWhenGiven


-----------------------------------------------------------------------------
(* There is always a way on: WaysOn is inductive as well. *)

(* saveProposal's id is no proposal's. *)
LEMMA NextProposalIsNew ==
  ASSUME TypeOK
  PROVE  NextProposal \notin Stored /\ NextProposal # 0
  <1> DEFINE S == Stored \cup {0}
  <1> DEFINE T == {MaxProposals - s : s \in S}
  <1>1. S \subseteq 0..MaxProposals /\ S # {} /\ MaxProposals \in Nat
    BY DEF Stored, Proposals
  <1>2. T \subseteq Nat /\ T # {}
    BY <1>1
  <1>3. \E m \in T : \A n \in T : m <= n
    <2>1. IsWellFoundedOn(OpToRel(<, Nat), Nat)
      BY NatLessThanWellFounded
    <2> HIDE DEF T
    <2>2. \E m \in T : \A n \in T : <<n, m>> \notin OpToRel(<, Nat)
      BY <1>2, <2>1, WFMin
    <2>3. PICK m \in T : \A n \in T : <<n, m>> \notin OpToRel(<, Nat)
      BY <2>2
    <2>4. ASSUME NEW n \in T
          PROVE  m <= n
      <3>1. m \in Nat /\ n \in Nat
        BY <1>2
      <3>2. ~(n < m)
        BY <2>3, <3>1 DEF OpToRel
      <3>3. QED
        BY <3>1, <3>2
    <2>5. QED
      BY <2>4
  <1>4. PICK m \in T : \A n \in T : m <= n
    BY <1>3
  <1>5. PICK s \in S : m = MaxProposals - s
    BY <1>4
  <1>6. \A u \in S : u <= s
    <2>1. ASSUME NEW u \in S
          PROVE  u <= s
      <3>1. m <= MaxProposals - u
        BY <1>4
      <3>2. u \in Nat /\ s \in Nat
        BY <1>1
      <3>3. QED
        BY <1>1, <1>5, <3>1, <3>2
    <2>2. QED
      BY <2>1
  <1>7. Max(S) \in S /\ \A u \in S : Max(S) >= u
    <2>1. \E x \in S : \A y \in S : x >= y
      <3>1. \A u \in S : s >= u
        BY <1>1, <1>6
      <3>2. QED
        BY <3>1
    <2> HIDE DEF S
    <2>2. QED
      BY <2>1 DEF Max
  <1>8. NextProposal = Max(S) + 1
    BY DEF NextProposal
  <1> DEFINE top == Max(S)
  <1>9. top \in 0..MaxProposals /\ (\A u \in S : u \in 0..MaxProposals /\ top >= u) /\ NextProposal = top + 1
    BY <1>1, <1>7, <1>8
  <1> HIDE DEF top
  <1>10. \A u \in S : u # NextProposal
    BY <1>9
  <1>11. QED
    BY <1>10

(* What a request asks for is fixed when it is made. *)
LEMMA OpStays ==
  ASSUME IInv, [Next]_vars, NEW q \in Requests, request[q].status # "NONE"
  PROVE  request'[q].op = request[q].op
  <1>1. CASE request' = request
    BY <1>1
  <1>2. ASSUME NEW r \in Requests, NEW op \in Operations, NEW t \in Cases \cup {None}, CreateRequest(r, op, t)
        PROVE  request'[q] = request[q]
    BY <1>2 DEF CreateRequest, IInv, TypeOK
  <1>3. ASSUME NEW r \in Requests, NEW s \in RequestStatuses, NEW p \in 0..MaxProposals, request' = WithStatus(r, s, p)
        PROVE  request'[q].op = request[q].op
    BY <1>3, WithStatusFrame DEF IInv
  <1>4. ASSUME NEW r \in Requests, ProcessingRefused(r) \/ \E a \in Agents : BeginProcessing(r, a)
        PROVE  request'[q].op = request[q].op
    BY <1>3, <1>4 DEF ProcessingRefused, BeginProcessing, RequestStatuses
  <1>5. ASSUME NEW a \in Agents, FinishProcessing(a)
        PROVE  request'[q].op = request[q].op
    <2>1. agent[a].req \in Requests
      BY <1>5 DEF FinishProcessing, IInv, JobsBelong
    <2>2. PICK s \in {"FAILED", "PROPOSAL_READY"}, p \in 0..MaxProposals : request' = WithStatus(agent[a].req, s, p)
      BY <1>5 DEF FinishProcessing, ReadyOf, ProposalsOf, Stored, Proposals
    <2>3. QED
      BY <1>3, <2>1, <2>2 DEF RequestStatuses
  <1>6. CASE CloseHandler
    <2>1. handler.req \in Requests /\ handler.status \in RequestStatuses /\ handler.prop \in 0..MaxProposals
      BY <1>6 DEF CloseHandler, IInv, HandlerOwnsRequest, TypeOK, Handler
    <2>2. QED
      BY <1>3, <1>6, <2>1 DEF CloseHandler
  <1>7. CASE StartServer
    BY <1>7 DEF StartServer, IInv, TypeOK, Request
  <1>8. QED
    BY <1>1, <1>2, <1>4, <1>5, <1>6, <1>7
       DEF Next, vars, AfterAgent, HandlerStep, TryAgain, AgentExit, ReadChangeRequest, SupersedeAndNumber,
           SaveProposal, SubmitDraft, Apply, TurnDown, ProposeDeletion, MarkApplied, Crash

(* A proposal is where it was, or it is one that a handler or an agent has *)
(* just written.                                                           *)
LEMMA ProposalsFrom ==
  ASSUME IInv, [Next]_vars, NEW p \in Stored'
  PROVE  \/ p \in Stored /\ proposal'[p].req = proposal[p].req /\ proposal'[p].op = proposal[p].op
         \/ /\ handler.todo = "propose" /\ proposal'[p].req = handler.req /\ proposal'[p].op = "delete"
         \/ \E a \in Agents : agent[a].pc = "saving" /\ proposal'[p] = agent[a].draft
  <1>1. p \in Proposals /\ proposal \in [Proposals -> Proposal] /\ TypeOK
    BY DEF Stored, IInv, TypeOK
  <1>2. CASE proposal' = proposal
    BY <1>2 DEF Stored
  <1>3. ASSUME NEW r \in Requests, proposal' = Superseded(r)
        PROVE  p \in Stored /\ proposal'[p].req = proposal[p].req /\ proposal'[p].op = proposal[p].op
    BY <1>1, <1>3, SupersededFrame DEF Stored
  <1>4. CASE ProposeDeletion
    <2>1. handler.req \in Requests /\ handler.todo = "propose"
      BY <1>4 DEF ProposeDeletion, IInv, HandlerOwnsRequest
    <2> DEFINE new == [req |-> handler.req, op |-> "delete", target |-> request[handler.req].target, base |-> suite,
                       fromBase |-> TRUE, new |-> {}, status |-> "READY"]
    <2>2. proposal' = [Superseded(handler.req) EXCEPT ![NextProposal] = new] /\ NextProposal \in Proposals
      BY <1>4 DEF ProposeDeletion
    <2>3. new.req = handler.req /\ new.op = "delete"
      OBVIOUS
    <2> HIDE DEF new
    <2>4. CASE p = NextProposal
      BY <1>1, <2>1, <2>2, <2>3, <2>4, SupersededFrame
    <2>5. CASE p # NextProposal
      BY <1>1, <2>1, <2>2, <2>5, SupersededFrame DEF Stored
    <2>6. QED
      BY <2>4, <2>5
  <1>5. ASSUME NEW a \in Agents, SupersedeAndNumber(a)
        PROVE  p \in Stored /\ proposal'[p].req = proposal[p].req /\ proposal'[p].op = proposal[p].op
    BY <1>3, <1>5 DEF SupersedeAndNumber, IInv, DraftsAreAbout
  <1>6. ASSUME NEW a \in Agents, SaveProposal(a)
        PROVE  \/ p \in Stored /\ proposal'[p].req = proposal[p].req /\ proposal'[p].op = proposal[p].op
               \/ agent[a].pc = "saving" /\ proposal'[p] = agent[a].draft
    BY <1>1, <1>6 DEF SaveProposal, Stored
  <1>7. ASSUME NEW n \in Proposals, NEW s, proposal' = WithProposalStatus(n, s), n \in Stored
        PROVE  p \in Stored /\ proposal'[p].req = proposal[p].req /\ proposal'[p].op = proposal[p].op
    BY <1>1, <1>7 DEF WithProposalStatus, Stored, Proposal
  <1>8. ASSUME NEW n \in Proposals, TurnDown(n, "REJECTED") \/ TurnDown(n, "CHANGES_REQUESTED")
        PROVE  p \in Stored /\ proposal'[p].req = proposal[p].req /\ proposal'[p].op = proposal[p].op
    BY <1>7, <1>8 DEF TurnDown, ActiveProposal, Stored
  <1>9. CASE MarkApplied
    <2>1. handler.prop \in Stored /\ handler.prop \in Proposals
      BY <1>9 DEF MarkApplied, IInv, HandlerOwnsRequest, Stored
    <2>2. QED
      BY <1>7, <1>9, <2>1 DEF MarkApplied
  <1>10. QED
    BY <1>2, <1>4, <1>5, <1>6, <1>8, <1>9
       DEF Next, vars, AfterAgent, HandlerStep, TryAgain, AgentExit, ReadChangeRequest, SubmitDraft, Apply, Crash,
           StartServer, CreateRequest, ProcessingRefused, BeginProcessing, FinishProcessing, CloseHandler

(* A draft is where it was, or has just been made for the agent's request. *)
LEMMA DraftsFrom ==
  ASSUME IInv, [Next]_vars, NEW a \in Agents
  PROVE  /\ agent'[a].pc \in {"submitting", "saving"} =>
               \/ agent[a].pc \in {"submitting", "saving"} /\ agent'[a].draft = agent[a].draft
               \/ /\ agent[a].pc = "informed" /\ agent'[a].draft.req = agent[a].req
                  /\ agent'[a].draft.op = request[agent[a].req].op
         /\ agent'[a].awaited =>
               \/ agent[a].awaited /\ agent'[a].req = agent[a].req
               \/ agent'[a].req \in Requests /\ request[agent'[a].req].op # "delete"
                     /\ request[agent'[a].req].status # "NONE"
  <1> DEFINE goal ==
        /\ agent'[a].pc \in {"submitting", "saving"} =>
              \/ agent[a].pc \in {"submitting", "saving"} /\ agent'[a].draft = agent[a].draft
              \/ /\ agent[a].pc = "informed" /\ agent'[a].draft.req = agent[a].req
                 /\ agent'[a].draft.op = request[agent[a].req].op
        /\ agent'[a].awaited =>
              \/ agent[a].awaited /\ agent'[a].req = agent[a].req
              \/ agent'[a].req \in Requests /\ request[agent'[a].req].op # "delete"
                    /\ request[agent'[a].req].status # "NONE"
  <1>1. TypeOK /\ agent \in [Agents -> Agent] /\ agent[a] \in Agent
    BY DEF IInv, TypeOK
  <1>2. ASSUME agent'[a] = agent[a]
        PROVE  goal
    BY <1>2
  <1>3. ASSUME NEW r \in Requests, NEW b \in Agents, BeginProcessing(r, b)
        PROVE  /\ b # a => agent'[a] = agent[a]
               /\ b = a => agent'[a].pc = "working" /\ agent'[a].req = r /\ request[r].op # "delete"
                     /\ request[r].status # "NONE"
    <2>1. 1 \in 0..Attempts /\ ProposalsOf(r) \in SUBSET Proposals
      BY DEF ProposalsOf, Stored
    <2>2. QED
      BY <1>1, <1>3, <2>1, StartedType DEF BeginProcessing, Processable
  <1>4. ASSUME NEW b \in Agents, TryAgain(b)
        PROVE  /\ b # a => agent'[a] = agent[a]
               /\ b = a => agent'[a].pc = "working" /\ agent[a].awaited /\ agent'[a].req = agent[a].req
    <2>1. agent[b].req \in Requests /\ agent[b].before \in SUBSET Proposals
      BY <1>1, <1>4 DEF TryAgain, IInv, JobsBelong, TypeOK, Agent
    <2>2. agent[b].attempt + 1 \in 0..Attempts
      BY <1>1, <1>4 DEF TryAgain, IInv, TypeOK, Agent
    <2>3. QED
      BY <1>1, <1>4, <2>1, <2>2, StartedType DEF TryAgain
  <1>5. ASSUME NEW b \in Agents, FinishProcessing(b) \/ AgentExit(b)
        PROVE  /\ b # a => agent'[a] = agent[a]
               /\ b = a => /\ agent'[a].pc = "exited"
                           /\ agent'[a].awaited => agent[a].awaited /\ agent'[a].req = agent[a].req
    <2>1. NoAgent.pc = "exited" /\ NoAgent.awaited = FALSE
      BY DEF NoAgent
    <2>2. agent[b] \in Agent
      BY <1>1
    <2>3. Ended(b).pc = "exited" /\ (Ended(b).awaited => agent[b].awaited /\ Ended(b).req = agent[b].req)
      <3>1. CASE agent[b].awaited
        BY <2>2, <3>1 DEF Ended, Agent
      <3>2. CASE ~agent[b].awaited
        BY <2>1, <3>2 DEF Ended
      <3>3. QED
        BY <3>1, <3>2
    <2>4. agent' = [agent EXCEPT ![b] = NoAgent] \/ agent' = [agent EXCEPT ![b] = Ended(b)]
      BY <1>5 DEF FinishProcessing, AgentExit
    <2>5. QED
      BY <1>1, <2>1, <2>3, <2>4
  <1>6. ASSUME NEW b \in Agents, ReadChangeRequest(b)
        PROVE  /\ b # a => agent'[a] = agent[a]
               /\ b = a => agent'[a].pc = "informed" /\ agent'[a].awaited = agent[a].awaited
                     /\ agent'[a].req = agent[a].req
    BY <1>1, <1>6 DEF ReadChangeRequest, Agent
  <1>7. ASSUME NEW b \in Agents, NEW extra \in BOOLEAN, SubmitDraft(b, extra)
        PROVE  /\ b # a => agent'[a] = agent[a]
               /\ b = a => /\ agent[a].pc = "informed" /\ agent'[a].draft.req = agent[a].req
                           /\ agent'[a].draft.op = request[agent[a].req].op
                           /\ agent'[a].awaited = agent[a].awaited /\ agent'[a].req = agent[a].req
    <2> DEFINE d == [req |-> agent[b].req, op |-> request[agent[b].req].op, target |-> request[agent[b].req].target,
                     base |-> suite, fromBase |-> agent[b].read = suite,
                     new |-> IF extra THEN FreshIds ELSE {}, status |-> "READY"]
    <2>1. agent' = [agent EXCEPT ![b].pc = "submitting", ![b].draft = d] /\ agent[b].pc = "informed"
      BY <1>7 DEF SubmitDraft
    <2>2. d.req = agent[b].req /\ d.op = request[agent[b].req].op
      OBVIOUS
    <2> HIDE DEF d
    <2>3. QED
      BY <1>1, <2>1, <2>2 DEF Agent
  <1>8. ASSUME NEW b \in Agents, SupersedeAndNumber(b) \/ SaveProposal(b)
        PROVE  /\ b # a => agent'[a] = agent[a]
               /\ b = a => /\ agent'[a].awaited = agent[a].awaited /\ agent'[a].req = agent[a].req
                           /\ \/ agent'[a].pc = "informed"
                              \/ agent[a].pc = "submitting" /\ agent'[a].draft = agent[a].draft
    BY <1>1, <1>8 DEF SupersedeAndNumber, SaveProposal, Agent
  <1>9. ASSUME Crash
         PROVE  goal
    BY <1>1, <1>9 DEF Crash, NoAgent, Agent
  <1>10. ASSUME NEW b \in Agents, AfterAgent(b) \/ AgentExit(b) \/ ReadChangeRequest(b) \/ SupersedeAndNumber(b)
                                   \/ SaveProposal(b) \/ (\E extra \in BOOLEAN : SubmitDraft(b, extra))
         PROVE  goal
    <2>1. CASE b # a
      BY <1>2, <1>4, <1>5, <1>6, <1>7, <1>8, <1>10, <2>1 DEF AfterAgent
    <2>2. CASE b = a
      BY <1>4, <1>5, <1>6, <1>7, <1>8, <1>10, <2>2 DEF AfterAgent
    <2>3. QED
      BY <2>1, <2>2
  <1>11. ASSUME NEW r \in Requests, NEW b \in Agents, BeginProcessing(r, b)
         PROVE  goal
    BY <1>2, <1>3, <1>11
  <1>12. ASSUME agent' = agent
         PROVE  goal
    BY <1>2, <1>12
  <1>13. ASSUME HandlerStep \/ StartServer \/ UNCHANGED vars
         PROVE  agent' = agent
    BY <1>13 DEF vars, HandlerStep, ProposeDeletion, MarkApplied, CloseHandler, StartServer
  <1>14. ASSUME NEW r \in Requests, NEW op \in Operations, NEW t \in Cases \cup {None},
                CreateRequest(r, op, t)
         PROVE  agent' = agent
    BY <1>14 DEF CreateRequest
  <1>15. ASSUME NEW p \in Proposals, Apply(p) \/ TurnDown(p, "REJECTED") \/ TurnDown(p, "CHANGES_REQUESTED")
         PROVE  agent' = agent
    BY <1>15 DEF Apply, TurnDown
  <1> HIDE DEF goal
  <1>16. CASE UNCHANGED vars
    BY <1>12, <1>13, <1>16 DEF goal
  <1>17. ASSUME NEW b \in Agents, NEW extra \in BOOLEAN, SubmitDraft(b, extra)
         PROVE  goal
    BY <1>10, <1>17
  <1>18. ASSUME NEW r \in Requests, ProcessingRefused(r)
         PROVE  agent' = agent
    BY <1>18 DEF ProcessingRefused
  <1>19. CASE Next
    BY <1>9, <1>10, <1>11, <1>12, <1>13, <1>14, <1>15, <1>17, <1>18, <1>19 DEF Next, goal
  <1>20. QED
    BY <1>16, <1>19

(* A handler's writes are those it began with, or it has just begun. *)
LEMMA HandlerFrom ==
  ASSUME IInv, [Next]_vars
  PROVE  \/ handler' = handler
         \/ handler'.todo = "nothing"
         \/ handler'.todo = "propose" /\ handler'.status = "NONE" /\ request'[handler'.req].op = "delete"
         \/ handler'.todo # "propose" /\ handler'.status # "CHANGES_REQUESTED"
         \/ /\ handler'.todo = "close" /\ request' = request
            /\ \E p \in Stored : handler'.req = proposal[p].req /\ proposal[p].op # "delete"
  <1>1. ASSUME NEW r \in Requests, NEW op \in Operations, NEW t \in Cases \cup {None},
               CreateRequest(r, op, t)
        PROVE  \/ handler' = handler
               \/ handler'.todo = "propose" /\ handler'.status = "NONE" /\ request'[handler'.req].op = "delete"
    BY <1>1 DEF CreateRequest, IInv, TypeOK
  <1>2. ASSUME NEW p \in Proposals, Apply(p)
        PROVE  handler'.todo = "mark" /\ handler'.status = "APPLIED"
    BY <1>2 DEF Apply
  <1>3. ASSUME NEW p \in Proposals, NEW s \in {"REJECTED", "CHANGES_REQUESTED"}, TurnDown(p, s)
        PROVE  /\ handler'.todo = "close" /\ handler'.status = s /\ request' = request
               /\ p \in Stored /\ handler'.req = proposal[p].req
               /\ s = "CHANGES_REQUESTED" => proposal[p].op # "delete"
    BY <1>3 DEF TurnDown, ActiveProposal, Stored
  <1>4. CASE ProposeDeletion
    BY <1>4 DEF ProposeDeletion
  <1>5. CASE MarkApplied
    BY <1>5 DEF MarkApplied, IInv, HandlerOwnsRequest, TypeOK, Handler
  <1>6. CASE CloseHandler \/ Crash
    <2>1. handler' = Idle
      BY <1>6 DEF CloseHandler, Crash
    <2>2. QED
      BY <2>1 DEF Idle
  <1>7. ASSUME NEW a \in Agents,
               \/ AfterAgent(a) \/ AgentExit(a) \/ ReadChangeRequest(a) \/ SupersedeAndNumber(a) \/ SaveProposal(a)
               \/ \E extra \in BOOLEAN : SubmitDraft(a, extra)
               \/ \E r \in Requests : BeginProcessing(r, a)
        PROVE  handler' = handler
    BY <1>7 DEF AfterAgent, TryAgain, FinishProcessing, AgentExit, ReadChangeRequest, SupersedeAndNumber,
                SaveProposal, SubmitDraft, BeginProcessing
  <1>8. ASSUME StartServer \/ UNCHANGED vars \/ \E r \in Requests : ProcessingRefused(r)
        PROVE  handler' = handler
    BY <1>8 DEF StartServer, vars, ProcessingRefused
  <1>9. ASSUME NEW p \in Proposals, TurnDown(p, "REJECTED") \/ TurnDown(p, "CHANGES_REQUESTED")
        PROVE  \/ handler'.todo # "propose" /\ handler'.status # "CHANGES_REQUESTED"
               \/ /\ handler'.todo = "close" /\ request' = request
                  /\ \E n \in Stored : handler'.req = proposal[n].req /\ proposal[n].op # "delete"
    BY <1>3, <1>9
  <1>10. CASE UNCHANGED vars
    BY <1>8, <1>10
  <1>11. ASSUME NEW a \in Agents, NEW extra \in BOOLEAN, SubmitDraft(a, extra)
         PROVE  handler' = handler
    BY <1>7, <1>11
  <1>12. CASE Next
    BY <1>1, <1>2, <1>4, <1>5, <1>6, <1>7, <1>8, <1>9, <1>11, <1>12 DEF Next, HandlerStep
  <1>13. QED
    BY <1>10, <1>12

LEMMA DoneAsAskedStep ==
  ASSUME IInv, DoneAsAsked, [Next]_vars
  PROVE  DoneAsAsked'
  <1>1. ASSUME NEW p \in Stored' PROVE AsAsked(proposal[p])'
    <2>1. CASE p \in Stored /\ proposal'[p].req = proposal[p].req /\ proposal'[p].op = proposal[p].op
      <3>1. About(proposal[p]) /\ AsAsked(proposal[p])
        BY <2>1 DEF IInv, ProposalsAreAbout, DoneAsAsked
      <3>2. QED
        BY <2>1, <3>1, OpStays DEF About, AsAsked
    <2>2. CASE handler.todo = "propose" /\ proposal'[p].req = handler.req /\ proposal'[p].op = "delete"
      <3>1. handler.req \in Requests /\ request[handler.req].status = "PENDING"
        BY <2>2 DEF IInv, HandlerOwnsRequest
      <3>2. QED
        BY <2>2, <3>1, OpStays DEF AsAsked, DoneAsAsked
    <2>3. ASSUME NEW a \in Agents, agent[a].pc = "saving", proposal'[p] = agent[a].draft
          PROVE  AsAsked(proposal[p])'
      <3>1. About(agent[a].draft) /\ AsAsked(agent[a].draft)
        BY <2>3 DEF IInv, DraftsAreAbout, DoneAsAsked
      <3>2. QED
        BY <2>3, <3>1, OpStays DEF About, AsAsked
    <2>4. QED
      BY <2>1, <2>2, <2>3, ProposalsFrom
  <1>2. ASSUME NEW a \in Agents, agent'[a].pc \in {"submitting", "saving"}
        PROVE  AsAsked(agent[a].draft)'
    <2>1. CASE agent[a].pc \in {"submitting", "saving"} /\ agent'[a].draft = agent[a].draft
      <3>1. About(agent[a].draft) /\ AsAsked(agent[a].draft)
        BY <2>1 DEF IInv, DraftsAreAbout, DoneAsAsked
      <3>2. QED
        BY <2>1, <3>1, OpStays DEF About, AsAsked
    <2>2. CASE /\ agent[a].pc = "informed" /\ agent'[a].draft.req = agent[a].req
               /\ agent'[a].draft.op = request[agent[a].req].op
      <3>1. agent[a].req \in Requests /\ request[agent[a].req].status # "NONE"
        BY <2>2 DEF IInv, DraftsAreAbout
      <3>2. QED
        BY <2>2, <3>1, OpStays DEF AsAsked
    <2>3. QED
      BY <1>2, <2>1, <2>2, DraftsFrom
  <1>3. ASSUME NEW a \in Agents, agent'[a].awaited
        PROVE  request'[agent'[a].req].op # "delete"
    <2>1. CASE agent[a].awaited /\ agent'[a].req = agent[a].req
      <3>1. agent[a].req \in Requests /\ request[agent[a].req].status # "NONE"
        BY <2>1 DEF IInv, JobsBelong
      <3>2. QED
        BY <2>1, <3>1, OpStays DEF DoneAsAsked
    <2>2. CASE /\ agent'[a].req \in Requests /\ request[agent'[a].req].op # "delete"
               /\ request[agent'[a].req].status # "NONE"
      BY <2>2, OpStays
    <2>3. QED
      BY <1>3, <2>1, <2>2, DraftsFrom
  <1>4. /\ handler'.todo = "propose" => request'[handler'.req].op = "delete"
        /\ handler'.todo # "nothing"
              /\ handler'.status = "CHANGES_REQUESTED" => request'[handler'.req].op # "delete"
    <2>1. CASE handler' = handler /\ handler.todo # "nothing"
      <3>1. handler.req \in Requests /\ request[handler.req].status # "NONE"
        BY <2>1 DEF IInv, HandlerOwnsRequest, TypeOK, Handler
      <3>2. QED
        BY <2>1, <3>1, OpStays DEF DoneAsAsked
    <2>2. CASE /\ handler'.todo = "close" /\ request' = request
               /\ \E p \in Stored : handler'.req = proposal[p].req /\ proposal[p].op # "delete"
      BY <2>2 DEF DoneAsAsked, AsAsked
    <2>3. QED
      BY <2>1, <2>2, HandlerFrom
  <1>5. QED
    BY <1>1, <1>2, <1>3, <1>4 DEF DoneAsAsked

(* What a request's status and latest proposal become. *)
LEMMA LatestFrame ==
  ASSUME TypeOK, NEW r \in Requests, NEW s \in RequestStatuses, NEW p \in 0..MaxProposals
  PROVE  /\ \A q \in Requests : q # r => WithStatus(r, s, p)[q] = request[q]
         /\ WithStatus(r, s, p)[r].status = s
         /\ WithStatus(r, s, p)[r].latest = IF p = 0 THEN request[r].latest ELSE p
  BY DEF TypeOK, Request, WithStatus

(* A request whose own record, proposals and handler a step leaves alone   *)
(* can be decided on as before.                                            *)
LEMMA StaysDecidable ==
  ASSUME NEW q \in Requests, Decidable(q), request'[q] = request[q],
         \A p \in ReadyOf(q) : p \in ReadyOf(q)',
         ~Busy(q), ~Busy(q)', handler'.todo # "mark"
  PROVE  Decidable(q)'
  BY DEF Decidable, Busy

LEMMA StaysDecidableWithHandler ==
  ASSUME NEW q \in Requests, Decidable(q), request'[q] = request[q],
         \A p \in ReadyOf(q) : p \in ReadyOf(q)', handler' = handler
  PROVE  Decidable(q)'
  BY DEF Decidable, Busy

LEMMA StillReady ==
  ASSUME NEW q \in Requests, NEW p \in ReadyOf(q), proposal'[p] = proposal[p]
  PROVE  p \in ReadyOf(q)'
  BY DEF ReadyOf, ProposalsOf, Stored

(* The steps of persons and of the handlers they start. *)
LEMMA HandlersLeaveDecidable ==
  ASSUME IInv, NEW q \in Requests, Decidable(q),
         \/ HandlerStep
         \/ \E p \in Proposals : Apply(p) \/ TurnDown(p, "REJECTED") \/ TurnDown(p, "CHANGES_REQUESTED")
  PROVE  Decidable(q)'
  <1>1. TypeOK /\ proposal \in [Proposals -> Proposal] /\ request \in [Requests -> Request]
    BY DEF IInv, TypeOK
  <1>2. \A p \in ReadyOf(q) : p \in Proposals /\ p \in Stored /\ proposal[p].req = q /\ proposal[p].status = "READY"
    BY DEF ReadyOf, ProposalsOf, Stored
  <1>3. CASE ProposeDeletion
    <2>1. /\ handler.todo = "propose" /\ handler.req \in Requests /\ NextProposal \in Proposals
          /\ request[handler.req].status = "PENDING" /\ request' = request
          /\ handler'.todo = "close" /\ handler'.req = handler.req /\ handler'.prop = NextProposal
      BY <1>3 DEF ProposeDeletion, IInv, HandlerOwnsRequest, history
    <2> DEFINE new == [req |-> handler.req, op |-> "delete", target |-> request[handler.req].target, base |-> suite,
                       fromBase |-> TRUE, new |-> {}, status |-> "READY"]
    <2>2. proposal' = [Superseded(handler.req) EXCEPT ![NextProposal] = new]
      BY <1>3 DEF ProposeDeletion
    <2>3. new.req = handler.req /\ new.status = "READY"
      OBVIOUS
    <2> HIDE DEF new
    <2>4. CASE q = handler.req
      <3>1. proposal'[NextProposal] = new
        BY <1>1, <2>1, <2>2, SupersededFrame
      <3>2. NextProposal \in ReadyOf(q)'
        BY <2>1, <2>3, <2>4, <3>1 DEF ReadyOf, ProposalsOf, Stored
      <3>3. QED
        BY <2>1, <2>4, <3>2 DEF Decidable, Busy
    <2>5. CASE q # handler.req
      <3>1. ASSUME NEW p \in ReadyOf(q) PROVE p \in ReadyOf(q)'
        <4>1. p # NextProposal
          BY <1>1, <1>2, NextProposalIsNew
        <4>2. p \notin ReadyOf(handler.req)
          BY <1>2, <2>5 DEF ReadyOf, ProposalsOf
        <4>3. proposal'[p] = proposal[p]
          BY <1>1, <1>2, <2>1, <2>2, <4>1, <4>2, SupersededFrame DEF Superseded
        <4>4. QED
          BY <4>3, StillReady
      <3>2. ~Busy(q) /\ ~Busy(q)'
        BY <2>1, <2>5 DEF Busy
      <3>3. QED
        BY <2>1, <3>1, <3>2, StaysDecidable
    <2>6. QED
      BY <2>4, <2>5
  <1>4. CASE MarkApplied
    <2>1. /\ handler.todo = "mark" /\ handler.status = "APPLIED" /\ request' = request
          /\ handler'.todo = "close" /\ handler'.req = handler.req /\ handler'.status = handler.status
          /\ \A p \in Proposals : p # handler.prop => proposal'[p] = proposal[p]
      BY <1>1, <1>4 DEF MarkApplied, WithProposalStatus, IInv, HandlerOwnsRequest, TypeOK, Handler, history
    <2>2. CASE request[q].status = "PROPOSAL_READY" /\ ~Busy(q)
      <3>1. request[q].latest \in ReadyOf(q) /\ request[q].latest # handler.prop
        BY <2>1, <2>2 DEF Decidable
      <3>2. request[q].latest \in ReadyOf(q)'
        BY <1>2, <2>1, <3>1, StillReady
      <3>3. QED
        BY <2>1, <2>2, <3>2 DEF Decidable, Busy
    <2>3. QED
      BY <2>1, <2>2 DEF Decidable, Busy
  <1>5. CASE CloseHandler
    <2>1. /\ handler.todo = "close" /\ handler.req \in Requests /\ handler.prop \in Proposals
          /\ handler.status \in RequestStatuses
          /\ request' = WithStatus(handler.req, handler.status, handler.prop)
          /\ handler'.todo = "nothing" /\ proposal' = proposal
      BY <1>5 DEF CloseHandler, IInv, HandlerOwnsRequest, TypeOK, Handler, Stored, Idle, history
    <2>2. ~Busy(q)' /\ (\A p \in ReadyOf(q) : p \in ReadyOf(q)')
      BY <2>1, <1>2, StillReady DEF Busy
    <2>3. handler.prop \in 0..MaxProposals /\ handler.prop # 0
      BY <2>1 DEF Proposals
    <2>4. CASE q = handler.req
      <3>1. request'[q].status = handler.status /\ request'[q].latest = handler.prop
        BY <1>1, <2>1, <2>3, <2>4, LatestFrame
      <3>2. handler.status = "PROPOSAL_READY" => handler.prop \in ReadyOf(q)
        BY <2>1, <2>4 DEF Decidable, Busy
      <3>3. QED
        BY <2>1, <2>2, <3>1, <3>2 DEF Decidable
    <2>5. CASE q # handler.req
      <3>1. request'[q] = request[q]
        BY <1>1, <2>1, <2>3, <2>5, LatestFrame
      <3>2. ~Busy(q)
        BY <2>5 DEF Busy
      <3>3. QED
        BY <2>1, <2>2, <3>1, <3>2, StaysDecidable
    <2>6. QED
      BY <2>4, <2>5
  <1>6. ASSUME NEW p \in Proposals, NEW s \in Closed \cup {"CHANGES_REQUESTED"},
               Free, request' = request, proposal[p].status = "READY",
               \A n \in Proposals : n # p => proposal'[n] = proposal[n],
               handler'.req = proposal[p].req, handler'.prop = p, handler'.status = s,
               handler'.todo \in {"mark", "close"}
        PROVE  Decidable(q)'
    <2>1. CASE q = proposal[p].req
      BY <1>6, <2>1 DEF Decidable, Busy, Closed
    <2>2. CASE q # proposal[p].req
      <3>1. ~Busy(q) /\ ~Busy(q)'
        BY <1>6, <2>2 DEF Busy, Free
      <3>2. request[q].status = "PROPOSAL_READY" => request[q].latest \in ReadyOf(q)
        BY <3>1 DEF Decidable
      <3>3. request[q].status = "PROPOSAL_READY" => request[q].latest # p
        BY <1>2, <2>2, <3>2
      <3>4. request[q].status = "PROPOSAL_READY" => request[q].latest \in ReadyOf(q)'
        BY <1>2, <1>6, <3>2, <3>3, StillReady
      <3>5. QED
        BY <1>6, <3>1, <3>3, <3>4 DEF Decidable
    <2>3. QED
      BY <2>1, <2>2
  <1>7. ASSUME NEW p \in Proposals, Apply(p)
        PROVE  Decidable(q)'
    <2>1. /\ Free /\ request' = request /\ proposal[p].status = "READY" /\ proposal' = proposal
          /\ handler'.req = proposal[p].req /\ handler'.prop = p /\ handler'.status = "APPLIED"
          /\ handler'.todo = "mark"
      BY <1>7 DEF Apply, ActiveProposal
    <2>2. QED
      BY <1>6, <2>1 DEF Closed
  <1>8. ASSUME NEW p \in Proposals, NEW s \in {"REJECTED", "CHANGES_REQUESTED"}, TurnDown(p, s)
        PROVE  Decidable(q)'
    <2>1. /\ Free /\ request' = request /\ proposal[p].status = "READY"
          /\ \A n \in Proposals : n # p => proposal'[n] = proposal[n]
          /\ handler'.req = proposal[p].req /\ handler'.prop = p /\ handler'.status = s
          /\ handler'.todo = "close"
      BY <1>1, <1>8 DEF TurnDown, ActiveProposal, WithProposalStatus, history
    <2>2. s \in Closed \cup {"CHANGES_REQUESTED"}
      BY DEF Closed
    <2>3. QED
      BY <1>6, <2>1, <2>2
  <1>9. QED
    BY <1>3, <1>4, <1>5, <1>7, <1>8 DEF HandlerStep

(* The steps of the jobs and their agents, and of the server itself. *)
LEMMA JobsLeaveDecidable ==
  ASSUME IInv, NEW q \in Requests, Decidable(q), q \notin torn', q \notin disturbed',
         \/ \E r \in Requests : ProcessingRefused(r) \/ \E a \in Agents : BeginProcessing(r, a)
         \/ \E a \in Agents : FinishProcessing(a) \/ SupersedeAndNumber(a) \/ SaveProposal(a)
         \/ Crash
         \/ StartServer
  PROVE  Decidable(q)'
  <1>1. TypeOK /\ proposal \in [Proposals -> Proposal] /\ request \in [Requests -> Request]
    BY DEF IInv, TypeOK
  <1>2. \A p \in ReadyOf(q) : p \in Proposals /\ p \in Stored /\ proposal[p].req = q /\ proposal[p].status = "READY"
    BY DEF ReadyOf, ProposalsOf, Stored
  <1>3. ASSUME NEW r \in Requests, NEW s \in RequestStatuses, NEW p \in 0..MaxProposals,
               Free, handler' = handler, proposal' = proposal, request' = WithStatus(r, s, p),
               s = "PROPOSAL_READY" => p \in ReadyOf(r) /\ p # 0
        PROVE  Decidable(q)'
    <2>1. ~Busy(q) /\ ~Busy(q)' /\ handler'.todo # "mark"
      BY <1>3 DEF Free, Busy
    <2>2. \A n \in ReadyOf(q) : n \in ReadyOf(q)'
      BY <1>2, <1>3, StillReady
    <2>3. CASE q = r
      <3>1. request'[q].status = s /\ (p # 0 => request'[q].latest = p)
        BY <1>1, <1>3, <2>3, LatestFrame
      <3>2. QED
        BY <1>3, <2>1, <2>2, <2>3, <3>1 DEF Decidable
    <2>4. CASE q # r
      <3>1. request'[q] = request[q]
        BY <1>1, <1>3, <2>4, LatestFrame
      <3>2. QED
        BY <2>1, <2>2, <3>1, StaysDecidable
    <2>5. QED
      BY <2>3, <2>4
  <1>4. ASSUME NEW r \in Requests, ProcessingRefused(r)
        PROVE  Decidable(q)'
    BY <1>3, <1>4 DEF ProcessingRefused, RequestStatuses
  <1>5. ASSUME NEW r \in Requests, NEW a \in Agents, BeginProcessing(r, a)
        PROVE  Decidable(q)'
    BY <1>3, <1>5 DEF BeginProcessing, RequestStatuses
  <1>6. ASSUME NEW a \in Agents, FinishProcessing(a)
        PROVE  Decidable(q)'
    <2>1. Free /\ handler' = handler /\ proposal' = proposal /\ agent[a].req \in Requests
      BY <1>6 DEF FinishProcessing, IInv, JobsBelong
    <2>2. CASE request' = WithStatus(agent[a].req, "FAILED", 0)
      <3>1. "FAILED" \in RequestStatuses /\ "FAILED" # "PROPOSAL_READY" /\ 0 \in 0..MaxProposals
        BY DEF RequestStatuses
      <3>2. QED
        BY <1>3, <2>1, <2>2, <3>1
    <2>3. ASSUME NEW p \in ReadyOf(agent[a].req), request' = WithStatus(agent[a].req, "PROPOSAL_READY", p)
          PROVE  Decidable(q)'
      <3>1. p \in 0..MaxProposals /\ p # 0
        BY DEF ReadyOf, ProposalsOf, Stored, Proposals
      <3>2. QED
        BY <1>3, <2>1, <2>3, <3>1 DEF RequestStatuses
    <2>4. QED
      BY <1>6, <2>2, <2>3 DEF FinishProcessing
  <1>7. ASSUME NEW a \in Agents, SupersedeAndNumber(a)
        PROVE  Decidable(q)'
    <2>1. /\ request' = request /\ handler' = handler /\ proposal' = Superseded(agent[a].req)
          /\ agent[a].req = q => request[q].status = "PROCESSING"
      BY <1>7 DEF SupersedeAndNumber
    <2>2. CASE q = agent[a].req
      <3>1. ~Busy(q) \/ handler.status # "PROPOSAL_READY"
        BY <2>1, <2>2 DEF Busy, IInv, HandlerOwnsRequest, TypeOK, Handler
      <3>2. QED
        BY <2>1, <2>2, <3>1 DEF Decidable, Busy
    <2>3. CASE q # agent[a].req
      <3>1. ASSUME NEW p \in ReadyOf(q) PROVE p \in ReadyOf(q)'
        <4>1. p \notin ReadyOf(agent[a].req)
          BY <1>2, <2>3 DEF ReadyOf, ProposalsOf
        <4>2. proposal'[p] = proposal[p]
          BY <1>2, <2>1, <4>1 DEF Superseded
        <4>3. QED
          BY <4>2, StillReady
      <3>2. QED
        BY <2>1, <3>1, StaysDecidableWithHandler
    <2>4. QED
      BY <2>2, <2>3
  <1>8. ASSUME NEW a \in Agents, SaveProposal(a)
        PROVE  Decidable(q)'
    <2>1. /\ request' = request /\ handler' = handler
          /\ \A p \in Proposals : p # agent[a].slot => proposal'[p] = proposal[p]
          /\ agent[a].slot \in Stored => proposal[agent[a].slot].req # q
      BY <1>1, <1>8 DEF SaveProposal
    <2>2. ASSUME NEW p \in ReadyOf(q) PROVE p \in ReadyOf(q)'
      <3>1. p # agent[a].slot
        BY <1>2, <2>1
      <3>2. QED
        BY <1>2, <2>1, <3>1, StillReady
    <2>3. QED
      BY <2>1, <2>2, StaysDecidableWithHandler
  <1>9. CASE Crash
    <2>1. /\ request' = request /\ proposal' = proposal /\ handler'.todo = "nothing"
          /\ handler.todo # "nothing" => handler.req # q
      BY <1>9 DEF Crash, Idle
    <2>2. ~Busy(q) /\ ~Busy(q)' /\ (\A p \in ReadyOf(q) : p \in ReadyOf(q)')
      BY <1>2, <2>1, StillReady DEF Busy
    <2>3. QED
      BY <2>1, <2>2, StaysDecidable
  <1>10. CASE StartServer
    <2>1. /\ proposal' = proposal /\ handler' = handler
          /\ request[q].status = "PROCESSING" => request'[q].status = "FAILED"
          /\ request[q].status # "PROCESSING" => request'[q] = request[q]
      BY <1>1, <1>10 DEF StartServer, history, Request
    <2>2. \A p \in ReadyOf(q) : p \in ReadyOf(q)'
      BY <1>2, <2>1, StillReady
    <2>3. CASE request[q].status = "PROCESSING"
      <3>1. ~Busy(q) \/ handler.status # "PROPOSAL_READY"
        BY <2>3 DEF Busy, IInv, HandlerOwnsRequest, TypeOK, Handler
      <3>2. QED
        BY <2>1, <2>2, <2>3, <3>1 DEF Decidable, Busy
    <2>4. QED
      BY <2>1, <2>2, <2>3, StaysDecidableWithHandler
  <1>11. QED
    BY <1>4, <1>5, <1>6, <1>7, <1>8, <1>9, <1>10

LEMMA DecidableStep ==
  ASSUME IInv, [Next]_vars, NEW q \in Requests, Decidable(q), q \notin torn', q \notin disturbed'
  PROVE  Decidable(q)'
  <1>1. ASSUME NEW r \in Requests, NEW op \in Operations, NEW t \in Cases \cup {None},
               CreateRequest(r, op, t)
        PROVE  Decidable(q)'
    <2>1. /\ handler.todo = "nothing" /\ proposal' = proposal /\ handler'.todo \in {"nothing", "propose"}
          /\ handler' = handler \/ (handler'.req = r /\ handler'.status = "NONE")
      BY <1>1 DEF CreateRequest, Free
    <2>2. \A p \in ReadyOf(q) : p \in ReadyOf(q)'
      BY <2>1, StillReady
    <2>3. CASE q = r
      <3>1. request'[q].status = "PENDING"
        BY <1>1, <2>3 DEF CreateRequest, IInv, TypeOK
      <3>2. QED
        BY <2>1, <3>1 DEF Decidable, Busy
    <2>4. CASE q # r
      <3>1. request'[q] = request[q]
        BY <1>1, <2>4 DEF CreateRequest, IInv, TypeOK
      <3>2. ~Busy(q) /\ ~Busy(q)' /\ handler'.todo # "mark"
        BY <2>1, <2>4 DEF Busy
      <3>3. QED
        BY <2>2, <3>1, <3>2, StaysDecidable
    <2>5. QED
      BY <2>3, <2>4
  <1>2. ASSUME UNCHANGED <<request, proposal, handler>>
        PROVE  Decidable(q)'
    BY <1>2, StillReady, StaysDecidableWithHandler
  <1>3. ASSUME NEW a \in Agents,
               \/ TryAgain(a) \/ AgentExit(a) \/ ReadChangeRequest(a)
               \/ \E extra \in BOOLEAN : SubmitDraft(a, extra)
        PROVE  UNCHANGED <<request, proposal, handler>>
    BY <1>3 DEF TryAgain, AgentExit, ReadChangeRequest, SubmitDraft
  <1>4. ASSUME NEW a \in Agents, NEW extra \in BOOLEAN, SubmitDraft(a, extra)
        PROVE  Decidable(q)'
    BY <1>2, <1>3, <1>4
  <1>5. CASE UNCHANGED vars
    BY <1>2, <1>5 DEF vars
  <1>6. CASE Next
    BY <1>1, <1>2, <1>3, <1>4, <1>6, HandlersLeaveDecidable, JobsLeaveDecidable DEF Next, AfterAgent
  <1>7. QED
    BY <1>5, <1>6

(* A request to delete is proposed in the handler that takes it, and is    *)
(* never processed or sent back for changes.                               *)
LEMMA DeletionStep ==
  ASSUME IInv, DoneAsAsked, [Next]_vars, NEW q \in Requests, DeletionStands(q), q \notin torn'
  PROVE  DeletionStands(q)'
  <1>1. TypeOK /\ request \in [Requests -> Request]
    BY DEF IInv, TypeOK
  <1>2. ASSUME NEW r \in Requests, NEW op \in Operations, NEW t \in Cases \cup {None},
               CreateRequest(r, op, t)
        PROVE  DeletionStands(q)'
    <2>1. /\ handler.todo = "nothing"
          /\ q = r => /\ request'[q].op = op /\ request'[q].status = "PENDING"
                      /\ op = "delete" => handler'.todo = "propose" /\ handler'.req = q
          /\ q # r => request'[q] = request[q]
      BY <1>1, <1>2 DEF CreateRequest, Free
    <2>2. CASE q = r
      BY <2>1, <2>2 DEF DeletionStands, Busy
    <2>3. CASE q # r
      BY <2>1, <2>3 DEF DeletionStands, Busy
    <2>4. QED
      BY <2>2, <2>3
  <1>3. ASSUME NEW r \in Requests, NEW s \in RequestStatuses, NEW p \in 0..MaxProposals,
               handler.todo = "nothing", handler' = handler, request' = WithStatus(r, s, p),
               request[r].op # "delete"
        PROVE  DeletionStands(q)'
    <2>1. CASE q = r
      BY <1>1, <1>3, <2>1, WithStatusFrame DEF DeletionStands
    <2>2. CASE q # r
      <3>1. request'[q] = request[q]
        BY <1>1, <1>3, <2>2, LatestFrame
      <3>2. QED
        BY <1>3, <3>1 DEF DeletionStands, Busy
    <2>3. QED
      BY <2>1, <2>2
  <1>4. ASSUME NEW r \in Requests, ProcessingRefused(r) \/ \E a \in Agents : BeginProcessing(r, a)
        PROVE  DeletionStands(q)'
    BY <1>3, <1>4 DEF ProcessingRefused, BeginProcessing, Free, RequestStatuses
  <1>5. ASSUME NEW a \in Agents, FinishProcessing(a)
        PROVE  DeletionStands(q)'
    <2>1. /\ handler.todo = "nothing" /\ handler' = handler /\ agent[a].req \in Requests
          /\ request[agent[a].req].op # "delete"
      BY <1>5 DEF FinishProcessing, Free, IInv, JobsBelong, DoneAsAsked
    <2>2. PICK s \in {"FAILED", "PROPOSAL_READY"}, p \in 0..MaxProposals : request' = WithStatus(agent[a].req, s, p)
      BY <1>5 DEF FinishProcessing, ReadyOf, ProposalsOf, Stored, Proposals
    <2>3. QED
      BY <1>3, <2>1, <2>2 DEF RequestStatuses
  <1>6. CASE CloseHandler
    <2>1. /\ handler.req \in Requests /\ handler.prop \in 0..MaxProposals
          /\ handler.status \in {"PROPOSAL_READY", "CHANGES_REQUESTED"} \cup Closed
          /\ handler.status \in RequestStatuses
          /\ request' = WithStatus(handler.req, handler.status, handler.prop)
          /\ handler.status = "CHANGES_REQUESTED" => request[handler.req].op # "delete"
      BY <1>6 DEF CloseHandler, IInv, HandlerOwnsRequest, TypeOK, Handler, DoneAsAsked
    <2>2. CASE q = handler.req
      <3>1. request'[q].status = handler.status /\ request'[q].op = request[q].op
        BY <1>1, <2>1, <2>2, WithStatusFrame
      <3>2. QED
        BY <2>1, <2>2, <3>1 DEF DeletionStands
    <2>3. CASE q # handler.req
      <3>1. request'[q] = request[q]
        BY <1>1, <2>1, <2>3, LatestFrame
      <3>2. QED
        BY <2>3, <3>1 DEF DeletionStands, Busy
    <2>4. QED
      BY <2>2, <2>3
  <1>7. CASE StartServer
    <2>1. /\ handler' = handler /\ request'[q].op = request[q].op
          /\ request[q].status # "PROCESSING" => request'[q] = request[q]
      BY <1>1, <1>7 DEF StartServer, history, Request
    <2>2. QED
      BY <2>1 DEF DeletionStands, Busy, Closed
  <1>8. CASE Crash
    BY <1>8 DEF Crash, DeletionStands, Busy
  <1>9. ASSUME request' = request, Busy(q) => Busy(q)'
        PROVE  DeletionStands(q)'
    BY <1>9 DEF DeletionStands
  <1>10. ASSUME NEW p \in Proposals, Apply(p) \/ TurnDown(p, "REJECTED") \/ TurnDown(p, "CHANGES_REQUESTED")
         PROVE  request' = request /\ ~Busy(q)
    BY <1>10 DEF Apply, TurnDown, Free, history, Busy
  <1>11. ASSUME ProposeDeletion \/ MarkApplied
         PROVE  request' = request /\ (Busy(q) => Busy(q)')
    BY <1>11 DEF ProposeDeletion, MarkApplied, IInv, TypeOK, Handler, history, Busy
  <1>12. ASSUME UNCHANGED <<request, handler>>
         PROVE  DeletionStands(q)'
    BY <1>12 DEF DeletionStands, Busy
  <1>13. ASSUME NEW a \in Agents,
                \/ TryAgain(a) \/ AgentExit(a) \/ ReadChangeRequest(a) \/ SupersedeAndNumber(a) \/ SaveProposal(a)
                \/ \E extra \in BOOLEAN : SubmitDraft(a, extra)
         PROVE  UNCHANGED <<request, handler>>
    BY <1>13 DEF TryAgain, AgentExit, ReadChangeRequest, SupersedeAndNumber, SaveProposal, SubmitDraft
  <1>14. ASSUME NEW a \in Agents, NEW extra \in BOOLEAN, SubmitDraft(a, extra)
         PROVE  DeletionStands(q)'
    BY <1>12, <1>13, <1>14
  <1>15. CASE UNCHANGED vars
    BY <1>12, <1>15 DEF vars
  <1>16. CASE Next
    BY <1>2, <1>4, <1>5, <1>6, <1>7, <1>8, <1>9, <1>10, <1>11, <1>12, <1>13, <1>14, <1>16
       DEF Next, HandlerStep, AfterAgent
  <1>17. QED
    BY <1>15, <1>16

LEMMA InitWaysOn == Init => WaysOn
  <1> SUFFICES ASSUME Init PROVE WaysOn
    OBVIOUS
  <1>1. /\ Stored = {} /\ handler.todo = "nothing"
        /\ \A a \in Agents : agent[a].pc = "exited" /\ ~agent[a].awaited
        /\ \A r \in Requests : request[r].status = "NONE"
    BY DEF Init, NoAgent, Stored, NoDraft, Idle
  <1>2. QED
    BY <1>1 DEF WaysOn, DoneAsAsked, Decidable, DeletionStands, Busy

LEMMA NextWaysOn == IInv /\ WaysOn /\ [Next]_vars => WaysOn'
  <1> SUFFICES ASSUME IInv, WaysOn, [Next]_vars PROVE WaysOn'
    OBVIOUS
  <1>1. torn \subseteq torn' /\ disturbed \subseteq disturbed'
    <2>1. CASE Crash
      BY <2>1 DEF Crash
    <2>2. ASSUME NEW a \in Agents,
                 \/ AfterAgent(a) \/ AgentExit(a) \/ ReadChangeRequest(a) \/ SupersedeAndNumber(a)
                       \/ SaveProposal(a)
                 \/ \E extra \in BOOLEAN : SubmitDraft(a, extra)
                 \/ \E r \in Requests : BeginProcessing(r, a)
          PROVE  torn \subseteq torn' /\ disturbed \subseteq disturbed'
      BY <2>2 DEF AfterAgent, TryAgain, FinishProcessing, AgentExit, ReadChangeRequest, SupersedeAndNumber,
                  SaveProposal, SubmitDraft, BeginProcessing, history
    <2>3. ASSUME NEW a \in Agents, NEW extra \in BOOLEAN, SubmitDraft(a, extra)
          PROVE  torn \subseteq torn' /\ disturbed \subseteq disturbed'
      BY <2>2, <2>3
    <2>4. ASSUME NEW p \in Proposals, Apply(p) \/ TurnDown(p, "REJECTED") \/ TurnDown(p, "CHANGES_REQUESTED")
          PROVE  torn' = torn /\ disturbed' = disturbed
      BY <2>4 DEF Apply, TurnDown, history
    <2>5. ASSUME \/ HandlerStep \/ StartServer
                 \/ \E r \in Requests : ProcessingRefused(r)
                 \/ \E r \in Requests, op \in Operations, t \in Cases \cup {None} : CreateRequest(r, op, t)
          PROVE  torn' = torn /\ disturbed' = disturbed
      BY <2>5 DEF HandlerStep, ProposeDeletion, MarkApplied, CloseHandler, StartServer, ProcessingRefused,
                  CreateRequest, history
    <2>6. CASE UNCHANGED vars
      BY <2>6 DEF vars
    <2>7. CASE Next
      BY <2>1, <2>2, <2>3, <2>4, <2>5, <2>7 DEF Next
    <2>8. QED
      BY <2>6, <2>7
  <1>2. DoneAsAsked'
    BY DoneAsAskedStep DEF WaysOn
  <1>3. ASSUME NEW q \in Requests, q \notin torn', q \notin disturbed'
        PROVE  Decidable(q)'
    <2>1. Decidable(q)
      BY <1>1, <1>3 DEF WaysOn
    <2>2. QED
      BY <1>3, <2>1, DecidableStep
  <1>4. ASSUME NEW q \in Requests, q \notin torn'
        PROVE  DeletionStands(q)'
    <2>1. DeletionStands(q) /\ DoneAsAsked
      BY <1>1, <1>4 DEF WaysOn
    <2>2. QED
      BY <1>4, <2>1, DeletionStep
  <1>5. QED
    BY <1>2, <1>3, <1>4 DEF WaysOn

(* Proposals and deletions stay decidable, in every behaviour. *)
THEOREM WaysOnInvariant == Spec => [](IInv /\ WaysOn)
  <1>1. Init => IInv /\ WaysOn
    BY InitIInv, InitWaysOn
  <1>2. IInv /\ WaysOn /\ [Next]_vars => (IInv /\ WaysOn)'
    BY NextIInv, NextWaysOn
  <1>3. QED
    BY <1>1, <1>2, PTL DEF Spec

(* An open request can be taken further: processed, waited for, or its     *)
(* latest proposal decided on (server.ts' handlers and their refusals).    *)
THEOREM NobodyIsStuck == Spec => []NoDeadEnd
  <1>1. IInv /\ WaysOn => NoDeadEnd
    <2> SUFFICES ASSUME IInv, WaysOn, Free, NEW r \in Requests, r \notin torn, r \notin disturbed
                 PROVE  \/ request[r].status \in {"NONE"} \cup Closed
                        \/ request[r].status \in Processable /\ request[r].op # "delete"
                        \/ request[r].status = "PROCESSING"
                        \/ request[r].status = "PROPOSAL_READY" /\ request[r].latest \in ReadyOf(r)
      BY DEF NoDeadEnd
    <2>1. ~Busy(r) /\ Decidable(r) /\ DeletionStands(r)
      BY DEF WaysOn, Free, Busy
    <2>2. request[r].status \in RequestStatuses
      BY DEF IInv, TypeOK, Request
    <2>3. QED
      BY <2>1, <2>2 DEF Decidable, DeletionStands, RequestStatuses, Processable, Closed
  <1>2. QED
    BY <1>1, WaysOnInvariant, PTL
=============================================================================
