--------------------------- MODULE ApiValidation ---------------------------
(***************************************************************************)
(* API discovery as a stage of a Phase 1 run: the host reads the           *)
(* documentation (src/src/lib/api-discovery.ts), calls the documented      *)
(* operations under its policy (src/src/lib/api-validation.ts) and judges  *)
(* its own stage (src/scripts/qa-manual.mjs).  No agent takes part.        *)
(*                                                                         *)
(* The server is outside: it answers a request with any of Replies.  A     *)
(* path is the sequence of its segments, a value of a parameter says where *)
(* it came from, so that the URL of a request tells whose resource it is.  *)
(***************************************************************************)
EXTENDS Naturals, Sequences, FiniteSets, SequencesExt

CONSTANTS
    Configurations,   \* what a run may be started with (see ConfigurationFields)
    Replies,          \* what the server may answer
    PathParams,       \* the segments that are parameters: "{id}"
    MaxCandidates,    \* LIMITS.candidates: places looked at for a specification
    FailuresToAbort   \* LIVE_LIMITS.failuresToAbort

ConfigurationFields ==
    {"mode", "uiSkipped", "site", "doc", "login", "enabled", "base", "env", "approved", "auth", "pathParams", "maxRequests"}

Methods == {"GET", "POST", "PUT", "PATCH", "DELETE", "HEAD", "OPTIONS", "TRACE"}

\* An operation as the prober takes it from the document: params are its path
\* parameters in the order declared, examples those with a documented value.
Operation ==
    [method : Methods, path : Seq(STRING) \ {<<>>}, params : Seq(PathParams), named : BOOLEAN, secured : BOOLEAN,
     body : {"none", "optional", "required", "unsupported"}, statuses : SUBSET Nat, content : BOOLEAN,
     header : BOOLEAN, unfillable : BOOLEAN, examples : SUBSET PathParams]
Reply ==
    [status : Nat, error : {"", "TIMEOUT", "CONNECTION", "TOO_LARGE"}, text : {"none", "fits", "breaks"}, type : STRING,
     header : BOOLEAN, carries : BOOLEAN]

\* A document lists an operation under its path and its method.
ASSUME ConfigurationAssumption ==
    \A c \in Configurations :
        /\ DOMAIN c = ConfigurationFields /\ c.maxRequests \in Nat \ {0} /\ c.login \in 0..Len(c.doc)
        /\ c.doc \in Seq(Operation)
        /\ \A i, j \in DOMAIN c.doc : c.doc[i].path = c.doc[j].path /\ c.doc[i].method = c.doc[j].method => i = j
ASSUME ReplyAssumption ==
    /\ Replies \subseteq Reply /\ PathParams \subseteq STRING
    /\ \A r \in Replies : r.error # "" => r.status = 0
ASSUME BoundAssumption == MaxCandidates \in Nat /\ FailuresToAbort \in Nat \ {0}

VARIABLES
    cfg,        \* the configuration of this run
    pc,         \* where the stage is
    docs,       \* status of api-discovery
    auth,       \* authentication.status
    agenda,     \* the operations still to consider, each in its pass
    pending,    \* the kinds of probe still to send to the first of them
    values,     \* with which values for its parameters
    endpoints,  \* operation -> its entry in api-validation
    probes,     \* the probes of the artifact, in the order they were sent
    wire,       \* requestsSent, failuresInARow, stopped
    created,    \* <<path of the POST, id>> of what this run created
    status      \* status of api-validation

vars == <<cfg, pc, docs, auth, agenda, pending, values, endpoints, probes, wire, created, status>>

-----------------------------------------------------------------------------
(* What the documentation says. *)

\* operationSafety.
Safety(o) ==
    IF o.method = "DELETE" THEN "DESTRUCTIVE"
    ELSE IF o.method \in {"POST", "PUT", "PATCH"} THEN "STATE_CHANGING"
    ELSE IF o.named THEN "UNSAFE_GET" ELSE "SAFE"

\* collectionOf: the path without a parameter at its end.
Collection(path) == IF Last(path) \in PathParams THEN Front(path) ELSE path

\* documentedResponse: statuses holds codes, ranges (2 for 2XX) and 0 for default.
Documented(o, code) == {code, code \div 100, 0} \cap o.statuses # {}

\* locateSpec: the document itself, or a page that holds it or says where it is.
Located(site) ==
    \/ site.first = "spec"
    \/ /\ site.first = "html"
       /\ site.embedded \/ \E i \in DOMAIN site.candidates : i <= MaxCandidates /\ site.candidates[i] = "spec"

\* rawOperations and extractApiDiscovery, which list the same operations in the
\* document's order.
Operations(c) == IF Located(c.site) THEN c.doc ELSE <<>>

\* discoverApiDocument.
Discovered(c) == IF c.mode = "UI_ONLY" \/ c.site.first = "none" THEN "NOT_REQUESTED"
                 ELSE IF Operations(c) # <<>> THEN "AVAILABLE" ELSE "UNAVAILABLE"

-----------------------------------------------------------------------------
(* One response against the contract (evaluateResponse). *)

Success(code) == code \in 200..399
\* EXPECTS.
Expected(kind, code) ==
    IF kind = "UNAUTHENTICATED" THEN code \in {401, 403}
    ELSE IF kind = "INVALID_BODY" THEN code \in 400..499
    ELSE IF kind = "NOT_FOUND" THEN code \in {404, 400, 422}
    ELSE Success(code)

\* toJsonSchema and schemaProblems: the body conforms, or nothing can be checked.
Fits(r) == r.text = "fits"
HasBody(o, r) == r.text # "none" /\ o.method # "HEAD" /\ r.status \notin {204, 304}
ContentChecked(o, r) == Documented(o, r.status) /\ o.content /\ HasBody(o, r)
Outcome(b) == IF b THEN "PASS" ELSE "FAIL"

\* The checks of one response; NOT_CHECKED also stands for a check that is not made.
Checks(o, kind, r) ==
    [STATUS       |-> Outcome(Documented(o, r.status)),
     EXPECTATION  |-> Outcome(Expected(kind, r.status)),
     CONTENT_TYPE |-> IF ContentChecked(o, r) THEN Outcome(r.type = "json") ELSE "NOT_CHECKED",
     SCHEMA       |-> IF ContentChecked(o, r) /\ r.type = "json" THEN Outcome(Fits(r)) ELSE "NOT_CHECKED",
     HEADERS      |-> IF Documented(o, r.status) /\ o.header THEN Outcome(r.header) ELSE "NOT_CHECKED"]

\* evidenceOf.
MutantEvidenceOfStatusOnly(checks) == IF checks.STATUS = "PASS" THEN "VALIDATED" ELSE "OBSERVED"
EvidenceOf(checks) ==
    IF checks.STATUS = "PASS" /\ checks.EXPECTATION = "PASS" /\ \A name \in DOMAIN checks : checks[name] # "FAIL"
    THEN "VALIDATED" ELSE "OBSERVED"

\* The findings that contradict what the document states: CONTRACT_VIOLATION.
\* The others (POTENTIAL_ISSUE) ask for a person and weigh on no evidence.
Contradicts(o, kind, r) ==
    LET checks == Checks(o, kind, r) IN
    \/ r.status < 500 /\ kind \in {"UNAUTHENTICATED", "INVALID_BODY"} /\ ~Expected(kind, r.status)
    \/ ~Documented(o, r.status) /\ Expected(kind, r.status) /\ r.status < 400
    \/ \E name \in {"CONTENT_TYPE", "SCHEMA", "HEADERS"} : checks[name] = "FAIL"

-----------------------------------------------------------------------------
(* Values for path parameters (pathValuesFor). *)

Names(o) == Range(o.params)
IdsOf(path) == {c[2] : c \in {d \in created : d[1] = path}}

\* The values known without a request; a documented example is one only if asked for.
Given(o, source) == cfg.pathParams \cup (IF source = "CONFIGURED" THEN o.examples ELSE {})

Available(o, source) ==
    IF source = "CONFIGURED" THEN Names(o) \subseteq Given(o, source)
    ELSE \/ o.params = <<>>
         \/ /\ IdsOf(Collection(o.path)) # {}
            /\ Range(Front(o.params)) \subseteq cfg.pathParams

Values(o, source) ==
    [p \in Names(o) |->
        IF source = "CREATED" /\ p = Last(o.params) THEN CHOOSE id \in IdsOf(Collection(o.path)) : TRUE
        ELSE IF p \in Given(o, source) /\ ~(source = "ABSENT" /\ p = Last(o.params)) THEN <<"configured", p>>
        ELSE <<"absent", p>>]

Url(o, given) == [i \in DOMAIN o.path |-> IF o.path[i] \in DOMAIN given THEN given[o.path[i]] ELSE <<o.path[i]>>]

-----------------------------------------------------------------------------
(* The probes of one operation. *)

Protected == cfg.env = "production"
\* mayRun: why an operation is not called at all, or "".
MutantRefusedApprovedFirst(o) ==
    IF o.method = "TRACE" THEN "UNSUPPORTED_METHOD"
    ELSE IF Safety(o) = "SAFE" \/ o \in cfg.approved THEN ""
    ELSE IF Protected THEN "ENVIRONMENT_PROTECTED" ELSE "APPROVAL_REQUIRED"
Refused(o) ==
    IF o.method = "TRACE" THEN "UNSUPPORTED_METHOD"
    ELSE IF Safety(o) = "SAFE" THEN ""
    ELSE IF Protected THEN "ENVIRONMENT_PROTECTED"
    ELSE IF o \notin cfg.approved THEN "APPROVAL_REQUIRED" ELSE ""

Skipping(reason)      == [skip |-> reason, kinds |-> <<>>, values |-> <<>>]
Sending(kinds, given) == [skip |-> "", kinds |-> kinds, values |-> given]
Signed == auth = "READY"

\* probeRead, and what is read of an operation without a value for its parameters.
ReadKinds(o, last) ==
    IF ~o.secured THEN <<last>>
    ELSE IF Signed THEN <<"UNAUTHENTICATED", last>> ELSE <<"UNAUTHENTICATED">>
ReadPlan(o) ==
    IF Refused(o) # "" THEN Skipping(Refused(o))
    ELSE IF Available(o, "CONFIGURED")
         THEN Sending(ReadKinds(o, IF o.secured THEN "AUTHENTICATED" ELSE "ANONYMOUS"), Values(o, "CONFIGURED"))
    ELSE IF Safety(o) = "SAFE" /\ 404 \in o.statuses THEN Sending(ReadKinds(o, "NOT_FOUND"), Values(o, "ABSENT"))
    ELSE IF Safety(o) = "SAFE" /\ o.secured THEN Sending(<<"UNAUTHENTICATED">>, Values(o, "ABSENT"))
    ELSE Skipping("MISSING_PARAMETERS")

\* runWrite.
WriteKinds(o) ==
    IF o.secured /\ ~Signed THEN <<"UNAUTHENTICATED">>
    ELSE IF o.body = "none" THEN <<IF o.secured THEN "AUTHENTICATED" ELSE "ANONYMOUS">>
    ELSE IF o.body = "optional" THEN <<"VALID_BODY">> ELSE <<"INVALID_BODY", "VALID_BODY">>
WritePlan(o, given) == IF o.body = "unsupported" THEN Skipping("UNSUPPORTED_BODY") ELSE Sending(WriteKinds(o), given)

PostPlan(o) ==
    IF Refused(o) # "" THEN Skipping(Refused(o))
    ELSE IF Available(o, "CREATED") THEN WritePlan(o, Values(o, "CREATED"))
    ELSE IF Available(o, "CONFIGURED") THEN WritePlan(o, Values(o, "CONFIGURED"))
    ELSE Skipping("MISSING_PARAMETERS")

\* A read of what this run created, unless the operation has served a read already.
\* mayRun is not asked.
CreatedPlan(o, e) ==
    IF /\ IdsOf(Collection(o.path)) # {} /\ o.path # Collection(o.path) /\ Available(o, "CREATED")
       /\ {"AUTHENTICATED", "ANONYMOUS"} \cap e.validated = {}
    THEN Sending(<<IF o.secured THEN "AUTHENTICATED" ELSE "ANONYMOUS">>, Values(o, "CREATED"))
    ELSE Skipping("")

MutantChangePlanConfigured(o) ==
    IF Refused(o) # "" THEN Skipping(Refused(o))
    ELSE WritePlan(o, Values(o, IF Available(o, "CREATED") THEN "CREATED" ELSE "CONFIGURED"))
\* PUT, PATCH and DELETE.
ChangePlan(o) ==
    IF Refused(o) # "" THEN Skipping(Refused(o))
    ELSE IF Available(o, "CREATED") THEN WritePlan(o, Values(o, "CREATED")) ELSE Skipping("MISSING_TEST_DATA")

\* The passes over the operations, in the order the prober takes them.
Passes == <<"READ", "POST", "CREATED", "PUT", "PATCH", "DELETE">>
Pass(x) == Passes[x.pass]
Plan(x, o, e) ==
    IF Pass(x) = "READ" THEN ReadPlan(o) ELSE IF Pass(x) = "POST" THEN PostPlan(o)
    ELSE IF Pass(x) = "CREATED" THEN CreatedPlan(o, e) ELSE ChangePlan(o)

InPass(pass, o) ==
    IF pass = "READ" THEN Safety(o) \in {"SAFE", "UNSAFE_GET"}
    ELSE IF pass = "CREATED" THEN Safety(o) = "SAFE" ELSE o.method = pass
Agenda(doc) == {x \in [pass : DOMAIN Passes, op : DOMAIN doc] : InPass(Pass(x), doc[x.op])}

-----------------------------------------------------------------------------
(* The stage. *)

NoEntry == [evidence |-> "DOCUMENTED", execution |-> "SKIPPED", skip |-> "NOT_ATTEMPTED", validated |-> {}, observed |-> {}]
Running == ""   \* stopped: not

Init ==
    /\ cfg \in Configurations
    /\ pc = "READ_DOCS" /\ docs = "NONE" /\ auth = "NOT_CONFIGURED"
    /\ agenda = {} /\ pending = <<>> /\ values = <<>> /\ endpoints = <<>> /\ probes = <<>> /\ created = {}
    /\ wire = [sent |-> 0, failures |-> 0, stopped |-> Running]
    /\ status = "NONE"

Idle == UNCHANGED <<cfg, auth, agenda, pending, values, probes, wire, created>>

\* qa-manual reads the documentation; without an interface and without an API
\* there is nothing to discover, and the run fails before anything is archived.
ReadDocs ==
    /\ pc = "READ_DOCS"
    /\ docs' = Discovered(cfg)
    /\ LET go == docs' = "AVAILABLE" /\ cfg.enabled IN
       /\ pc' = IF cfg.uiSkipped /\ docs' # "AVAILABLE" THEN "FAILED" ELSE IF go THEN "BASE_URL" ELSE "CONTINUES"
       /\ status' = IF pc' = "CONTINUES" THEN "NOT_REQUESTED" ELSE "NONE"
       /\ endpoints' = IF go THEN [i \in DOMAIN cfg.doc |-> NoEntry] ELSE <<>>
    /\ Idle

\* resolveBaseUrl and the addresses: where the API is, and that it may be called.
MayBeCalled(base) == base = "allowed"

\* Only an allowed host that resolves to no forbidden address is called.
CheckHost ==
    /\ pc = "BASE_URL"
    /\ pc' = IF MayBeCalled(cfg.base) THEN "SIGN_IN" ELSE "CONTINUES"
    /\ status' = IF MayBeCalled(cfg.base) THEN "NONE" ELSE "UNAVAILABLE"
    /\ UNCHANGED <<docs, endpoints>> /\ Idle

MutantCountedTimeoutResets(w, reply) ==
    [w EXCEPT !.sent = @ + 1, !.failures = IF reply.error = "CONNECTION" THEN @ + 1 ELSE 0]
\* send: what one request does to the counters.
Counted(w, reply) ==
    [w EXCEPT !.sent = @ + 1,
              !.failures = IF reply.error = "" THEN 0 ELSE IF reply.error = "CONNECTION" THEN @ + 1 ELSE @]

\* schemesOf and applierFor: what is configured can be attached to a request.
\* A name and a password need a scheme the document declares, or a sign-in.
Attachable(credential) ==
    IF credential = "none" THEN "NOT_CONFIGURED" ELSE IF credential \in {"token", "basic"} THEN "READY" ELSE "FAILED"

\* tokenIn: a body has a token, at most two levels down.
TokenIn(reply) == reply.carries

\* Credentials: configured, or obtained by the POST the host names.
SignIn ==
    /\ pc = "SIGN_IN"
    /\ \/ /\ ~(cfg.auth = "login" /\ cfg.login # 0)
          /\ auth' = Attachable(cfg.auth)
          /\ UNCHANGED wire
       \/ /\ cfg.auth = "login" /\ cfg.login # 0
          /\ \E reply \in Replies :
                /\ wire' = Counted(wire, reply)
                /\ auth' = IF reply.status \in 200..299 /\ TokenIn(reply) THEN "READY" ELSE "FAILED"
    /\ pc' = "PROBE" /\ agenda' = Agenda(cfg.doc)
    /\ UNCHANGED <<cfg, docs, pending, values, endpoints, probes, created, status>>

\* The operation whose turn it is: the passes in order, in each the document's order.
IsNext(x) == \A y \in agenda : x.pass < y.pass \/ (x.pass = y.pass /\ x.op <= y.op)
Turn(x) == pc = "PROBE" /\ x \in agenda /\ IsNext(x)
OpOf(x) == cfg.doc[x.op]

\* Take the next operation of the pass: refuse it with a reason, or plan its probes.
Consider(x) ==
    /\ Turn(x) /\ pending = <<>>
    /\ LET plan == Plan(x, OpOf(x), endpoints[x.op])
       IN  /\ endpoints' = IF plan.skip = "" THEN endpoints ELSE [endpoints EXCEPT ![x.op].skip = plan.skip]
           /\ pending' = plan.kinds
           /\ values' = plan.values
           /\ agenda' = IF plan.kinds = <<>> THEN agenda \ {x} ELSE agenda
    /\ UNCHANGED <<cfg, pc, docs, auth, probes, wire, created, status>>

\* Every parameter of the path is filled in: it is declared, and it is there once
\* (path.replace fills in the first place only).
Fillable(o) ==
    /\ ~o.unfillable
    /\ \A i \in DOMAIN o.path : o.path[i] \in PathParams =>
          /\ o.path[i] \in Names(o)
          /\ \A j \in DOMAIN o.path : o.path[j] = o.path[i] => j = i

\* runProbe's early returns: why a planned probe is not sent, or "".
MutantHeldBackStopped(o) ==
    IF wire.sent >= cfg.maxRequests THEN "REQUEST_BUDGET" ELSE IF Fillable(o) THEN "" ELSE "MISSING_PARAMETERS"
HeldBack(o) ==
    IF wire.stopped # Running THEN wire.stopped
    ELSE IF wire.sent >= cfg.maxRequests THEN "REQUEST_BUDGET"
    ELSE IF Fillable(o) THEN "" ELSE "MISSING_PARAMETERS"

\* What follows a probe: the rest of the operation's probes, or the next operation.
Advance(x, rest) ==
    /\ pending' = rest
    /\ agenda' = IF rest = <<>> THEN agenda \ {x} ELSE agenda
    /\ UNCHANGED values

\* A DELETE that was answered takes the resource from what this run may touch.
Forget(x, made, rest, entry) ==
    IF rest = <<>> /\ Pass(x) = "DELETE" /\ entry.execution = "EXECUTED"
    THEN {c \in made : c[1] # Collection(OpOf(x).path)} ELSE made

NotSent(e, reason) == IF e.execution = "EXECUTED" THEN e ELSE [e EXCEPT !.skip = reason]
Skip(x) ==
    /\ Turn(x) /\ pending # <<>> /\ HeldBack(OpOf(x)) # ""
    /\ endpoints' = [endpoints EXCEPT ![x.op] = NotSent(@, HeldBack(OpOf(x)))]
    /\ Advance(x, Tail(pending))
    /\ created' = Forget(x, created, Tail(pending), endpoints[x.op])
    /\ UNCHANGED <<cfg, pc, docs, auth, probes, wire, status>>

\* A probe as it is recorded, and what the contract makes of its answer.
ProbeOf(x, kind, reply) == [op |-> x.op, kind |-> kind, url |-> Url(OpOf(x), values), reply |-> reply]
Answered(p)    == p.reply.error = ""
EvidenceFor(p) == EvidenceOf(Checks(cfg.doc[p.op], p.kind, p.reply))
Violates(p)    == Answered(p) /\ Contradicts(cfg.doc[p.op], p.kind, p.reply)

MutantEntryAfterLatest(e, p, all) ==
    IF ~Answered(p) THEN NotSent(e, "UNREACHABLE")
    ELSE [e EXCEPT !.execution = "EXECUTED", !.skip = "", !.evidence = EvidenceFor(p)]
MutantEntryAfterKeepsReason(e, p, all) ==
    IF ~Answered(p) THEN e
    ELSE [e EXCEPT !.execution = "EXECUTED", !.skip = "",
                   !.evidence = IF EvidenceFor(p) = "VALIDATED" /\ ~Violates(p) THEN "VALIDATED" ELSE "OBSERVED"]
\* What a probe makes of its operation's entry.
EntryAfter(e, p, all) ==
    IF ~Answered(p) THEN NotSent(e, IF p.reply.error = "TIMEOUT" THEN "NOT_ATTEMPTED" ELSE "UNREACHABLE")
    ELSE LET good      == EvidenceFor(p) = "VALIDATED"
             validated == IF good THEN e.validated \cup {p.kind} ELSE e.validated
             violated  == \E i \in DOMAIN all : all[i].op = p.op /\ Violates(all[i])
         IN  [evidence  |-> IF validated # {} /\ ~violated THEN "VALIDATED" ELSE "OBSERVED",
              execution |-> "EXECUTED", skip |-> "", validated |-> validated,
              observed  |-> IF good THEN e.observed ELSE e.observed \cup {p.kind}]

MutantStopsConnection(w, reply) == IF reply.error # "" /\ w.failures >= FailuresToAbort THEN "UNREACHABLE" ELSE w.stopped
\* What makes the prober stop: a 429, or too many connection failures in a row.
Stops(w, reply) ==
    IF reply.error # "" /\ w.failures >= FailuresToAbort THEN "UNREACHABLE"
    ELSE IF reply.status = 429 THEN "RATE_LIMITED" ELSE w.stopped

\* A resource this run created, by the POST that created it.
Made(o, p) ==
    IF o.method = "POST" /\ p.kind = "VALID_BODY" /\ p.reply.status \in 200..299 /\ p.reply.carries
    THEN {c \in created : c[1] # o.path} \cup {<<o.path, <<"created", Len(probes) + 1>>>>}
    ELSE created

\* runProbe: one request, and everything its answer changes.
Probe(x) ==
    /\ Turn(x) /\ pending # <<>> /\ HeldBack(OpOf(x)) = ""
    /\ \E reply \in Replies :
        LET p     == ProbeOf(x, Head(pending), reply)
            rest  == IF p.kind = "INVALID_BODY" /\ reply.status \in 200..299 THEN <<>> ELSE Tail(pending)
            w     == Counted(wire, reply)
            entry == EntryAfter(endpoints[x.op], p, Append(probes, p))
        IN  /\ probes' = Append(probes, p)
            /\ wire' = [w EXCEPT !.stopped = Stops(w, reply)]
            /\ endpoints' = [endpoints EXCEPT ![x.op] = entry]
            /\ Advance(x, rest)
            /\ created' = Forget(x, Made(OpOf(x), p), rest, entry)
    /\ UNCHANGED <<cfg, pc, docs, auth, status>>

Executed == {i \in DOMAIN endpoints : endpoints[i].execution = "EXECUTED"}
MutantResultBudget ==
    IF Executed = {} /\ wire.stopped = "UNREACHABLE" THEN "UNAVAILABLE"
    ELSE IF wire.stopped # Running THEN "PARTIAL" ELSE "COMPLETED"
\* The status of the artifact.
Result ==
    IF Executed = {} /\ wire.stopped = "UNREACHABLE" THEN "UNAVAILABLE"
    ELSE IF wire.stopped # Running THEN "PARTIAL"
    ELSE IF wire.sent >= cfg.maxRequests /\ \E i \in DOMAIN endpoints : endpoints[i].skip = "REQUEST_BUDGET" THEN "PARTIAL"
    ELSE "COMPLETED"

Finish ==
    /\ pc = "PROBE" /\ agenda = {} /\ pending = <<>>
    /\ status' = Result /\ pc' = "CONTINUES"
    /\ UNCHANGED <<docs, endpoints>> /\ Idle

Ended == pc \in {"CONTINUES", "FAILED"} /\ UNCHANGED vars

Next ==
    \/ ReadDocs \/ CheckHost \/ SignIn
    \/ \E x \in agenda : Consider(x) \/ Skip(x) \/ Probe(x)
    \/ Finish \/ Ended
Spec == Init /\ [][Next]_vars

-----------------------------------------------------------------------------
(* What the stage says of itself. *)

\* hasLiveEvidence.
HasLiveEvidence == status \in {"COMPLETED", "PARTIAL"} /\ \E i \in DOMAIN probes : Answered(probes[i])
\* apiDiscoveryCompletion: its required criteria.
Called == status \in {"COMPLETED", "PARTIAL"}
Complete ==
    /\ docs = "AVAILABLE"
    /\ Called => /\ DOMAIN endpoints = DOMAIN cfg.doc
                 /\ \A i \in DOMAIN endpoints : endpoints[i].execution = "SKIPPED" => endpoints[i].skip # ""

-----------------------------------------------------------------------------
(* Properties. *)

MethodOf(p) == cfg.doc[p.op].method

\* An operation whose path names the resource as the prober reads it: the last
\* declared parameter is the end of the path, and what comes before it names the
\* collection with configured values only.
Addressed(o) ==
    /\ o.params # <<>> /\ Len(o.path) > 1
    /\ Last(o.path) = Last(o.params) /\ Last(Front(o.path)) \notin PathParams
\* The URL of a resource an earlier POST of this run created.
OwnResource(p, i) ==
    \E j \in 1..(i - 1) :
        /\ MethodOf(probes[j]) = "POST" /\ probes[j].kind = "VALID_BODY" /\ probes[j].reply.status \in 200..299
        /\ p.url = Append(probes[j].url, <<"created", j>>)

\* What a probe may be sent for (api-validation.ts:20-40, the policy): a safe read;
\* or an operation a person approved, outside production; and a PUT, PATCH or DELETE,
\* or a TRACE, only on a resource an earlier POST of the same run created.
PolicyKept ==
    \A i \in DOMAIN probes :
        LET p == probes[i]  o == cfg.doc[p.op] IN
        /\ cfg.base = "allowed" /\ cfg.enabled
        /\ Safety(o) # "SAFE" => o \in cfg.approved /\ cfg.env # "production"
        /\ o.method \in {"PUT", "PATCH", "DELETE", "TRACE"} /\ Addressed(o) => OwnResource(p, i)

\* api-validation.ts:31-32: "PUT, PATCH and DELETE only ever touch a resource this
\* run itself created through an approved POST".
OwnDataOnly ==
    \A i \in DOMAIN probes : MethodOf(probes[i]) \in {"PUT", "PATCH", "DELETE"} => OwnResource(probes[i], i)

\* The volume: the budget bounds every request, the sign-in included; a 429 and the
\* third connection failure in a row, a timeout between them or not, are the last
\* thing that was sent.
StopsWhenTold ==
    /\ wire.sent <= cfg.maxRequests
    /\ \A i \in 1..(Len(probes) - 1) :
        /\ probes[i].reply.status # 429
        /\ \A j \in 1..i :
            Cardinality({k \in j..i : probes[k].reply.error = "CONNECTION"}) >= FailuresToAbort
                => \E k \in j..i : Answered(probes[k])

\* The class of evidence the later stages rest on, against what was really sent and
\* answered: VALIDATED takes a documented answer of the kind the probe set out to get,
\* and none that contradicts the documentation, whatever the order they came in;
\* DOCUMENTED is an operation nothing answered for.
EvidenceEarned ==
    \A i \in DOMAIN endpoints :
        LET mine == {k \in DOMAIN probes : probes[k].op = i /\ Answered(probes[k])} IN
        /\ (endpoints[i].evidence = "VALIDATED") <=>
              /\ \E k \in mine : /\ Documented(cfg.doc[i], probes[k].reply.status)
                                /\ Expected(probes[k].kind, probes[k].reply.status)
              /\ \A k \in mine : ~Violates(probes[k])
        /\ (endpoints[i].evidence = "DOCUMENTED") <=> mine = {}
        /\ (endpoints[i].execution = "EXECUTED") <=> mine # {}

\* When the stage is over: it is complete whenever the documentation was read; no
\* operation was passed over (one left NOT_ATTEMPTED timed out); COMPLETED says the
\* prober neither stopped nor ran out of budget on an operation it never called;
\* UNAVAILABLE throws no answer away.
Accounted ==
    pc = "CONTINUES" =>
        /\ docs = "AVAILABLE" => Complete
        /\ status = "UNAVAILABLE" => \A k \in DOMAIN probes : ~Answered(probes[k])
        /\ Called => \A i \in DOMAIN endpoints :
              endpoints[i].skip = "NOT_ATTEMPTED" =>
                  \E k \in DOMAIN probes : probes[k].op = i /\ probes[k].reply.error = "TIMEOUT"
        /\ status = "COMPLETED" =>
              /\ wire.stopped = Running
              /\ \A i \in DOMAIN endpoints : endpoints[i].skip \notin {"REQUEST_BUDGET", "RATE_LIMITED"}

-----------------------------------------------------------------------------
(* The inductive invariant behind them. *)

ProbeKinds == {"ANONYMOUS", "UNAUTHENTICATED", "AUTHENTICATED", "NOT_FOUND", "INVALID_BODY", "VALID_BODY"}
StopReasons == {"UNREACHABLE", "RATE_LIMITED"}
PlanReasons == {"UNSUPPORTED_METHOD", "ENVIRONMENT_PROTECTED", "APPROVAL_REQUIRED", "MISSING_PARAMETERS",
                "UNSUPPORTED_BODY", "MISSING_TEST_DATA"}
Reasons == PlanReasons \cup StopReasons \cup {"", "NOT_ATTEMPTED", "REQUEST_BUDGET"}
Entry == [evidence : {"DOCUMENTED", "OBSERVED", "VALIDATED"}, execution : {"SKIPPED", "EXECUTED"}, skip : Reasons,
          validated : SUBSET ProbeKinds, observed : SUBSET ProbeKinds]

\* The documentation has been read and the API is called, or was.
Live == pc \in {"BASE_URL", "SIGN_IN", "PROBE"}

TypeOK ==
    /\ cfg \in Configurations
    /\ pc \in {"READ_DOCS", "BASE_URL", "SIGN_IN", "PROBE", "CONTINUES", "FAILED"}
    /\ docs \in {"NONE", "NOT_REQUESTED", "AVAILABLE", "UNAVAILABLE"}
    /\ status \in {"NONE", "NOT_REQUESTED", "UNAVAILABLE", "PARTIAL", "COMPLETED"}
    /\ agenda \subseteq Agenda(cfg.doc) /\ (agenda # {} => pc = "PROBE")
    /\ pending \in Seq(ProbeKinds) /\ (pending # <<>> => agenda # {})
    /\ endpoints \in [DOMAIN endpoints -> Entry] /\ DOMAIN endpoints \in {{}, DOMAIN cfg.doc}
    /\ probes \in Seq(Range(probes))
    /\ \A i \in DOMAIN probes :
          /\ DOMAIN probes[i] = {"op", "kind", "url", "reply"}
          /\ probes[i].op \in DOMAIN endpoints /\ probes[i].kind \in ProbeKinds /\ probes[i].reply \in Replies
    /\ wire \in [sent : Nat, failures : Nat, stopped : StopReasons \cup {Running}]

\* How far the stage has come, and what that says of the rest.
StageKnows ==
    /\ Live => docs = "AVAILABLE" /\ cfg.enabled /\ DOMAIN endpoints = DOMAIN cfg.doc
    /\ pc \in {"SIGN_IN", "PROBE"} \/ probes # <<>> => cfg.base = "allowed" /\ cfg.enabled
    /\ pc \in {"READ_DOCS", "BASE_URL", "SIGN_IN"} =>
          probes = <<>> /\ created = {} /\ wire = [sent |-> 0, failures |-> 0, stopped |-> Running]
    /\ Live \/ pc \in {"READ_DOCS", "FAILED"} => status = "NONE"

\* What this run created, it created with a POST; the URL of the POST is the path with
\* the configured values, unless the path ends in a parameter.
PlainUrl(path) == [i \in DOMAIN path |-> IF path[i] \in PathParams THEN <<"configured", path[i]>> ELSE <<path[i]>>]
Creates(p) == MethodOf(p) = "POST" /\ p.kind = "VALID_BODY" /\ p.reply.status \in 200..299
CreatedHere ==
    /\ \A c \in created : \E j \in DOMAIN probes :
          Creates(probes[j]) /\ c[2] = <<"created", j>> /\ c[1] = cfg.doc[probes[j].op].path
    /\ \A j \in DOMAIN probes :
          LET path == cfg.doc[probes[j].op].path IN
          Creates(probes[j]) /\ Last(path) \notin PathParams => probes[j].url = PlainUrl(path)

\* A POST whose turn has not come has sent nothing.
Untried ==
    \A x \in agenda : Pass(x) = "POST" /\ (pending = <<>> \/ ~IsNext(x)) => \A j \in DOMAIN probes : probes[j].op # x.op

\* What is planned for the operation whose turn it is may be sent.
PlannedWell ==
    pending # <<>> => \A x \in agenda : IsNext(x) =>
        LET o == OpOf(x)  url == Url(o, values) IN
        /\ Safety(o) # "SAFE" => o \in cfg.approved /\ cfg.env # "production"
        /\ o.method \in {"PUT", "PATCH", "DELETE", "TRACE"} /\ Addressed(o) /\ Fillable(o) =>
              \E j \in DOMAIN probes : Creates(probes[j]) /\ url = Append(probes[j].url, <<"created", j>>)
        /\ o.method = "POST" /\ Fillable(o) /\ Last(o.path) \notin PathParams => url = PlainUrl(o.path)

\* What is counted of connection failures, and when the prober is still running.
Lost(j, i) == {k \in j..i : probes[k].reply.error = "CONNECTION"}
NoAnswer(j, i) == \A k \in j..i : ~Answered(probes[k])
FailuresCounted ==
    /\ wire.sent <= cfg.maxRequests
    /\ \A j \in DOMAIN probes : NoAnswer(j, Len(probes)) => Cardinality(Lost(j, Len(probes))) <= wire.failures
    /\ wire.stopped = Running => \A i \in DOMAIN probes :
          /\ probes[i].reply.status # 429
          /\ \A j \in 1..i : NoAnswer(j, i) => Cardinality(Lost(j, i)) < FailuresToAbort

\* The entry of an operation is what its answers make of it.
MineOf(i) == {k \in DOMAIN probes : probes[k].op = i /\ Answered(probes[k])}
EntriesKnow ==
    \A i \in DOMAIN endpoints :
        LET e == endpoints[i]  good == \E k \in MineOf(i) : EvidenceFor(probes[k]) = "VALIDATED" IN
        /\ (e.validated # {}) <=> good
        /\ e.execution = IF MineOf(i) = {} THEN "SKIPPED" ELSE "EXECUTED"
        /\ e.evidence = IF MineOf(i) = {} THEN "DOCUMENTED"
                        ELSE IF good /\ \A k \in MineOf(i) : ~Violates(probes[k]) THEN "VALIDATED" ELSE "OBSERVED"

\* Why an operation was not called.
TimedOut(i) == \E k \in DOMAIN probes : probes[k].op = i /\ probes[k].reply.error = "TIMEOUT"
ToCome(i) == \E x \in agenda : x.op = i /\ Pass(x) # "CREATED"
SkipsKnow ==
    \A i \in DOMAIN endpoints :
        LET e == endpoints[i] IN
        /\ e.execution = "SKIPPED" => e.skip # ""
        /\ e.skip = "NOT_ATTEMPTED" =>
              /\ e.execution = "SKIPPED"
              /\ pc \in {"BASE_URL", "SIGN_IN"} \/ ToCome(i) \/ TimedOut(i) \/ ~(Live \/ Called)
        /\ e.skip = "RATE_LIMITED" => wire.stopped # Running
        /\ e.skip = "REQUEST_BUDGET" => wire.sent >= cfg.maxRequests

IInv ==
    /\ TypeOK /\ StageKnows /\ CreatedHere /\ Untried /\ PlannedWell /\ FailuresCounted /\ EntriesKnow /\ SkipsKnow
    /\ PolicyKept /\ StopsWhenTold /\ Accounted
=============================================================================
