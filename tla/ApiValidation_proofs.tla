------------------------ MODULE ApiValidation_proofs ------------------------
(***************************************************************************)
(* Proofs about API discovery, for any document, configuration and server: *)
(* what is sent was allowed, the prober stops when it is told to, the      *)
(* evidence is what the answers earned, and every operation is accounted   *)
(* for.                                                                    *)
(***************************************************************************)
EXTENDS ApiValidation, FiniteSetTheorems, TLAPS

-----------------------------------------------------------------------------
(* The document and the passes over it. *)

LEMMA ConfigurationIs ==
  ASSUME TypeOK
  PROVE  /\ cfg.maxRequests \in Nat /\ cfg.maxRequests > 0 /\ cfg.doc \in Seq(Operation)
         /\ \A i, j \in DOMAIN cfg.doc :
              cfg.doc[i].path = cfg.doc[j].path /\ cfg.doc[i].method = cfg.doc[j].method => i = j
  BY ConfigurationAssumption DEF TypeOK

LEMMA OperationIs ==
  ASSUME TypeOK, NEW i \in DOMAIN cfg.doc
  PROVE  /\ cfg.doc[i] \in Operation
         /\ cfg.doc[i].method \in Methods
         /\ cfg.doc[i].path \in Seq(STRING) /\ cfg.doc[i].path # <<>>
         /\ cfg.doc[i].params \in Seq(PathParams)
  <1>1. cfg.doc[i] \in Operation
    BY ConfigurationIs
  <1>2. QED
    BY <1>1 DEF Operation

LEMMA PassesAre ==
  /\ DOMAIN Passes = 1..6
  /\ Passes[1] = "READ" /\ Passes[2] = "POST" /\ Passes[3] = "CREATED"
  /\ Passes[4] = "PUT" /\ Passes[5] = "PATCH" /\ Passes[6] = "DELETE"
  BY DEF Passes

LEMMA TurnIs ==
  ASSUME TypeOK, NEW x \in agenda
  PROVE  /\ x.op \in DOMAIN cfg.doc /\ x.op \in Nat /\ x.pass \in 1..6 /\ x = [pass |-> x.pass, op |-> x.op]
         /\ InPass(Pass(x), OpOf(x)) /\ Pass(x) \in {"READ", "POST", "CREATED", "PUT", "PATCH", "DELETE"}
         /\ OpOf(x) \in Operation
  <1>1. x \in Agenda(cfg.doc)
    BY DEF TypeOK
  <1>2. x \in [pass : DOMAIN Passes, op : DOMAIN cfg.doc] /\ InPass(Pass(x), cfg.doc[x.op])
    BY <1>1 DEF Agenda
  <1>3. x.op \in DOMAIN cfg.doc /\ x.pass \in 1..6 /\ x = [pass |-> x.pass, op |-> x.op]
    BY <1>2, PassesAre
  <1>4. x.op \in Nat
    BY <1>3, ConfigurationIs
  <1>5. x.pass = 1 \/ x.pass = 2 \/ x.pass = 3 \/ x.pass = 4 \/ x.pass = 5 \/ x.pass = 6
    BY <1>3
  <1>6. Pass(x) \in {"READ", "POST", "CREATED", "PUT", "PATCH", "DELETE"}
    BY <1>5, PassesAre DEF Pass
  <1>7. OpOf(x) \in Operation
    BY <1>3, OperationIs DEF OpOf
  <1>8. QED
    BY <1>2, <1>3, <1>4, <1>6, <1>7 DEF OpOf

LEMMA OneTurn ==
  ASSUME TypeOK, NEW x \in agenda, NEW y \in agenda, IsNext(x), IsNext(y)
  PROVE  x = y
  <1>1. /\ x.pass \in 1..6 /\ y.pass \in 1..6 /\ x.op \in Nat /\ y.op \in Nat
        /\ x = [pass |-> x.pass, op |-> x.op] /\ y = [pass |-> y.pass, op |-> y.op]
    BY TurnIs
  <1>2. /\ x.pass < y.pass \/ (x.pass = y.pass /\ x.op <= y.op)
        /\ y.pass < x.pass \/ (y.pass = x.pass /\ y.op <= x.op)
    BY DEF IsNext
  <1>3. x.pass = y.pass /\ x.op = y.op
    BY <1>1, <1>2
  <1>4. QED
    BY <1>1, <1>3

LEMMA MethodsPass ==
  ASSUME TypeOK, NEW x \in agenda
  PROVE  /\ OpOf(x).method = "POST" <=> Pass(x) = "POST"
         /\ OpOf(x).method \in {"PUT", "PATCH", "DELETE"} => Pass(x) = OpOf(x).method
  BY TurnIs DEF InPass, Safety

\* A POST has one pass.
LEMMA OnePost ==
  ASSUME TypeOK, NEW x \in agenda, NEW y \in agenda, x.op = y.op, Pass(x) = "POST"
  PROVE  x = y
  <1>1. Pass(y) = "POST"
    BY MethodsPass DEF OpOf
  <1>2. /\ x.pass \in 1..6 /\ y.pass \in 1..6
        /\ x = [pass |-> x.pass, op |-> x.op] /\ y = [pass |-> y.pass, op |-> y.op]
    BY TurnIs
  <1>3. ASSUME NEW p \in 1..6, Passes[p] = "POST" PROVE p = 2
    <2>1. p = 1 \/ p = 2 \/ p = 3 \/ p = 4 \/ p = 5 \/ p = 6
      OBVIOUS
    <2>2. QED
      BY <1>3, <2>1, PassesAre
  <1>4. x.pass = 2 /\ y.pass = 2
    BY <1>1, <1>2, <1>3 DEF Pass
  <1>5. QED
    BY <1>2, <1>4

\* Every operation has a pass of its own, besides the reading of what was created.
LEMMA EveryoneComes ==
  ASSUME NEW doc \in Seq(Operation), NEW i \in DOMAIN doc
  PROVE  \E x \in Agenda(doc) : x.op = i /\ Pass(x) # "CREATED"
  <1>1. doc[i] \in Operation /\ doc[i].method \in Methods
    <2>1. doc[i] \in Operation
      OBVIOUS
    <2>2. QED
      BY <2>1 DEF Operation
  <1>2. PICK p \in 1..6 : InPass(Passes[p], doc[i]) /\ Passes[p] # "CREATED"
    <2>1. CASE doc[i].method = "POST"
      BY <2>1, PassesAre DEF InPass
    <2>2. CASE doc[i].method = "PUT"
      BY <2>2, PassesAre DEF InPass
    <2>3. CASE doc[i].method = "PATCH"
      BY <2>3, PassesAre DEF InPass
    <2>4. CASE doc[i].method = "DELETE"
      BY <2>4, PassesAre DEF InPass
    <2>5. CASE doc[i].method \notin {"POST", "PUT", "PATCH", "DELETE"}
      BY <2>5, PassesAre DEF InPass, Safety
    <2>6. QED
      BY <2>1, <2>2, <2>3, <2>4, <2>5
  <1>3. [pass |-> p, op |-> i] \in [pass : DOMAIN Passes, op : DOMAIN doc]
    BY PassesAre
  <1>4. [pass |-> p, op |-> i] \in Agenda(doc)
    BY <1>2, <1>3 DEF Agenda, Pass
  <1>5. QED
    BY <1>2, <1>4 DEF Pass

-----------------------------------------------------------------------------
(* What is planned for an operation. *)

LEMMA RefusedMeans ==
  ASSUME NEW o
  PROVE  /\ Refused(o) \in PlanReasons \cup {""}
         /\ Refused(o) = "" => /\ o.method # "TRACE"
                               /\ Safety(o) # "SAFE" => o \in cfg.approved /\ cfg.env # "production"
  BY DEF Refused, PlanReasons, Protected

Planned(plan) ==
  /\ plan.skip \in PlanReasons \cup {""} /\ plan.kinds \in Seq(ProbeKinds)
  /\ plan.skip # "" => plan.kinds = <<>>

Full(kinds) == kinds \in Seq(ProbeKinds) /\ kinds # <<>>

LEMMA EmptyKinds == <<>> \in Seq(ProbeKinds)
  OBVIOUS

LEMMA SkippingPlanned ==
  ASSUME NEW reason \in PlanReasons \cup {""}
  PROVE  /\ Planned(Skipping(reason)) /\ Skipping(reason).kinds = <<>> /\ Skipping(reason).skip = reason
  <1>1. Skipping(reason).kinds = <<>> /\ Skipping(reason).skip = reason
    BY DEF Skipping
  <1>2. QED
    BY <1>1, EmptyKinds DEF Planned

LEMMA SendingPlanned ==
  ASSUME NEW kinds, Full(kinds), NEW given
  PROVE  /\ Planned(Sending(kinds, given)) /\ Sending(kinds, given).values = given
         /\ Sending(kinds, given).kinds # <<>> /\ Sending(kinds, given).skip = ""
  BY DEF Planned, Sending, Full

LEMMA OneKind ==
  ASSUME NEW kind \in ProbeKinds
  PROVE  Full(<<kind>>)
  BY DEF Full

LEMMA TwoKinds ==
  ASSUME NEW first \in ProbeKinds, NEW second \in ProbeKinds
  PROVE  Full(<<first, second>>)
  BY DEF Full

LEMMA ReadKindsFull ==
  ASSUME NEW o, NEW last \in ProbeKinds
  PROVE  Full(ReadKinds(o, last))
  BY OneKind, TwoKinds DEF ReadKinds, ProbeKinds

LEMMA WriteKindsFull ==
  ASSUME NEW o
  PROVE  Full(WriteKinds(o))
  <1>1. /\ "UNAUTHENTICATED" \in ProbeKinds /\ "AUTHENTICATED" \in ProbeKinds /\ "ANONYMOUS" \in ProbeKinds
        /\ "INVALID_BODY" \in ProbeKinds /\ "VALID_BODY" \in ProbeKinds
    BY DEF ProbeKinds
  <1>2. QED
    BY <1>1, OneKind, TwoKinds DEF WriteKinds

LEMMA ReasonsAre ==
  /\ "MISSING_PARAMETERS" \in PlanReasons /\ "UNSUPPORTED_BODY" \in PlanReasons
  /\ "MISSING_TEST_DATA" \in PlanReasons /\ "" \notin PlanReasons
  BY DEF PlanReasons

LEMMA WritePlanIs ==
  ASSUME NEW o, NEW given
  PROVE  /\ Planned(WritePlan(o, given)) /\ (WritePlan(o, given).skip = "" => WritePlan(o, given).kinds # <<>>)
         /\ WritePlan(o, given).kinds # <<>> => WritePlan(o, given).values = given
  BY SkippingPlanned, SendingPlanned, WriteKindsFull, ReasonsAre DEF WritePlan

\* What a plan of the three main passes says.
Thorough(plan, o) ==
  /\ Planned(plan) /\ (plan.skip = "" => plan.kinds # <<>>)
  /\ plan.kinds # <<>> => Refused(o) = ""

LEMMA RefusedPlan ==
  ASSUME NEW o, Refused(o) # ""
  PROVE  Thorough(Skipping(Refused(o)), o) /\ Skipping(Refused(o)).kinds = <<>>
  BY RefusedMeans, SkippingPlanned DEF Thorough

LEMMA ReadPlanIs ==
  ASSUME NEW o
  PROVE  Thorough(ReadPlan(o), o)
  <1>1. /\ "UNAUTHENTICATED" \in ProbeKinds /\ "AUTHENTICATED" \in ProbeKinds /\ "ANONYMOUS" \in ProbeKinds
        /\ "NOT_FOUND" \in ProbeKinds
    BY DEF ProbeKinds
  <1>2. CASE Refused(o) # ""
    BY <1>2, RefusedPlan DEF ReadPlan
  <1>3. CASE Refused(o) = ""
    <2> DEFINE kind == IF o.secured THEN "AUTHENTICATED" ELSE "ANONYMOUS"
    <2>1. Full(ReadKinds(o, kind)) /\ Full(ReadKinds(o, "NOT_FOUND")) /\ Full(<<"UNAUTHENTICATED">>)
      BY <1>1, ReadKindsFull, OneKind
    <2>2. /\ Thorough(Sending(ReadKinds(o, kind), Values(o, "CONFIGURED")), o)
          /\ Thorough(Sending(ReadKinds(o, "NOT_FOUND"), Values(o, "ABSENT")), o)
          /\ Thorough(Sending(<<"UNAUTHENTICATED">>, Values(o, "ABSENT")), o)
      BY <1>3, <2>1, SendingPlanned DEF Thorough
    <2>3. Thorough(Skipping("MISSING_PARAMETERS"), o)
      BY <1>3, SkippingPlanned, ReasonsAre DEF Thorough
    <2>4. QED
      BY <1>3, <2>2, <2>3 DEF ReadPlan
  <1>4. QED
    BY <1>2, <1>3

LEMMA PostPlanIs ==
  ASSUME NEW o
  PROVE  /\ Thorough(PostPlan(o), o)
         /\ PostPlan(o).kinds # <<>> =>
              \E source \in {"CREATED", "CONFIGURED"} :
                 Available(o, source) /\ PostPlan(o).values = Values(o, source)
  <1>1. CASE Refused(o) # ""
    BY <1>1, RefusedPlan DEF PostPlan
  <1>2. CASE Refused(o) = "" /\ Available(o, "CREATED")
    <2> DEFINE plan == WritePlan(o, Values(o, "CREATED"))
    <2>1. PostPlan(o) = plan
      BY <1>2 DEF PostPlan
    <2>2. /\ Planned(plan) /\ (plan.skip = "" => plan.kinds # <<>>)
          /\ plan.kinds # <<>> => plan.values = Values(o, "CREATED")
      BY WritePlanIs
    <2> HIDE DEF plan
    <2>3. Thorough(plan, o)
      BY <1>2, <2>2 DEF Thorough
    <2>4. QED
      BY <1>2, <2>1, <2>2, <2>3
  <1>3. CASE Refused(o) = "" /\ ~Available(o, "CREATED") /\ Available(o, "CONFIGURED")
    <2> DEFINE plan == WritePlan(o, Values(o, "CONFIGURED"))
    <2>1. PostPlan(o) = plan
      BY <1>3 DEF PostPlan
    <2>2. /\ Planned(plan) /\ (plan.skip = "" => plan.kinds # <<>>)
          /\ plan.kinds # <<>> => plan.values = Values(o, "CONFIGURED")
      BY WritePlanIs
    <2> HIDE DEF plan
    <2>3. Thorough(plan, o)
      BY <1>3, <2>2 DEF Thorough
    <2>4. QED
      BY <1>3, <2>1, <2>2, <2>3
  <1>4. CASE Refused(o) = "" /\ ~Available(o, "CREATED") /\ ~Available(o, "CONFIGURED")
    <2>1. PostPlan(o) = Skipping("MISSING_PARAMETERS")
      BY <1>4 DEF PostPlan
    <2>2. QED
      BY <1>4, <2>1, SkippingPlanned, ReasonsAre DEF Thorough
  <1>5. QED
    BY <1>1, <1>2, <1>3, <1>4

LEMMA ChangePlanIs ==
  ASSUME NEW o
  PROVE  /\ Thorough(ChangePlan(o), o)
         /\ ChangePlan(o).kinds # <<>> => Available(o, "CREATED") /\ ChangePlan(o).values = Values(o, "CREATED")
  <1>1. CASE Refused(o) # ""
    BY <1>1, RefusedPlan DEF ChangePlan
  <1>2. CASE Refused(o) = "" /\ Available(o, "CREATED")
    <2> DEFINE plan == WritePlan(o, Values(o, "CREATED"))
    <2>1. ChangePlan(o) = plan
      BY <1>2 DEF ChangePlan
    <2>2. /\ Planned(plan) /\ (plan.skip = "" => plan.kinds # <<>>)
          /\ plan.kinds # <<>> => plan.values = Values(o, "CREATED")
      BY WritePlanIs
    <2> HIDE DEF plan
    <2>3. Thorough(plan, o)
      BY <1>2, <2>2 DEF Thorough
    <2>4. QED
      BY <1>2, <2>1, <2>2, <2>3
  <1>3. CASE Refused(o) = "" /\ ~Available(o, "CREATED")
    <2>1. ChangePlan(o) = Skipping("MISSING_TEST_DATA")
      BY <1>3 DEF ChangePlan
    <2>2. QED
      BY <1>3, <2>1, SkippingPlanned, ReasonsAre DEF Thorough
  <1>4. QED
    BY <1>1, <1>2, <1>3

LEMMA CreatedPlanIs ==
  ASSUME NEW o, NEW e
  PROVE  /\ Planned(CreatedPlan(o, e)) /\ CreatedPlan(o, e).skip = ""
         /\ CreatedPlan(o, e).kinds # <<>> => Available(o, "CREATED")
               /\ CreatedPlan(o, e).values = Values(o, "CREATED")
  <1> DEFINE kind == IF o.secured THEN "AUTHENTICATED" ELSE "ANONYMOUS"
  <1>1. Full(<<kind>>)
    BY OneKind DEF ProbeKinds
  <1> HIDE DEF kind
  <1>2. \/ CreatedPlan(o, e) = Skipping("")
        \/ CreatedPlan(o, e) = Sending(<<kind>>, Values(o, "CREATED")) /\ Available(o, "CREATED")
    BY DEF CreatedPlan, kind
  <1>3. CASE CreatedPlan(o, e) = Skipping("")
    BY <1>3, SkippingPlanned
  <1>4. CASE CreatedPlan(o, e) = Sending(<<kind>>, Values(o, "CREATED")) /\ Available(o, "CREATED")
    <2> DEFINE kinds == <<kind>>
    <2>1. Full(kinds)
      BY <1>1
    <2> HIDE DEF kinds
    <2> DEFINE given == Values(o, "CREATED")
    <2>2. CreatedPlan(o, e) = Sending(kinds, given) /\ Available(o, "CREATED")
      BY <1>4 DEF kinds
    <2> HIDE DEF given
    <2>3. /\ Planned(Sending(kinds, given)) /\ Sending(kinds, given).values = given
          /\ Sending(kinds, given).skip = ""
      BY <2>1, SendingPlanned
    <2>4. QED
      BY <2>2, <2>3 DEF given
  <1>5. QED
    BY <1>2, <1>3, <1>4

-----------------------------------------------------------------------------
(* The URL of a request. *)

LEMMA IsASeqOf ==
  ASSUME NEW S, NEW n \in Nat, NEW s, s = [i \in 1..n |-> s[i]], \A i \in 1..n : s[i] \in S
  PROVE  s \in Seq(S) /\ Len(s) = n
  <1>1. [i \in 1..n |-> s[i]] \in [1..n -> S]
    OBVIOUS
  <1>2. s \in [1..n -> S]
    BY <1>1
  <1>3. s \in Seq(S)
    BY <1>2
  <1>4. QED
    BY <1>2, <1>3

LEMMA SameSeq ==
  ASSUME NEW S, NEW s \in Seq(S), NEW t \in Seq(S), Len(s) = Len(t), \A i \in 1..Len(s) : s[i] = t[i]
  PROVE  s = t
  <1>1. /\ Len(s) \in Nat /\ DOMAIN s = 1..Len(s) /\ DOMAIN t = 1..Len(s)
        /\ s = [i \in DOMAIN s |-> s[i]] /\ t = [i \in DOMAIN t |-> t[i]]
    OBVIOUS
  <1>2. QED
    BY <1>1

LEMMA FrontIs ==
  ASSUME NEW S, NEW s \in Seq(S), s # <<>>
  PROVE  /\ Len(s) \in Nat /\ Len(s) >= 1 /\ DOMAIN s = 1..Len(s) /\ Last(s) = s[Len(s)] /\ Last(s) \in S
         /\ Front(s) \in Seq(S) /\ Len(Front(s)) = Len(s) - 1 /\ DOMAIN Front(s) = 1..(Len(s) - 1)
         /\ \A i \in 1..(Len(s) - 1) : Front(s)[i] = s[i]
  <1>1. Len(s) \in Nat /\ Len(s) >= 1 /\ DOMAIN s = 1..Len(s)
    OBVIOUS
  <1>2. Last(s) = s[Len(s)] /\ Last(s) \in S
    BY <1>1 DEF Last
  <1>3. Front(s) \in Seq(S) /\ Len(Front(s)) = Len(s) - 1
    BY <1>1 DEF Front
  <1>4. DOMAIN Front(s) = 1..(Len(s) - 1)
    BY <1>3
  <1>5. \A i \in 1..(Len(s) - 1) : Front(s)[i] = s[i]
    BY <1>1 DEF Front
  <1>6. QED
    BY <1>1, <1>2, <1>3, <1>4, <1>5

LEMMA PathIs ==
  ASSUME NEW o \in Operation
  PROVE  /\ o.path \in Seq(STRING) /\ o.path # <<>> /\ o.params \in Seq(PathParams)
         /\ Len(o.path) \in Nat /\ DOMAIN o.path = 1..Len(o.path)
  BY DEF Operation

LEMMA NamesAre ==
  ASSUME NEW o \in Operation
  PROVE  /\ Names(o) \subseteq PathParams
         /\ o.params = <<>> => Names(o) = {}
         /\ o.params # <<>> => /\ Last(o.params) \in Names(o)
                               /\ \A q \in Names(o) : q = Last(o.params) \/ q \in Range(Front(o.params))
  <1>1. o.params \in Seq(PathParams)
    BY PathIs
  <1>2. Names(o) \subseteq PathParams /\ (o.params = <<>> => Names(o) = {})
    BY <1>1 DEF Names, Range
  <1>3. ASSUME o.params # <<>>
        PROVE  /\ Last(o.params) \in Names(o)
               /\ \A q \in Names(o) : q = Last(o.params) \/ q \in Range(Front(o.params))
    <2> DEFINE n == Len(o.params)
    <2>1. /\ n \in Nat /\ n >= 1 /\ DOMAIN o.params = 1..n /\ Last(o.params) = o.params[n]
          /\ DOMAIN Front(o.params) = 1..(n - 1) /\ \A i \in 1..(n - 1) : Front(o.params)[i] = o.params[i]
      BY <1>1, <1>3, FrontIs
    <2> HIDE DEF n
    <2>2. Last(o.params) \in Names(o)
      BY <2>1 DEF Names, Range
    <2>3. ASSUME NEW q \in Names(o) PROVE q = Last(o.params) \/ q \in Range(Front(o.params))
      <3>1. PICK i \in 1..n : q = o.params[i]
        BY <2>1 DEF Names, Range
      <3>2. CASE i = n
        BY <2>1, <3>1, <3>2
      <3>3. CASE i # n
        <4>1. i \in 1..(n - 1)
          BY <2>1, <3>1, <3>3
        <4>2. QED
          BY <2>1, <3>1, <4>1 DEF Range
      <3>4. QED
        BY <3>2, <3>3
    <2>4. QED
      BY <2>2, <2>3
  <1>4. QED
    BY <1>2, <1>3

LEMMA ValueIs ==
  ASSUME NEW o, NEW source, NEW q \in Names(o)
  PROVE  /\ DOMAIN Values(o, source) = Names(o)
         /\ source = "CREATED" /\ q = Last(o.params) =>
              Values(o, source)[q] = CHOOSE id \in IdsOf(Collection(o.path)) : TRUE
         /\ source # "ABSENT" /\ q \in Given(o, source) /\ ~(source = "CREATED" /\ q = Last(o.params)) =>
              Values(o, source)[q] = <<"configured", q>>
  BY DEF Values

\* Without a created resource the URL is the path with the configured values.
LEMMA ConfiguredUrl ==
  ASSUME NEW o \in Operation, Fillable(o), NEW source \in {"CREATED", "CONFIGURED"},
         source = "CREATED" => o.params = <<>>, source = "CONFIGURED" => Available(o, source)
  PROVE  Url(o, Values(o, source)) = PlainUrl(o.path)
  <1> DEFINE given == Values(o, source)
  <1>1. DOMAIN given = Names(o)
    BY DEF Values
  <1>2. \A q \in Names(o) : given[q] = <<"configured", q>>
    BY NamesAre, ValueIs DEF Available
  <1>3. \A i \in DOMAIN o.path : o.path[i] \in PathParams <=> o.path[i] \in Names(o)
    BY NamesAre DEF Fillable
  <1> HIDE DEF given
  <1>4. \A i \in DOMAIN o.path :
           (IF o.path[i] \in DOMAIN given THEN given[o.path[i]] ELSE <<o.path[i]>>)
              = IF o.path[i] \in PathParams THEN <<"configured", o.path[i]>> ELSE <<o.path[i]>>
    BY <1>1, <1>2, <1>3
  <1>5. Url(o, given) = PlainUrl(o.path)
    BY <1>4 DEF Url, PlainUrl
  <1>6. QED
    BY <1>5 DEF given

LEMMA AppendUrl ==
  ASSUME NEW path \in Seq(STRING), path # <<>>, NEW last, NEW url, DOMAIN url = DOMAIN path,
         \A i \in 1..(Len(path) - 1) : url[i] = PlainUrl(Front(path))[i], url[Len(path)] = last,
         url = [i \in DOMAIN url |-> url[i]]
  PROVE  url = Append(PlainUrl(Front(path)), last)
  <1> DEFINE plain == PlainUrl(Front(path))
             n == Len(path)
             S == {plain[i] : i \in 1..(n - 1)} \cup {last}
  <1>1. n \in Nat /\ n >= 1 /\ DOMAIN path = 1..n /\ DOMAIN Front(path) = 1..(n - 1)
    BY FrontIs
  <1>2. DOMAIN plain = 1..(n - 1) /\ plain = [i \in 1..(n - 1) |-> plain[i]]
    BY <1>1 DEF PlainUrl
  <1>3. url[n] = last /\ \A i \in 1..(n - 1) : url[i] = plain[i]
    OBVIOUS
  <1>4. DOMAIN url = 1..n /\ url = [i \in 1..n |-> url[i]]
    BY <1>1
  <1> HIDE DEF plain, n
  <1>5. plain \in Seq(S) /\ Len(plain) = n - 1
    BY <1>1, <1>2, IsASeqOf
  <1>6. \A i \in 1..n : url[i] \in S
    BY <1>1, <1>3
  <1>7. url \in Seq(S) /\ Len(url) = n
    BY <1>1, <1>4, <1>6, IsASeqOf
  <1>8. last \in S
    OBVIOUS
  <1> HIDE DEF S
  <1>9. /\ Append(plain, last) \in Seq(S) /\ Len(Append(plain, last)) = n
        /\ \A i \in 1..n : Append(plain, last)[i] = IF i = n THEN last ELSE plain[i]
    BY <1>1, <1>5, <1>8
  <1>10. \A i \in 1..n : Append(plain, last)[i] = url[i]
    BY <1>1, <1>3, <1>9
  <1>11. Append(plain, last) = url
    BY <1>7, <1>9, <1>10, SameSeq
  <1>12. QED
    BY <1>11 DEF plain

\* The URL of a change to what was created: the URL of the POST, and the id it answered.
LEMMA CreatedUrl ==
  ASSUME TypeOK, CreatedHere, NEW o \in Operation, Available(o, "CREATED"), Addressed(o), Fillable(o)
  PROVE  \E j \in DOMAIN probes :
            Creates(probes[j]) /\ Url(o, Values(o, "CREATED")) = Append(probes[j].url, <<"created", j>>)
  <1> DEFINE n == Len(o.path)
             given == Values(o, "CREATED")
             end == Last(o.params)
             url == Url(o, given)
  <1>1. o.path \in Seq(STRING) /\ o.path # <<>> /\ o.params # <<>> /\ n > 1
    BY PathIs DEF Addressed
  <1>2. /\ n \in Nat /\ DOMAIN o.path = 1..n /\ Last(o.path) = o.path[n] /\ DOMAIN Front(o.path) = 1..(n - 1)
        /\ \A i \in 1..(n - 1) : Front(o.path)[i] = o.path[i]
    BY <1>1, FrontIs
  <1>3. o.path[n] = end /\ end \in Names(o) /\ end \in PathParams /\ Last(Front(o.path)) \notin PathParams
    BY <1>1, <1>2, NamesAre DEF Addressed
  <1>4. Collection(o.path) = Front(o.path)
    BY <1>2, <1>3 DEF Collection
  <1>5. PICK id \in IdsOf(Front(o.path)) : given[end] = id
    <2>1. IdsOf(Collection(o.path)) # {}
      BY <1>1 DEF Available
    <2>2. given[end] = CHOOSE id \in IdsOf(Collection(o.path)) : TRUE
      BY <1>3, ValueIs
    <2> HIDE DEF given
    <2>3. QED
      BY <1>4, <2>1, <2>2
  <1>6. PICK c \in created : c[1] = Front(o.path) /\ c[2] = id
    BY DEF IdsOf
  <1>7. PICK j \in DOMAIN probes : Creates(probes[j]) /\ c[2] = <<"created", j>>
                /\ c[1] = cfg.doc[probes[j].op].path
    BY DEF CreatedHere
  <1>8. probes[j].url = PlainUrl(Front(o.path))
    BY <1>3, <1>6, <1>7 DEF CreatedHere
  <1>9. DOMAIN given = Names(o)
    BY DEF Values
  <1>10. DOMAIN url = DOMAIN o.path /\ url = [i \in DOMAIN url |-> url[i]]
    BY DEF Url
  <1>11. url[n] = <<"created", j>>
    BY <1>1, <1>2, <1>3, <1>5, <1>6, <1>7, <1>9 DEF Url
  <1>12. ASSUME NEW i \in 1..(n - 1) PROVE url[i] = PlainUrl(Front(o.path))[i]
    <2>1. i \in 1..n /\ i # n /\ n \in 1..n /\ i \in DOMAIN o.path
      BY <1>1, <1>2
    <2>2. url[i] = IF o.path[i] \in DOMAIN given THEN given[o.path[i]] ELSE <<o.path[i]>>
      BY <2>1 DEF Url
    <2>3. PlainUrl(Front(o.path))[i] = IF o.path[i] \in PathParams THEN <<"configured", o.path[i]>> ELSE <<o.path[i]>>
      BY <1>2 DEF PlainUrl
    <2>4. CASE o.path[i] \notin PathParams
      BY <1>9, <2>2, <2>3, <2>4, NamesAre
    <2>5. CASE o.path[i] \in PathParams
      <3>1. o.path[i] \in Names(o) /\ o.path[i] # o.path[n]
        BY <1>2, <2>1, <2>5 DEF Fillable
      <3>2. o.path[i] \in Range(Front(o.params)) /\ o.path[i] # end
        BY <1>1, <1>3, <3>1, NamesAre
      <3>3. o.path[i] \in Given(o, "CREATED")
        BY <1>1, <3>2 DEF Available, Given
      <3>4. given[o.path[i]] = <<"configured", o.path[i]>>
        BY <3>1, <3>2, <3>3, ValueIs
      <3>5. QED
        BY <1>9, <2>2, <2>3, <2>5, <3>1, <3>4
    <2>6. QED
      BY <2>4, <2>5
  <1> HIDE DEF url, given
  <1>13. url = Append(PlainUrl(Front(o.path)), <<"created", j>>)
    BY <1>1, <1>10, <1>11, <1>12, AppendUrl
  <1>14. QED
    BY <1>7, <1>8, <1>13 DEF url, given

-----------------------------------------------------------------------------
(* What a step leaves alone. *)

LEMMA EmptyIs ==
  /\ DOMAIN <<>> = {} /\ Len(<<>>) = 0
  /\ \A S : <<>> \in Seq(S)
  OBVIOUS

LEMMA PolicySame ==
  ASSUME PolicyKept, UNCHANGED <<cfg, probes>>
  PROVE  PolicyKept'
  BY DEF PolicyKept, OwnResource, MethodOf

LEMMA CreatedSame ==
  ASSUME CreatedHere, UNCHANGED <<cfg, probes>>, created' \subseteq created
  PROVE  CreatedHere'
  BY DEF CreatedHere, Creates, MethodOf

LEMMA FailuresSame ==
  ASSUME FailuresCounted, StopsWhenTold, UNCHANGED <<cfg, probes, wire>>
  PROVE  FailuresCounted' /\ StopsWhenTold'
  <1>1. FailuresCounted'
    <2>1. \A i, j : Lost(j, i)' = Lost(j, i) /\ (NoAnswer(j, i)' <=> NoAnswer(j, i))
      BY DEF Lost, NoAnswer, Answered
    <2>2. QED
      BY <2>1 DEF FailuresCounted
  <1>2. StopsWhenTold'
    BY DEF StopsWhenTold, Answered
  <1>3. QED
    BY <1>1, <1>2

\* An entry that keeps what its answers made of it.
LEMMA EntriesSame ==
  ASSUME EntriesKnow, UNCHANGED <<cfg, probes>>, DOMAIN endpoints' = DOMAIN endpoints,
         \A i \in DOMAIN endpoints : /\ endpoints'[i].validated = endpoints[i].validated
                                     /\ endpoints'[i].execution = endpoints[i].execution
                                     /\ endpoints'[i].evidence = endpoints[i].evidence
  PROVE  EntriesKnow'
  <1>1. \A i : MineOf(i)' = MineOf(i)
    BY DEF MineOf, Answered
  <1>2. \A k : EvidenceFor(probes[k])' = EvidenceFor(probes[k]) /\ Violates(probes[k])' = Violates(probes[k])
    BY DEF EvidenceFor, Violates, Answered
  <1>3. QED
    BY <1>1, <1>2 DEF EntriesKnow

\* Nothing is sent yet.
LEMMA NothingSent ==
  ASSUME probes' = <<>>, created' = {}, wire'.sent <= cfg'.maxRequests
  PROVE  /\ PolicyKept' /\ CreatedHere' /\ FailuresCounted' /\ StopsWhenTold' /\ Untried'
         /\ \A i : MineOf(i)' = {}
  <1>1. DOMAIN probes' = {} /\ Len(probes') = 0
    BY EmptyIs
  <1>2. PolicyKept' /\ CreatedHere' /\ Untried' /\ \A i : MineOf(i)' = {}
    BY <1>1 DEF PolicyKept, CreatedHere, Untried, MineOf
  <1>3. FailuresCounted'
    BY <1>1 DEF FailuresCounted
  <1>4. StopsWhenTold'
    <2>1. 1..(Len(probes') - 1) = {}
      BY <1>1
    <2>2. QED
      BY <2>1 DEF StopsWhenTold
  <1>5. QED
    BY <1>2, <1>3, <1>4

-----------------------------------------------------------------------------
(* Before the first request. *)

LEMMA InitIInv == Init => IInv
  <1> SUFFICES ASSUME Init PROVE IInv
    OBVIOUS
  <1>1. probes = <<>> /\ DOMAIN probes = {} /\ Len(probes) = 0 /\ DOMAIN endpoints = {} /\ agenda = {}
        /\ pending = <<>>
    BY EmptyIs DEF Init
  <1>2. TypeOK
    <2>1. /\ cfg \in Configurations /\ pc = "READ_DOCS" /\ docs = "NONE" /\ status = "NONE" /\ created = {}
          /\ wire \in [sent : Nat, failures : Nat, stopped : StopReasons \cup {Running}]
      BY DEF Init
    <2>2. pending \in Seq(ProbeKinds) /\ probes \in Seq(Range(probes))
      BY <1>1, EmptyIs
    <2>3. endpoints \in [DOMAIN endpoints -> Entry]
      BY <1>1, EmptyIs DEF Init
    <2>4. QED
      BY <1>1, <2>1, <2>2, <2>3 DEF TypeOK
  <1>3. StageKnows
    BY <1>1 DEF StageKnows, Init, Live
  <1>4. CreatedHere /\ Untried /\ PlannedWell /\ EntriesKnow /\ SkipsKnow /\ PolicyKept
    BY <1>1 DEF Init, CreatedHere, Untried, PlannedWell, EntriesKnow, SkipsKnow, PolicyKept
  <1>5. cfg.maxRequests \in Nat /\ wire.sent = 0
    BY <1>2, ConfigurationIs DEF Init
  <1>6. FailuresCounted
    BY <1>1, <1>5 DEF FailuresCounted
  <1>7. StopsWhenTold
    <2>1. 1..(Len(probes) - 1) = {}
      BY <1>1
    <2>2. wire.sent <= cfg.maxRequests
      BY <1>5
    <2>3. QED
      BY <2>1, <2>2 DEF StopsWhenTold
  <1>8. Accounted
    BY DEF Accounted, Init
  <1>9. QED
    BY <1>2, <1>3, <1>4, <1>6, <1>7, <1>8 DEF IInv

LEMMA StutterIInv == IInv /\ UNCHANGED vars => IInv'
  <1> SUFFICES ASSUME IInv, UNCHANGED vars PROVE IInv'
    OBVIOUS
  <1>1. UNCHANGED <<cfg, pc, docs, auth, agenda, pending, values, endpoints, probes, wire, created, status>>
    BY DEF vars
  <1>2. TypeOK' /\ StageKnows'
    BY <1>1 DEF IInv, TypeOK, StageKnows, Live
  <1>3. Untried' /\ PlannedWell'
    BY <1>1 DEF IInv, Untried, PlannedWell, Pass, IsNext, OpOf, Creates, MethodOf
  <1>4. CreatedHere' /\ FailuresCounted' /\ StopsWhenTold' /\ EntriesKnow' /\ PolicyKept'
    BY <1>1, CreatedSame, FailuresSame, EntriesSame, PolicySame DEF IInv
  <1>5. SkipsKnow'
    BY <1>1 DEF IInv, SkipsKnow, ToCome, TimedOut, Pass, Live, Called
  <1>6. Accounted'
    BY <1>1 DEF IInv, Accounted, Complete, Called, Answered
  <1>7. QED
    BY <1>2, <1>3, <1>4, <1>5, <1>6 DEF IInv

LEMMA NoEntryTyped == NoEntry \in Entry
  BY DEF NoEntry, Entry, Reasons

LEMMA ReadDocsStep ==
  ASSUME IInv, ReadDocs
  PROVE  IInv'
  <1>1. /\ UNCHANGED <<cfg, auth, agenda, pending, values, probes, wire, created>> /\ pc = "READ_DOCS"
        /\ probes = <<>> /\ created = {} /\ wire = [sent |-> 0, failures |-> 0, stopped |-> Running]
        /\ agenda = {} /\ pending = <<>> /\ status = "NONE"
    BY DEF ReadDocs, Idle, IInv, StageKnows, TypeOK
  <1>2. DOMAIN probes' = {} /\ Len(probes') = 0
    BY <1>1, EmptyIs
  <1>3. /\ \/ endpoints' = [i \in DOMAIN cfg.doc |-> NoEntry] /\ pc' = "BASE_URL"
              /\ docs' = "AVAILABLE" /\ cfg.enabled
           \/ endpoints' = <<>> /\ pc' \in {"CONTINUES", "FAILED"}
        /\ docs' \in {"NOT_REQUESTED", "AVAILABLE", "UNAVAILABLE"}
        /\ pc' = "FAILED" => docs' # "AVAILABLE"
        /\ status' = IF pc' = "CONTINUES" THEN "NOT_REQUESTED" ELSE "NONE"
    BY DEF ReadDocs, Discovered
  <1>4. TypeOK'
    <2>1. endpoints' \in [DOMAIN endpoints' -> Entry] /\ DOMAIN endpoints' \in {{}, DOMAIN cfg'.doc}
      <3>1. CASE endpoints' = [i \in DOMAIN cfg.doc |-> NoEntry]
        BY <1>1, <3>1, NoEntryTyped
      <3>2. CASE endpoints' = <<>>
        BY <3>2, EmptyIs
      <3>3. QED
        BY <1>3, <3>1, <3>2
    <2>2. QED
      BY <1>1, <1>2, <1>3, <2>1 DEF IInv, TypeOK
  <1>5. StageKnows'
    BY <1>1, <1>3 DEF StageKnows, Live
  <1>6. wire'.sent <= cfg'.maxRequests
    <2>1. cfg'.maxRequests \in Nat /\ wire'.sent = 0
      BY <1>1, ConfigurationIs DEF IInv
    <2>2. QED
      BY <2>1
  <1>7. /\ CreatedHere' /\ FailuresCounted' /\ StopsWhenTold' /\ PolicyKept' /\ Untried'
        /\ \A i : MineOf(i)' = {}
    BY <1>1, <1>6, NothingSent
  <1>8. PlannedWell'
    BY <1>1 DEF PlannedWell
  <1>9. \A i \in DOMAIN endpoints' : endpoints'[i] = NoEntry /\ pc' = "BASE_URL"
    BY <1>3, EmptyIs
  <1>10. EntriesKnow'
    BY <1>7, <1>9 DEF EntriesKnow, NoEntry
  <1>11. SkipsKnow'
    <2>1. \A i \in DOMAIN endpoints' :
             endpoints'[i].skip = "NOT_ATTEMPTED" /\ endpoints'[i].execution = "SKIPPED" /\ pc' = "BASE_URL"
      BY <1>9 DEF NoEntry
    <2>2. QED
      BY <2>1 DEF SkipsKnow
  <1>12. Accounted'
    BY <1>2, <1>3 DEF Accounted, Complete, Called
  <1>13. QED
    BY <1>4, <1>5, <1>7, <1>8, <1>10, <1>11, <1>12 DEF IInv

LEMMA CheckHostStep ==
  ASSUME IInv, CheckHost
  PROVE  IInv'
  <1>1. /\ UNCHANGED <<cfg, auth, agenda, pending, values, probes, wire, created, docs, endpoints>>
              /\ pc = "BASE_URL"
        /\ probes = <<>> /\ created = {} /\ wire = [sent |-> 0, failures |-> 0, stopped |-> Running]
        /\ agenda = {} /\ pending = <<>> /\ docs = "AVAILABLE" /\ cfg.enabled /\ DOMAIN endpoints = DOMAIN cfg.doc
    BY DEF CheckHost, Idle, IInv, StageKnows, TypeOK, Live
  <1>2. DOMAIN probes' = {} /\ Len(probes') = 0
    BY <1>1, EmptyIs
  <1>3. \/ pc' = "SIGN_IN" /\ cfg.base = "allowed" /\ status' = "NONE"
        \/ pc' = "CONTINUES" /\ status' = "UNAVAILABLE"
    BY DEF CheckHost, MayBeCalled
  <1>4. TypeOK'
    BY <1>1, <1>2, <1>3 DEF IInv, TypeOK
  <1>5. StageKnows'
    BY <1>1, <1>3 DEF StageKnows, Live
  <1>6. wire'.sent <= cfg'.maxRequests
    <2>1. cfg'.maxRequests \in Nat /\ wire'.sent = 0
      BY <1>1, ConfigurationIs DEF IInv
    <2>2. QED
      BY <2>1
  <1>7. CreatedHere' /\ FailuresCounted' /\ StopsWhenTold' /\ PolicyKept' /\ Untried'
    BY <1>1, <1>6, NothingSent
  <1>8. PlannedWell'
    BY <1>1 DEF PlannedWell
  <1>9. EntriesKnow'
    BY <1>1, EntriesSame DEF IInv
  <1>10. SkipsKnow'
    BY <1>1, <1>3 DEF IInv, SkipsKnow, Live, Called
  <1>11. Accounted'
    BY <1>2, <1>3 DEF Accounted, Complete, Called
  <1>12. QED
    BY <1>4, <1>5, <1>7, <1>8, <1>9, <1>10, <1>11 DEF IInv

LEMMA CountedIs ==
  ASSUME NEW w \in [sent : Nat, failures : Nat, stopped : StopReasons \cup {Running}], NEW reply \in Replies
  PROVE  /\ Counted(w, reply) \in [sent : Nat, failures : Nat, stopped : StopReasons \cup {Running}]
         /\ Counted(w, reply).sent = w.sent + 1 /\ Counted(w, reply).stopped = w.stopped
         /\ Counted(w, reply).failures = IF reply.error = "" THEN 0
                                         ELSE IF reply.error = "CONNECTION" THEN w.failures + 1 ELSE w.failures
  <1>1. PICK sent \in Nat, failures \in Nat, stopped \in StopReasons \cup {Running} :
           w = [sent |-> sent, failures |-> failures, stopped |-> stopped]
    OBVIOUS
  <1>2. PICK f \in Nat : f = IF reply.error = "" THEN 0 ELSE IF reply.error = "CONNECTION" THEN failures + 1 ELSE failures
    <2>1. 0 \in Nat /\ failures + 1 \in Nat
      OBVIOUS
    <2>2. QED
      BY <2>1
  <1>3. Counted(w, reply) = [sent |-> sent + 1, failures |-> f, stopped |-> stopped]
    <2>1. w.sent = sent /\ w.failures = failures
      BY <1>1
    <2>2. Counted(w, reply) = [w EXCEPT !.sent = sent + 1, !.failures = f]
      BY <1>2, <2>1 DEF Counted
    <2>3. QED
      BY <1>1, <2>2
  <1>4. sent + 1 \in Nat
    OBVIOUS
  <1>5. Counted(w, reply) \in [sent : Nat, failures : Nat, stopped : StopReasons \cup {Running}]
    BY <1>3, <1>4
  <1>6. /\ Counted(w, reply).sent = sent + 1 /\ Counted(w, reply).failures = f
              /\ Counted(w, reply).stopped = stopped
        /\ w.sent = sent /\ w.failures = failures /\ w.stopped = stopped
    BY <1>1, <1>3
  <1>7. QED
    BY <1>2, <1>5, <1>6

LEMMA SignInStep ==
  ASSUME IInv, SignIn
  PROVE  IInv'
  <1>1. /\ UNCHANGED <<cfg, docs, pending, values, endpoints, probes, created, status>> /\ pc = "SIGN_IN"
        /\ pc' = "PROBE" /\ agenda' = Agenda(cfg.doc)
        /\ probes = <<>> /\ created = {} /\ wire = [sent |-> 0, failures |-> 0, stopped |-> Running]
        /\ pending = <<>> /\ docs = "AVAILABLE" /\ cfg.enabled /\ cfg.base = "allowed"
        /\ DOMAIN endpoints = DOMAIN cfg.doc /\ status = "NONE"
    BY DEF SignIn, IInv, StageKnows, TypeOK, Live
  <1>2. DOMAIN probes' = {} /\ Len(probes') = 0
    BY <1>1, EmptyIs
  <1>3. wire' = wire \/ \E reply \in Replies : wire' = Counted(wire, reply)
    BY DEF SignIn
  <1>4. /\ wire' \in [sent : Nat, failures : Nat, stopped : StopReasons \cup {Running}]
        /\ wire'.sent \in Nat /\ wire'.sent <= 1 /\ wire'.stopped = Running
    <2>1. /\ wire \in [sent : Nat, failures : Nat, stopped : StopReasons \cup {Running}]
          /\ wire.sent = 0 /\ wire.stopped = Running
      BY <1>1 DEF IInv, TypeOK
    <2>2. CASE wire' = wire
      BY <2>1, <2>2
    <2>3. CASE \E reply \in Replies : wire' = Counted(wire, reply)
      <3>1. PICK reply \in Replies : wire' = Counted(wire, reply)
        BY <2>3
      <3>2. wire' \in [sent : Nat, failures : Nat, stopped : StopReasons \cup {Running}]
        BY <2>1, <3>1, CountedIs
      <3>3. wire'.sent = wire.sent + 1 /\ wire'.stopped = wire.stopped
        BY <2>1, <3>1, CountedIs
      <3>4. QED
        BY <2>1, <3>2, <3>3
    <2>4. QED
      BY <1>3, <2>2, <2>3
  <1>5. TypeOK'
    BY <1>1, <1>2, <1>4 DEF IInv, TypeOK
  <1>6. StageKnows'
    BY <1>1 DEF StageKnows, Live
  <1>7. wire'.sent <= cfg'.maxRequests
    <2>1. cfg'.maxRequests \in Nat /\ cfg'.maxRequests > 0
      BY <1>1, ConfigurationIs DEF IInv
    <2>2. QED
      BY <1>4, <2>1
  <1>8. CreatedHere' /\ FailuresCounted' /\ StopsWhenTold' /\ PolicyKept' /\ Untried'
    BY <1>1, <1>7, NothingSent
  <1>9. PlannedWell'
    BY <1>1 DEF PlannedWell
  <1>10. EntriesKnow'
    BY <1>1, EntriesSame DEF IInv
  <1>11. SkipsKnow'
    <2>1. \A i \in DOMAIN endpoints' : ToCome(i)'
      <3>1. cfg.doc \in Seq(Operation)
        BY ConfigurationIs DEF IInv
      <3>2. QED
        BY <1>1, <3>1, EveryoneComes DEF ToCome, Pass
    <2>2. \A i \in DOMAIN endpoints :
             /\ endpoints[i].execution = "SKIPPED" => endpoints[i].skip # ""
             /\ endpoints[i].skip = "NOT_ATTEMPTED" => endpoints[i].execution = "SKIPPED"
             /\ endpoints[i].skip = "RATE_LIMITED" => wire.stopped # Running
             /\ endpoints[i].skip = "REQUEST_BUDGET" => wire.sent >= cfg.maxRequests
      BY DEF IInv, SkipsKnow
    <2>3. wire.stopped = Running /\ ~(wire.sent >= cfg.maxRequests)
      <3>1. wire.sent = 0 /\ wire.stopped = Running /\ cfg.maxRequests \in Nat /\ cfg.maxRequests > 0
        BY <1>1, ConfigurationIs DEF IInv
      <3>2. QED
        BY <3>1
    <2>4. QED
      BY <1>1, <2>1, <2>2, <2>3 DEF SkipsKnow
  <1>12. Accounted'
    BY <1>1 DEF Accounted
  <1>13. QED
    BY <1>5, <1>6, <1>8, <1>9, <1>10, <1>11, <1>12 DEF IInv

-----------------------------------------------------------------------------
(* The operation whose turn it is is considered. *)

LEMMA PlanIs ==
  ASSUME TypeOK, NEW x \in agenda, NEW e
  PROVE  LET o == OpOf(x)  plan == Plan(x, o, e) IN
         /\ Planned(plan)
         /\ Pass(x) # "CREATED" /\ plan.skip = "" => plan.kinds # <<>>
         /\ plan.kinds # <<>> =>
              /\ Safety(o) # "SAFE" => o \in cfg.approved /\ cfg.env # "production"
              /\ o.method \in {"PUT", "PATCH", "DELETE", "TRACE"} =>
                   Available(o, "CREATED") /\ plan.values = Values(o, "CREATED")
              /\ o.method = "POST" => \E source \in {"CREATED", "CONFIGURED"} :
                   Available(o, source) /\ plan.values = Values(o, source)
  <1> DEFINE o == OpOf(x)
             plan == Plan(x, o, e)
  <1>1. Pass(x) \in {"READ", "POST", "CREATED", "PUT", "PATCH", "DELETE"} /\ InPass(Pass(x), o)
    BY TurnIs
  <1>2. /\ o.method = "POST" <=> Pass(x) = "POST"
        /\ o.method \in {"PUT", "PATCH", "DELETE"} => Pass(x) = o.method
    BY MethodsPass
  <1> HIDE DEF o
  <1>3. Refused(o) = "" => /\ o.method # "TRACE"
                           /\ Safety(o) # "SAFE" => o \in cfg.approved /\ cfg.env # "production"
    BY RefusedMeans
  <1>4. CASE Pass(x) = "READ"
    <2>1. plan = ReadPlan(o) /\ Thorough(plan, o)
      BY <1>4, ReadPlanIs DEF Plan
    <2> HIDE DEF plan
    <2>2. QED
      BY <1>2, <1>3, <1>4, <2>1 DEF Thorough, plan, o
  <1>5. CASE Pass(x) = "POST"
    <2>1. plan = PostPlan(o)
      BY <1>5 DEF Plan
    <2>2. /\ Thorough(plan, o)
          /\ plan.kinds # <<>> => \E source \in {"CREATED", "CONFIGURED"} :
                Available(o, source) /\ plan.values = Values(o, source)
      BY <2>1, PostPlanIs
    <2> HIDE DEF plan
    <2>3. QED
      BY <1>2, <1>3, <1>5, <2>2 DEF Thorough, plan, o
  <1>6. CASE Pass(x) = "CREATED"
    <2>1. plan = CreatedPlan(o, e)
      BY <1>6 DEF Plan
    <2>2. /\ Planned(plan)
          /\ plan.kinds # <<>> => Available(o, "CREATED") /\ plan.values = Values(o, "CREATED")
      BY <2>1, CreatedPlanIs
    <2>3. Safety(o) = "SAFE"
      BY <1>1, <1>6 DEF InPass
    <2> HIDE DEF plan
    <2>4. QED
      BY <1>2, <1>6, <2>2, <2>3 DEF plan, o
  <1>7. CASE Pass(x) \in {"PUT", "PATCH", "DELETE"}
    <2>1. plan = ChangePlan(o)
      BY <1>7 DEF Plan
    <2>2. /\ Thorough(plan, o)
          /\ plan.kinds # <<>> => Available(o, "CREATED") /\ plan.values = Values(o, "CREATED")
      BY <2>1, ChangePlanIs
    <2> HIDE DEF plan
    <2>3. QED
      BY <1>2, <1>3, <1>7, <2>2 DEF Thorough, plan, o
  <1>8. QED
    BY <1>1, <1>4, <1>5, <1>6, <1>7

\* A POST that has sent nothing has created nothing under its own path.
LEMMA NothingPosted ==
  ASSUME TypeOK, CreatedHere, Untried, NEW x \in agenda, Pass(x) = "POST", pending = <<>>
  PROVE  IdsOf(OpOf(x).path) = {}
  <1> SUFFICES ASSUME NEW c \in created, c[1] = OpOf(x).path
               PROVE  FALSE
    BY DEF IdsOf
  <1>1. PICK j \in DOMAIN probes : Creates(probes[j]) /\ c[1] = cfg.doc[probes[j].op].path
    BY DEF CreatedHere
  <1>2. probes[j].op \in DOMAIN cfg.doc /\ x.op \in DOMAIN cfg.doc
    BY TurnIs DEF TypeOK
  <1>3. cfg.doc[probes[j].op].method = "POST" /\ cfg.doc[x.op].method = "POST"
    BY <1>1, MethodsPass DEF Creates, MethodOf, OpOf
  <1>4. probes[j].op = x.op
    BY <1>1, <1>2, <1>3, ConfigurationIs DEF OpOf
  <1>5. QED
    BY <1>4 DEF Untried

LEMMA PostUrl ==
  ASSUME TypeOK, CreatedHere, Untried, NEW x \in agenda, Pass(x) = "POST", pending = <<>>,
         NEW source \in {"CREATED", "CONFIGURED"}, Available(OpOf(x), source), Fillable(OpOf(x)),
         Last(OpOf(x).path) \notin PathParams
  PROVE  Url(OpOf(x), Values(OpOf(x), source)) = PlainUrl(OpOf(x).path)
  <1> DEFINE o == OpOf(x)
  <1>1. o \in Operation
    BY TurnIs
  <1>2. source = "CREATED" => o.params = <<>>
    <2>1. IdsOf(Collection(o.path)) = {}
      BY NothingPosted DEF Collection
    <2>2. QED
      BY <2>1 DEF Available
  <1> HIDE DEF o
  <1>3. Fillable(o) /\ (source = "CONFIGURED" => Available(o, source))
    BY DEF o
  <1>4. Url(o, Values(o, source)) = PlainUrl(o.path)
    BY <1>1, <1>2, <1>3, ConfiguredUrl
  <1>5. QED
    BY <1>4 DEF o

LEMMA ConsiderStep ==
  ASSUME IInv, NEW x \in agenda, Consider(x)
  PROVE  IInv'
  <1> DEFINE o == OpOf(x)
             plan == Plan(x, OpOf(x), endpoints[x.op])
  <1>1. /\ pc = "PROBE" /\ IsNext(x) /\ pending = <<>>
        /\ UNCHANGED <<cfg, pc, docs, auth, probes, wire, created, status>>
        /\ endpoints' = IF plan.skip = "" THEN endpoints ELSE [endpoints EXCEPT ![x.op].skip = plan.skip]
        /\ pending' = plan.kinds /\ values' = plan.values
        /\ agenda' = IF plan.kinds = <<>> THEN agenda \ {x} ELSE agenda
    BY DEF Consider, Turn
  <1>2. TypeOK /\ x.op \in DOMAIN cfg.doc /\ o \in Operation /\ Pass(x)' = Pass(x)
           /\ DOMAIN endpoints = DOMAIN cfg.doc
    BY <1>1, TurnIs DEF IInv, Pass, StageKnows, Live
  <1>3. /\ Planned(plan)
        /\ Pass(x) # "CREATED" /\ plan.skip = "" => plan.kinds # <<>>
        /\ plan.kinds # <<>> =>
              /\ Safety(o) # "SAFE" => o \in cfg.approved /\ cfg.env # "production"
              /\ o.method \in {"PUT", "PATCH", "DELETE", "TRACE"} =>
                   Available(o, "CREATED") /\ plan.values = Values(o, "CREATED")
              /\ o.method = "POST" => \E source \in {"CREATED", "CONFIGURED"} :
                   Available(o, source) /\ plan.values = Values(o, source)
    BY <1>2, PlanIs
  <1> HIDE DEF plan
  <1>4. /\ plan.skip \in PlanReasons \cup {""} /\ plan.kinds \in Seq(ProbeKinds)
        /\ plan.skip # "" => plan.kinds = <<>>
    BY <1>3 DEF Planned
  <1>5. /\ agenda' \subseteq agenda /\ \A y \in agenda : y # x => y \in agenda'
        /\ pending' # <<>> => agenda' = agenda
    BY <1>1
  <1>6. /\ DOMAIN endpoints' = DOMAIN endpoints /\ endpoints' \in [DOMAIN endpoints -> Entry]
        /\ \A i \in DOMAIN endpoints : /\ endpoints'[i].validated = endpoints[i].validated
                                       /\ endpoints'[i].execution = endpoints[i].execution
                                       /\ endpoints'[i].evidence = endpoints[i].evidence
                                       /\ endpoints'[i].skip = IF i = x.op
                                             /\ plan.skip # "" THEN plan.skip ELSE endpoints[i].skip
    <2>1. endpoints \in [DOMAIN endpoints -> Entry] /\ x.op \in DOMAIN endpoints
      BY <1>2 DEF TypeOK
    <2>2. CASE plan.skip = ""
      BY <1>1, <2>1, <2>2
    <2>3. CASE plan.skip # ""
      <3>1. plan.skip \in Reasons
        BY <1>4 DEF Reasons
      <3> DEFINE reason == plan.skip
                 entry == [endpoints[x.op] EXCEPT !.skip = reason]
      <3> HIDE DEF reason
      <3>2. endpoints[x.op] \in Entry /\ reason \in Reasons
        BY <2>1, <3>1 DEF reason
      <3>3. /\ entry \in Entry /\ entry.skip = reason /\ entry.validated = endpoints[x.op].validated
            /\ entry.execution = endpoints[x.op].execution /\ entry.evidence = endpoints[x.op].evidence
        BY <3>2 DEF Entry
      <3>4. endpoints' = [endpoints EXCEPT ![x.op] = entry]
        BY <1>1, <2>3 DEF reason
      <3> HIDE DEF entry
      <3>5. /\ DOMAIN endpoints' = DOMAIN endpoints /\ endpoints' \in [DOMAIN endpoints -> Entry]
            /\ \A i \in DOMAIN endpoints : endpoints'[i] = IF i = x.op THEN entry ELSE endpoints[i]
        BY <2>1, <3>3, <3>4
      <3>6. QED
        BY <2>3, <3>3, <3>5 DEF reason
    <2>4. QED
      BY <2>2, <2>3
  <1>7. TypeOK'
    <2>1. pending' \in Seq(ProbeKinds) /\ (pending' # <<>> => agenda' # {})
      BY <1>1, <1>4
    <2>2. agenda' \subseteq Agenda(cfg'.doc) /\ (agenda' # {} => pc' = "PROBE")
      BY <1>1, <1>2, <1>5 DEF TypeOK
    <2>3. /\ endpoints' \in [DOMAIN endpoints' -> Entry] /\ DOMAIN endpoints' \in {{}, DOMAIN cfg'.doc}
      BY <1>1, <1>2, <1>6 DEF TypeOK
    <2>4. QED
      BY <1>1, <1>2, <1>6, <2>1, <2>2, <2>3 DEF TypeOK
  <1>8. StageKnows'
    BY <1>1, <1>6 DEF IInv, StageKnows, Live
  <1>9. CreatedHere' /\ PolicyKept' /\ FailuresCounted' /\ StopsWhenTold' /\ EntriesKnow'
    BY <1>1, <1>6, CreatedSame, PolicySame, FailuresSame, EntriesSame DEF IInv
  <1>10. Untried'
    <2>1. SUFFICES ASSUME NEW y \in agenda', Pass(y) = "POST", NEW j \in DOMAIN probes
                   PROVE  probes[j].op # y.op
      BY <1>1 DEF Untried, Pass
    <2>2. QED
      BY <1>1, <1>5, <2>1 DEF IInv, Untried
  <1>11. PlannedWell'
    <2>1. SUFFICES ASSUME pending' # <<>>, NEW y \in agenda', IsNext(y)'
                   PROVE  /\ Safety(OpOf(y)) # "SAFE" => OpOf(y) \in cfg.approved /\ cfg.env # "production"
                          /\ OpOf(y).method \in {"PUT", "PATCH", "DELETE", "TRACE"} /\ Addressed(OpOf(y))
                                /\ Fillable(OpOf(y)) =>
                                \E j \in DOMAIN probes : /\ Creates(probes[j])
                                                         /\ Url(OpOf(y), values') = Append(probes[j].url, <<"created", j>>)
                          /\ OpOf(y).method = "POST" /\ Fillable(OpOf(y)) /\ Last(OpOf(y).path) \notin PathParams =>
                                Url(OpOf(y), values') = PlainUrl(OpOf(y).path)
      BY <1>1 DEF PlannedWell, OpOf, Creates, MethodOf
    <2>2. y = x
      <3>1. y \in agenda /\ IsNext(y)
        BY <1>5, <2>1 DEF IsNext
      <3>2. QED
        BY <1>1, <1>2, <3>1, OneTurn
    <2>3. plan.kinds # <<>> /\ values' = plan.values
      BY <1>1, <2>1
    <2>4. ASSUME o.method \in {"PUT", "PATCH", "DELETE", "TRACE"}, Addressed(o), Fillable(o)
          PROVE  \E j \in DOMAIN probes :
                    Creates(probes[j]) /\ Url(o, values') = Append(probes[j].url, <<"created", j>>)
      <3>1. Available(o, "CREATED") /\ values' = Values(o, "CREATED")
        BY <1>3, <2>3, <2>4
      <3> HIDE DEF o
      <3>2. \E j \in DOMAIN probes :
               Creates(probes[j]) /\ Url(o, Values(o, "CREATED")) = Append(probes[j].url, <<"created", j>>)
        BY <1>2, <2>4, <3>1, CreatedUrl DEF IInv
      <3>3. QED
        BY <3>1, <3>2
    <2>5. ASSUME o.method = "POST", Fillable(o), Last(o.path) \notin PathParams
          PROVE  Url(o, values') = PlainUrl(o.path)
      <3>1. PICK source \in {"CREATED", "CONFIGURED"} : Available(o, source) /\ values' = Values(o, source)
        BY <1>3, <2>3, <2>5
      <3>2. Pass(x) = "POST"
        BY <1>2, <2>5, MethodsPass
      <3>3. Url(o, Values(o, source)) = PlainUrl(o.path)
        BY <1>1, <1>2, <2>5, <3>1, <3>2, PostUrl DEF IInv
      <3>4. QED
        BY <3>1, <3>3
    <2>6. Safety(o) # "SAFE" => o \in cfg.approved /\ cfg.env # "production"
      BY <1>3, <2>3
    <2>7. QED
      BY <2>2, <2>4, <2>5, <2>6
  <1>12. SkipsKnow'
    <2>1. SUFFICES ASSUME NEW i \in DOMAIN endpoints
                   PROVE  /\ endpoints'[i].execution = "SKIPPED" => endpoints'[i].skip # ""
                          /\ endpoints'[i].skip = "NOT_ATTEMPTED" =>
                                endpoints'[i].execution = "SKIPPED" /\ (ToCome(i)' \/ TimedOut(i))
                          /\ endpoints'[i].skip = "RATE_LIMITED" => wire.stopped # Running
                          /\ endpoints'[i].skip = "REQUEST_BUDGET" => wire.sent >= cfg.maxRequests
      <3>1. UNCHANGED <<cfg, probes, wire>> /\ DOMAIN endpoints' = DOMAIN endpoints
        BY <1>1, <1>6
      <3>2. \A i : TimedOut(i)' <=> TimedOut(i)
        BY <3>1 DEF TimedOut
      <3>3. QED
        BY <3>1, <3>2 DEF SkipsKnow
    <2>2. /\ endpoints[i].execution = "SKIPPED" => endpoints[i].skip # ""
          /\ endpoints[i].skip = "NOT_ATTEMPTED" => endpoints[i].execution = "SKIPPED" /\ (ToCome(i) \/ TimedOut(i))
          /\ endpoints[i].skip = "RATE_LIMITED" => wire.stopped # Running
          /\ endpoints[i].skip = "REQUEST_BUDGET" => wire.sent >= cfg.maxRequests
      BY <1>1 DEF IInv, SkipsKnow, Live
    <2>3. CASE i = x.op /\ plan.skip # ""
      <3>1. endpoints'[i].skip \in PlanReasons /\ endpoints'[i].skip # ""
        BY <1>4, <1>6, <2>3
      <3>2. QED
        BY <3>1 DEF PlanReasons
    <2>4. CASE ~(i = x.op /\ plan.skip # "")
      <3>1. endpoints'[i].skip = endpoints[i].skip /\ endpoints'[i].execution = endpoints[i].execution
        BY <1>6, <2>4
      <3>2. ToCome(i) => ToCome(i)'
        <4>1. SUFFICES ASSUME NEW y \in agenda, y.op = i, Pass(y) # "CREATED" PROVE y \in agenda'
          BY DEF ToCome, Pass
        <4>2. CASE y # x
          BY <1>5, <4>2
        <4>3. CASE y = x
          <5>1. plan.kinds # <<>>
            BY <1>3, <2>4, <4>1, <4>3
          <5>2. QED
            BY <1>1, <4>3, <5>1
        <4>4. QED
          BY <4>2, <4>3
      <3>3. QED
        BY <2>2, <3>1, <3>2
    <2>5. QED
      BY <2>3, <2>4
  <1>13. Accounted'
    BY <1>1 DEF Accounted
  <1>14. QED
    BY <1>7, <1>8, <1>9, <1>10, <1>11, <1>12, <1>13 DEF IInv

-----------------------------------------------------------------------------
(* A planned probe is not sent. *)

LEMMA TailTyped ==
  ASSUME NEW kinds \in Seq(ProbeKinds), kinds # <<>>
  PROVE  Tail(kinds) \in Seq(ProbeKinds) /\ Head(kinds) \in ProbeKinds
  <1>1. Tail(kinds) \in Seq(ProbeKinds)
    OBVIOUS
  <1>2. Head(kinds) \in ProbeKinds
    OBVIOUS
  <1>3. QED
    BY <1>1, <1>2

\* The turn passes, or stays with the operation.
LEMMA AdvanceIs ==
  ASSUME TypeOK, NEW x \in agenda, IsNext(x), NEW rest \in Seq(ProbeKinds), Advance(x, rest), UNCHANGED <<cfg, pc>>
  PROVE  /\ agenda' \subseteq Agenda(cfg'.doc) /\ (agenda' # {} => pc' = "PROBE")
         /\ pending' \in Seq(ProbeKinds) /\ (pending' # <<>> => agenda' # {})
         /\ agenda' \subseteq agenda /\ (\A y \in agenda : y # x => y \in agenda') /\ UNCHANGED values
         /\ pending' # <<>> => agenda' = agenda
         /\ \A y \in agenda' : pending' = <<>> \/ ~IsNext(y)' => y # x /\ ~IsNext(y)
  <1>1. /\ pending' = rest /\ agenda' = (IF rest = <<>> THEN agenda \ {x} ELSE agenda) /\ UNCHANGED values
    BY DEF Advance
  <1>2. agenda' \subseteq agenda /\ (\A y \in agenda : y # x => y \in agenda')
           /\ (pending' # <<>> => agenda' = agenda)
    BY <1>1
  <1>3. agenda' \subseteq Agenda(cfg'.doc) /\ (agenda' # {} => pc' = "PROBE")
    BY <1>2 DEF TypeOK
  <1>4. pending' \in Seq(ProbeKinds) /\ (pending' # <<>> => agenda' # {})
    BY <1>1
  <1>5. ASSUME NEW y \in agenda', pending' = <<>> \/ ~IsNext(y)' PROVE y # x /\ ~IsNext(y)
    <2>1. y # x
      <3>1. CASE pending' = <<>>
        BY <1>1, <3>1
      <3>2. CASE pending' # <<>>
        <4>1. ~IsNext(y)' /\ agenda' = agenda
          BY <1>2, <1>5, <3>2
        <4>2. ~IsNext(y)
          BY <4>1 DEF IsNext
        <4>3. QED
          BY <4>2
      <3>3. QED
        BY <3>1, <3>2
    <2>2. QED
      BY <1>2, <2>1, OneTurn
  <1>6. QED
    BY <1>1, <1>2, <1>3, <1>4, <1>5

\* Probes are only ever added, and by the operation whose turn it is.
Grows(x) ==
  /\ DOMAIN probes \subseteq DOMAIN probes' /\ \A j \in DOMAIN probes : probes'[j] = probes[j]
  /\ \A j \in DOMAIN probes' \ DOMAIN probes : probes'[j].op = x.op

LEMMA TurnKept ==
  ASSUME IInv, NEW x \in agenda, IsNext(x), pending # <<>>, NEW rest \in Seq(ProbeKinds), Advance(x, rest),
         UNCHANGED <<cfg, pc>>, Grows(x)
  PROVE  Untried' /\ PlannedWell'
  <1>1. /\ agenda' \subseteq agenda /\ UNCHANGED values
        /\ pending' # <<>> => agenda' = agenda
        /\ \A y \in agenda' : pending' = <<>> \/ ~IsNext(y)' => y # x /\ ~IsNext(y)
    BY AdvanceIs DEF IInv
  <1>2. Untried'
    <2>1. SUFFICES ASSUME NEW y \in agenda', Pass(y) = "POST", pending' = <<>>
                      \/ ~IsNext(y)', NEW j \in DOMAIN probes'
                   PROVE  probes'[j].op # y.op
      BY DEF Untried, Pass
    <2>2. y \in agenda /\ y # x /\ ~IsNext(y)
      BY <1>1, <2>1
    <2>3. CASE j \in DOMAIN probes
      BY <2>1, <2>2, <2>3 DEF IInv, Untried, Grows
    <2>4. CASE j \notin DOMAIN probes
      <3>1. probes'[j].op = x.op
        BY <2>1, <2>4 DEF Grows
      <3>2. x.op # y.op
        BY <2>1, <2>2, OnePost DEF IInv
      <3>3. QED
        BY <3>1, <3>2
    <2>5. QED
      BY <2>3, <2>4
  <1>3. PlannedWell'
    <2>1. SUFFICES ASSUME pending' # <<>>, NEW y \in agenda', IsNext(y)'
                   PROVE  /\ Safety(OpOf(y)) # "SAFE" => OpOf(y) \in cfg.approved /\ cfg.env # "production"
                          /\ OpOf(y).method \in {"PUT", "PATCH", "DELETE", "TRACE"} /\ Addressed(OpOf(y))
                                /\ Fillable(OpOf(y)) =>
                                \E j \in DOMAIN probes' : /\ Creates(probes[j])'
                                                          /\ Url(OpOf(y), values) = Append(probes'[j].url, <<"created", j>>)
                          /\ OpOf(y).method = "POST" /\ Fillable(OpOf(y)) /\ Last(OpOf(y).path) \notin PathParams =>
                                Url(OpOf(y), values) = PlainUrl(OpOf(y).path)
      BY <1>1 DEF PlannedWell, OpOf, Creates, MethodOf
    <2>2. y \in agenda /\ IsNext(y)
      BY <1>1, <2>1 DEF IsNext
    <2>3. \A j \in DOMAIN probes : /\ j \in DOMAIN probes' /\ probes'[j] = probes[j]
                                   /\ Creates(probes[j]) => Creates(probes[j])'
      BY DEF Grows, Creates, MethodOf
    <2>4. QED
      BY <2>2, <2>3 DEF IInv, PlannedWell
  <1>4. QED
    BY <1>2, <1>3

LEMMA NotSentIs ==
  ASSUME NEW e \in Entry, NEW reason \in Reasons
  PROVE  /\ NotSent(e, reason) \in Entry /\ NotSent(e, reason).validated = e.validated
         /\ NotSent(e, reason).execution = e.execution /\ NotSent(e, reason).evidence = e.evidence
         /\ NotSent(e, reason).skip = IF e.execution = "EXECUTED" THEN e.skip ELSE reason
  BY DEF NotSent, Entry

LEMMA HeldBackIs ==
  ASSUME TypeOK, NEW o
  PROVE  /\ HeldBack(o) \in StopReasons \cup {"REQUEST_BUDGET", "MISSING_PARAMETERS", ""} /\ HeldBack(o) \in Reasons
         /\ HeldBack(o) \in StopReasons => wire.stopped # Running
         /\ HeldBack(o) = "REQUEST_BUDGET" => wire.sent >= cfg.maxRequests
         /\ HeldBack(o) = "" => wire.stopped = Running /\ ~(wire.sent >= cfg.maxRequests) /\ Fillable(o)
  <1>1. wire.stopped \in StopReasons \cup {Running}
    BY DEF TypeOK
  <1>2. HeldBack(o) \in StopReasons \cup {"REQUEST_BUDGET", "MISSING_PARAMETERS", ""}
    BY <1>1 DEF HeldBack, StopReasons, Running
  <1>3. HeldBack(o) \in Reasons
    BY <1>2 DEF Reasons, PlanReasons
  <1>4. /\ HeldBack(o) \in StopReasons => wire.stopped # Running
        /\ HeldBack(o) = "REQUEST_BUDGET" => wire.sent >= cfg.maxRequests
        /\ HeldBack(o) = "" => wire.stopped = Running /\ ~(wire.sent >= cfg.maxRequests) /\ Fillable(o)
    BY <1>1 DEF HeldBack, StopReasons, Running
  <1>5. QED
    BY <1>2, <1>3, <1>4

LEMMA EntryWritten ==
  ASSUME TypeOK, NEW i \in DOMAIN endpoints, NEW e \in Entry, endpoints' = [endpoints EXCEPT ![i] = e]
  PROVE  /\ DOMAIN endpoints' = DOMAIN endpoints /\ endpoints' \in [DOMAIN endpoints -> Entry]
         /\ \A k \in DOMAIN endpoints : endpoints'[k] = IF k = i THEN e ELSE endpoints[k]
  <1>1. endpoints \in [DOMAIN endpoints -> Entry]
    BY DEF TypeOK
  <1>2. QED
    BY <1>1

\* The reasons of the operations, after a step of the one whose turn it is.
LEMMA ReasonsKept ==
  ASSUME IInv, pc = "PROBE", NEW x \in agenda, x.op \in DOMAIN endpoints, NEW e \in Entry,
         UNCHANGED <<cfg, pc, status>>, \A y \in agenda : y # x => y \in agenda',
         DOMAIN endpoints' = DOMAIN endpoints, \A k \in DOMAIN endpoints : endpoints'[k] = IF k = x.op THEN e ELSE endpoints[k],
         wire.stopped # Running => wire'.stopped # Running, wire.sent >= cfg.maxRequests => wire'.sent >= cfg.maxRequests,
         \A k \in DOMAIN probes : k \in DOMAIN probes' /\ probes'[k] = probes[k],
         e.execution = "SKIPPED" => e.skip # "",
         e.skip = "NOT_ATTEMPTED" => e.execution = "SKIPPED" /\ TimedOut(x.op)',
         e.skip = "RATE_LIMITED" => wire'.stopped # Running,
         e.skip = "REQUEST_BUDGET" => wire'.sent >= cfg.maxRequests
  PROVE  SkipsKnow'
  <1>1. SUFFICES ASSUME NEW i \in DOMAIN endpoints
                 PROVE  /\ endpoints'[i].execution = "SKIPPED" => endpoints'[i].skip # ""
                        /\ endpoints'[i].skip = "NOT_ATTEMPTED" =>
                              endpoints'[i].execution = "SKIPPED" /\ (ToCome(i)' \/ TimedOut(i)')
                        /\ endpoints'[i].skip = "RATE_LIMITED" => wire'.stopped # Running
                        /\ endpoints'[i].skip = "REQUEST_BUDGET" => wire'.sent >= cfg'.maxRequests
    BY DEF SkipsKnow
  <1>2. CASE i = x.op
    BY <1>2
  <1>3. CASE i # x.op
    <2>1. /\ endpoints[i].execution = "SKIPPED" => endpoints[i].skip # ""
          /\ endpoints[i].skip = "NOT_ATTEMPTED" => endpoints[i].execution = "SKIPPED" /\ (ToCome(i) \/ TimedOut(i))
          /\ endpoints[i].skip = "RATE_LIMITED" => wire.stopped # Running
          /\ endpoints[i].skip = "REQUEST_BUDGET" => wire.sent >= cfg.maxRequests
      BY DEF IInv, SkipsKnow, Live
    <2>2. ToCome(i) => ToCome(i)'
      BY <1>3 DEF ToCome, Pass
    <2>3. TimedOut(i) => TimedOut(i)'
      BY DEF TimedOut
    <2>4. endpoints'[i] = endpoints[i]
      BY <1>3
    <2>5. QED
      BY <2>1, <2>2, <2>3, <2>4
  <1>4. QED
    BY <1>2, <1>3

LEMMA SkipStep ==
  ASSUME IInv, NEW x \in agenda, Skip(x)
  PROVE  IInv'
  <1> DEFINE reason == HeldBack(OpOf(x))
             rest == Tail(pending)
             entry == NotSent(endpoints[x.op], reason)
  <1>1. /\ pc = "PROBE" /\ IsNext(x) /\ pending # <<>> /\ reason # ""
        /\ UNCHANGED <<cfg, pc, docs, auth, probes, wire, status>> /\ Advance(x, rest)
        /\ endpoints' = [endpoints EXCEPT ![x.op] = entry]
    BY DEF Skip, Turn
  <1>2. created' \subseteq created
    BY DEF Skip, Forget
  <1>3. TypeOK /\ DOMAIN endpoints = DOMAIN cfg.doc /\ x.op \in DOMAIN endpoints /\ endpoints[x.op] \in Entry
    <2>1. TypeOK /\ DOMAIN endpoints = DOMAIN cfg.doc
      BY <1>1 DEF IInv, StageKnows, Live
    <2>2. QED
      BY <2>1, TurnIs DEF TypeOK
  <1>4. /\ reason \in Reasons /\ reason # "NOT_ATTEMPTED"
        /\ reason = "RATE_LIMITED" => wire.stopped # Running
        /\ reason = "REQUEST_BUDGET" => wire.sent >= cfg.maxRequests
    BY <1>3, HeldBackIs DEF StopReasons
  <1> HIDE DEF reason
  <1>5. /\ entry \in Entry /\ entry.validated = endpoints[x.op].validated
        /\ entry.execution = endpoints[x.op].execution /\ entry.evidence = endpoints[x.op].evidence
        /\ entry.skip = IF endpoints[x.op].execution = "EXECUTED" THEN endpoints[x.op].skip ELSE reason
    BY <1>3, <1>4, NotSentIs
  <1> HIDE DEF entry
  <1>6. /\ DOMAIN endpoints' = DOMAIN endpoints /\ endpoints' \in [DOMAIN endpoints -> Entry]
        /\ \A k \in DOMAIN endpoints : endpoints'[k] = IF k = x.op THEN entry ELSE endpoints[k]
    BY <1>1, <1>3, <1>5, EntryWritten
  <1>7. rest \in Seq(ProbeKinds)
    BY <1>1, <1>3, TailTyped DEF TypeOK
  <1> HIDE DEF rest
  <1>8. /\ agenda' \subseteq Agenda(cfg'.doc) /\ (agenda' # {} => pc' = "PROBE")
        /\ pending' \in Seq(ProbeKinds) /\ (pending' # <<>> => agenda' # {})
        /\ \A y \in agenda : y # x => y \in agenda'
    BY <1>1, <1>3, <1>7, AdvanceIs
  <1>9. TypeOK'
    BY <1>1, <1>3, <1>6, <1>8 DEF TypeOK
  <1>10. StageKnows'
    BY <1>1, <1>6 DEF IInv, StageKnows, Live
  <1>11. CreatedHere' /\ PolicyKept' /\ FailuresCounted' /\ StopsWhenTold'
    BY <1>1, <1>2, CreatedSame, PolicySame, FailuresSame DEF IInv
  <1>12. Untried' /\ PlannedWell'
    <2>1. Grows(x)
      BY <1>1 DEF Grows
    <2>2. QED
      BY <1>1, <1>7, <2>1, TurnKept
  <1>13. EntriesKnow'
    BY <1>1, <1>5, <1>6, EntriesSame DEF IInv
  <1>14. SkipsKnow'
    <2>1. /\ endpoints[x.op].execution = "SKIPPED" => endpoints[x.op].skip # ""
          /\ endpoints[x.op].skip = "NOT_ATTEMPTED" => endpoints[x.op].execution = "SKIPPED"
          /\ endpoints[x.op].skip = "RATE_LIMITED" => wire.stopped # Running
          /\ endpoints[x.op].skip = "REQUEST_BUDGET" => wire.sent >= cfg.maxRequests
          /\ endpoints[x.op].execution \in {"SKIPPED", "EXECUTED"}
      BY <1>3 DEF IInv, SkipsKnow, Entry
    <2>2. /\ entry.execution = "SKIPPED" => entry.skip # ""
          /\ entry.skip # "NOT_ATTEMPTED"
          /\ entry.skip = "RATE_LIMITED" => wire.stopped # Running
          /\ entry.skip = "REQUEST_BUDGET" => wire.sent >= cfg.maxRequests
      BY <1>1, <1>4, <1>5, <2>1
    <2>3. UNCHANGED <<cfg, pc, status, probes, wire>> /\ pc = "PROBE"
      BY <1>1
    <2>4. QED
      BY <1>3, <1>5, <1>6, <1>8, <2>2, <2>3, ReasonsKept
  <1>15. Accounted'
    BY <1>1 DEF Accounted
  <1>16. QED
    BY <1>9, <1>10, <1>11, <1>12, <1>13, <1>14, <1>15 DEF IInv

-----------------------------------------------------------------------------
(* The stage is over. *)

LEMMA FinishStep ==
  ASSUME IInv, Finish
  PROVE  IInv'
  <1>1. /\ UNCHANGED <<cfg, auth, agenda, pending, values, probes, wire, created, docs, endpoints>> /\ pc = "PROBE"
        /\ pc' = "CONTINUES" /\ status' = Result /\ agenda = {} /\ pending = <<>>
    BY DEF Finish, Idle
  <1>2. /\ DOMAIN endpoints = DOMAIN cfg.doc /\ docs = "AVAILABLE" /\ TypeOK
    BY <1>1 DEF IInv, StageKnows, Live
  <1>3. /\ status' \in {"UNAVAILABLE", "PARTIAL", "COMPLETED"}
        /\ status' = "UNAVAILABLE" => Executed = {}
        /\ status' = "COMPLETED" => /\ wire.stopped = Running
                                    /\ ~(wire.sent >= cfg.maxRequests
                                          /\ \E i \in DOMAIN endpoints : endpoints[i].skip = "REQUEST_BUDGET")
    BY <1>1 DEF Result
  <1>4. TypeOK'
    BY <1>1, <1>2, <1>3 DEF TypeOK
  <1>5. StageKnows'
    BY <1>1 DEF IInv, StageKnows, Live
  <1>6. CreatedHere' /\ PolicyKept' /\ FailuresCounted' /\ StopsWhenTold' /\ EntriesKnow'
    BY <1>1, CreatedSame, PolicySame, FailuresSame, EntriesSame DEF IInv
  <1>7. Untried' /\ PlannedWell'
    BY <1>1 DEF Untried, PlannedWell
  <1>8. \A i \in DOMAIN endpoints :
           /\ endpoints[i].execution = "SKIPPED" => endpoints[i].skip # ""
           /\ endpoints[i].skip = "NOT_ATTEMPTED" => endpoints[i].execution = "SKIPPED" /\ TimedOut(i)
           /\ endpoints[i].skip = "RATE_LIMITED" => wire.stopped # Running
           /\ endpoints[i].skip = "REQUEST_BUDGET" => wire.sent >= cfg.maxRequests
    BY <1>1 DEF IInv, SkipsKnow, Live, ToCome
  <1>9. SkipsKnow'
    <2>1. \A i : TimedOut(i)' <=> TimedOut(i)
      BY <1>1 DEF TimedOut
    <2>2. QED
      BY <1>1, <1>8, <2>1 DEF SkipsKnow
  <1>10. Accounted'
    <2>1. docs' = "AVAILABLE" => Complete'
      BY <1>1, <1>2, <1>8 DEF Complete
    <2>2. status' = "UNAVAILABLE" => \A k \in DOMAIN probes' : ~Answered(probes'[k])
      <3>1. SUFFICES ASSUME Executed = {}, NEW k \in DOMAIN probes PROVE ~Answered(probes[k])
        BY <1>1, <1>3 DEF Answered
      <3>2. probes[k].op \in DOMAIN endpoints
        BY <1>2 DEF TypeOK
      <3>3. endpoints[probes[k].op].execution # "EXECUTED"
        BY <3>1, <3>2 DEF Executed
      <3>4. MineOf(probes[k].op) = {}
        BY <3>2, <3>3 DEF IInv, EntriesKnow
      <3>5. QED
        BY <3>4 DEF MineOf
    <2>3. \A i \in DOMAIN endpoints' : endpoints'[i].skip = "NOT_ATTEMPTED" =>
             \E k \in DOMAIN probes' : probes'[k].op = i /\ probes'[k].reply.error = "TIMEOUT"
      BY <1>1, <1>8 DEF TimedOut
    <2>4. status' = "COMPLETED" =>
             wire'.stopped = Running
                /\ \A i \in DOMAIN endpoints' : endpoints'[i].skip \notin {"REQUEST_BUDGET", "RATE_LIMITED"}
      BY <1>1, <1>3, <1>8
    <2>5. QED
      BY <2>1, <2>2, <2>3, <2>4 DEF Accounted, Answered
  <1>11. QED
    BY <1>4, <1>5, <1>6, <1>7, <1>9, <1>10 DEF IInv

-----------------------------------------------------------------------------
(* A probe is sent. *)

LEMMA OneMore ==
  ASSUME NEW s, s \in Seq(Range(s)), NEW p
  PROVE  /\ Len(s) \in Nat /\ DOMAIN s = 1..Len(s)
         /\ Len(Append(s, p)) = Len(s) + 1 /\ DOMAIN Append(s, p) = 1..(Len(s) + 1)
         /\ \A j \in DOMAIN s : Append(s, p)[j] = s[j]
         /\ Append(s, p)[Len(s) + 1] = p /\ Append(s, p) \in Seq(Range(Append(s, p)))
  <1> DEFINE n == Len(s)
             more == Append(s, p)
             S == Range(s) \cup {p}
  <1>1. n \in Nat /\ DOMAIN s = 1..n
    OBVIOUS
  <1>2. s \in Seq(S)
    <2>1. \A i \in 1..n : s[i] \in S
      BY <1>1 DEF Range
    <2>2. s = [i \in 1..n |-> s[i]]
      BY <1>1
    <2> HIDE DEF n, S
    <2>3. QED
      BY <1>1, <2>1, <2>2, IsASeqOf
  <1>3. p \in S
    OBVIOUS
  <1> HIDE DEF S
  <1>4. /\ more \in Seq(S) /\ Len(more) = n + 1 /\ DOMAIN more = 1..(n + 1)
        /\ \A j \in 1..n : more[j] = s[j]
        /\ more[n + 1] = p
    BY <1>1, <1>2, <1>3
  <1> HIDE DEF more, n
  <1>5. more \in Seq(Range(more))
    <2>1. \A i \in 1..(n + 1) : more[i] \in Range(more)
      BY <1>4 DEF Range
    <2>2. more = [i \in 1..(n + 1) |-> more[i]] /\ n + 1 \in Nat
      BY <1>1, <1>4
    <2>3. QED
      BY <2>1, <2>2, IsASeqOf
  <1>6. QED
    BY <1>1, <1>4, <1>5 DEF more, n

\* The probes, after one more that the operation x sent.
Sent(x, p) ==
  /\ Grows(x) /\ Len(probes) \in Nat /\ DOMAIN probes = 1..Len(probes)
  /\ DOMAIN probes' = 1..(Len(probes) + 1) /\ Len(probes') = Len(probes) + 1
  /\ probes'[Len(probes) + 1] = p /\ p.op = x.op

LEMMA ProbeSent ==
  ASSUME TypeOK, NEW x, NEW p, p.op = x.op, probes' = Append(probes, p)
  PROVE  Sent(x, p) /\ probes' \in Seq(Range(probes'))
  <1> DEFINE n == Len(probes)
  <1>1. /\ n \in Nat /\ DOMAIN probes = 1..n /\ Len(probes') = n + 1 /\ DOMAIN probes' = 1..(n + 1)
        /\ \A j \in DOMAIN probes : probes'[j] = probes[j]
        /\ probes'[n + 1] = p /\ probes' \in Seq(Range(probes'))
    BY OneMore DEF TypeOK
  <1> HIDE DEF n
  <1>2. DOMAIN probes \subseteq DOMAIN probes'
    BY <1>1
  <1>3. \A j \in DOMAIN probes' \ DOMAIN probes : j = n + 1
    BY <1>1
  <1>4. Grows(x)
    BY <1>1, <1>2, <1>3 DEF Grows
  <1>5. QED
    BY <1>1, <1>4 DEF Sent, n

LEMMA PolicyGrows ==
  ASSUME IInv, pc = "PROBE", NEW x \in agenda, IsNext(x), pending # <<>>, Fillable(OpOf(x)), UNCHANGED cfg,
         NEW p, p.url = Url(OpOf(x), values), Sent(x, p)
  PROVE  PolicyKept'
  <1>0. PICK n \in Nat : n = Len(probes)
    BY DEF Sent
  <1>1. /\ DOMAIN probes = 1..n /\ DOMAIN probes' = 1..(n + 1) /\ probes'[n + 1] = p /\ p.op = x.op
        /\ \A j \in 1..n : probes'[j] = probes[j]
    BY <1>0 DEF Sent, Grows
  <1>2. SUFFICES \A i \in 1..(n + 1) : \A q : q = probes'[i] =>
                        /\ cfg.base = "allowed" /\ cfg.enabled
                        /\ Safety(cfg.doc[q.op]) # "SAFE" => cfg.doc[q.op] \in cfg.approved
                              /\ cfg.env # "production"
                        /\ cfg.doc[q.op].method \in {"PUT", "PATCH", "DELETE", "TRACE"} /\ Addressed(cfg.doc[q.op])
                              => OwnResource(q, i)'
    <2>1. SUFFICES ASSUME NEW i \in 1..(n + 1)
                   PROVE  /\ cfg.base = "allowed" /\ cfg.enabled
                          /\ Safety(cfg.doc[probes'[i].op]) # "SAFE" =>
                                cfg.doc[probes'[i].op] \in cfg.approved /\ cfg.env # "production"
                          /\ /\ cfg.doc[probes'[i].op].method \in {"PUT", "PATCH", "DELETE", "TRACE"}
                             /\ Addressed(cfg.doc[probes'[i].op])
                             => \E j \in 1..(i - 1) :
                                  /\ cfg.doc[probes'[j].op].method = "POST" /\ probes'[j].kind = "VALID_BODY"
                                  /\ probes'[j].reply.status \in 200..299
                                  /\ probes'[i].url = Append(probes'[j].url, <<"created", j>>)
      <3>1. cfg' = cfg
        OBVIOUS
      <3>2. \A i \in 1..(n + 1) :
              OwnResource(probes[i], i)' <=>
                 \E j \in 1..(i - 1) :
                   /\ cfg.doc[probes'[j].op].method = "POST" /\ probes'[j].kind = "VALID_BODY"
                   /\ probes'[j].reply.status \in 200..299
                   /\ probes'[i].url = Append(probes'[j].url, <<"created", j>>)
        BY <3>1 DEF OwnResource, MethodOf
      <3>3. QED
        BY <1>1, <3>1, <3>2 DEF PolicyKept
    <2>2. PICK q : q = probes'[i]
      OBVIOUS
    <2>3. OwnResource(q, i)' => \E j \in 1..(i - 1) :
                                  /\ cfg.doc[probes'[j].op].method = "POST" /\ probes'[j].kind = "VALID_BODY"
                                  /\ probes'[j].reply.status \in 200..299
                                  /\ q.url = Append(probes'[j].url, <<"created", j>>)
      BY DEF OwnResource, MethodOf
    <2>4. /\ cfg.base = "allowed" /\ cfg.enabled
          /\ Safety(cfg.doc[q.op]) # "SAFE" => cfg.doc[q.op] \in cfg.approved /\ cfg.env # "production"
          /\ cfg.doc[q.op].method \in {"PUT", "PATCH", "DELETE", "TRACE"} /\ Addressed(cfg.doc[q.op])
                => OwnResource(q, i)'
      BY <2>2
    <2>5. QED
      BY <2>2, <2>3, <2>4
  <1> SUFFICES ASSUME NEW i \in 1..(n + 1), NEW q, q = probes'[i]
               PROVE  /\ cfg.base = "allowed" /\ cfg.enabled
                      /\ Safety(cfg.doc[q.op]) # "SAFE" => cfg.doc[q.op] \in cfg.approved /\ cfg.env # "production"
                      /\ cfg.doc[q.op].method \in {"PUT", "PATCH", "DELETE", "TRACE"} /\ Addressed(cfg.doc[q.op])
                            => OwnResource(q, i)'
    OBVIOUS
  <1>3. cfg.base = "allowed" /\ cfg.enabled
    BY DEF IInv, StageKnows
  <1>4. CASE i \in 1..n
    <2>1. q = probes[i] /\ i \in DOMAIN probes
      BY <1>1, <1>4
    <2>2. /\ Safety(cfg.doc[q.op]) # "SAFE" => cfg.doc[q.op] \in cfg.approved /\ cfg.env # "production"
          /\ cfg.doc[q.op].method \in {"PUT", "PATCH", "DELETE", "TRACE"} /\ Addressed(cfg.doc[q.op])
                => OwnResource(q, i)
      BY <2>1 DEF IInv, PolicyKept
    <2>3. OwnResource(q, i) => OwnResource(q, i)'
      <3>1. \A j \in 1..(i - 1) : probes'[j] = probes[j]
        BY <1>1, <1>4
      <3>2. QED
        BY <3>1 DEF OwnResource, MethodOf
    <2>4. QED
      BY <1>3, <2>2, <2>3
  <1>5. CASE i = n + 1
    <2>1. q = p /\ cfg.doc[q.op] = OpOf(x)
      BY <1>1, <1>5 DEF OpOf
    <2>2. /\ Safety(OpOf(x)) # "SAFE" => OpOf(x) \in cfg.approved /\ cfg.env # "production"
          /\ OpOf(x).method \in {"PUT", "PATCH", "DELETE", "TRACE"} /\ Addressed(OpOf(x)) =>
               \E j \in DOMAIN probes : Creates(probes[j]) /\ p.url = Append(probes[j].url, <<"created", j>>)
      BY DEF IInv, PlannedWell
    <2>3. ASSUME \E j \in DOMAIN probes : Creates(probes[j]) /\ p.url = Append(probes[j].url, <<"created", j>>)
          PROVE  OwnResource(p, i)'
      <3>1. PICK j \in DOMAIN probes : Creates(probes[j]) /\ p.url = Append(probes[j].url, <<"created", j>>)
        BY <2>3
      <3>2. j \in 1..(i - 1) /\ probes'[j] = probes[j]
        BY <1>1, <1>5
      <3>3. QED
        BY <3>1, <3>2 DEF OwnResource, MethodOf, Creates
    <2>4. QED
      BY <1>3, <2>1, <2>2, <2>3
  <1>6. QED
    BY <1>1, <1>4, <1>5

LEMMA CreatedGrows ==
  ASSUME IInv, NEW x \in agenda, IsNext(x), pending # <<>>, Fillable(OpOf(x)), UNCHANGED cfg,
         NEW p, p.url = Url(OpOf(x), values), Sent(x, p), created' \subseteq Made(OpOf(x), p)
  PROVE  CreatedHere'
  <1>0. PICK n \in Nat : n = Len(probes)
    BY DEF Sent
  <1> DEFINE path == OpOf(x).path
  <1>1. /\ DOMAIN probes = 1..n /\ DOMAIN probes' = 1..(n + 1) /\ probes'[n + 1] = p /\ p.op = x.op
        /\ \A j \in 1..n : probes'[j] = probes[j]
    BY <1>0 DEF Sent, Grows
  <1>2. OpOf(x) = cfg.doc[p.op]
    BY <1>1 DEF OpOf
  <1>3. \A j \in 1..n : Creates(probes[j])' <=> Creates(probes[j])
    BY <1>1 DEF Creates, MethodOf
  <1>4. ASSUME NEW c \in created'
        PROVE  \E j \in DOMAIN probes' :
                 Creates(probes[j])' /\ c[2] = <<"created", j>> /\ c[1] = cfg.doc[probes'[j].op].path
    <2>1. \/ c \in created
          \/ /\ OpOf(x).method = "POST" /\ p.kind = "VALID_BODY" /\ p.reply.status \in 200..299
             /\ c = <<path, <<"created", n + 1>>>>
      BY <1>0, <1>4 DEF Made
    <2>2. CASE c \in created
      <3>1. PICK j \in DOMAIN probes : Creates(probes[j]) /\ c[2] = <<"created", j>>
                    /\ c[1] = cfg.doc[probes[j].op].path
        BY <2>2 DEF IInv, CreatedHere
      <3>2. j \in 1..n /\ j \in 1..(n + 1)
        BY <1>1
      <3>3. QED
        BY <1>1, <1>3, <3>1, <3>2
    <2>3. CASE /\ OpOf(x).method = "POST" /\ p.kind = "VALID_BODY" /\ p.reply.status \in 200..299
               /\ c = <<path, <<"created", n + 1>>>>
      <3>1. n + 1 \in DOMAIN probes' /\ probes'[n + 1] = p
        BY <1>1
      <3>2. Creates(probes[n + 1])'
        BY <1>2, <2>3, <3>1 DEF Creates, MethodOf
      <3>3. c[1] = path /\ c[2] = <<"created", n + 1>>
        BY <2>3
      <3>4. QED
        BY <1>2, <3>1, <3>2, <3>3
    <2>4. QED
      BY <2>1, <2>2, <2>3
  <1>5. ASSUME NEW j \in DOMAIN probes', Creates(probes[j])', Last(cfg.doc[probes'[j].op].path) \notin PathParams
        PROVE  probes'[j].url = PlainUrl(cfg.doc[probes'[j].op].path)
    <2>1. CASE j \in 1..n
      BY <1>1, <1>3, <1>5, <2>1 DEF IInv, CreatedHere
    <2>2. CASE j = n + 1
      <3>1. probes'[j] = p /\ cfg.doc[p.op] = OpOf(x)
        BY <1>1, <1>2, <2>2
      <3>2. OpOf(x).method = "POST" /\ Last(path) \notin PathParams
        BY <1>5, <3>1 DEF Creates, MethodOf
      <3>3. Url(OpOf(x), values) = PlainUrl(path)
        BY <3>2 DEF IInv, PlannedWell
      <3>4. QED
        BY <3>1, <3>3
    <2>3. QED
      BY <1>1, <2>1, <2>2
  <1>6. QED
    BY <1>4, <1>5 DEF CreatedHere

-----------------------------------------------------------------------------
(* What is counted. *)

LEMMA LostFinite ==
  ASSUME NEW j \in Nat, NEW i \in Nat
  PROVE  IsFiniteSet(Lost(j, i)) /\ Cardinality(Lost(j, i)) \in Nat
  <1>1. IsFiniteSet(j..i)
    BY FS_Interval
  <1>2. Lost(j, i) \subseteq j..i
    BY DEF Lost
  <1>3. IsFiniteSet(Lost(j, i))
    BY <1>1, <1>2, FS_Subset
  <1>4. QED
    BY <1>3, FS_CardinalityType

LEMMA FailuresGrow ==
  ASSUME IInv, NEW x, NEW p, Sent(x, p), NEW reply \in Replies, p.reply = reply, UNCHANGED cfg,
         wire.stopped = Running, ~(wire.sent >= cfg.maxRequests),
         wire'.sent = wire.sent + 1, wire'.failures = Counted(wire, reply).failures,
         wire'.stopped = Stops(Counted(wire, reply), reply)
  PROVE  FailuresCounted' /\ StopsWhenTold'
  <1>0. PICK n \in Nat : n = Len(probes)
    BY DEF Sent
  <1> DEFINE failures == wire'.failures
  <1>1. /\ DOMAIN probes = 1..n /\ DOMAIN probes' = 1..(n + 1) /\ probes'[n + 1] = p
        /\ Len(probes') = n + 1 /\ \A j \in 1..n : probes'[j] = probes[j]
    BY <1>0 DEF Sent, Grows
  <1>2. /\ wire \in [sent : Nat, failures : Nat, stopped : StopReasons \cup {Running}]
        /\ wire.sent \in Nat /\ wire.failures \in Nat
    BY DEF IInv, TypeOK
  <1>3. /\ failures = IF reply.error = "" THEN 0 ELSE IF reply.error = "CONNECTION" THEN wire.failures + 1 ELSE wire.failures
        /\ failures \in Nat
    BY <1>2, CountedIs
  <1>4. wire'.sent <= cfg'.maxRequests
    <2>1. cfg.maxRequests \in Nat
      BY ConfigurationIs DEF IInv
    <2>2. QED
      BY <1>2, <2>1
  <1>5. wire'.stopped = Running => reply.status # 429 /\ (reply.error # "" => ~(failures >= FailuresToAbort))
    BY DEF Stops, Running
  <1> HIDE DEF failures
  <1>6. ASSUME NEW j \in Nat, NEW i \in 0..n, j # 0 PROVE Lost(j, i)' = Lost(j, i)
                  /\ (NoAnswer(j, i)' <=> NoAnswer(j, i))
    <2>1. \A k \in j..i : probes'[k] = probes[k]
      BY <1>1, <1>6
    <2>2. QED
      BY <2>1 DEF Lost, NoAnswer, Answered
  <1>7. ASSUME NEW j \in 1..(n + 1), NoAnswer(j, n + 1)'
        PROVE  Cardinality(Lost(j, n + 1)') \in Nat /\ Cardinality(Lost(j, n + 1)') <= failures /\ reply.error # ""
    <2>1. n + 1 \in j..(n + 1) /\ j \in Nat /\ j # 0 /\ n \in 0..n /\ n + 1 \in Nat
      BY <1>1
    <2>2. reply.error # ""
      BY <1>1, <1>7, <2>1 DEF NoAnswer, Answered
    <2>3. /\ IsFiniteSet(Lost(j, n)) /\ Cardinality(Lost(j, n)) \in Nat /\ Lost(j, n)' = Lost(j, n)
          /\ n + 1 \notin Lost(j, n)
      <3>1. n + 1 \notin j..n
        BY <1>1
      <3>2. QED
        BY <1>1, <1>6, <2>1, <3>1, LostFinite DEF Lost
    <2>4. Cardinality(Lost(j, n)) <= wire.failures
      <3>1. CASE j = n + 1
        <4>1. j..n = {}
          BY <1>1, <3>1
        <4>2. Lost(j, n) = {}
          BY <4>1 DEF Lost
        <4>3. QED
          BY <1>2, <4>2, FS_EmptySet
      <3>2. CASE j # n + 1
        <4>1. j \in 1..n
          BY <1>1, <3>2
        <4>2. NoAnswer(j, n)'
          <5>1. j..n \subseteq j..(n + 1)
            BY <1>1
          <5>2. QED
            BY <1>7, <5>1 DEF NoAnswer
        <4>3. NoAnswer(j, n)
          BY <1>6, <2>1, <4>2
        <4>4. QED
          BY <1>0, <1>1, <4>1, <4>3 DEF IInv, FailuresCounted
      <3>3. QED
        BY <3>1, <3>2
    <2>5. Lost(j, n + 1)' = IF reply.error = "CONNECTION" THEN Lost(j, n) \cup {n + 1} ELSE Lost(j, n)
      <3>1. j..(n + 1) = (j..n) \cup {n + 1}
        BY <1>1
      <3>2. Lost(j, n + 1)' = Lost(j, n)' \cup {k \in {n + 1} : probes'[k].reply.error = "CONNECTION"}
        BY <3>1 DEF Lost
      <3>3. {k \in {n + 1} : probes'[k].reply.error = "CONNECTION"} = IF reply.error = "CONNECTION" THEN {n + 1} ELSE {}
        BY <1>1
      <3>4. QED
        BY <2>3, <3>2, <3>3
    <2>6. CASE reply.error = "CONNECTION"
      <3>1. Cardinality(Lost(j, n) \cup {n + 1}) = Cardinality(Lost(j, n)) + 1
        BY <2>3, FS_AddElement
      <3>2. QED
        BY <1>2, <1>3, <2>2, <2>3, <2>4, <2>5, <2>6, <3>1
    <2>7. CASE reply.error # "CONNECTION"
      BY <1>2, <1>3, <2>2, <2>3, <2>4, <2>5, <2>7
    <2>8. QED
      BY <2>6, <2>7
  <1>8. \A i \in 1..n : /\ probes[i].reply.status # 429
                        /\ \A j \in 1..i : NoAnswer(j, i) => Cardinality(Lost(j, i)) < FailuresToAbort
    BY <1>1 DEF IInv, FailuresCounted
  <1>9. \A i \in 1..n : /\ probes'[i].reply.status # 429
                        /\ \A j \in 1..i : NoAnswer(j, i)' => Cardinality(Lost(j, i)') < FailuresToAbort
    <2>1. SUFFICES ASSUME NEW i \in 1..n, NEW j \in 1..i
                   PROVE  /\ probes'[i].reply.status # 429
                          /\ NoAnswer(j, i)' => Cardinality(Lost(j, i)') < FailuresToAbort
      <3>1. \A i \in 1..n : 1 \in 1..i
        BY <1>1
      <3>2. QED
        BY <2>1, <3>1
    <2>2. j \in Nat /\ j # 0 /\ i \in 0..n
      BY <1>1
    <2>3. QED
      BY <1>1, <1>6, <1>8, <2>2
  <1>10. FailuresCounted'
    <2>1. ASSUME NEW j \in DOMAIN probes', NoAnswer(j, Len(probes))' PROVE Cardinality(Lost(j, Len(probes))') <= wire'.failures
      BY <1>1, <1>7, <2>1 DEF failures
    <2>2. ASSUME wire'.stopped = Running, NEW i \in DOMAIN probes'
          PROVE  /\ probes'[i].reply.status # 429
                 /\ \A j \in 1..i : NoAnswer(j, i)' => Cardinality(Lost(j, i)') < FailuresToAbort
      <3>1. CASE i \in 1..n
        BY <1>9, <3>1
      <3>2. CASE i = n + 1
        <4>1. probes'[i].reply.status # 429
          BY <1>1, <1>5, <2>2, <3>2
        <4>2. ASSUME NEW j \in 1..(n + 1), NoAnswer(j, n + 1)'
              PROVE  Cardinality(Lost(j, n + 1)') < FailuresToAbort
          <5>1. Cardinality(Lost(j, n + 1)') \in Nat /\ Cardinality(Lost(j, n + 1)') <= failures /\ reply.error # ""
            BY <1>7, <4>2
          <5>2. ~(failures >= FailuresToAbort)
            BY <1>5, <2>2, <5>1
          <5>3. failures \in Nat /\ FailuresToAbort \in Nat
            BY <1>3, BoundAssumption
          <5>4. PICK lost \in Nat : lost = Cardinality(Lost(j, n + 1)')
            BY <5>1
          <5>5. lost <= failures
            BY <5>1, <5>4
          <5>6. lost < FailuresToAbort
            BY <5>2, <5>3, <5>5
          <5>7. QED
            BY <5>4, <5>6
        <4>3. QED
          BY <3>2, <4>1, <4>2
      <3>3. QED
        BY <1>1, <3>1, <3>2
    <2>3. QED
      BY <1>4, <2>1, <2>2 DEF FailuresCounted
  <1>11. StopsWhenTold'
    <2>1. 1..(Len(probes') - 1) = 1..n
      BY <1>1
    <2>2. ASSUME NEW i \in 1..n, NEW j \in 1..i,
                 Cardinality({k \in j..i : probes'[k].reply.error = "CONNECTION"}) >= FailuresToAbort
          PROVE  \E k \in j..i : Answered(probes[k])'
      <3>1. Lost(j, i)' = {k \in j..i : probes'[k].reply.error = "CONNECTION"}
        BY DEF Lost
      <3>2. j \in Nat /\ i \in Nat /\ j # 0 /\ i \in 0..n
        BY <1>1
      <3>3. Cardinality(Lost(j, i)') \in Nat
        BY <1>6, <3>2, LostFinite
      <3>4. ~NoAnswer(j, i)'
        <4>1. NoAnswer(j, i)' => Cardinality(Lost(j, i)') < FailuresToAbort
          BY <1>9
        <4>2. QED
          BY <2>2, <3>1, <3>3, <4>1, BoundAssumption
      <3>5. QED
        BY <3>4 DEF NoAnswer, Answered
    <2>3. QED
      BY <1>4, <1>9, <2>1, <2>2 DEF StopsWhenTold, Answered
  <1>12. QED
    BY <1>10, <1>11

-----------------------------------------------------------------------------
(* What an answer makes of the entry of its operation. *)

LEMMA EntryUnanswered ==
  ASSUME NEW e \in Entry, NEW p, NEW all, ~Answered(p)
  PROVE  /\ EntryAfter(e, p, all) \in Entry /\ EntryAfter(e, p, all).validated = e.validated
         /\ EntryAfter(e, p, all).execution = e.execution /\ EntryAfter(e, p, all).evidence = e.evidence
         /\ EntryAfter(e, p, all).skip = IF e.execution = "EXECUTED" THEN e.skip
                                         ELSE IF p.reply.error = "TIMEOUT" THEN "NOT_ATTEMPTED" ELSE "UNREACHABLE"
  <1> DEFINE reason == IF p.reply.error = "TIMEOUT" THEN "NOT_ATTEMPTED" ELSE "UNREACHABLE"
             after == EntryAfter(e, p, all)
  <1>1. reason \in Reasons
    BY DEF Reasons, StopReasons
  <1>2. after = NotSent(e, reason)
    BY DEF EntryAfter
  <1> HIDE DEF reason, after
  <1>3. /\ after \in Entry /\ after.validated = e.validated /\ after.execution = e.execution
        /\ after.evidence = e.evidence /\ after.skip = IF e.execution = "EXECUTED" THEN e.skip ELSE reason
    BY <1>1, <1>2, NotSentIs
  <1>4. QED
    BY <1>3 DEF reason, after

Contradicted(p, all) == \E i \in DOMAIN all : all[i].op = p.op /\ Violates(all[i])

LEMMA EntryAnswered ==
  ASSUME NEW e \in Entry, NEW p, p.kind \in ProbeKinds, NEW all, Answered(p)
  PROVE  /\ EntryAfter(e, p, all) \in Entry
         /\ (EntryAfter(e, p, all).validated # {}) <=> (EvidenceFor(p) = "VALIDATED" \/ e.validated # {})
         /\ EntryAfter(e, p, all).execution = "EXECUTED" /\ EntryAfter(e, p, all).skip = ""
         /\ EntryAfter(e, p, all).evidence =
              IF (EvidenceFor(p) = "VALIDATED" \/ e.validated # {}) /\ ~Contradicted(p, all)
              THEN "VALIDATED" ELSE "OBSERVED"
  <1> DEFINE after == EntryAfter(e, p, all)
             validated == IF EvidenceFor(p) = "VALIDATED" THEN e.validated \cup {p.kind} ELSE e.validated
             observed == IF EvidenceFor(p) = "VALIDATED" THEN e.observed ELSE e.observed \cup {p.kind}
             evidence == IF validated # {} /\ ~Contradicted(p, all) THEN "VALIDATED" ELSE "OBSERVED"
  <1>1. after = [evidence |-> evidence, execution |-> "EXECUTED", skip |-> "", validated |-> validated,
                 observed |-> observed]
    BY DEF EntryAfter, Contradicted
  <1>2. e.validated \subseteq ProbeKinds /\ e.observed \subseteq ProbeKinds
    BY DEF Entry
  <1>3. validated \subseteq ProbeKinds /\ observed \subseteq ProbeKinds
    BY <1>2
  <1>4. validated # {} <=> (EvidenceFor(p) = "VALIDATED" \/ e.validated # {})
    OBVIOUS
  <1>5. evidence \in {"OBSERVED", "VALIDATED"}
    OBVIOUS
  <1>6. evidence = IF (EvidenceFor(p) = "VALIDATED" \/ e.validated # {}) /\ ~Contradicted(p, all)
                   THEN "VALIDATED" ELSE "OBSERVED"
    BY <1>4
  <1> HIDE DEF evidence, validated, observed, after
  <1>7. after \in Entry
    BY <1>1, <1>3, <1>5 DEF Entry, Reasons
  <1>8. /\ after.validated = validated /\ after.execution = "EXECUTED" /\ after.skip = ""
        /\ after.evidence = evidence
    BY <1>1
  <1>9. QED
    BY <1>4, <1>6, <1>7, <1>8 DEF after

LEMMA EntryEvidence ==
  ASSUME NEW e \in Entry, NEW p, p.kind \in ProbeKinds, NEW all, Answered(p), NEW good \in BOOLEAN,
         good <=> (EvidenceFor(p) = "VALIDATED" \/ e.validated # {}) /\ ~Contradicted(p, all)
  PROVE  EntryAfter(e, p, all).evidence = IF good THEN "VALIDATED" ELSE "OBSERVED"
  BY EntryAnswered

\* What is known of one entry.
Good(i) == \E k \in MineOf(i) : EvidenceFor(probes[k]) = "VALIDATED"
Clean(i) == \A k \in MineOf(i) : ~Violates(probes[k])
EntryKnows(i) ==
  /\ (endpoints[i].validated # {}) <=> Good(i)
  /\ endpoints[i].execution = IF MineOf(i) = {} THEN "SKIPPED" ELSE "EXECUTED"
  /\ endpoints[i].evidence = IF MineOf(i) = {} THEN "DOCUMENTED"
                             ELSE IF Good(i) /\ Clean(i) THEN "VALIDATED" ELSE "OBSERVED"

LEMMA EntriesGrow ==
  ASSUME IInv, NEW x \in agenda, x.op \in DOMAIN endpoints, NEW p, p.kind \in ProbeKinds, p.reply \in Replies,
         Sent(x, p), probes' = Append(probes, p), UNCHANGED cfg, DOMAIN endpoints' = DOMAIN endpoints,
         \A k \in DOMAIN endpoints :
            endpoints'[k] = IF k = x.op THEN EntryAfter(endpoints[x.op], p, probes') ELSE endpoints[k]
  PROVE  EntriesKnow'
  <1>0. PICK n \in Nat : n = Len(probes)
    BY DEF Sent
  <1>1. /\ DOMAIN probes = 1..n /\ DOMAIN probes' = 1..(n + 1) /\ probes'[n + 1] = p /\ p.op = x.op
        /\ \A j \in 1..n : probes'[j] = probes[j]
    BY <1>0 DEF Sent, Grows
  <1>2. \A i : MineOf(i)' = IF i = x.op /\ Answered(p) THEN MineOf(i) \cup {n + 1} ELSE MineOf(i)
    <2>1. TAKE i
    <2>2. 1..(n + 1) = (1..n) \cup {n + 1} /\ n + 1 \notin 1..n
      OBVIOUS
    <2>3. MineOf(i)' = MineOf(i) \cup {k \in {n + 1} : probes'[k].op = i /\ probes'[k].reply.error = ""}
      <3>1. MineOf(i)' = {k \in 1..(n + 1) : probes'[k].op = i /\ probes'[k].reply.error = ""}
        BY <1>1 DEF MineOf, Answered
      <3>2. MineOf(i) = {k \in 1..n : probes'[k].op = i /\ probes'[k].reply.error = ""}
        <4>1. MineOf(i) = {k \in 1..n : probes[k].op = i /\ probes[k].reply.error = ""}
          BY <1>1 DEF MineOf, Answered
        <4>2. \A k \in 1..n : probes'[k] = probes[k]
          BY <1>1
        <4>3. QED
          BY <4>1, <4>2
      <3>3. QED
        BY <2>2, <3>1, <3>2
    <2>4. {k \in {n + 1} : probes'[k].op = i /\ probes'[k].reply.error = ""}
             = IF i = x.op /\ p.reply.error = "" THEN {n + 1} ELSE {}
      <3>1. (probes'[n + 1].op = i /\ probes'[n + 1].reply.error = "") <=> (i = x.op /\ p.reply.error = "")
        BY <1>1
      <3>2. CASE i = x.op /\ p.reply.error = ""
        BY <3>1, <3>2
      <3>3. CASE ~(i = x.op /\ p.reply.error = "")
        BY <3>1, <3>3
      <3>4. QED
        BY <3>2, <3>3
    <2>5. QED
      BY <2>3, <2>4 DEF Answered
  <1>3. \A i : \A k \in MineOf(i) : k \in 1..n /\ n + 1 \notin MineOf(i)
    BY <1>1 DEF MineOf
  <1>4. \A k \in 1..n : /\ EvidenceFor(probes[k])' = EvidenceFor(probes[k])
                        /\ Violates(probes[k])' <=> Violates(probes[k])
    BY <1>1 DEF EvidenceFor, Violates, Answered
  <1>5. \A k : k = n + 1 => /\ EvidenceFor(probes[k])' = EvidenceFor(p)
                            /\ Violates(probes[k])' <=> Violates(p)
    BY <1>1 DEF EvidenceFor, Violates, Answered
  <1>6. SUFFICES ASSUME NEW i \in DOMAIN endpoints PROVE EntryKnows(i)'
    BY DEF EntriesKnow, EntryKnows, Good, Clean
  <1>7. EntryKnows(i)
    BY DEF IInv, EntriesKnow, EntryKnows, Good, Clean
  <1>8. CASE i # x.op \/ ~Answered(p)
    <2>1. MineOf(i)' = MineOf(i)
      BY <1>2, <1>8
    <2>2. /\ endpoints'[i].validated = endpoints[i].validated /\ endpoints'[i].execution = endpoints[i].execution
          /\ endpoints'[i].evidence = endpoints[i].evidence
      <3>1. CASE i # x.op
        BY <3>1
      <3>2. CASE i = x.op /\ ~Answered(p)
        <4>1. endpoints[i] \in Entry
          BY DEF IInv, TypeOK
        <4>2. QED
          BY <3>2, <4>1, EntryUnanswered
      <3>3. QED
        BY <1>8, <3>1, <3>2
    <2>3. \A k \in MineOf(i) : /\ EvidenceFor(probes[k])' = EvidenceFor(probes[k])
                               /\ Violates(probes[k])' <=> Violates(probes[k])
      BY <1>3, <1>4
    <2>4. (Good(i)' <=> Good(i)) /\ (Clean(i)' <=> Clean(i))
      BY <2>1, <2>3 DEF Good, Clean
    <2>5. QED
      BY <1>7, <2>1, <2>2, <2>4 DEF EntryKnows
  <1>9. CASE i = x.op /\ Answered(p)
    <2>1. MineOf(i)' = MineOf(i) \cup {n + 1} /\ MineOf(i)' # {}
      BY <1>2, <1>9
    <2>2. Good(i)' <=> EvidenceFor(p) = "VALIDATED" \/ Good(i)
      BY <1>3, <1>4, <1>5, <2>1 DEF Good
    <2>3. Clean(i)' <=> ~Contradicted(p, probes')
      <3>1. \A k \in DOMAIN probes' : Violates(probes[k])' <=> Violates(probes'[k])
        BY DEF Violates, Answered
      <3>2. MineOf(i)' = {k \in DOMAIN probes' : probes'[k].op = i /\ probes'[k].reply.error = ""}
        BY DEF MineOf, Answered
      <3>3. \A k \in DOMAIN probes' : Violates(probes'[k]) => probes'[k].reply.error = ""
        BY DEF Violates, Answered
      <3>4. p.op = i
        BY <1>1, <1>9
      <3>5. QED
        BY <3>1, <3>2, <3>3, <3>4 DEF Clean, Contradicted
    <2>4. endpoints[i].validated # {} <=> Good(i)
      BY <1>7 DEF EntryKnows
    <2>5. endpoints[i] \in Entry
      BY DEF IInv, TypeOK
    <2>6. endpoints'[i] = EntryAfter(endpoints[i], p, probes')
      BY <1>9
    <2>7. /\ (endpoints'[i].validated # {}) <=> (EvidenceFor(p) = "VALIDATED" \/ endpoints[i].validated # {})
          /\ endpoints'[i].execution = "EXECUTED"
          /\ endpoints'[i].evidence = IF (EvidenceFor(p) = "VALIDATED" \/ endpoints[i].validated # {})
                                           /\ ~Contradicted(p, probes')
                                      THEN "VALIDATED" ELSE "OBSERVED"
      <3>1. PICK all : all = probes'
        OBVIOUS
      <3>2. PICK e \in Entry : e = endpoints[i]
        BY <2>5
      <3>3. endpoints'[i] = EntryAfter(e, p, all)
        BY <2>6, <3>1, <3>2
      <3>4. Answered(p)
        BY <1>9
      <3>5. EntryAfter(e, p, all).execution = "EXECUTED"
        BY <3>4 DEF EntryAfter
      <3>6. (EntryAfter(e, p, all).validated # {}) <=> (EvidenceFor(p) = "VALIDATED" \/ e.validated # {})
        BY <3>4, EntryAnswered
      <3>7. PICK good \in BOOLEAN : good <=> (EvidenceFor(p) = "VALIDATED" \/ e.validated # {})
                    /\ ~Contradicted(p, all)
        OBVIOUS
      <3>8. EntryAfter(e, p, all).evidence = IF good THEN "VALIDATED" ELSE "OBSERVED"
        BY <3>4, <3>7, EntryEvidence
      <3>9. QED
        BY <3>1, <3>2, <3>3, <3>5, <3>6, <3>7, <3>8
    <2>8. QED
      BY <2>1, <2>2, <2>3, <2>4, <2>7 DEF EntryKnows
  <1>10. QED
    BY <1>8, <1>9

LEMMA ProbeStep ==
  ASSUME IInv, NEW x \in agenda, Probe(x)
  PROVE  IInv'
  <1>1. /\ pc = "PROBE" /\ IsNext(x) /\ pending # <<>> /\ HeldBack(OpOf(x)) = ""
        /\ UNCHANGED <<cfg, pc, docs, auth, status>>
    BY DEF Probe, Turn
  <1>2. PICK reply \in Replies :
           LET p     == ProbeOf(x, Head(pending), reply)
               rest  == IF p.kind = "INVALID_BODY" /\ reply.status \in 200..299 THEN <<>> ELSE Tail(pending)
               w     == Counted(wire, reply)
               entry == EntryAfter(endpoints[x.op], p, Append(probes, p))
           IN  /\ probes' = Append(probes, p)
               /\ wire' = [w EXCEPT !.stopped = Stops(w, reply)]
               /\ endpoints' = [endpoints EXCEPT ![x.op] = entry]
               /\ Advance(x, rest)
               /\ created' = Forget(x, Made(OpOf(x), p), rest, entry)
    BY DEF Probe
  <1> DEFINE p == ProbeOf(x, Head(pending), reply)
             rest == IF p.kind = "INVALID_BODY" /\ reply.status \in 200..299 THEN <<>> ELSE Tail(pending)
             w == Counted(wire, reply)
             e == endpoints[x.op]
             entry == EntryAfter(e, p, probes')
  <1>3. /\ probes' = Append(probes, p) /\ wire' = [w EXCEPT !.stopped = Stops(w, reply)]
        /\ endpoints' = [endpoints EXCEPT ![x.op] = entry] /\ Advance(x, rest)
        /\ created' \subseteq Made(OpOf(x), p)
    BY <1>2 DEF Forget
  <1>4. TypeOK /\ DOMAIN endpoints = DOMAIN cfg.doc /\ x.op \in DOMAIN endpoints /\ e \in Entry
    <2>1. TypeOK /\ DOMAIN endpoints = DOMAIN cfg.doc
      BY <1>1 DEF IInv, StageKnows, Live
    <2>2. QED
      BY <2>1, TurnIs DEF TypeOK
  <1>5. rest \in Seq(ProbeKinds) /\ Head(pending) \in ProbeKinds
    BY <1>1, <1>4, TailTyped, EmptyKinds DEF TypeOK
  <1>6. /\ DOMAIN p = {"op", "kind", "url", "reply"} /\ p.op = x.op /\ p.kind = Head(pending)
        /\ p.url = Url(OpOf(x), values) /\ p.reply = reply
    BY DEF ProbeOf
  <1>7. wire.stopped = Running /\ ~(wire.sent >= cfg.maxRequests) /\ Fillable(OpOf(x))
    BY <1>1, <1>4, HeldBackIs
  <1> HIDE DEF p, rest, e
  <1>8. Sent(x, p) /\ probes' \in Seq(Range(probes'))
    BY <1>3, <1>4, <1>6, ProbeSent
  <1>9. /\ w \in [sent : Nat, failures : Nat, stopped : StopReasons \cup {Running}]
        /\ w.sent = wire.sent + 1 /\ w.stopped = Running
    <2>1. wire \in [sent : Nat, failures : Nat, stopped : StopReasons \cup {Running}]
      BY <1>4 DEF TypeOK
    <2>2. QED
      BY <1>7, <2>1, CountedIs
  <1>10. /\ wire' \in [sent : Nat, failures : Nat, stopped : StopReasons \cup {Running}]
         /\ wire'.sent = wire.sent + 1 /\ wire'.failures = w.failures /\ wire'.stopped = Stops(w, reply)
    <2>1. Stops(w, reply) \in StopReasons \cup {Running}
      BY <1>9 DEF Stops, StopReasons
    <2> HIDE DEF w
    <2>2. QED
      BY <1>3, <1>9, <2>1
  <1>11. entry \in Entry
    BY <1>4, <1>5, <1>6, EntryUnanswered, EntryAnswered
  <1>12. /\ DOMAIN endpoints' = DOMAIN endpoints /\ endpoints' \in [DOMAIN endpoints -> Entry]
         /\ \A k \in DOMAIN endpoints : endpoints'[k] = IF k = x.op THEN entry ELSE endpoints[k]
    <2> HIDE DEF entry
    <2>1. QED
      BY <1>3, <1>4, <1>11, EntryWritten
  <1>13. /\ agenda' \subseteq Agenda(cfg'.doc) /\ (agenda' # {} => pc' = "PROBE")
         /\ pending' \in Seq(ProbeKinds) /\ (pending' # <<>> => agenda' # {})
         /\ \A y \in agenda : y # x => y \in agenda'
    BY <1>1, <1>3, <1>4, <1>5, AdvanceIs
  <1>14. TypeOK'
    <2>1. \A i \in DOMAIN probes' :
             /\ DOMAIN probes'[i] = {"op", "kind", "url", "reply"}
             /\ probes'[i].op \in DOMAIN endpoints' /\ probes'[i].kind \in ProbeKinds
                   /\ probes'[i].reply \in Replies
      <3>1. TAKE i \in DOMAIN probes'
      <3>2. CASE i \in DOMAIN probes
        <4>1. probes'[i] = probes[i]
          BY <1>8, <3>2 DEF Sent, Grows
        <4>2. QED
          BY <1>4, <1>12, <3>2, <4>1 DEF TypeOK
      <3>3. CASE i \notin DOMAIN probes
        <4>1. probes'[i] = p
          BY <1>8, <3>3 DEF Sent
        <4>2. QED
          BY <1>4, <1>5, <1>6, <1>12, <4>1
      <3>4. QED
        BY <3>2, <3>3
    <2>2. DOMAIN endpoints' \in {{}, DOMAIN cfg'.doc} /\ cfg' \in Configurations
      BY <1>1, <1>4, <1>12 DEF TypeOK
    <2>3. /\ pc' \in {"READ_DOCS", "BASE_URL", "SIGN_IN", "PROBE", "CONTINUES", "FAILED"}
          /\ docs' \in {"NONE", "NOT_REQUESTED", "AVAILABLE", "UNAVAILABLE"}
          /\ status' \in {"NONE", "NOT_REQUESTED", "UNAVAILABLE", "PARTIAL", "COMPLETED"}
      BY <1>1, <1>4 DEF TypeOK
    <2> HIDE DEF w, entry
    <2>4. QED
      BY <1>8, <1>10, <1>12, <1>13, <2>1, <2>2, <2>3 DEF TypeOK
  <1>15. StageKnows'
    <2>1. cfg.base = "allowed" /\ cfg.enabled /\ status = "NONE" /\ docs = "AVAILABLE"
             /\ DOMAIN endpoints' = DOMAIN cfg.doc
      BY <1>1, <1>12 DEF IInv, StageKnows, Live
    <2>2. QED
      BY <1>1, <2>1 DEF StageKnows, Live
  <1>16. PolicyKept'
    BY <1>1, <1>6, <1>7, <1>8, PolicyGrows
  <1>17. CreatedHere'
    BY <1>1, <1>3, <1>6, <1>7, <1>8, CreatedGrows
  <1>18. FailuresCounted' /\ StopsWhenTold'
    BY <1>1, <1>6, <1>7, <1>8, <1>10, FailuresGrow
  <1>19. EntriesKnow'
    BY <1>1, <1>3, <1>4, <1>5, <1>6, <1>8, <1>12, EntriesGrow DEF e
  <1>20. Untried' /\ PlannedWell'
    BY <1>1, <1>3, <1>5, <1>8, TurnKept DEF Sent
  <1>21. SkipsKnow'
    <2>1. /\ ~Answered(p) => /\ entry.execution = e.execution
                             /\ entry.skip = IF e.execution = "EXECUTED" THEN e.skip
                                             ELSE IF p.reply.error = "TIMEOUT" THEN "NOT_ATTEMPTED" ELSE "UNREACHABLE"
          /\ Answered(p) => entry.execution = "EXECUTED" /\ entry.skip = ""
      <3>1. CASE Answered(p)
        BY <1>4, <1>5, <1>6, <3>1, EntryAnswered
      <3>2. CASE ~Answered(p)
        BY <1>4, <3>2, EntryUnanswered
      <3>3. QED
        BY <3>1, <3>2
    <2>2. /\ e.skip = "NOT_ATTEMPTED" => e.execution = "SKIPPED"
          /\ e.skip = "RATE_LIMITED" => wire.stopped # Running
          /\ e.skip = "REQUEST_BUDGET" => wire.sent >= cfg.maxRequests
          /\ e.execution \in {"SKIPPED", "EXECUTED"}
      BY <1>4 DEF IInv, SkipsKnow, Entry, e
    <2>3. p.reply.error = "TIMEOUT" => TimedOut(x.op)'
      <3>1. PICK n \in Nat : n = Len(probes)
        BY <1>8 DEF Sent
      <3>2. n + 1 \in DOMAIN probes' /\ probes'[n + 1] = p
        BY <1>8, <3>1 DEF Sent
      <3>3. QED
        BY <1>6, <3>2 DEF TimedOut
    <2> HIDE DEF entry, w
    <2>4. /\ entry.execution = "SKIPPED" => entry.skip # ""
          /\ entry.skip = "NOT_ATTEMPTED" => entry.execution = "SKIPPED" /\ TimedOut(x.op)'
          /\ entry.skip # "RATE_LIMITED" /\ entry.skip # "REQUEST_BUDGET"
      BY <1>7, <2>1, <2>2, <2>3
    <2>5. wire.sent >= cfg.maxRequests => wire'.sent >= cfg.maxRequests
      BY <1>7
    <2>6. wire.stopped # Running => wire'.stopped # Running
      BY <1>7
    <2>7. \A k \in DOMAIN probes : k \in DOMAIN probes' /\ probes'[k] = probes[k]
      BY <1>8 DEF Sent, Grows
    <2>8. UNCHANGED <<cfg, pc, status>> /\ pc = "PROBE"
      BY <1>1
    <2>9. QED
      BY <1>4, <1>11, <1>12, <1>13, <2>4, <2>5, <2>6, <2>7, <2>8, ReasonsKept
  <1>22. Accounted'
    BY <1>1 DEF Accounted
  <1>23. QED
    BY <1>14, <1>15, <1>16, <1>17, <1>18, <1>19, <1>20, <1>21, <1>22 DEF IInv

-----------------------------------------------------------------------------
(* The theorems. *)

LEMMA NextIInv == IInv /\ [Next]_vars => IInv'
  <1> SUFFICES ASSUME IInv, [Next]_vars PROVE IInv'
    OBVIOUS
  <1>1. CASE UNCHANGED vars
    BY <1>1, StutterIInv
  <1>2. CASE Next
    <2>1. ReadDocs => IInv'
      BY ReadDocsStep
    <2>2. CheckHost => IInv'
      BY CheckHostStep
    <2>3. SignIn => IInv'
      BY SignInStep
    <2>4. ASSUME NEW x \in agenda PROVE Consider(x) \/ Skip(x) \/ Probe(x) => IInv'
      <3>1. Consider(x) => IInv'
        BY ConsiderStep
      <3>2. Skip(x) => IInv'
        BY SkipStep
      <3>3. Probe(x) => IInv'
        BY ProbeStep
      <3>4. QED
        BY <3>1, <3>2, <3>3
    <2>5. Finish => IInv'
      BY FinishStep
    <2>6. Ended => IInv'
      BY StutterIInv DEF Ended
    <2>7. QED
      BY <1>2, <2>1, <2>2, <2>3, <2>4, <2>5, <2>6 DEF Next
  <1>3. QED
    BY <1>1, <1>2

\* The inductive invariant of the stage: its types, how far it has come, what it has
\* created and planned, and what the failures, the entries and the reasons for not
\* calling say of the probes (api-validation.ts, runApiValidation).
THEOREM ApiInvariant == Spec => []IInv
  <1>1. Init => IInv
    BY InitIInv
  <1>2. IInv /\ [Next]_vars => IInv'
    BY NextIInv
  <1>3. QED
    BY <1>1, <1>2, PTL DEF Spec

\* Whatever the document, the approvals and the answers: only an allowed host of an
\* enabled run is called; what is not a safe read was approved and is never sent in
\* production; a PUT, PATCH, DELETE or TRACE of an addressed resource goes to the URL of
\* one an earlier POST of this run created (api-validation.ts, mayRun and pathValuesFor).
THEOREM PolicyIsKept == Spec => []PolicyKept
  <1>1. IInv => PolicyKept
    BY DEF IInv
  <1>2. QED
    BY <1>1, ApiInvariant, PTL

\* The request budget bounds every request, and a 429 or FailuresToAbort connection
\* failures without an answer between them are the last thing sent (runProbe).
THEOREM StopsWhenItIsTold == Spec => []StopsWhenTold
  <1>1. IInv => StopsWhenTold
    BY DEF IInv
  <1>2. QED
    BY <1>1, ApiInvariant, PTL

\* An answer that contradicts nothing the document says is evidence just when it is a
\* documented answer of the kind the probe set out to get.
LEMMA WhatEvidenceIs ==
  ASSUME NEW p
  PROVE  /\ EvidenceFor(p) = "VALIDATED" =>
              Documented(cfg.doc[p.op], p.reply.status) /\ Expected(p.kind, p.reply.status)
         /\ Documented(cfg.doc[p.op], p.reply.status) /\ Expected(p.kind, p.reply.status) /\ Answered(p)
               /\ ~Violates(p) =>
              EvidenceFor(p) = "VALIDATED"
  <1> DEFINE o == cfg.doc[p.op]
             checks == Checks(o, p.kind, p.reply)
  <1>1. /\ checks.STATUS = Outcome(Documented(o, p.reply.status))
        /\ checks.EXPECTATION = Outcome(Expected(p.kind, p.reply.status))
        /\ DOMAIN checks = {"STATUS", "EXPECTATION", "CONTENT_TYPE", "SCHEMA", "HEADERS"}
    BY DEF Checks
  <1>2. EvidenceFor(p) = EvidenceOf(checks)
    BY DEF EvidenceFor
  <1>3. ~Violates(p) /\ Answered(p) =>
           checks.CONTENT_TYPE # "FAIL" /\ checks.SCHEMA # "FAIL" /\ checks.HEADERS # "FAIL"
    BY DEF Violates, Contradicts
  <1> HIDE DEF checks, o
  <1>4. EvidenceFor(p) = "VALIDATED" => Documented(o, p.reply.status) /\ Expected(p.kind, p.reply.status)
    BY <1>1, <1>2 DEF EvidenceOf, Outcome
  <1>5. Documented(o, p.reply.status) /\ Expected(p.kind, p.reply.status) /\ Answered(p) /\ ~Violates(p) =>
           EvidenceFor(p) = "VALIDATED"
    BY <1>1, <1>2, <1>3 DEF EvidenceOf, Outcome
  <1>6. QED
    BY <1>4, <1>5 DEF o

\* The class of evidence of an operation is what its answers earned, in whatever order
\* they came: VALIDATED takes a documented answer of the expected kind and none that
\* contradicts the document (evaluateResponse, evidenceOf and what runProbe records).
THEOREM EvidenceIsEarned == Spec => []EvidenceEarned
  <1>1. IInv => EvidenceEarned
    <2>1. SUFFICES ASSUME IInv, NEW i \in DOMAIN endpoints
                   PROVE  /\ (endpoints[i].evidence = "VALIDATED") <=>
                                /\ \E k \in MineOf(i) : /\ Documented(cfg.doc[i], probes[k].reply.status)
                                                        /\ Expected(probes[k].kind, probes[k].reply.status)
                                /\ \A k \in MineOf(i) : ~Violates(probes[k])
                          /\ (endpoints[i].evidence = "DOCUMENTED") <=> MineOf(i) = {}
                          /\ (endpoints[i].execution = "EXECUTED") <=> MineOf(i) # {}
      BY DEF EvidenceEarned, MineOf
    <2> DEFINE good == \E k \in MineOf(i) : EvidenceFor(probes[k]) = "VALIDATED"
               clean == \A k \in MineOf(i) : ~Violates(probes[k])
               earned == \E k \in MineOf(i) : /\ Documented(cfg.doc[i], probes[k].reply.status)
                                              /\ Expected(probes[k].kind, probes[k].reply.status)
    <2>2. \A k \in MineOf(i) : probes[k].op = i /\ Answered(probes[k])
      BY DEF MineOf
    <2>3. /\ good => earned
          /\ earned /\ clean => good
      BY <2>2, WhatEvidenceIs
    <2>4. /\ endpoints[i].execution = IF MineOf(i) = {} THEN "SKIPPED" ELSE "EXECUTED"
          /\ endpoints[i].evidence = IF MineOf(i) = {} THEN "DOCUMENTED"
                                     ELSE IF good /\ clean THEN "VALIDATED" ELSE "OBSERVED"
      BY <2>1 DEF IInv, EntriesKnow
    <2>5. good => MineOf(i) # {}
      OBVIOUS
    <2>6. earned => MineOf(i) # {}
      OBVIOUS
    <2> HIDE DEF good, clean, earned
    <2>7. /\ (endpoints[i].evidence = "VALIDATED") <=> earned /\ clean
          /\ (endpoints[i].evidence = "DOCUMENTED") <=> MineOf(i) = {}
          /\ (endpoints[i].execution = "EXECUTED") <=> MineOf(i) # {}
      BY <2>3, <2>4, <2>5, <2>6
    <2>8. QED
      BY <2>7 DEF earned, clean
  <1>2. QED
    BY <1>1, ApiInvariant, PTL

\* When the stage is over every operation is accounted for: the stage is complete
\* whenever the documentation was read, NOT_ATTEMPTED is left only by a timeout, COMPLETED
\* hides neither a stop nor the budget, and UNAVAILABLE throws no answer away
\* (api-validation.ts, the end of runApiValidation; qa-manual's apiDiscoveryCompletion).
THEOREM AllAccounted == Spec => []Accounted
  <1>1. IInv => Accounted
    BY DEF IInv
  <1>2. QED
    BY <1>1, ApiInvariant, PTL
=============================================================================
