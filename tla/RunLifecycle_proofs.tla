------------------------ MODULE RunLifecycle_proofs ------------------------
(***************************************************************************)
(* Proofs about the life of a run, for any runs, any plan and any limits   *)
(* of the event log.  IInv says what a run's process, record, row, archive *)
(* and log tell of each other; that a cancel is kept, that the history and *)
(* the log end with one result, and that RunLifecycle implements RunOutcome *)
(* follow from it.                                                         *)
(***************************************************************************)
EXTENDS RunLifecycle, FiniteSetTheorems, TLAPS

USE RunsAssumption, BoundsAssumption

Consistent(r) == NoTraceYet(r) /\ RowTells(r) /\ ResultTells(r) /\ LogCounts(r)

-----------------------------------------------------------------------------
(* One event, written to a log without a final one. *)

LEMMA Numbering ==
  ASSUME TypeOK, NEW r \in Runs, LogCounts(r)
  PROVE  NextId(log[r]) = Len(log[r]) + 1
  <1>1. log[r] \in Seq(Event)
    BY DEF TypeOK, Event
  <1>2. CASE log[r] = <<>>
    BY <1>2 DEF NextId
  <1>3. CASE log[r] # <<>>
    <2>1. Len(log[r]) \in DOMAIN log[r]
      BY <1>1, <1>3
    <2>2. QED
      BY <1>1, <1>3, <2>1 DEF NextId, LogCounts
  <1>4. QED
    BY <1>2, <1>3

LEMMA Longer ==
  ASSUME NEW S, NEW l \in Seq(S), NEW e \in S, NEW m, m = Append(l, e)
  PROVE  /\ m \in Seq(S) /\ Len(m) = Len(l) + 1 /\ m[Len(m)] = e /\ m # <<>>
         /\ \A i \in DOMAIN l : m[i] = l[i]
  OBVIOUS

LEMMA EmitKeeps ==
  ASSUME TypeOK, NEW r \in Runs, LogCounts(r), ~HasFinal(log[r]),
         NEW t \in {"OUTLINE", "TOOL"} \cup Finals, Emit(r, t)
  PROVE  /\ log' \in [Runs -> Seq(Event)]
         /\ \A q \in Runs \ {r} : log'[q] = log[q]
         /\ LogCounts(r)'
         /\ Len(log[r]) <= Len(log'[r])
         /\ \A i \in DOMAIN log'[r] : log'[r][i].type \in Finals => Len(log[r]) < i
         /\ HasFinal(log'[r]) <=> t \in Finals
         /\ t \in Finals => log'[r][Len(log'[r])].type = t
  <1> DEFINE l == log[r]
  <1> DEFINE m == log'[r]
  <1>1. log \in [Runs -> Seq(Event)] /\ l \in Seq(Event)
    BY DEF TypeOK, Event
  <1>2. m = Appended(l, t) /\ \A q \in Runs \ {r} : log'[q] = log[q]
    BY <1>1 DEF Emit
  <1>3. NextId(l) = Len(l) + 1
    BY Numbering
  <1>4. \A i \in DOMAIN l : l[i].type \notin Finals
    <2>1. SUFFICES ASSUME NEW i \in DOMAIN l, l[i].type \in Finals PROVE FALSE
      OBVIOUS
    <2>2. i = Len(l) /\ l # <<>>
      BY <1>1, <2>1 DEF LogCounts
    <2>3. QED
      BY <2>1, <2>2 DEF HasFinal
  <1>5. CASE m = l
    <2>1. t \notin Finals
      <3>1. SUFFICES ASSUME t \in Finals PROVE FALSE
        OBVIOUS
      <3>2. Appended(l, t) = Append(l, [id |-> NextId(l), type |-> t])
        BY <3>1 DEF Appended, Finals
      <3>3. Len(Append(l, [id |-> NextId(l), type |-> t])) = Len(l) + 1
        BY <1>1
      <3>4. Len(m) = Len(l) + 1
        BY <1>2, <3>2, <3>3
      <3>5. QED
        BY <1>1, <1>5, <3>4
    <2>2. log' = log
      BY <1>1, <1>2, <1>5 DEF Emit
    <2>3. QED
      BY <1>1, <1>4, <1>5, <2>1, <2>2 DEF LogCounts
  <1>6. ASSUME NEW k \in {"EVENT", "NOTICE"} \cup Finals, k \in Finals <=> t \in Finals, t \in Finals => k = t,
               m = Append(l, [id |-> Len(l) + 1, type |-> k])
        PROVE  /\ log' \in [Runs -> Seq(Event)]
               /\ LogCounts(r)'
               /\ Len(l) <= Len(m)
               /\ \A i \in DOMAIN m : m[i].type \in Finals => Len(l) < i
               /\ HasFinal(m) <=> t \in Finals
               /\ t \in Finals => m[Len(m)].type = t
    <2> DEFINE e == [id |-> Len(l) + 1, type |-> k]
    <2>1. e \in Event /\ m = Append(l, e)
      BY <1>1, <1>6 DEF Event
    <2>2. m \in Seq(Event) /\ Len(m) = Len(l) + 1 /\ m[Len(m)] = e /\ m # <<>>
          /\ \A i \in DOMAIN l : m[i] = l[i]
      <3> HIDE DEF e, l, m
      <3>1. l \in Seq(Event)
        BY <1>1
      <3>2. QED
        BY <2>1, <3>1, Longer
    <2>3. \A i \in DOMAIN m : i \in DOMAIN l \/ i = Len(m)
      BY <1>1, <2>2
    <2>4. log' \in [Runs -> Seq(Event)]
      BY <1>1, <1>2, <2>2 DEF Emit
    <2>5. LogCounts(r)'
      BY <1>4, <2>2, <2>3 DEF LogCounts
    <2>6. \A i \in DOMAIN m : m[i].type \in Finals => Len(l) < i
      BY <1>1, <1>4, <2>2, <2>3
    <2>7. QED
      BY <1>1, <1>6, <2>2, <2>4, <2>5, <2>6 DEF HasFinal
  <1>7. CASE m # l
    <2>1. PICK k \in {"EVENT", "NOTICE"} \cup Finals :
             /\ k \in Finals <=> t \in Finals
             /\ t \in Finals => k = t
             /\ m = Append(l, [id |-> Len(l) + 1, type |-> k])
      BY <1>2, <1>3, <1>7 DEF Appended, Finals
    <2>2. QED
      BY <1>2, <1>6, <2>1
  <1>8. QED
    BY <1>2, <1>5, <1>7

-----------------------------------------------------------------------------
(* What is left as it was, and what every step of a live runner keeps.     *)

LEMMA SameRun ==
  ASSUME NEW q \in Runs, Consistent(q), proc'[q] = proc[q], run'[q] = run[q], row'[q] = row[q],
         arch'[q] = arch[q], log'[q] = log[q]
  PROVE  Consistent(q)'
  BY DEF Consistent, NoTraceYet, RowTells, ResultTells, LogCounts, IsOpen, Recorded, HasFinal

\* What a step of a live runner does to the others, and of its own may not undo.
RunnerMoves(r) ==
  /\ proc[r] \in Live
  /\ UNCHANGED stream
  /\ ctl'.active = ctl.active /\ ctl'.known = ctl.known /\ ctl'.cancel = ctl.cancel
  /\ \A q \in Runs \ {r} : /\ proc'[q] = proc[q] /\ run'[q] = run[q] /\ row'[q] = row[q]
                            /\ arch'[q] = arch[q] /\ log'[q] = log[q]
  /\ proc'[r] # "none"
  /\ IsOpen(r)' => IsOpen(r)
  /\ row[r] # NoRow => row'[r] # NoRow
  /\ run[r].lost => run'[r].lost
  /\ Len(log[r]) <= Len(log'[r])
  /\ \A i \in DOMAIN log'[r] : log'[r][i].type \in Finals =>
        Len(log[r]) < i \/ (i \in DOMAIN log[r] /\ log[r][i].type \in Finals)

LEMMA RunnerFrame ==
  ASSUME IInv, NEW r \in Runs, RunnerMoves(r), TypeOK', Consistent(r)', LockHeld'
  PROVE  IInv'
  <1> USE DEF RunnerMoves
  <1>0. ctl.known \subseteq Runs /\ ctl.cancel \subseteq Runs
    BY DEF IInv, TypeOK, CtlRecord
  <1>1. \A q \in Runs : Consistent(q)'
    BY SameRun DEF IInv, Consistent
  <1>2. \A q \in Runs : IsOpen(q)' => IsOpen(q)
    BY DEF IsOpen
  <1>3. OneOpen'
    BY <1>2 DEF IInv, OneOpen
  <1>4. r \in ctl.known => ctl.active = r
    BY DEF IInv, ChildrenSettled, Live
  <1>5. ChildrenSettled'
    BY <1>0, <1>4 DEF IInv, ChildrenSettled, HasFinal
  <1>6. CancelKept'
    BY <1>0, <1>4 DEF IInv, CancelKept, ChildrenSettled, Recorded
  <1>7. StreamFollows'
    <2>1. stream.run = NoRun \/ stream.run \in Runs
      BY DEF IInv, TypeOK, StreamRecord
    <2>2. CASE stream.run = NoRun
      BY <2>2 DEF IInv, StreamFollows
    <2>3. CASE stream.run \in Runs \ {r}
      BY <2>3 DEF IInv, StreamFollows, HasFinal
    <2>4. CASE stream.run = r
      <3>1. stream.state = "quiet" => run'[r].lost
        BY <2>4 DEF IInv, StreamFollows, Live
      <3>2. stream.last <= Len(log[r]) /\ stream.last \in Nat /\ Len(log[r]) \in Nat /\ Len(log'[r]) \in Nat
            /\ DOMAIN log'[r] \subseteq Nat
        <4>1. log[r] \in Seq(Event) /\ log'[r] \in Seq(Event)
          BY DEF IInv, TypeOK, Event
        <4>2. stream.last <= Len(log[r]) /\ stream.last \in Nat
          BY <2>4 DEF IInv, StreamFollows, TypeOK, StreamRecord
        <4>3. QED
          BY <4>1, <4>2
      <3>3. stream.last <= Len(log'[r])
        BY <3>2
      <3>4. stream.state # "seen" => \A i \in DOMAIN log'[r] : log'[r][i].type \in Finals => stream.last < i
        BY <2>4, <3>2 DEF IInv, StreamFollows
      <3>5. stream.state = "on" => row'[r] # NoRow \/ r \in ctl.known
        BY <2>4 DEF IInv, StreamFollows
      <3>6. QED
        BY <2>4, <3>1, <3>3, <3>4, <3>5 DEF StreamFollows
    <2>5. QED
      BY <2>1, <2>2, <2>3, <2>4
  <1>8. QED
    BY <1>1, <1>3, <1>5, <1>6, <1>7 DEF IInv, Consistent

-----------------------------------------------------------------------------
(* A live runner's step, by the values it gives its own process, record,   *)
(* row and archive.                                                        *)

LEMMA Update ==
  ASSUME NEW S, NEW f \in [Runs -> S], NEW r \in Runs, NEW v \in S, NEW g, g = [f EXCEPT ![r] = v]
  PROVE  g \in [Runs -> S] /\ g[r] = v /\ \A q \in Runs \ {r} : g[q] = f[q]
  OBVIOUS

LEMMA Kept ==
  ASSUME NEW S, NEW f \in [Runs -> S], NEW r \in Runs
  PROVE  f = [f EXCEPT ![r] = f[r]]
  OBVIOUS

LEMMA KeptAll ==
  ASSUME TypeOK, NEW r \in Runs
  PROVE  /\ proc = [proc EXCEPT ![r] = proc[r]] /\ run = [run EXCEPT ![r] = run[r]]
         /\ row = [row EXCEPT ![r] = row[r]] /\ arch = [arch EXCEPT ![r] = arch[r]]
  BY Kept DEF TypeOK

Working == Live \ {"boot", "released"}
Done    == Live \cup {"none", "dead", "unborn"}

\* The values a step gives r's own components.
Own(r, p, v, w, a) ==
  /\ proc' = [proc EXCEPT ![r] = p] /\ run' = [run EXCEPT ![r] = v]
  /\ row' = [row EXCEPT ![r] = w]   /\ arch' = [arch EXCEPT ![r] = a]

\* What a runner's step does to what it shares.
Aside(r) ==
  /\ UNCHANGED stream
  /\ ctl' \in CtlRecord /\ ctl'.active = ctl.active /\ ctl'.known = ctl.known /\ ctl'.cancel = ctl.cancel
  /\ pending' \in [cancel : SUBSET Runs, term : SUBSET Runs]
  /\ agent' \subseteq Runs
  /\ lock' = lock \/ (lock = r /\ lock' = NoRun /\ proc'[r] \notin Working)

\* What it may do to logs.
Writes(r) ==
  /\ log' \in [Runs -> Seq(Event)]
  /\ \A q \in Runs \ {r} : log'[q] = log[q]
  /\ LogCounts(r)'
  /\ Len(log[r]) <= Len(log'[r])
  /\ \A i \in DOMAIN log'[r] : log'[r][i].type \in Finals =>
        Len(log[r]) < i \/ (i \in DOMAIN log[r] /\ log[r][i].type \in Finals)

LEMMA NothingWritten ==
  ASSUME TypeOK, NEW r \in Runs, LogCounts(r), log' = log
  PROVE  Writes(r)
  <1>1. log[r] \in Seq(Event)
    BY DEF TypeOK
  <1>2. Len(log[r]) <= Len(log'[r])
    BY <1>1
  <1>3. QED
    BY <1>2 DEF TypeOK, Writes, LogCounts

LEMMA EventWritten ==
  ASSUME TypeOK, NEW r \in Runs, LogCounts(r), ~HasFinal(log[r]),
         NEW t \in {"OUTLINE", "TOOL"} \cup Finals, Emit(r, t)
  PROVE  Writes(r) /\ (HasFinal(log'[r]) <=> t \in Finals) /\ (t \in Finals => log'[r][Len(log'[r])].type = t)
  BY EmitKeeps DEF Writes

LEMMA NoRowFields == NoRow.status = "none" /\ NoRow.code = "" /\ NoRow.stage = "none" /\ NoRow.archive = FALSE
  BY DEF NoRow

LEMMA NewRunTyped == NewRun \in RunRecord
  BY DEF NewRun, RunRecord

\* What remains of a run's process.
Dead(v, c) == [NewRun EXCEPT !.code = c, !.recorded = v.recorded, !.lost = v.lost]

LEMMA DeadRun ==
  ASSUME NEW v \in RunRecord, NEW c \in {"none", "ok", "failed", "130"}
  PROVE  /\ Dead(v, c) \in RunRecord
         /\ Dead(v, c).stage = 0 /\ Dead(v, c).requested = FALSE /\ Dead(v, c).result = "none"
         /\ Dead(v, c).recorded = v.recorded /\ Dead(v, c).finished = FALSE /\ Dead(v, c).lost = v.lost
  <1>1. NewRun.stage = 0 /\ NewRun.requested = FALSE /\ NewRun.result = "none" /\ NewRun.finished = FALSE
    BY DEF NewRun
  <1>2. QED
    BY <1>1, NewRunTyped DEF RunRecord, Dead

LEMMA OwnStep ==
  ASSUME IInv, NEW r \in Runs, NEW p \in Live \cup {"dead"}, NEW v \in RunRecord, NEW w \in RowRecord,
         NEW a \in {"none"} \cup Finals, Own(r, p, v, w, a), Aside(r), Writes(r),
         proc[r] \in Live, p \in Working => proc[r] \in Working,
         w.status \in OpenStatus => IsOpen(r), row[r] # NoRow => w # NoRow, run[r].lost => v.lost,
         NoTraceYet(r)', RowTells(r)', ResultTells(r)'
  PROVE  IInv'
  <1>1. proc' \in [Runs -> Done] /\ proc'[r] = p /\ \A q \in Runs \ {r} : proc'[q] = proc[q]
    BY Update DEF IInv, TypeOK, Own, Done
  <1>2. run' \in [Runs -> RunRecord] /\ run'[r] = v /\ \A q \in Runs \ {r} : run'[q] = run[q]
    BY Update DEF IInv, TypeOK, Own
  <1>3. row' \in [Runs -> RowRecord] /\ row'[r] = w /\ \A q \in Runs \ {r} : row'[q] = row[q]
    BY Update DEF IInv, TypeOK, Own
  <1>4. arch' \in [Runs -> {"none"} \cup Finals] /\ \A q \in Runs \ {r} : arch'[q] = arch[q]
    BY Update DEF IInv, TypeOK, Own
  <1>5. lock' \in Runs \cup {NoRun}
    BY DEF IInv, TypeOK, Aside
  <1>6. TypeOK'
    BY <1>1, <1>2, <1>3, <1>4, <1>5 DEF IInv, TypeOK, Aside, Writes, Done
  <1>7. LockHeld'
    BY <1>1 DEF IInv, LockHeld, Aside, Working
  <1>8. RunnerMoves(r)
    BY <1>1, <1>2, <1>3, <1>4 DEF RunnerMoves, Aside, Writes, IsOpen, Live
  <1>9. Consistent(r)'
    BY DEF Consistent, Writes
  <1>10. QED
    BY <1>6, <1>7, <1>8, <1>9, RunnerFrame

LEMMA PreflightDoneStep ==
  ASSUME IInv, NEW r \in Runs, PreflightDone(r)
  PROVE  IInv'
  <1>1. TypeOK /\ Consistent(r)
    BY DEF IInv, Consistent
  <1>2. run[r] \in RunRecord /\ row[r] \in RowRecord /\ arch[r] \in {"none"} \cup Finals /\ proc[r] \in Done
    BY <1>1 DEF TypeOK, Done
  <1>3. \/ run[r].requested /\ proc[r] = "preflight" /\ Own(r, "between", run[r], row[r], arch[r]) /\ Aside(r)
              /\ log' = log
        \/ proc[r] = "preflight"
              /\ Own(r, "between", run[r], [row[r] EXCEPT !.status = IF @ = "STARTING" THEN "RUNNING" ELSE @], arch[r])
                    /\ Aside(r) /\ Emit(r, "OUTLINE")
    BY <1>1, KeptAll DEF PreflightDone, At, Own, Aside, TypeOK, Working, Live, CtlRecord
  <1>4. CASE run[r].requested /\ proc[r] = "preflight" /\ Own(r, "between", run[r], row[r], arch[r]) /\ Aside(r)
                /\ log' = log
    <2>1. proc'[r] = "between" /\ run'[r] = run[r] /\ row'[r] = row[r] /\ arch'[r] = arch[r]
      BY <1>1, <1>4 DEF Own, TypeOK
    <2>2. run'[r] \in RunRecord
      BY <1>2, <2>1
    <2>3. Writes(r)
      BY <1>1, <1>4, NothingWritten DEF Consistent
    <2>4. NoTraceYet(r)'
      BY <1>4, <2>1 DEF NoTraceYet, Live, Awaits
    <2>5. RowTells(r)'
      BY <1>1, <1>2, <1>4, <2>1, <2>2
         DEF Consistent, RowTells, ResultTells, IsOpen, Recorded, OpenStatus, NoRow, Finals, Live, Awaits
    <2>6. ResultTells(r)'
      BY <1>1, <1>2, <1>4, <2>1, <2>2, <2>3
         DEF Consistent, RowTells, ResultTells, IsOpen, Recorded, Finals, Live, Awaits
    <2>7. QED
      BY <1>1, <1>2, <1>4, <2>1, <2>2, <2>3, <2>4, <2>5, <2>6, OwnStep
         DEF Consistent, RowTells, ResultTells, IsOpen, OpenStatus, NoRow, Working, Live, Awaits, Finals
  <1>5. CASE proc[r] = "preflight"
                /\ Own(r, "between", run[r], [row[r] EXCEPT !.status = IF @ = "STARTING" THEN "RUNNING" ELSE @], arch[r])
                      /\ Aside(r) /\ Emit(r, "OUTLINE")
    <2>1. proc'[r] = "between" /\ run'[r] = run[r]
             /\ row'[r] = [row[r] EXCEPT !.status = IF @ = "STARTING" THEN "RUNNING" ELSE @] /\ arch'[r] = arch[r]
      BY <1>1, <1>5 DEF Own, TypeOK
    <2>2. run'[r] \in RunRecord
      BY <1>2, <2>1
    <2>3. /\ row'[r] \in RowRecord /\ row'[r].stage = row[r].stage /\ row'[r].code = row[r].code
          /\ row'[r].archive = row[r].archive
          /\ row'[r] = row[r] \/ (row[r].status = "STARTING" /\ row'[r].status = "RUNNING")
      BY <1>2, <2>1 DEF RowRecord, Status, OpenStatus
    <2>4. Writes(r) /\ (HasFinal(log'[r]) <=> "OUTLINE" \in Finals)
             /\ ("OUTLINE" \in Finals => log'[r][Len(log'[r])].type = "OUTLINE")
      BY <1>1, <1>5, EventWritten DEF Consistent, ResultTells
    <2>5. NoTraceYet(r)'
      BY <1>5, <2>1 DEF NoTraceYet, Live, Awaits
    <2>6. row'[r] = row[r] \/ (/\ run[r].recorded /\ row'[r].status \in OpenStatus
                                  /\ ~row'[r].archive /\ row'[r].code \notin {"API_DOCS_UNAVAILABLE", "INDEX_FAILED"})
      BY <1>1, <1>5, <2>1, <2>3 DEF Consistent, RowTells, ResultTells, IsOpen, Recorded, OpenStatus, Live
    <2>7. RowTells(r)'
      <3>1. CASE row'[r] = row[r]
        BY <1>1, <1>5, <2>1, <2>2, <3>1 DEF Consistent, RowTells, ResultTells, IsOpen, Recorded, Live
      <3>2. CASE row'[r] # row[r]
        <4>1. row'[r].status \in OpenStatus /\ ~row'[r].archive
                 /\ row'[r].code \notin {"API_DOCS_UNAVAILABLE", "INDEX_FAILED"}
          BY <2>6, <3>2
        <4>2. IsOpen(r)' /\ ~Recorded(r)'
          BY <4>1 DEF IsOpen, Recorded
        <4>3. row'[r] # NoRow
          BY <4>1, NoRowFields DEF OpenStatus
        <4>4. run'[r].recorded
          BY <2>1, <2>2, <2>6, <3>2
        <4>5. QED
          BY <2>1, <4>1, <4>2, <4>3, <4>4 DEF RowTells
      <3>3. QED
        BY <3>1, <3>2
    <2>8. ResultTells(r)'
      BY <1>1, <1>2, <1>5, <2>1, <2>2, <2>3, <2>4
         DEF Consistent, RowTells, ResultTells, IsOpen, Recorded, Finals, Live, Awaits
    <2>9. QED
      BY <1>1, <1>2, <1>5, <2>1, <2>2, <2>3, <2>4, <2>5, <2>7, <2>8, OwnStep
         DEF Consistent, RowTells, ResultTells, IsOpen, OpenStatus, NoRow, Working, Live, Awaits, Finals
  <1>6. QED
    BY <1>3, <1>4, <1>5

LEMMA DocsUnavailableStep ==
  ASSUME IInv, NEW r \in Runs, DocsUnavailable(r)
  PROVE  IInv'
  <1>1. TypeOK /\ Consistent(r)
    BY DEF IInv, Consistent
  <1>2. run[r] \in RunRecord /\ row[r] \in RowRecord /\ arch[r] \in {"none"} \cup Finals /\ proc[r] \in Done
    BY <1>1 DEF TypeOK, Done
  <1>3. proc[r] = "preflight" /\ Own(r, "preserved", [run[r] EXCEPT !.result = "FAILED"], row[r], arch[r])
           /\ Aside(r) /\ log' = log
    BY <1>1, KeptAll DEF DocsUnavailable, At, Own, Aside, TypeOK, Working, Live, CtlRecord
  <1>4. proc'[r] = "preserved" /\ run'[r] = [run[r] EXCEPT !.result = "FAILED"] /\ row'[r] = row[r]
           /\ arch'[r] = arch[r]
    BY <1>1, <1>3 DEF Own, TypeOK
  <1>5. /\ run'[r] \in RunRecord /\ run'[r].stage = run[r].stage /\ run'[r].requested = run[r].requested
              /\ run'[r].result = "FAILED"
        /\ run'[r].recorded = run[r].recorded /\ run'[r].finished = run[r].finished /\ run'[r].lost = run[r].lost
    BY <1>2, <1>3, <1>4 DEF RunRecord, Finals
  <1>6. Writes(r)
    BY <1>1, <1>3, NothingWritten DEF Consistent
  <1>7. NoTraceYet(r)'
    BY <1>3, <1>4 DEF NoTraceYet, Live, Awaits
  <1>8. RowTells(r)'
    BY <1>1, <1>2, <1>3, <1>4, <1>5
       DEF Consistent, RowTells, ResultTells, IsOpen, Recorded, OpenStatus, NoRow, Finals, Live, Awaits
  <1>9. ResultTells(r)'
    BY <1>1, <1>2, <1>3, <1>4, <1>5, <1>6
       DEF Consistent, RowTells, ResultTells, IsOpen, Recorded, Finals, Live, Awaits
  <1>10. QED
    BY <1>1, <1>2, <1>3, <1>4, <1>5, <1>6, <1>7, <1>8, <1>9, OwnStep
       DEF Consistent, RowTells, ResultTells, IsOpen, OpenStatus, NoRow, Working, Live, Awaits, Finals

LEMMA StartStageStep ==
  ASSUME IInv, NEW r \in Runs, StartStage(r)
  PROVE  IInv'
  <1>1. TypeOK /\ Consistent(r)
    BY DEF IInv, Consistent
  <1>2. run[r] \in RunRecord /\ row[r] \in RowRecord /\ arch[r] \in {"none"} \cup Finals /\ proc[r] \in Done
    BY <1>1 DEF TypeOK, Done
  <1>3. \/ proc[r] = "between" /\ Own(r, "ending", [run[r] EXCEPT !.result = "CANCELLED"], row[r], arch[r])
              /\ Aside(r) /\ log' = log
        \/ run[r].stage < NStages /\ proc[r] = "between"
              /\ Own(r, "agent", [run[r] EXCEPT !.stage = @ + 1, !.try = 1], (IF run[r].recorded THEN [row[r] EXCEPT !.stage = "RUNNING"] ELSE row[r]), arch[r])
                    /\ Aside(r) /\ Emit(r, "OUTLINE")
    <2>1. CASE run[r].requested
      BY <1>1, <2>1, KeptAll DEF StartStage, At, EndWith, Own, Aside, TypeOK, Working, Live, CtlRecord
    <2>2. CASE ~run[r].requested
      <3>1. proc[r] = "between" /\ proc' = [proc EXCEPT ![r] = "agent"] /\ arch' = [arch EXCEPT ![r] = arch[r]]
        BY <1>1, <2>2, KeptAll DEF StartStage, At
      <3>2. run' = [run EXCEPT ![r] = [run[r] EXCEPT !.stage = @ + 1, !.try = 1]]
        BY <2>2 DEF StartStage
      <3>3. row' = [row EXCEPT ![r] = (IF run[r].recorded THEN [row[r] EXCEPT !.stage = "RUNNING"] ELSE row[r])]
        BY <1>1, <2>2, KeptAll DEF StartStage, StageRow
      <3>4. Aside(r)
        BY <1>1, <2>2 DEF StartStage, Aside, TypeOK, CtlRecord
      <3>5. run[r].stage < NStages /\ Emit(r, "OUTLINE")
        BY <2>2 DEF StartStage
      <3>6. QED
        BY <3>1, <3>2, <3>3, <3>4, <3>5 DEF Own
    <2>3. QED
      BY <2>1, <2>2
  <1>4. CASE proc[r] = "between" /\ Own(r, "ending", [run[r] EXCEPT !.result = "CANCELLED"], row[r], arch[r])
                /\ Aside(r) /\ log' = log
    <2>1. proc'[r] = "ending" /\ run'[r] = [run[r] EXCEPT !.result = "CANCELLED"] /\ row'[r] = row[r]
             /\ arch'[r] = arch[r]
      BY <1>1, <1>4 DEF Own, TypeOK
    <2>2. /\ run'[r] \in RunRecord /\ run'[r].stage = run[r].stage /\ run'[r].requested = run[r].requested
                /\ run'[r].result = "CANCELLED"
          /\ run'[r].recorded = run[r].recorded /\ run'[r].finished = run[r].finished /\ run'[r].lost = run[r].lost
      BY <1>2, <1>4, <2>1 DEF RunRecord, Finals
    <2>3. Writes(r)
      BY <1>1, <1>4, NothingWritten DEF Consistent
    <2>4. NoTraceYet(r)'
      BY <1>4, <2>1 DEF NoTraceYet, Live, Awaits
    <2>5. RowTells(r)'
      BY <1>1, <1>2, <1>4, <2>1, <2>2
         DEF Consistent, RowTells, ResultTells, IsOpen, Recorded, OpenStatus, NoRow, Finals, Live, Awaits
    <2>6. ResultTells(r)'
      BY <1>1, <1>2, <1>4, <2>1, <2>2, <2>3
         DEF Consistent, RowTells, ResultTells, IsOpen, Recorded, Finals, Live, Awaits
    <2>7. QED
      BY <1>1, <1>2, <1>4, <2>1, <2>2, <2>3, <2>4, <2>5, <2>6, OwnStep
         DEF Consistent, RowTells, ResultTells, IsOpen, OpenStatus, NoRow, Working, Live, Awaits, Finals
  <1>5. CASE run[r].stage < NStages /\ proc[r] = "between"
                /\ Own(r, "agent", [run[r] EXCEPT !.stage = @ + 1, !.try = 1], (IF run[r].recorded THEN [row[r] EXCEPT !.stage = "RUNNING"] ELSE row[r]), arch[r])
                      /\ Aside(r) /\ Emit(r, "OUTLINE")
    <2>1. proc'[r] = "agent" /\ run'[r] = [run[r] EXCEPT !.stage = @ + 1, !.try = 1]
             /\ row'[r] = (IF run[r].recorded THEN [row[r] EXCEPT !.stage = "RUNNING"] ELSE row[r])
                   /\ arch'[r] = arch[r]
      BY <1>1, <1>5 DEF Own, TypeOK
    <2>2. run[r].stage + 1 \in 0..NStages /\ 1 \in 0..Attempts
      BY <1>2, <1>5 DEF RunRecord
    <2>3. /\ run'[r] \in RunRecord /\ run'[r].requested = run[r].requested /\ run'[r].result = run[r].result
                /\ run'[r].recorded = run[r].recorded
          /\ run'[r].finished = run[r].finished /\ run'[r].lost = run[r].lost
      BY <1>2, <1>5, <2>1, <2>2 DEF RunRecord, Finals
    <2>4. /\ row'[r] \in RowRecord /\ row'[r].status = row[r].status /\ row'[r].code = row[r].code
          /\ row'[r].archive = row[r].archive
          /\ row'[r] = row[r] \/ (run[r].recorded /\ row'[r].stage = "RUNNING")
      BY <1>2, <2>1, <2>2 DEF RowRecord, Finals
    <2>5. Writes(r) /\ (HasFinal(log'[r]) <=> "OUTLINE" \in Finals)
             /\ ("OUTLINE" \in Finals => log'[r][Len(log'[r])].type = "OUTLINE")
      BY <1>1, <1>5, EventWritten DEF Consistent, ResultTells
    <2>6. NoTraceYet(r)'
      BY <1>5, <2>1, <2>2 DEF NoTraceYet, Live, Awaits
    <2>7. row'[r] = row[r] \/ (/\ run[r].recorded /\ row'[r].status \in OpenStatus
                                  /\ ~row'[r].archive /\ row'[r].code \notin {"API_DOCS_UNAVAILABLE", "INDEX_FAILED"})
      BY <1>1, <1>5, <2>1, <2>2, <2>4 DEF Consistent, RowTells, ResultTells, IsOpen, Recorded, OpenStatus, Live
    <2>8. RowTells(r)'
      <3>1. CASE row'[r] = row[r]
        BY <1>1, <1>5, <2>1, <2>2, <2>3, <3>1 DEF Consistent, RowTells, ResultTells, IsOpen, Recorded, Live
      <3>2. CASE row'[r] # row[r]
        <4>1. row'[r].status \in OpenStatus /\ ~row'[r].archive
                 /\ row'[r].code \notin {"API_DOCS_UNAVAILABLE", "INDEX_FAILED"}
          BY <2>7, <3>2
        <4>2. IsOpen(r)' /\ ~Recorded(r)'
          BY <4>1 DEF IsOpen, Recorded
        <4>3. row'[r] # NoRow
          BY <4>1, NoRowFields DEF OpenStatus
        <4>4. run'[r].recorded
          BY <2>1, <2>2, <2>3, <2>7, <3>2
        <4>5. QED
          BY <2>1, <2>2, <4>1, <4>2, <4>3, <4>4 DEF RowTells
      <3>3. QED
        BY <3>1, <3>2
    <2>9. ResultTells(r)'
      BY <1>1, <1>2, <1>5, <2>1, <2>2, <2>3, <2>4, <2>5
         DEF Consistent, RowTells, ResultTells, IsOpen, Recorded, Finals, Live, Awaits
    <2>10. QED
      BY <1>1, <1>2, <1>5, <2>1, <2>2, <2>3, <2>4, <2>5, <2>6, <2>8, <2>9, OwnStep
         DEF Consistent, RowTells, ResultTells, IsOpen, OpenStatus, NoRow, Working, Live, Awaits, Finals
  <1>6. QED
    BY <1>3, <1>4, <1>5

LEMMA AgentEndsStep ==
  ASSUME IInv, NEW r \in Runs, AgentEnds(r)
  PROVE  IInv'
  <1>1. TypeOK /\ Consistent(r)
    BY DEF IInv, Consistent
  <1>2. run[r] \in RunRecord /\ row[r] \in RowRecord /\ arch[r] \in {"none"} \cup Finals /\ proc[r] \in Done
    BY <1>1 DEF TypeOK, Done
  <1>3. \/ proc[r] = "agent" /\ Own(r, "ending", [run[r] EXCEPT !.result = "CANCELLED"], (IF run[r].recorded THEN [row[r] EXCEPT !.stage = "CANCELLED"] ELSE row[r]), arch[r])
              /\ Aside(r) /\ Emit(r, "OUTLINE")
        \/ proc[r] = "agent" /\ Own(r, "between", run[r], (IF run[r].recorded THEN [row[r] EXCEPT !.stage = "COMPLETED"] ELSE row[r]), arch[r])
              /\ Aside(r) /\ Emit(r, "OUTLINE")
        \/ proc[r] = "agent" /\ Own(r, "ending", [run[r] EXCEPT !.result = "FAILED"], (IF run[r].recorded THEN [row[r] EXCEPT !.stage = "FAILED"] ELSE row[r]), arch[r])
              /\ Aside(r) /\ Emit(r, "OUTLINE")
    BY <1>1, KeptAll DEF AgentEnds, At, EndWith, StageRow, Own, Aside, TypeOK, Working, Live, CtlRecord
  <1>4. CASE proc[r] = "agent" /\ Own(r, "ending", [run[r] EXCEPT !.result = "CANCELLED"], (IF run[r].recorded THEN [row[r] EXCEPT !.stage = "CANCELLED"] ELSE row[r]), arch[r])
                /\ Aside(r) /\ Emit(r, "OUTLINE")
    <2>1. proc'[r] = "ending" /\ run'[r] = [run[r] EXCEPT !.result = "CANCELLED"]
             /\ row'[r] = (IF run[r].recorded THEN [row[r] EXCEPT !.stage = "CANCELLED"] ELSE row[r])
                   /\ arch'[r] = arch[r]
      BY <1>1, <1>4 DEF Own, TypeOK
    <2>2. /\ run'[r] \in RunRecord /\ run'[r].stage = run[r].stage /\ run'[r].requested = run[r].requested
                /\ run'[r].result = "CANCELLED"
          /\ run'[r].recorded = run[r].recorded /\ run'[r].finished = run[r].finished /\ run'[r].lost = run[r].lost
      BY <1>2, <1>4, <2>1 DEF RunRecord, Finals
    <2>3. /\ row'[r] \in RowRecord /\ row'[r].status = row[r].status /\ row'[r].code = row[r].code
          /\ row'[r].archive = row[r].archive
          /\ row'[r] = row[r] \/ (run[r].recorded /\ row'[r].stage = "CANCELLED")
      BY <1>2, <2>1 DEF RowRecord, Finals
    <2>4. Writes(r) /\ (HasFinal(log'[r]) <=> "OUTLINE" \in Finals)
             /\ ("OUTLINE" \in Finals => log'[r][Len(log'[r])].type = "OUTLINE")
      BY <1>1, <1>4, EventWritten DEF Consistent, ResultTells
    <2>5. NoTraceYet(r)'
      BY <1>4, <2>1 DEF NoTraceYet, Live, Awaits
    <2>6. row'[r] = row[r] \/ (/\ run[r].recorded /\ row'[r].status \in OpenStatus
                                  /\ ~row'[r].archive /\ row'[r].code \notin {"API_DOCS_UNAVAILABLE", "INDEX_FAILED"})
      BY <1>1, <1>4, <2>1, <2>3 DEF Consistent, RowTells, ResultTells, IsOpen, Recorded, OpenStatus, Live
    <2>7. RowTells(r)'
      <3>1. CASE row'[r] = row[r]
        BY <1>1, <1>4, <2>1, <2>2, <3>1 DEF Consistent, RowTells, ResultTells, IsOpen, Recorded, Live
      <3>2. CASE row'[r] # row[r]
        <4>1. row'[r].status \in OpenStatus /\ ~row'[r].archive
                 /\ row'[r].code \notin {"API_DOCS_UNAVAILABLE", "INDEX_FAILED"}
          BY <2>6, <3>2
        <4>2. IsOpen(r)' /\ ~Recorded(r)'
          BY <4>1 DEF IsOpen, Recorded
        <4>3. row'[r] # NoRow
          BY <4>1, NoRowFields DEF OpenStatus
        <4>4. run'[r].recorded
          BY <2>1, <2>2, <2>6, <3>2
        <4>5. QED
          BY <2>1, <4>1, <4>2, <4>3, <4>4 DEF RowTells
      <3>3. QED
        BY <3>1, <3>2
    <2>8. ResultTells(r)'
      BY <1>1, <1>2, <1>4, <2>1, <2>2, <2>3, <2>4
         DEF Consistent, RowTells, ResultTells, IsOpen, Recorded, Finals, Live, Awaits
    <2>9. QED
      BY <1>1, <1>2, <1>4, <2>1, <2>2, <2>3, <2>4, <2>5, <2>7, <2>8, OwnStep
         DEF Consistent, RowTells, ResultTells, IsOpen, OpenStatus, NoRow, Working, Live, Awaits, Finals
  <1>5. CASE proc[r] = "agent" /\ Own(r, "between", run[r], (IF run[r].recorded THEN [row[r] EXCEPT !.stage = "COMPLETED"] ELSE row[r]), arch[r])
                /\ Aside(r) /\ Emit(r, "OUTLINE")
    <2>1. proc'[r] = "between" /\ run'[r] = run[r]
             /\ row'[r] = (IF run[r].recorded THEN [row[r] EXCEPT !.stage = "COMPLETED"] ELSE row[r])
                   /\ arch'[r] = arch[r]
      BY <1>1, <1>5 DEF Own, TypeOK
    <2>2. run'[r] \in RunRecord
      BY <1>2, <2>1
    <2>3. /\ row'[r] \in RowRecord /\ row'[r].status = row[r].status /\ row'[r].code = row[r].code
          /\ row'[r].archive = row[r].archive
          /\ row'[r] = row[r] \/ (run[r].recorded /\ row'[r].stage = "COMPLETED")
      BY <1>2, <2>1 DEF RowRecord, Finals
    <2>4. Writes(r) /\ (HasFinal(log'[r]) <=> "OUTLINE" \in Finals)
             /\ ("OUTLINE" \in Finals => log'[r][Len(log'[r])].type = "OUTLINE")
      BY <1>1, <1>5, EventWritten DEF Consistent, ResultTells
    <2>5. NoTraceYet(r)'
      BY <1>5, <2>1 DEF NoTraceYet, Live, Awaits
    <2>6. row'[r] = row[r] \/ (/\ run[r].recorded /\ row'[r].status \in OpenStatus
                                  /\ ~row'[r].archive /\ row'[r].code \notin {"API_DOCS_UNAVAILABLE", "INDEX_FAILED"})
      BY <1>1, <1>5, <2>1, <2>3 DEF Consistent, RowTells, ResultTells, IsOpen, Recorded, OpenStatus, Live
    <2>7. RowTells(r)'
      <3>1. CASE row'[r] = row[r]
        BY <1>1, <1>5, <2>1, <2>2, <3>1 DEF Consistent, RowTells, ResultTells, IsOpen, Recorded, Live
      <3>2. CASE row'[r] # row[r]
        <4>1. row'[r].status \in OpenStatus /\ ~row'[r].archive
                 /\ row'[r].code \notin {"API_DOCS_UNAVAILABLE", "INDEX_FAILED"}
          BY <2>6, <3>2
        <4>2. IsOpen(r)' /\ ~Recorded(r)'
          BY <4>1 DEF IsOpen, Recorded
        <4>3. row'[r] # NoRow
          BY <4>1, NoRowFields DEF OpenStatus
        <4>4. run'[r].recorded
          BY <2>1, <2>2, <2>6, <3>2
        <4>5. QED
          BY <2>1, <4>1, <4>2, <4>3, <4>4 DEF RowTells
      <3>3. QED
        BY <3>1, <3>2
    <2>8. ResultTells(r)'
      BY <1>1, <1>2, <1>5, <2>1, <2>2, <2>3, <2>4
         DEF Consistent, RowTells, ResultTells, IsOpen, Recorded, Finals, Live, Awaits
    <2>9. QED
      BY <1>1, <1>2, <1>5, <2>1, <2>2, <2>3, <2>4, <2>5, <2>7, <2>8, OwnStep
         DEF Consistent, RowTells, ResultTells, IsOpen, OpenStatus, NoRow, Working, Live, Awaits, Finals
  <1>6. CASE proc[r] = "agent" /\ Own(r, "ending", [run[r] EXCEPT !.result = "FAILED"], (IF run[r].recorded THEN [row[r] EXCEPT !.stage = "FAILED"] ELSE row[r]), arch[r])
                /\ Aside(r) /\ Emit(r, "OUTLINE")
    <2>1. proc'[r] = "ending" /\ run'[r] = [run[r] EXCEPT !.result = "FAILED"]
             /\ row'[r] = (IF run[r].recorded THEN [row[r] EXCEPT !.stage = "FAILED"] ELSE row[r])
                   /\ arch'[r] = arch[r]
      BY <1>1, <1>6 DEF Own, TypeOK
    <2>2. /\ run'[r] \in RunRecord /\ run'[r].stage = run[r].stage /\ run'[r].requested = run[r].requested
                /\ run'[r].result = "FAILED"
          /\ run'[r].recorded = run[r].recorded /\ run'[r].finished = run[r].finished /\ run'[r].lost = run[r].lost
      BY <1>2, <1>6, <2>1 DEF RunRecord, Finals
    <2>3. /\ row'[r] \in RowRecord /\ row'[r].status = row[r].status /\ row'[r].code = row[r].code
          /\ row'[r].archive = row[r].archive
          /\ row'[r] = row[r] \/ (run[r].recorded /\ row'[r].stage = "FAILED")
      BY <1>2, <2>1 DEF RowRecord, Finals
    <2>4. Writes(r) /\ (HasFinal(log'[r]) <=> "OUTLINE" \in Finals)
             /\ ("OUTLINE" \in Finals => log'[r][Len(log'[r])].type = "OUTLINE")
      BY <1>1, <1>6, EventWritten DEF Consistent, ResultTells
    <2>5. NoTraceYet(r)'
      BY <1>6, <2>1 DEF NoTraceYet, Live, Awaits
    <2>6. row'[r] = row[r] \/ (/\ run[r].recorded /\ row'[r].status \in OpenStatus
                                  /\ ~row'[r].archive /\ row'[r].code \notin {"API_DOCS_UNAVAILABLE", "INDEX_FAILED"})
      BY <1>1, <1>6, <2>1, <2>3 DEF Consistent, RowTells, ResultTells, IsOpen, Recorded, OpenStatus, Live
    <2>7. RowTells(r)'
      <3>1. CASE row'[r] = row[r]
        BY <1>1, <1>6, <2>1, <2>2, <3>1 DEF Consistent, RowTells, ResultTells, IsOpen, Recorded, Live
      <3>2. CASE row'[r] # row[r]
        <4>1. row'[r].status \in OpenStatus /\ ~row'[r].archive
                 /\ row'[r].code \notin {"API_DOCS_UNAVAILABLE", "INDEX_FAILED"}
          BY <2>6, <3>2
        <4>2. IsOpen(r)' /\ ~Recorded(r)'
          BY <4>1 DEF IsOpen, Recorded
        <4>3. row'[r] # NoRow
          BY <4>1, NoRowFields DEF OpenStatus
        <4>4. run'[r].recorded
          BY <2>1, <2>2, <2>6, <3>2
        <4>5. QED
          BY <2>1, <4>1, <4>2, <4>3, <4>4 DEF RowTells
      <3>3. QED
        BY <3>1, <3>2
    <2>8. ResultTells(r)'
      BY <1>1, <1>2, <1>6, <2>1, <2>2, <2>3, <2>4
         DEF Consistent, RowTells, ResultTells, IsOpen, Recorded, Finals, Live, Awaits
    <2>9. QED
      BY <1>1, <1>2, <1>6, <2>1, <2>2, <2>3, <2>4, <2>5, <2>7, <2>8, OwnStep
         DEF Consistent, RowTells, ResultTells, IsOpen, OpenStatus, NoRow, Working, Live, Awaits, Finals
  <1>7. QED
    BY <1>3, <1>4, <1>5, <1>6

LEMMA RetryStep ==
  ASSUME IInv, NEW r \in Runs, Retry(r)
  PROVE  IInv'
  <1>1. TypeOK /\ Consistent(r)
    BY DEF IInv, Consistent
  <1>2. run[r] \in RunRecord /\ row[r] \in RowRecord /\ arch[r] \in {"none"} \cup Finals /\ proc[r] \in Done
    BY <1>1 DEF TypeOK, Done
  <1>3. run[r].try < Attempts /\ proc[r] = "agent"
           /\ Own(r, "agent", [run[r] EXCEPT !.try = @ + 1], row[r], arch[r]) /\ Aside(r) /\ Emit(r, "OUTLINE")
    BY <1>1, KeptAll DEF Retry, Own, Aside, TypeOK, Working, Live, CtlRecord
  <1>4. proc'[r] = "agent" /\ run'[r] = [run[r] EXCEPT !.try = @ + 1] /\ row'[r] = row[r] /\ arch'[r] = arch[r]
    BY <1>1, <1>3 DEF Own, TypeOK
  <1>5. /\ run'[r] \in RunRecord /\ run'[r].stage = run[r].stage /\ run'[r].requested = run[r].requested
              /\ run'[r].result = run[r].result
        /\ run'[r].recorded = run[r].recorded /\ run'[r].finished = run[r].finished /\ run'[r].lost = run[r].lost
    BY <1>2, <1>3, <1>4 DEF RunRecord, Finals
  <1>6. Writes(r) /\ (HasFinal(log'[r]) <=> "OUTLINE" \in Finals)
           /\ ("OUTLINE" \in Finals => log'[r][Len(log'[r])].type = "OUTLINE")
    BY <1>1, <1>3, EventWritten DEF Consistent, ResultTells
  <1>7. NoTraceYet(r)'
    BY <1>3, <1>4 DEF NoTraceYet, Live, Awaits
  <1>8. RowTells(r)'
    BY <1>1, <1>2, <1>3, <1>4, <1>5
       DEF Consistent, RowTells, ResultTells, IsOpen, Recorded, OpenStatus, NoRow, Finals, Live, Awaits
  <1>9. ResultTells(r)'
    BY <1>1, <1>2, <1>3, <1>4, <1>5, <1>6
       DEF Consistent, RowTells, ResultTells, IsOpen, Recorded, Finals, Live, Awaits
  <1>10. QED
    BY <1>1, <1>2, <1>3, <1>4, <1>5, <1>6, <1>7, <1>8, <1>9, OwnStep
       DEF Consistent, RowTells, ResultTells, IsOpen, OpenStatus, NoRow, Working, Live, Awaits, Finals

LEMMA ToolCallStep ==
  ASSUME IInv, NEW r \in Runs, ToolCall(r)
  PROVE  IInv'
  <1>1. TypeOK /\ Consistent(r)
    BY DEF IInv, Consistent
  <1>2. run[r] \in RunRecord /\ row[r] \in RowRecord /\ arch[r] \in {"none"} \cup Finals /\ proc[r] \in Done
    BY <1>1 DEF TypeOK, Done
  <1>3. proc[r] = "agent" /\ Own(r, "agent", run[r], row[r], arch[r]) /\ Aside(r) /\ Emit(r, "TOOL")
    BY <1>1, KeptAll DEF ToolCall, Own, Aside, TypeOK, Working, Live, CtlRecord
  <1>4. proc'[r] = "agent" /\ run'[r] = run[r] /\ row'[r] = row[r] /\ arch'[r] = arch[r]
    BY <1>1, <1>3 DEF Own, TypeOK
  <1>5. run'[r] \in RunRecord
    BY <1>2, <1>4
  <1>6. Writes(r) /\ (HasFinal(log'[r]) <=> "TOOL" \in Finals)
           /\ ("TOOL" \in Finals => log'[r][Len(log'[r])].type = "TOOL")
    BY <1>1, <1>3, EventWritten DEF Consistent, ResultTells
  <1>7. NoTraceYet(r)'
    BY <1>3, <1>4 DEF NoTraceYet, Live, Awaits
  <1>8. RowTells(r)'
    BY <1>1, <1>2, <1>3, <1>4, <1>5
       DEF Consistent, RowTells, ResultTells, IsOpen, Recorded, OpenStatus, NoRow, Finals, Live, Awaits
  <1>9. ResultTells(r)'
    BY <1>1, <1>2, <1>3, <1>4, <1>5, <1>6
       DEF Consistent, RowTells, ResultTells, IsOpen, Recorded, Finals, Live, Awaits
  <1>10. QED
    BY <1>1, <1>2, <1>3, <1>4, <1>5, <1>6, <1>7, <1>8, <1>9, OwnStep
       DEF Consistent, RowTells, ResultTells, IsOpen, OpenStatus, NoRow, Working, Live, Awaits, Finals

LEMMA AllStagesDoneStep ==
  ASSUME IInv, NEW r \in Runs, AllStagesDone(r)
  PROVE  IInv'
  <1>1. TypeOK /\ Consistent(r)
    BY DEF IInv, Consistent
  <1>2. run[r] \in RunRecord /\ row[r] \in RowRecord /\ arch[r] \in {"none"} \cup Finals /\ proc[r] \in Done
    BY <1>1 DEF TypeOK, Done
  <1>3. proc[r] = "between" /\ Own(r, "ending", [run[r] EXCEPT !.result = "COMPLETED"], row[r], arch[r]) /\ Aside(r)
           /\ log' = log
    BY <1>1, KeptAll DEF AllStagesDone, At, EndWith, Own, Aside, TypeOK, Working, Live, CtlRecord
  <1>4. proc'[r] = "ending" /\ run'[r] = [run[r] EXCEPT !.result = "COMPLETED"] /\ row'[r] = row[r]
           /\ arch'[r] = arch[r]
    BY <1>1, <1>3 DEF Own, TypeOK
  <1>5. /\ run'[r] \in RunRecord /\ run'[r].stage = run[r].stage /\ run'[r].requested = run[r].requested
              /\ run'[r].result = "COMPLETED"
        /\ run'[r].recorded = run[r].recorded /\ run'[r].finished = run[r].finished /\ run'[r].lost = run[r].lost
    BY <1>2, <1>3, <1>4 DEF RunRecord, Finals
  <1>6. Writes(r)
    BY <1>1, <1>3, NothingWritten DEF Consistent
  <1>7. NoTraceYet(r)'
    BY <1>3, <1>4 DEF NoTraceYet, Live, Awaits
  <1>8. RowTells(r)'
    BY <1>1, <1>2, <1>3, <1>4, <1>5
       DEF Consistent, RowTells, ResultTells, IsOpen, Recorded, OpenStatus, NoRow, Finals, Live, Awaits
  <1>9. ResultTells(r)'
    BY <1>1, <1>2, <1>3, <1>4, <1>5, <1>6
       DEF Consistent, RowTells, ResultTells, IsOpen, Recorded, Finals, Live, Awaits
  <1>10. QED
    BY <1>1, <1>2, <1>3, <1>4, <1>5, <1>6, <1>7, <1>8, <1>9, OwnStep
       DEF Consistent, RowTells, ResultTells, IsOpen, OpenStatus, NoRow, Working, Live, Awaits, Finals

LEMMA PreserveStep ==
  ASSUME IInv, NEW r \in Runs, Preserve(r)
  PROVE  IInv'
  <1>1. TypeOK /\ Consistent(r)
    BY DEF IInv, Consistent
  <1>2. run[r] \in RunRecord /\ row[r] \in RowRecord /\ arch[r] \in {"none"} \cup Finals /\ proc[r] \in Done
    BY <1>1 DEF TypeOK, Done
  <1>3. proc[r] = "ending" /\ Own(r, "preserved", run[r], row[r], run[r].result) /\ Aside(r) /\ log' = log
    BY <1>1, KeptAll DEF Preserve, At, Own, Aside, TypeOK, Working, Live, CtlRecord
  <1>4. proc'[r] = "preserved" /\ run'[r] = run[r] /\ row'[r] = row[r] /\ arch'[r] = run[r].result
    BY <1>1, <1>3 DEF Own, TypeOK
  <1>5. run'[r] \in RunRecord
    BY <1>2, <1>4
  <1>6. Writes(r)
    BY <1>1, <1>3, NothingWritten DEF Consistent
  <1>7. NoTraceYet(r)'
    BY <1>3, <1>4 DEF NoTraceYet, Live, Awaits
  <1>8. RowTells(r)'
    BY <1>1, <1>2, <1>3, <1>4, <1>5
       DEF Consistent, RowTells, ResultTells, IsOpen, Recorded, OpenStatus, NoRow, Finals, Live, Awaits
  <1>9. ResultTells(r)'
    BY <1>1, <1>2, <1>3, <1>4, <1>5, <1>6
       DEF Consistent, RowTells, ResultTells, IsOpen, Recorded, Finals, Live, Awaits
  <1>10. QED
    BY <1>1, <1>2, <1>3, <1>4, <1>5, <1>6, <1>7, <1>8, <1>9, OwnStep
       DEF Consistent, RowTells, ResultTells, IsOpen, OpenStatus, NoRow, Working, Live, Awaits, Finals

LEMMA EmitFinalStep ==
  ASSUME IInv, NEW r \in Runs, EmitFinal(r)
  PROVE  IInv'
  <1>1. TypeOK /\ Consistent(r)
    BY DEF IInv, Consistent
  <1>2. run[r] \in RunRecord /\ row[r] \in RowRecord /\ arch[r] \in {"none"} \cup Finals /\ proc[r] \in Done
    BY <1>1 DEF TypeOK, Done
  <1>3. \/ proc[r] = "preserved" /\ Own(r, "emitted", run[r], row[r], arch[r]) /\ Aside(r) /\ Emit(r, run[r].result)
        \/ proc[r] = "preserved" /\ Own(r, "emitted", [run[r] EXCEPT !.lost = TRUE], row[r], arch[r]) /\ Aside(r)
              /\ log' = log
    BY <1>1, KeptAll DEF EmitFinal, At, Own, Aside, TypeOK, Working, Live, CtlRecord
  <1>4. CASE proc[r] = "preserved" /\ Own(r, "emitted", run[r], row[r], arch[r]) /\ Aside(r)
                /\ Emit(r, run[r].result)
    <2>1. proc'[r] = "emitted" /\ run'[r] = run[r] /\ row'[r] = row[r] /\ arch'[r] = arch[r]
      BY <1>1, <1>4 DEF Own, TypeOK
    <2>2. run'[r] \in RunRecord
      BY <1>2, <2>1
    <2>3. Writes(r) /\ (HasFinal(log'[r]) <=> run[r].result \in Finals)
             /\ (run[r].result \in Finals => log'[r][Len(log'[r])].type = run[r].result)
      BY <1>1, <1>4, EventWritten DEF Consistent, ResultTells
    <2>4. NoTraceYet(r)'
      BY <1>4, <2>1 DEF NoTraceYet, Live, Awaits
    <2>5. RowTells(r)'
      BY <1>1, <1>2, <1>4, <2>1, <2>2
         DEF Consistent, RowTells, ResultTells, IsOpen, Recorded, OpenStatus, NoRow, Finals, Live, Awaits
    <2>6. ResultTells(r)'
      BY <1>1, <1>2, <1>4, <2>1, <2>2, <2>3
         DEF Consistent, RowTells, ResultTells, IsOpen, Recorded, Finals, Live, Awaits
    <2>7. QED
      BY <1>1, <1>2, <1>4, <2>1, <2>2, <2>3, <2>4, <2>5, <2>6, OwnStep
         DEF Consistent, RowTells, ResultTells, IsOpen, OpenStatus, NoRow, Working, Live, Awaits, Finals
  <1>5. CASE proc[r] = "preserved" /\ Own(r, "emitted", [run[r] EXCEPT !.lost = TRUE], row[r], arch[r]) /\ Aside(r)
                /\ log' = log
    <2>1. proc'[r] = "emitted" /\ run'[r] = [run[r] EXCEPT !.lost = TRUE] /\ row'[r] = row[r] /\ arch'[r] = arch[r]
      BY <1>1, <1>5 DEF Own, TypeOK
    <2>2. /\ run'[r] \in RunRecord /\ run'[r].stage = run[r].stage /\ run'[r].requested = run[r].requested
                /\ run'[r].result = run[r].result
          /\ run'[r].recorded = run[r].recorded /\ run'[r].finished = run[r].finished /\ run'[r].lost = TRUE
      BY <1>2, <1>5, <2>1 DEF RunRecord, Finals
    <2>3. Writes(r)
      BY <1>1, <1>5, NothingWritten DEF Consistent
    <2>4. NoTraceYet(r)'
      BY <1>5, <2>1 DEF NoTraceYet, Live, Awaits
    <2>5. RowTells(r)'
      BY <1>1, <1>2, <1>5, <2>1, <2>2
         DEF Consistent, RowTells, ResultTells, IsOpen, Recorded, OpenStatus, NoRow, Finals, Live, Awaits
    <2>6. ResultTells(r)'
      BY <1>1, <1>2, <1>5, <2>1, <2>2, <2>3
         DEF Consistent, RowTells, ResultTells, IsOpen, Recorded, Finals, Live, Awaits
    <2>7. QED
      BY <1>1, <1>2, <1>5, <2>1, <2>2, <2>3, <2>4, <2>5, <2>6, OwnStep
         DEF Consistent, RowTells, ResultTells, IsOpen, OpenStatus, NoRow, Working, Live, Awaits, Finals
  <1>6. QED
    BY <1>3, <1>4, <1>5

LEMMA ExitNormallyStep ==
  ASSUME IInv, NEW r \in Runs, ExitNormally(r)
  PROVE  IInv'
  <1>1. TypeOK /\ Consistent(r)
    BY DEF IInv, Consistent
  <1>2. run[r] \in RunRecord /\ row[r] \in RowRecord /\ arch[r] \in {"none"} \cup Finals /\ proc[r] \in Done
    BY <1>1 DEF TypeOK, Done
  <1>3. proc[r] = "closing" /\ Own(r, "exiting", run[r], row[r], arch[r]) /\ Aside(r) /\ log' = log
    BY <1>1, KeptAll DEF ExitNormally, At, Own, Aside, TypeOK, Working, Live, CtlRecord
  <1>4. proc'[r] = "exiting" /\ run'[r] = run[r] /\ row'[r] = row[r] /\ arch'[r] = arch[r]
    BY <1>1, <1>3 DEF Own, TypeOK
  <1>5. run'[r] \in RunRecord
    BY <1>2, <1>4
  <1>6. Writes(r)
    BY <1>1, <1>3, NothingWritten DEF Consistent
  <1>7. NoTraceYet(r)'
    BY <1>3, <1>4 DEF NoTraceYet, Live, Awaits
  <1>8. RowTells(r)'
    BY <1>1, <1>2, <1>3, <1>4, <1>5
       DEF Consistent, RowTells, ResultTells, IsOpen, Recorded, OpenStatus, NoRow, Finals, Live, Awaits
  <1>9. ResultTells(r)'
    BY <1>1, <1>2, <1>3, <1>4, <1>5, <1>6
       DEF Consistent, RowTells, ResultTells, IsOpen, Recorded, Finals, Live, Awaits
  <1>10. QED
    BY <1>1, <1>2, <1>3, <1>4, <1>5, <1>6, <1>7, <1>8, <1>9, OwnStep
       DEF Consistent, RowTells, ResultTells, IsOpen, OpenStatus, NoRow, Working, Live, Awaits, Finals

LEMMA ExitEarlyStep ==
  ASSUME IInv, NEW r \in Runs, ExitEarly(r)
  PROVE  IInv'
  <1>1. TypeOK /\ Consistent(r)
    BY DEF IInv, Consistent
  <1>2. run[r] \in RunRecord /\ row[r] \in RowRecord /\ arch[r] \in {"none"} \cup Finals /\ proc[r] \in Done
    BY <1>1 DEF TypeOK, Done
  <1>3. \/ proc[r] \in Awaits /\ Own(r, "exiting", [run[r] EXCEPT !.code = "failed"], row[r], arch[r]) /\ Aside(r)
              /\ log' = log
        \/ proc[r] \in Awaits /\ Own(r, "exiting", [run[r] EXCEPT !.code = "130"], row[r], arch[r]) /\ Aside(r)
              /\ log' = log
    <2>1. /\ proc[r] \in Awaits /\ proc' = [proc EXCEPT ![r] = "exiting"]
          /\ \/ run' = [run EXCEPT ![r].code = "failed"]
             \/ run' = [run EXCEPT ![r].code = "130"]
          /\ UNCHANGED <<agent, row, arch, lock, log, ctl, pending, stream>>
      BY DEF ExitEarly, At
    <2>2. Aside(r) /\ log' = log
      BY <1>1, <2>1 DEF Aside, TypeOK
    <2>3. \/ run' = [run EXCEPT ![r] = [run[r] EXCEPT !.code = "failed"]]
          \/ run' = [run EXCEPT ![r] = [run[r] EXCEPT !.code = "130"]]
      BY <2>1
    <2>4. row' = [row EXCEPT ![r] = row[r]] /\ arch' = [arch EXCEPT ![r] = arch[r]]
      BY <1>1, <2>1, KeptAll
    <2>5. QED
      BY <2>1, <2>2, <2>3, <2>4 DEF Own
  <1>4. CASE proc[r] \in Awaits /\ Own(r, "exiting", [run[r] EXCEPT !.code = "failed"], row[r], arch[r]) /\ Aside(r)
                /\ log' = log
    <2>1. proc'[r] = "exiting" /\ run'[r] = [run[r] EXCEPT !.code = "failed"] /\ row'[r] = row[r]
             /\ arch'[r] = arch[r]
      BY <1>1, <1>4 DEF Own, TypeOK
    <2>2. /\ run'[r] \in RunRecord /\ run'[r].stage = run[r].stage /\ run'[r].requested = run[r].requested
                /\ run'[r].result = run[r].result
          /\ run'[r].recorded = run[r].recorded /\ run'[r].finished = run[r].finished /\ run'[r].lost = run[r].lost
      BY <1>2, <1>4, <2>1 DEF RunRecord, Finals
    <2>3. Writes(r)
      BY <1>1, <1>4, NothingWritten DEF Consistent
    <2>4. NoTraceYet(r)'
      BY <1>4, <2>1 DEF NoTraceYet, Live, Awaits
    <2>5. RowTells(r)'
      BY <1>1, <1>2, <1>4, <2>1, <2>2
         DEF Consistent, RowTells, ResultTells, IsOpen, Recorded, OpenStatus, NoRow, Finals, Live, Awaits
    <2>6. ResultTells(r)'
      BY <1>1, <1>2, <1>4, <2>1, <2>2, <2>3
         DEF Consistent, RowTells, ResultTells, IsOpen, Recorded, Finals, Live, Awaits
    <2>7. QED
      BY <1>1, <1>2, <1>4, <2>1, <2>2, <2>3, <2>4, <2>5, <2>6, OwnStep
         DEF Consistent, RowTells, ResultTells, IsOpen, OpenStatus, NoRow, Working, Live, Awaits, Finals
  <1>5. CASE proc[r] \in Awaits /\ Own(r, "exiting", [run[r] EXCEPT !.code = "130"], row[r], arch[r]) /\ Aside(r)
                /\ log' = log
    <2>1. proc'[r] = "exiting" /\ run'[r] = [run[r] EXCEPT !.code = "130"] /\ row'[r] = row[r] /\ arch'[r] = arch[r]
      BY <1>1, <1>5 DEF Own, TypeOK
    <2>2. /\ run'[r] \in RunRecord /\ run'[r].stage = run[r].stage /\ run'[r].requested = run[r].requested
                /\ run'[r].result = run[r].result
          /\ run'[r].recorded = run[r].recorded /\ run'[r].finished = run[r].finished /\ run'[r].lost = run[r].lost
      BY <1>2, <1>5, <2>1 DEF RunRecord, Finals
    <2>3. Writes(r)
      BY <1>1, <1>5, NothingWritten DEF Consistent
    <2>4. NoTraceYet(r)'
      BY <1>5, <2>1 DEF NoTraceYet, Live, Awaits
    <2>5. RowTells(r)'
      BY <1>1, <1>2, <1>5, <2>1, <2>2
         DEF Consistent, RowTells, ResultTells, IsOpen, Recorded, OpenStatus, NoRow, Finals, Live, Awaits
    <2>6. ResultTells(r)'
      BY <1>1, <1>2, <1>5, <2>1, <2>2, <2>3
         DEF Consistent, RowTells, ResultTells, IsOpen, Recorded, Finals, Live, Awaits
    <2>7. QED
      BY <1>1, <1>2, <1>5, <2>1, <2>2, <2>3, <2>4, <2>5, <2>6, OwnStep
         DEF Consistent, RowTells, ResultTells, IsOpen, OpenStatus, NoRow, Working, Live, Awaits, Finals
  <1>6. QED
    BY <1>3, <1>4, <1>5

LEMMA ReleaseOnExitStep ==
  ASSUME IInv, NEW r \in Runs, ReleaseOnExit(r)
  PROVE  IInv'
  <1>1. TypeOK /\ Consistent(r)
    BY DEF IInv, Consistent
  <1>2. run[r] \in RunRecord /\ row[r] \in RowRecord /\ arch[r] \in {"none"} \cup Finals /\ proc[r] \in Done
    BY <1>1 DEF TypeOK, Done
  <1>3. proc[r] = "exiting" /\ Own(r, "released", run[r], row[r], arch[r]) /\ Aside(r) /\ log' = log
    BY <1>1, KeptAll DEF ReleaseOnExit, At, Own, Aside, TypeOK, Working, Live, CtlRecord
  <1>4. proc'[r] = "released" /\ run'[r] = run[r] /\ row'[r] = row[r] /\ arch'[r] = arch[r]
    BY <1>1, <1>3 DEF Own, TypeOK
  <1>5. run'[r] \in RunRecord
    BY <1>2, <1>4
  <1>6. Writes(r)
    BY <1>1, <1>3, NothingWritten DEF Consistent
  <1>7. NoTraceYet(r)'
    BY <1>3, <1>4 DEF NoTraceYet, Live, Awaits
  <1>8. RowTells(r)'
    BY <1>1, <1>2, <1>3, <1>4, <1>5
       DEF Consistent, RowTells, ResultTells, IsOpen, Recorded, OpenStatus, NoRow, Finals, Live, Awaits
  <1>9. ResultTells(r)'
    BY <1>1, <1>2, <1>3, <1>4, <1>5, <1>6
       DEF Consistent, RowTells, ResultTells, IsOpen, Recorded, Finals, Live, Awaits
  <1>10. QED
    BY <1>1, <1>2, <1>3, <1>4, <1>5, <1>6, <1>7, <1>8, <1>9, OwnStep
       DEF Consistent, RowTells, ResultTells, IsOpen, OpenStatus, NoRow, Working, Live, Awaits, Finals

LEMMA CrashStep ==
  ASSUME IInv, NEW r \in Runs, Crash(r)
  PROVE  IInv'
  <1>1. TypeOK /\ Consistent(r)
    BY DEF IInv, Consistent
  <1>2. run[r] \in RunRecord /\ row[r] \in RowRecord /\ arch[r] \in {"none"} \cup Finals /\ proc[r] \in Done
    BY <1>1 DEF TypeOK, Done
  <1>3. proc[r] \in Live /\ Own(r, "dead", Dead(run[r], "failed"), row[r], arch[r]) /\ Aside(r) /\ log' = log
    BY <1>1, KeptAll DEF Crash, Die, Own, Aside, Dead, TypeOK, Working, Live, CtlRecord
  <1>4. proc'[r] = "dead" /\ run'[r] = Dead(run[r], "failed") /\ row'[r] = row[r] /\ arch'[r] = arch[r]
    BY <1>1, <1>3 DEF Own, TypeOK
  <1>5. run'[r] = Dead(run[r], "failed")
    BY <1>4
  <1>6. run[r] \in RunRecord
    BY <1>2
  <1>7. run'[r] \in RunRecord /\ run'[r].stage = 0 /\ run'[r].requested = FALSE /\ run'[r].result = "none"
    BY <1>5, <1>6, DeadRun
  <1>8. run'[r].recorded = run[r].recorded
    BY <1>5, <1>6, DeadRun
  <1>9. run'[r].finished = FALSE
    BY <1>5, <1>6, DeadRun
  <1>10. run'[r].lost = run[r].lost
    BY <1>5, <1>6, DeadRun
  <1>11. Writes(r)
    BY <1>1, <1>3, NothingWritten DEF Consistent
  <1>12. NoTraceYet(r)'
    BY <1>3, <1>4 DEF NoTraceYet, Live, Awaits
  <1>13. RowTells(r)'
    BY <1>1, <1>2, <1>3, <1>4, <1>7, <1>8, <1>9, <1>10
       DEF Consistent, RowTells, ResultTells, IsOpen, Recorded, OpenStatus, NoRow, Finals, Live, Awaits
  <1>14. ResultTells(r)'
    BY <1>1, <1>2, <1>3, <1>4, <1>7, <1>8, <1>9, <1>10, <1>11
       DEF Consistent, RowTells, ResultTells, IsOpen, Recorded, Finals, Live, Awaits
  <1>15. QED
    BY <1>1, <1>2, <1>3, <1>4, <1>7, <1>8, <1>9, <1>10, <1>11, <1>12, <1>13, <1>14, OwnStep
       DEF Consistent, RowTells, ResultTells, IsOpen, OpenStatus, NoRow, Working, Live, Awaits, Finals

LEMMA KillTimerStep ==
  ASSUME IInv, NEW r \in Runs, KillTimer(r)
  PROVE  IInv'
  <1>1. TypeOK /\ Consistent(r)
    BY DEF IInv, Consistent
  <1>2. run[r] \in RunRecord /\ row[r] \in RowRecord /\ arch[r] \in {"none"} \cup Finals /\ proc[r] \in Done
    BY <1>1 DEF TypeOK, Done
  <1>3. proc[r] \in Live /\ Own(r, "dead", Dead(run[r], "failed"), row[r], arch[r]) /\ Aside(r) /\ log' = log
    BY <1>1, KeptAll DEF KillTimer, Die, Own, Aside, Dead, TypeOK, Working, Live, CtlRecord
  <1>4. proc'[r] = "dead" /\ run'[r] = Dead(run[r], "failed") /\ row'[r] = row[r] /\ arch'[r] = arch[r]
    BY <1>1, <1>3 DEF Own, TypeOK
  <1>5. run'[r] = Dead(run[r], "failed")
    BY <1>4
  <1>6. run[r] \in RunRecord
    BY <1>2
  <1>7. run'[r] \in RunRecord /\ run'[r].stage = 0 /\ run'[r].requested = FALSE /\ run'[r].result = "none"
    BY <1>5, <1>6, DeadRun
  <1>8. run'[r].recorded = run[r].recorded
    BY <1>5, <1>6, DeadRun
  <1>9. run'[r].finished = FALSE
    BY <1>5, <1>6, DeadRun
  <1>10. run'[r].lost = run[r].lost
    BY <1>5, <1>6, DeadRun
  <1>11. Writes(r)
    BY <1>1, <1>3, NothingWritten DEF Consistent
  <1>12. NoTraceYet(r)'
    BY <1>3, <1>4 DEF NoTraceYet, Live, Awaits
  <1>13. RowTells(r)'
    BY <1>1, <1>2, <1>3, <1>4, <1>7, <1>8, <1>9, <1>10
       DEF Consistent, RowTells, ResultTells, IsOpen, Recorded, OpenStatus, NoRow, Finals, Live, Awaits
  <1>14. ResultTells(r)'
    BY <1>1, <1>2, <1>3, <1>4, <1>7, <1>8, <1>9, <1>10, <1>11
       DEF Consistent, RowTells, ResultTells, IsOpen, Recorded, Finals, Live, Awaits
  <1>15. QED
    BY <1>1, <1>2, <1>3, <1>4, <1>7, <1>8, <1>9, <1>10, <1>11, <1>12, <1>13, <1>14, OwnStep
       DEF Consistent, RowTells, ResultTells, IsOpen, OpenStatus, NoRow, Working, Live, Awaits, Finals

LEMMA DeliverCancelStep ==
  ASSUME IInv, NEW r \in Runs, DeliverCancel(r)
  PROVE  IInv'
  <1>1. TypeOK /\ Consistent(r)
    BY DEF IInv, Consistent
  <1>2. run[r] \in RunRecord /\ row[r] \in RowRecord /\ arch[r] \in {"none"} \cup Finals /\ proc[r] \in Done
    BY <1>1 DEF TypeOK, Done
  <1>3. proc[r] \in Awaits /\ Own(r, proc[r], [run[r] EXCEPT !.requested = TRUE], row[r], arch[r]) /\ Aside(r)
           /\ log' = log
    BY <1>1, KeptAll DEF DeliverCancel, Own, Aside, TypeOK, Working, Live, CtlRecord
  <1>4. proc'[r] = proc[r] /\ run'[r] = [run[r] EXCEPT !.requested = TRUE] /\ row'[r] = row[r] /\ arch'[r] = arch[r]
    BY <1>1, <1>3 DEF Own, TypeOK
  <1>5. /\ run'[r] \in RunRecord /\ run'[r].stage = run[r].stage /\ run'[r].requested = TRUE
              /\ run'[r].result = run[r].result
        /\ run'[r].recorded = run[r].recorded /\ run'[r].finished = run[r].finished /\ run'[r].lost = run[r].lost
    BY <1>2, <1>3, <1>4 DEF RunRecord, Finals
  <1>6. Writes(r)
    BY <1>1, <1>3, NothingWritten DEF Consistent
  <1>7. NoTraceYet(r)'
    BY <1>3, <1>4 DEF NoTraceYet, Live, Awaits
  <1>8. RowTells(r)'
    BY <1>1, <1>2, <1>3, <1>4, <1>5
       DEF Consistent, RowTells, ResultTells, IsOpen, Recorded, OpenStatus, NoRow, Finals, Live, Awaits
  <1>9. ResultTells(r)'
    BY <1>1, <1>2, <1>3, <1>4, <1>5, <1>6
       DEF Consistent, RowTells, ResultTells, IsOpen, Recorded, Finals, Live, Awaits
  <1>10. QED
    BY <1>1, <1>2, <1>3, <1>4, <1>5, <1>6, <1>7, <1>8, <1>9, OwnStep
       DEF Consistent, RowTells, ResultTells, IsOpen, OpenStatus, NoRow, Working, Live, Awaits, Finals

LEMMA HandleTermStep ==
  ASSUME IInv, NEW r \in Runs, HandleTerm(r)
  PROVE  IInv'
  <1>1. TypeOK /\ Consistent(r)
    BY DEF IInv, Consistent
  <1>2. run[r] \in RunRecord /\ row[r] \in RowRecord /\ arch[r] \in {"none"} \cup Finals /\ proc[r] \in Done
    BY <1>1 DEF TypeOK, Done
  <1>3. \/ proc[r] = "boot" /\ Own(r, "dead", Dead(run[r], "130"), row[r], arch[r]) /\ Aside(r) /\ log' = log
        \/ proc[r] \in Awaits /\ Own(r, "exiting", [run[r] EXCEPT !.code = "130"], row[r], arch[r]) /\ Aside(r)
              /\ log' = log
    <2>1. CASE proc[r] = "boot" /\ Die(r, "130")
      BY <1>1, <2>1, KeptAll DEF HandleTerm, Die, At, Own, Aside, Dead, TypeOK, Working, Live, CtlRecord
    <2>2. CASE (\E pc \in Awaits : At(r, pc, "exiting")) /\ run' = [run EXCEPT ![r].code = "130"]
                  /\ pending' = [pending EXCEPT !.term = @ \ {r}]
      BY <1>1, <2>2, KeptAll DEF HandleTerm, Die, At, Own, Aside, Dead, TypeOK, Working, Live, CtlRecord
    <2>3. QED
      BY <2>1, <2>2 DEF HandleTerm
  <1>4. CASE proc[r] = "boot" /\ Own(r, "dead", Dead(run[r], "130"), row[r], arch[r]) /\ Aside(r) /\ log' = log
    <2>1. proc'[r] = "dead" /\ run'[r] = Dead(run[r], "130") /\ row'[r] = row[r] /\ arch'[r] = arch[r]
      BY <1>1, <1>4 DEF Own, TypeOK
    <2>2. run'[r] = Dead(run[r], "130")
      BY <2>1
    <2>3. run[r] \in RunRecord
      BY <1>2
    <2>4. run'[r] \in RunRecord /\ run'[r].stage = 0 /\ run'[r].requested = FALSE /\ run'[r].result = "none"
      BY <2>2, <2>3, DeadRun
    <2>5. run'[r].recorded = run[r].recorded
      BY <2>2, <2>3, DeadRun
    <2>6. run'[r].finished = FALSE
      BY <2>2, <2>3, DeadRun
    <2>7. run'[r].lost = run[r].lost
      BY <2>2, <2>3, DeadRun
    <2>8. Writes(r)
      BY <1>1, <1>4, NothingWritten DEF Consistent
    <2>9. NoTraceYet(r)'
      BY <1>4, <2>1 DEF NoTraceYet, Live, Awaits
    <2>10. RowTells(r)'
      BY <1>1, <1>2, <1>4, <2>1, <2>4, <2>5, <2>6, <2>7
         DEF Consistent, RowTells, ResultTells, IsOpen, Recorded, OpenStatus, NoRow, Finals, Live, Awaits
    <2>11. ResultTells(r)'
      BY <1>1, <1>2, <1>4, <2>1, <2>4, <2>5, <2>6, <2>7, <2>8
         DEF Consistent, RowTells, ResultTells, IsOpen, Recorded, Finals, Live, Awaits
    <2>12. QED
      BY <1>1, <1>2, <1>4, <2>1, <2>4, <2>5, <2>6, <2>7, <2>8, <2>9, <2>10, <2>11, OwnStep
         DEF Consistent, RowTells, ResultTells, IsOpen, OpenStatus, NoRow, Working, Live, Awaits, Finals
  <1>5. CASE proc[r] \in Awaits /\ Own(r, "exiting", [run[r] EXCEPT !.code = "130"], row[r], arch[r]) /\ Aside(r)
                /\ log' = log
    <2>1. proc'[r] = "exiting" /\ run'[r] = [run[r] EXCEPT !.code = "130"] /\ row'[r] = row[r] /\ arch'[r] = arch[r]
      BY <1>1, <1>5 DEF Own, TypeOK
    <2>2. /\ run'[r] \in RunRecord /\ run'[r].stage = run[r].stage /\ run'[r].requested = run[r].requested
                /\ run'[r].result = run[r].result
          /\ run'[r].recorded = run[r].recorded /\ run'[r].finished = run[r].finished /\ run'[r].lost = run[r].lost
      BY <1>2, <1>5, <2>1 DEF RunRecord, Finals
    <2>3. Writes(r)
      BY <1>1, <1>5, NothingWritten DEF Consistent
    <2>4. NoTraceYet(r)'
      BY <1>5, <2>1 DEF NoTraceYet, Live, Awaits
    <2>5. RowTells(r)'
      BY <1>1, <1>2, <1>5, <2>1, <2>2
         DEF Consistent, RowTells, ResultTells, IsOpen, Recorded, OpenStatus, NoRow, Finals, Live, Awaits
    <2>6. ResultTells(r)'
      BY <1>1, <1>2, <1>5, <2>1, <2>2, <2>3
         DEF Consistent, RowTells, ResultTells, IsOpen, Recorded, Finals, Live, Awaits
    <2>7. QED
      BY <1>1, <1>2, <1>5, <2>1, <2>2, <2>3, <2>4, <2>5, <2>6, OwnStep
         DEF Consistent, RowTells, ResultTells, IsOpen, OpenStatus, NoRow, Working, Live, Awaits, Finals
  <1>6. QED
    BY <1>3, <1>4, <1>5

\* Closing a row: the four fields it leaves.
Codes == {"", "OWNER_PROCESS_GONE", "INDEX_FAILED", "PROCESS_EXIT", "STAGE_FAILED", "CANCELLED",
          "API_DOCS_UNAVAILABLE"}

LEMMA RowClosed ==
  ASSUME NEW w \in RowRecord, NEW status \in Finals \cup {"INTERRUPTED"}, NEW code \in Codes, NEW archive \in BOOLEAN
  PROVE  /\ Finished(w, status, code, archive) \in RowRecord
         /\ Finished(w, status, code, archive).status = status
         /\ Finished(w, status, code, archive).code = code
         /\ Finished(w, status, code, archive).archive <=> w.archive \/ archive
         /\ Finished(w, status, code, archive).stage # "RUNNING"
         /\ Finished(w, status, code, archive) # NoRow
  <1> DEFINE s == IF w.stage = "RUNNING" THEN Orphan(status) ELSE w.stage
  <1> DEFINE a == w.archive \/ archive
  <1>1. Finished(w, status, code, archive) = [w EXCEPT !.status = status, !.code = code, !.archive = a, !.stage = s]
    BY DEF Finished
  <1>2. s \in {"none", "INTERRUPTED"} \cup Finals /\ status \in Status /\ a \in BOOLEAN
    BY DEF RowRecord, Orphan, Finals, Status
  <1> DEFINE f == Finished(w, status, code, archive)
  <1>3. f \in RowRecord /\ f.status = status /\ f.code = code /\ f.archive = a /\ f.stage = s
    <2> HIDE DEF s, a, f
    <2>1. f = [w EXCEPT !.status = status, !.code = code, !.archive = a, !.stage = s]
      BY <1>1 DEF f
    <2>2. QED
      BY <1>2, <2>1 DEF RowRecord, Codes
  <1>4. f # NoRow
    BY <1>3, NoRowFields DEF Finals
  <1>5. s # "RUNNING"
    BY <1>2 DEF Finals
  <1>6. QED
    BY <1>3, <1>4, <1>5

LEMMA RowStopped ==
  ASSUME NEW w \in RowRecord, NEW status \in Finals \cup {"INTERRUPTED"}, NEW code \in Codes
  PROVE  /\ Finished(w, status, code, FALSE) \in RowRecord
         /\ Finished(w, status, code, FALSE).status = status
         /\ Finished(w, status, code, FALSE).code = code
         /\ Finished(w, status, code, FALSE).archive <=> w.archive
         /\ Finished(w, status, code, FALSE).stage # "RUNNING"
         /\ Finished(w, status, code, FALSE) # NoRow
  <1> DEFINE no == FALSE
  <1>1. no \in BOOLEAN /\ ~no
    OBVIOUS
  <1>2. /\ Finished(w, status, code, no) \in RowRecord
        /\ Finished(w, status, code, no).status = status
        /\ Finished(w, status, code, no).code = code
        /\ Finished(w, status, code, no).archive <=> w.archive
        /\ Finished(w, status, code, no).stage # "RUNNING"
        /\ Finished(w, status, code, no) # NoRow
    <2> HIDE DEF no
    <2>1. QED
      BY <1>1, RowClosed
  <1>3. QED
    BY <1>2

LEMMA FinishStep ==
  ASSUME IInv, NEW r \in Runs, Finish(r)
  PROVE  IInv'
  <1>1. TypeOK /\ Consistent(r)
    BY DEF IInv, Consistent
  <1>2. run[r] \in RunRecord /\ row[r] \in RowRecord /\ arch[r] \in {"none"} \cup Finals
    BY <1>1 DEF TypeOK
  <1> DEFINE archived == ~(run[r].result = "FAILED" /\ run[r].stage = 0)
  <1>3. proc[r] = "emitted" /\ Aside(r) /\ log' = log
    BY <1>1 DEF Finish, At, Aside, TypeOK, Working, CtlRecord
  <1>4. Writes(r)
    BY <1>1, <1>3, NothingWritten DEF Consistent
  <1>5. PICK c \in {"ok", "130", "failed"} : run' = [run EXCEPT ![r] = [run[r] EXCEPT !.finished = TRUE, !.code = c]]
    BY DEF Finish
  <1> DEFINE v == [run[r] EXCEPT !.finished = TRUE, !.code = c]
  <1>6. /\ v \in RunRecord /\ v.stage = run[r].stage /\ v.result = run[r].result
        /\ v.recorded = run[r].recorded /\ v.finished = TRUE /\ v.lost = run[r].lost
    BY <1>2 DEF RunRecord
  <1>7. run[r].result \in Finals /\ (archived => arch[r] # "none")
    BY <1>1, <1>3 DEF Consistent, ResultTells
  <1>8. PICK w \in RowRecord :
           /\ row' = [row EXCEPT ![r] = w]
           /\ \/ w = row[r]
              \/ /\ run[r].recorded /\ w # NoRow
                 /\ w.status = run[r].result /\ w.stage # "RUNNING" /\ (w.archive <=> row[r].archive \/ archived)
                 /\ w.code = ResultCode(r) \/ (w.code = "INDEX_FAILED" /\ archived)
    <2>1. CASE row' = row
      BY <1>1, <1>2, <2>1, KeptAll
    <2>2. CASE row' # row
      <3>1. PICK code \in {ResultCode(r)} \cup (IF archived /\ r \in Faulty THEN {"INDEX_FAILED"} ELSE {}) :
               run[r].recorded /\ row' = [row EXCEPT ![r] = Finished(row[r], run[r].result, code, archived)]
        BY <2>2 DEF Finish
      <3>2. code \in Codes /\ archived \in BOOLEAN
        BY DEF Codes, ResultCode
      <3> DEFINE w == Finished(row[r], run[r].result, code, archived)
      <3>3. /\ w \in RowRecord /\ w # NoRow
            /\ w.status = run[r].result /\ w.stage # "RUNNING" /\ (w.archive <=> row[r].archive \/ archived)
            /\ w.code = code
        <4> HIDE DEF archived
        <4>1. QED
          BY <1>2, <1>7, <3>2, RowClosed
      <3> HIDE DEF w
      <3>4. row' = [row EXCEPT ![r] = w]
        BY <3>1 DEF w
      <3>5. code = ResultCode(r) \/ (code = "INDEX_FAILED" /\ archived)
        OBVIOUS
      <3>6. QED
        BY <3>1, <3>3, <3>4, <3>5
    <2>3. QED
      BY <2>1, <2>2
  <1>9. Own(r, "closing", v, w, arch[r])
    BY <1>1, <1>5, <1>8, KeptAll DEF Finish, At, Own
  <1>10. proc'[r] = "closing" /\ run'[r] = v /\ row'[r] = w /\ arch'[r] = arch[r]
    BY <1>1, <1>9 DEF Own, TypeOK
  <1> HIDE DEF v
  <1>11. NoTraceYet(r)'
    BY <1>10 DEF NoTraceYet
  <1>12. RowTells(r)'
    <2>1. CASE w = row[r]
      BY <1>1, <1>3, <1>6, <1>10, <2>1 DEF Consistent, RowTells, IsOpen, Recorded
    <2>2. CASE w # row[r]
      <3>1. /\ run[r].recorded /\ w # NoRow
            /\ w.status = run[r].result /\ w.stage # "RUNNING" /\ (w.archive <=> row[r].archive \/ archived)
            /\ w.code = ResultCode(r) \/ (w.code = "INDEX_FAILED" /\ archived)
        BY <1>8, <2>2
      <3>2. ~IsOpen(r)'
        BY <1>7, <1>10, <3>1 DEF IsOpen, Finals, OpenStatus
      <3>3. row[r].archive => arch[r] # "none"
        BY <1>1 DEF Consistent, RowTells
      <3>4. w.archive => arch[r] # "none"
        BY <1>7, <3>1, <3>3
      <3>5. w.code # "PROCESS_EXIT" /\ (w.code = "INDEX_FAILED" => w.archive)
        BY <3>1 DEF ResultCode
      <3>6. Recorded(r)'
        BY <1>10, <3>1 DEF Recorded, ResultCode
      <3>7. run'[r].recorded /\ run'[r].finished = TRUE
        BY <1>6, <1>10, <3>1
      <3>8. QED
        BY <1>7, <1>10, <3>1, <3>2, <3>4, <3>5, <3>6, <3>7 DEF RowTells
    <2>3. QED
      BY <2>1, <2>2
  <1>13. ResultTells(r)'
    <2>1. HasFinal(log[r]) => log[r][Len(log[r])].type = run[r].result
      BY <1>1, <1>3 DEF Consistent, ResultTells
    <2>2. HasFinal(log[r]) \/ v.lost
      BY <1>1, <1>3, <1>6 DEF Consistent, ResultTells
    <2>3. run'[r].recorded /\ Recorded(r)' /\ HasFinal(log[r]) => row'[r].status = log[r][Len(log[r])].type
      <3>1. CASE w = row[r]
        BY <1>1, <1>6, <1>10, <3>1 DEF Consistent, ResultTells, Recorded
      <3>2. CASE w # row[r]
        BY <1>8, <1>10, <2>1, <3>2
      <3>3. QED
        BY <3>1, <3>2
    <2>4. QED
      BY <1>3, <1>10, <2>2, <2>3 DEF ResultTells
  <1>14. w.status \in OpenStatus => IsOpen(r)
    BY <1>7, <1>8 DEF IsOpen, OpenStatus, Finals
  <1>15. row[r] # NoRow => w # NoRow
    BY <1>8
  <1>16. run[r].lost => v.lost
    BY <1>6
  <1>17. v \in RunRecord
    BY <1>6
  <1>18. QED
    BY <1>2, <1>3, <1>4, <1>8, <1>9, <1>11, <1>12, <1>13, <1>14, <1>15, <1>16, <1>17, OwnStep
       DEF IInv, Working, Live

LEMMA CloseOnExitStep ==
  ASSUME IInv, NEW r \in Runs, CloseOnExit(r)
  PROVE  IInv'
  <1>1. TypeOK /\ Consistent(r)
    BY DEF IInv, Consistent
  <1>2. run[r] \in RunRecord /\ row[r] \in RowRecord /\ arch[r] \in {"none"} \cup Finals /\ proc[r] \in Done
    BY <1>1 DEF TypeOK, Done
  <1>3. proc[r] = "released" /\ Own(r, "dead", Dead(run[r], run[r].code), row[r], arch[r]) /\ Aside(r) /\ log' = log
    BY <1>1, KeptAll DEF CloseOnExit, Die, Own, Aside, Dead, TypeOK, Working, Live, CtlRecord
  <1> DEFINE v == Dead(run[r], run[r].code)
  <1>4. run[r].code \in {"none", "ok", "failed", "130"}
    BY <1>2 DEF RunRecord
  <1>5. v \in RunRecord
    BY <1>2, <1>4, DeadRun
  <1>6. v.recorded = run[r].recorded
    BY <1>2, <1>4, DeadRun
  <1>7. v.finished = FALSE
    BY <1>2, <1>4, DeadRun
  <1>8. v.lost = run[r].lost
    BY <1>2, <1>4, DeadRun
  <1>9. Own(r, "dead", v, row[r], arch[r])
    BY <1>3
  <1>10. proc'[r] = "dead" /\ run'[r] = v /\ row'[r] = row[r] /\ arch'[r] = arch[r]
    BY <1>1, <1>9 DEF Own, TypeOK
  <1> HIDE DEF v
  <1>11. Writes(r)
    BY <1>1, <1>3, NothingWritten DEF Consistent
  <1>12. NoTraceYet(r)'
    BY <1>10 DEF NoTraceYet
  <1>13. RowTells(r)'
    BY <1>1, <1>6, <1>10 DEF Consistent, RowTells, IsOpen, Recorded, Live
  <1>14. ResultTells(r)'
    BY <1>1, <1>3, <1>6, <1>7, <1>10 DEF Consistent, ResultTells, Recorded
  <1>15. QED
    BY <1>2, <1>3, <1>5, <1>8, <1>9, <1>11, <1>12, <1>13, <1>14, OwnStep DEF IInv, IsOpen, Working, Live

-----------------------------------------------------------------------------
(* The history settles what others left open. *)

\* A row closed from outside: nothing but its status, its code and its stage is touched.
Stopped(q, w) ==
  /\ w \in RowRecord /\ w # NoRow /\ w.status \in {"CANCELLED", "INTERRUPTED", "FAILED"} /\ w.stage # "RUNNING"
  /\ w.code \in {"CANCELLED", "OWNER_PROCESS_GONE", "PROCESS_EXIT"}
  /\ w.status = "FAILED" => w.code = "PROCESS_EXIT"
  /\ w.archive <=> row[q].archive

LEMMA StoppedRow ==
  ASSUME NEW q \in Runs, row[q] \in RowRecord, NEW status \in {"CANCELLED", "INTERRUPTED", "FAILED"},
         NEW code \in {"CANCELLED", "OWNER_PROCESS_GONE", "PROCESS_EXIT"}, status = "FAILED" => code = "PROCESS_EXIT"
  PROVE  /\ Stopped(q, Finished(row[q], status, code, FALSE))
         /\ Finished(row[q], status, code, FALSE).status = status
         /\ Finished(row[q], status, code, FALSE).code = code
  <1> DEFINE w == Finished(row[q], status, code, FALSE)
  <1>1. status \in Finals \cup {"INTERRUPTED"}
    BY DEF Finals
  <1>2. code \in Codes
    BY DEF Codes
  <1>3. w \in RowRecord /\ w # NoRow
    BY <1>1, <1>2, RowStopped
  <1>4. w.status = status
    BY <1>1, <1>2, RowStopped
  <1>5. w.code = code
    BY <1>1, <1>2, RowStopped
  <1>6. w.stage # "RUNNING"
    BY <1>1, <1>2, RowStopped
  <1>7. w.archive <=> row[q].archive
    BY <1>1, <1>2, RowStopped
  <1> HIDE DEF w
  <1>8. QED
    BY <1>3, <1>4, <1>5, <1>6, <1>7 DEF Stopped, w

LEMMA ReconciledRow ==
  ASSUME IInv, NEW owner \in Runs \cup {NoRun}, NEW q \in Runs
  PROVE  /\ Reconciled(owner) \in [Runs -> RowRecord]
         /\ \/ Reconciled(owner)[q] = row[q]
            \/ IsOpen(q) /\ ~OwnerAlive(q, owner) /\ Stopped(q, Reconciled(owner)[q])
         /\ IsOpen(q) /\ ~OwnerAlive(q, owner) => Stopped(q, Reconciled(owner)[q])
  <1>1. row \in [Runs -> RowRecord]
    BY DEF IInv, TypeOK
  <1> DEFINE F(x) == Finished(row[x], "INTERRUPTED", "OWNER_PROCESS_GONE", FALSE)
  <1>2. ASSUME NEW x \in Runs PROVE Stopped(x, F(x)) /\ F(x) \in RowRecord
    <2>1. row[x] \in RowRecord
      BY <1>1
    <2>2. Stopped(x, F(x))
      BY <2>1, StoppedRow
    <2>3. QED
      BY <2>2 DEF Stopped
  <1> HIDE DEF F
  <1>3. Reconciled(owner) = [x \in Runs |-> IF IsOpen(x) /\ ~OwnerAlive(x, owner) THEN F(x) ELSE row[x]]
    BY DEF Reconciled, F
  <1>4. QED
    BY <1>1, <1>2, <1>3

\* Who is alive and not its owner any more can only be a process that has just released the lock.
LEMMA StoppedKeeps ==
  ASSUME IInv, NEW q \in Runs, IsOpen(q), proc[q] \notin Working, Stopped(q, row'[q]),
         proc'[q] = proc[q], run'[q] = run[q], arch'[q] = arch[q], log'[q] = log[q]
  PROVE  Consistent(q)'
  <1>1. Consistent(q)
    BY DEF IInv, Consistent
  <1>2. run[q].recorded /\ ~Recorded(q)
    BY <1>1 DEF Consistent, RowTells
  <1>3. ~IsOpen(q)' /\ ~Recorded(q)'
    BY <1>2 DEF Stopped, IsOpen, Recorded, OpenStatus
  <1>4. NoTraceYet(q)'
    <2>1. row[q] # NoRow
      BY NoRowFields DEF IsOpen, OpenStatus
    <2>2. QED
      BY <1>1, <2>1 DEF Consistent, NoTraceYet
  <1>5. RowTells(q)'
    <2>1. ~row'[q].archive
      BY <1>2 DEF Stopped, Recorded
    <2>2. /\ row'[q] # NoRow /\ row'[q].code # "INDEX_FAILED" /\ row'[q].stage # "RUNNING"
          /\ row'[q].status \in {"CANCELLED", "INTERRUPTED"} \/ row'[q].code = "PROCESS_EXIT"
      BY DEF Stopped
    <2>3. run'[q].recorded
      BY <1>2
    <2>4. proc'[q] \in Live => proc'[q] \in {"boot", "released"}
      BY DEF Working
    <2>5. proc'[q] # "boot"
      <3>1. row[q] # NoRow
        BY NoRowFields DEF IsOpen, OpenStatus
      <3>2. QED
        BY <1>1, <3>1 DEF Consistent, NoTraceYet
    <2>6. QED
      BY <1>3, <2>1, <2>2, <2>3, <2>4, <2>5 DEF RowTells
  <1>6. ResultTells(q)'
    BY <1>1, <1>3 DEF Consistent, ResultTells
  <1>7. LogCounts(q)'
    BY <1>1 DEF Consistent, LogCounts
  <1>8. QED
    BY <1>4, <1>5, <1>6, <1>7 DEF Consistent

\* What the reconciliation may not touch: a row that was cancelled, or states a result.
LEMMA AskedRowClosed ==
  ASSUME IInv, NEW q \in ctl.cancel, ctl.active # q
  PROVE  q \in Runs /\ ~IsOpen(q)
  <1>1. q \in Runs
    BY DEF IInv, TypeOK, CtlRecord
  <1>2. IsOpen(q) => row[q] # NoRow /\ row[q].status # "CANCELLED" /\ ~Recorded(q)
    BY <1>1, NoRowFields DEF IInv, RowTells, IsOpen, OpenStatus
  <1>3. QED
    BY <1>1, <1>2 DEF IInv, CancelKept

LEMMA ListRunsStep ==
  ASSUME IInv, ListRuns
  PROVE  IInv'
  <1>1. TypeOK
    BY DEF IInv
  <1>2. row' = Reconciled(lock) /\ lock \in Runs \cup {NoRun}
    BY <1>1 DEF ListRuns, TypeOK
  <1>3. UNCHANGED <<proc, run, agent, arch, lock, log, ctl, pending, stream>>
    BY DEF ListRuns
  <1>4. TypeOK'
    <2>1. CASE Runs = {}
      BY <1>1, <1>2, <1>3, <2>1 DEF TypeOK, Reconciled
    <2>2. CASE Runs # {}
      BY <1>1, <1>2, <1>3, <2>2, ReconciledRow DEF TypeOK
    <2>3. QED
      BY <2>1, <2>2
  <1>5. ASSUME NEW q \in Runs
        PROVE  row'[q] = row[q] \/ (IsOpen(q) /\ ~OwnerAlive(q, lock) /\ Stopped(q, row'[q]))
    BY <1>2, ReconciledRow
  <1>6. ASSUME NEW q \in Runs PROVE Consistent(q)'
    <2>1. CASE row'[q] = row[q]
      BY <1>3, <2>1, SameRun DEF IInv, Consistent
    <2>2. CASE row'[q] # row[q]
      <3>1. IsOpen(q) /\ ~OwnerAlive(q, lock) /\ Stopped(q, row'[q])
        BY <1>5, <2>2
      <3>2. proc[q] \notin Working
        BY <3>1 DEF IInv, LockHeld, OwnerAlive, Working
      <3>3. QED
        BY <1>3, <3>1, <3>2, StoppedKeeps
    <2>3. QED
      BY <2>1, <2>2
  <1>7. ASSUME NEW q \in Runs PROVE (IsOpen(q)' => IsOpen(q)) /\ (row[q] # NoRow => row'[q] # NoRow)
    BY <1>5 DEF IsOpen, Stopped
  <1>8. OneOpen'
    BY <1>7 DEF IInv, OneOpen
  <1>9. CancelKept'
    <2>1. SUFFICES ASSUME NEW q \in ctl.cancel, ctl.active # q, row'[q] # NoRow
                   PROVE  row'[q].status = "CANCELLED" \/ Recorded(q)'
      BY <1>3 DEF CancelKept
    <2>2. q \in Runs /\ row'[q] = row[q]
      BY <1>5, <2>1, AskedRowClosed
    <2>3. QED
      BY <2>1, <2>2 DEF IInv, CancelKept, Recorded
  <1>10. StreamFollows'
    <2>1. stream.run \in Runs \cup {NoRun}
      BY <1>1 DEF TypeOK, StreamRecord
    <2>2. QED
      BY <1>3, <1>7, <2>1 DEF IInv, StreamFollows, HasFinal
  <1>11. QED
    BY <1>3, <1>4, <1>6, <1>8, <1>9, <1>10 DEF IInv, Consistent, LockHeld, ChildrenSettled, HasFinal

LEMMA ImportArchiveStep ==
  ASSUME IInv, NEW r \in Runs, ImportArchive(r)
  PROVE  IInv'
  <1>1. TypeOK /\ Consistent(r)
    BY DEF IInv, Consistent
  <1>2. row \in [Runs -> RowRecord] /\ row[r] \in RowRecord /\ arch[r] \in Finals
    BY <1>1 DEF TypeOK, ImportArchive
  <1>3. UNCHANGED <<proc, run, agent, arch, lock, log, ctl, pending, stream>>
    BY DEF ImportArchive
  <1>4. PICK w \in RowRecord :
           /\ row' = [row EXCEPT ![r] = w]
           /\ w # NoRow /\ w.archive /\ w.stage # "RUNNING" /\ w.code = ""
           /\ w.status \in Finals \cup {"INTERRUPTED"}
           /\ run[r].recorded => Recorded(r) /\ w.status = row[r].status
    <2>1. CASE row[r] = NoRow
      <3>1. ~run[r].recorded
        BY <1>1, <2>1 DEF Consistent, RowTells
      <3>2. row[r].code # "INDEX_FAILED"
        BY <2>1, NoRowFields
      <3>3. PICK stage \in {"COMPLETED", "FAILED", "INTERRUPTED"} :
               row' = [row EXCEPT ![r] = [status |-> ImportedStatus(arch[r]), code |-> "", archive |-> TRUE, stage |-> stage]]
        BY <3>2 DEF ImportArchive, ImportedStage
      <3> DEFINE w == [status |-> ImportedStatus(arch[r]), code |-> "", archive |-> TRUE, stage |-> stage]
      <3>4. ImportedStatus(arch[r]) \in {"COMPLETED", "FAILED", "INTERRUPTED"}
        BY DEF ImportedStatus
      <3>5. w \in RowRecord /\ w.archive /\ w.stage # "RUNNING" /\ w.code = ""
               /\ w.status \in Finals \cup {"INTERRUPTED"}
        BY <3>4 DEF RowRecord, Status, Finals
      <3>6. w # NoRow
        BY <3>5, NoRowFields
      <3>7. QED
        BY <3>1, <3>3, <3>5, <3>6
    <2>2. CASE row[r] # NoRow
      <3>1. row[r].code = "INDEX_FAILED" /\ row' = [row EXCEPT ![r] = Finished(row[r], row[r].status, "", TRUE)]
        BY <2>2 DEF ImportArchive
      <3>2. run[r].recorded /\ row[r].archive /\ Recorded(r) /\ row[r].status \in Finals
        BY <1>1, <3>1 DEF Consistent, RowTells, Recorded
      <3> DEFINE yes == TRUE
      <3> DEFINE status == row[r].status
      <3>3. status \in Finals \cup {"INTERRUPTED"}
        BY <3>2
      <3>4. yes \in BOOLEAN
        OBVIOUS
      <3>5. row[r] \in RowRecord
        BY <1>2
      <3> DEFINE code == ""
      <3>6. code \in Codes
        BY DEF Codes
      <3> DEFINE w == Finished(row[r], status, code, yes)
      <3>7. row' = [row EXCEPT ![r] = w]
        BY <3>1
      <3> HIDE DEF yes, status, code
      <3>8. w \in RowRecord /\ w # NoRow
        BY <3>3, <3>4, <3>5, <3>6, RowClosed
      <3>9. w.status = status
        BY <3>3, <3>4, <3>5, <3>6, RowClosed
      <3>10. w.code = code
        BY <3>3, <3>4, <3>5, <3>6, RowClosed
      <3>11. w.stage # "RUNNING"
        BY <3>3, <3>4, <3>5, <3>6, RowClosed
      <3>12. w.archive <=> row[r].archive \/ yes
        BY <3>3, <3>4, <3>5, <3>6, RowClosed
      <3> HIDE DEF w
      <3>13. QED
        BY <3>2, <3>3, <3>7, <3>8, <3>9, <3>10, <3>11, <3>12 DEF status, code
    <2>3. QED
      BY <2>1, <2>2
  <1>5. row' \in [Runs -> RowRecord] /\ row'[r] = w /\ \A q \in Runs \ {r} : row'[q] = row[q]
    BY <1>2, <1>4, Update
  <1>6. TypeOK'
    BY <1>1, <1>3, <1>5 DEF TypeOK
  <1>7. ~IsOpen(r)' /\ Recorded(r)'
    BY <1>4, <1>5 DEF IsOpen, Recorded, OpenStatus, Finals
  <1>8. Consistent(r)'
    <2>1. NoTraceYet(r)'
      BY <1>1, <1>2, <1>3 DEF Consistent, NoTraceYet, Finals
    <2>2. run[r].recorded => w.status \in Finals
      BY <1>1, <1>4 DEF Consistent, RowTells
    <2>3. run[r].recorded /\ ~run[r].finished => proc[r] \notin Live
      BY <1>1, <1>4 DEF Consistent, RowTells
    <2>4. RowTells(r)'
      BY <1>2, <1>3, <1>4, <1>5, <1>7, <2>2, <2>3 DEF RowTells, Finals
    <2>5. ResultTells(r)'
      BY <1>1, <1>3, <1>4, <1>5 DEF Consistent, ResultTells, HasFinal
    <2>6. QED
      BY <1>1, <1>3, <2>1, <2>4, <2>5 DEF Consistent, LogCounts
  <1>9. ASSUME NEW q \in Runs PROVE Consistent(q)'
    BY <1>3, <1>5, <1>8, SameRun DEF IInv, Consistent
  <1>10. ASSUME NEW q \in Runs PROVE (IsOpen(q)' => IsOpen(q)) /\ (row[q] # NoRow => row'[q] # NoRow)
    BY <1>4, <1>5, <1>7 DEF IsOpen
  <1>11. OneOpen'
    BY <1>10 DEF IInv, OneOpen
  <1>12. CancelKept'
    <2>1. SUFFICES ASSUME NEW q \in ctl.cancel, ctl.active # q, row'[q] # NoRow
                   PROVE  row'[q].status = "CANCELLED" \/ Recorded(q)'
      BY <1>3 DEF CancelKept
    <2>2. q \in Runs
      BY <1>1 DEF TypeOK, CtlRecord
    <2>3. CASE q = r
      BY <1>7, <2>3
    <2>4. CASE q # r
      BY <1>5, <2>1, <2>2, <2>4 DEF IInv, CancelKept, Recorded
    <2>5. QED
      BY <2>3, <2>4
  <1>13. StreamFollows'
    <2>1. stream.run \in Runs \cup {NoRun}
      BY <1>1 DEF TypeOK, StreamRecord
    <2>2. QED
      BY <1>3, <1>10, <2>1 DEF IInv, StreamFollows, HasFinal
  <1>14. QED
    BY <1>3, <1>6, <1>9, <1>11, <1>12, <1>13 DEF IInv, Consistent, LockHeld, ChildrenSettled, HasFinal

-----------------------------------------------------------------------------
(* A runner that gets the lock, or does not. *)

LEMMA BootStep ==
  ASSUME IInv, NEW r \in Runs, Boot(r), LockFree
  PROVE  IInv'
  <1>1. TypeOK /\ Consistent(r)
    BY DEF IInv, Consistent
  <1>2. /\ proc[r] = "boot" /\ proc' = [proc EXCEPT ![r] = "preflight"] /\ lock' = r
        /\ UNCHANGED <<agent, arch, ctl, stream, pending>>
    BY DEF Boot, At
  <1>3. run[r] = NewRun /\ row[r] = NoRow /\ arch[r] = "none" /\ log[r] = <<>>
    BY <1>1, <1>2 DEF Consistent, NoTraceYet
  <1>4. \A q \in Runs : proc[q] \notin Working
    BY RunsAssumption DEF IInv, LockHeld, LockFree, Working
  <1>5. PICK recorded \in BOOLEAN :
           /\ run' = [run EXCEPT ![r] = [run[r] EXCEPT !.recorded = recorded]]
           /\ row' = IF recorded THEN [Reconciled(r) EXCEPT ![r] = [NoRow EXCEPT !.status = "STARTING"]] ELSE row
    BY DEF Boot
  <1> DEFINE v == [run[r] EXCEPT !.recorded = recorded]
  <1>6. run[r] \in RunRecord
    BY <1>1 DEF TypeOK
  <1>7. v \in RunRecord /\ v.stage = run[r].stage /\ v.result = run[r].result
        /\ v.finished = run[r].finished /\ v.lost = run[r].lost
    BY <1>6 DEF RunRecord
  <1>8. v.recorded = recorded
    BY <1>6 DEF RunRecord
  <1>9. NewRun.stage = 0 /\ ~NewRun.finished /\ ~NewRun.lost
    BY DEF NewRun
  <1>10. proc' \in [Runs -> Done] /\ proc'[r] = "preflight" /\ \A q \in Runs \ {r} : proc'[q] = proc[q]
    BY <1>1, <1>2, Update DEF TypeOK, Done, Live
  <1>11. run' \in [Runs -> RunRecord] /\ run'[r] = v /\ \A q \in Runs \ {r} : run'[q] = run[q]
    BY <1>1, <1>5, <1>7, Update DEF TypeOK
  <1> HIDE DEF v
  <1>12. Reconciled(r) \in [Runs -> RowRecord] /\ row \in [Runs -> RowRecord]
    BY <1>1, ReconciledRow DEF TypeOK
  <1> DEFINE w == [NoRow EXCEPT !.status = "STARTING"]
  <1>13. /\ w \in RowRecord /\ w.status = "STARTING" /\ w.code = "" /\ w.stage = "none" /\ ~w.archive
    BY DEF NoRow, RowRecord, Status, OpenStatus
  <1>14. w # NoRow
    BY <1>13, NoRowFields
  <1>15. row' \in [Runs -> RowRecord]
    BY <1>5, <1>12, <1>13
  <1>16. row'[r] = IF recorded THEN w ELSE NoRow
    BY <1>3, <1>5, <1>12
  <1> HIDE DEF w
  <1>17. ASSUME NEW q \in Runs \ {r}
         PROVE  \/ row'[q] = row[q] /\ (recorded => ~IsOpen(q))
                \/ IsOpen(q) /\ Stopped(q, row'[q])
    <2>1. CASE ~recorded
      BY <1>5, <2>1
    <2>2. CASE recorded
      <3>1. row'[q] = Reconciled(r)[q]
        BY <1>5, <1>12, <2>2
      <3>2. ~OwnerAlive(q, r)
        BY DEF OwnerAlive
      <3>3. QED
        BY <3>1, <3>2, ReconciledRow
    <2>3. QED
      BY <2>1, <2>2
  <1>18. log' \in [Runs -> Seq(Event)] /\ LogCounts(r)' /\ (\A q \in Runs \ {r} : log'[q] = log[q])
         /\ Len(log[r]) <= Len(log'[r]) /\ ~HasFinal(log'[r])
         /\ \A i \in DOMAIN log'[r] : log'[r][i].type \in Finals => Len(log[r]) < i
    <2>1. ~HasFinal(log[r])
      BY <1>3 DEF HasFinal
    <2>2. CASE log' = log
      <3>1. Len(log[r]) = 0 /\ DOMAIN log[r] = {}
        BY <1>3
      <3>2. QED
        BY <1>1, <2>1, <2>2, <3>1 DEF TypeOK, Consistent, LogCounts
    <2>3. CASE Emit(r, "OUTLINE")
      BY <1>1, <2>1, <2>3, EmitKeeps DEF Consistent, Finals
    <2>4. QED
      BY <2>2, <2>3 DEF Boot
  <1>19. TypeOK'
    BY <1>1, <1>2, <1>10, <1>11, <1>15, <1>18 DEF TypeOK, Done
  <1>20. Consistent(r)'
    <2>1. NoTraceYet(r)'
      BY <1>10 DEF NoTraceYet
    <2>2. RowTells(r)'
      <3>1. CASE recorded
        <4>1. row'[r].status = "STARTING" /\ row'[r].code = "" /\ row'[r].stage = "none" /\ ~row'[r].archive
          BY <1>13, <1>16, <3>1
        <4>2. row'[r] # NoRow /\ run'[r].recorded
          BY <1>8, <1>11, <1>14, <1>16, <3>1
        <4>3. IsOpen(r)' /\ ~Recorded(r)'
          BY <4>1 DEF IsOpen, Recorded, OpenStatus
        <4>4. QED
          BY <1>10, <4>1, <4>2, <4>3 DEF RowTells
      <3>2. CASE ~recorded
        <4>1. row'[r] = NoRow /\ ~run'[r].recorded
          BY <1>8, <1>11, <1>16, <3>2
        <4>2. ~IsOpen(r)' /\ ~Recorded(r)'
          BY <4>1, NoRowFields DEF IsOpen, Recorded, OpenStatus
        <4>3. row'[r].stage # "RUNNING" /\ row'[r].code # "INDEX_FAILED" /\ ~row'[r].archive
          BY <4>1, NoRowFields
        <4>4. QED
          BY <4>1, <4>2, <4>3 DEF RowTells
      <3>3. QED
        BY <3>1, <3>2
    <2>3. ResultTells(r)'
      BY <1>2, <1>3, <1>7, <1>9, <1>10, <1>11, <1>18 DEF ResultTells
    <2>4. QED
      BY <1>18, <2>1, <2>2, <2>3 DEF Consistent
  <1>21. ASSUME NEW q \in Runs PROVE Consistent(q)'
    <2>1. CASE q = r
      BY <1>20, <2>1
    <2>2. CASE q # r
      <3>1. proc'[q] = proc[q] /\ run'[q] = run[q] /\ arch'[q] = arch[q] /\ log'[q] = log[q]
        BY <1>2, <1>10, <1>11, <1>18, <2>2
      <3>2. CASE row'[q] = row[q]
        BY <3>1, <3>2, SameRun DEF IInv, Consistent
      <3>3. CASE row'[q] # row[q]
        BY <1>4, <1>17, <2>2, <3>1, <3>3, StoppedKeeps
      <3>4. QED
        BY <3>2, <3>3
    <2>3. QED
      BY <2>1, <2>2
  <1>22. LockHeld'
    BY <1>2, <1>4, <1>10 DEF LockHeld, Working
  <1>23. ASSUME NEW q \in Runs \ {r} PROVE (IsOpen(q)' => IsOpen(q) /\ ~recorded)
                   /\ (row[q] # NoRow => row'[q] # NoRow)
    BY <1>17 DEF IsOpen, Stopped, OpenStatus
  <1>24. OneOpen'
    <2>1. IsOpen(r)' => recorded
      BY <1>16, NoRowFields DEF IsOpen, OpenStatus
    <2>2. QED
      BY <1>23, <2>1 DEF IInv, OneOpen
  <1>25. r \in ctl.known => ctl.active = r
    BY <1>2 DEF IInv, ChildrenSettled
  <1>26. ChildrenSettled'
    <2>1. ctl.known \subseteq Runs
      BY <1>1 DEF TypeOK, CtlRecord
    <2>2. QED
      BY <1>2, <1>10, <1>18, <1>25, <2>1 DEF IInv, ChildrenSettled, HasFinal
  <1>27. CancelKept'
    <2>1. SUFFICES ASSUME NEW q \in ctl.cancel, ctl.active # q, row'[q] # NoRow
                   PROVE  row'[q].status = "CANCELLED" \/ Recorded(q)'
      BY <1>2 DEF CancelKept
    <2>2. q \in Runs /\ ~IsOpen(q) /\ q # r
      BY <1>25, <2>1, AskedRowClosed DEF IInv, ChildrenSettled
    <2>3. row'[q] = row[q]
      BY <1>17, <2>2
    <2>4. QED
      BY <2>1, <2>3 DEF IInv, CancelKept, Recorded
  <1>28. StreamFollows'
    <2>1. stream.run = NoRun \/ stream.run \in Runs
      BY <1>1 DEF TypeOK, StreamRecord
    <2>2. CASE stream.run = NoRun
      BY <1>2, <2>2 DEF IInv, StreamFollows
    <2>3. CASE stream.run \in Runs \ {r}
      BY <1>2, <1>10, <1>11, <1>18, <1>23, <2>3 DEF IInv, StreamFollows, HasFinal
    <2>4. CASE stream.run = r
      <3>1. stream.last \in Nat /\ stream.last <= Len(log[r]) /\ Len(log[r]) = 0 /\ Len(log'[r]) \in Nat
            /\ DOMAIN log'[r] \subseteq Nat
        <4>1. log'[r] \in Seq(Event)
          BY <1>18
        <4>2. stream.last \in Nat /\ stream.last <= Len(log[r])
          BY <1>1, <2>4, RunsAssumption DEF IInv, StreamFollows, TypeOK, StreamRecord
        <4>3. Len(log[r]) = 0
          BY <1>3
        <4>4. QED
          BY <4>1, <4>2, <4>3
      <3>2. stream.last <= Len(log'[r]) /\ \A i \in DOMAIN log'[r] : log'[r][i].type \in Finals => stream.last < i
        BY <1>18, <3>1
      <3>3. stream.state # "quiet"
        BY <1>2, <1>3, <1>9, <2>4, RunsAssumption DEF IInv, StreamFollows
      <3>4. stream.state = "on" => r \in ctl.known
        BY <1>3, <2>4, RunsAssumption DEF IInv, StreamFollows
      <3>5. QED
        BY <1>2, <2>4, <3>2, <3>3, <3>4, RunsAssumption DEF StreamFollows
    <2>5. QED
      BY <2>1, <2>2, <2>3, <2>4
  <1>29. QED
    BY <1>19, <1>21, <1>22, <1>24, <1>26, <1>27, <1>28 DEF IInv, Consistent

LEMMA BootRefusedStep ==
  ASSUME IInv, NEW r \in Runs, Boot(r), ~LockFree
  PROVE  IInv'
  <1>1. TypeOK /\ Consistent(r)
    BY DEF IInv, Consistent
  <1>2. run[r] \in RunRecord /\ row[r] \in RowRecord /\ arch[r] \in {"none"} \cup Finals
    BY <1>1 DEF TypeOK
  <1> DEFINE v == Dead(run[r], "failed")
  <1>3. proc[r] = "boot" /\ Own(r, "dead", v, row[r], arch[r]) /\ Aside(r) /\ log' = log
    BY <1>1, KeptAll DEF Boot, Die, Own, Aside, Dead, TypeOK, Working, Live, CtlRecord
  <1>4. proc'[r] = "dead" /\ run'[r] = v /\ row'[r] = row[r] /\ arch'[r] = arch[r]
    BY <1>1, <1>3 DEF Own, TypeOK
  <1>5. run[r] \in RunRecord
    BY <1>2
  <1>6. v \in RunRecord
    BY <1>5, DeadRun
  <1>7. v.recorded = run[r].recorded
    BY <1>5, DeadRun
  <1>8. v.finished = FALSE
    BY <1>5, DeadRun
  <1>9. v.lost = run[r].lost
    BY <1>5, DeadRun
  <1> HIDE DEF v
  <1>10. Writes(r)
    BY <1>1, <1>3, NothingWritten DEF Consistent
  <1>11. NoTraceYet(r)'
    BY <1>4 DEF NoTraceYet
  <1>12. RowTells(r)'
    BY <1>1, <1>4, <1>7 DEF Consistent, RowTells, IsOpen, Recorded, Live
  <1>13. ResultTells(r)'
    BY <1>1, <1>3, <1>4, <1>7, <1>8 DEF Consistent, ResultTells, Recorded, HasFinal
  <1>14. QED
    BY <1>2, <1>3, <1>6, <1>9, <1>10, <1>11, <1>12, <1>13, OwnStep DEF IsOpen, Working, Live

-----------------------------------------------------------------------------
(* The RunController's steps. *)

\* A step before the run's first, or of the controller alone.
LEMMA BeforeRun ==
  ASSUME IInv, NEW r \in Runs, NEW p \in {"boot", "unborn"}, proc[r] \in {"none", "boot", "unborn"},
         proc' = [proc EXCEPT ![r] = p], UNCHANGED <<run, agent, row, arch, lock, log, pending>>,
         ctl' \in CtlRecord, UNCHANGED stream
  PROVE  /\ TypeOK' /\ (\A q \in Runs : Consistent(q)') /\ LockHeld' /\ OneOpen'
         /\ proc'[r] = p /\ (\A q \in Runs \ {r} : proc'[q] = proc[q])
         /\ row[r] = NoRow /\ log[r] = <<>> /\ ~run[r].lost
  <1>1. TypeOK /\ Consistent(r)
    BY DEF IInv, Consistent
  <1>2. proc' \in [Runs -> Done] /\ proc'[r] = p /\ \A q \in Runs \ {r} : proc'[q] = proc[q]
    BY <1>1, Update DEF TypeOK, Done, Live
  <1>3. run[r] = NewRun /\ row[r] = NoRow /\ arch[r] = "none" /\ log[r] = <<>>
    BY <1>1 DEF Consistent, NoTraceYet
  <1>4. TypeOK'
    BY <1>1, <1>2 DEF TypeOK, Done
  <1>5. ~NewRun.recorded /\ ~NewRun.finished /\ ~NewRun.lost
    BY DEF NewRun
  <1>6. ~IsOpen(r) /\ ~HasFinal(log[r])
    BY <1>3, NoRowFields DEF IsOpen, OpenStatus, HasFinal
  <1>7. Consistent(r)'
    <2>1. NoTraceYet(r)'
      BY <1>3 DEF NoTraceYet
    <2>2. RowTells(r)'
      BY <1>1, <1>3, <1>5 DEF Consistent, RowTells, IsOpen, Recorded
    <2>3. ResultTells(r)'
      BY <1>2, <1>3, <1>5, <1>6 DEF ResultTells, HasFinal
    <2>4. QED
      BY <1>1, <2>1, <2>2, <2>3 DEF Consistent, LogCounts
  <1>8. ASSUME NEW q \in Runs PROVE Consistent(q)'
    BY <1>2, <1>7, SameRun DEF IInv, Consistent
  <1>9. LockHeld'
    BY <1>2 DEF IInv, LockHeld, Live
  <1>10. OneOpen'
    BY DEF IInv, OneOpen, IsOpen
  <1>11. QED
    BY <1>2, <1>3, <1>4, <1>5, <1>8, <1>9, <1>10

LEMMA StartFromTerminalStep ==
  ASSUME IInv, NEW r \in Runs, StartFromTerminal(r)
  PROVE  IInv'
  <1>1. TypeOK /\ ctl \in CtlRecord
    BY DEF IInv, TypeOK
  <1>2. /\ proc[r] = "none" /\ proc' = [proc EXCEPT ![r] = "boot"]
        /\ UNCHANGED <<run, agent, row, arch, lock, log, ctl, pending, stream>>
    BY DEF StartFromTerminal, At
  <1>3. /\ TypeOK' /\ (\A q \in Runs : Consistent(q)') /\ LockHeld' /\ OneOpen'
        /\ proc'[r] = "boot" /\ (\A q \in Runs \ {r} : proc'[q] = proc[q]) /\ ~run[r].lost
    BY <1>1, <1>2, BeforeRun
  <1>4. r \notin ctl.known /\ ctl.known \subseteq Runs
    BY <1>1, <1>2 DEF IInv, ChildrenSettled, CtlRecord
  <1>5. ChildrenSettled'
    BY <1>2, <1>3, <1>4 DEF IInv, ChildrenSettled, HasFinal
  <1>6. CancelKept'
    BY <1>2 DEF IInv, CancelKept, Recorded
  <1>7. StreamFollows'
    <2>1. stream.run \in Runs \cup {NoRun}
      BY <1>1 DEF TypeOK, StreamRecord
    <2>2. QED
      BY <1>2, <1>3, <2>1 DEF IInv, StreamFollows, HasFinal
  <1>8. QED
    BY <1>3, <1>5, <1>6, <1>7 DEF IInv, Consistent

LEMMA StartStep ==
  ASSUME IInv, NEW r \in Runs, Start(r)
  PROVE  IInv'
  <1>1. TypeOK /\ ctl \in CtlRecord
    BY DEF IInv, TypeOK
  <1>2. /\ proc[r] = "none" /\ proc' = [proc EXCEPT ![r] = "boot"] /\ ctl.active = NoRun
        /\ UNCHANGED <<run, agent, row, arch, lock, log, pending, stream>>
    BY DEF Start, At
  <1>3. ctl' \in CtlRecord /\ ctl'.active = r /\ ctl'.known = ctl.known \cup {r} /\ ctl'.cancel = ctl.cancel
    BY <1>1 DEF Start, CtlRecord
  <1>4. /\ TypeOK' /\ (\A q \in Runs : Consistent(q)') /\ LockHeld' /\ OneOpen'
        /\ proc'[r] = "boot" /\ (\A q \in Runs \ {r} : proc'[q] = proc[q]) /\ ~run[r].lost
    BY <1>2, <1>3, BeforeRun
  <1>5. r \notin ctl.known /\ ctl.known \subseteq Runs /\ ctl.cancel \subseteq ctl.known
    BY <1>1, <1>2 DEF IInv, ChildrenSettled, CtlRecord
  <1>6. ChildrenSettled'
    BY <1>2, <1>3, <1>4, <1>5, RunsAssumption DEF IInv, ChildrenSettled, HasFinal
  <1>7. CancelKept'
    BY <1>2, <1>3, <1>5, RunsAssumption DEF IInv, CancelKept, Recorded
  <1>8. StreamFollows'
    <2>1. stream.run = NoRun \/ stream.run \in Runs
      BY <1>1 DEF TypeOK, StreamRecord
    <2>2. CASE stream.run = NoRun
      BY <1>2, <2>2 DEF IInv, StreamFollows
    <2>3. CASE stream.run \in Runs
      <3>1. stream.state = "quiet" => run[stream.run].lost \/ stream.run # r
        BY <1>2, <2>3, RunsAssumption DEF IInv, StreamFollows
      <3>2. QED
        BY <1>2, <1>3, <1>4, <2>3, <3>1, RunsAssumption DEF IInv, StreamFollows, HasFinal
    <2>4. QED
      BY <2>1, <2>2, <2>3
  <1>9. QED
    BY <1>4, <1>6, <1>7, <1>8 DEF IInv, Consistent

LEMMA SpawnErrorStep ==
  ASSUME IInv, NEW r \in Runs, SpawnError(r)
  PROVE  IInv'
  <1>1. TypeOK /\ ctl \in CtlRecord
    BY DEF IInv, TypeOK
  <1>2. /\ proc[r] = "boot" /\ proc' = [proc EXCEPT ![r] = "unborn"] /\ ctl.active = r
        /\ UNCHANGED <<run, agent, row, arch, lock, log, ctl, pending, stream>>
    BY DEF SpawnError, At
  <1>3. /\ TypeOK' /\ (\A q \in Runs : Consistent(q)') /\ LockHeld' /\ OneOpen'
        /\ proc'[r] = "unborn" /\ (\A q \in Runs \ {r} : proc'[q] = proc[q]) /\ ~run[r].lost
    BY <1>1, <1>2, BeforeRun
  <1>4. ctl.known \subseteq Runs
    BY <1>1 DEF CtlRecord
  <1>5. ChildrenSettled'
    BY <1>2, <1>3, <1>4 DEF IInv, ChildrenSettled, HasFinal
  <1>6. CancelKept'
    BY <1>2 DEF IInv, CancelKept, Recorded
  <1>7. StreamFollows'
    <2>1. stream.run \in Runs \cup {NoRun}
      BY <1>1 DEF TypeOK, StreamRecord
    <2>2. QED
      BY <1>2, <1>3, <2>1 DEF IInv, StreamFollows, HasFinal
  <1>8. QED
    BY <1>3, <1>5, <1>6, <1>7 DEF IInv, Consistent

LEMMA CancelStep ==
  ASSUME IInv, NEW r \in Runs, Cancel(r)
  PROVE  IInv'
  <1>1. TypeOK /\ ctl \in CtlRecord
    BY DEF IInv, TypeOK
  <1>2. ctl.active = r /\ UNCHANGED <<proc, run, agent, row, arch, lock, log, stream>>
    BY DEF Cancel
  <1>3. ctl' \in CtlRecord /\ ctl'.active = ctl.active /\ ctl'.known = ctl.known
           /\ ctl'.cancel = ctl.cancel \cup {r}
    BY <1>1 DEF Cancel, CtlRecord
  <1>4. pending' \in [cancel : SUBSET Runs, term : SUBSET Runs]
    BY <1>1 DEF Cancel, TypeOK
  <1>5. TypeOK'
    BY <1>1, <1>2, <1>3, <1>4 DEF TypeOK
  <1>6. ASSUME NEW q \in Runs PROVE Consistent(q)'
    BY <1>2, SameRun DEF IInv, Consistent
  <1>7. ChildrenSettled'
    BY <1>2, <1>3, RunsAssumption DEF IInv, ChildrenSettled, HasFinal
  <1>8. CancelKept'
    BY <1>2, <1>3 DEF IInv, CancelKept, Recorded
  <1>9. StreamFollows'
    BY <1>2, <1>3 DEF IInv, StreamFollows, HasFinal
  <1>10. QED
    BY <1>2, <1>5, <1>6, <1>7, <1>8, <1>9 DEF IInv, Consistent, LockHeld, OneOpen, IsOpen

LEMMA TermTimerStep ==
  ASSUME IInv, NEW r \in Runs, TermTimer(r)
  PROVE  IInv'
  <1>1. TypeOK /\ ctl \in CtlRecord
    BY DEF IInv, TypeOK
  <1>2. UNCHANGED <<proc, run, agent, row, arch, lock, log, stream>>
    BY DEF TermTimer
  <1>3. ctl' \in CtlRecord /\ ctl'.active = ctl.active /\ ctl'.known = ctl.known /\ ctl'.cancel = ctl.cancel
    BY <1>1 DEF TermTimer, CtlRecord
  <1>4. pending' \in [cancel : SUBSET Runs, term : SUBSET Runs]
    BY <1>1 DEF TermTimer, TypeOK
  <1>5. TypeOK'
    BY <1>1, <1>2, <1>3, <1>4 DEF TypeOK
  <1>6. ASSUME NEW q \in Runs PROVE Consistent(q)'
    BY <1>2, SameRun DEF IInv, Consistent
  <1>7. ChildrenSettled'
    BY <1>2, <1>3 DEF IInv, ChildrenSettled, HasFinal
  <1>8. CancelKept'
    BY <1>2, <1>3 DEF IInv, CancelKept, Recorded
  <1>9. StreamFollows'
    BY <1>2, <1>3 DEF IInv, StreamFollows, HasFinal
  <1>10. QED
    BY <1>2, <1>5, <1>6, <1>7, <1>8, <1>9 DEF IInv, Consistent, LockHeld, OneOpen, IsOpen

LEMMA WorkspaceRestartStep ==
  ASSUME IInv, WorkspaceRestart
  PROVE  IInv'
  <1>1. TypeOK
    BY DEF IInv
  <1>2. UNCHANGED <<proc, run, agent, row, arch, lock, log, pending>>
    BY DEF WorkspaceRestart
  <1>3. ctl' \in CtlRecord /\ ctl'.active = NoRun /\ ctl'.known = {} /\ ctl'.cancel = {}
    BY DEF WorkspaceRestart, CtlRecord
  <1>4. /\ stream' \in StreamRecord
        /\ stream'.run = stream.run /\ stream'.last = stream.last
        /\ stream'.state = IF stream.state = "on" THEN "off" ELSE stream.state
    BY <1>1 DEF WorkspaceRestart, TypeOK, StreamRecord
  <1>5. TypeOK'
    BY <1>1, <1>2, <1>3, <1>4 DEF TypeOK
  <1>6. ASSUME NEW q \in Runs PROVE Consistent(q)'
    BY <1>2, SameRun DEF IInv, Consistent
  <1>7. ChildrenSettled' /\ CancelKept'
    BY <1>3 DEF ChildrenSettled, CancelKept
  <1>8. StreamFollows'
    <2>1. stream.run \in Runs \cup {NoRun}
      BY <1>1 DEF TypeOK, StreamRecord
    <2>2. QED
      BY <1>2, <1>3, <1>4, <2>1, RunsAssumption DEF IInv, StreamFollows, HasFinal
  <1>9. QED
    BY <1>2, <1>5, <1>6, <1>7, <1>8 DEF IInv, Consistent, LockHeld, OneOpen, IsOpen

\* What the settling of a dead child does to its row.
LEMMA SettledRow ==
  ASSUME IInv, NEW r \in Runs
  PROVE  /\ Settled(r) \in RowRecord
         /\ Settled(r) = row[r] \/ (Stopped(r, Settled(r)) /\ ~(run[r].recorded /\ Recorded(r)))
         /\ IsOpen(r) => Stopped(r, Settled(r))
         /\ row[r] # NoRow => Settled(r) # NoRow
         /\ row[r] = NoRow => Settled(r) = NoRow
         /\ r \in ctl.cancel /\ row[r] # NoRow => Settled(r).status = "CANCELLED" \/ (Settled(r) = row[r]
               /\ Recorded(r))
  <1>1. row[r] \in RowRecord
    BY DEF IInv, TypeOK
  <1>2. RowTells(r)
    BY DEF IInv
  <1> DEFINE asked == r \in ctl.cancel
  <1> DEFINE cutOff == asked /\ (row[r].status = "INTERRUPTED" \/ row[r].code = "PROCESS_EXIT")
  <1> DEFINE f == Finished(row[r], "CANCELLED", "CANCELLED", FALSE)
  <1> DEFINE g == Finished(row[r], "FAILED", "PROCESS_EXIT", FALSE)
  <1>3. Settled(r) = IF IsOpen(r) \/ cutOff THEN (IF asked THEN f ELSE g) ELSE row[r]
    BY DEF Settled
  <1>4. Stopped(r, f) /\ f.status = "CANCELLED"
    BY <1>1, StoppedRow
  <1>5. Stopped(r, g)
    BY <1>1, StoppedRow
  <1> HIDE DEF f, g
  <1>6. f \in RowRecord /\ g \in RowRecord /\ f # NoRow /\ g # NoRow
    BY <1>4, <1>5 DEF Stopped
  <1>7. IsOpen(r) => row[r] # NoRow
    BY NoRowFields DEF IsOpen, OpenStatus
  <1>8. cutOff => row[r] # NoRow
    BY NoRowFields
  <1>9. IsOpen(r) \/ cutOff => ~(run[r].recorded /\ Recorded(r))
    BY <1>2 DEF RowTells, Finals
  <1>10. row[r] # NoRow /\ asked /\ ~IsOpen(r) /\ ~cutOff => Recorded(r) \/ row[r].status = "CANCELLED"
    BY <1>2 DEF RowTells
  <1> HIDE DEF asked, cutOff
  <1>11. cutOff => asked
    BY DEF cutOff
  <1>12. CASE IsOpen(r) \/ cutOff
    <2>1. Settled(r) = IF asked THEN f ELSE g
      BY <1>3, <1>12
    <2>2. Stopped(r, Settled(r)) /\ Settled(r) \in RowRecord /\ Settled(r) # NoRow /\ row[r] # NoRow
      BY <1>4, <1>5, <1>6, <1>7, <1>8, <1>12, <2>1
    <2>3. asked => Settled(r).status = "CANCELLED"
      BY <1>4, <2>1
    <2>4. QED
      BY <1>9, <1>12, <2>2, <2>3 DEF asked
  <1>13. CASE ~(IsOpen(r) \/ cutOff)
    <2>1. Settled(r) = row[r]
      BY <1>3, <1>13
    <2>2. QED
      BY <1>1, <1>10, <1>13, <2>1 DEF asked
  <1>14. QED
    BY <1>12, <1>13

LEMMA AfterExitStep ==
  ASSUME IInv, NEW r \in Runs, AfterExit(r)
  PROVE  IInv'
  <1>1. TypeOK /\ Consistent(r) /\ ctl \in CtlRecord
    BY DEF IInv, Consistent, TypeOK
  <1>2. ctl.active = r /\ proc[r] = "dead" /\ UNCHANGED <<proc, run, agent, arch, pending, stream>>
    BY DEF AfterExit
  <1>3. ctl' \in CtlRecord /\ ctl'.active = NoRun /\ ctl'.known = ctl.known /\ ctl'.cancel = ctl.cancel
    BY <1>1 DEF AfterExit, CtlRecord
  <1>4. lock' \in Runs \cup {NoRun} /\ (lock' = lock \/ lock = r)
    BY <1>1 DEF AfterExit, TypeOK
  <1>5. row' \in [Runs -> RowRecord] /\ row'[r] = Settled(r) /\ \A q \in Runs \ {r} : row'[q] = row[q]
    BY <1>1, SettledRow, Update DEF AfterExit, TypeOK
  <1> DEFINE w == row'[r]
  <1>6. /\ w \in RowRecord
        /\ w = row[r] \/ (Stopped(r, w) /\ ~(run[r].recorded /\ Recorded(r)))
        /\ IsOpen(r) => Stopped(r, w)
        /\ row[r] # NoRow <=> w # NoRow
        /\ r \in ctl.cancel /\ w # NoRow => w.status = "CANCELLED" \/ (w = row[r] /\ Recorded(r))
    BY <1>5, SettledRow
  <1>7. LastWord(r) \in Finals
    BY DEF LastWord, Finals
  <1>8. /\ Writes(r)
        /\ log'[r] = log[r] \/ (log[r] # <<>> /\ HasFinal(log'[r]) /\ log'[r][Len(log'[r])].type = LastWord(r))
        /\ log'[r] # <<>> => HasFinal(log'[r])
    <2>1. CASE log[r] # <<>> /\ ~HasFinal(log[r])
      <3>1. Emit(r, LastWord(r))
        BY <2>1 DEF AfterExit
      <3>2. Writes(r)
        BY <1>1, <1>7, <2>1, <3>1, EventWritten DEF Consistent
      <3>3. HasFinal(log'[r])
        BY <1>1, <1>7, <2>1, <3>1, EventWritten DEF Consistent
      <3>4. log'[r][Len(log'[r])].type = LastWord(r)
        BY <1>1, <1>7, <2>1, <3>1, EventWritten DEF Consistent
      <3>5. QED
        BY <2>1, <3>2, <3>3, <3>4
    <2>2. CASE ~(log[r] # <<>> /\ ~HasFinal(log[r]))
      <3>1. log' = log
        BY <2>2 DEF AfterExit
      <3>2. QED
        BY <1>1, <2>2, <3>1, NothingWritten DEF Consistent
    <2>3. QED
      BY <2>1, <2>2
  <1>9. TypeOK'
    BY <1>1, <1>2, <1>3, <1>4, <1>5, <1>8 DEF TypeOK, Writes
  <1>10. w = row[r] \/ ~(run[r].recorded /\ Recorded(r)')
    BY <1>6 DEF Stopped, Recorded
  <1>11. IsOpen(r)' => FALSE
    <2>1. CASE IsOpen(r)
      BY <1>6, <2>1 DEF IsOpen, Stopped, OpenStatus
    <2>2. CASE ~IsOpen(r)
      BY <1>6, <2>2 DEF IsOpen, Stopped, OpenStatus
    <2>3. QED
      BY <2>1, <2>2
  <1>12. RowTells(r)'
    <2>1. CASE w = row[r]
      BY <1>1, <1>2, <2>1 DEF Consistent, RowTells, IsOpen, Recorded, Live
    <2>2. CASE w # row[r]
      <3>1. Stopped(r, w)
        BY <1>6, <2>2
      <3>2. /\ w # NoRow /\ w.code # "INDEX_FAILED" /\ w.stage # "RUNNING"
            /\ w.status \in {"CANCELLED", "INTERRUPTED"} \/ w.code = "PROCESS_EXIT"
        BY <3>1 DEF Stopped
      <3>3. w.archive <=> row[r].archive
        BY <3>1 DEF Stopped
      <3>4. w.archive => arch[r] # "none"
        BY <1>1, <3>3 DEF Consistent, RowTells
      <3>5. run[r].recorded \/ w.archive
        BY <1>1, <1>6, <3>2, <3>3 DEF Consistent, RowTells
      <3>6. ~(run[r].recorded /\ Recorded(r)')
        BY <1>10, <2>2
      <3>7. QED
        BY <1>2, <1>11, <3>2, <3>4, <3>5, <3>6 DEF RowTells, Live
    <2>3. QED
      BY <2>1, <2>2
  <1>13. ResultTells(r)'
    <2>1. run[r].recorded /\ Recorded(r)' /\ HasFinal(log'[r]) => w.status = log'[r][Len(log'[r])].type
      <3>1. SUFFICES ASSUME run[r].recorded, Recorded(r)', HasFinal(log'[r])
                     PROVE  w.status = log'[r][Len(log'[r])].type
        OBVIOUS
      <3>2. w = row[r] /\ Recorded(r)
        BY <1>10, <3>1 DEF Recorded
      <3>3. CASE log'[r] = log[r]
        BY <1>1, <3>1, <3>2, <3>3 DEF Consistent, ResultTells
      <3>4. CASE log'[r] # log[r]
        <4>1. row[r].status \in Finals /\ row[r] # NoRow
          BY <1>1, <3>1, <3>2 DEF Consistent, RowTells
        <4>2. Settled(r) = row[r]
          BY <1>5, <3>2
        <4>3. ReportedStatus(r) = row[r].status
          BY <4>1, <4>2 DEF ReportedStatus
        <4>4. LastWord(r) = row[r].status
          BY <4>1, <4>3 DEF LastWord, Finals
        <4>5. QED
          BY <1>8, <3>2, <3>4, <4>4
      <3>5. QED
        BY <3>3, <3>4
    <2>2. QED
      BY <1>1, <1>2, <2>1 DEF Consistent, ResultTells
  <1>14. Consistent(r)'
    BY <1>2, <1>8, <1>12, <1>13 DEF Consistent, NoTraceYet, Writes
  <1>15. ASSUME NEW q \in Runs PROVE Consistent(q)'
    BY <1>2, <1>5, <1>8, <1>14, SameRun DEF IInv, Consistent, Writes
  <1>16. LockHeld'
    BY <1>2, <1>4 DEF IInv, LockHeld, Live
  <1>17. OneOpen'
    BY <1>5, <1>11 DEF IInv, OneOpen, IsOpen
  <1>18. ctl.known \subseteq Runs /\ ctl.cancel \subseteq Runs
    BY <1>1 DEF CtlRecord
  <1>19. ChildrenSettled'
    BY <1>2, <1>3, <1>8, <1>18 DEF IInv, ChildrenSettled, HasFinal, Writes
  <1>20. CancelKept'
    <2>1. SUFFICES ASSUME NEW q \in ctl.cancel, row'[q] # NoRow
                   PROVE  row'[q].status = "CANCELLED" \/ Recorded(q)'
      BY <1>3 DEF CancelKept
    <2>2. q \in Runs
      BY <1>18
    <2>3. CASE q = r
      BY <1>6, <2>1, <2>3 DEF Recorded
    <2>4. CASE q # r
      BY <1>2, <1>5, <2>1, <2>2, <2>4 DEF IInv, CancelKept, Recorded
    <2>5. QED
      BY <2>3, <2>4
  <1>21. StreamFollows'
    <2>1. stream.run = NoRun \/ stream.run \in Runs
      BY <1>1 DEF TypeOK, StreamRecord
    <2>2. CASE stream.run = NoRun
      BY <1>2, <2>2 DEF IInv, StreamFollows
    <2>3. CASE stream.run \in Runs \ {r}
      BY <1>2, <1>3, <1>5, <1>8, <2>3, RunsAssumption DEF IInv, StreamFollows, HasFinal, Writes
    <2>4. CASE stream.run = r
      <3>1. log[r] \in Seq(Event) /\ log'[r] \in Seq(Event)
        BY <1>1, <1>8 DEF TypeOK, Writes
      <3>2. stream.last \in Nat /\ stream.last <= Len(log[r])
        BY <1>1, <2>4, RunsAssumption DEF IInv, StreamFollows, TypeOK, StreamRecord
      <3>3. Len(log[r]) \in Nat /\ Len(log'[r]) \in Nat /\ DOMAIN log'[r] \subseteq Nat
        BY <3>1
      <3>4. stream.last <= Len(log'[r])
        BY <1>8, <3>2, <3>3 DEF Writes
      <3>5. stream.state # "seen" => \A i \in DOMAIN log'[r] : log'[r][i].type \in Finals => stream.last < i
        BY <1>8, <2>4, <3>2, <3>3, RunsAssumption DEF IInv, StreamFollows, Writes
      <3>6. stream.state = "quiet" => run[r].lost
        BY <1>2, <2>4, RunsAssumption DEF IInv, StreamFollows
      <3>7. stream.state = "on" => w # NoRow \/ r \in ctl.known
        BY <1>6, <2>4, RunsAssumption DEF IInv, StreamFollows
      <3>8. QED
        BY <1>2, <1>3, <2>4, <3>4, <3>5, <3>6, <3>7, RunsAssumption DEF StreamFollows
    <2>5. QED
      BY <2>1, <2>2, <2>3, <2>4
  <1>22. QED
    BY <1>9, <1>15, <1>16, <1>17, <1>19, <1>20, <1>21 DEF IInv, Consistent

-----------------------------------------------------------------------------
(* The stream. *)

LEMMA StreamAdvanced ==
  ASSUME NEW s \in StreamRecord, NEW k \in Nat, NEW q \in 0..2, NEW z \in {"off", "on", "seen", "quiet"},
         stream' = [s EXCEPT !.last = k, !.quiet = q, !.state = z]
  PROVE  stream' \in StreamRecord /\ stream'.run = s.run /\ stream'.last = k /\ stream'.state = z
  BY DEF StreamRecord

LEMMA StreamMoved ==
  ASSUME NEW s \in StreamRecord, NEW r \in Runs, NEW q \in 0..2,
         stream' = [s EXCEPT !.run = r, !.quiet = q, !.state = "on"]
  PROVE  stream' \in StreamRecord /\ stream'.run = r /\ stream'.last = s.last /\ stream'.state = "on"
  BY DEF StreamRecord

LEMMA StreamOnly ==
  ASSUME IInv, UNCHANGED <<proc, run, agent, row, arch, lock, log, ctl, pending>>,
         stream' \in StreamRecord,
         StreamFollows'
  PROVE  IInv'
  <1>1. TypeOK'
    BY DEF IInv, TypeOK
  <1>2. ASSUME NEW q \in Runs PROVE Consistent(q)'
    BY SameRun DEF IInv, Consistent
  <1>3. LockHeld' /\ OneOpen' /\ ChildrenSettled' /\ CancelKept'
    BY DEF IInv, LockHeld, OneOpen, ChildrenSettled, CancelKept, IsOpen, Recorded, HasFinal
  <1>4. QED
    BY <1>1, <1>2, <1>3 DEF IInv, Consistent

LEMMA ConnectStep ==
  ASSUME IInv, NEW r \in Runs, Connect(r)
  PROVE  IInv'
  <1>1. TypeOK
    BY DEF IInv
  <1>2. /\ stream.state = "off" /\ stream.run \in {NoRun, r} /\ (row[r] # NoRow \/ r \in ctl.known)
        /\ UNCHANGED <<proc, run, agent, row, arch, lock, log, ctl, pending>>
    BY DEF Connect
  <1>3. /\ stream' \in StreamRecord
        /\ stream'.run = r /\ stream'.last = stream.last /\ stream'.state = "on"
    <2>1. stream' = [stream EXCEPT !.run = r, !.quiet = 0, !.state = "on"]
      BY DEF Connect
    <2>2. stream \in StreamRecord
      BY <1>1 DEF TypeOK
    <2>3. 0 \in 0..2
      OBVIOUS
    <2>4. PICK q \in 0..2 : stream' = [stream EXCEPT !.run = r, !.quiet = q, !.state = "on"]
      BY <2>1, <2>3
    <2>5. QED
      BY ONLY <2>2, <2>4, r \in Runs, StreamMoved
  <1>4. StreamFollows'
    <2>1. CASE stream.run = NoRun
      <3>1. stream.last = 0
        BY <2>1 DEF IInv, StreamFollows
      <3>2. log[r] \in Seq(Event)
        BY <1>1 DEF TypeOK
      <3>3. stream.last <= Len(log[r]) /\ \A i \in DOMAIN log[r] : stream.last < i
        BY <3>1, <3>2
      <3>4. QED
        BY <1>2, <1>3, <3>3, RunsAssumption DEF StreamFollows
    <2>2. CASE stream.run = r
      BY <1>2, <1>3, <2>2, RunsAssumption DEF IInv, StreamFollows
    <2>3. QED
      BY <1>2, <2>1, <2>2
  <1>5. QED
    BY <1>2, <1>3, <1>4, StreamOnly

LEMMA LeaveStep ==
  ASSUME IInv, Leave
  PROVE  IInv'
  <1>1. TypeOK
    BY DEF IInv
  <1>2. stream.state = "on" /\ UNCHANGED <<proc, run, agent, row, arch, lock, log, ctl, pending>>
    BY DEF Leave
  <1>3. /\ stream' \in StreamRecord
        /\ stream'.run = stream.run /\ stream'.last = stream.last /\ stream'.state = "off"
    BY <1>1 DEF Leave, TypeOK, StreamRecord
  <1>4. StreamFollows'
    BY <1>2, <1>3 DEF IInv, StreamFollows
  <1>5. QED
    BY <1>2, <1>3, <1>4, StreamOnly

\* Whatever the reader's limit, the last event of the log is among those it is given, unless it has that one.
LEMMA FreshReachesEnd ==
  ASSUME TypeOK, NEW r \in Runs, LogCounts(r), NEW n \in Nat
  PROVE  LET fresh == Fresh(log[r], n)
         IN /\ fresh = {} => Len(log[r]) <= n
            /\ fresh # {} => /\ Len(log[r]) \in fresh /\ Latest(fresh) = Len(log[r])
                             /\ log[r][Len(log[r])].id = Len(log[r])
            /\ fresh \subseteq DOMAIN log[r]
  <1> DEFINE l == log[r]
  <1> DEFINE k == Len(l)
  <1> DEFINE fresh == Fresh(l, n)
  <1> DEFINE new == {i \in DOMAIN l : l[i].id > n}
  <1>1. l \in Seq(Event)
    BY DEF TypeOK
  <1>2. k \in Nat /\ DOMAIN l = 1..k /\ \A i \in DOMAIN l : l[i].id = i
    BY <1>1 DEF LogCounts
  <1>3. fresh = {i \in new : Cardinality({j \in new : j > i}) < ReplayLimit}
    BY DEF Fresh
  <1>4. fresh \subseteq new /\ new = {i \in 1..k : i > n}
    BY <1>2, <1>3
  <1>5. CASE k <= n
    <2>1. new = {}
      BY <1>2, <1>4, <1>5
    <2>2. QED
      BY <1>2, <1>4, <1>5, <2>1
  <1>6. CASE ~(k <= n)
    <2>1. k \in new
      BY <1>2, <1>4, <1>6
    <2>2. {j \in new : j > k} = {}
      BY <1>2, <1>4
    <2>3. Cardinality({j \in new : j > k}) < ReplayLimit
      <3>1. Cardinality({j \in new : j > k}) = 0
        BY ONLY <2>2, FS_EmptySet
      <3>2. 0 < ReplayLimit
        BY BoundsAssumption
      <3>3. QED
        BY ONLY <3>1, <3>2
    <2>4. k \in fresh
      BY <1>3, <2>1, <2>3
    <2>5. \A j \in fresh : j <= k /\ j \in Nat
      BY <1>2, <1>4
    <2>6. Latest(fresh) = k
      <3> HIDE DEF fresh, k
      <3>1. \A i \in fresh : (\A j \in fresh : j <= i) => i = k
        BY <2>4, <2>5, <1>2
      <3>2. QED
        BY <2>4, <2>5, <3>1 DEF Latest
    <2>7. k \in DOMAIN l
      BY <1>2, <2>1, <1>4
    <2>8. QED
      BY <1>2, <1>4, <2>4, <2>6, <2>7
  <1>7. QED
    BY <1>5, <1>6

\* Who is neither dead nor about to do something, and whose run is closed, has lost its final event.
LEMMA QuietEnd ==
  ASSUME IInv, NEW r \in Runs, Closed(r), ~Settling(r), ~HasFinal(log[r]), row[r] # NoRow \/ r \in ctl.known
  PROVE  run[r].lost \/ proc[r] = "unborn" \/ (proc[r] = "dead" /\ ctl.active # r)
  <1>1. TypeOK /\ Consistent(r) /\ proc[r] \in Done
    BY DEF IInv, Consistent, TypeOK, Done
  <1>2. r \in ctl.known /\ ctl.active # r => proc[r] = "dead"
    BY DEF IInv, ChildrenSettled
  <1>3. row[r] = NoRow => r \in ctl.known /\ ctl.active # r
    BY DEF Closed
  <1>4. row[r] # NoRow => ~IsOpen(r)
    BY DEF Closed
  <1>5. CASE row[r] = NoRow
    BY <1>2, <1>3, <1>5
  <1>6. CASE row[r] # NoRow
    <2>1. proc[r] \notin {"none", "boot"}
      BY <1>1, <1>6 DEF Consistent, NoTraceYet
    <2>2. proc[r] \in {"preflight", "between", "agent", "ending"} => FALSE
      <3>1. SUFFICES ASSUME proc[r] \in {"preflight", "between", "agent", "ending"} PROVE FALSE
        OBVIOUS
      <3>2. arch[r] = "none" /\ ~run[r].finished
        BY <1>1, <3>1 DEF Consistent, ResultTells
      <3>3. ~run[r].recorded
        BY <1>1, <1>4, <1>6, <3>1, <3>2 DEF Consistent, RowTells, Live
      <3>4. QED
        BY <1>1, <1>6, <3>2, <3>3 DEF Consistent, RowTells
    <2>3. proc[r] = "closing" => run[r].lost
      BY <1>1 DEF Consistent, ResultTells
    <2>4. proc[r] \notin {"preserved", "emitted", "exiting", "released"} /\ (proc[r] = "dead" => ctl.active # r)
      BY DEF Settling
    <2>5. QED
      BY <1>1, <2>1, <2>2, <2>3, <2>4 DEF Done, Live
  <1>7. QED
    BY <1>5, <1>6

LEMMA TickStep ==
  ASSUME IInv, Tick
  PROVE  IInv'
  <1>1. TypeOK
    BY DEF IInv
  <1> DEFINE r == stream.run
  <1> DEFINE l == log[r]
  <1> DEFINE fresh == Fresh(l, stream.last)
  <1>2. stream.state = "on" /\ UNCHANGED <<proc, run, agent, row, arch, lock, log, ctl, pending>>
    BY DEF Tick
  <1>3. r \in Runs
    BY <1>1, <1>2 DEF IInv, StreamFollows, TypeOK, StreamRecord
  <1>4. /\ stream.last \in Nat /\ stream.last <= Len(l)
        /\ \A i \in DOMAIN l : l[i].type \in Finals => stream.last < i
        /\ row[r] # NoRow \/ r \in ctl.known
    BY <1>1, <1>2, <1>3, RunsAssumption DEF IInv, StreamFollows, TypeOK, StreamRecord
  <1>5. l \in Seq(Event) /\ LogCounts(r)
    BY <1>1, <1>3 DEF IInv, TypeOK
  <1>6. Len(l) \in Nat /\ DOMAIN l = 1..Len(l)
    BY <1>5
  <1>7. /\ fresh = {} => Len(l) <= stream.last
        /\ fresh # {} => Len(l) \in fresh /\ Latest(fresh) = Len(l) /\ l[Len(l)].id = Len(l)
        /\ fresh \subseteq DOMAIN l
    BY <1>1, <1>3, <1>4, <1>5, FreshReachesEnd
  <1>8. stream \in StreamRecord
    BY <1>1 DEF TypeOK
  <1>9. \A i \in DOMAIN l : l[i].type \in Finals => i = Len(l)
    BY <1>5 DEF LogCounts
  <1>10. CASE fresh # {}
    <2> DEFINE s == IF \E i \in fresh : l[i].type \in Finals THEN "seen" ELSE "on"
    <2>1. stream' = [stream EXCEPT !.last = l[Latest(fresh)].id, !.quiet = 0, !.state = s]
      BY <1>2, <1>10 DEF Tick
    <2>2. l[Latest(fresh)].id = Len(l)
      BY <1>7, <1>10
    <2>3. s \in {"on", "seen"}
      OBVIOUS
    <2>4. s # "seen" => \A i \in DOMAIN l : l[i].type \notin Finals
      BY <1>7, <1>9, <1>10
    <2> HIDE DEF s
    <2>5. stream' \in StreamRecord /\ stream'.run = r /\ stream'.last = Len(l) /\ stream'.state = s
      <3> DEFINE k == Len(l)
      <3>1. k \in Nat
        BY <1>6
      <3>2. stream' = [stream EXCEPT !.last = k, !.quiet = 0, !.state = s]
        BY <2>1, <2>2
      <3>3. s \in {"off", "on", "seen", "quiet"} /\ 0 \in 0..2
        BY <2>3
      <3> HIDE DEF k
      <3>4. PICK q \in 0..2 : stream' = [stream EXCEPT !.last = k, !.quiet = q, !.state = s]
        BY <3>2, <3>3
      <3>5. stream' \in StreamRecord /\ stream'.run = stream.run /\ stream'.last = k /\ stream'.state = s
        BY ONLY <1>8, <3>1, <3>3, <3>4, StreamAdvanced
      <3>6. QED
        BY <3>5 DEF k
    <2>6. StreamFollows'
      BY <1>2, <1>3, <1>4, <1>6, <2>3, <2>4, <2>5, RunsAssumption DEF StreamFollows
    <2>7. QED
      BY <1>2, <2>5, <2>6, StreamOnly
  <1>11. CASE fresh = {} /\ ~(Closed(r) /\ stream.quiet = 2)
    <2>1. stream' \in StreamRecord /\ stream'.run = r /\ stream'.last = stream.last /\ stream'.state = "on"
      <3>1. CASE ~Closed(r)
        <4>1. stream' = [stream EXCEPT !.quiet = 0]
          BY <1>11, <3>1 DEF Tick
        <4>2. QED
          BY <1>2, <1>8, <4>1 DEF StreamRecord
      <3>2. CASE Closed(r)
        <4>1. stream' = [stream EXCEPT !.quiet = stream.quiet + 1] /\ stream.quiet # 2
          BY <1>11, <3>2 DEF Tick
        <4>2. stream.quiet + 1 \in 0..2
          BY <1>8, <4>1 DEF StreamRecord
        <4>3. QED
          BY <1>2, <1>8, <4>1, <4>2 DEF StreamRecord
      <3>3. QED
        BY <3>1, <3>2
    <2>2. StreamFollows'
      BY <1>2, <1>3, <1>4, <2>1, RunsAssumption DEF StreamFollows
    <2>3. QED
      BY <1>2, <2>1, <2>2, StreamOnly
  <1>12. CASE fresh = {} /\ Closed(r) /\ stream.quiet = 2
    <2>1. stream' = [stream EXCEPT !.state = "quiet"] /\ ~Settling(r)
      BY <1>12 DEF Tick
    <2>2. stream' \in StreamRecord /\ stream'.run = r /\ stream'.last = stream.last /\ stream'.state = "quiet"
      BY <1>8, <2>1 DEF StreamRecord
    <2>3. ~HasFinal(l)
      <3>1. SUFFICES ASSUME HasFinal(l) PROVE FALSE
        OBVIOUS
      <3>2. Len(l) \in DOMAIN l
        BY <1>5, <3>1 DEF HasFinal
      <3>3. stream.last < Len(l)
        BY <1>4, <3>1, <3>2 DEF HasFinal
      <3>4. QED
        BY <1>4, <1>6, <1>7, <1>12, <3>3
    <2>4. run[r].lost \/ proc[r] = "unborn" \/ (proc[r] = "dead" /\ ctl.active # r)
      BY <1>3, <1>4, <1>12, <2>1, <2>3, QuietEnd
    <2>5. StreamFollows'
      BY <1>2, <1>3, <1>4, <2>2, <2>3, <2>4, RunsAssumption DEF StreamFollows, HasFinal
    <2>6. QED
      BY <1>2, <2>2, <2>5, StreamOnly
  <1>13. QED
    BY <1>10, <1>11, <1>12

-----------------------------------------------------------------------------
(* The invariant. *)

LEMMA InitIInv == Init => IInv
  <1>1. SUFFICES ASSUME Init PROVE IInv
    OBVIOUS
  <1>2. ~(\E r \in Runs : IsOpen(r)) /\ NoRow \in RowRecord
    BY <1>1, NoRowFields DEF Init, IsOpen, OpenStatus, NoRow, RowRecord, Status
  <1>3. <<>> \in Seq(Event) /\ ctl \in CtlRecord
    BY <1>1 DEF Init, CtlRecord
  <1>4. TypeOK
    <2>1. run \in [Runs -> RunRecord] /\ row \in [Runs -> RowRecord]
      BY <1>1, <1>2, NewRunTyped DEF Init
    <2>2. log \in [Runs -> Seq(Event)] /\ proc \in [Runs -> Done] /\ arch \in [Runs -> {"none"} \cup Finals]
      BY <1>1, <1>3 DEF Init, Done
    <2>3. /\ pending \in [cancel : SUBSET Runs, term : SUBSET Runs]
          /\ stream \in StreamRecord
      BY <1>1 DEF Init, StreamRecord
    <2>4. agent \subseteq Runs /\ lock \in Runs \cup {NoRun}
      BY <1>1 DEF Init
    <2>5. QED
      BY <1>3, <2>1, <2>2, <2>3, <2>4 DEF TypeOK, Done
  <1>5. ASSUME NEW r \in Runs PROVE Consistent(r)
    <2>1. proc[r] = "none" /\ run[r] = NewRun /\ row[r] = NoRow /\ arch[r] = "none" /\ log[r] = <<>>
      BY <1>1 DEF Init
    <2>2. ~NewRun.recorded /\ ~NewRun.finished
      BY DEF NewRun
    <2>3. ~HasFinal(log[r]) /\ ~IsOpen(r)
      BY <1>2, <2>1 DEF HasFinal
    <2>4. NoTraceYet(r)
      BY <2>1 DEF NoTraceYet
    <2>5. RowTells(r)
      <3>1. row[r].stage # "RUNNING" /\ ~row[r].archive /\ row[r].code # "INDEX_FAILED" /\ ~run[r].recorded
        BY <2>1, <2>2, NoRowFields
      <3>2. QED
        BY <2>1, <2>3, <3>1 DEF RowTells
    <2>6. ResultTells(r)
      BY <2>1, <2>2, <2>3 DEF ResultTells
    <2>7. LogCounts(r)
      BY <2>1 DEF LogCounts
    <2>8. QED
      BY <2>4, <2>5, <2>6, <2>7 DEF Consistent
  <1>6. LockHeld /\ ChildrenSettled /\ CancelKept /\ StreamFollows
    BY <1>1 DEF Init, LockHeld, Live, ChildrenSettled, CancelKept, StreamFollows
  <1>7. OneOpen
    BY <1>2 DEF OneOpen
  <1>8. QED
    BY <1>4, <1>5, <1>6, <1>7 DEF IInv, Consistent

LEMMA NextIInv == IInv /\ [Next]_vars => IInv'
  <1>1. SUFFICES ASSUME IInv, [Next]_vars PROVE IInv'
    OBVIOUS
  <1>2. ASSUME NEW r \in Runs, RunnerStep(r) PROVE IInv'
    BY <1>1, <1>2, BootStep, BootRefusedStep, PreflightDoneStep, DocsUnavailableStep, StartStageStep, AgentEndsStep,
       RetryStep, ToolCallStep, AllStagesDoneStep, PreserveStep, EmitFinalStep, FinishStep, ExitNormallyStep,
       ExitEarlyStep, ReleaseOnExitStep, CloseOnExitStep, CrashStep, DeliverCancelStep, HandleTermStep DEF RunnerStep
  <1>3. ASSUME NEW r \in Runs, ControllerStep(r) PROVE IInv'
    BY <1>1, <1>3, StartFromTerminalStep, StartStep, SpawnErrorStep, CancelStep, TermTimerStep, KillTimerStep,
       AfterExitStep DEF ControllerStep
  <1>4. ASSUME NEW r \in Runs, ImportArchive(r) \/ Connect(r) PROVE IInv'
    BY <1>1, <1>4, ImportArchiveStep, ConnectStep
  <1>5. CASE ListRuns \/ WorkspaceRestart \/ Tick \/ Leave
    BY <1>1, <1>5, ListRunsStep, WorkspaceRestartStep, TickStep, LeaveStep
  <1>6. CASE UNCHANGED vars
    <2>1. \A q \in Runs : Consistent(q)'
      BY <1>1, <1>6, SameRun DEF IInv, Consistent, vars
    <2>2. TypeOK'
      BY <1>1, <1>6 DEF IInv, TypeOK, vars
    <2>3. LockHeld' /\ OneOpen' /\ ChildrenSettled' /\ CancelKept' /\ StreamFollows'
      BY <1>1, <1>6
         DEF IInv, LockHeld, OneOpen, ChildrenSettled, CancelKept, StreamFollows, IsOpen, Recorded, HasFinal, vars
    <2>4. QED
      BY <2>1, <2>2, <2>3 DEF IInv, Consistent
  <1>7. QED
    BY <1>1, <1>2, <1>3, <1>4, <1>5, <1>6 DEF Next

(* A run's process, record, row, archive and log agree with each other at  *)
(* every step, whoever takes it, and so do the lock, the controller and    *)
(* the stream; the invariant the properties of the life of a run rest on.  *)
THEOREM LifecycleInvariant == Spec => []IInv
  BY InitIInv, NextIInv, PTL DEF Spec

(* A cancel the workspace accepted is what the history shows of the run    *)
(* once its child has been settled, unless the run had recorded a result   *)
(* of its own (requestCancel, afterExit).                                  *)
THEOREM CancelIsKept == Spec => []CancelKept
  <1>1. IInv => CancelKept
    BY DEF IInv
  <1>2. QED
    BY <1>1, LifecycleInvariant, PTL

(* The result a run recorded in the history is the one its log ends with   *)
(* (the end of qa-manual.mjs, afterExit).                                  *)
THEOREM HistoryAndLogAgree == Spec => []ResultIsLastWord
  <1>1. IInv => ResultIsLastWord
    BY DEF IInv, ResultIsLastWord, ResultTells
  <1>2. QED
    BY <1>1, LifecycleInvariant, PTL

(* A row that claims an archive has one on disk (preserveRun is before     *)
(* history.finish; an imported row is made from its archive).              *)
THEOREM ArchiveIsThere == Spec => []ArchiveBehindRow
  <1>1. IInv => ArchiveBehindRow
    BY DEF IInv, ArchiveBehindRow, RowTells
  <1>2. QED
    BY <1>1, LifecycleInvariant, PTL

(* A closed run shows no stage still running, whoever closed it (finishRun *)
(* settles status and stage in one transaction).                           *)
THEOREM StagesEndWithRun == Spec => []NoStageOutlivesRun
  <1>1. IInv => NoStageOutlivesRun
    BY DEF IInv, NoStageOutlivesRun, RowTells
  <1>2. QED
    BY <1>1, LifecycleInvariant, PTL

(* The ids of a log increase across its writers, and the log of a child    *)
(* that has been settled ends with its last word, also past the maximum of *)
(* events (RunEventWriter, afterExit).                                     *)
THEOREM LogIsKept == Spec => []LogKept
  <1>1. IInv => LogOrdered
    <2>1. SUFFICES ASSUME IInv, NEW r \in Runs, NEW i \in DOMAIN log[r], NEW j \in DOMAIN log[r], i < j
                   PROVE  log[r][i].id < log[r][j].id
      BY DEF LogOrdered
    <2>2. log[r][i].id = i /\ log[r][j].id = j
      BY <2>1 DEF IInv, LogCounts
    <2>3. QED
      BY <2>1, <2>2
  <1>2. IInv => LogEnds
    BY DEF IInv, ChildrenSettled, LogEnds
  <1>3. QED
    BY <1>1, <1>2, LifecycleInvariant, PTL DEF LogKept

(* A stream that ended by itself has shown the end of the run, if the log  *)
(* tells one and the runner could write it (streamEvents' three quiet      *)
(* ticks), whatever the replay limit.                                      *)
THEOREM StreamShowsEnd == Spec => []EndSeen
  <1>1. IInv => EndSeen
    <2>1. SUFFICES ASSUME IInv, stream.state = "quiet", HasFinal(log[stream.run])
                   PROVE  run[stream.run].lost
      BY DEF EndSeen
    <2>2. stream.run # NoRun
      BY <2>1 DEF IInv, StreamFollows
    <2>3. QED
      BY <2>1, <2>2 DEF IInv, StreamFollows
  <1>2. QED
    BY <1>1, LifecycleInvariant, PTL

-----------------------------------------------------------------------------
(* The refinement of RunOutcome. *)

LEMMA NoRowIsClosed ==
  ASSUME NEW r \in Runs, row[r] = NoRow
  PROVE  ~IsOpen(r) /\ ~Recorded(r)
  BY NoRowFields DEF IsOpen, Recorded, OpenStatus

\* A step that moves one row keeps its standing, closes it or makes a closed one.
LEMMA OneRowMoves ==
  ASSUME NEW r \in Runs, \A q \in Runs \ {r} : row'[q] = row[q],
         \/ /\ row'[r] = NoRow <=> row[r] = NoRow
            /\ IsOpen(r)' <=> IsOpen(r)
            /\ ~IsOpen(r) => (Recorded(r)' <=> Recorded(r))
         \/ IsOpen(r) /\ ~IsOpen(r)' /\ row'[r] # NoRow
         \/ row[r] = NoRow /\ ~IsOpen(r)' /\ row'[r] # NoRow
  PROVE  [History!Next]_Outcome
  <1>1. \A q \in Runs \ {r} : Outcome'[q] = Outcome[q]
    BY DEF Outcome, IsOpen, Recorded
  <1>2. Outcome' \in [Runs -> {"none", "open", "result", "stopped"}]
           /\ Outcome \in [Runs -> {"none", "open", "result", "stopped"}]
    BY DEF Outcome
  <1>3. CASE /\ row'[r] = NoRow <=> row[r] = NoRow
             /\ IsOpen(r)' <=> IsOpen(r)
             /\ ~IsOpen(r) => (Recorded(r)' <=> Recorded(r))
    <2>1. Outcome'[r] = Outcome[r]
      BY <1>3 DEF Outcome
    <2>2. QED
      BY <1>1, <1>2, <2>1
  <1>4. CASE ~IsOpen(r)' /\ row'[r] # NoRow /\ (IsOpen(r) \/ row[r] = NoRow)
    <2>1. PICK how \in {"result", "stopped"} : Outcome'[r] = how
      BY <1>4 DEF Outcome
    <2>2. Outcome' = [Outcome EXCEPT ![r] = how]
      BY <1>1, <1>2, <2>1
    <2>3. Outcome[r] = IF row[r] = NoRow THEN "none" ELSE "open"
      BY <1>4 DEF Outcome
    <2>4. History!Close(r) \/ History!Import(r)
      BY <2>2, <2>3 DEF History!Close, History!Import
    <2>5. QED
      BY <2>4 DEF History!Next
  <1>5. QED
    BY <1>3, <1>4

LEMMA SameRows == UNCHANGED row => UNCHANGED Outcome
  BY DEF Outcome, IsOpen, Recorded

\* The stage of a row, or STARTING becoming RUNNING, is no outcome.
LEMMA StageRowMaps ==
  ASSUME IInv, IInv', NEW r \in Runs, NEW s \in {"RUNNING", "INTERRUPTED"} \cup Finals,
         StageRow(r, s), run'[r].recorded = run[r].recorded
  PROVE  [History!Next]_Outcome
  <1>1. CASE ~run[r].recorded
    BY <1>1, SameRows DEF StageRow
  <1>2. CASE run[r].recorded
    <2>1. row[r] # NoRow /\ row'[r] # NoRow
      BY <1>2 DEF IInv, RowTells
    <2>2. row'[r] = [row[r] EXCEPT !.stage = s] /\ (\A q \in Runs \ {r} : row'[q] = row[q]) /\ row[r] \in RowRecord
      BY <1>2 DEF StageRow, IInv, TypeOK
    <2>3. row'[r].status = row[r].status /\ row'[r].code = row[r].code /\ row'[r].archive = row[r].archive
      BY <2>2 DEF RowRecord
    <2>4. QED
      BY <2>1, <2>2, <2>3, OneRowMoves DEF IsOpen, Recorded
  <1>3. QED
    BY <1>1, <1>2

\* A row is closed at most once: by the run itself ...
LEMMA FinishMaps ==
  ASSUME IInv, IInv', NEW r \in Runs, Finish(r)
  PROVE  [History!Next]_Outcome
  <1>1. CASE row' = row
    BY <1>1, SameRows
  <1>2. CASE row' # row
    <2>1. /\ run[r].recorded /\ proc[r] = "emitted" /\ proc'[r] = "closing"
          /\ \E code, archived : row' = [row EXCEPT ![r] = Finished(@, run[r].result, code, archived)]
      BY <1>2 DEF Finish, At, IInv, TypeOK
    <2>2. ~run[r].finished /\ run[r].result \in Finals
      BY <2>1 DEF IInv, ResultTells
    <2>3. IsOpen(r)
      BY <2>1, <2>2 DEF IInv, RowTells, Live
    <2>4. row'[r] # NoRow
      <3>1. run'[r].recorded
        BY <2>1 DEF Finish, IInv, TypeOK, RunRecord
      <3>2. QED
        BY <3>1 DEF IInv, RowTells
    <2>5. row[r] \in RowRecord /\ (\A q \in Runs \ {r} : row'[q] = row[q])
      BY <2>1 DEF IInv, TypeOK
    <2>6. row'[r].status = run[r].result
      <3>1. PICK code, archived : row' = [row EXCEPT ![r] = Finished(row[r], run[r].result, code, archived)]
        BY <2>1
      <3>2. row'[r] = Finished(row[r], run[r].result, code, archived)
        BY <3>1 DEF IInv, TypeOK
      <3>3. QED
        BY <2>5, <3>2 DEF RowRecord, Finished
    <2>7. ~IsOpen(r)'
      BY <2>2, <2>6 DEF IsOpen, OpenStatus, Finals
    <2>8. QED
      BY <2>3, <2>4, <2>5, <2>7, OneRowMoves
  <1>3. QED
    BY <1>1, <1>2

\* ... or by the controller, which leaves a recorded result alone ...
LEMMA AfterExitMaps ==
  ASSUME IInv, IInv', NEW r \in Runs, AfterExit(r)
  PROVE  [History!Next]_Outcome
  <1>1. row'[r] = Settled(r) /\ \A q \in Runs \ {r} : row'[q] = row[q]
    BY DEF AfterExit, IInv, TypeOK
  <1>2. CASE Settled(r) = row[r]
    BY <1>1, <1>2, OneRowMoves DEF IsOpen, Recorded
  <1>3. CASE Settled(r) # row[r]
    <2>1. Stopped(r, row'[r]) /\ ~(run[r].recorded /\ Recorded(r))
      BY <1>1, <1>3, SettledRow
    <2>2. row'[r] # NoRow /\ row[r] # NoRow
      BY <1>1, <2>1, SettledRow DEF Stopped
    <2>3. ~IsOpen(r)'
      BY <2>1 DEF Stopped, IsOpen, OpenStatus
    <2>4. CASE IsOpen(r)
      BY <1>1, <2>2, <2>3, <2>4, OneRowMoves
    <2>5. CASE ~IsOpen(r)
      <3>1. Recorded(r)' <=> Recorded(r)
        <4>1. CASE run[r].recorded
          BY <2>1, <4>1 DEF Stopped, Recorded
        <4>2. CASE ~run[r].recorded
          <5>1. row[r].archive
            BY <2>2, <4>2 DEF IInv, RowTells
          <5>2. QED
            BY <2>1, <5>1 DEF Stopped, Recorded
        <4>3. QED
          BY <4>1, <4>2
      <3>2. QED
        BY <1>1, <2>2, <2>3, <2>5, <3>1, OneRowMoves
    <2>6. QED
      BY <2>4, <2>5
  <1>4. QED
    BY <1>2, <1>3

\* ... or by whoever lists the runs: one row, for one is open.
LEMMA ListRunsMaps ==
  ASSUME IInv, IInv', ListRuns
  PROVE  [History!Next]_Outcome
  <1>1. lock \in Runs \cup {NoRun}
    BY DEF IInv, TypeOK
  <1>2. ASSUME NEW q \in Runs
        PROVE  row'[q] = row[q] \/ (IsOpen(q) /\ Stopped(q, row'[q]))
    BY <1>1, ReconciledRow DEF ListRuns
  <1>3. CASE \A q \in Runs : row'[q] = row[q]
    BY <1>3 DEF Outcome, IsOpen, Recorded
  <1>4. ASSUME NEW r \in Runs, row'[r] # row[r] PROVE [History!Next]_Outcome
    <2>1. IsOpen(r) /\ Stopped(r, row'[r])
      BY <1>2, <1>4
    <2>2. \A q \in Runs \ {r} : row'[q] = row[q]
      BY <1>2, <2>1 DEF IInv, OneOpen
    <2>3. ~IsOpen(r)' /\ row'[r] # NoRow
      BY <2>1 DEF Stopped, IsOpen, OpenStatus
    <2>4. QED
      BY <2>1, <2>2, <2>3, OneRowMoves
  <1>5. QED
    BY <1>3, <1>4

\* A run that was never seen is imported closed; indexing one again leaves its result a result.
LEMMA ImportArchiveMaps ==
  ASSUME IInv, IInv', NEW r \in Runs, ImportArchive(r)
  PROVE  [History!Next]_Outcome
  <1>1. row \in [Runs -> RowRecord] /\ row[r] \in RowRecord /\ arch[r] \in Finals
    BY DEF IInv, TypeOK, ImportArchive
  <1>2. CASE row[r] = NoRow
    <2>1. row[r].code # "INDEX_FAILED"
      BY <1>2, NoRowFields
    <2>2. PICK stage : row' = [row EXCEPT ![r] = [status |-> ImportedStatus(arch[r]), code |-> "", archive |-> TRUE, stage |-> stage]]
      BY <2>1 DEF ImportArchive
    <2>3. row'[r].archive /\ row'[r].status = ImportedStatus(arch[r]) /\ \A q \in Runs \ {r} : row'[q] = row[q]
      BY <1>1, <2>2
    <2>4. ~IsOpen(r)'
      BY <2>3 DEF IsOpen, OpenStatus, ImportedStatus
    <2>5. row'[r] # NoRow
      BY <2>3, NoRowFields
    <2>6. QED
      BY <1>2, <2>3, <2>4, <2>5, OneRowMoves
  <1>3. CASE row[r] # NoRow
    <2>1. row[r].code = "INDEX_FAILED" /\ row' = [row EXCEPT ![r] = Finished(row[r], row[r].status, "", TRUE)]
      BY <1>3 DEF ImportArchive
    <2>2. Recorded(r) /\ ~IsOpen(r)
      BY <2>1 DEF IInv, RowTells, Recorded
    <2>3. row'[r].status = row[r].status /\ row'[r].archive /\ \A q \in Runs \ {r} : row'[q] = row[q]
      BY <1>1, <2>1 DEF Finished, RowRecord
    <2>4. row'[r] # NoRow /\ Recorded(r)' /\ ~IsOpen(r)'
      BY <2>2, <2>3, NoRowFields DEF Recorded, IsOpen
    <2>5. QED
      BY <1>3, <2>2, <2>3, <2>4, OneRowMoves
  <1>4. QED
    BY <1>2, <1>3

\* A run is opened once, and with it whatever was left open is stopped.
LEMMA BootMaps ==
  ASSUME IInv, IInv', NEW r \in Runs, Boot(r)
  PROVE  [History!Next]_Outcome
  <1>1. CASE row' = row
    BY <1>1, SameRows
  <1>2. CASE row' # row
    <2>1. proc[r] = "boot" /\ row' = [Reconciled(r) EXCEPT ![r] = [NoRow EXCEPT !.status = "STARTING"]]
      BY <1>2 DEF Boot, At
    <2>2. row[r] = NoRow
      BY <2>1 DEF IInv, NoTraceYet
    <2>3. r \in Runs \cup {NoRun} /\ Reconciled(r) \in [Runs -> RowRecord]
      BY ReconciledRow
    <2>4. row'[r] = [NoRow EXCEPT !.status = "STARTING"] /\ \A q \in Runs \ {r} : row'[q] = Reconciled(r)[q]
      BY <2>1, <2>3
    <2>5. row'[r].status = "STARTING"
      BY <2>4 DEF NoRow
    <2>6. Outcome'[r] = "open"
      BY <2>5, NoRowFields DEF Outcome, IsOpen, OpenStatus
    <2>7. ASSUME NEW q \in Runs \ {r}
          PROVE  Outcome'[q] = IF Outcome[q] = "open" THEN "stopped" ELSE Outcome[q]
      <3>1. ~OwnerAlive(q, r)
        BY DEF OwnerAlive
      <3>2. CASE ~IsOpen(q)
        <4>1. row'[q] = row[q]
          BY <2>3, <2>4, <3>2, ReconciledRow
        <4>2. QED
          BY <3>2, <4>1 DEF Outcome, IsOpen, Recorded
      <3>3. CASE IsOpen(q)
        <4>1. Stopped(q, row'[q])
          BY <2>3, <2>4, <3>1, <3>3, ReconciledRow
        <4>2. row[q] # NoRow /\ ~Recorded(q)
          BY <3>3, NoRowIsClosed DEF IInv, RowTells
        <4>3. row'[q] # NoRow /\ ~IsOpen(q)' /\ ~Recorded(q)'
          BY <4>1, <4>2 DEF Stopped, IsOpen, OpenStatus, Recorded
        <4>4. QED
          BY <3>3, <4>2, <4>3 DEF Outcome
      <3>4. QED
        BY <3>2, <3>3
    <2>8. Outcome[r] = "none"
      BY <2>2 DEF Outcome
    <2>9. Outcome' = [x \in Runs |-> IF x = r THEN "open" ELSE IF Outcome[x] = "open" THEN "stopped" ELSE Outcome[x]]
      <3>1. Outcome' = [x \in Runs |-> Outcome'[x]]
        BY DEF Outcome
      <3>2. QED
        BY <2>6, <2>7, <3>1
    <2>10. History!Open(r)
      BY <2>8, <2>9 DEF History!Open
    <2>11. QED
      BY <2>10 DEF History!Next
  <1>3. QED
    BY <1>1, <1>2

LEMMA PreflightDoneMaps ==
  ASSUME IInv, IInv', NEW r \in Runs, PreflightDone(r)
  PROVE  [History!Next]_Outcome
  <1>1. CASE row' = row
    BY <1>1, SameRows
  <1>2. CASE row' # row
    <2>1. row[r] \in RowRecord /\ row' = [row EXCEPT ![r] = [row[r] EXCEPT !.status = IF row[r].status = "STARTING" THEN "RUNNING" ELSE row[r].status]]
      BY <1>2 DEF PreflightDone, IInv, TypeOK
    <2>2. /\ row'[r].status = IF row[r].status = "STARTING" THEN "RUNNING" ELSE row[r].status
          /\ row'[r].code = row[r].code /\ row'[r].archive = row[r].archive
          /\ \A q \in Runs \ {r} : row'[q] = row[q]
      BY <2>1 DEF IInv, TypeOK, RowRecord
    <2>3. row[r].status = "STARTING"
      <3>1. SUFFICES ASSUME row[r].status # "STARTING" PROVE FALSE
        OBVIOUS
      <3>2. row' = [row EXCEPT ![r] = [row[r] EXCEPT !.status = row[r].status]]
        BY <2>1, <3>1
      <3>3. [row[r] EXCEPT !.status = row[r].status] = row[r]
        BY <2>1 DEF RowRecord
      <3>4. row' = row
        BY <3>2, <3>3, KeptAll DEF IInv
      <3>5. QED
        BY <1>2, <3>4
    <2>4. row[r] # NoRow /\ row'[r] # NoRow
      BY <2>2, <2>3, NoRowFields
    <2>5. QED
      BY <2>2, <2>3, <2>4, OneRowMoves DEF IsOpen, Recorded, OpenStatus
  <1>3. QED
    BY <1>1, <1>2

LEMMA StepMaps == IInv /\ IInv' /\ [Next]_vars => [History!Next]_Outcome
  <1> SUFFICES ASSUME IInv, IInv', [Next]_vars PROVE [History!Next]_Outcome
    OBVIOUS
  <1>1. ASSUME NEW r \in Runs, RunnerStep(r) PROVE [History!Next]_Outcome
    <2>1. CASE StartStage(r)
      <3>1. CASE row' = row
        BY <3>1, SameRows
      <3>2. CASE row' # row
        <4>1. StageRow(r, "RUNNING") /\ run' = [run EXCEPT ![r] = [run[r] EXCEPT !.stage = @ + 1, !.try = 1]]
          BY <2>1, <3>2 DEF StartStage
        <4>2. run'[r].recorded = run[r].recorded
          BY <4>1 DEF IInv, TypeOK, RunRecord
        <4>3. QED
          BY <4>1, <4>2, StageRowMaps
      <3>3. QED
        BY <3>1, <3>2
    <2>2. CASE AgentEnds(r)
      <3>1. PICK s \in Finals : StageRow(r, s)
        BY <2>2 DEF AgentEnds, Finals
      <3>2. run'[r].recorded = run[r].recorded
        <4>1. run[r] \in RunRecord /\ run \in [Runs -> RunRecord]
          BY DEF IInv, TypeOK
        <4>2. run' = run \/ \E result : run' = [run EXCEPT ![r] = [run[r] EXCEPT !.result = result]]
          BY <2>2 DEF AgentEnds, EndWith
        <4>3. QED
          BY <4>1, <4>2 DEF RunRecord
      <3>3. QED
        BY <3>1, <3>2, StageRowMaps
    <2>3. CASE \/ DocsUnavailable(r) \/ Retry(r) \/ ToolCall(r) \/ AllStagesDone(r) \/ Preserve(r) \/ EmitFinal(r)
               \/ ExitNormally(r) \/ ExitEarly(r) \/ ReleaseOnExit(r) \/ CloseOnExit(r)
               \/ Crash(r) \/ DeliverCancel(r) \/ HandleTerm(r)
      BY <2>3, SameRows DEF DocsUnavailable, Retry, ToolCall, AllStagesDone, Preserve, EmitFinal, ExitNormally,
         ExitEarly, ReleaseOnExit, CloseOnExit, Crash, DeliverCancel, HandleTerm
    <2>4. QED
      BY <1>1, <2>1, <2>2, <2>3, BootMaps, PreflightDoneMaps, FinishMaps DEF RunnerStep
  <1>2. ASSUME NEW r \in Runs, ControllerStep(r) PROVE [History!Next]_Outcome
    BY <1>2, SameRows, AfterExitMaps
       DEF ControllerStep, StartFromTerminal, Start, SpawnError, Cancel, TermTimer, KillTimer
  <1>3. ASSUME NEW r \in Runs, ImportArchive(r) \/ Connect(r) PROVE [History!Next]_Outcome
    BY <1>3, SameRows, ImportArchiveMaps DEF Connect
  <1>4. CASE ListRuns \/ WorkspaceRestart \/ Tick \/ Leave \/ UNCHANGED vars
    BY <1>4, SameRows, ListRunsMaps DEF WorkspaceRestart, Tick, Leave, vars
  <1>5. QED
    BY <1>1, <1>2, <1>3, <1>4 DEF Next

(* The history keeps RunOutcome's promise: a run is opened once, one is    *)
(* open at a time, an open one is closed once, and neither a late cancel,  *)
(* nor a reader, nor the import of an archive replaces a recorded result   *)
(* or gives a stopped run one.                                             *)
THEOREM RunOutcomeImplemented == Spec => OneOutcome
  <1>1. Init => History!Init
    BY DEF Init, History!Init, Outcome
  <1>2. QED
    BY <1>1, StepMaps, LifecycleInvariant, PTL DEF Spec, OneOutcome, History!Spec
=============================================================================
