-------------------------- MODULE Phase1Refresh_proofs --------------------------
(***************************************************************************)
(* Proofs about the dependency refresh, for any suites and any number of   *)
(* refreshes.  IInv is inductive; that an artifact which reads CURRENT was *)
(* made from the suite, and that Phase1Refresh implements AllOrNothing,    *)
(* follow from it.                                                         *)
(*                                                                         *)
(* The last section proves the run lock, which a refresh takes before it   *)
(* writes anything, for any processes and any claims.                      *)
(***************************************************************************)
EXTENDS Phase1Refresh, RunLock, TLAPS

USE ConstantsAssumption

-----------------------------------------------------------------------------
(* The constants, and the initial states. *)

LEMMA Constants ==
  /\ InitialSuite \in Suites
  /\ MaxRuns \in Nat
  /\ 0 \in Runs
  /\ None \notin Suites
  /\ None \notin Stages
  /\ \A c \in Content : c # None
  BY DEF Runs

LEMMA NoAgentType == NoAgent \in Agent /\ NoFiles \in Snapshot /\ NoRefresh \in Refresh
  BY Constants DEF NoAgent, Agent, NoFiles, Snapshot, NoRefresh, Refresh

LEMMA InitIInv == Init => IInv
  <1> SUFFICES ASSUME Init PROVE IInv
    OBVIOUS
  <1> DEFINE made == [from |-> InitialSuite, run |-> 0]
  <1>1. made \in Content
    BY Constants DEF Content
  <1>2. TypeOK
    <2>1. file \in Snapshot
      BY <1>1, Constants, NoAgentType DEF Init, Snapshot
    <2>2. stamp \in [Derived -> Suites \cup {None}]
      BY Constants DEF Init
    <2>3. suite \in Suites /\ runs \in Runs /\ doubtful \subseteq Derived /\ died \in BOOLEAN
      BY Constants DEF Init
    <2>4. newer \in [Derived -> BOOLEAN] /\ refresh \in Refresh
      BY NoAgentType DEF Init
    <2>5. agent \in [{"awaited", "orphan"} -> Agent]
      BY NoAgentType DEF Init
    <2>6. QED
      BY <2>1, <2>2, <2>3, <2>4, <2>5 DEF TypeOK
  <1>3. refresh = NoRefresh /\ agent["awaited"] = NoAgent /\ agent["orphan"] = NoAgent
    BY DEF Init
  <1>4. \A a \in Derived : stamp[a] # None /\ file[a] # None => file[a].from = stamp[a]
    BY Constants DEF Init, NoFiles, Derived, Files
  <1>5. QED
    BY <1>2, <1>3, <1>4, Constants
       DEF IInv, AgentsServeRuns, AgentReadSuite, IdleIsClean, StampedInOrder, Replaced,
           Accomplished, StampsVouch, RestoredExactly, PutBack, Live, NoRefresh, NoAgent,
           Restoring, Stages

-----------------------------------------------------------------------------
(* What an agent's write of a file changes, and nothing else. *)
Written(k, f) ==
  /\ file' \in Snapshot
  /\ newer' \in [Derived -> BOOLEAN]
  /\ file'[f] # None
  /\ file'[f].from = agent[k].read
  /\ file'[f].run = agent[k].run
  /\ \A g \in Files \ {f} : file'[g] = file[g]
  /\ refresh' \in Refresh
  /\ refresh'.pc = refresh.pc
  /\ refresh'.backup = refresh.backup
  /\ refresh'.stamped = refresh.stamped
  /\ refresh'.disturbed = (refresh.disturbed \/ (Live /\ k = "orphan"))
  /\ refresh'.fresh = (refresh.fresh \/ (refresh.pc = agent[k].stage /\ f \in Derived))
  /\ ~Live => refresh' = NoRefresh
  /\ doubtful' = IF k = "orphan" THEN doubtful \cup ({f} \cap Derived) ELSE doubtful
  /\ UNCHANGED <<suite, stamp, runs, died>>

LEMMA WriteFrame ==
  ASSUME IInv, NEW k \in {"awaited", "orphan"}, NEW f \in Files,
         agent[k].stage # None, agent[k].read # None, AgentWrites(k, f)
  PROVE  Written(k, f)
  <1> USE Constants, NoAgentType DEF AgentWrites, Noticed
  <1> DEFINE w == [from |-> agent[k].read, run |-> agent[k].run]
  <1>1. w \in Content /\ w # None
    BY DEF IInv, TypeOK, Agent, Content
  <1>2. file' = [file EXCEPT ![f] = w]
    OBVIOUS
  <1>3. file \in Snapshot
    BY DEF IInv, TypeOK
  <1>4. file' \in Snapshot /\ file'[f] = w /\ \A g \in Files \ {f} : file'[g] = file[g]
    BY <1>1, <1>2, <1>3 DEF Snapshot
  <1>5. newer' \in [Derived -> BOOLEAN]
    BY DEF IInv, TypeOK
  <1>6. refresh \in Refresh
    BY DEF IInv, TypeOK
  <1>7. /\ refresh' \in Refresh
        /\ refresh'.pc = refresh.pc
        /\ refresh'.backup = refresh.backup
        /\ refresh'.stamped = refresh.stamped
        /\ refresh'.disturbed = (refresh.disturbed \/ (Live /\ k = "orphan"))
        /\ refresh'.fresh = (refresh.fresh \/ (refresh.pc = agent[k].stage /\ f \in Derived))
    BY <1>6 DEF Refresh, Live
  <1>8. ~Live => refresh' = NoRefresh
    <2> SUFFICES ASSUME ~Live PROVE refresh' = NoRefresh
      OBVIOUS
    <2>1. refresh = NoRefresh
      BY DEF IInv, IdleIsClean
    <2>2. refresh.pc # agent[k].stage
      BY <2>1 DEF IInv, TypeOK, Agent, NoRefresh, Stages
    <2>3. QED
      BY <2>1, <2>2 DEF NoRefresh, Live
  <1>9. QED
    BY <1>1, <1>4, <1>5, <1>7, <1>8 DEF Written

-----------------------------------------------------------------------------
(* Every step keeps IInv, one lemma per action: its type, then each part    *)
(* of the invariant.                                                       *)

LEMMA ApplyChangeStep ==
  ASSUME IInv, NEW s \in Suites, ApplyChange(s)
  PROVE  IInv'
  <1> USE Constants, NoAgentType DEF IInv, ApplyChange, Stages, Derived, Files,
          Working, Restoring, Live
  <1>0. TypeOK'
    BY DEF TypeOK, Refresh
  <1>1. AgentsServeRuns'
    BY DEF AgentsServeRuns, RunOf
  <1>2. AgentReadSuite'
    BY DEF AgentReadSuite, TypeOK, Refresh, AgentsServeRuns, StampedInOrder, Agent
  <1>3. IdleIsClean'
    <2>1. refresh'.pc = refresh.pc
      BY DEF TypeOK, Refresh
    <2>2. ~Live => refresh = NoRefresh
      BY DEF IdleIsClean
    <2>3. ~Live => refresh' = NoRefresh
      <3> SUFFICES ASSUME ~Live PROVE refresh' = NoRefresh
        OBVIOUS
      <3>1. refresh' = [NoRefresh EXCEPT !.disturbed = FALSE]
        BY <2>2
      <3>2. QED
        BY <3>1 DEF NoRefresh
    <2>4. QED
      BY <2>1, <2>3 DEF IdleIsClean
  <1>4. StampedInOrder'
    BY DEF StampedInOrder
  <1>5. Replaced'
    BY DEF Replaced, Accomplished, RunOf, TypeOK, Refresh
  <1>6. StampsVouch'
    BY DEF StampsVouch, PutBack, TypeOK, Refresh
  <1>7. RestoredExactly'
    BY DEF RestoredExactly, PutBack
  <1>8. QED
    BY <1>0, <1>1, <1>2, <1>3, <1>4, <1>5, <1>6, <1>7

LEMMA StartStep ==
  ASSUME IInv, Start
  PROVE  IInv'
  <1> USE Constants, NoAgentType DEF IInv, Start, NoRefresh, Stages, Derived, Files,
          Working, Restoring, Live
  <1>0. TypeOK'
    <2>1. refresh' \in Refresh
      BY DEF TypeOK, Refresh
    <2>2. runs' \in Runs
      BY DEF TypeOK, Runs
    <2>3. QED
      BY <2>1, <2>2 DEF TypeOK
  <1>1. AgentsServeRuns'
    BY DEF AgentsServeRuns, RunOf, TypeOK, Refresh, StampedInOrder, Agent
  <1>2. AgentReadSuite'
    BY DEF AgentReadSuite, TypeOK, Refresh, AgentsServeRuns, StampedInOrder, Agent
  <1>3. IdleIsClean'
    BY DEF IdleIsClean
  <1>4. StampedInOrder'
    BY DEF StampedInOrder
  <1>5. Replaced'
    BY DEF Replaced, Accomplished, RunOf
  <1>6. StampsVouch'
    BY DEF StampsVouch, PutBack
  <1>7. RestoredExactly'
    BY DEF RestoredExactly, PutBack
  <1>8. QED
    BY <1>0, <1>1, <1>2, <1>3, <1>4, <1>5, <1>6, <1>7

LEMMA AgentReadsStep ==
  ASSUME IInv, NEW k \in {"awaited", "orphan"}, AgentReads(k)
  PROVE  IInv'
  <1> USE Constants, NoAgentType DEF IInv, AgentReads, Stages, Derived, Files,
          Working, Restoring, Live
  <1>0. TypeOK'
    BY DEF TypeOK, Refresh, Agent
  <1>1. AgentsServeRuns'
    BY DEF AgentsServeRuns, RunOf, TypeOK, Refresh
  <1>2. AgentReadSuite'
    BY DEF AgentReadSuite
  <1>3. IdleIsClean'
    BY DEF IdleIsClean
  <1>4. StampedInOrder'
    BY DEF StampedInOrder
  <1>5. Replaced'
    BY DEF Replaced, Accomplished, RunOf
  <1>6. StampsVouch'
    BY DEF StampsVouch, PutBack
  <1>7. RestoredExactly'
    BY DEF RestoredExactly, PutBack
  <1>8. QED
    BY <1>0, <1>1, <1>2, <1>3, <1>4, <1>5, <1>6, <1>7

LEMMA WritePrioritizationStep ==
  ASSUME IInv, NEW k \in {"awaited", "orphan"}, WritePrioritization(k)
  PROVE  IInv'
  <1> USE Constants, NoAgentType DEF IInv, WritePrioritization, Stages, Derived,
          Files, Working, Restoring, Live
  <1> DEFINE f == "automation-prioritization"
  <1>a. agent[k].stage # None /\ agent[k].read # None
    BY DEF AgentsServeRuns
  <1>b. Written(k, f)
    BY <1>a, WriteFrame
  <1>0. TypeOK'
    BY <1>b DEF Written, TypeOK
  <1>1. AgentsServeRuns'
    BY <1>b DEF Written, AgentsServeRuns, RunOf
  <1>2. AgentReadSuite'
    BY <1>b DEF Written, AgentReadSuite
  <1>3. IdleIsClean'
    BY <1>b DEF Written, IdleIsClean
  <1>4. StampedInOrder'
    BY <1>b DEF Written, StampedInOrder
  <1>5. Replaced'
    BY <1>b DEF Written, Replaced, Accomplished, RunOf, TypeOK, Refresh, AgentsServeRuns,
           StampedInOrder, IdleIsClean, Agent, Snapshot, AgentReadSuite
  <1>6. StampsVouch'
    BY <1>b DEF Written, StampsVouch, PutBack, TypeOK, Refresh, AgentsServeRuns,
           StampedInOrder, IdleIsClean, Agent, Snapshot, AgentReadSuite
  <1>7. RestoredExactly'
    BY <1>b DEF Written, RestoredExactly, PutBack, TypeOK, Refresh, AgentsServeRuns
  <1>8. QED
    BY <1>0, <1>1, <1>2, <1>3, <1>4, <1>5, <1>6, <1>7

LEMMA WriteBugReportsStep ==
  ASSUME IInv, NEW k \in {"awaited", "orphan"}, WriteBugReports(k)
  PROVE  IInv'
  <1> USE Constants, NoAgentType DEF IInv, WriteBugReports, Stages, Derived, Files,
          Working, Restoring, Live
  <1> DEFINE f == "bugs"
  <1>a. agent[k].stage # None /\ agent[k].read # None
    BY DEF AgentsServeRuns
  <1>b. Written(k, f)
    BY <1>a, WriteFrame
  <1>0. TypeOK'
    <2>1. agent' \in [{"awaited", "orphan"} -> Agent]
      BY DEF TypeOK, Agent
    <2>2. QED
      BY <1>b, <2>1 DEF Written, TypeOK
  <1>1. AgentsServeRuns'
    BY <1>b DEF Written, AgentsServeRuns, RunOf
  <1>2. AgentReadSuite'
    BY <1>b DEF Written, AgentReadSuite, TypeOK, Refresh
  <1>3. IdleIsClean'
    BY <1>b DEF Written, IdleIsClean
  <1>4. StampedInOrder'
    BY <1>b DEF Written, StampedInOrder
  <1>5. Replaced'
    BY <1>b DEF Written, Replaced, Accomplished, RunOf, TypeOK, Refresh, AgentsServeRuns
  <1>6. StampsVouch'
    BY <1>b DEF Written, StampsVouch, PutBack, TypeOK, Refresh
  <1>7. RestoredExactly'
    BY <1>b DEF Written, RestoredExactly, PutBack, TypeOK, Refresh, AgentsServeRuns
  <1>8. QED
    BY <1>0, <1>1, <1>2, <1>3, <1>4, <1>5, <1>6, <1>7

LEMMA WriteAnalysisStep ==
  ASSUME IInv, NEW k \in {"awaited", "orphan"}, WriteAnalysis(k)
  PROVE  IInv'
  <1> USE Constants, NoAgentType DEF IInv, WriteAnalysis, Stages, Derived, Files,
          Working, Restoring, Live
  <1> DEFINE f == "defect-analysis"
  <1>a. agent[k].stage # None /\ agent[k].read # None
    BY DEF AgentsServeRuns
  <1>b. Written(k, f)
    BY <1>a, WriteFrame
  <1>0. TypeOK'
    <2>1. agent' \in [{"awaited", "orphan"} -> Agent]
      BY DEF TypeOK, Agent
    <2>2. QED
      BY <1>b, <2>1 DEF Written, TypeOK
  <1>1. AgentsServeRuns'
    BY <1>b DEF Written, AgentsServeRuns, RunOf
  <1>2. AgentReadSuite'
    BY <1>b DEF Written, AgentReadSuite, TypeOK, Refresh
  <1>3. IdleIsClean'
    BY <1>b DEF Written, IdleIsClean
  <1>4. StampedInOrder'
    BY <1>b DEF Written, StampedInOrder
  <1>5. Replaced'
    BY <1>b DEF Written, Replaced, Accomplished, RunOf, TypeOK, Refresh, AgentsServeRuns,
           StampedInOrder, IdleIsClean, Agent, Snapshot, AgentReadSuite
  <1>6. StampsVouch'
    BY <1>b DEF Written, StampsVouch, PutBack, TypeOK, Refresh, AgentsServeRuns,
           StampedInOrder, IdleIsClean, Agent, Snapshot, AgentReadSuite
  <1>7. RestoredExactly'
    BY <1>b DEF Written, RestoredExactly, PutBack, TypeOK, Refresh, AgentsServeRuns
  <1>8. QED
    BY <1>0, <1>1, <1>2, <1>3, <1>4, <1>5, <1>6, <1>7

LEMMA AgentEndsStep ==
  ASSUME IInv, NEW k \in {"awaited", "orphan"}, AgentEnds(k)
  PROVE  IInv'
  <1> USE Constants, NoAgentType DEF IInv, AgentEnds, NoAgent, Stages, Derived, Files,
          Working, Restoring, Live
  <1>0. TypeOK'
    BY DEF TypeOK
  <1>1. AgentsServeRuns'
    BY DEF AgentsServeRuns, RunOf
  <1>2. AgentReadSuite'
    BY DEF AgentReadSuite
  <1>3. IdleIsClean'
    BY DEF IdleIsClean
  <1>4. StampedInOrder'
    BY DEF StampedInOrder
  <1>5. Replaced'
    BY DEF Replaced, Accomplished, RunOf
  <1>6. StampsVouch'
    BY DEF StampsVouch, PutBack
  <1>7. RestoredExactly'
    BY DEF RestoredExactly, PutBack
  <1>8. QED
    BY <1>0, <1>1, <1>2, <1>3, <1>4, <1>5, <1>6, <1>7

LEMMA StartAttemptStep ==
  ASSUME IInv, StartAttempt
  PROVE  IInv'
  <1> USE Constants, NoAgentType DEF IInv, StartAttempt, AtStage, Stages, Derived,
          Files, Working, Restoring, Live
  <1>0. TypeOK'
    BY DEF TypeOK, Refresh, Agent
  <1>1. AgentsServeRuns'
    BY DEF AgentsServeRuns, RunOf
  <1>2. AgentReadSuite'
    BY DEF AgentReadSuite
  <1>3. IdleIsClean'
    BY DEF IdleIsClean
  <1>4. StampedInOrder'
    BY DEF StampedInOrder
  <1>5. Replaced'
    BY DEF Replaced, Accomplished, RunOf
  <1>6. StampsVouch'
    BY DEF StampsVouch, PutBack
  <1>7. RestoredExactly'
    BY DEF RestoredExactly, PutBack
  <1>8. QED
    BY <1>0, <1>1, <1>2, <1>3, <1>4, <1>5, <1>6, <1>7

LEMMA StagePassesStep ==
  ASSUME IInv, StagePasses
  PROVE  IInv'
  <1> USE Constants, NoAgentType DEF IInv, StagePasses, AtStage, Accepted, Stages,
          Derived, Files, Working, Restoring, Live
  <1>0. TypeOK'
    BY DEF TypeOK, Refresh
  <1>1. AgentsServeRuns'
    BY DEF AgentsServeRuns, RunOf
  <1>2. AgentReadSuite'
    BY DEF AgentReadSuite
  <1>3. IdleIsClean'
    BY DEF IdleIsClean
  <1>4. StampedInOrder'
    BY DEF StampedInOrder
  <1>5. Replaced'
    BY DEF Replaced, Accomplished, RunOf
  <1>6. StampsVouch'
    BY DEF StampsVouch, PutBack
  <1>7. RestoredExactly'
    BY DEF RestoredExactly, PutBack
  <1>8. QED
    BY <1>0, <1>1, <1>2, <1>3, <1>4, <1>5, <1>6, <1>7

LEMMA StageFailsStep ==
  ASSUME IInv, StageFails
  PROVE  IInv'
  <1> USE Constants, NoAgentType DEF IInv, StageFails, AtStage, Stages, Derived,
          Files, Working, Restoring, Live
  <1>0. TypeOK'
    BY DEF TypeOK, Refresh
  <1>1. AgentsServeRuns'
    BY DEF AgentsServeRuns, RunOf
  <1>2. AgentReadSuite'
    BY DEF AgentReadSuite
  <1>3. IdleIsClean'
    BY DEF IdleIsClean
  <1>4. StampedInOrder'
    BY DEF StampedInOrder
  <1>5. Replaced'
    BY DEF Replaced, Accomplished, RunOf
  <1>6. StampsVouch'
    BY DEF StampsVouch, PutBack
  <1>7. RestoredExactly'
    BY DEF RestoredExactly, PutBack
  <1>8. QED
    BY <1>0, <1>1, <1>2, <1>3, <1>4, <1>5, <1>6, <1>7

LEMMA StampPrioritizationStep ==
  ASSUME IInv, StampDependency("automation-prioritization", "stampPrioritization", "stampDefects")
  PROVE  IInv'
  <1> USE Constants, NoAgentType DEF IInv, StampDependency, Stages, Derived, Files,
          Working, Restoring, Live
  <1>0. TypeOK'
    BY DEF TypeOK, Refresh
  <1>1. AgentsServeRuns'
    BY DEF AgentsServeRuns, RunOf, TypeOK, Refresh, StampedInOrder, Agent
  <1>2. AgentReadSuite'
    BY DEF AgentReadSuite
  <1>3. IdleIsClean'
    BY DEF IdleIsClean
  <1>4. StampedInOrder'
    BY DEF StampedInOrder
  <1>5. Replaced'
    BY DEF Replaced, Accomplished, RunOf
  <1>6. StampsVouch'
    <2> DEFINE a == "automation-prioritization"
    <2>1. /\ file' = file /\ stamp'[a] = suite
          /\ \A b \in Derived \ {a} : stamp'[b] = stamp[b] /\ (b \in doubtful' <=> b \in doubtful)
          /\ refresh'.backup = refresh.backup /\ refresh'.stamped = refresh.stamped \cup {a}
          /\ refresh'.disturbed = refresh.disturbed
          /\ refresh'.pc # "idle" /\ refresh.pc # "idle"
          /\ PutBack = {} /\ PutBack' = {}
          /\ a \notin refresh.stamped
          /\ a \notin doubtful' => ~refresh.disturbed
      BY DEF TypeOK, Refresh, StampedInOrder, PutBack
    <2>2. a \notin doubtful' => file[a].from = suite
      BY <2>1 DEF Replaced, Accomplished
    <2>3. QED
      BY <2>1, <2>2 DEF StampsVouch
  <1>7. RestoredExactly'
    BY DEF RestoredExactly, PutBack
  <1>8. QED
    BY <1>0, <1>1, <1>2, <1>3, <1>4, <1>5, <1>6, <1>7

LEMMA StampDefectsStep ==
  ASSUME IInv, StampDependency("defect-analysis", "stampDefects", "finish")
  PROVE  IInv'
  <1> USE Constants, NoAgentType DEF IInv, StampDependency, Stages, Derived, Files,
          Working, Restoring, Live
  <1>0. TypeOK'
    BY DEF TypeOK, Refresh
  <1>1. AgentsServeRuns'
    BY DEF AgentsServeRuns, RunOf, TypeOK, Refresh, StampedInOrder, Agent
  <1>2. AgentReadSuite'
    BY DEF AgentReadSuite
  <1>3. IdleIsClean'
    BY DEF IdleIsClean
  <1>4. StampedInOrder'
    BY DEF StampedInOrder
  <1>5. Replaced'
    BY DEF Replaced, Accomplished, RunOf
  <1>6. StampsVouch'
    <2> DEFINE a == "defect-analysis"
    <2>1. /\ file' = file /\ stamp'[a] = suite
          /\ \A b \in Derived \ {a} : stamp'[b] = stamp[b] /\ (b \in doubtful' <=> b \in doubtful)
          /\ refresh'.backup = refresh.backup /\ refresh'.stamped = refresh.stamped \cup {a}
          /\ refresh'.disturbed = refresh.disturbed
          /\ refresh'.pc # "idle" /\ refresh.pc # "idle"
          /\ PutBack = {} /\ PutBack' = {}
          /\ a \notin refresh.stamped
          /\ a \notin doubtful' => ~refresh.disturbed
      BY DEF TypeOK, Refresh, StampedInOrder, PutBack
    <2>2. a \notin doubtful' => file[a].from = suite
      BY <2>1 DEF Replaced, Accomplished
    <2>3. QED
      BY <2>1, <2>2 DEF StampsVouch
  <1>7. RestoredExactly'
    BY DEF RestoredExactly, PutBack
  <1>8. QED
    BY <1>0, <1>1, <1>2, <1>3, <1>4, <1>5, <1>6, <1>7

LEMMA FinishStep ==
  ASSUME IInv, Finish
  PROVE  IInv'
  <1> USE Constants, NoAgentType DEF IInv, Finish, NoRefresh, Stages, Derived, Files,
          Working, Restoring, Live
  <1>0. TypeOK'
    BY DEF TypeOK
  <1>1. AgentsServeRuns'
    BY DEF AgentsServeRuns, RunOf, TypeOK, Refresh, StampedInOrder, Agent
  <1>2. AgentReadSuite'
    BY DEF AgentReadSuite, TypeOK, Refresh, AgentsServeRuns, StampedInOrder, Agent
  <1>3. IdleIsClean'
    BY DEF IdleIsClean
  <1>4. StampedInOrder'
    BY DEF StampedInOrder
  <1>5. Replaced'
    BY DEF Replaced, Accomplished, RunOf
  <1>6. StampsVouch'
    BY DEF StampsVouch, PutBack, TypeOK, Refresh, AgentsServeRuns, StampedInOrder
  <1>7. RestoredExactly'
    BY DEF RestoredExactly, PutBack
  <1>8. QED
    BY <1>0, <1>1, <1>2, <1>3, <1>4, <1>5, <1>6, <1>7

LEMMA ThrowsStep ==
  ASSUME IInv, Throws
  PROVE  IInv'
  <1> USE Constants, NoAgentType DEF IInv, Throws, Stages, Derived, Files, Working,
          Restoring, Live
  <1>0. TypeOK'
    BY DEF TypeOK, Refresh
  <1>1. AgentsServeRuns'
    BY DEF AgentsServeRuns, RunOf, TypeOK, Refresh, StampedInOrder, Agent
  <1>2. AgentReadSuite'
    BY DEF AgentReadSuite
  <1>3. IdleIsClean'
    BY DEF IdleIsClean
  <1>4. StampedInOrder'
    BY DEF StampedInOrder
  <1>5. Replaced'
    BY DEF Replaced, Accomplished, RunOf
  <1>6. StampsVouch'
    BY DEF StampsVouch, PutBack
  <1>7. RestoredExactly'
    BY DEF RestoredExactly, PutBack
  <1>8. QED
    BY <1>0, <1>1, <1>2, <1>3, <1>4, <1>5, <1>6, <1>7

LEMMA RestorePrioritizationStep ==
  ASSUME IInv, Restore("automation-prioritization", "restorePrioritization", "restoreDefects")
  PROVE  IInv'
  <1> USE Constants, NoAgentType DEF IInv, Restore, Stages, Derived, Files, Working,
          Restoring, Live
  <1>0. TypeOK'
    BY DEF TypeOK, Refresh, Agent, Snapshot
  <1>1. AgentsServeRuns'
    BY DEF AgentsServeRuns, RunOf, TypeOK, Refresh, StampedInOrder, Agent
  <1>2. AgentReadSuite'
    BY DEF AgentReadSuite
  <1>3. IdleIsClean'
    BY DEF IdleIsClean
  <1>4. StampedInOrder'
    BY DEF StampedInOrder
  <1>5. Replaced'
    BY DEF Replaced, Accomplished, RunOf
  <1>6. StampsVouch'
    BY DEF StampsVouch, PutBack, TypeOK, Refresh, AgentsServeRuns, StampedInOrder,
           IdleIsClean, Agent, Snapshot, AgentReadSuite
  <1>7. RestoredExactly'
    BY DEF RestoredExactly, PutBack, TypeOK, Refresh, AgentsServeRuns,
           StampedInOrder, IdleIsClean, Agent, Snapshot, AgentReadSuite
  <1>8. QED
    BY <1>0, <1>1, <1>2, <1>3, <1>4, <1>5, <1>6, <1>7

LEMMA RestoreDefectsStep ==
  ASSUME IInv, Restore("defect-analysis", "restoreDefects", "restoreBugs")
  PROVE  IInv'
  <1> USE Constants, NoAgentType DEF IInv, Restore, Stages, Derived, Files, Working,
          Restoring, Live
  <1>0. TypeOK'
    BY DEF TypeOK, Refresh, Agent, Snapshot
  <1>1. AgentsServeRuns'
    BY DEF AgentsServeRuns, RunOf, TypeOK, Refresh, StampedInOrder, Agent
  <1>2. AgentReadSuite'
    BY DEF AgentReadSuite
  <1>3. IdleIsClean'
    BY DEF IdleIsClean
  <1>4. StampedInOrder'
    BY DEF StampedInOrder
  <1>5. Replaced'
    BY DEF Replaced, Accomplished, RunOf
  <1>6. StampsVouch'
    BY DEF StampsVouch, PutBack, TypeOK, Refresh, AgentsServeRuns, StampedInOrder,
           IdleIsClean, Agent, Snapshot, AgentReadSuite
  <1>7. RestoredExactly'
    BY DEF RestoredExactly, PutBack, TypeOK, Refresh, AgentsServeRuns,
           StampedInOrder, IdleIsClean, Agent, Snapshot, AgentReadSuite
  <1>8. QED
    BY <1>0, <1>1, <1>2, <1>3, <1>4, <1>5, <1>6, <1>7

LEMMA RestoreBugsStep ==
  ASSUME IInv, Restore("bugs", "restoreBugs", "failed")
  PROVE  IInv'
  <1> USE Constants, NoAgentType DEF IInv, Restore, Stages, Derived, Files, Working,
          Restoring, Live
  <1>0. TypeOK'
    BY DEF TypeOK, Refresh, Agent, Snapshot
  <1>1. AgentsServeRuns'
    BY DEF AgentsServeRuns, RunOf, TypeOK, Refresh, StampedInOrder, Agent
  <1>2. AgentReadSuite'
    BY DEF AgentReadSuite
  <1>3. IdleIsClean'
    BY DEF IdleIsClean
  <1>4. StampedInOrder'
    BY DEF StampedInOrder
  <1>5. Replaced'
    BY DEF Replaced, Accomplished, RunOf
  <1>6. StampsVouch'
    BY DEF StampsVouch, PutBack
  <1>7. RestoredExactly'
    BY DEF RestoredExactly, PutBack, TypeOK, Refresh, AgentsServeRuns,
           StampedInOrder, IdleIsClean, Agent, Snapshot, AgentReadSuite
  <1>8. QED
    BY <1>0, <1>1, <1>2, <1>3, <1>4, <1>5, <1>6, <1>7

LEMMA EndFailedStep ==
  ASSUME IInv, EndFailed
  PROVE  IInv'
  <1> USE Constants, NoAgentType DEF IInv, EndFailed, NoRefresh, Stages, Derived,
          Files, Working, Restoring, Live
  <1>0. TypeOK'
    BY DEF TypeOK
  <1>1. AgentsServeRuns'
    BY DEF AgentsServeRuns, RunOf, TypeOK, Refresh, StampedInOrder, Agent
  <1>2. AgentReadSuite'
    BY DEF AgentReadSuite, TypeOK, Refresh, AgentsServeRuns, StampedInOrder, Agent
  <1>3. IdleIsClean'
    BY DEF IdleIsClean
  <1>4. StampedInOrder'
    BY DEF StampedInOrder
  <1>5. Replaced'
    BY DEF Replaced, Accomplished, RunOf
  <1>6. StampsVouch'
    BY DEF StampsVouch, PutBack
  <1>7. RestoredExactly'
    BY DEF RestoredExactly, PutBack
  <1>8. QED
    BY <1>0, <1>1, <1>2, <1>3, <1>4, <1>5, <1>6, <1>7

LEMMA CrashStep ==
  ASSUME IInv, Crash
  PROVE  IInv'
  <1> USE Constants, NoAgentType DEF IInv, Crash, NoRefresh, NoAgent, Stages, Derived,
          Files, Working, Restoring, Live
  <1>0. TypeOK'
    BY DEF TypeOK
  <1>1. AgentsServeRuns'
    BY DEF AgentsServeRuns, RunOf, TypeOK, Refresh
  <1>2. AgentReadSuite'
    BY DEF AgentReadSuite, TypeOK, Refresh
  <1>3. IdleIsClean'
    BY DEF IdleIsClean
  <1>4. StampedInOrder'
    BY DEF StampedInOrder
  <1>5. Replaced'
    BY DEF Replaced, Accomplished, RunOf
  <1>6. StampsVouch'
    BY DEF StampsVouch, PutBack
  <1>7. RestoredExactly'
    BY DEF RestoredExactly, PutBack
  <1>8. QED
    BY <1>0, <1>1, <1>2, <1>3, <1>4, <1>5, <1>6, <1>7

-----------------------------------------------------------------------------
LEMMA NextIInv == IInv /\ [Next]_vars => IInv'
  <1> SUFFICES ASSUME IInv, [Next]_vars PROVE IInv'
    OBVIOUS
  <1>1. CASE UNCHANGED vars
    BY <1>1 DEF vars, IInv, TypeOK, AgentsServeRuns, AgentReadSuite, IdleIsClean, StampedInOrder,
                Replaced, Accomplished, StampsVouch, RestoredExactly, PutBack, Live
  <1>2. CASE Next
    BY <1>2, ApplyChangeStep, StartStep, AgentReadsStep, WritePrioritizationStep,
       WriteBugReportsStep, WriteAnalysisStep, AgentEndsStep, StartAttemptStep,
       StagePassesStep, StageFailsStep, StampPrioritizationStep, StampDefectsStep,
       FinishStep, ThrowsStep, RestorePrioritizationStep, RestoreDefectsStep,
       RestoreBugsStep, EndFailedStep, CrashStep
       DEF Next
  <1>3. QED
    BY <1>1, <1>2

(* The invariant holds of every behaviour, for any suites and any number   *)
(* of refreshes.                                                           *)
THEOREM RefreshInvariant == Spec => []IInv
  BY InitIInv, NextIInv, PTL DEF Spec

(* An artifact that reads CURRENT by its stamp (dependencyState) was made  *)
(* from the suite on disk, unless its stamp no longer vouches for it.      *)
THEOREM CurrentVouched == Spec => []CurrentIsDerived
  <1>1. IInv => CurrentIsDerived
    BY DEF IInv, StampsVouch, CurrentIsDerived, DependencyState, TypeOK
  <1>2. QED
    BY <1>1, RefreshInvariant, PTL

-----------------------------------------------------------------------------
(* The refinement of AllOrNothing. *)

(* A reader's set is of one run, or torn. *)
LEMMA SetOfType ==
  ASSUME NEW f \in Snapshot
  PROVE  SetOf(f) \in Runs \cup {Torn}
  BY Constants DEF SetOf, RunOf, Snapshot, Content, Files

LEMMA SetOfRun ==
  ASSUME NEW f \in Snapshot, NEW r \in Runs, \A x \in Files : RunOf(f[x]) = r
  PROVE  SetOf(f) = r
  BY DEF SetOf, Files

LEMMA SetOfSame ==
  ASSUME NEW f, NEW g, \A x \in Files : f[x] = g[x]
  PROVE  SetOf(f) = SetOf(g)
  BY DEF SetOf, Files

(* No refresh begins or ends, and no file is written while none is at work. *)
LEMMA Stutter ==
  ASSUME UNCHANGED <<runs, died>>, Live <=> Live',
         refresh'.backup = refresh.backup, ~Live => UNCHANGED file
  PROVE  UNCHANGED Whole!vars
  BY DEF Whole!vars, Live

LEMMA WriteMaps ==
  ASSUME IInv, IInv', NEW k \in {"awaited", "orphan"}, NEW f \in Files,
         agent[k].stage # None, AgentWrites(k, f)
  PROVE  [Whole!Next]_(Whole!vars)
  <1>1. /\ UNCHANGED <<runs, died>>
        /\ Live <=> Live'
        /\ refresh'.backup = refresh.backup
    BY DEF AgentWrites, Noticed, Live, IInv, TypeOK, Refresh
  <1>2. CASE Live
    BY <1>1, <1>2, Stutter
  <1>3. CASE ~Live
    <2>1. died
      BY <1>3, Constants DEF IInv, TypeOK, Agent, AgentsServeRuns, Live, Stages
    <2>2. SetOf(file') \in Runs \cup {Torn}
      BY SetOfType DEF IInv, TypeOK
    <2>3. Whole!Disturb
      BY <1>1, <1>3, <2>1, <2>2 DEF Whole!Disturb
    <2>4. QED
      BY <2>3 DEF Whole!Next
  <1>4. QED
    BY <1>2, <1>3

LEMMA StepMaps == IInv /\ IInv' /\ [Next]_vars => [Whole!Next]_(Whole!vars)
  <1> SUFFICES ASSUME IInv, IInv', [Next]_vars PROVE [Whole!Next]_(Whole!vars)
    OBVIOUS
  <1> USE DEF Live
  <1>1. refresh \in Refresh
    BY DEF IInv, TypeOK
  <1>2. SetOf(file) \in Runs \cup {Torn} /\ SetOf(file') \in Runs \cup {Torn}
    BY SetOfType DEF IInv, TypeOK
  <1>3. CASE UNCHANGED vars
    BY <1>3, Stutter DEF vars
  <1>4. ASSUME NEW s \in Suites, ApplyChange(s) PROVE UNCHANGED Whole!vars
    BY <1>1, <1>4, Stutter DEF ApplyChange, Refresh
  <1>5. CASE Start
    <2>1. refresh'.backup = file /\ Live' /\ ~Live
      BY <1>5 DEF Start, NoRefresh
    <2>2. Whole!Begin
      BY <1>5, <2>1 DEF Start, Whole!Begin
    <2>3. QED
      BY <2>2 DEF Whole!Next
  <1>6. ASSUME NEW k \in {"awaited", "orphan"}, AgentReads(k) \/ AgentEnds(k)
        PROVE  UNCHANGED Whole!vars
    BY <1>6, Stutter DEF AgentReads, AgentEnds
  <1>7. ASSUME NEW k \in {"awaited", "orphan"},
               WritePrioritization(k) \/ WriteBugReports(k) \/ WriteAnalysis(k)
        PROVE  [Whole!Next]_(Whole!vars)
    BY <1>7, WriteMaps, Constants
       DEF WritePrioritization, WriteBugReports, WriteAnalysis, Files, Derived, IInv,
           AgentsServeRuns, Stages
  <1>8. CASE StartAttempt \/ StagePasses \/ StageFails
    BY <1>1, <1>8, Stutter DEF StartAttempt, StagePasses, StageFails, AtStage, Refresh, Stages
  <1>9. ASSUME NEW a, NEW at, NEW next, next # "idle", at # "idle", StampDependency(a, at, next)
        PROVE  UNCHANGED Whole!vars
    BY <1>1, <1>9, Stutter DEF StampDependency, Refresh
  <1>10. CASE Throws
    BY <1>1, <1>10, Stutter DEF Throws, Refresh, Working, Stages
  <1>11. ASSUME NEW f, NEW at, NEW next, next # "idle", at # "idle", Restore(f, at, next)
         PROVE  UNCHANGED Whole!vars
    BY <1>1, <1>11, Stutter DEF Restore, Refresh
  <1>12. CASE Finish
    <2>1. ~died => SetOf(file) = runs
      BY <1>12, SetOfRun
         DEF Finish, IInv, TypeOK, Replaced, Accomplished, Files
    <2>2. Whole!Complete
      BY <1>2, <1>12, <2>1 DEF Finish, NoRefresh, Whole!Complete, Whole!Leaves
    <2>3. QED
      BY <2>2 DEF Whole!Next
  <1>13. CASE EndFailed
    <2>1. ~died => SetOf(file) = SetOf(refresh.backup)
      BY <1>13, SetOfSame DEF EndFailed, IInv, RestoredExactly, PutBack
    <2>2. Whole!Fail
      BY <1>2, <1>13, <2>1 DEF EndFailed, NoRefresh, Whole!Fail, Whole!Leaves
    <2>3. QED
      BY <2>2 DEF Whole!Next
  <1>14. CASE Crash
    <2>1. Whole!Die
      BY <1>2, <1>14 DEF Crash, NoRefresh, Whole!Die
    <2>2. QED
      BY <2>1 DEF Whole!Next
  <1>15. QED
    BY <1>3, <1>4, <1>5, <1>6, <1>7, <1>8, <1>9, <1>10, <1>11, <1>12, <1>13, <1>14 DEF Next

(* A refresh is all or nothing (docs/RUNBOOK.md:303-308): every behaviour  *)
(* of the refresh is one of AllOrNothing.                                  *)
THEOREM AllOrNothingImplemented == Spec => RefreshIsAllOrNothing
  <1>1. Init => Whole!Init
    <2> SUFFICES ASSUME Init PROVE Whole!Init
      OBVIOUS
    <2>1. ~Live
      BY DEF Init, Live, NoRefresh
    <2>2. \A x \in Files : RunOf(file[x]) = 0
      BY DEF Init, RunOf, NoFiles
    <2>3. SetOf(file) = 0
      BY <2>2, Constants DEF SetOf, Files
    <2>4. QED
      BY <2>1, <2>3 DEF Whole!Init, Init
  <1>2. QED
    BY <1>1, StepMaps, RefreshInvariant, PTL DEF Spec, RefreshIsAllOrNothing, Whole!Spec

-----------------------------------------------------------------------------
(* The run lock.  LockInv says what each actor knows while the read it has  *)
(* made of run.lock is still up to date; the two properties follow from it. *)

USE LockAssumption

(* At the start no process exists and there is no lock file. *)
LEMMA InitLockInv == LockInit => LockInv
  BY DEF LockInit, LockInv, LockTypeOK, States, ClaimsAreLive, OneSectionPerProcess, ReapedIsDead,
         OneHolderPerProcess, HoldersAreNamed, CheckedFoundItFree, InWindow

(* Every step keeps the types of the variables. *)
LEMMA LockTypeStep == LockTypeOK /\ [LockNext]_lockVars => LockTypeOK'
  <1> SUFFICES ASSUME LockTypeOK, [LockNext]_lockVars PROVE LockTypeOK'
    OBVIOUS
  <1> USE DEF LockTypeOK, States
  <1>1. ASSUME NEW p \in Pids, StartFromTerminal(p) PROVE LockTypeOK'
    BY <1>1 DEF StartFromTerminal
  <1>2. ASSUME NEW p \in Pids, StartFromWorkspace(p) PROVE LockTypeOK'
    BY <1>2 DEF StartFromWorkspace
  <1>3. ASSUME NEW p \in Pids, Exit(p) PROVE LockTypeOK'
    BY <1>3 DEF Exit
  <1>4. ASSUME NEW p \in Pids, Kill(p) PROVE LockTypeOK'
    BY <1>4 DEF Kill
  <1>5. ASSUME NEW c \in Claims, Check(c) PROVE LockTypeOK'
    BY <1>5 DEF Check
  <1>6. ASSUME NEW c \in Claims, Write(c) PROVE LockTypeOK'
    BY <1>6 DEF Write, ChangeLock, Pending, InWindow
  <1>7. ASSUME NEW c \in Claims, Release(c) PROVE LockTypeOK'
    BY <1>7 DEF Release
  <1>8. ASSUME NEW c \in Claims, Remove(c) PROVE LockTypeOK'
    BY <1>8 DEF Remove, ChangeLock, Pending, InWindow
  <1>9. CASE Reap
    BY <1>9 DEF Reap
  <1>10. CASE ReapRemove
    BY <1>10 DEF ReapRemove, ChangeLock, Pending, InWindow
  <1>11. CASE UNCHANGED lockVars
    BY <1>11 DEF lockVars
  <1>12. QED
    BY <1>1, <1>2, <1>3, <1>4, <1>5, <1>6, <1>7, <1>8, <1>9, <1>10, <1>11 DEF LockNext

(* Every step keeps what is true of the processes alone: a claim under way *)
(* belongs to a live process, the read-then-change sections of one process *)
(* do not interleave, and the workspace cleans up after a dead child only. *)
LEMMA ProcessStep ==
  LockTypeOK /\ ClaimsAreLive /\ OneSectionPerProcess /\ ReapedIsDead /\ [LockNext]_lockVars
    => (ClaimsAreLive /\ OneSectionPerProcess /\ ReapedIsDead)'
  <1> SUFFICES ASSUME LockTypeOK, ClaimsAreLive, OneSectionPerProcess, ReapedIsDead, [LockNext]_lockVars
               PROVE  (ClaimsAreLive /\ OneSectionPerProcess /\ ReapedIsDead)'
    OBVIOUS
  <1> DEFINE Goal == ClaimsAreLive /\ OneSectionPerProcess /\ ReapedIsDead
  <1> USE DEF LockTypeOK, States, ClaimsAreLive, OneSectionPerProcess, ReapedIsDead, InWindow
  <1>1. ASSUME NEW p \in Pids, StartFromTerminal(p) PROVE Goal'
    BY <1>1 DEF StartFromTerminal
  <1>2. ASSUME NEW p \in Pids, StartFromWorkspace(p) PROVE Goal'
    BY <1>2 DEF StartFromWorkspace, Busy
  <1>3. ASSUME NEW p \in Pids, Exit(p) PROVE Goal'
    BY <1>3 DEF Exit, Busy, ClaimsOf
  <1>4. ASSUME NEW p \in Pids, Kill(p) PROVE Goal'
    BY <1>4 DEF Kill, ClaimsOf
  <1>5. ASSUME NEW c \in Claims, Check(c) PROVE Goal'
    BY <1>5 DEF Check, Busy, ClaimsOf
  <1>6. ASSUME NEW c \in Claims, Write(c) PROVE Goal'
    BY <1>6 DEF Write, ChangeLock, Pending
  <1>7. ASSUME NEW c \in Claims, Release(c) PROVE Goal'
    BY <1>7 DEF Release, Busy, ClaimsOf
  <1>8. ASSUME NEW c \in Claims, Remove(c) PROVE Goal'
    BY <1>8 DEF Remove, ChangeLock, Pending
  <1>9. CASE Reap
    BY <1>9 DEF Reap, Busy, ClaimsOf
  <1>10. CASE ReapRemove
    BY <1>10 DEF ReapRemove, ChangeLock, Pending
  <1>11. CASE UNCHANGED lockVars
    BY <1>11 DEF lockVars
  <1>12. QED
    BY <1>1, <1>2, <1>3, <1>4, <1>5, <1>6, <1>7, <1>8, <1>9, <1>10, <1>11 DEF LockNext

(* What the actors know of the lock while nothing stale and nothing nested *)
(* has happened.                                                           *)
Knowledge ==
    ~stale /\ ~nested => OneHolderPerProcess /\ HoldersAreNamed /\ CheckedFoundItFree

(* A step that neither touches the lock file nor moves a claim forward     *)
(* leaves that knowledge alone.                                            *)
LEMMA ProcessesKeepKnowledge ==
  ASSUME LockTypeOK, Knowledge, UNCHANGED <<lockFile, stale, nested>>,
         \A c \in Claims : pc'[c] = pc[c] \/ pc'[c] = "idle",
         \A c \in Claims : pc'[c] # "idle" => (c \in overtaken' <=> c \in overtaken)
  PROVE  Knowledge'
  BY DEF LockTypeOK, States, Knowledge, OneHolderPerProcess, HoldersAreNamed, CheckedFoundItFree

(* Every step keeps the knowledge, or is one of the two the history        *)
(* variables record.                                                       *)
LEMMA KnowledgeStep == LockInv /\ [LockNext]_lockVars => Knowledge'
  <1> SUFFICES ASSUME LockInv, [LockNext]_lockVars PROVE Knowledge'
    OBVIOUS
  <1>0. LockTypeOK /\ Knowledge
    BY DEF LockInv, Knowledge
  <1>1. ASSUME NEW p \in Pids, StartFromTerminal(p) PROVE Knowledge'
    BY <1>0, <1>1, ProcessesKeepKnowledge DEF StartFromTerminal
  <1>2. ASSUME NEW p \in Pids, StartFromWorkspace(p) PROVE Knowledge'
    BY <1>0, <1>2, ProcessesKeepKnowledge DEF StartFromWorkspace
  <1>3. ASSUME NEW p \in Pids, Exit(p) PROVE Knowledge'
    BY <1>0, <1>3, ProcessesKeepKnowledge DEF Exit
  <1>4. ASSUME NEW p \in Pids, Kill(p) PROVE Knowledge'
    <2>1. \A c \in Claims : pc'[c] = pc[c] \/ pc'[c] = "idle"
      BY <1>4 DEF Kill
    <2>2. \A c \in Claims : pc'[c] # "idle" => (c \in overtaken' <=> c \in overtaken)
      BY <1>4 DEF Kill, ClaimsOf
    <2>3. QED
      BY <1>0, <1>4, <2>1, <2>2, ProcessesKeepKnowledge DEF Kill
  <1> USE DEF LockInv, Knowledge, LockTypeOK, States
  <1>5. ASSUME NEW c \in Claims, Check(c) PROVE Knowledge'
    <2> SUFFICES ASSUME ~stale', ~nested'
                 PROVE  (OneHolderPerProcess /\ HoldersAreNamed /\ CheckedFoundItFree)'
      OBVIOUS
    <2>1. OneHolderPerProcess'
      BY <1>5 DEF Check, OneHolderPerProcess
    <2>2. HoldersAreNamed'
      BY <1>5 DEF Check, HoldersAreNamed
    (* A live holder is named by the file, and the check passed: it can only *)
    (* be c's own process.                                                   *)
    <2>3. CheckedFoundItFree'
      BY <1>5 DEF Check, HoldersAreNamed, CheckedFoundItFree, ClaimsAreLive, HeldByLiveProcess
    <2>4. QED
      BY <2>1, <2>2, <2>3
  <1>6. ASSUME NEW c \in Claims, Write(c) PROVE Knowledge'
    <2> SUFFICES ASSUME ~stale', ~nested'
                 PROVE  (OneHolderPerProcess /\ HoldersAreNamed /\ CheckedFoundItFree)'
      OBVIOUS
    <2>1. /\ ~stale /\ ~nested /\ c \notin overtaken
          /\ \A d \in Claims \ {c} : PidOf[d] = PidOf[c] => pc[d] # "working"
      BY <1>6 DEF Write, ChangeLock, ClaimsOf
    <2>2. \A d \in Claims \ {c} : PidOf[d] = PidOf[c] => pc[d] # "releasing"
      BY <1>6 DEF Write, OneSectionPerProcess, InWindow
    (* c's read was up to date, so no other process is at work ... *)
    <2>3. \A d \in Claims \ {c} : pc[d] # "working"
      BY <1>6, <2>1 DEF Write, CheckedFoundItFree
    (* ... and every actor that is between its read and its change is now   *)
    (* overtaken.                                                           *)
    <2>4. \A d \in Claims \ {c} : pc[d] \in {"checked", "releasing"} => d \in overtaken'
      BY <1>6 DEF Write, ChangeLock, Pending, InWindow
    <2>5. /\ lockFile' = PidOf[c]
          /\ pc' = [pc EXCEPT ![c] = "working"]
      BY <1>6 DEF Write, ChangeLock
    <2>6. OneHolderPerProcess'
      BY <2>1, <2>2, <2>3, <2>5 DEF OneHolderPerProcess
    <2>7. HoldersAreNamed'
      BY <2>3, <2>4, <2>5 DEF HoldersAreNamed
    <2>8. CheckedFoundItFree'
      BY <2>4, <2>5 DEF CheckedFoundItFree
    <2>9. QED
      BY <2>6, <2>7, <2>8
  <1>7. ASSUME NEW c \in Claims, Release(c) PROVE Knowledge'
    <2> SUFFICES ASSUME ~stale', ~nested'
                 PROVE  (OneHolderPerProcess /\ HoldersAreNamed /\ CheckedFoundItFree)'
      OBVIOUS
    <2>1. OneHolderPerProcess'
      BY <1>7 DEF Release, OneHolderPerProcess
    <2>2. HoldersAreNamed'
      BY <1>7 DEF Release, HoldersAreNamed
    <2>3. CheckedFoundItFree'
      BY <1>7 DEF Release, CheckedFoundItFree
    <2>4. QED
      BY <2>1, <2>2, <2>3
  <1>8. ASSUME NEW c \in Claims, Remove(c) PROVE Knowledge'
    <2> SUFFICES ASSUME ~stale', ~nested'
                 PROVE  (OneHolderPerProcess /\ HoldersAreNamed /\ CheckedFoundItFree)'
      OBVIOUS
    <2>1. ~stale /\ ~nested /\ c \notin overtaken /\ lockFile = PidOf[c]
      BY <1>8 DEF Remove, ChangeLock, HoldersAreNamed
    (* A claim at work would be named by the file too, and be of c's process. *)
    <2>2. \A d \in Claims \ {c} : pc[d] # "working"
      BY <1>8, <2>1 DEF Remove, HoldersAreNamed, OneHolderPerProcess
    <2>3. \A d \in Claims \ {c} : pc[d] \in {"checked", "releasing"} => d \in overtaken'
      BY <1>8 DEF Remove, ChangeLock, Pending, InWindow
    <2>4. pc' = [pc EXCEPT ![c] = "idle"]
      BY <1>8 DEF Remove
    <2>5. QED
      BY <2>1, <2>2, <2>3, <2>4 DEF OneHolderPerProcess, HoldersAreNamed, CheckedFoundItFree
  <1>9. CASE Reap
    <2>1. pc' = pc /\ lockFile' = lockFile /\ overtaken' = overtaken \ {Server}
          /\ stale' = stale /\ nested' = nested
      BY <1>9 DEF Reap
    <2>2. QED
      BY <1>0, <2>1, ProcessesKeepKnowledge
  <1>10. CASE ReapRemove
    <2> SUFFICES ASSUME ~stale', ~nested'
                 PROVE  (OneHolderPerProcess /\ HoldersAreNamed /\ CheckedFoundItFree)'
      OBVIOUS
    <2>1. ~stale /\ ~nested /\ lockFile = active /\ active \notin alive
      BY <1>10 DEF ReapRemove, ChangeLock, ReapedIsDead
    (* The file names a dead process, so nobody is at work. *)
    <2>2. \A d \in Claims : pc[d] # "working"
      BY <2>1 DEF HoldersAreNamed, ClaimsAreLive
    <2>3. \A d \in Claims : pc[d] \in {"checked", "releasing"} => d \in overtaken'
      BY <1>10 DEF ReapRemove, ChangeLock, Pending, InWindow
    <2>4. pc' = pc
      BY <1>10 DEF ReapRemove
    <2>5. QED
      BY <2>1, <2>2, <2>3, <2>4 DEF OneHolderPerProcess, HoldersAreNamed, CheckedFoundItFree
  <1>11. CASE UNCHANGED lockVars
    BY <1>11, <1>0, ProcessesKeepKnowledge DEF lockVars
  <1>12. QED
    BY <1>1, <1>2, <1>3, <1>4, <1>5, <1>6, <1>7, <1>8, <1>9, <1>10, <1>11 DEF LockNext

(* LockInv holds of every reachable state: the types, the bookkeeping of   *)
(* the processes and what each actor knows of the lock.                    *)
THEOREM RunLockInvariant == LockSpec => []LockInv
  <1>1. LockInit => LockInv
    BY InitLockInv
  <1>2. LockInv /\ [LockNext]_lockVars => LockInv'
    <2> SUFFICES ASSUME LockInv, [LockNext]_lockVars PROVE LockInv'
      OBVIOUS
    <2>1. LockTypeOK /\ ClaimsAreLive /\ OneSectionPerProcess /\ ReapedIsDead
      BY DEF LockInv
    <2>2. LockTypeOK' /\ (ClaimsAreLive /\ OneSectionPerProcess /\ ReapedIsDead)'
      BY <2>1, LockTypeStep, ProcessStep
    <2>3. Knowledge'
      BY KnowledgeStep
    <2>4. QED
      BY <2>2, <2>3 DEF LockInv, Knowledge
  <1>3. QED
    BY <1>1, <1>2, PTL DEF LockSpec

(* Two claims are at work together only after some process acted on an     *)
(* out-of-date read of run.lock or took the lock twice.                    *)
THEOREM Exclusion == LockSpec => []ExclusionUnlessStaleOrNested
  <1>1. LockInv => ExclusionUnlessStaleOrNested
    BY DEF LockInv, HoldersAreNamed, OneHolderPerProcess, ExclusionUnlessStaleOrNested,
           OneRunAtATime, AtWork
  <1>2. QED
    BY <1>1, RunLockInvariant, PTL

(* Short of those two, run.lock names the process of every claim at work.  *)
THEOREM Coverage == LockSpec => []LockCoversWork
  <1>1. LockInv => LockCoversWork
    BY DEF LockInv, HoldersAreNamed, LockCoversWork, AtWork
  <1>2. QED
    BY <1>1, RunLockInvariant, PTL
=============================================================================
