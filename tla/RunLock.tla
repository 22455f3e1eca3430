------------------------------- MODULE RunLock -------------------------------
(***************************************************************************)
(* The run lock: QA_ARTIFACT_ROOT/run.lock, the file with which the host   *)
(* keeps two QA runs from sharing Flue's conversation store, the artifact  *)
(* root and the browser (scripts/lib/run-lock.mjs).                        *)
(*                                                                         *)
(* A process is known by its pid.  A claim is one call of acquireRunLock   *)
(* and the work done under it: a runner process (qa:manual, qa:refresh)    *)
(* makes one, the workspace server makes one per change request it has the *)
(* review agent answer (runReviewAgent).  acquireRunLock, release and the  *)
(* RunController's afterExit each read the file and later write or remove  *)
(* it: two file operations, between which another process can do anything. *)
(* JavaScript runs each of them to completion, so two claims of the same   *)
(* process never interleave inside one.                                    *)
(*                                                                         *)
(* Not modelled: the wording of the refusal, and a lock file that cannot   *)
(* be parsed, which readLock treats as no lock.                            *)
(***************************************************************************)
EXTENDS FiniteSets

CONSTANTS
    Pids,       \* the process ids in play
    Server,     \* the pid of the workspace server (qa:ui)
    Claims,     \* the calls of acquireRunLock, over the whole behaviour
    PidOf,      \* the process that makes each claim
    NoPid       \* no process: the lock file is absent, or no run is active

ASSUME LockAssumption ==
    /\ Server \in Pids
    /\ PidOf \in [Claims -> Pids]
    /\ NoPid \notin Pids
    /\ Claims \cap Pids = {}

VARIABLES
    alive,      \* the pids of the processes that exist
    lockFile,   \* the pid recorded in run.lock, NoPid when there is no file
    pc,         \* where each claim is
    active,     \* RunController.active: the child it forked, or NoPid
    reaping,    \* afterExit has read the lock and is about to remove it
    (* History variables: they record which of the two known ways of losing *)
    (* exclusion has happened, and no action's guard reads them.            *)
    overtaken,  \* the actors that read the file before it last changed
    stale,      \* some actor changed the file on the strength of an old read
    nested      \* a process took the lock while working under it already

lockVars == <<alive, lockFile, pc, active, reaping, overtaken, stale, nested>>

States == {"idle", "checked", "working", "releasing"}

LockTypeOK ==
    /\ alive \subseteq Pids
    /\ lockFile \in Pids \cup {NoPid}
    /\ pc \in [Claims -> States]
    /\ active \in Pids \cup {NoPid}
    /\ reaping \in BOOLEAN
    /\ overtaken \subseteq Claims \cup {Server}
    /\ stale \in BOOLEAN
    /\ nested \in BOOLEAN

LockInit ==
    /\ alive = {}
    /\ lockFile = NoPid
    /\ pc = [c \in Claims |-> "idle"]
    /\ active = NoPid
    /\ reaping = FALSE
    /\ overtaken = {}
    /\ stale = FALSE
    /\ nested = FALSE

ClaimsOf(p) == {c \in Claims : PidOf[c] = p}

(* The claims that have read the file and not yet acted on what they read. *)
InWindow == {c \in Claims : pc[c] \in {"checked", "releasing"}}

(* The actors between a read of the file and the change they make to it. *)
Pending == InWindow \cup (IF reaping THEN {Server} ELSE {})

(* Process p is inside one of the synchronous read-then-change sections. *)
Busy(p) ==
    \/ ClaimsOf(p) \cap InWindow # {}
    \/ p = Server /\ reaping

(* An actor writes or removes run.lock: what every other pending actor read *)
(* is now out of date.                                                      *)
ChangeLock(actor, pid) ==
    /\ lockFile' = pid
    /\ stale' = (stale \/ actor \in overtaken)
    /\ overtaken' = (overtaken \cup Pending) \ {actor}

(***************************************************************************)
(* Processes.                                                              *)
(***************************************************************************)

(* The lock names a process that exists (readLock, then alive(pid)). *)
HeldByLiveProcess == lockFile \in alive

(* A process is started from a terminal.  A pid is not given out again     *)
(* while the workspace has yet to handle the exit of its last owner.       *)
StartFromTerminal(p) ==
    /\ p \notin alive
    /\ p # active
    /\ alive' = alive \cup {p}
    /\ UNCHANGED <<lockFile, pc, active, reaping, overtaken, stale, nested>>

(* RunController.start: refused while a child is active or a live process  *)
(* holds the lock; otherwise the runner is forked.                         *)
StartFromWorkspace(p) ==
    /\ Server \in alive
    /\ ~Busy(Server)
    /\ p \notin alive
    /\ p # Server
    /\ active = NoPid
    /\ ~HeldByLiveProcess
    /\ alive' = alive \cup {p}
    /\ active' = p
    /\ UNCHANGED <<lockFile, pc, reaping, overtaken, stale, nested>>

(* The process ends with its 'exit' handlers run: every claim it held has  *)
(* been released first.                                                    *)
Exit(p) ==
    /\ p \in alive
    /\ \A c \in ClaimsOf(p) : pc[c] = "idle"
    /\ ~Busy(p)
    /\ alive' = alive \ {p}
    /\ active' = IF p = Server THEN NoPid ELSE active
    /\ UNCHANGED <<lockFile, pc, reaping, overtaken, stale, nested>>

(* The process is killed outright (SIGKILL, power loss) at any point: no   *)
(* handler runs and the lock file stays behind.                            *)
Kill(p) ==
    /\ p \in alive
    /\ alive' = alive \ {p}
    /\ pc' = [c \in Claims |-> IF PidOf[c] = p THEN "idle" ELSE pc[c]]
    /\ active' = IF p = Server THEN NoPid ELSE active
    /\ reaping' = (reaping /\ p # Server)
    /\ overtaken' = overtaken \ (ClaimsOf(p) \cup {p})
    /\ UNCHANGED <<lockFile, stale, nested>>

(***************************************************************************)
(* acquireRunLock and release.                                             *)
(***************************************************************************)

(* Mutant of Check: an existing lock is taken for stale whoever holds it. *)
MutantCheckIgnoresHolder(c) ==
    /\ PidOf[c] \in alive
    /\ pc[c] = "idle"
    /\ ~Busy(PidOf[c])
    /\ pc' = [pc EXCEPT ![c] = "checked"]
    /\ overtaken' = overtaken \ {c}
    /\ UNCHANGED <<alive, lockFile, active, reaping, stale, nested>>

(* acquireRunLock reads the file and goes on unless it names a live process *)
(* other than itself.  A refusal changes nothing and is no step here: the   *)
(* runner exits, the review request fails.                                  *)
Check(c) ==
    /\ PidOf[c] \in alive
    /\ pc[c] = "idle"
    /\ ~Busy(PidOf[c])
    /\ HeldByLiveProcess => lockFile = PidOf[c]
    /\ pc' = [pc EXCEPT ![c] = "checked"]
    /\ overtaken' = overtaken \ {c}
    /\ UNCHANGED <<alive, lockFile, active, reaping, stale, nested>>

(* acquireRunLock writes its own pid over whatever the file holds by now.  *)
Write(c) ==
    /\ pc[c] = "checked"
    /\ ChangeLock(c, PidOf[c])
    /\ pc' = [pc EXCEPT ![c] = "working"]
    /\ nested' = (nested \/ \E d \in ClaimsOf(PidOf[c]) \ {c} : pc[d] = "working")
    /\ UNCHANGED <<alive, active, reaping>>

(* release, called at the end of the work or by an exit handler: the lock  *)
(* is read, and only the process's own lock is going to be removed.        *)
Release(c) ==
    /\ pc[c] = "working"
    /\ ~Busy(PidOf[c])
    /\ pc' = [pc EXCEPT ![c] = IF lockFile = PidOf[c] THEN "releasing" ELSE "idle"]
    /\ overtaken' = overtaken \ {c}
    /\ UNCHANGED <<alive, lockFile, active, reaping, stale, nested>>

(* release removes the file, whatever it holds by now. *)
Remove(c) ==
    /\ pc[c] = "releasing"
    /\ ChangeLock(c, NoPid)
    /\ pc' = [pc EXCEPT ![c] = "idle"]
    /\ UNCHANGED <<alive, active, reaping, nested>>

(***************************************************************************)
(* RunController.afterExit: the workspace clears the lock of a child that  *)
(* ended without doing so.                                                 *)
(***************************************************************************)

(* Mutant of Reap: the lock is removed without asking whose it is. *)
MutantReapAnyLock ==
    /\ Server \in alive
    /\ ~Busy(Server)
    /\ active # NoPid
    /\ active \notin alive
    /\ reaping' = TRUE
    /\ overtaken' = overtaken \ {Server}
    /\ UNCHANGED <<alive, lockFile, pc, active, stale, nested>>

(* The exit event of the active child: its lock is going to be removed if  *)
(* the file still names it.                                                *)
Reap ==
    /\ Server \in alive
    /\ ~Busy(Server)
    /\ active # NoPid
    /\ active \notin alive
    /\ IF lockFile = active
       THEN reaping' = TRUE /\ UNCHANGED active
       ELSE active' = NoPid /\ UNCHANGED reaping
    /\ overtaken' = overtaken \ {Server}
    /\ UNCHANGED <<alive, lockFile, pc, stale, nested>>

ReapRemove ==
    /\ reaping
    /\ ChangeLock(Server, NoPid)
    /\ reaping' = FALSE
    /\ active' = NoPid
    /\ UNCHANGED <<alive, pc, nested>>

LockNext ==
    \/ \E p \in Pids : StartFromTerminal(p) \/ StartFromWorkspace(p) \/ Exit(p) \/ Kill(p)
    \/ \E c \in Claims : Check(c) \/ Write(c) \/ Release(c) \/ Remove(c)
    \/ Reap
    \/ ReapRemove

LockSpec == LockInit /\ [][LockNext]_lockVars

-----------------------------------------------------------------------------
(***************************************************************************)
(* Properties.                                                             *)
(***************************************************************************)

AtWork(c) == pc[c] = "working"

(* "One QA run at a time, enforced by the host" (run-lock.mjs:1): no two   *)
(* claims are at work together.                                            *)
OneRunAtATime == \A c, d \in Claims : AtWork(c) /\ AtWork(d) => c = d

(* Exclusion is lost in two ways only: some process acted on a read of the *)
(* file that was out of date, or one process took the lock twice.  Crashes *)
(* at any point, reclaiming a dead process's lock, pids being used again   *)
(* and the workspace's own cleanup never cost it on their own.             *)
ExclusionUnlessStaleOrNested == ~stale /\ ~nested => OneRunAtATime

(* Short of those two, a claim at work is always covered: run.lock names   *)
(* its process, so whoever asks (RunController.start, BLOCKED_DURING_RUN,  *)
(* the history's ownerAlive) finds the run live.                           *)
LockCoversWork ==
    ~stale /\ ~nested => \A c \in Claims : AtWork(c) => lockFile = PidOf[c]

(* docs/RUNBOOK.md:320, "Processing takes the run lock, so it never        *)
(* overlaps a QA run": with every read of the lock file up to date, the    *)
(* review agent of the workspace server and another process's run are      *)
(* never at work together.                                                 *)
ReviewNeverOverlapsRun ==
    ~stale => \A c, d \in Claims :
        AtWork(c) /\ AtWork(d) /\ PidOf[c] = Server => PidOf[d] = Server

(***************************************************************************)
(* The inductive invariant behind the two conditional properties.          *)
(***************************************************************************)

(* Only a live process has a claim under way. *)
ClaimsAreLive == \A c \in Claims : pc[c] # "idle" => PidOf[c] \in alive

(* A process has at most one claim that holds or is giving up the lock. *)
OneHolderPerProcess ==
    \A c, d \in Claims :
        /\ PidOf[c] = PidOf[d]
        /\ pc[c] \in {"working", "releasing"}
        /\ pc[d] \in {"working", "releasing"}
        => c = d

(* What a holder knows while its read is up to date. *)
HoldersAreNamed ==
    \A c \in Claims :
        pc[c] = "working" \/ (pc[c] = "releasing" /\ c \notin overtaken)
        => lockFile = PidOf[c]

(* What a claim that passed the check knows while its read is up to date:  *)
(* nobody else holds the lock.                                             *)
CheckedFoundItFree ==
    \A c, d \in Claims :
        /\ pc[c] = "checked"
        /\ c \notin overtaken
        /\ pc[d] = "working" \/ (pc[d] = "releasing" /\ d \notin overtaken)
        => PidOf[d] = PidOf[c]

(* What the workspace's cleanup knows while its read is up to date. *)
ReapedIsDead ==
    /\ active # NoPid => active \in Pids \ {Server}
    /\ reaping => Server \in alive /\ active # NoPid /\ active \notin alive
    /\ reaping /\ Server \notin overtaken => lockFile = active

(* The synchronous sections of one process do not interleave. *)
OneSectionPerProcess ==
    /\ \A c, d \in InWindow : PidOf[c] = PidOf[d] => c = d
    /\ reaping => \A c \in InWindow : PidOf[c] # Server

LockInv ==
    /\ LockTypeOK
    /\ ClaimsAreLive
    /\ OneSectionPerProcess
    /\ ReapedIsDead
    /\ ~stale /\ ~nested =>
        /\ OneHolderPerProcess
        /\ HoldersAreNamed
        /\ CheckedFoundItFree
=============================================================================
