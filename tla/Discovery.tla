----------------------------- MODULE Discovery -----------------------------
(***************************************************************************)
(* Product Discovery, as the host sees it: an agent drives a browser, the  *)
(* host folds every browser result into the surface                        *)
(* (src/src/lib/surface-instrumentation.ts, discovery-surface.ts), the     *)
(* agent records observations (observation-ledger.ts), and its artifact is *)
(* written only when validation (semantic-validate.ts) and the completion  *)
(* gate (discovery-completion.ts) accept it.                               *)
(*                                                                         *)
(* The product is outside: a set of views, what each shows, and where an   *)
(* action may lead.  The agent is any sequence of the calls it has.  A     *)
(* location stands for its canonical URL, a control for its role and name, *)
(* a product state for its location and controls.                          *)
(***************************************************************************)
EXTENDS Naturals, Sequences, FiniteSets, SequencesExt

CONSTANTS
    Locations, Views,
    Page,          \* view -> the location it is a page of
    Shows,         \* view -> the controls it shows, as <<role, name>>, links apart
    Links,         \* view -> the locations its links lead to, in page order
    Says,          \* view -> its status and alert messages
    Leads,         \* the steps <<view, control, view>> the product can take
    Entry,         \* the view the preflight shows
    Origin,        \* location -> its origin
    AuxOrigins,    \* auxiliaryOrigins: support systems this run may visit
    Unsafe,        \* locations and control names isUnsafe matches
    NoView,
    MaxLocations, MaxStates, MaxPerLocation, MaxActions, MaxNavigation, MaxObservations,
    MaxActed,      \* a bound of the model: state-changing actions of a run
    Attempts

ASSUME ProductAssumption ==
    /\ Page \in [Views -> Locations] /\ Entry \in Views /\ NoView \notin Views
    /\ Links \in [Views -> Seq(Locations)]
    /\ Leads \subseteq Views \X (UNION {Shows[v] \cup {<<"link", l>> : l \in Range(Links[v])} : v \in Views}) \X Views
ASSUME BoundsAssumption ==
    {MaxLocations, MaxStates, MaxPerLocation, MaxActions, MaxNavigation, MaxObservations, MaxActed, Attempts}
        \subseteq Nat \ {0}

VARIABLES
    view,      \* what the browser is on
    surface,   \* discovery-surface.json
    ledger,    \* discovery-observations.json: observations of a view, in order
    stage,     \* attempt, artifact on disk, written in this attempt, outcome
    truth      \* history variable: what happened, whatever the host recorded of it

vars == <<view, surface, ledger, stage, truth>>

Target == Page[Entry]
\* classifyOrigin: the scope of a location.
Scope(l) == IF Origin[l] = Origin[Target] THEN "PRODUCT"
            ELSE IF Origin[l] \in AuxOrigins THEN "AUXILIARY" ELSE "EXTERNAL"

Controls(v) == Shows[v] \cup {<<"link", l>> : l \in Range(Links[v])}
Names(controls) == {c[2] : c \in controls}

-----------------------------------------------------------------------------
(* States and what their controls say (discovery-state.ts, discovery-actions.ts). *)

NoState == [at |-> "nowhere", controls |-> {}]
StateOf(v) == IF Controls(v) = {} THEN NoState ELSE [at |-> Page[v], controls |-> Controls(v)]

\* authSignals.
SignIn(s)   == "Sign in" \in Names(s.controls)
Password(s) == <<"textbox", "Password">> \in s.controls
SignOut(s)  == "Sign out" \in Names(s.controls)
AuthForm(s) == SignIn(s) /\ Password(s)

Activating == {"button", "link"}
\* drivableControls: what a user could drive to move the product somewhere.
Drivable(controls) == {c \in controls : c[1] \in Activating /\ c[2] # "Sign out" /\ c[2] \notin Unsafe}

-----------------------------------------------------------------------------
(* The surface. *)

\* Of the locations ls names, in its order, the first so many that are wanted; a repeated one counts once.
Joining(ls, wanted, room) ==
    {ls[i] : i \in {j \in DOMAIN ls : ls[j] \in wanted /\ Cardinality(wanted \cap {ls[k] : k \in 1..j}) <= room}}

\* expandSurface, of one location after the other: each joins if it is in scope, new, and there is room.
Expand(S, ls) ==
    LET wanted == {l \in Range(ls) : Scope(l) # "EXTERNAL"} \ S.locations
        joined == Joining(ls, wanted, MaxLocations - Cardinality(S.locations))
    IN [S EXCEPT !.locations = @ \cup joined, !.overflow = @ \/ wanted # joined]

\* registerState: a new state joins, within the caps.
RegisterState(S, s) ==
    LET here == {i \in DOMAIN S.states : S.states[i].at = s.at}
    IN IF s = NoState \/ s \in Range(S.states) THEN S
       ELSE IF Len(S.states) >= MaxStates \/ Cardinality(here) >= MaxPerLocation THEN [S EXCEPT !.stateOverflow = TRUE]
       ELSE [S EXCEPT !.states = Append(@, s)]

\* absorbBrowserResult: the page the browser is on, and with the page's tree its state and its links.
Absorb(S, v, tree) ==
    LET reached == Expand(S, <<Page[v]>>)
    IN IF tree THEN Expand(RegisterState(reached, StateOf(v)), Links[v]) ELSE reached

\* registerNavigation: new link targets, in page order up to the cap, with whether an action exposed them.
RegisterNavigation(S, v, exposing) ==
    LET known  == DOMAIN S.navigation
        joined == Joining(Links[v], Range(Links[v]) \ known, MaxNavigation - Cardinality(known))
    IN [S EXCEPT !.navigation = [l \in known \cup joined |->
           IF l \in known THEN S.navigation[l] ELSE [exposed |-> exposing, followed |-> FALSE]]]

MutantMarkFollowedAll(S, l) ==
    [S EXCEPT !.navigation = [t \in DOMAIN S.navigation |-> [S.navigation[t] EXCEPT !.followed = TRUE]]]

MutantMarkFollowedShown(S, l) ==
    [S EXCEPT !.observed = @ \cup {l},
              !.navigation = [t \in DOMAIN S.navigation |-> [S.navigation[t] EXCEPT !.followed = @ \/ t = l]]]

\* markFollowed: a product target when it is reached, another when anything of its origin is.
MarkFollowed(S, l) ==
    [S EXCEPT !.navigation = [t \in DOMAIN S.navigation |->
        [S.navigation[t] EXCEPT !.followed = @ \/ t = l \/ (Scope(t) # "PRODUCT" /\ Origin[t] = Origin[l])]]]

\* diffViews: does the new look differ from the last one?  On a new page only the messages and the page are compared.
Visible(old, new, kind, exposed) ==
    \/ Page[old] # Page[new]
    \/ Says[new] \ Says[old] # {}
    \/ exposed
    \/ kind # "navigate" /\ Controls(old) # Controls(new)

Unverified(S) == {i \in DOMAIN S.actions : ~S.actions[i].verified}

\* absorbToolResult, of an inline snapshot: it verifies every action before it, and gives the last one its outcome.
Look(S, v) ==
    LET open    == Unverified(S)
        acted   == {i \in open : S.actions[i].kind # "navigate"}
        seen    == [MarkFollowed(Absorb(S, v, TRUE), Page[v]) EXCEPT
                       !.observed = @ \cup {Page[v]},
                       !.state = IF StateOf(v) = NoState THEN @ ELSE StateOf(v)]
        linked  == RegisterNavigation(seen, v, acted # {})
        exposed == acted # {} /\ DOMAIN linked.navigation # DOMAIN seen.navigation
        outcome(i) == /\ S.last # NoView /\ i = Max(open)
                      /\ Visible(S.last, v, S.actions[i].kind, exposed)
    IN [linked EXCEPT
          !.last = v,
          !.actions = [i \in DOMAIN S.actions |->
                          IF i \in open THEN [S.actions[i] EXCEPT !.verified = TRUE, !.outcome = outcome(i)]
                          ELSE S.actions[i]]]

\* Past the maximum the oldest verified actions go, and those are the first: a look verifies everything before it.
\* An unverified action is never dropped.
Recorded(actions) ==
    LET surplus == Len(actions) - MaxActions
        dropped == Max({n \in 0..surplus : \A i \in 1..n : actions[i].verified})
    IN IF surplus <= 0 THEN actions ELSE SubSeq(actions, dropped + 1, Len(actions))

\* absorbToolResult, of a state-changing action that ended on view v.
Act(S, v, kind, auth) ==
    LET reached == MarkFollowed(Absorb(S, v, FALSE), Page[v])
        inForm  == kind = "submit" /\ S.state \in Range(S.states) /\ AuthForm(S.state)
    IN [reached EXCEPT !.actions = Recorded(Append(@,
            [kind |-> kind, auth |-> auth \/ inForm, state |-> S.state, input |-> S.state \in S.inputs,
             verified |-> FALSE, outcome |-> FALSE]))]

\* buildSurface: the entry page and what it links to, the baseline nothing has exposed.
BuildSurface ==
    LET new == [locations |-> {Target}, overflow |-> FALSE, states |-> <<>>, stateOverflow |-> FALSE, actions |-> <<>>,
                observed |-> {}, navigation |-> <<>>, inputs |-> {}, state |-> NoState, last |-> NoView]
    IN RegisterNavigation(Expand(new, Links[Entry]), Entry, FALSE)

\* expectedLocations: auxiliary ones are infrastructure.
Expected(S) == {l \in S.locations : Scope(l) = "PRODUCT"}

-----------------------------------------------------------------------------
(* The completion gate: the reason codes of an artifact, a function from the product locations it reports. *)

FlowOpen(S) ==
    LET product == {i \in DOMAIN S.states : Scope(S.states[i].at) = "PRODUCT"}
        forms   == {i \in product : AuthForm(S.states[i])}
        signedIn(i) == LET s == S.states[i]
                       IN \/ SignOut(s)
                          \/ ~Password(s) /\ ~SignIn(s) /\ \E f \in forms : f < i /\ S.states[f].at = s.at
    IN forms # {} /\ ~\E i \in product : signedIn(i)

BlockedProposed(art) == \E l \in DOMAIN art : art[l] = "BLOCKED"

MutantUnfollowedStrict(S, art) ==
    {l \in DOMAIN S.navigation :
        FlowOpen(S) /\ S.navigation[l].exposed /\ l \notin Unsafe /\ ~S.navigation[l].followed}

\* Continuations the open flow has that were never followed.
Unfollowed(S, art) ==
    {l \in DOMAIN S.navigation :
        /\ FlowOpen(S) /\ S.navigation[l].exposed /\ l \notin Unsafe /\ ~S.navigation[l].followed
        /\ ~(Scope(l) = "EXTERNAL" /\ BlockedProposed(art))}

MutantSupportedUninspected(S) == \E i \in DOMAIN S.actions : S.actions[i].auth /\ S.actions[i].input

\* attemptEvidence: an attempt with input, an inspected result and a visible outcome.
Supported(S) == \E i \in DOMAIN S.actions :
    LET a == S.actions[i] IN a.auth /\ a.input /\ a.verified /\ a.outcome

\* Product states that offer controls no exercised state offered, and that nothing answers for.
Unexplored(S, art) ==
    LET product   == {s \in Range(S.states) : Scope(s.at) = "PRODUCT"}
        exercised == {S.actions[i].state : i \in DOMAIN S.actions}
        known     == UNION {Drivable(s.controls) : s \in product \cap exercised}
        judged    == {<<"link", l>> : l \in {t \in DOMAIN S.navigation : Scope(t) # "PRODUCT"} \cup Unfollowed(S, art)}
    IN {s \in product \ exercised :
          /\ Drivable(s.controls) \ (known \cup judged) # {}
          /\ ~(s.at \in DOMAIN art /\ art[s.at] \in {"BLOCKED", "SKIPPED_WITH_REASON"})}

\* evaluateDiscoveryCompletion.
Reasons(S, art) ==
    LET continues == Unfollowed(S, art) # {}
        reason(code, holds) == IF holds THEN {code} ELSE {}
    IN UNION {
        reason("UNVERIFIED_ACTION_OUTCOME",      Unverified(S) # {}),
        reason("UNVERIFIED_EXPLORED_LOCATION",   \E l \in DOMAIN art : art[l] = "EXPLORED" /\ l \notin S.observed),
        reason("UNEXPLORED_RELEVANT_NAVIGATION", continues),
        reason("BLOCKED_WITHOUT_EVIDENCE",       FlowOpen(S) /\ BlockedProposed(art) /\ ~Supported(S) /\ ~continues),
        reason("UNRESOLVED_AUTH_STATE",          FlowOpen(S) /\ ~BlockedProposed(art) /\ ~continues),
        reason("UNEXPLORED_REACHABLE_AREA",      Unexplored(S, art) # {})}

\* validateDiscoveredBehavior: every expected location and every location an observation names is reported, and
\* every observation is cited.
Valid(art, cited) ==
    /\ Expected(surface) \subseteq DOMAIN art
    /\ {Page[o] : o \in {p \in Range(ledger) : Scope(Page[p]) = "PRODUCT"}} \subseteq DOMAIN art
    /\ cited = DOMAIN ledger

-----------------------------------------------------------------------------
(* The agent's calls. *)

Init ==
    /\ view = Entry
    /\ surface = BuildSurface
    /\ ledger = <<>>
    /\ stage = [attempt |-> 1, art |-> <<>>, cited |-> {}, written |-> FALSE, outcome |-> "running"]
    /\ truth = [count |-> 0, unseen |-> FALSE, acted |-> FALSE, shown |-> {}, visited |-> {Target}, handed |-> {},
                tried |-> FALSE, answered |-> FALSE]

Running == stage.outcome = "running"

MutantSnapshotToFile ==
    /\ Running
    /\ surface' = Look(surface, view)
    /\ UNCHANGED <<view, ledger, stage, truth>>

\* browser_snapshot with a filename: the agent sees nothing, and nothing is verified.
SnapshotToFile ==
    /\ Running
    /\ surface' = MarkFollowed(Absorb(surface, view, FALSE), Page[view])
    /\ UNCHANGED <<view, ledger, stage, truth>>

\* browser_snapshot: the page in front of the agent.
Snapshot ==
    /\ Running
    /\ surface' = Look(surface, view)
    /\ LET before == {l \in Locations : \E v \in truth.shown \cup {Entry} : l \in Range(Links[v])}
           changed == surface.last \notin {NoView, view}
       IN truth' = [truth EXCEPT !.unseen = FALSE, !.acted = FALSE, !.tried = FALSE, !.shown = @ \cup {view},
                                 !.handed = IF truth.acted THEN @ \cup (Range(Links[view]) \ before) ELSE @,
                                 !.answered = @ \/ (truth.tried /\ changed)]
    /\ UNCHANGED <<view, ledger, stage>>

\* A call that succeeded left the browser on v.
Acted(v, kind, auth) ==
    /\ truth.count < MaxActed
    /\ surface' = Act(surface, v, kind, auth)
    /\ truth' = [truth EXCEPT !.unseen = TRUE, !.count = @ + 1, !.acted = @ \/ kind # "navigate",
                              !.visited = @ \cup {Page[v]}, !.tried = auth \/ kind = "submit"]
    /\ view' = v
    /\ UNCHANGED <<ledger, stage>>

Navigate == \E v \in Views : Running /\ Scope(Page[v]) # "EXTERNAL" /\ Acted(v, "navigate", FALSE)

Click ==
    \E s \in Leads : Running /\ s[1] = view /\ s[2][1] \in Activating /\ Acted(s[3], "activate", s[2][2] = "Sign in")

\* Enter in a field.
Submit == \E s \in Leads : Running /\ s[1] = view /\ s[2][1] = "textbox" /\ Acted(s[3], "submit", FALSE)

\* Typing changes no state; it is kept as the input of the state the agent last saw.
Type ==
    /\ Running /\ \E c \in Controls(view) : c[1] = "textbox"
    /\ surface' = [MarkFollowed(Absorb(surface, view, FALSE), Page[view]) EXCEPT !.inputs = @ \cup {surface.state}]
    /\ UNCHANGED <<view, ledger, stage, truth>>

\* A call the browser answered with an error performed nothing; its page is still read.
FailedCall ==
    /\ Running
    /\ surface' = Absorb(surface, view, FALSE)
    /\ UNCHANGED <<view, ledger, stage, truth>>

\* record_observation, of a view the agent was shown; a repeat returns the first entry, a full ledger refuses.
Observe(v) ==
    /\ Running /\ v \in truth.shown
    /\ ledger' = IF v \in Range(ledger) \/ Len(ledger) >= MaxObservations THEN ledger ELSE Append(ledger, v)
    /\ UNCHANGED <<view, surface, stage, truth>>

\* write_qa_artifact("discovered-behavior"), accepted.  A refused one changes nothing: an earlier artifact stays, and
\* the count of rejections only words the answer.
Finalize(art, cited) ==
    /\ Running
    /\ Valid(art, cited)
    /\ Reasons(surface, art) = {}
    /\ stage' = [stage EXCEPT !.art = art, !.cited = cited, !.written = TRUE]
    /\ UNCHANGED <<view, surface, ledger, truth>>

MutantAttemptEndsUnchecked ==
    /\ Running
    /\ stage' = IF stage.written THEN [stage EXCEPT !.outcome = "passed"]
                ELSE IF stage.attempt = Attempts THEN [stage EXCEPT !.outcome = "failed"]
                ELSE [stage EXCEPT !.attempt = @ + 1, !.written = FALSE]
    /\ UNCHANGED <<view, surface, ledger, truth>>

\* The agent's process ends: its artifact, written in this attempt and valid now, passes; otherwise there
\* is a next attempt, or none is left.
AttemptEnds ==
    /\ Running
    /\ stage' = IF stage.written /\ Valid(stage.art, stage.cited) THEN [stage EXCEPT !.outcome = "passed"]
                ELSE IF stage.attempt = Attempts THEN [stage EXCEPT !.outcome = "failed"]
                ELSE [stage EXCEPT !.attempt = @ + 1, !.written = FALSE]
    /\ UNCHANGED <<view, surface, ledger, truth>>

Products == {l \in Locations : Scope(l) = "PRODUCT"}
Artifacts == UNION {[ls -> {"EXPLORED", "BLOCKED", "SKIPPED_WITH_REASON"}] : ls \in SUBSET Products}

Next ==
    \/ Snapshot \/ SnapshotToFile \/ Navigate \/ Click \/ Submit \/ Type \/ FailedCall
    \/ \E v \in Views : Observe(v)
    \/ \E art \in Artifacts, cited \in SUBSET DOMAIN ledger : Finalize(art, cited)
    \/ AttemptEnds

Spec == Init /\ [][Next]_vars

-----------------------------------------------------------------------------
(* Properties. *)

TypeOK ==
    /\ view \in Views
    /\ surface.locations \subseteq Locations /\ Cardinality(surface.locations) <= MaxLocations
    /\ Cardinality(DOMAIN surface.navigation) <= MaxNavigation /\ Len(surface.states) <= MaxStates
    /\ Range(ledger) \subseteq Views /\ Len(ledger) <= MaxObservations
    /\ stage.attempt \in 1..Attempts
    /\ stage.outcome \in {"running", "passed", "failed"}

Writes == stage'.written /\ <<stage.art, stage.cited, stage.written>>' # <<stage.art, stage.cited, stage.written>>

\* Ground truth of the sign-in flow: its form was shown, and nothing that looks signed in.
FormShown == \E v \in truth.shown : Scope(Page[v]) = "PRODUCT" /\ AuthForm(StateOf(v))
SignedInShown ==
    \E v \in truth.shown : /\ Scope(Page[v]) = "PRODUCT"
                           /\ \/ SignOut(StateOf(v))
                              \/ /\ ~Password(StateOf(v)) /\ ~SignIn(StateOf(v))
                                 /\ \E f \in truth.shown : Page[f] = Page[v] /\ AuthForm(StateOf(f))

\* When the artifact is written, the agent has seen the page since its last state-changing action, however many
\* actions there were (an unverified action is never dropped from the log) and wherever its snapshots went; and
\* a location written as EXPLORED was shown by a snapshot in this run: one that was reached only is not.
OutcomesSeen == [][Writes => /\ ~truth.unseen
                             /\ \A l \in DOMAIN stage'.art :
                                    stage'.art[l] = "EXPLORED" => \E v \in truth.shown : Page[v] = l]_vars

\* A sign-in form that was shown and never left behind is answered by BLOCKED, and only after an attempt at it
\* whose result the agent looked at and which had changed something (short of the caps on states).
FlowAnswered == [][Writes /\ FormShown /\ ~SignedInShown /\ ~surface.stateOverflow =>
                        BlockedProposed(stage'.art) /\ truth.answered]_vars

\* A link the product handed over after an action, while the flow is open, was followed if this run may.
ContinuationFollowed ==
    [][Writes /\ FormShown /\ ~SignedInShown /\ ~surface.stateOverflow /\ Cardinality(DOMAIN surface.navigation) < MaxNavigation =>
          \A l \in truth.handed : \/ Scope(l) = "EXTERNAL" \/ l \in Unsafe
                                 \/ \E p \in truth.visited : p = l \/ (Scope(l) # "PRODUCT" /\ Origin[p] = Origin[l])]_vars

\* An artifact the stage passes with leaves out nothing: every product location the browser was on is reported, every
\* recorded observation is cited, also those recorded after the artifact was written.
NothingDropped ==
    stage.outcome = "passed" => /\ stage.cited = DOMAIN ledger
                                /\ surface.overflow \/ truth.visited \cap Products \subseteq DOMAIN stage.art

\* The rules can be met together: with every outcome seen, every continuation that may be followed followed, and the
\* open flow attempted with a visible outcome, an artifact that reports everything BLOCKED is not rejected.
RulesSatisfiable ==
    /\ Unverified(surface) = {}
    /\ \A l \in DOMAIN surface.navigation :
          surface.navigation[l].exposed => surface.navigation[l].followed \/ Scope(l) = "EXTERNAL" \/ l \in Unsafe
    /\ FlowOpen(surface) => Supported(surface)
    => Reasons(surface, [l \in Products |-> "BLOCKED"]) = {}

\* "Discovery cannot finalize while host-recorded browser evidence shows unverified actions, unexplored reachable areas
\* or unsupported BLOCKED claims": when the stage passes, the gate has no reason against the artifact it passes with.
PassedIsFinished == stage.outcome = "passed" => Reasons(surface, stage.art) = {}
=============================================================================
