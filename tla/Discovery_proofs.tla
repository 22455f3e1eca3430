--------------------------- MODULE Discovery_proofs ---------------------------
(***************************************************************************)
(* Proofs about Product Discovery, for any product, any limits and any     *)
(* sequence of calls: an accepted artifact rests on what the browser       *)
(* showed, a sign-in flow is answered, and nothing recorded is left out.   *)
(***************************************************************************)
EXTENDS Discovery, FiniteSetTheorems, WellFoundedInduction, TLAPS

-----------------------------------------------------------------------------
(* The inductive invariant. *)

\* A state is what a view shows, or nothing.
AllStates == {StateOf(v) : v \in Views} \cup {NoState}

ActionRecord ==
    [kind : {"navigate", "activate", "submit"}, auth : BOOLEAN, state : AllStates, input : BOOLEAN,
     verified : BOOLEAN, outcome : BOOLEAN]

TargetRecord == [exposed : BOOLEAN, followed : BOOLEAN]

Surfaces ==
    [locations : SUBSET Locations, overflow : BOOLEAN, states : Seq(AllStates), stateOverflow : BOOLEAN,
     actions : Seq(ActionRecord), observed : SUBSET Locations,
     navigation : UNION {[ls -> TargetRecord] : ls \in SUBSET Locations},
     inputs : SUBSET AllStates, state : AllStates, last : Views \cup {NoView}]

Stages ==
    [attempt : 1..Attempts, art : Artifacts \cup {<<>>}, cited : SUBSET Nat, written : BOOLEAN,
     outcome : {"running", "passed", "failed"}]

Truths ==
    [count : Nat, unseen : BOOLEAN, acted : BOOLEAN, shown : SUBSET Views, visited : SUBSET Locations,
     handed : SUBSET Locations, tried : BOOLEAN, answered : BOOLEAN]

Types ==
    /\ view \in Views /\ surface \in Surfaces /\ ledger \in Seq(Views) /\ stage \in Stages /\ truth \in Truths

Bounded(S) ==
    /\ IsFiniteSet(S.locations) /\ Cardinality(S.locations) <= MaxLocations
    /\ IsFiniteSet(DOMAIN S.navigation) /\ Cardinality(DOMAIN S.navigation) <= MaxNavigation
    /\ Len(S.states) <= MaxStates

WithinLimits == Bounded(surface) /\ Len(ledger) <= MaxObservations

\* What the log of actions says of the time since the last look: the unverified ones end it.
LogTells(S, t) ==
    /\ Unverified(S) # {} => Len(S.actions) \in Unverified(S) /\ (S.actions[Len(S.actions)].auth => t.tried)
    /\ t.unseen => Unverified(S) # {}
    /\ t.acted => \E i \in Unverified(S) : S.actions[i].kind # "navigate"

\* An attempt at the sign-in with a visible outcome changed what the product shows.
OutcomesAreReal(S, t) ==
    \A i \in DOMAIN S.actions : S.actions[i].auth /\ S.actions[i].outcome => t.answered

\* What was observed was shown, and the last look is one of them.
ShownOnly(S, t) ==
    /\ \A l \in S.observed : \E v \in t.shown : Page[v] = l
    /\ S.last \in t.shown \cup {NoView}

\* A product location the browser was on is known, unless the limit was met.
VisitedKnown(S, t) == S.overflow \/ \A l \in t.visited : Scope(l) = "PRODUCT" => l \in S.locations

\* The states are those that were shown; all of them, unless the limit was met.
StatesAreShown(S, t) ==
    /\ \A s \in Range(S.states) : s # NoState /\ \E v \in t.shown : s = StateOf(v)
    /\ S.stateOverflow \/ \A v \in t.shown : StateOf(v) = NoState \/ StateOf(v) \in Range(S.states)

\* The links the agent has seen.
Seen(t) == {l \in Locations : \E v \in t.shown \cup {Entry} : l \in Range(Links[v])}

Full(S) == Cardinality(DOMAIN S.navigation) = MaxNavigation

\* The targets are the links that were seen, unless the limit was met; those handed over by an action say so, and
\* one that says it was followed was.
NavigationTells(S, t) ==
    /\ DOMAIN S.navigation \subseteq Seen(t)
    /\ Full(S) \/ Seen(t) \subseteq DOMAIN S.navigation
    /\ Full(S) \/ \A l \in t.handed : l \in DOMAIN S.navigation /\ S.navigation[l].exposed
    /\ \A l \in DOMAIN S.navigation : S.navigation[l].followed =>
           \E p \in t.visited : p = l \/ (Scope(l) # "PRODUCT" /\ Origin[p] = Origin[l])

PassedIsValid == stage.outcome = "passed" => Valid(stage.art, stage.cited)

\* What the host recorded of the product agrees with what happened.
Agrees(S, t) ==
    /\ LogTells(S, t)
    /\ OutcomesAreReal(S, t)
    /\ ShownOnly(S, t)
    /\ VisitedKnown(S, t)
    /\ StatesAreShown(S, t)
    /\ NavigationTells(S, t)

IInv ==
    /\ Types
    /\ WithinLimits
    /\ Page[view] \in truth.visited
    /\ Agrees(surface, truth)
    /\ PassedIsValid

-----------------------------------------------------------------------------
(* Numbers. *)

LEMMA ConstantsAre ==
  /\ MaxLocations \in Nat \ {0} /\ MaxStates \in Nat \ {0} /\ MaxPerLocation \in Nat \ {0} /\ MaxActions \in Nat \ {0}
  /\ MaxNavigation \in Nat \ {0} /\ MaxObservations \in Nat \ {0} /\ Attempts \in Nat \ {0}
  /\ Page \in [Views -> Locations] /\ Entry \in Views /\ NoView \notin Views
  /\ Links \in [Views -> Seq(Locations)]
  BY BoundsAssumption, ProductAssumption

Below == OpToRel(<, Nat)

LEMMA LeastNumber ==
  ASSUME NEW S, S \subseteq Nat, S # {}
  PROVE  \E n \in S : \A m \in S : n <= m
  <1>1. IsWellFoundedOn(Below, Nat)
    BY NatLessThanWellFounded DEF Below
  <1>2. \A m, n \in Nat : m < n => <<m, n>> \in Below
    BY DEF OpToRel, Below
  <1>3. PICK n \in S : \A m \in S : ~ (<<m, n>> \in Below)
    BY <1>1, WFMin
  <1>4. ASSUME NEW m \in S
        PROVE  n <= m
    <2>1. m \in Nat /\ n \in Nat
      OBVIOUS
    <2>2. ~ (m < n)
      BY <1>2, <1>3, <2>1
    <2> QED
      BY <2>1, <2>2
  <1> QED
    BY <1>4

LEMMA GreatestNumber ==
  ASSUME NEW top \in Nat, NEW S, S \subseteq 0..top, S # {}
  PROVE  \E n \in S : \A m \in S : m <= n
  <1> DEFINE mirror == {top - n : n \in S}
  <1>1. mirror \subseteq Nat /\ mirror # {}
    <2>1. \A n \in S : n \in Nat /\ top - n \in Nat
      OBVIOUS
    <2>2. PICK n : n \in S
      OBVIOUS
    <2>3. top - n \in mirror
      BY <2>2
    <2> QED
      BY <2>1, <2>3
  <1>2. PICK k \in mirror : \A m \in mirror : k <= m
    <2> HIDE DEF mirror
    <2> QED
      BY <1>1, LeastNumber
  <1>3. PICK n \in S : k = top - n
    OBVIOUS
  <1>4. \A m \in S : m <= n
    BY <1>2, <1>3
  <1> QED
    BY <1>4

-----------------------------------------------------------------------------
(* The elements of a sequence that join. *)

LEMMA RangeIsFinite ==
  ASSUME NEW L, NEW ls \in Seq(L)
  PROVE  IsFiniteSet(Range(ls)) /\ Range(ls) \subseteq L /\ \A i \in 1..Len(ls) : ls[i] \in Range(ls)
  <1>1. IsFiniteSet(1..Len(ls))
    BY FS_Interval
  <1>2. ls \in Surjection(1..Len(ls), Range(ls))
    BY DEF Surjection, Range
  <1>3. IsFiniteSet(Range(ls))
    BY <1>1, <1>2, FS_Surjection
  <1> QED
    BY <1>3 DEF Range

\* As many join as there is room for; if they do not all join, there is no room left.
LEMMA JoiningFills ==
  ASSUME NEW L, NEW ls \in Seq(L), NEW wanted, wanted \subseteq Range(ls), NEW room \in Nat
  PROVE  LET joined == Joining(ls, wanted, room)
         IN  /\ joined \subseteq wanted /\ IsFiniteSet(joined) /\ Cardinality(joined) <= room
             /\ joined = wanted \/ Cardinality(joined) = room
  <1> DEFINE wanting == {j \in 1..Len(ls) : ls[j] \in wanted}
  <1> DEFINE prefix(j) == wanted \cap {ls[k] : k \in 1..j}
  <1> DEFINE Js == {j \in wanting : Cardinality(prefix(j)) <= room}
  <1> DEFINE joined == {ls[i] : i \in Js}
  <1>1. joined = Joining(ls, wanted, room)
    <2>1. DOMAIN ls = 1..Len(ls)
      OBVIOUS
    <2> QED
      BY <2>1 DEF Joining
  <1>2. joined \subseteq wanted
    OBVIOUS
  <1>3. IsFiniteSet(wanted)
    BY RangeIsFinite, FS_Subset
  <1>4. IsFiniteSet(joined) /\ Cardinality(joined) \in Nat
    <2> HIDE DEF joined
    <2> QED
      BY <1>2, <1>3, FS_Subset, FS_CardinalityType
  <1>5. \A j : prefix(j) \in SUBSET wanted
    OBVIOUS
  <1>6. \A j : IsFiniteSet(prefix(j)) /\ Cardinality(prefix(j)) \in Nat
    <2> HIDE DEF prefix
    <2> QED
      BY <1>3, <1>5, FS_Subset, FS_CardinalityType
  <1>7. \A j \in wanting : \A k \in wanting : k <= j => ls[k] \in prefix(j)
    OBVIOUS
  <1>8. \A j \in wanting : \A x \in prefix(j - 1) : \E k \in wanting : k < j /\ x = ls[k]
    OBVIOUS
  <1>9. \A j \in wanting : prefix(j) = prefix(j - 1) \cup {ls[j]}
    <2>1. TAKE j \in wanting
    <2>2. j \in 1..Len(ls) /\ ls[j] \in wanted
      BY <2>1
    <2>3. 1..j = (1..(j - 1)) \cup {j}
      BY <2>2
    <2> QED
      BY <2>2, <2>3
  <1>10. \A l \in wanted : \E j \in wanting : l = ls[j]
    BY DEF Range
  <1>11. wanting \subseteq 1..Len(ls) /\ Len(ls) \in Nat
    OBVIOUS
  <1> HIDE DEF prefix, wanting
  <1>12. ASSUME joined # {}
         PROVE  Cardinality(joined) <= room
    <2>1. Js # {} /\ Js \subseteq 0..Len(ls)
      <3>1. Js # {}
        BY <1>12
      <3>2. Js \subseteq wanting
        OBVIOUS
      <3> HIDE DEF Js
      <3> QED
        BY <1>11, <3>1, <3>2
    <2>2. PICK m \in Js : \A j \in Js : j <= m
      <3> HIDE DEF Js
      <3> QED
        BY <1>11, <2>1, GreatestNumber
    <2>3. joined \subseteq prefix(m)
      BY <1>7, <2>2
    <2>4. Cardinality(prefix(m)) <= room
      BY <2>2
    <2>5. Cardinality(joined) <= Cardinality(prefix(m))
      <3> HIDE DEF joined
      <3> QED
        BY <1>6, <2>3, FS_Subset
    <2> QED
      BY <1>4, <1>6, <2>4, <2>5
  <1>13. joined = {} => Cardinality(joined) <= room
    <2> HIDE DEF joined
    <2> QED
      BY FS_EmptySet
  <1>14. ASSUME NEW l \in wanted, l \notin joined
         PROVE  Cardinality(joined) >= room
    <2> DEFINE over == wanting \ Js
    <2>1. over # {} /\ over \subseteq Nat
      <3>1. PICK j \in wanting : l = ls[j]
        BY <1>10, <1>14
      <3>2. j \notin Js
        BY <1>14, <3>1
      <3>3. over \subseteq wanting /\ j \in over
        BY <3>1, <3>2
      <3>4. 1..Len(ls) \subseteq Nat
        OBVIOUS
      <3> HIDE DEF Js, over
      <3> QED
        BY <1>11, <3>3, <3>4
    <2>2. PICK m \in over : \A j \in over : m <= j
      <3> HIDE DEF over
      <3> QED
        BY <2>1, LeastNumber
    <2>3. m \in wanting /\ ~(Cardinality(prefix(m)) <= room)
      BY <2>2
    <2>4. prefix(m - 1) \subseteq joined
      <3>1. SUFFICES ASSUME NEW x \in prefix(m - 1)
                     PROVE  x \in joined
        OBVIOUS
      <3>2. PICK k \in wanting : k < m /\ x = ls[k]
        BY <1>8, <2>3
      <3>3. k \in Js
        BY <1>11, <2>2, <2>3, <3>2
      <3> QED
        BY <3>2, <3>3
    <2> HIDE DEF joined
    <2>5. Cardinality(prefix(m - 1)) <= Cardinality(joined)
      BY <1>4, <2>4, FS_Subset
    <2>6. Cardinality(prefix(m)) <= Cardinality(prefix(m - 1)) + 1
      <3>1. prefix(m) = prefix(m - 1) \cup {ls[m]} /\ IsFiniteSet(prefix(m - 1)) /\ Cardinality(prefix(m - 1)) \in Nat
        BY <1>6, <1>9, <2>3
      <3>2. Cardinality(prefix(m - 1) \cup {ls[m]})
              = IF ls[m] \in prefix(m - 1) THEN Cardinality(prefix(m - 1)) ELSE Cardinality(prefix(m - 1)) + 1
        BY <3>1, FS_AddElement
      <3> QED
        BY <3>1, <3>2
    <2> QED
      BY <1>4, <1>6, <2>3, <2>5, <2>6
  <1> HIDE DEF joined
  <1>15. Cardinality(joined) <= room
    BY <1>12, <1>13
  <1>16. joined = wanted \/ Cardinality(joined) = room
    <2>1. CASE wanted \subseteq joined
      BY <1>2, <2>1
    <2>2. CASE \E l \in wanted : l \notin joined
      BY <1>4, <1>14, <1>15, <2>2
    <2> QED
      BY <2>1, <2>2
  <1> QED
    BY <1>1, <1>2, <1>4, <1>15, <1>16

-----------------------------------------------------------------------------
(* The surface: what each of its operators changes, and what it keeps. *)

USE ConstantsAre

LEMMA StateIsOne ==
  ASSUME NEW v \in Views
  PROVE  /\ StateOf(v) \in AllStates /\ Page[v] \in Locations
         /\ StateOf(v) # NoState => StateOf(v) = [at |-> Page[v], controls |-> Controls(v)]
  BY DEF AllStates, StateOf

\* The locations grow, or the limit was met.
Grows(S, T) == S.locations \subseteq T.locations /\ (S.overflow => T.overflow)

\* What no location and no state touches.
SameLog(S, T) ==
    /\ T.actions = S.actions /\ T.observed = S.observed /\ T.navigation = S.navigation
    /\ T.inputs = S.inputs /\ T.state = S.state /\ T.last = S.last

LEMMA ExpandGrows ==
  ASSUME NEW S \in Surfaces, Bounded(S), NEW ls \in Seq(Locations)
  PROVE  LET T == Expand(S, ls)
         IN  /\ T \in Surfaces /\ Bounded(T) /\ Grows(S, T) /\ SameLog(S, T)
             /\ T.states = S.states /\ T.stateOverflow = S.stateOverflow
             /\ T.overflow \/ \A l \in Range(ls) : Scope(l) = "PRODUCT" => l \in T.locations
  <1> DEFINE wanted == {l \in Range(ls) : Scope(l) # "EXTERNAL"} \ S.locations
  <1> DEFINE room == MaxLocations - Cardinality(S.locations)
  <1> DEFINE joined == Joining(ls, wanted, room)
  <1>1. Cardinality(S.locations) \in Nat /\ room \in Nat
    BY FS_CardinalityType DEF Bounded
  <1>2. joined \subseteq wanted /\ IsFiniteSet(joined) /\ Cardinality(joined) <= room
    <2> HIDE DEF room
    <2>1. wanted \subseteq Range(ls)
      OBVIOUS
    <2> HIDE DEF wanted
    <2> QED
      BY <1>1, <2>1, JoiningFills
  <1>3. wanted \subseteq Locations /\ wanted \cap S.locations = {}
    BY RangeIsFinite
  <1>4. \A l \in Range(ls) : Scope(l) = "PRODUCT" => l \in wanted \/ l \in S.locations
    OBVIOUS
  <1> HIDE DEF wanted, joined
  <1>5. Cardinality(joined) \in Nat /\ S.locations \cap joined = {}
    BY <1>2, <1>3, FS_CardinalityType
  <1>6. IsFiniteSet(S.locations \cup joined) /\ Cardinality(S.locations \cup joined) <= MaxLocations
    <2>1. IsFiniteSet(S.locations)
      BY DEF Bounded
    <2>2. Cardinality(S.locations \cup joined) = Cardinality(S.locations) + Cardinality(joined) - Cardinality(S.locations \cap joined)
      BY <1>2, <2>1, FS_Union
    <2>3. Cardinality(S.locations \cap joined) = 0
      BY <1>5, FS_EmptySet
    <2>4. IsFiniteSet(S.locations \cup joined)
      BY <1>2, <2>1, FS_Union
    <2> QED
      BY <1>1, <1>2, <1>5, <2>2, <2>3, <2>4
  <1> DEFINE T == [S EXCEPT !.locations = @ \cup joined, !.overflow = @ \/ wanted # joined]
  <1>7. T = Expand(S, ls)
    BY DEF Expand, wanted, joined
  <1>8. T \in Surfaces
    BY <1>2, <1>3 DEF Surfaces
  <1>9. /\ T.locations = S.locations \cup joined /\ (T.overflow <=> S.overflow \/ wanted # joined)
        /\ SameLog(S, T) /\ T.states = S.states /\ T.stateOverflow = S.stateOverflow
    BY DEF Surfaces, SameLog
  <1> HIDE DEF T
  <1>10. Bounded(T)
    BY <1>6, <1>9 DEF Bounded, SameLog
  <1>11. Grows(S, T)
    BY <1>9 DEF Grows
  <1>12. T.overflow \/ \A l \in Range(ls) : Scope(l) = "PRODUCT" => l \in T.locations
    BY <1>4, <1>9
  <1> QED
    BY <1>7, <1>8, <1>9, <1>10, <1>11, <1>12

LEMMA RegisterStateKeeps ==
  ASSUME NEW S \in Surfaces, Bounded(S), NEW s \in AllStates
  PROVE  LET T == RegisterState(S, s)
         IN  /\ T \in Surfaces /\ Bounded(T) /\ SameLog(S, T)
             /\ T.locations = S.locations /\ T.overflow = S.overflow
             /\ Range(S.states) \subseteq Range(T.states)
             /\ Range(T.states) \subseteq Range(S.states) \cup ({s} \ {NoState})
             /\ S.stateOverflow => T.stateOverflow
             /\ T.stateOverflow \/ s = NoState \/ s \in Range(T.states)
  <1> DEFINE T == RegisterState(S, s)
  <1> DEFINE here == {i \in DOMAIN S.states : S.states[i].at = s.at}
  <1>1. S.states \in Seq(AllStates) /\ S.stateOverflow \in BOOLEAN
    BY DEF Surfaces
  <1>2. CASE s = NoState \/ s \in Range(S.states)
    <2>1. T = S
      BY <1>2 DEF RegisterState
    <2> QED
      BY <1>2, <2>1 DEF SameLog
  <1>3. CASE ~(s = NoState \/ s \in Range(S.states)) /\ (Len(S.states) >= MaxStates \/ Cardinality(here) >= MaxPerLocation)
    <2>1. T = [S EXCEPT !.stateOverflow = TRUE]
      BY <1>3 DEF RegisterState
    <2>2. T \in Surfaces /\ T.stateOverflow /\ SameLog(S, T)
          /\ T.locations = S.locations /\ T.overflow = S.overflow /\ T.states = S.states
      BY <2>1 DEF Surfaces, SameLog
    <2>3. Bounded(T)
      BY <2>2 DEF Bounded, SameLog
    <2> QED
      BY <2>2, <2>3
  <1>4. CASE ~(s = NoState \/ s \in Range(S.states)) /\ ~(Len(S.states) >= MaxStates \/ Cardinality(here) >= MaxPerLocation)
    <2>1. T = [S EXCEPT !.states = Append(@, s)]
      BY <1>4 DEF RegisterState
    <2>2. Append(S.states, s) \in Seq(AllStates) /\ Len(Append(S.states, s)) = Len(S.states) + 1
      BY <1>1
    <2>3. T \in Surfaces /\ T.states = Append(S.states, s) /\ SameLog(S, T)
          /\ T.locations = S.locations /\ T.overflow = S.overflow /\ T.stateOverflow = S.stateOverflow
      BY <2>1, <2>2 DEF Surfaces, SameLog
    <2>4. Bounded(T)
      BY <1>1, <1>4, <2>2, <2>3 DEF Bounded, SameLog
    <2>5. Range(Append(S.states, s)) = Range(S.states) \cup {s}
      <3>1. DOMAIN Append(S.states, s) = DOMAIN S.states \cup {Len(S.states) + 1}
        BY <1>1
      <3>2. \A i \in DOMAIN S.states : Append(S.states, s)[i] = S.states[i]
        BY <1>1
      <3>3. Append(S.states, s)[Len(S.states) + 1] = s
        BY <1>1
      <3> QED
        BY <3>1, <3>2, <3>3 DEF Range
    <2> QED
      BY <1>4, <2>3, <2>4, <2>5
  <1> QED
    BY <1>2, <1>3, <1>4

\* absorbBrowserResult: the page is known, unless the limit was met; only a tree brings a state.
LEMMA AbsorbGrows ==
  ASSUME NEW S \in Surfaces, Bounded(S), NEW v \in Views, NEW tree \in BOOLEAN
  PROVE  LET T == Absorb(S, v, tree)
         IN  /\ T \in Surfaces /\ Bounded(T) /\ Grows(S, T) /\ SameLog(S, T)
             /\ T.overflow \/ (Scope(Page[v]) = "PRODUCT" => Page[v] \in T.locations)
             /\ Range(S.states) \subseteq Range(T.states)
             /\ Range(T.states) \subseteq Range(S.states) \cup ({StateOf(v)} \ {NoState})
             /\ S.stateOverflow => T.stateOverflow
             /\ IF tree THEN T.stateOverflow \/ StateOf(v) = NoState \/ StateOf(v) \in Range(T.states)
                ELSE T.states = S.states /\ T.stateOverflow = S.stateOverflow
  <1> DEFINE R == Expand(S, <<Page[v]>>)
  <1> DEFINE N == RegisterState(R, StateOf(v))
  <1> DEFINE T == Expand(N, Links[v])
  <1>1. /\ R \in Surfaces /\ Bounded(R) /\ Grows(S, R) /\ SameLog(S, R)
        /\ R.states = S.states /\ R.stateOverflow = S.stateOverflow
        /\ R.overflow \/ (Scope(Page[v]) = "PRODUCT" => Page[v] \in R.locations)
    <2>1. <<Page[v]>> \in Seq(Locations) /\ Page[v] \in Range(<<Page[v]>>)
      BY DEF Range
    <2> QED
      BY <2>1, ExpandGrows
  <1> HIDE DEF R
  <1>2. /\ N \in Surfaces /\ Bounded(N) /\ SameLog(R, N)
        /\ N.locations = R.locations /\ N.overflow = R.overflow
        /\ Range(R.states) \subseteq Range(N.states)
        /\ Range(N.states) \subseteq Range(R.states) \cup ({StateOf(v)} \ {NoState})
        /\ R.stateOverflow => N.stateOverflow
        /\ N.stateOverflow \/ StateOf(v) = NoState \/ StateOf(v) \in Range(N.states)
    BY <1>1, StateIsOne, RegisterStateKeeps
  <1> HIDE DEF N
  <1>3. /\ T \in Surfaces /\ Bounded(T) /\ Grows(N, T) /\ SameLog(N, T)
        /\ T.states = N.states /\ T.stateOverflow = N.stateOverflow
    BY <1>2, ExpandGrows
  <1> HIDE DEF T
  <1>4. Absorb(S, v, tree) = IF tree THEN T ELSE R
    BY DEF Absorb, T, N, R
  <1>5. CASE tree
    <2>1. Grows(S, T) /\ SameLog(S, T) /\ (T.overflow \/ (Scope(Page[v]) = "PRODUCT" => Page[v] \in T.locations))
      BY <1>1, <1>2, <1>3 DEF Grows, SameLog
    <2> QED
      BY <1>1, <1>2, <1>3, <1>4, <1>5, <2>1
  <1>6. CASE ~tree
    BY <1>1, <1>4, <1>6
  <1> QED
    BY <1>5, <1>6

\* What no navigation target touches.
SameButNavigation(S, T) ==
    /\ T.locations = S.locations /\ T.overflow = S.overflow /\ T.states = S.states /\ T.stateOverflow = S.stateOverflow
    /\ T.actions = S.actions /\ T.observed = S.observed /\ T.inputs = S.inputs /\ T.state = S.state /\ T.last = S.last

LEMMA TargetsAre ==
  ASSUME NEW S \in Surfaces
  PROVE  /\ DOMAIN S.navigation \subseteq Locations
         /\ S.navigation \in [DOMAIN S.navigation -> TargetRecord]
  <1>1. S.navigation \in UNION {[ls -> TargetRecord] : ls \in SUBSET Locations}
    BY DEF Surfaces
  <1>2. PICK ls \in SUBSET Locations : S.navigation \in [ls -> TargetRecord]
    BY <1>1
  <1>3. DOMAIN S.navigation = ls
    BY <1>2
  <1> QED
    BY <1>2, <1>3

LEMMA NavigationFits ==
  ASSUME NEW S \in Surfaces, NEW D \in SUBSET Locations, NEW n \in [D -> TargetRecord]
  PROVE  /\ [S EXCEPT !.navigation = n] \in Surfaces
         /\ SameButNavigation(S, [S EXCEPT !.navigation = n])
         /\ [S EXCEPT !.navigation = n].navigation = n
  <1>1. n \in UNION {[ls -> TargetRecord] : ls \in SUBSET Locations}
    OBVIOUS
  <1> QED
    BY <1>1 DEF Surfaces, SameButNavigation

\* markFollowed: only what was reached is marked, and nothing is forgotten.
LEMMA MarkFollowedMarks ==
  ASSUME NEW S \in Surfaces, Bounded(S), NEW l \in Locations
  PROVE  LET T == MarkFollowed(S, l)
         IN  /\ T \in Surfaces /\ Bounded(T) /\ SameButNavigation(S, T)
             /\ DOMAIN T.navigation = DOMAIN S.navigation
             /\ \A t \in DOMAIN S.navigation :
                   /\ T.navigation[t].exposed = S.navigation[t].exposed
                   /\ T.navigation[t].followed =>
                         S.navigation[t].followed \/ t = l \/ (Scope(t) # "PRODUCT" /\ Origin[t] = Origin[l])
  <1> DEFINE reached(t) == t = l \/ (Scope(t) # "PRODUCT" /\ Origin[t] = Origin[l])
  <1> DEFINE D == DOMAIN S.navigation
  <1> DEFINE n == [t \in D |-> [S.navigation[t] EXCEPT !.followed = @ \/ t = l \/ (Scope(t) # "PRODUCT" /\ Origin[t] = Origin[l])]]
  <1>1. MarkFollowed(S, l) = [S EXCEPT !.navigation = n]
    BY Zenon DEF MarkFollowed
  <1>2. \A t : reached(t) \in BOOLEAN
    OBVIOUS
  <1>3. D \in SUBSET Locations /\ S.navigation \in [D -> TargetRecord]
    BY TargetsAre
  <1>4. \A t : reached(t) <=> t = l \/ (Scope(t) # "PRODUCT" /\ Origin[t] = Origin[l])
    OBVIOUS
  <1>9. n = [t \in D |-> [S.navigation[t] EXCEPT !.followed = S.navigation[t].followed \/ reached(t)]]
    OBVIOUS
  <1> HIDE DEF D, reached, n
  <1>5. n \in [D -> TargetRecord] /\ DOMAIN n = D
        /\ \A t \in D : n[t].exposed = S.navigation[t].exposed /\ (n[t].followed => S.navigation[t].followed \/ reached(t))
    BY <1>2, <1>3, <1>9 DEF TargetRecord
  <1> DEFINE T == [S EXCEPT !.navigation = n]
  <1>6. T \in Surfaces /\ SameButNavigation(S, T) /\ T.navigation = n
    BY <1>3, <1>5, NavigationFits
  <1> HIDE DEF T
  <1>7. Bounded(T)
    BY <1>5, <1>6 DEF Bounded, SameButNavigation, D
  <1> QED
    BY <1>1, <1>4, <1>5, <1>6, <1>7 DEF T, D

\* registerNavigation: a page's links are targets now, unless the limit was met; the new ones say what exposed them.
LEMMA RegisterNavigationAdds ==
  ASSUME NEW S \in Surfaces, Bounded(S), NEW v \in Views, NEW exposing \in BOOLEAN
  PROVE  LET T == RegisterNavigation(S, v, exposing)
         IN  /\ T \in Surfaces /\ Bounded(T) /\ SameButNavigation(S, T)
             /\ DOMAIN S.navigation \subseteq DOMAIN T.navigation
             /\ DOMAIN T.navigation \subseteq DOMAIN S.navigation \cup Range(Links[v])
             /\ \A l \in DOMAIN S.navigation : T.navigation[l] = S.navigation[l]
             /\ \A l \in DOMAIN T.navigation \ DOMAIN S.navigation :
                   T.navigation[l] = [exposed |-> exposing, followed |-> FALSE]
             /\ Full(T) \/ Range(Links[v]) \subseteq DOMAIN T.navigation
             /\ Full(S) => DOMAIN T.navigation = DOMAIN S.navigation /\ Full(T)
  <1> DEFINE known == DOMAIN S.navigation
  <1> DEFINE room == MaxNavigation - Cardinality(known)
  <1> DEFINE wanted == Range(Links[v]) \ known
  <1> DEFINE joined == Joining(Links[v], wanted, room)
  <1> DEFINE n == [l \in known \cup joined |-> IF l \in known THEN S.navigation[l] ELSE [exposed |-> exposing, followed |-> FALSE]]
  <1> DEFINE T == [S EXCEPT !.navigation = n]
  <1>1. T = RegisterNavigation(S, v, exposing)
    BY DEF RegisterNavigation
  <1>2. IsFiniteSet(known) /\ Cardinality(known) \in Nat /\ room \in Nat
    BY FS_CardinalityType DEF Bounded
  <1>3. Links[v] \in Seq(Locations) /\ wanted \subseteq Range(Links[v]) /\ wanted \cap known = {}
    OBVIOUS
  <1>4. known \in SUBSET Locations /\ S.navigation \in [known -> TargetRecord] /\ wanted \subseteq Locations
    BY <1>3, TargetsAre, RangeIsFinite
  <1>5. Range(Links[v]) \subseteq wanted \cup known
    OBVIOUS
  <1>6. room = MaxNavigation - Cardinality(known)
    OBVIOUS
  <1>7. Full(S) <=> Cardinality(known) = MaxNavigation
    BY DEF Full
  <1> HIDE DEF wanted, room
  <1>8. joined \subseteq wanted /\ IsFiniteSet(joined) /\ Cardinality(joined) <= room /\ (joined = wanted \/ Cardinality(joined) = room)
    BY <1>2, <1>3, JoiningFills
  <1> HIDE DEF joined, known
  <1>9. IsFiniteSet(known \cup joined) /\ Cardinality(known \cup joined) = Cardinality(known) + Cardinality(joined)
        /\ Cardinality(joined) \in Nat
    <2>1. known \cap joined = {}
      BY <1>3, <1>8
    <2>2. Cardinality(joined) \in Nat
      BY <1>8, FS_CardinalityType
    <2>3. IsFiniteSet(known \cup joined)
          /\ Cardinality(known \cup joined) = Cardinality(known) + Cardinality(joined) - Cardinality(known \cap joined)
      BY <1>2, <1>8, FS_Union
    <2>4. Cardinality(known \cap joined) = 0
      BY <2>1, FS_EmptySet
    <2> QED
      BY <1>2, <2>2, <2>3, <2>4
  <1>10. n \in [known \cup joined -> TargetRecord] /\ known \cup joined \in SUBSET Locations
    BY <1>4, <1>8 DEF TargetRecord
  <1>11. /\ DOMAIN n = known \cup joined /\ \A l \in known : n[l] = S.navigation[l]
         /\ \A l \in (known \cup joined) \ known : n[l] = [exposed |-> exposing, followed |-> FALSE]
    OBVIOUS
  <1> HIDE DEF n
  <1>12. T \in Surfaces /\ SameButNavigation(S, T) /\ T.navigation = n
    BY <1>10, NavigationFits
  <1> HIDE DEF T
  <1>13. Bounded(T)
    <2>1. Cardinality(known \cup joined) <= MaxNavigation
      BY <1>2, <1>6, <1>8, <1>9
    <2> QED
      BY <1>9, <1>11, <1>12, <2>1 DEF Bounded, SameButNavigation
  <1>14. Full(T) <=> Cardinality(known) + Cardinality(joined) = MaxNavigation
    BY <1>9, <1>11, <1>12 DEF Full
  <1>15. Full(T) \/ Range(Links[v]) \subseteq known \cup joined
    BY <1>2, <1>5, <1>6, <1>8, <1>9, <1>14
  <1>16. Full(S) => joined = {} /\ Full(T)
    <2>1. SUFFICES ASSUME Full(S)
                   PROVE  joined = {} /\ Full(T)
      OBVIOUS
    <2>2. Cardinality(joined) = 0
      BY <1>2, <1>6, <1>7, <1>8, <1>9, <2>1
    <2>3. joined = {}
      BY <1>8, <2>2, FS_EmptySet
    <2> QED
      BY <1>2, <1>7, <1>14, <2>1, <2>2, <2>3
  <1>17. known \subseteq DOMAIN T.navigation /\ DOMAIN T.navigation \subseteq known \cup Range(Links[v])
    BY <1>3, <1>8, <1>11, <1>12
  <1>18. /\ \A l \in known : T.navigation[l] = S.navigation[l]
         /\ \A l \in DOMAIN T.navigation \ known : T.navigation[l] = [exposed |-> exposing, followed |-> FALSE]
         /\ Full(T) \/ Range(Links[v]) \subseteq DOMAIN T.navigation
         /\ Full(S) => DOMAIN T.navigation = known /\ Full(T)
    BY <1>11, <1>12, <1>15, <1>16
  <1> QED
    BY <1>1, <1>12, <1>13, <1>17, <1>18 DEF known

LEMMA FunctionIsSeq ==
  ASSUME NEW T, NEW n \in Nat, NEW f, f = [i \in 1..n |-> f[i]], \A i \in 1..n : f[i] \in T
  PROVE  f \in Seq(T)
  <1>1. f \in [1..n -> T]
    OBVIOUS
  <1> QED
    BY <1>1

\* A look: the page is known and shown, its state is registered, its links are targets, and every action is verified.
\* Only the last action gets an outcome, and without a new link or another view it is none.
Looked(S, v, T) ==
    /\ T \in Surfaces /\ Bounded(T) /\ Grows(S, T)
    /\ T.overflow \/ (Scope(Page[v]) = "PRODUCT" => Page[v] \in T.locations)
    /\ Range(T.states) \subseteq Range(S.states) \cup ({StateOf(v)} \ {NoState})
    /\ Range(S.states) \subseteq Range(T.states)
    /\ S.stateOverflow => T.stateOverflow
    /\ T.stateOverflow \/ StateOf(v) = NoState \/ StateOf(v) \in Range(T.states)
    /\ T.observed = S.observed \cup {Page[v]} /\ T.last = v
    /\ Unverified(T) = {} /\ DOMAIN T.actions = DOMAIN S.actions
    /\ \A i \in DOMAIN T.actions :
          /\ T.actions[i].auth = S.actions[i].auth
          /\ T.actions[i].outcome =>
                \/ S.actions[i].outcome
                \/ /\ i \in Unverified(S) /\ i = Max(Unverified(S)) /\ S.last # NoView
                   /\ S.last = v => DOMAIN T.navigation # DOMAIN S.navigation
    /\ DOMAIN S.navigation \subseteq DOMAIN T.navigation
    /\ DOMAIN T.navigation \subseteq DOMAIN S.navigation \cup Range(Links[v])
    /\ Full(T) \/ Range(Links[v]) \subseteq DOMAIN T.navigation
    /\ Full(S) => DOMAIN T.navigation = DOMAIN S.navigation /\ Full(T)
    /\ \A l \in DOMAIN S.navigation :
          /\ T.navigation[l].exposed = S.navigation[l].exposed
          /\ T.navigation[l].followed =>
                S.navigation[l].followed \/ l = Page[v] \/ (Scope(l) # "PRODUCT" /\ Origin[l] = Origin[Page[v]])
    /\ \A l \in DOMAIN T.navigation \ DOMAIN S.navigation :
          /\ T.navigation[l].exposed <=> \E i \in Unverified(S) : S.actions[i].kind # "navigate"
          /\ ~T.navigation[l].followed

LEMMA LookShows ==
  ASSUME NEW S \in Surfaces, Bounded(S), NEW v \in Views
  PROVE  Looked(S, v, Look(S, v))
  <1> DEFINE open == Unverified(S)
  <1> DEFINE acted == {i \in open : S.actions[i].kind # "navigate"}
  <1> DEFINE A == Absorb(S, v, TRUE)
  <1> DEFINE M == MarkFollowed(A, Page[v])
  <1> DEFINE seen == [M EXCEPT !.observed = @ \cup {Page[v]}, !.state = IF StateOf(v) = NoState THEN @ ELSE StateOf(v)]
  <1> DEFINE exposing == acted # {}
  <1> DEFINE linked == RegisterNavigation(seen, v, exposing)
  <1> DEFINE exposed == exposing /\ DOMAIN linked.navigation # DOMAIN seen.navigation
  <1> DEFINE outcome(i) == S.last # NoView /\ i = Max(open) /\ Visible(S.last, v, S.actions[i].kind, exposed)
  <1> DEFINE verified == [i \in DOMAIN S.actions |->
                            IF i \in open THEN [S.actions[i] EXCEPT !.verified = TRUE, !.outcome = /\ S.last # NoView /\ i = Max(open)
                                                                      /\ Visible(S.last, v, S.actions[i].kind, exposed)]
                            ELSE S.actions[i]]
  <1> DEFINE T == [linked EXCEPT !.last = v, !.actions = verified]
  <1>1. T = Look(S, v)
    BY Zenon DEF Look
  <1>2. /\ A \in Surfaces /\ Bounded(A) /\ Grows(S, A) /\ SameLog(S, A)
        /\ A.overflow \/ (Scope(Page[v]) = "PRODUCT" => Page[v] \in A.locations)
        /\ Range(S.states) \subseteq Range(A.states)
        /\ Range(A.states) \subseteq Range(S.states) \cup ({StateOf(v)} \ {NoState})
        /\ S.stateOverflow => A.stateOverflow
        /\ A.stateOverflow \/ StateOf(v) = NoState \/ StateOf(v) \in Range(A.states)
    BY AbsorbGrows
  <1> HIDE DEF A
  <1>3. /\ M \in Surfaces /\ Bounded(M) /\ SameButNavigation(A, M)
        /\ DOMAIN M.navigation = DOMAIN A.navigation
        /\ \A l \in DOMAIN A.navigation :
              /\ M.navigation[l].exposed = A.navigation[l].exposed
              /\ M.navigation[l].followed =>
                    A.navigation[l].followed \/ l = Page[v] \/ (Scope(l) # "PRODUCT" /\ Origin[l] = Origin[Page[v]])
    BY <1>2, StateIsOne, MarkFollowedMarks
  <1> HIDE DEF M
  <1>4. /\ seen \in Surfaces /\ seen.observed = M.observed \cup {Page[v]} /\ seen.navigation = M.navigation
        /\ seen.locations = M.locations /\ seen.overflow = M.overflow
        /\ seen.states = M.states /\ seen.stateOverflow = M.stateOverflow
    BY <1>3, StateIsOne DEF Surfaces
  <1> HIDE DEF seen
  <1>5. Bounded(seen)
    BY <1>3, <1>4 DEF Bounded
  <1>5a. exposing \in BOOLEAN /\ (exposing <=> \E i \in open : S.actions[i].kind # "navigate")
    OBVIOUS
  <1> HIDE DEF exposing
  <1>6. /\ linked \in Surfaces /\ Bounded(linked) /\ SameButNavigation(seen, linked)
        /\ DOMAIN seen.navigation \subseteq DOMAIN linked.navigation
        /\ DOMAIN linked.navigation \subseteq DOMAIN seen.navigation \cup Range(Links[v])
        /\ \A l \in DOMAIN seen.navigation : linked.navigation[l] = seen.navigation[l]
        /\ \A l \in DOMAIN linked.navigation \ DOMAIN seen.navigation :
              linked.navigation[l] = [exposed |-> exposing, followed |-> FALSE]
        /\ Full(linked) \/ Range(Links[v]) \subseteq DOMAIN linked.navigation
        /\ Full(seen) => DOMAIN linked.navigation = DOMAIN seen.navigation /\ Full(linked)
    BY <1>4, <1>5, <1>5a, RegisterNavigationAdds
  <1> HIDE DEF linked
  <1>7. /\ S.actions \in Seq(ActionRecord) /\ DOMAIN S.actions = 1..Len(S.actions) /\ Len(S.actions) \in Nat
        /\ S.last \in Views \cup {NoView}
    BY DEF Surfaces
  <1>8. \A i \in open : i \in DOMAIN S.actions
    BY DEF Unverified
  <1>9. \A i \in DOMAIN S.actions :
           /\ verified[i] \in ActionRecord /\ verified[i].verified /\ verified[i].auth = S.actions[i].auth
           /\ verified[i].outcome => S.actions[i].outcome \/ (i \in open /\ outcome(i))
    <2>1. TAKE i \in DOMAIN S.actions
    <2>2. S.actions[i] \in ActionRecord
      BY <1>7, <2>1
    <2>3. outcome(i) \in BOOLEAN
      OBVIOUS
    <2>4. verified[i] = IF i \in open THEN [S.actions[i] EXCEPT !.verified = TRUE, !.outcome = outcome(i)] ELSE S.actions[i]
      BY <2>1
    <2>5. i \notin open => S.actions[i].verified
      BY <2>1 DEF Unverified
    <2> HIDE DEF outcome, verified
    <2> QED
      BY <2>2, <2>3, <2>4, <2>5 DEF ActionRecord
  <1>10. DOMAIN verified = DOMAIN S.actions
    OBVIOUS
  <1>11. verified \in Seq(ActionRecord)
    <2>1. \A i \in 1..Len(S.actions) : verified[i] \in ActionRecord
      BY <1>7, <1>9
    <2>2. verified = [i \in 1..Len(S.actions) |-> verified[i]]
      BY <1>7
    <2> HIDE DEF verified
    <2> QED
      BY <1>7, <2>1, <2>2, FunctionIsSeq
  <1>12. \A i : outcome(i) => S.last # NoView /\ i = Max(open) /\ (S.last = v => DOMAIN linked.navigation # DOMAIN seen.navigation)
    BY DEF Visible
  <1> HIDE DEF verified, outcome
  <1>13. /\ T \in Surfaces /\ T.last = v /\ T.actions = verified
         /\ T.locations = linked.locations /\ T.overflow = linked.overflow
         /\ T.states = linked.states /\ T.stateOverflow = linked.stateOverflow
         /\ T.observed = linked.observed /\ T.navigation = linked.navigation
    BY <1>6, <1>11 DEF Surfaces
  <1> HIDE DEF T
  <1>14. Bounded(T)
    BY <1>6, <1>13 DEF Bounded
  <1>15. /\ Grows(S, T)
         /\ T.overflow \/ (Scope(Page[v]) = "PRODUCT" => Page[v] \in T.locations)
         /\ Range(T.states) \subseteq Range(S.states) \cup ({StateOf(v)} \ {NoState})
         /\ Range(S.states) \subseteq Range(T.states)
         /\ S.stateOverflow => T.stateOverflow
         /\ T.stateOverflow \/ StateOf(v) = NoState \/ StateOf(v) \in Range(T.states)
         /\ T.observed = S.observed \cup {Page[v]}
    BY <1>2, <1>3, <1>4, <1>6, <1>13 DEF Grows, SameLog, SameButNavigation
  <1>16. /\ Unverified(T) = {} /\ DOMAIN T.actions = DOMAIN S.actions
    BY <1>9, <1>10, <1>13 DEF Unverified
  <1>17. seen.navigation = M.navigation /\ DOMAIN seen.navigation = DOMAIN S.navigation /\ A.navigation = S.navigation
    BY <1>2, <1>3, <1>4 DEF SameLog
  <1>18. Full(S) <=> Full(seen)
    BY <1>17 DEF Full
  <1>19. Full(T) <=> Full(linked)
    BY <1>13 DEF Full
  <1>20. \A i \in DOMAIN T.actions :
            /\ T.actions[i].auth = S.actions[i].auth
            /\ T.actions[i].outcome =>
                  \/ S.actions[i].outcome
                  \/ /\ i \in open /\ i = Max(open) /\ S.last # NoView
                     /\ S.last = v => DOMAIN T.navigation # DOMAIN S.navigation
    BY <1>9, <1>12, <1>13, <1>16, <1>17
  <1>21. /\ DOMAIN S.navigation \subseteq DOMAIN T.navigation
         /\ DOMAIN T.navigation \subseteq DOMAIN S.navigation \cup Range(Links[v])
         /\ Full(T) \/ Range(Links[v]) \subseteq DOMAIN T.navigation
         /\ Full(S) => DOMAIN T.navigation = DOMAIN S.navigation /\ Full(T)
    BY <1>6, <1>13, <1>17, <1>18, <1>19
  <1>22. \A l \in DOMAIN S.navigation :
            /\ T.navigation[l].exposed = S.navigation[l].exposed
            /\ T.navigation[l].followed =>
                  S.navigation[l].followed \/ l = Page[v] \/ (Scope(l) # "PRODUCT" /\ Origin[l] = Origin[Page[v]])
    BY <1>3, <1>6, <1>13, <1>17
  <1>23. \A l \in DOMAIN T.navigation \ DOMAIN S.navigation :
            T.navigation[l].exposed = exposing /\ T.navigation[l].followed = FALSE
    <2>1. TAKE l \in DOMAIN T.navigation \ DOMAIN S.navigation
    <2>2. T.navigation[l] = [exposed |-> exposing, followed |-> FALSE]
      BY <1>6, <1>13, <1>17, <2>1
    <2> QED
      BY <2>2
  <1>24. \A l \in DOMAIN T.navigation \ DOMAIN S.navigation :
            /\ T.navigation[l].exposed <=> \E i \in Unverified(S) : S.actions[i].kind # "navigate"
            /\ ~T.navigation[l].followed
    BY <1>23, <1>5a DEF open
  <1>25. T.last = v
    BY <1>13
  <1>26. \A i \in DOMAIN T.actions :
            /\ T.actions[i].auth = S.actions[i].auth
            /\ T.actions[i].outcome =>
                  \/ S.actions[i].outcome
                  \/ /\ i \in Unverified(S) /\ i = Max(Unverified(S)) /\ S.last # NoView
                     /\ S.last = v => DOMAIN T.navigation # DOMAIN S.navigation
    BY <1>20 DEF open
  <1>27. Looked(S, v, T)
    BY <1>13, <1>14, <1>15, <1>16, <1>21, <1>22, <1>24, <1>25, <1>26 DEF Looked
  <1> QED
    BY <1>1, <1>27

\* Only verified actions leave the log, and from its front.
LEMMA RecordedKeeps ==
  ASSUME NEW actions \in Seq(ActionRecord), Len(actions) > 0
  PROVE  /\ Recorded(actions) \in Seq(ActionRecord)
         /\ \E d \in 0..(Len(actions) - 1) :
               /\ Len(Recorded(actions)) = Len(actions) - d
               /\ \A i \in 1..Len(Recorded(actions)) : Recorded(actions)[i] = actions[i + d]
               /\ \A i \in 1..d : actions[i].verified
  <1> DEFINE surplus == Len(actions) - MaxActions
  <1> DEFINE fit == {n \in 0..surplus : \A i \in 1..n : actions[i].verified}
  <1>1. CASE surplus <= 0
    <2>1. Recorded(actions) = actions
      BY <1>1 DEF Recorded
    <2>2. /\ 0 \in 0..(Len(actions) - 1) /\ Len(actions) = Len(actions) - 0
          /\ \A i \in 1..Len(actions) : actions[i] = actions[i + 0]
          /\ \A i \in 1..0 : actions[i].verified
      OBVIOUS
    <2> QED
      BY <2>1, <2>2
  <1>2. CASE ~(surplus <= 0)
    <2>1. surplus \in Nat /\ surplus < Len(actions)
      BY <1>2
    <2>2. fit \subseteq 0..surplus /\ 0 \in fit
      BY <2>1
    <2>3. PICK n \in fit : \A m \in fit : m <= n
      <3> HIDE DEF fit, surplus
      <3> QED
        BY <2>1, <2>2, GreatestNumber
    <2>4. Max(fit) \in fit
      <3>1. n \in fit /\ \A m \in fit : n >= m
        BY <2>1, <2>3
      <3> HIDE DEF fit
      <3> QED
        BY <3>1 DEF Max
    <2> DEFINE d == Max(fit)
    <2>5. Recorded(actions) = SubSeq(actions, d + 1, Len(actions))
      BY <1>2 DEF Recorded
    <2>6. d \in 0..surplus /\ \A i \in 1..d : actions[i].verified
      BY <2>4
    <2> HIDE DEF d
    <2>7. d \in Nat /\ d < Len(actions) /\ d \in 0..(Len(actions) - 1)
      BY <2>1, <2>6
    <2>8. /\ SubSeq(actions, d + 1, Len(actions)) \in Seq(ActionRecord)
          /\ Len(SubSeq(actions, d + 1, Len(actions))) = Len(actions) - d
          /\ \A i \in 1..(Len(actions) - d) : SubSeq(actions, d + 1, Len(actions))[i] = actions[i + d]
      BY <2>7
    <2> QED
      BY <2>5, <2>6, <2>7, <2>8
  <1> QED
    BY <1>1, <1>2

\* The host read where the browser is, and no tree: the page is known and marked, and nothing else of it.
Arrived(S, v, T) ==
    /\ T \in Surfaces /\ Bounded(T) /\ Grows(S, T)
    /\ T.overflow \/ (Scope(Page[v]) = "PRODUCT" => Page[v] \in T.locations)
    /\ T.states = S.states /\ T.stateOverflow = S.stateOverflow
    /\ T.observed = S.observed /\ T.last = S.last
    /\ DOMAIN T.navigation = DOMAIN S.navigation
    /\ \A l \in DOMAIN S.navigation :
          /\ T.navigation[l].exposed = S.navigation[l].exposed
          /\ T.navigation[l].followed =>
                S.navigation[l].followed \/ l = Page[v] \/ (Scope(l) # "PRODUCT" /\ Origin[l] = Origin[Page[v]])

LEMMA AbsorbArrives ==
  ASSUME NEW S \in Surfaces, Bounded(S), NEW v \in Views
  PROVE  /\ Arrived(S, v, Absorb(S, v, FALSE)) /\ Absorb(S, v, FALSE).actions = S.actions
         /\ Absorb(S, v, FALSE).state = S.state /\ Absorb(S, v, FALSE).inputs = S.inputs
  <1> DEFINE A == Absorb(S, v, FALSE)
  <1>1. /\ A \in Surfaces /\ Bounded(A) /\ Grows(S, A) /\ SameLog(S, A)
        /\ A.overflow \/ (Scope(Page[v]) = "PRODUCT" => Page[v] \in A.locations)
        /\ A.states = S.states /\ A.stateOverflow = S.stateOverflow
    BY AbsorbGrows
  <1> HIDE DEF A
  <1>2. Arrived(S, v, A) /\ A.actions = S.actions /\ A.state = S.state /\ A.inputs = S.inputs
    BY <1>1 DEF Arrived, SameLog
  <1> QED
    BY <1>2 DEF A

LEMMA MarkArrives ==
  ASSUME NEW S \in Surfaces, Bounded(S), NEW v \in Views
  PROVE  LET T == MarkFollowed(Absorb(S, v, FALSE), Page[v])
         IN Arrived(S, v, T) /\ T.actions = S.actions /\ T.state = S.state /\ T.inputs = S.inputs
  <1> DEFINE A == Absorb(S, v, FALSE)
  <1> DEFINE T == MarkFollowed(A, Page[v])
  <1>1. Arrived(S, v, A) /\ A.actions = S.actions /\ A.state = S.state /\ A.inputs = S.inputs
    BY AbsorbArrives
  <1>2. /\ T \in Surfaces /\ Bounded(T) /\ SameButNavigation(A, T)
        /\ DOMAIN T.navigation = DOMAIN A.navigation
        /\ \A l \in DOMAIN A.navigation :
              /\ T.navigation[l].exposed = A.navigation[l].exposed
              /\ T.navigation[l].followed =>
                    A.navigation[l].followed \/ l = Page[v] \/ (Scope(l) # "PRODUCT" /\ Origin[l] = Origin[Page[v]])
    <2>1. A \in Surfaces /\ Bounded(A) /\ Page[v] \in Locations
      BY <1>1 DEF Arrived
    <2> HIDE DEF A
    <2> QED
      BY <2>1, MarkFollowedMarks
  <1> HIDE DEF A, T
  <1>3. Arrived(S, v, T)
    <2>1. Grows(S, T) /\ (T.overflow \/ (Scope(Page[v]) = "PRODUCT" => Page[v] \in T.locations))
      BY <1>1, <1>2 DEF Arrived, SameButNavigation, Grows
    <2>2. /\ T.states = S.states /\ T.stateOverflow = S.stateOverflow
          /\ T.observed = S.observed /\ T.last = S.last /\ DOMAIN T.navigation = DOMAIN S.navigation
      BY <1>1, <1>2 DEF Arrived, SameButNavigation
    <2>3. \A l \in DOMAIN S.navigation :
             /\ T.navigation[l].exposed = S.navigation[l].exposed
             /\ T.navigation[l].followed =>
                   S.navigation[l].followed \/ l = Page[v] \/ (Scope(l) # "PRODUCT" /\ Origin[l] = Origin[Page[v]])
      BY <1>1, <1>2 DEF Arrived
    <2> QED
      BY <1>2, <2>1, <2>2, <2>3 DEF Arrived
  <1>4. T.actions = S.actions /\ T.state = S.state /\ T.inputs = S.inputs
    BY <1>1, <1>2 DEF SameButNavigation
  <1> QED
    BY <1>3, <1>4 DEF T, A

\* An action ends the log, unverified and without an outcome; of those before it only verified ones are gone.
Performed(S, kind, auth, T) ==
    /\ Len(T.actions) \in DOMAIN T.actions
    /\ LET last == T.actions[Len(T.actions)]
       IN ~last.verified /\ ~last.outcome /\ last.kind = kind /\ (last.auth => auth \/ kind = "submit")
    /\ \A i \in DOMAIN T.actions \ {Len(T.actions)} : \E j \in DOMAIN S.actions : T.actions[i] = S.actions[j]
    /\ \A j \in Unverified(S) : \E i \in Unverified(T) : T.actions[i] = S.actions[j]

LEMMA ActPerforms ==
  ASSUME NEW S \in Surfaces, Bounded(S), NEW v \in Views, NEW kind \in {"navigate", "activate", "submit"}, NEW auth \in BOOLEAN
  PROVE  Arrived(S, v, Act(S, v, kind, auth)) /\ Performed(S, kind, auth, Act(S, v, kind, auth))
  <1> DEFINE R == MarkFollowed(Absorb(S, v, FALSE), Page[v])
  <1> DEFINE inForm == kind = "submit" /\ S.state \in Range(S.states) /\ AuthForm(S.state)
  <1> DEFINE a == [kind |-> kind, auth |-> auth \/ inForm, state |-> S.state, input |-> S.state \in S.inputs,
                   verified |-> FALSE, outcome |-> FALSE]
  <1> DEFINE L == Append(S.actions, a)
  <1> DEFINE T == [R EXCEPT !.actions = Recorded(L)]
  <1>1. Arrived(S, v, R) /\ R.actions = S.actions
    BY MarkArrives
  <1>2. T = Act(S, v, kind, auth)
    BY <1>1 DEF Act
  <1> HIDE DEF R
  <1>3. /\ a \in ActionRecord /\ ~a.verified /\ ~a.outcome /\ a.kind = kind /\ (a.auth => auth \/ kind = "submit")
        /\ S.actions \in Seq(ActionRecord)
    BY DEF Surfaces, ActionRecord
  <1> HIDE DEF a
  <1>4. /\ L \in Seq(ActionRecord) /\ Len(L) = Len(S.actions) + 1 /\ Len(L) > 0 /\ L[Len(L)] = a
        /\ \A i \in 1..Len(S.actions) : L[i] = S.actions[i]
        /\ Len(S.actions) \in Nat /\ DOMAIN S.actions = 1..Len(S.actions)
    BY <1>3
  <1> HIDE DEF L
  <1>5. Recorded(L) \in Seq(ActionRecord)
    BY <1>4, RecordedKeeps
  <1>6. PICK d \in 0..(Len(L) - 1) :
               /\ Len(Recorded(L)) = Len(L) - d
               /\ \A i \in 1..Len(Recorded(L)) : Recorded(L)[i] = L[i + d]
               /\ \A i \in 1..d : L[i].verified
    BY <1>4, RecordedKeeps
  <1>7. /\ T \in Surfaces /\ T.actions = Recorded(L)
        /\ T.locations = R.locations /\ T.overflow = R.overflow /\ T.states = R.states /\ T.stateOverflow = R.stateOverflow
        /\ T.observed = R.observed /\ T.last = R.last /\ T.navigation = R.navigation
    BY <1>1, <1>5 DEF Arrived, Surfaces
  <1> HIDE DEF T
  <1>8. Arrived(S, v, T)
    BY <1>1, <1>7 DEF Arrived, Bounded, Grows
  <1>9. DOMAIN T.actions = 1..Len(T.actions) /\ Len(T.actions) = Len(S.actions) + 1 - d /\ Len(T.actions) > 0
    BY <1>4, <1>5, <1>6, <1>7
  <1>10. T.actions[Len(T.actions)] = a
    BY <1>4, <1>6, <1>7, <1>9
  <1>11. \A i \in 1..(Len(T.actions) - 1) : i + d \in 1..Len(S.actions) /\ T.actions[i] = S.actions[i + d]
    <2>1. TAKE i \in 1..(Len(T.actions) - 1)
    <2>2. i + d \in 1..Len(S.actions) /\ i \in 1..Len(Recorded(L))
      <3> DEFINE m == Len(S.actions)
      <3> DEFINE k == Len(T.actions)
      <3>1. m \in Nat /\ d \in Nat /\ k = m + 1 - d /\ Len(Recorded(L)) = k
        BY <1>4, <1>6, <1>7, <1>9
      <3> HIDE DEF m, k
      <3>2. i \in 1..(k - 1)
        BY <2>1 DEF k
      <3>3. i + d \in 1..m /\ i \in 1..k
        BY <3>1, <3>2
      <3> QED
        BY <3>1, <3>3 DEF m
    <2>3. Recorded(L)[i] = L[i + d] /\ L[i + d] = S.actions[i + d]
      BY <1>4, <1>6, <2>2
    <2> QED
      BY <1>7, <2>2, <2>3
  <1>12. \A i \in DOMAIN T.actions \ {Len(T.actions)} : \E j \in DOMAIN S.actions : T.actions[i] = S.actions[j]
    <2>1. TAKE i \in DOMAIN T.actions \ {Len(T.actions)}
    <2>2. i \in 1..(Len(T.actions) - 1)
      BY <1>4, <1>6, <1>9, <2>1
    <2> QED
      BY <1>4, <1>11, <2>2
  <1>13. \A j \in Unverified(S) : \E i \in Unverified(T) : T.actions[i] = S.actions[j]
    <2>1. TAKE j \in Unverified(S)
    <2>2. j \in 1..Len(S.actions) /\ ~S.actions[j].verified
      BY <1>4, <2>1 DEF Unverified
    <2>3. ~(j <= d)
      BY <1>4, <1>6, <2>2
    <2>4. j - d \in 1..(Len(T.actions) - 1) /\ (j - d) + d = j
      BY <1>4, <1>6, <1>9, <2>2, <2>3
    <2>5. T.actions[j - d] = S.actions[j] /\ j - d \in DOMAIN T.actions
      <3>1. T.actions[j - d] = S.actions[(j - d) + d]
        BY <1>11, <2>4
      <3>2. j - d \in 1..Len(T.actions)
        BY <1>4, <1>6, <1>9, <2>4
      <3> QED
        BY <1>9, <2>4, <3>1, <3>2
    <2>6. j - d \in Unverified(T)
      BY <2>2, <2>5 DEF Unverified
    <2> QED
      BY <2>5, <2>6
  <1>14. Len(T.actions) \in DOMAIN T.actions
    BY <1>4, <1>6, <1>9
  <1>15. Performed(S, kind, auth, T)
    BY <1>3, <1>10, <1>12, <1>13, <1>14 DEF Performed
  <1> QED
    BY <1>2, <1>8, <1>15

-----------------------------------------------------------------------------
(* What the records say stays true. *)

\* The browser is on a page, known to the truth as visited, and showed nothing of it.
LEMMA ArrivedKeeps ==
  ASSUME NEW S \in Surfaces, NEW T, NEW v \in Views, NEW t \in Truths, NEW u \in Truths,
         Arrived(S, v, T), u.shown = t.shown, u.handed = t.handed, u.visited = t.visited \cup {Page[v]},
         ShownOnly(S, t), VisitedKnown(S, t), StatesAreShown(S, t), NavigationTells(S, t)
  PROVE  ShownOnly(T, u) /\ VisitedKnown(T, u) /\ StatesAreShown(T, u) /\ NavigationTells(T, u)
  <1>1. ShownOnly(T, u)
    BY DEF Arrived, ShownOnly
  <1>2. VisitedKnown(T, u)
    BY DEF Arrived, VisitedKnown, Grows
  <1>3. StatesAreShown(T, u)
    BY DEF Arrived, StatesAreShown
  <1>4. NavigationTells(T, u)
    <2>1. Seen(u) = Seen(t)
      BY DEF Seen
    <2>2. Full(T) <=> Full(S)
      BY DEF Arrived, Full
    <2>3. DOMAIN T.navigation = DOMAIN S.navigation
      BY DEF Arrived
    <2>4. \A l \in DOMAIN T.navigation : T.navigation[l].followed =>
             \E p \in u.visited : p = l \/ (Scope(l) # "PRODUCT" /\ Origin[p] = Origin[l])
      <3>1. SUFFICES ASSUME NEW l \in DOMAIN T.navigation, T.navigation[l].followed
                     PROVE  \E p \in u.visited : p = l \/ (Scope(l) # "PRODUCT" /\ Origin[p] = Origin[l])
        OBVIOUS
      <3>2. S.navigation[l].followed \/ l = Page[v] \/ (Scope(l) # "PRODUCT" /\ Origin[l] = Origin[Page[v]])
        BY <2>3, <3>1 DEF Arrived
      <3>3. CASE S.navigation[l].followed
        <4>1. PICK p \in t.visited : p = l \/ (Scope(l) # "PRODUCT" /\ Origin[p] = Origin[l])
          BY <2>3, <3>1, <3>3 DEF NavigationTells
        <4> QED
          BY <4>1
      <3>4. CASE l = Page[v] \/ (Scope(l) # "PRODUCT" /\ Origin[l] = Origin[Page[v]])
        BY <3>4
      <3> QED
        BY <3>2, <3>3, <3>4
    <2>5. Full(T) \/ \A l \in u.handed : l \in DOMAIN T.navigation /\ T.navigation[l].exposed
      BY <2>2, <2>3 DEF Arrived, NavigationTells
    <2> QED
      BY <2>1, <2>2, <2>3, <2>4, <2>5 DEF NavigationTells
  <1> QED
    BY <1>1, <1>2, <1>3, <1>4

LEMMA SameLogTells ==
  ASSUME NEW S, NEW T, NEW t, T.actions = S.actions, LogTells(S, t), OutcomesAreReal(S, t)
  PROVE  LogTells(T, t) /\ OutcomesAreReal(T, t)
  <1>1. Unverified(T) = Unverified(S)
    BY DEF Unverified
  <1> QED
    BY <1>1 DEF LogTells, OutcomesAreReal

LEMMA ArrivedAgrees ==
  ASSUME NEW S \in Surfaces, NEW T, NEW v \in Views, NEW t \in Truths,
         Arrived(S, v, T), T.actions = S.actions, Page[v] \in t.visited, Agrees(S, t)
  PROVE  Agrees(T, t)
  <1>1. t.visited = t.visited \cup {Page[v]}
    OBVIOUS
  <1>2. ShownOnly(T, t) /\ VisitedKnown(T, t) /\ StatesAreShown(T, t) /\ NavigationTells(T, t)
    BY <1>1, ArrivedKeeps DEF Agrees
  <1>3. LogTells(T, t) /\ OutcomesAreReal(T, t)
    BY SameLogTells DEF Agrees
  <1> QED
    BY <1>2, <1>3 DEF Agrees

\* An action that was performed is the last of the log, and open.
LEMMA PerformedAgrees ==
  ASSUME NEW S \in Surfaces, NEW T, NEW v \in Views, NEW kind, NEW auth \in BOOLEAN, NEW t \in Truths, NEW u \in Truths,
         Arrived(S, v, T), Performed(S, kind, auth, T), Agrees(S, t),
         u.shown = t.shown, u.handed = t.handed, u.visited = t.visited \cup {Page[v]}, u.answered = t.answered,
         u.acted <=> t.acted \/ kind # "navigate", u.tried <=> auth \/ kind = "submit"
  PROVE  Agrees(T, u)
  <1>1. ShownOnly(T, u) /\ VisitedKnown(T, u) /\ StatesAreShown(T, u) /\ NavigationTells(T, u)
    BY ArrivedKeeps DEF Agrees
  <1> DEFINE n == Len(T.actions)
  <1>2. n \in DOMAIN T.actions /\ n \in Unverified(T) /\ ~T.actions[n].outcome /\ T.actions[n].kind = kind
        /\ (T.actions[n].auth => u.tried)
    BY DEF Performed, Unverified
  <1>3. LogTells(T, u)
    <2>1. u.acted => \E i \in Unverified(T) : T.actions[i].kind # "navigate"
      <3>1. CASE kind # "navigate"
        BY <1>2, <3>1
      <3>2. CASE t.acted
        <4>1. PICK j \in Unverified(S) : S.actions[j].kind # "navigate"
          BY <3>2 DEF Agrees, LogTells
        <4> QED
          BY <4>1 DEF Performed
      <3> QED
        BY <3>1, <3>2
    <2> QED
      BY <1>2, <2>1 DEF LogTells
  <1>4. OutcomesAreReal(T, u)
    <2>1. SUFFICES ASSUME NEW i \in DOMAIN T.actions, T.actions[i].auth, T.actions[i].outcome
                   PROVE  t.answered
      BY DEF OutcomesAreReal
    <2>2. i # n
      BY <1>2, <2>1
    <2>3. PICK j \in DOMAIN S.actions : T.actions[i] = S.actions[j]
      BY <2>1, <2>2 DEF Performed
    <2> QED
      BY <2>1, <2>3 DEF Agrees, OutcomesAreReal
  <1> QED
    BY <1>1, <1>3, <1>4 DEF Agrees

\* A look shows the view: everything before it is verified, and an attempt gets its answer.
LEMMA LookAgrees ==
  ASSUME NEW S \in Surfaces, NEW T, NEW v \in Views, NEW t \in Truths, NEW u \in Truths,
         Looked(S, v, T), Agrees(S, t), Page[v] \in t.visited,
         ~u.unseen, ~u.acted, u.shown = t.shown \cup {v}, u.visited = t.visited,
         u.handed = IF t.acted THEN t.handed \cup (Range(Links[v]) \ Seen(t)) ELSE t.handed,
         u.answered <=> t.answered \/ (t.tried /\ S.last \notin {NoView, v})
  PROVE  Agrees(T, u)
  <1> USE DEF Agrees
  <1>1. LogTells(T, u)
    BY DEF Looked, LogTells
  <1>2. ShownOnly(T, u)
    BY DEF Looked, ShownOnly
  <1>3. VisitedKnown(T, u)
    BY DEF Looked, VisitedKnown, Grows
  <1>4. StatesAreShown(T, u)
    <2>1. \A s \in Range(T.states) : \E w \in u.shown : s # NoState /\ s = StateOf(w)
      BY DEF Looked, StatesAreShown
    <2>2. T.stateOverflow \/ \A w \in u.shown : StateOf(w) = NoState \/ StateOf(w) \in Range(T.states)
      BY DEF Looked, StatesAreShown
    <2> QED
      BY <2>1, <2>2 DEF StatesAreShown
  <1>5. Range(Links[v]) \subseteq Locations
    BY RangeIsFinite
  <1>6. Seen(u) = Seen(t) \cup Range(Links[v])
    BY <1>5 DEF Seen
  <1>7. ~Full(T) => ~Full(S)
    BY DEF Looked
  <1>8. NavigationTells(T, u)
    <2>1. DOMAIN T.navigation \subseteq Seen(u)
      BY <1>6 DEF Looked, NavigationTells
    <2>2. Full(T) \/ Seen(u) \subseteq DOMAIN T.navigation
      BY <1>6, <1>7 DEF Looked, NavigationTells
    <2>3. ASSUME ~Full(T), NEW l \in u.handed
          PROVE  l \in DOMAIN T.navigation /\ T.navigation[l].exposed
      <3>1. CASE l \in t.handed
        BY <1>7, <2>3, <3>1 DEF Looked, NavigationTells
      <3>2. CASE l \notin t.handed
        <4>1. t.acted /\ l \in Range(Links[v]) /\ l \notin Seen(t)
          BY <2>3, <3>2
        <4>2. l \in DOMAIN T.navigation \ DOMAIN S.navigation
          BY <2>3, <4>1 DEF Looked, NavigationTells
        <4>3. \E i \in Unverified(S) : S.actions[i].kind # "navigate"
          BY <4>1 DEF LogTells
        <4> QED
          BY <4>2, <4>3 DEF Looked
      <3> QED
        BY <3>1, <3>2
    <2>4. ASSUME NEW l \in DOMAIN T.navigation, T.navigation[l].followed
          PROVE  \E p \in u.visited : p = l \/ (Scope(l) # "PRODUCT" /\ Origin[p] = Origin[l])
      <3>1. l \in DOMAIN S.navigation
        BY <2>4 DEF Looked
      <3>2. S.navigation[l].followed \/ l = Page[v] \/ (Scope(l) # "PRODUCT" /\ Origin[l] = Origin[Page[v]])
        BY <2>4, <3>1 DEF Looked
      <3> QED
        BY <3>1, <3>2 DEF NavigationTells
    <2> QED
      BY <2>1, <2>2, <2>3, <2>4 DEF NavigationTells
  <1>9. OutcomesAreReal(T, u)
    <2>1. SUFFICES ASSUME NEW i \in DOMAIN T.actions, T.actions[i].auth, T.actions[i].outcome, ~t.answered
                   PROVE  t.tried /\ S.last \notin {NoView, v}
      BY DEF OutcomesAreReal
    <2>2. i \in DOMAIN S.actions /\ S.actions[i].auth /\ ~S.actions[i].outcome
      BY <2>1 DEF Looked, OutcomesAreReal
    <2>3. /\ i \in Unverified(S) /\ i = Max(Unverified(S)) /\ S.last # NoView
          /\ S.last = v => DOMAIN T.navigation # DOMAIN S.navigation
      BY <2>1, <2>2 DEF Looked
    <2>4. Max(Unverified(S)) = Len(S.actions)
      <3>1. Len(S.actions) \in Unverified(S)
        BY <2>3 DEF LogTells
      <3>2. S.actions \in Seq(ActionRecord)
        BY DEF Surfaces
      <3>3. \A j \in Unverified(S) : j \in Nat /\ Len(S.actions) >= j
        BY <3>2 DEF Unverified
      <3>4. Len(S.actions) \in Nat
        BY <3>2
      <3> HIDE DEF Agrees
      <3>5. \A x \in Unverified(S) : (\A y \in Unverified(S) : x >= y) => x = Len(S.actions)
        BY <3>1, <3>3, <3>4
      <3>6. Max(Unverified(S)) \in Unverified(S) /\ \A y \in Unverified(S) : Max(Unverified(S)) >= y
        BY <3>1, <3>3 DEF Max
      <3> QED
        BY <3>5, <3>6
    <2>5. t.tried
      BY <2>2, <2>3, <2>4 DEF LogTells
    <2>6. S.last # v
      <3>1. SUFFICES ASSUME S.last = v
                     PROVE  DOMAIN T.navigation = DOMAIN S.navigation
        BY <2>3
      <3>2. v \in t.shown
        BY <3>1 DEF ShownOnly
      <3>3. Range(Links[v]) \subseteq Seen(t)
        BY <1>5, <3>2 DEF Seen
      <3> QED
        BY <3>3 DEF Looked, NavigationTells
    <2> QED
      BY <2>3, <2>5, <2>6
  <1> QED
    BY <1>1, <1>2, <1>3, <1>4, <1>8, <1>9

-----------------------------------------------------------------------------
(* The invariant is inductive. *)

LEMMA BuildSurfaceIs ==
  LET T == BuildSurface
  IN  /\ T \in Surfaces /\ Bounded(T)
      /\ Target \in T.locations /\ T.actions = <<>> /\ T.observed = {} /\ T.last = NoView
      /\ T.states = <<>>
      /\ DOMAIN T.navigation \subseteq Range(Links[Entry])
      /\ Full(T) \/ Range(Links[Entry]) \subseteq DOMAIN T.navigation
      /\ \A l \in DOMAIN T.navigation : ~T.navigation[l].followed
  <1> DEFINE new == [locations |-> {Target}, overflow |-> FALSE, states |-> <<>>, stateOverflow |-> FALSE, actions |-> <<>>,
                     observed |-> {}, navigation |-> <<>>, inputs |-> {}, state |-> NoState, last |-> NoView]
  <1> DEFINE R == Expand(new, Links[Entry])
  <1> DEFINE T == RegisterNavigation(R, Entry, FALSE)
  <1>1. T = BuildSurface
    BY DEF BuildSurface
  <1>2. <<>> \in [{} -> TargetRecord] /\ DOMAIN <<>> = {}
    OBVIOUS
  <1>3. new \in Surfaces
    <2>1. <<>> \in UNION {[ls -> TargetRecord] : ls \in SUBSET Locations}
      BY <1>2
    <2>2. Target \in Locations /\ NoState \in AllStates /\ <<>> \in Seq(AllStates) /\ <<>> \in Seq(ActionRecord)
      BY DEF Target, AllStates
    <2> QED
      BY <2>1, <2>2 DEF Surfaces
  <1>4. Bounded(new)
    <2>1. IsFiniteSet({Target}) /\ Cardinality({Target}) = 1
      BY FS_Singleton
    <2>2. IsFiniteSet({}) /\ Cardinality({}) = 0
      BY FS_EmptySet
    <2>3. Len(<<>>) = 0
      OBVIOUS
    <2> QED
      BY <1>2, <2>1, <2>2, <2>3 DEF Bounded
  <1>5. /\ new.locations = {Target} /\ new.actions = <<>> /\ new.observed = {} /\ new.last = NoView
        /\ new.states = <<>> /\ DOMAIN new.navigation = {}
    BY <1>2
  <1> HIDE DEF new
  <1>6. /\ R \in Surfaces /\ Bounded(R) /\ Grows(new, R) /\ SameLog(new, R) /\ R.states = new.states
    BY <1>3, <1>4, ExpandGrows
  <1> HIDE DEF R
  <1>7. /\ T \in Surfaces /\ Bounded(T) /\ SameButNavigation(R, T)
        /\ DOMAIN T.navigation \subseteq DOMAIN R.navigation \cup Range(Links[Entry])
        /\ \A l \in DOMAIN T.navigation \ DOMAIN R.navigation :
              T.navigation[l] = [exposed |-> FALSE, followed |-> FALSE]
        /\ Full(T) \/ Range(Links[Entry]) \subseteq DOMAIN T.navigation
    BY <1>6, RegisterNavigationAdds
  <1> HIDE DEF T
  <1>8. DOMAIN R.navigation = {}
    BY <1>5, <1>6 DEF SameLog
  <1>9. /\ Target \in T.locations /\ T.actions = <<>> /\ T.observed = {} /\ T.last = NoView /\ T.states = <<>>
    BY <1>5, <1>6, <1>7 DEF SameLog, SameButNavigation, Grows
  <1>10. \A l \in DOMAIN T.navigation : ~T.navigation[l].followed
    BY <1>7, <1>8
  <1> QED
    BY <1>1, <1>7, <1>8, <1>9, <1>10

LEMMA InitIInv == Init => IInv
  <1> SUFFICES ASSUME Init PROVE IInv
    OBVIOUS
  <1> DEFINE S == BuildSurface
  <1>1. /\ S \in Surfaces /\ Bounded(S)
        /\ Target \in S.locations /\ S.actions = <<>> /\ S.observed = {} /\ S.last = NoView
        /\ S.states = <<>>
        /\ DOMAIN S.navigation \subseteq Range(Links[Entry])
        /\ Full(S) \/ Range(Links[Entry]) \subseteq DOMAIN S.navigation
        /\ \A l \in DOMAIN S.navigation : ~S.navigation[l].followed
    BY BuildSurfaceIs
  <1> HIDE DEF S
  <1>2. surface = S
    BY DEF Init, S
  <1>3. /\ truth \in Truths /\ ~truth.unseen /\ ~truth.acted /\ truth.shown = {} /\ truth.visited = {Target} /\ truth.handed = {}
    BY DEF Init, Truths, Target
  <1>4. Types
    <2>1. stage \in Stages
      BY DEF Init, Stages
    <2> QED
      BY <1>1, <1>2, <1>3, <2>1 DEF Types, Init
  <1>5. WithinLimits
    BY <1>1, <1>2 DEF WithinLimits, Init
  <1>6. Page[view] \in truth.visited
    BY <1>3 DEF Init, Target
  <1>7. PassedIsValid
    BY DEF PassedIsValid, Init
  <1>8. Unverified(surface) = {} /\ DOMAIN surface.actions = {} /\ Range(surface.states) = {}
    BY <1>1, <1>2 DEF Unverified, Range
  <1>9. Seen(truth) = Range(Links[Entry])
    <2>1. Range(Links[Entry]) \subseteq Locations
      BY RangeIsFinite
    <2> QED
      BY <1>3, <2>1 DEF Seen
  <1>10. LogTells(surface, truth) /\ OutcomesAreReal(surface, truth)
    BY <1>3, <1>8 DEF LogTells, OutcomesAreReal
  <1>11. ShownOnly(surface, truth) /\ VisitedKnown(surface, truth) /\ StatesAreShown(surface, truth)
    BY <1>1, <1>2, <1>3, <1>8 DEF ShownOnly, VisitedKnown, StatesAreShown
  <1>12. NavigationTells(surface, truth)
    BY <1>1, <1>2, <1>3, <1>9 DEF NavigationTells
  <1> QED
    BY <1>4, <1>5, <1>6, <1>7, <1>10, <1>11, <1>12 DEF IInv, Agrees

\* What IInv says of the state before a call.
LEMMA Before ==
  ASSUME IInv
  PROVE  /\ view \in Views /\ surface \in Surfaces /\ ledger \in Seq(Views) /\ stage \in Stages /\ truth \in Truths
         /\ Bounded(surface) /\ Len(ledger) <= MaxObservations /\ Page[view] \in truth.visited /\ Agrees(surface, truth)
  BY DEF IInv, Types, WithinLimits

\* A call of the browser leaves the ledger and the stage alone.
LEMMA BrowserStep ==
  ASSUME IInv, Running, UNCHANGED <<ledger, stage>>, view' \in Views, truth' \in Truths, Page[view]' \in truth'.visited,
         surface' \in Surfaces, Bounded(surface'), Agrees(surface', truth')
  PROVE  IInv'
  <1>1. Types' /\ WithinLimits'
    BY Before DEF Types, WithinLimits, Bounded
  <1>2. PassedIsValid'
    BY DEF PassedIsValid, Running
  <1>3. Agrees(surface, truth)'
    BY DEF Agrees, LogTells, OutcomesAreReal, ShownOnly, VisitedKnown, StatesAreShown, NavigationTells, Unverified, Seen, Full
  <1> QED
    BY <1>1, <1>2, <1>3 DEF IInv

LEMMA SnapshotStep ==
  ASSUME IInv, Snapshot
  PROVE  IInv'
  <1> DEFINE T == Look(surface, view)
  <1>1. Looked(surface, view, T)
    BY Before, LookShows
  <1>2. surface' = T /\ view' = view /\ UNCHANGED <<ledger, stage>> /\ Running
    BY DEF Snapshot
  <1> HIDE DEF T
  <1>3. T \in Surfaces /\ Bounded(T)
    BY <1>1 DEF Looked
  <1> DEFINE changed == surface.last \notin {NoView, view}
  <1>4. truth' = [truth EXCEPT !.unseen = FALSE, !.acted = FALSE, !.tried = FALSE, !.shown = @ \cup {view},
                               !.handed = IF truth.acted THEN @ \cup (Range(Links[view]) \ Seen(truth)) ELSE @,
                               !.answered = @ \/ (truth.tried /\ changed)]
    BY DEF Snapshot, Seen
  <1>5. Range(Links[view]) \subseteq Locations
    BY Before, RangeIsFinite
  <1>6. changed \in BOOLEAN
    OBVIOUS
  <1>7. /\ truth' \in Truths /\ ~truth'.unseen /\ ~truth'.acted /\ truth'.shown = truth.shown \cup {view}
        /\ truth'.visited = truth.visited
        /\ truth'.handed = IF truth.acted THEN truth.handed \cup (Range(Links[view]) \ Seen(truth)) ELSE truth.handed
        /\ truth'.answered <=> truth.answered \/ (truth.tried /\ changed)
    <2> HIDE DEF changed
    <2> QED
      BY Before, <1>4, <1>5, <1>6 DEF Truths
  <1>8. Agrees(T, truth')
    BY Before, <1>1, <1>7, LookAgrees
  <1> QED
    BY Before, <1>2, <1>3, <1>7, <1>8, BrowserStep

LEMMA SnapshotToFileStep ==
  ASSUME IInv, SnapshotToFile
  PROVE  IInv'
  <1> DEFINE T == MarkFollowed(Absorb(surface, view, FALSE), Page[view])
  <1>1. Arrived(surface, view, T) /\ T.actions = surface.actions
    BY Before, MarkArrives
  <1>2. surface' = T /\ UNCHANGED <<view, ledger, stage, truth>> /\ Running
    BY DEF SnapshotToFile
  <1> HIDE DEF T
  <1>3. T \in Surfaces /\ Bounded(T) /\ Agrees(T, truth)
    BY Before, <1>1, ArrivedAgrees DEF Arrived
  <1> QED
    BY Before, <1>2, <1>3, BrowserStep

LEMMA FailedCallStep ==
  ASSUME IInv, FailedCall
  PROVE  IInv'
  <1> DEFINE T == Absorb(surface, view, FALSE)
  <1>1. Arrived(surface, view, T) /\ T.actions = surface.actions
    BY Before, AbsorbArrives
  <1>2. surface' = T /\ UNCHANGED <<view, ledger, stage, truth>> /\ Running
    BY DEF FailedCall
  <1> HIDE DEF T
  <1>3. T \in Surfaces /\ Bounded(T) /\ Agrees(T, truth)
    BY Before, <1>1, ArrivedAgrees DEF Arrived
  <1> QED
    BY Before, <1>2, <1>3, BrowserStep

LEMMA TypeStep ==
  ASSUME IInv, Type
  PROVE  IInv'
  <1> DEFINE R == MarkFollowed(Absorb(surface, view, FALSE), Page[view])
  <1> DEFINE T == [R EXCEPT !.inputs = @ \cup {surface.state}]
  <1>1. Arrived(surface, view, R) /\ R.actions = surface.actions
    BY Before, MarkArrives
  <1>2. surface' = T /\ UNCHANGED <<view, ledger, stage, truth>> /\ Running
    BY DEF Type
  <1> HIDE DEF R
  <1>3. /\ T \in Surfaces /\ T.actions = R.actions
        /\ T.locations = R.locations /\ T.overflow = R.overflow /\ T.states = R.states /\ T.stateOverflow = R.stateOverflow
        /\ T.observed = R.observed /\ T.last = R.last /\ T.navigation = R.navigation
    BY Before, <1>1 DEF Arrived, Surfaces
  <1> HIDE DEF T
  <1>4. Arrived(surface, view, T) /\ T.actions = surface.actions
    BY <1>1, <1>3 DEF Arrived, Bounded, Grows
  <1>5. T \in Surfaces /\ Bounded(T) /\ Agrees(T, truth)
    BY Before, <1>4, ArrivedAgrees DEF Arrived
  <1> QED
    BY Before, <1>2, <1>5, BrowserStep

LEMMA ActedStep ==
  ASSUME IInv, Running, NEW v \in Views, NEW kind \in {"navigate", "activate", "submit"}, NEW auth \in BOOLEAN,
         Acted(v, kind, auth)
  PROVE  IInv'
  <1> DEFINE T == Act(surface, v, kind, auth)
  <1>1. Arrived(surface, v, T) /\ Performed(surface, kind, auth, T)
    BY Before, ActPerforms
  <1>2. surface' = T /\ view' = v /\ UNCHANGED <<ledger, stage>>
    BY DEF Acted
  <1> HIDE DEF T
  <1>3. T \in Surfaces /\ Bounded(T)
    BY <1>1 DEF Arrived
  <1>4. /\ truth' \in Truths /\ truth'.shown = truth.shown /\ truth'.handed = truth.handed
        /\ truth'.visited = truth.visited \cup {Page[v]} /\ truth'.answered = truth.answered
        /\ truth'.acted <=> truth.acted \/ kind # "navigate"
        /\ truth'.tried <=> auth \/ kind = "submit"
    <2> DEFINE submits == auth \/ kind = "submit"
    <2> DEFINE moves == kind # "navigate"
    <2>1. Page[v] \in Locations /\ submits \in BOOLEAN /\ moves \in BOOLEAN
      OBVIOUS
    <2>2. truth' = [truth EXCEPT !.unseen = TRUE, !.count = @ + 1, !.acted = @ \/ moves,
                                 !.visited = @ \cup {Page[v]}, !.tried = submits]
      BY DEF Acted
    <2>3. submits <=> auth \/ kind = "submit"
      OBVIOUS
    <2> HIDE DEF submits, moves
    <2>4. /\ truth' \in Truths /\ truth'.shown = truth.shown /\ truth'.handed = truth.handed
          /\ truth'.visited = truth.visited \cup {Page[v]} /\ truth'.answered = truth.answered
          /\ truth'.acted <=> truth.acted \/ moves
          /\ truth'.tried <=> submits
      <3>1. truth \in Truths /\ truth.count + 1 \in Nat /\ truth.visited \cup {Page[v]} \in SUBSET Locations
            /\ (truth.acted \/ moves) \in BOOLEAN
        BY Before, <2>1 DEF Truths
      <3> QED
        BY <2>1, <2>2, <3>1 DEF Truths
    <2> QED
      BY <2>3, <2>4 DEF moves
  <1>5. Agrees(T, truth')
    BY Before, <1>1, <1>4, PerformedAgrees
  <1> QED
    BY Before, <1>2, <1>3, <1>4, <1>5, BrowserStep

LEMMA ObserveStep ==
  ASSUME IInv, NEW v \in Views, Observe(v)
  PROVE  IInv'
  <1>1. UNCHANGED <<view, surface, stage, truth>> /\ Running
    BY DEF Observe
  <1>2. ledger' \in Seq(Views) /\ Len(ledger') <= MaxObservations
    BY Before DEF Observe
  <1>3. Types' /\ WithinLimits'
    BY Before, <1>1, <1>2 DEF Types, WithinLimits, Bounded
  <1>4. PassedIsValid'
    BY <1>1 DEF PassedIsValid, Running
  <1>5. Agrees(surface, truth)' /\ Page[view]' \in truth'.visited
    BY Before, <1>1 DEF Agrees, LogTells, OutcomesAreReal, ShownOnly, VisitedKnown, StatesAreShown, NavigationTells,
                        Unverified, Seen, Full
  <1> QED
    BY <1>3, <1>4, <1>5 DEF IInv

\* The artifact is judged, and the surface stays.
LEMMA StageStep ==
  ASSUME IInv, UNCHANGED <<view, surface, ledger, truth>>, stage' \in Stages, PassedIsValid'
  PROVE  IInv'
  <1>1. Types' /\ WithinLimits'
    BY Before DEF Types, WithinLimits, Bounded
  <1>2. Agrees(surface, truth)' /\ Page[view]' \in truth'.visited
    BY Before DEF Agrees, LogTells, OutcomesAreReal, ShownOnly, VisitedKnown, StatesAreShown, NavigationTells,
                  Unverified, Seen, Full
  <1> QED
    BY <1>1, <1>2 DEF IInv

LEMMA FinalizeStep ==
  ASSUME IInv, NEW art \in Artifacts, NEW cited \in SUBSET DOMAIN ledger, Finalize(art, cited)
  PROVE  IInv'
  <1>1. cited \in SUBSET Nat
    BY Before
  <1>2. stage' \in Stages /\ stage'.outcome = stage.outcome
    BY Before, <1>1 DEF Finalize, Stages
  <1>3. PassedIsValid'
    BY <1>2 DEF PassedIsValid, Finalize, Running
  <1> QED
    BY <1>2, <1>3, StageStep DEF Finalize

LEMMA AttemptEndsStep ==
  ASSUME IInv, AttemptEnds
  PROVE  IInv'
  <1>1. UNCHANGED <<view, surface, ledger, truth>> /\ Running
    BY DEF AttemptEnds
  <1>2. CASE stage.written /\ Valid(stage.art, stage.cited)
    <2>1. /\ stage' \in Stages /\ stage'.art = stage.art /\ stage'.cited = stage.cited
      BY Before, <1>2 DEF AttemptEnds, Stages
    <2>2. Valid(stage.art, stage.cited)'
      BY <1>1, <1>2, <2>1 DEF Valid, Expected
    <2>3. PassedIsValid'
      BY <2>2 DEF PassedIsValid
    <2> QED
      BY <1>1, <2>1, <2>3, StageStep
  <1>3. CASE ~(stage.written /\ Valid(stage.art, stage.cited))
    <2>1. stage' \in Stages /\ stage'.outcome # "passed"
      <3>1. CASE stage.attempt = Attempts
        BY Before, <1>3, <3>1 DEF AttemptEnds, Stages
      <3>2. CASE stage.attempt # Attempts
        <4>1. stage' = [stage EXCEPT !.attempt = @ + 1, !.written = FALSE]
          BY <1>3, <3>2 DEF AttemptEnds
        <4>2. stage \in Stages /\ stage.attempt \in 1..Attempts /\ Attempts \in Nat
          BY Before DEF Stages
        <4>3. stage.attempt + 1 \in 1..Attempts
          BY <3>2, <4>2
        <4>4. stage' \in Stages /\ stage'.outcome = stage.outcome
          BY <4>1, <4>2, <4>3 DEF Stages
        <4> QED
          BY <1>1, <4>4 DEF Running
      <3> QED
        BY <3>1, <3>2
    <2>2. PassedIsValid'
      BY <2>1 DEF PassedIsValid
    <2> QED
      BY <1>1, <2>1, <2>2, StageStep
  <1> QED
    BY <1>2, <1>3

LEMMA NextIInv == IInv /\ [Next]_vars => IInv'
  <1> SUFFICES ASSUME IInv, [Next]_vars
               PROVE  IInv'
    OBVIOUS
  <1>1. CASE Snapshot
    BY <1>1, SnapshotStep
  <1>2. CASE SnapshotToFile
    BY <1>2, SnapshotToFileStep
  <1>3. CASE Navigate
    <2>1. PICK v \in Views : Running /\ Acted(v, "navigate", FALSE)
      BY <1>3 DEF Navigate
    <2> QED
      BY <2>1, ActedStep
  <1>4. CASE Click
    <2>1. PICK s \in Leads : Running /\ Acted(s[3], "activate", s[2][2] = "Sign in")
      BY <1>4 DEF Click
    <2>2. s[3] \in Views /\ (s[2][2] = "Sign in") \in BOOLEAN
      BY <2>1, ProductAssumption
    <2> QED
      BY <2>1, <2>2, ActedStep
  <1>5. CASE Submit
    <2>1. PICK s \in Leads : Running /\ Acted(s[3], "submit", FALSE)
      BY <1>5 DEF Submit
    <2>2. s[3] \in Views
      BY <2>1, ProductAssumption
    <2> QED
      BY <2>1, <2>2, ActedStep
  <1>6. CASE Type
    BY <1>6, TypeStep
  <1>7. CASE FailedCall
    BY <1>7, FailedCallStep
  <1>8. CASE \E v \in Views : Observe(v)
    BY <1>8, ObserveStep
  <1>9. CASE \E art \in Artifacts, cited \in SUBSET DOMAIN ledger : Finalize(art, cited)
    BY <1>9, FinalizeStep
  <1>10. CASE AttemptEnds
    BY <1>10, AttemptEndsStep
  <1>11. CASE UNCHANGED vars
    BY <1>11, StageStep, Before DEF vars, IInv, PassedIsValid, Valid, Expected
  <1> QED
    BY <1>1, <1>2, <1>3, <1>4, <1>5, <1>6, <1>7, <1>8, <1>9, <1>10, <1>11 DEF Next

-----------------------------------------------------------------------------
(* The theorems. *)

\* IInv holds in every reachable state: the surface never says more of the product than happened, and less only
\* where a limit says so.
THEOREM DiscoveryInvariant == Spec => []IInv
  BY InitIInv, NextIInv, PTL DEF Spec

\* Types and limits: MAX_LOCATIONS, MAX_STATES, MAX_NAVIGATION and the ledger's limit are never exceeded.
THEOREM DiscoveryTypes == Spec => []TypeOK
  <1>1. IInv => TypeOK
    <2> SUFFICES ASSUME IInv
                 PROVE  TypeOK
      OBVIOUS
    <2>1. Range(ledger) \subseteq Views
      BY Before, RangeIsFinite
    <2>2. surface.locations \subseteq Locations
      BY Before DEF Surfaces
    <2>3. stage.attempt \in 1..Attempts /\ stage.outcome \in {"running", "passed", "failed"}
      BY Before DEF Stages
    <2> QED
      BY Before, <2>1, <2>2, <2>3 DEF TypeOK, Bounded
  <1> QED
    BY <1>1, DiscoveryInvariant, PTL

\* What the stage passes with (stage.mjs) reports every product location the browser was on, unless the limit of
\* locations was met, and cites every observation.
THEOREM NothingIsDropped == Spec => []NothingDropped
  <1>1. IInv => NothingDropped
    <2> SUFFICES ASSUME IInv, stage.outcome = "passed"
                 PROVE  /\ stage.cited = DOMAIN ledger
                        /\ surface.overflow \/ truth.visited \cap Products \subseteq DOMAIN stage.art
      BY DEF NothingDropped
    <2>1. Valid(stage.art, stage.cited)
      BY DEF IInv, PassedIsValid
    <2>2. VisitedKnown(surface, truth)
      BY Before DEF Agrees
    <2> QED
      BY <2>1, <2>2 DEF Valid, Expected, VisitedKnown, Products
  <1> QED
    BY <1>1, DiscoveryInvariant, PTL

\* Only an accepted proposal writes the artifact, and the gate had no reason against it.
LEMMA WritesIsFinalize ==
  ASSUME IInv, Next, Writes
  PROVE  /\ Reasons(surface, stage'.art) = {}
         /\ stage'.art \in Artifacts
  <1>1. CASE \E art \in Artifacts, cited \in SUBSET DOMAIN ledger : Finalize(art, cited)
    <2>1. PICK art \in Artifacts, cited \in SUBSET DOMAIN ledger : Finalize(art, cited)
      BY <1>1
    <2>2. stage'.art = art
      BY <2>1, Before DEF Finalize, Stages
    <2> QED
      BY <2>1, <2>2 DEF Finalize
  <1>2. CASE AttemptEnds
    <2>1. stage'.art = stage.art /\ stage'.cited = stage.cited /\ stage'.written \in {stage.written, FALSE}
      BY <1>2, Before DEF AttemptEnds, Stages
    <2> QED
      BY <2>1 DEF Writes
  <1>3. CASE UNCHANGED stage
    BY <1>3 DEF Writes
  <1> QED
    BY <1>1, <1>2, <1>3 DEF Next, Snapshot, SnapshotToFile, Navigate, Click, Submit, Type, FailedCall, Observe, Acted

\* What it means that the gate has no reason (evaluateDiscoveryCompletion).
LEMMA NoReason ==
  ASSUME NEW S, NEW art, Reasons(S, art) = {}
  PROVE  /\ Unverified(S) = {}
         /\ \A l \in DOMAIN art : art[l] = "EXPLORED" => l \in S.observed
         /\ Unfollowed(S, art) = {}
         /\ FlowOpen(S) => BlockedProposed(art) /\ Supported(S)
  <1> DEFINE continues == Unfollowed(S, art) # {}
  <1> DEFINE reason(code, holds) == IF holds THEN {code} ELSE {}
  <1> DEFINE all == {reason("UNVERIFIED_ACTION_OUTCOME",      Unverified(S) # {}),
        reason("UNVERIFIED_EXPLORED_LOCATION",   \E l \in DOMAIN art : art[l] = "EXPLORED" /\ l \notin S.observed),
        reason("UNEXPLORED_RELEVANT_NAVIGATION", continues),
        reason("BLOCKED_WITHOUT_EVIDENCE",       FlowOpen(S) /\ BlockedProposed(art) /\ ~Supported(S) /\ ~continues),
        reason("UNRESOLVED_AUTH_STATE",          FlowOpen(S) /\ ~BlockedProposed(art) /\ ~continues),
        reason("UNEXPLORED_REACHABLE_AREA",      Unexplored(S, art) # {})}
  <1>1. \A r \in all : r = {}
    BY DEF Reasons
  <1>2. \A code, holds : reason(code, holds) = {} => ~holds
    OBVIOUS
  <1>3. /\ ~(Unverified(S) # {})
        /\ ~(\E l \in DOMAIN art : art[l] = "EXPLORED" /\ l \notin S.observed)
        /\ ~continues
        /\ ~(FlowOpen(S) /\ BlockedProposed(art) /\ ~Supported(S) /\ ~continues)
        /\ ~(FlowOpen(S) /\ ~BlockedProposed(art) /\ ~continues)
    BY <1>1, <1>2
  <1> QED
    BY <1>3

\* When the artifact is written the agent has seen the page since its last action, and every location written as
\* EXPLORED (discovery-completion.ts) was shown by a snapshot, whatever the log of actions had to drop.
THEOREM OutcomesWereSeen == Spec => OutcomesSeen
  <1>1. IInv /\ [Next]_vars =>
          [Writes => /\ ~truth.unseen
                     /\ \A l \in DOMAIN stage'.art :
                            stage'.art[l] = "EXPLORED" => \E v \in truth.shown : Page[v] = l]_vars
    <2> SUFFICES ASSUME IInv, Next, Writes
                 PROVE  /\ ~truth.unseen
                        /\ \A l \in DOMAIN stage'.art :
                               stage'.art[l] = "EXPLORED" => \E v \in truth.shown : Page[v] = l
      OBVIOUS
    <2>1. Unverified(surface) = {} /\ \A l \in DOMAIN stage'.art : stage'.art[l] = "EXPLORED" => l \in surface.observed
      BY WritesIsFinalize, NoReason
    <2>2. LogTells(surface, truth) /\ ShownOnly(surface, truth)
      BY Before DEF Agrees
    <2> QED
      BY <2>1, <2>2 DEF LogTells, ShownOnly
  <1> QED
    BY <1>1, DiscoveryInvariant, PTL DEF Spec, OutcomesSeen

\* A sign-in form that was shown and never left behind is an open flow for the gate, short of the caps on states.
LEMMA FlowIsOpen ==
  ASSUME IInv, FormShown, ~SignedInShown, ~surface.stateOverflow
  PROVE  FlowOpen(surface)
  <1> DEFINE states == surface.states
  <1>1. StatesAreShown(surface, truth) /\ truth.shown \subseteq Views
    BY Before DEF Agrees, Truths
  <1>2. ~AuthForm(NoState)
    BY DEF AuthForm, SignIn, Names, NoState
  <1>3. \A i \in DOMAIN states : \E v \in truth.shown :
           /\ states[i] = StateOf(v) /\ states[i].at = Page[v]
    <2>1. TAKE i \in DOMAIN states
    <2>2. states[i] \in Range(states)
      BY <2>1 DEF Range
    <2>3. PICK v \in truth.shown : states[i] = StateOf(v) /\ states[i] # NoState
      BY <1>1, <2>2 DEF StatesAreShown
    <2>4. StateOf(v).at = Page[v]
      BY <1>1, <2>3, StateIsOne
    <2> QED
      BY <2>3, <2>4
  <1>4. \E i \in DOMAIN states : Scope(states[i].at) = "PRODUCT" /\ AuthForm(states[i])
    <2>1. PICK v \in truth.shown : Scope(Page[v]) = "PRODUCT" /\ AuthForm(StateOf(v))
      BY DEF FormShown
    <2>2. StateOf(v) \in Range(states) /\ StateOf(v).at = Page[v]
      BY <1>1, <1>2, <2>1, StateIsOne DEF StatesAreShown
    <2>3. PICK i \in DOMAIN states : states[i] = StateOf(v)
      BY <2>2 DEF Range
    <2> QED
      BY <2>1, <2>2, <2>3
  <1>5. ASSUME NEW i \in DOMAIN states, Scope(states[i].at) = "PRODUCT"
        PROVE  /\ ~SignOut(states[i])
               /\ ~(/\ ~Password(states[i]) /\ ~SignIn(states[i])
                    /\ \E f \in DOMAIN states : AuthForm(states[f]) /\ states[f].at = states[i].at)
    <2>1. PICK v \in truth.shown : states[i] = StateOf(v) /\ states[i].at = Page[v]
      BY <1>3
    <2>2. \A f \in DOMAIN states : AuthForm(states[f]) /\ states[f].at = states[i].at =>
             \E w \in truth.shown : Page[w] = Page[v] /\ AuthForm(StateOf(w))
      BY <1>3, <2>1
    <2> QED
      BY <1>5, <2>1, <2>2 DEF SignedInShown
  <1> HIDE DEF states
  <1> QED
    BY <1>4, <1>5 DEF FlowOpen, states

\* Such a flow is answered by BLOCKED, after an attempt at it that visibly changed something.
THEOREM FlowsAreAnswered == Spec => FlowAnswered
  <1>1. IInv /\ [Next]_vars =>
          [Writes /\ FormShown /\ ~SignedInShown /\ ~surface.stateOverflow =>
              BlockedProposed(stage'.art) /\ truth.answered]_vars
    <2> SUFFICES ASSUME IInv, Next, Writes, FormShown, ~SignedInShown, ~surface.stateOverflow
                 PROVE  BlockedProposed(stage'.art) /\ truth.answered
      OBVIOUS
    <2>1. BlockedProposed(stage'.art) /\ Supported(surface)
      BY FlowIsOpen, WritesIsFinalize, NoReason
    <2>2. OutcomesAreReal(surface, truth)
      BY Before DEF Agrees
    <2> QED
      BY <2>1, <2>2 DEF Supported, OutcomesAreReal
  <1> QED
    BY <1>1, DiscoveryInvariant, PTL DEF Spec, FlowAnswered

\* A link that an action brought into view while the flow is open was followed, if this run may, short of MAX_NAVIGATION.
THEOREM ContinuationsAreFollowed == Spec => ContinuationFollowed
  <1>1. IInv /\ [Next]_vars =>
          [Writes /\ FormShown /\ ~SignedInShown /\ ~surface.stateOverflow
             /\ Cardinality(DOMAIN surface.navigation) < MaxNavigation =>
             \A l \in truth.handed : \/ Scope(l) = "EXTERNAL" \/ l \in Unsafe
                                    \/ \E p \in truth.visited : p = l \/ (Scope(l) # "PRODUCT" /\ Origin[p] = Origin[l])]_vars
    <2> SUFFICES ASSUME IInv, Next, Writes, FormShown, ~SignedInShown, ~surface.stateOverflow,
                        Cardinality(DOMAIN surface.navigation) < MaxNavigation,
                        NEW l \in truth.handed, Scope(l) # "EXTERNAL", l \notin Unsafe
                 PROVE  \E p \in truth.visited : p = l \/ (Scope(l) # "PRODUCT" /\ Origin[p] = Origin[l])
      OBVIOUS
    <2>1. FlowOpen(surface) /\ Unfollowed(surface, stage'.art) = {}
      BY FlowIsOpen, WritesIsFinalize, NoReason
    <2>2. NavigationTells(surface, truth) /\ ~Full(surface)
      BY Before, FS_CardinalityType DEF Agrees, Full, Bounded
    <2>3. l \in DOMAIN surface.navigation /\ surface.navigation[l].exposed
      BY <2>2 DEF NavigationTells
    <2>4. surface.navigation[l].followed
      BY <2>1, <2>3 DEF Unfollowed
    <2> QED
      BY <2>2, <2>3, <2>4 DEF NavigationTells
  <1> QED
    BY <1>1, DiscoveryInvariant, PTL DEF Spec, ContinuationFollowed

\* The rules of the gate can be met together, in any state: no two of them contradict each other.
THEOREM RulesCanBeMet == Spec => []RulesSatisfiable
  <1>1. IInv => RulesSatisfiable
    <2> DEFINE art == [l \in Products |-> "BLOCKED"]
    <2> SUFFICES ASSUME IInv, Unverified(surface) = {},
                        \A l \in DOMAIN surface.navigation :
                           surface.navigation[l].exposed =>
                              surface.navigation[l].followed \/ Scope(l) = "EXTERNAL" \/ l \in Unsafe,
                        FlowOpen(surface) => Supported(surface)
                 PROVE  Reasons(surface, art) = {}
      BY DEF RulesSatisfiable
    <2>1. BlockedProposed(art)
      <3>1. Target \in Products
        BY DEF Products, Scope, Target
      <3> QED
        BY <3>1 DEF BlockedProposed
    <2>2. Unfollowed(surface, art) = {}
      <3> HIDE DEF art
      <3> QED
        BY <2>1 DEF Unfollowed
    <2>3. Unexplored(surface, art) = {}
      <3>1. \A s \in Range(surface.states) : Scope(s.at) = "PRODUCT" => s.at \in Products
        <4>1. TAKE s \in Range(surface.states)
        <4>2. PICK v \in truth.shown : s = StateOf(v) /\ s # NoState
          BY <4>1, Before DEF Agrees, StatesAreShown
        <4>3. v \in Views
          BY Before DEF Truths
        <4> QED
          BY <4>2, <4>3, StateIsOne DEF Products
      <3>2. \A l \in Products : l \in DOMAIN art /\ art[l] \in {"BLOCKED", "SKIPPED_WITH_REASON"}
        OBVIOUS
      <3> HIDE DEF art
      <3> QED
        BY <3>1, <3>2 DEF Unexplored
    <2>4. ~\E l \in DOMAIN art : art[l] = "EXPLORED" /\ l \notin surface.observed
      OBVIOUS
    <2> HIDE DEF art
    <2> QED
      BY <2>1, <2>2, <2>3, <2>4 DEF Reasons
  <1> QED
    BY <1>1, DiscoveryInvariant, PTL

=============================================================================
