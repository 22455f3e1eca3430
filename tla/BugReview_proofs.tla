--------------------------- MODULE BugReview_proofs ---------------------------
(***************************************************************************)
(* Proofs about the decisions on bug reports, for any number of reports,   *)
(* refreshes, full runs and decisions, and any claims and evidence: what   *)
(* was decided stays with its finding, the histories agree, and the        *)
(* workspace decides on what it showed.                                    *)
(***************************************************************************)
EXTENDS BugReview, WellFoundedInduction, TLAPS

LEMMA ConstantsAre ==
  /\ MaxBugs \in Nat \ {0} /\ MaxRuns \in Nat /\ MaxDecisions \in Nat
  /\ None \notin Report /\ None \notin Ids /\ None \notin Review /\ Doubtful \notin Review /\ Doubtful # None
  BY ConstantsAssumption

-----------------------------------------------------------------------------
(* The pairing of earlier and new reports. *)

Below == OpToRel(<, Nat)

LEMMA LeastNumber ==
  ASSUME NEW S, S \subseteq Nat, S # {}
  PROVE  \E n \in S : \A m \in S : n <= m
  <1>1. IsWellFoundedOn(Below, Nat)
    BY NatLessThanWellFounded DEF Below
  <1>2. \A m, n \in Nat : m < n => <<m, n>> \in Below
    BY DEF OpToRel, Below
  <1>3. PICK n \in S : \A m \in S : ~ (<<m, n>> \in Below)
    BY <1>1, WFMin
  <1>4. ASSUME NEW m \in S
        PROVE  n <= m
    <2>1. m \in Nat /\ n \in Nat
      OBVIOUS
    <2>2. ~ (m < n)
      BY <1>2, <1>3, <2>1
    <2>3. QED
      BY <2>1, <2>2
  <1>5. QED
    BY <1>4

USE ConstantsAre

LEMMA BestIsThere ==
  ASSUME NEW previous, NEW new, NEW left, left \subseteq Ids, left # {}
  PROVE  /\ Best(previous, new, left) \in left
         /\ \A q \in left \ {Best(previous, new, left)} :
               Likeness(previous[Best(previous, new, left)], new) >= Likeness(previous[q], new)
  <1> DEFINE like(o) == Likeness(previous[o], new)
  <1> DEFINE best(o) == \A q \in left \ {o} : like(o) > like(q) \/ (like(o) = like(q) /\ o < q)
  <1>1. \A o : like(o) \in {0, 1}
    BY DEF Likeness
  <1> HIDE DEF like
  <1> DEFINE alike == {o \in left : like(o) = 1}
  <1>2. left \subseteq Nat
    BY DEF Ids
  <1>3. \E o \in left : best(o)
    <2>1. CASE alike # {}
      <3>1. PICK n \in alike : \A m \in alike : n <= m
        BY <1>2, <2>1, LeastNumber
      <3>2. n \in left /\ best(n)
        BY <1>1, <1>2, <3>1
      <3>3. QED
        BY <3>2
    <2>2. CASE alike = {}
      <3>1. PICK n \in left : \A m \in left : n <= m
        BY <1>2, LeastNumber
      <3>2. best(n)
        BY <1>1, <1>2, <2>2, <3>1
      <3>3. QED
        BY <3>2
    <2>3. QED
      BY <2>1, <2>2
  <1>4. Best(previous, new, left) = CHOOSE o \in left : best(o)
    BY DEF Best, like
  <1>5. Best(previous, new, left) \in left /\ best(Best(previous, new, left))
    BY <1>3, <1>4
  <1>6. \A q \in left \ {Best(previous, new, left)} : like(Best(previous, new, left)) >= like(q)
    BY <1>1, <1>5
  <1>7. QED
    BY <1>5, <1>6 DEF like

\* The pairings after each new report, up to the n-th.
Pairs(f, previous, fresh, n) ==
  f = [i \in 0..n |-> IF i = 0 THEN Nothing ELSE Paired(previous, fresh, f[i - 1], i)]

\* The pairing is defined: its steps have a first one that fails, or none.
LEMMA PairingSteps ==
  ASSUME NEW previous, NEW fresh
  PROVE  \E f : Pairs(f, previous, fresh, MaxBugs) /\ Pairing(previous, fresh) = f[MaxBugs]
  <1> DEFINE Bad == {n \in Nat : ~ \E f : Pairs(f, previous, fresh, n)}
  <1>1. Bad = {}
    <2>1. SUFFICES ASSUME Bad # {} PROVE FALSE
      OBVIOUS
    <2>2. PICK n \in Bad : \A m \in Bad : n <= m
      BY <2>1, LeastNumber
    <2>3. n # 0
      <3>1. Pairs([i \in 0..0 |-> Nothing], previous, fresh, 0)
        BY DEF Pairs
      <3>2. QED
        BY <3>1
    <2>4. PICK f : Pairs(f, previous, fresh, n - 1)
      <3>1. n - 1 \in Nat /\ ~(n <= n - 1)
        BY <2>3
      <3>2. QED
        BY <2>2, <3>1
    <2> DEFINE g == [i \in 0..n |-> IF i < n THEN f[i] ELSE Paired(previous, fresh, f[n - 1], n)]
    <2>5. Pairs(g, previous, fresh, n)
      BY <2>3, <2>4 DEF Pairs
    <2>6. QED
      BY <2>2, <2>5
  <1>2. \E f : Pairs(f, previous, fresh, MaxBugs)
    BY <1>1
  <1>3. QED
    BY <1>2 DEF Pairing, Pairs

\* The first n reports have their counterparts, the others none yet.
PairedUpTo(pairs, previous, fresh, n) ==
  /\ pairs \in [Ids -> Ids \cup {None}]
  /\ \A i \in Ids : i > n => pairs[i] = None
  /\ \A i \in Ids : i <= n =>
        LET left == Left(previous, fresh, pairs, i)
        IN  pairs[i] = IF left = {} THEN None ELSE Best(previous, fresh[i], left)

LEMMA PairedOn ==
  ASSUME NEW previous, NEW fresh, NEW pairs, NEW n \in Ids, PairedUpTo(pairs, previous, fresh, n - 1)
  PROVE  PairedUpTo(Paired(previous, fresh, pairs, n), previous, fresh, n)
  <1> DEFINE left(p, i) == Left(previous, fresh, p, i)
  <1> DEFINE new == Paired(previous, fresh, pairs, n)
  <1>1. new = IF left(pairs, n) = {} THEN pairs ELSE [pairs EXCEPT ![n] = Best(previous, fresh[n], left(pairs, n))]
    BY DEF Paired
  <1>2. pairs \in [Ids -> Ids \cup {None}] /\ pairs[n] = None
    BY DEF PairedUpTo, Ids
  <1>3. left(pairs, n) # {} => Best(previous, fresh[n], left(pairs, n)) \in Ids
    <2>1. left(pairs, n) \subseteq Ids
      BY DEF Left
    <2>2. QED
      BY <2>1, BestIsThere
  <1>4. /\ new \in [Ids -> Ids \cup {None}] /\ (\A i \in Ids : i # n => new[i] = pairs[i])
        /\ new[n] = IF left(pairs, n) = {} THEN None ELSE Best(previous, fresh[n], left(pairs, n))
    BY <1>1, <1>2, <1>3
  <1>5. \A i \in Ids : i <= n => left(new, i) = left(pairs, i)
    BY <1>4 DEF Left, Ids
  <1>6. \A i \in Ids : i > n => new[i] = None
    BY <1>4 DEF PairedUpTo, Ids
  <1>7. ASSUME NEW i \in Ids, i <= n
        PROVE  new[i] = IF left(new, i) = {} THEN None ELSE Best(previous, fresh[i], left(new, i))
    <2>1. CASE i = n
      <3>1. n <= n
        BY DEF Ids
      <3>2. left(new, n) = left(pairs, n)
        BY <1>5, <3>1
      <3>3. QED
        BY <1>4, <2>1, <3>2
    <2>2. CASE i # n
      <3>1. i <= n - 1
        BY <1>7, <2>2 DEF Ids
      <3>2. pairs[i] = IF left(pairs, i) = {} THEN None ELSE Best(previous, fresh[i], left(pairs, i))
        BY <3>1 DEF PairedUpTo
      <3>3. QED
        BY <1>4, <1>5, <1>7, <2>2, <3>2
    <2>3. QED
      BY <2>1, <2>2
  <1>8. QED
    BY <1>4, <1>6, <1>7 DEF PairedUpTo

LEMMA PairingIs ==
  ASSUME NEW previous, NEW fresh
  PROVE  PairedUpTo(Pairing(previous, fresh), previous, fresh, MaxBugs)
  <1>1. PICK f : Pairs(f, previous, fresh, MaxBugs) /\ Pairing(previous, fresh) = f[MaxBugs]
    BY PairingSteps
  <1> DEFINE Bad == {n \in 0..MaxBugs : ~ PairedUpTo(f[n], previous, fresh, n)}
  <1>2. Bad = {}
    <2>1. SUFFICES ASSUME Bad # {} PROVE FALSE
      OBVIOUS
    <2>2. PICK n \in Bad : \A m \in Bad : n <= m
      <3>1. Bad \subseteq Nat
        OBVIOUS
      <3> HIDE DEF Bad
      <3>2. QED
        BY <2>1, <3>1, LeastNumber
    <2>3. n # 0
      <3>1. f[0] = Nothing
        BY <1>1 DEF Pairs
      <3>2. PairedUpTo(f[0], previous, fresh, 0)
        BY <3>1 DEF PairedUpTo, Nothing, Ids
      <3>3. QED
        BY <3>2
    <2>4. n - 1 \in 0..MaxBugs /\ ~(n <= n - 1) /\ n \in Ids
      BY <2>3 DEF Ids
    <2>5. PairedUpTo(f[n - 1], previous, fresh, n - 1)
      BY <2>2, <2>4
    <2>6. f[n] = Paired(previous, fresh, f[n - 1], n)
      BY <1>1, <2>3 DEF Pairs
    <2>7. QED
      BY <2>4, <2>5, <2>6, PairedOn
  <1>3. QED
    BY <1>1, <1>2

\* A new report is paired with an earlier one of its evidence, or with none.
LEMMA PairingTyped ==
  ASSUME NEW previous, NEW fresh, NEW i \in Ids
  PROVE  LET o == Pairing(previous, fresh)[i]
         IN  o # None => o \in Ids /\ previous[o] # None /\ fresh[i] # None
  <1> DEFINE pairs == Pairing(previous, fresh)
  <1> DEFINE left == Left(previous, fresh, pairs, i)
  <1>1. pairs[i] = IF left = {} THEN None ELSE Best(previous, fresh[i], left)
    BY PairingIs DEF PairedUpTo, Ids
  <1>2. \A o \in left : o \in Ids /\ previous[o] # None /\ fresh[i] # None
    BY DEF Left
  <1>3. left # {} => Best(previous, fresh[i], left) \in left
    BY <1>2, BestIsThere
  <1> HIDE DEF pairs, left
  <1>4. pairs[i] # None => pairs[i] \in left
    BY <1>1, <1>3
  <1>5. QED
    BY <1>2, <1>4 DEF pairs

\* A finding that is in both analyses, alone with its evidence in the new one, is paired with itself.
LEMMA PairedWithItself ==
  ASSUME NEW previous \in Reports, NEW fresh \in Reports, NEW o \in Ids, NEW i \in Ids,
         previous[o] # None, fresh[i] # None, previous[o].claim = fresh[i].claim,
         \A q \in Ids \ {o} : previous[q] # None => previous[q].claim # previous[o].claim,
         \A j \in Ids \ {i} : fresh[j] # None => KeyOf[fresh[j].claim] # KeyOf[fresh[i].claim]
  PROVE  Pairing(previous, fresh)[i] = o
  <1> DEFINE pairs == Pairing(previous, fresh)
  <1> DEFINE left(j) == Left(previous, fresh, pairs, j)
  <1>1. \A j \in Ids : pairs[j] = IF left(j) = {} THEN None ELSE Best(previous, fresh[j], left(j))
    BY PairingIs DEF PairedUpTo, Ids
  <1>2. \A j \in Ids : left(j) \subseteq Ids
    BY DEF Left
  <1>3. ASSUME NEW j \in 1..(i - 1)
        PROVE  pairs[j] # o
    <2>1. j \in Ids \ {i}
      BY DEF Ids
    <2>2. o \notin left(j)
      BY <2>1 DEF Left
    <2>3. left(j) # {} => Best(previous, fresh[j], left(j)) \in left(j)
      BY <1>2, <2>1, BestIsThere
    <2>4. o # None
      OBVIOUS
    <2> HIDE DEF pairs, left
    <2>5. QED
      BY <1>1, <2>1, <2>2, <2>3, <2>4
  <1>4. o \in left(i)
    BY <1>3 DEF Left
  <1> DEFINE b == Best(previous, fresh[i], left(i))
  <1>5. /\ b \in left(i)
        /\ \A q \in left(i) \ {b} : Likeness(previous[b], fresh[i]) >= Likeness(previous[q], fresh[i])
    BY <1>2, <1>4, BestIsThere
  <1>6. pairs[i] = b
    BY <1>1, <1>4
  <1>7. b = o
    <2>1. SUFFICES ASSUME b # o PROVE FALSE
      OBVIOUS
    <2>2. Likeness(previous[o], fresh[i]) = 1
      BY DEF Likeness
    <2>3. b \in Ids /\ previous[b] # None
      BY <1>5 DEF Left
    <2> HIDE DEF b, left
    <2>4. Likeness(previous[b], fresh[i]) = 0
      BY <2>1, <2>3 DEF Likeness
    <2>5. QED
      BY <1>4, <1>5, <2>1, <2>2, <2>4
  <1>8. QED
    BY <1>6, <1>7

-----------------------------------------------------------------------------
(* What is known of the decisions may become less. *)

\* Nothing has become known; what is known no more is Doubtful.
Darker(known, then) == \A c \in Claims : then[c] = known[c] \/ then[c] = Doubtful

LEMMA DoubtDarkens ==
  ASSUME NEW cs
  PROVE  Darker(standing, Doubt(cs)) /\ \A c \in Claims : c \in cs => Doubt(cs)[c] = Doubtful
  BY DEF Darker, Doubt

LEMMA DoubtTyped ==
  ASSUME TypeOK, NEW cs
  PROVE  Doubt(cs) \in [Claims -> Review \cup {None, Doubtful}]
  BY DEF TypeOK, Doubt

LEMMA ReportTyped ==
  ASSUME NEW r \in Report
  PROVE  r # None /\ r.claim \in Claims /\ r.review \in Review /\ r.claim \in Mates(r.claim)
  BY DEF Report, Mates

LEMMA ReportsTyped ==
  ASSUME NEW r \in Reports, NEW i \in Ids, r[i] # None
  PROVE  r[i] \in Report /\ r[i].claim \in Claims /\ r[i].review \in Review
  BY ReportTyped DEF Reports

LEMMA CloudedDarker ==
  ASSUME NEW known, NEW then, Darker(known, then), NEW c, Clouded(c, known)
  PROVE  Clouded(c, then)
  BY DEF Darker, Clouded, Mates

LEMMA CloudedIsDoubtful ==
  ASSUME NEW known, NEW c \in Claims, Clouded(c, known)
  PROVE  known[c] = Doubtful
  BY DEF Clouded, Mates

\* Clouds cover all the claims of one evidence.
LEMMA CloudedMates ==
  ASSUME NEW known, NEW c, NEW d, KeyOf[c] = KeyOf[d], Clouded(c, known)
  PROVE  Clouded(d, known)
  BY DEF Clouded, Mates

\* Of the claims that were pending, those that are no more have become Doubtful.
Settles(pending, later, then) == \A c \in Claims : c \in pending => c \in later \/ then[c] = Doubtful

LEMMA KeptDarker ==
  ASSUME NEW r \in Reports, NEW h, NEW known, NEW then, NEW pending, NEW later, Kept(r, h, known, pending),
         Darker(known, then), Settles(pending, later, then)
  PROVE  Kept(r, h, then, later)
  <1>1. ASSUME NEW i \in Ids, r[i] # None, then[r[i].claim] # Doubtful
        PROVE  /\ RightReview(r[i].review, then[r[i].claim])
               /\ then[r[i].claim] # None /\ r[i].claim \notin later => h[i] # <<>> /\ Last(h[i]) = r[i]
               /\ \A j \in Ids \ {i} : r[j] # None => r[j].claim # r[i].claim
    <2>1. r[i].claim \in Claims
      BY <1>1, ReportsTyped
    <2>2. then[r[i].claim] = known[r[i].claim] /\ known[r[i].claim] # Doubtful
      BY <1>1, <2>1 DEF Darker
    <2>3. r[i].claim \notin later => r[i].claim \notin pending
      BY <1>1, <2>1 DEF Settles
    <2>4. QED
      BY <1>1, <2>2, <2>3 DEF Kept
  <1>2. QED
    BY <1>1 DEF Kept

LEMMA HeldDarker ==
  ASSUME NEW r, NEW known, NEW then, Held(r, known), Darker(known, then)
  PROVE  Held(r, then)
  BY DEF Held, Darker

LEMMA FreshDarker ==
  ASSUME NEW r, NEW known, NEW then, Fresh(r, known), Darker(known, then)
  PROVE  Fresh(r, then)
  BY CloudedDarker DEF Fresh

\* A report of which nothing is known any more takes the place of another.
LEMMA KeptOver ==
  ASSUME NEW r \in Reports, NEW h, NEW known, NEW pending, Kept(r, h, known, pending), NEW n \in Ids, NEW new \in Report,
         known[new.claim] = Doubtful
  PROVE  Kept([r EXCEPT ![n] = new], h, known, pending)
  <1> DEFINE s == [r EXCEPT ![n] = new]
  <1>1. s[n] = new /\ \A i \in Ids : i # n => s[i] = r[i]
    BY DEF Reports
  <1> HIDE DEF s
  <1>2. ASSUME NEW i \in Ids, s[i] # None, known[s[i].claim] # Doubtful
        PROVE  /\ RightReview(s[i].review, known[s[i].claim])
               /\ known[s[i].claim] # None /\ s[i].claim \notin pending => h[i] # <<>> /\ Last(h[i]) = s[i]
               /\ \A j \in Ids \ {i} : s[j] # None => s[j].claim # s[i].claim
    <2>1. i # n
      BY <1>1, <1>2
    <2>2. s[i] = r[i]
      BY <1>1, <2>1
    <2>3. \A j \in Ids \ {i} : s[j] # None => s[j].claim # s[i].claim
      BY <1>1, <1>2, <2>2 DEF Kept
    <2>4. QED
      BY <1>2, <2>2, <2>3 DEF Kept
  <1>3. Kept(s, h, known, pending)
    BY <1>2 DEF Kept
  <1>4. QED
    BY <1>3 DEF s

LEMMA HeldOver ==
  ASSUME NEW r \in Reports, NEW known, Held(r, known), NEW n \in Ids, NEW new \in Report,
         r[n] # None => known[r[n].claim] = Doubtful
  PROVE  Held([r EXCEPT ![n] = new], known)
  BY DEF Held, Reports

LEMMA FreshOver ==
  ASSUME NEW r \in Reports, NEW known, Fresh(r, known), NEW n \in Ids, NEW new \in Report, Clouded(new.claim, known)
  PROVE  Fresh([r EXCEPT ![n] = new], known)
  <1> DEFINE s == [r EXCEPT ![n] = new]
  <1>1. s[n] = new /\ \A i \in Ids : i # n => s[i] = r[i]
    BY DEF Reports
  <1> HIDE DEF s
  <1>2. ASSUME NEW i \in Ids, s[i] # None, ~Clouded(s[i].claim, known)
        PROVE  /\ s[i].review = Undecided
               /\ \A j \in Ids \ {i} : s[j] # None => KeyOf[s[j].claim] # KeyOf[s[i].claim]
    <2>1. i # n /\ s[i] = r[i]
      BY <1>1, <1>2
    <2>2. KeyOf[new.claim] # KeyOf[s[i].claim]
      BY <1>2, CloudedMates
    <2>3. \A j \in Ids \ {i} : s[j] # None => KeyOf[s[j].claim] # KeyOf[s[i].claim]
      BY <1>1, <1>2, <2>1, <2>2 DEF Fresh
    <2>4. QED
      BY <1>2, <2>1, <2>3 DEF Fresh
  <1>3. Fresh(s, known)
    BY <1>2 DEF Fresh
  <1>4. QED
    BY <1>3 DEF s

\* A history gets a round, under an id of whose report nothing is known any more.
LEMMA KeptRecorded ==
  ASSUME NEW r, NEW h \in Histories, NEW known, NEW pending, Kept(r, h, known, pending), NEW n \in Ids, NEW rounds,
         r[n] # None => known[r[n].claim] = Doubtful
  PROVE  Kept(r, [h EXCEPT ![n] = rounds], known, pending)
  <1>1. \A i \in Ids : i # n => [h EXCEPT ![n] = rounds][i] = h[i]
    BY DEF Histories
  <1>2. QED
    BY <1>1 DEF Kept

\* Of reports as made, with nothing decided, everything is as it should be.
LEMMA FreshIsKept ==
  ASSUME NEW r \in Reports, NEW h, NEW known, NEW pending, Fresh(r, known), \A c \in Claims : known[c] \in {None, Doubtful}
  PROVE  Kept(r, h, known, pending) /\ Held(r, known)
  <1>1. ASSUME NEW i \in Ids, r[i] # None, known[r[i].claim] # Doubtful
        PROVE  /\ RightReview(r[i].review, known[r[i].claim]) /\ known[r[i].claim] = None
               /\ \A j \in Ids \ {i} : r[j] # None => r[j].claim # r[i].claim
    <2>1. r[i].claim \in Claims
      BY <1>1, ReportsTyped
    <2>2. ~Clouded(r[i].claim, known)
      BY <1>1, <2>1, CloudedIsDoubtful
    <2>3. QED
      BY <1>1, <2>1, <2>2 DEF Fresh, RightReview
  <1>2. QED
    BY <1>1 DEF Kept, Held

LEMMA NothingIsFresh == \A known, h, pending : Kept(Nothing, h, known, pending) /\ Fresh(Nothing, known)
  BY DEF Kept, Fresh, Nothing

LEMMA AllDoubtful ==
  ASSUME NEW r \in Reports, NEW h, NEW known, NEW pending, \A c \in Claims : known[c] = Doubtful
  PROVE  Kept(r, h, known, pending) /\ Held(r, known) /\ Fresh(r, known)
  <1>1. \A i \in Ids : r[i] # None => known[r[i].claim] = Doubtful /\ Clouded(r[i].claim, known)
    BY ReportsTyped DEF Clouded, Mates
  <1>2. QED
    BY <1>1 DEF Kept, Held, Fresh

-----------------------------------------------------------------------------
(* People. *)

Typed == TypeOK /\ agent["awaited"] \in Analyzer /\ agent["orphan"] \in Analyzer
   /\ \A p \in People : person[p] \in Person

LEMMA IInvTyped == IInv => Typed
  BY DEF IInv, TypeOK, Typed, People

LEMMA PendingStays ==
  ASSUME \A q \in People : person[q].pc = "append" => person'[q].pc = "append" /\ person'[q].next = person[q].next,
         NEW then
  PROVE  Settles(Pending, Pending', then)
  BY DEF Settles, Pending

LEMMA PendingSettles ==
  ASSUME NEW p \in People, \A q \in People \ {p} : person'[q] = person[q], NEW then, then[person[p].next.claim] = Doubtful
  PROVE  Settles(Pending, Pending', then)
  BY DEF Settles, Pending

LEMMA OnlyOneClean ==
  ASSUME IInv, NEW p \in People, Deciding(p), NEW q \in People \ {p}
  PROVE  ~ person[q].clean
  BY DEF IInv, PeopleKnow

LEMMA LiveMeansNobodyClean ==
  ASSUME IInv, Live, NEW p \in People
  PROVE  ~ person[p].clean
  BY DEF IInv, PeopleKnow

\* Nothing changes but what people are in the middle of.
LEMMA PeopleStep ==
  ASSUME IInv, UNCHANGED <<report, history, job, standing>>, agent'["awaited"] = agent["awaited"],
         \A q \in People : person[q].pc = "append" => person'[q].pc = "append" /\ person'[q].next = person[q].next,
         \A q \in People : person'[q].pc = "append" => person[q].pc = "append" /\ person'[q].next = person[q].next,
         TypeOK', PeopleKnow'
  PROVE  IInv'
  <1>1. Pending' = Pending
    BY DEF Pending
  <1>2. AgentWorks'
    BY DEF IInv, AgentWorks
  <1>3. JobKnows'
    BY <1>1 DEF IInv, JobKnows, CarriedSoFar, Restored, Regenerated
  <1>4. QED
    BY <1>2, <1>3 DEF IInv

LEMMA OpenStep ==
  ASSUME IInv, NEW i \in Ids, Open(i)
  PROVE  IInv'
  <1>1. page' = [id |-> i, shown |-> report[i]]
           /\ UNCHANGED <<report, history, job, runs, agent, person, decisions, standing>>
        /\ person["ui"].pc = "idle" /\ report[i] # None
    BY DEF Open
  <1>2. report[i] \in Report
    BY <1>1, ReportsTyped DEF IInv, TypeOK
  <1>3. TypeOK'
    BY <1>1, <1>2 DEF IInv, TypeOK
  <1>4. PeopleKnow'
    BY <1>1 DEF IInv, PeopleKnow, Deciding, Live
  <1>5. QED
    BY <1>1, <1>3, <1>4, PeopleStep

LEMMA ArriveStep ==
  ASSUME IInv, Arrive
  PROVE  IInv'
  <1>1. person' = [person EXCEPT !["ui"].pc = "arrived"] /\ person["ui"].pc = "idle"
        /\ UNCHANGED <<report, history, job, runs, agent, page, decisions, standing>>
    BY DEF Arrive
  <1>2. person \in [People -> Person] /\ "ui" \in People
    BY DEF IInv, TypeOK, People
  <1>3. /\ person'["ui"] = [person["ui"] EXCEPT !.pc = "arrived"]
        /\ \A q \in People : q # "ui" => person'[q] = person[q]
    BY <1>1, <1>2
  <1>4. person'["ui"] \in Person /\ person'["ui"].pc = "arrived" /\ person'["ui"].clean = person["ui"].clean
    BY <1>2, <1>3 DEF Person
  <1>5. TypeOK'
    BY <1>1, <1>2, <1>4 DEF IInv, TypeOK
  <1>6. ~ person["ui"].clean
    BY <1>1 DEF IInv, PeopleKnow, Deciding, People
  <1>7. PeopleKnow'
    BY <1>1, <1>3, <1>4, <1>6 DEF IInv, PeopleKnow, Deciding, Live
  <1>8. QED
    BY <1>1, <1>3, <1>4, <1>5, <1>7, PeopleStep

LEMMA NoActTyped == NoAct \in Person /\ NoAct.pc = "idle" /\ NoAct.clean = FALSE
  <1>1. 1 \in Ids
    BY DEF Ids
  <1>2. QED
    BY <1>1 DEF NoAct, Person

LEMMA RefuseStep ==
  ASSUME IInv, Refuse
  PROVE  IInv'
  <1>1. person' = [person EXCEPT !["ui"] = NoAct] /\ person["ui"].pc = "arrived"
        /\ UNCHANGED <<report, history, job, runs, agent, page, decisions, standing>>
    BY DEF Refuse
  <1>2. person \in [People -> Person] /\ "ui" \in People
    BY DEF IInv, TypeOK, People
  <1>3. person'["ui"] = NoAct /\ \A q \in People : q # "ui" => person'[q] = person[q]
    BY <1>1, <1>2
  <1>4. TypeOK'
    BY <1>1, <1>2, NoActTyped DEF IInv, TypeOK
  <1>5. PeopleKnow'
    BY <1>1, <1>3, NoActTyped DEF IInv, PeopleKnow, Deciding, Live
  <1>6. QED
    BY <1>1, <1>3, <1>4, <1>5, NoActTyped, PeopleStep

LEMMA DecidedTyped ==
  ASSUME NEW r \in Report, NEW a \in Actions, NEW at \in 0..MaxDecisions
  PROVE  Decided(a, r, at) \in Report /\ Decided(a, r, at).claim = r.claim
  <1>1. r.review \in Review /\ r.claim \in Claims
    BY DEF Report
  <1> DEFINE v == [r.review EXCEPT !.at = at]
  <1> DEFINE yes == TRUE
  <1>2. v \in Review
    BY <1>1 DEF Review
  <1>3. yes \in BOOLEAN
    OBVIOUS
  <1> HIDE DEF yes, v
  <1>4. [v EXCEPT !.downgraded = yes] \in Review /\ [v EXCEPT !.edited = yes] \in Review
    BY <1>2, <1>3 DEF Review
  <1>5. a \notin {"downgrade", "edit"} => Outcome[a] \in {"ACCEPTED", "REJECTED", "CHANGES_REQUESTED"}
    <2>1. a \in {"accept", "reject", "downgrade", "changes", "edit"}
      BY ConstantsAssumption
    <2>2. QED
      BY <2>1 DEF Outcome
  <1>6. a \notin {"downgrade", "edit"} => [v EXCEPT !.decision = Outcome[a]] \in Review
    BY <1>2, <1>5 DEF Review
  <1> DEFINE new == CASE a = "downgrade" -> [v EXCEPT !.downgraded = yes]
                      [] a = "edit" -> [v EXCEPT !.edited = yes]
                      [] OTHER -> [v EXCEPT !.decision = Outcome[a]]
  <1>7. new \in Review
    BY <1>4, <1>6
  <1>8. Decided(a, r, at) = [r EXCEPT !.review = new]
    BY DEF Decided, v, yes
  <1> HIDE DEF new
  <1>9. QED
    BY <1>7, <1>8 DEF Report

LEMMA LoadStep ==
  ASSUME IInv, NEW p \in People, NEW i \in Ids, NEW a \in Actions, Load(p, i, a)
  PROVE  IInv'
  <1>1. /\ report[i] # None /\ CheckBase(p, i) /\ person[p].pc \in {"arrived", "idle"} /\ decisions < MaxDecisions
        /\ decisions' = decisions + 1
        /\ UNCHANGED <<report, history, job, runs, agent, page, standing>>
    BY DEF Load
  <1> DEFINE yes == ~Live /\ ~agent["orphan"].up /\ \A o \in People : ~Deciding(o)
  <1> DEFINE new == Decided(a, report[i], decisions + 1)
  <1>2. person' = [q \in People |-> IF q = p THEN [pc |-> "write", id |-> i, next |-> new, clean |-> yes]
                                    ELSE [person[q] EXCEPT !.clean = FALSE]]
    BY DEF Load
  <1>3. report[i] \in Report /\ decisions + 1 \in 0..MaxDecisions
    BY <1>1, ReportsTyped DEF IInv, TypeOK
  <1>4. new \in Report /\ new.claim = report[i].claim /\ new # None
    BY <1>3, DecidedTyped, ReportTyped
  <1>5. yes \in BOOLEAN /\ (yes => ~Live /\ ~agent["orphan"].up /\ \A o \in People : ~Deciding(o))
    OBVIOUS
  <1> HIDE DEF yes, new
  <1>6. /\ person'[p] \in Person /\ person'[p].pc = "write" /\ person'[p].id = i /\ person'[p].next = new
        /\ person'[p].clean = yes
    BY <1>2, <1>4, <1>5 DEF Person
  <1>7. ASSUME NEW q \in People, q # p
        PROVE  /\ person'[q] \in Person /\ person'[q].pc = person[q].pc /\ person'[q].next = person[q].next
               /\ person'[q].clean = FALSE
    <2> DEFINE no == FALSE
    <2>1. person[q] \in Person /\ no \in BOOLEAN
      BY IInvTyped DEF Typed
    <2>2. person'[q] = [person[q] EXCEPT !.clean = no]
      BY <1>2, <1>7
    <2> HIDE DEF no
    <2>3. person'[q] \in Person /\ person'[q].pc = person[q].pc /\ person'[q].next = person[q].next
             /\ person'[q].clean = no
      BY <2>1, <2>2 DEF Person
    <2>4. QED
      BY <2>3 DEF no
  <1>8. \A q \in People : person'[q] \in Person
    BY <1>6, <1>7
  <1>9. person' \in [People -> Person]
    BY <1>2, <1>8
  <1>10. TypeOK'
    BY <1>1, <1>3, <1>9 DEF IInv, TypeOK
  <1>11. \A q \in People : q # p => (Deciding(q)' <=> Deciding(q))
    BY <1>7 DEF Deciding
  <1>12. PeopleKnow'
    <2>1. Deciding(p)' /\ person'[p].next # None
      BY <1>4, <1>6 DEF Deciding
    <2>2. yes => /\ ~Live' /\ ~agent'["orphan"].up /\ \A q \in People \ {p} : ~Deciding(q)'
      BY <1>1, <1>5, <1>11 DEF Live
    <2>3. p = "ui" => page' # None /\ page'.shown = report'[i]
      BY <1>1 DEF CheckBase
    <2>4. \A q \in People \ {p} : Deciding(q)' => person'[q].next # None
      BY <1>7, <1>11 DEF IInv, PeopleKnow
    <2>5. QED
      BY <1>1, <1>4, <1>6, <1>7, <2>1, <2>2, <2>3, <2>4 DEF PeopleKnow
  <1>13. \A q \in People : person[q].pc = "append" => person'[q].pc = "append" /\ person'[q].next = person[q].next
    BY <1>1, <1>7
  <1>14. \A q \in People : person'[q].pc = "append" => person[q].pc = "append" /\ person'[q].next = person[q].next
    BY <1>6, <1>7
  <1>15. QED
    BY <1>1, <1>10, <1>12, <1>13, <1>14, PeopleStep

\* Less is known than before, of no report or history that changed: what a job knows remains.
DarkStep ==
  /\ Darker(standing, standing') /\ Settles(Pending, Pending', standing')
  /\ UNCHANGED job /\ agent'["awaited"] = agent["awaited"]

LEMMA DarkWrite ==
  ASSUME IInv, DarkStep, UNCHANGED history, NEW n \in Ids, NEW new \in Report, report' = [report EXCEPT ![n] = new],
         Clouded(new.claim, standing'), report[n] # None => standing'[report[n].claim] = Doubtful
  PROVE  AgentWorks' /\ JobKnows'
  <1>1. report \in Reports /\ job.bugs \in Reports /\ job.fresh \in Reports /\ new.claim \in Claims
    BY ReportTyped DEF IInv, TypeOK, Job
  <1>2. standing'[new.claim] = Doubtful
    BY <1>1, CloudedIsDoubtful
  <1>3. report'[n] = new /\ \A i \in Ids : i # n => report'[i] = report[i]
    BY <1>1 DEF Reports
  <1>4. Darker(standing, standing') /\ Settles(Pending, Pending', standing') /\ job' = job
        /\ agent'["awaited"] = agent["awaited"]
    BY DEF DarkStep
  <1>5. ASSUME NEW h, Kept(report, h, standing, Pending)
        PROVE  Kept(report', h, standing', Pending')
    <2>1. Kept(report, h, standing', Pending')
      BY <1>1, <1>4, <1>5, KeptDarker
    <2>2. Kept([report EXCEPT ![n] = new], h, standing', Pending')
      BY <1>1, <1>2, <2>1, KeptOver
    <2>3. QED
      BY <2>2
  <1>6. Held(report, standing) => Held(report', standing')
    <2>1. Held(report, standing) => Held(report, standing')
      BY <1>4, HeldDarker
    <2>2. Held(report, standing') => Held([report EXCEPT ![n] = new], standing')
      BY <1>1, HeldOver
    <2>3. QED
      BY <2>1, <2>2
  <1>7. Fresh(report, standing) => Fresh(report', standing')
    <2>1. Fresh(report, standing) => Fresh(report, standing')
      BY <1>4, FreshDarker
    <2>2. Fresh(report, standing') => Fresh([report EXCEPT ![n] = new], standing')
      BY <1>1, FreshOver
    <2>3. QED
      BY <2>1, <2>2
  <1>8. job.kind = "refresh" => Kept(job.bugs, job.saved, standing', Pending') /\ Held(job.bugs, standing')
    BY <1>1, <1>4, KeptDarker, HeldDarker DEF IInv, JobKnows
  <1>9. job.pc = "carry" => Fresh(job.fresh, standing')
    BY <1>4, FreshDarker DEF IInv, JobKnows
  <1>10. ASSUME NEW i \in Ids, report'[i] # None, standing'[report'[i].claim] # Doubtful
         PROVE  /\ i # n /\ report'[i] = report[i] /\ report[i].claim \in Claims
                /\ standing'[report[i].claim] = standing[report[i].claim]
    <2>1. i # n /\ report'[i] = report[i]
      BY <1>2, <1>3, <1>10
    <2>2. report[i].claim \in Claims
      BY <1>1, <1>10, <2>1, ReportsTyped
    <2>3. QED
      BY <1>4, <1>10, <2>1, <2>2 DEF Darker
  <1>11. job.pc = "carry" => CarriedSoFar'
    BY <1>4, <1>10 DEF IInv, JobKnows, CarriedSoFar
  <1>12. job.pc = "restoreHistories" => Restored'
    <2>1. SUFFICES ASSUME Restored, NEW i \in Ids
                   PROVE  /\ report'[i] # None /\ standing'[report'[i].claim] # Doubtful => report'[i] = job.bugs[i]
                          /\ job.bugs[i] # None /\ standing'[job.bugs[i].claim] # Doubtful => report'[i] = job.bugs[i]
      BY <1>4 DEF IInv, JobKnows, Restored
    <2>2. report'[i] # None /\ standing'[report'[i].claim] # Doubtful => report'[i] = job.bugs[i]
      BY <1>10, <2>1 DEF Restored
    <2>3. ASSUME job.bugs[i] # None, standing'[job.bugs[i].claim] # Doubtful
          PROVE  report'[i] = job.bugs[i]
      <3>1. job.bugs[i].claim \in Claims
        BY <1>1, <2>3, ReportsTyped
      <3>2. standing[job.bugs[i].claim] # Doubtful
        BY <1>4, <2>3, <3>1 DEF Darker
      <3>3. report[i] = job.bugs[i]
        BY <2>1, <2>3, <3>2 DEF Restored
      <3>4. i # n
        BY <2>3, <3>3
      <3>5. QED
        BY <1>3, <3>3, <3>4
    <2>4. QED
      BY <2>2, <2>3
  <1>13. job.kind = "manual" => \A c \in Claims : standing'[c] \in {None, Doubtful}
    BY <1>4 DEF IInv, JobKnows, Darker
  <1>14. JobKnows'
    BY <1>4, <1>5, <1>6, <1>7, <1>8, <1>9, <1>11, <1>12, <1>13 DEF IInv, JobKnows, Regenerated
  <1>15. AgentWorks'
    <2> DEFINE me == agent["awaited"]
    <2>1. ASSUME NEW i \in 1..(me.next - 1), report'[i] # None, ~Clouded(report'[i].claim, standing')
          PROVE  i \in DOMAIN me.analysis /\ report'[i] = New(me.analysis[i])
      <3>1. i \in Ids
        BY IInvTyped DEF Typed, Analyzer, Ids
      <3>2. report'[i] = report[i]
        BY <1>3, <2>1, <3>1
      <3>3. ~Clouded(report[i].claim, standing)
        BY <1>4, <2>1, <3>2, CloudedDarker
      <3>4. QED
        BY <2>1, <3>2, <3>3 DEF IInv, AgentWorks
    <2>2. QED
      BY <1>4, <2>1 DEF IInv, AgentWorks
  <1>16. QED
    BY <1>14, <1>15

LEMMA DarkRecord ==
  ASSUME IInv, DarkStep, UNCHANGED report, NEW n \in Ids, NEW rounds,
         history' = [history EXCEPT ![n] = rounds] \/ history' = history,
         report[n] # None => standing'[report[n].claim] = Doubtful
  PROVE  AgentWorks' /\ JobKnows'
  <1>1. report \in Reports /\ job.bugs \in Reports /\ job.fresh \in Reports /\ history \in Histories
    BY DEF IInv, TypeOK, Job
  <1>2. Darker(standing, standing') /\ Settles(Pending, Pending', standing') /\ job' = job
        /\ agent'["awaited"] = agent["awaited"]
    BY DEF DarkStep
  <1>3. Kept(report, history, standing, Pending) => Kept(report, history', standing', Pending')
    <2>1. Kept(report, history, standing, Pending) => Kept(report, history, standing', Pending')
      BY <1>1, <1>2, KeptDarker
    <2>2. Kept(report, history, standing', Pending') => Kept(report, [history EXCEPT ![n] = rounds], standing', Pending')
      BY <1>1, KeptRecorded
    <2>3. QED
      BY <2>1, <2>2
  <1>4. /\ Held(report, standing) => Held(report, standing')
        /\ Fresh(report, standing) => Fresh(report, standing')
    BY <1>2, HeldDarker, FreshDarker
  <1>5. job.kind = "refresh" => Kept(job.bugs, job.saved, standing', Pending') /\ Held(job.bugs, standing')
    BY <1>1, <1>2, KeptDarker, HeldDarker DEF IInv, JobKnows
  <1>6. job.pc = "carry" => Fresh(job.fresh, standing')
    BY <1>2, FreshDarker DEF IInv, JobKnows
  <1>7. \A i \in Ids : report[i] # None /\ standing'[report[i].claim] # Doubtful =>
           standing'[report[i].claim] = standing[report[i].claim]
    BY <1>1, <1>2, ReportsTyped DEF Darker
  <1>8. \A i \in Ids : job.bugs[i] # None /\ standing'[job.bugs[i].claim] # Doubtful =>
           standing'[job.bugs[i].claim] = standing[job.bugs[i].claim]
    BY <1>1, <1>2, ReportsTyped DEF Darker
  <1>9. job.pc = "carry" => CarriedSoFar'
    BY <1>2, <1>7 DEF IInv, JobKnows, CarriedSoFar
  <1>10. job.pc = "restoreHistories" => Restored'
    BY <1>2, <1>7, <1>8 DEF IInv, JobKnows, Restored
  <1>11. job.kind = "manual" => \A c \in Claims : standing'[c] \in {None, Doubtful}
    BY <1>2 DEF IInv, JobKnows, Darker
  <1>12. JobKnows'
    BY <1>2, <1>3, <1>4, <1>5, <1>6, <1>9, <1>10, <1>11 DEF IInv, JobKnows, Regenerated
  <1>13. AgentWorks'
    BY <1>2, CloudedDarker DEF IInv, AgentWorks
  <1>14. QED
    BY <1>12, <1>13

LEMMA DecidingKnows ==
  ASSUME IInv, NEW p \in People, Deciding(p)
  PROVE  /\ person[p] \in Person /\ person[p].id \in Ids /\ person[p].next \in Report
         /\ person[p].next.claim \in Claims /\ person[p].next.review \in Review
  <1>1. person[p] \in Person /\ person[p].next # None
    BY IInvTyped DEF IInv, PeopleKnow, Typed
  <1>2. QED
    BY <1>1, ReportTyped DEF Person

\* The one who decides goes on; the others, whom nobody leaves undisturbed, do not move.
LEMMA PeopleKnowOn ==
  ASSUME IInv, NEW p \in People, Deciding(p), \A q \in People \ {p} : person'[q] = person[q],
         Deciding(p)' => person'[p].next # None,
         person'[p].clean =>
            /\ person[p].clean /\ Deciding(p)' /\ person'[p].pc = "append" /\ person'[p].next = person[p].next
            /\ job' = job /\ agent' = agent /\ report'[person'[p].id] = person'[p].next
  PROVE  PeopleKnow'
  <1>1. ASSUME NEW q \in People \ {p}
        PROVE  /\ (Deciding(q)' <=> Deciding(q)) /\ ~person'[q].clean
               /\ Deciding(q)' => person'[q].next # None
    BY OnlyOneClean DEF IInv, PeopleKnow, Deciding
  <1>2. ASSUME person'[p].clean
        PROVE  /\ ~Live' /\ ~agent'["orphan"].up /\ \A q \in People \ {p} : ~Deciding(q)'
               /\ report'[person'[p].id] # None /\ report'[person'[p].id].claim = person'[p].next.claim
    BY <1>1, <1>2 DEF IInv, PeopleKnow, Live
  <1>3. QED
    BY <1>1, <1>2 DEF PeopleKnow

LEMMA WriteStep ==
  ASSUME IInv, NEW p \in People, Write(p)
  PROVE  IInv'
  <1> DEFINE me == person[p]
  <1> DEFINE c == me.next.claim
  <1>1. /\ me.pc = "write" /\ report' = [report EXCEPT ![me.id] = me.next]
        /\ person' = [person EXCEPT ![p].pc = "append"]
        /\ page' = IF p = "ui" THEN None ELSE page
        /\ UNCHANGED <<history, job, runs, agent, decisions>>
    BY DEF Write
  <1>2. Deciding(p) /\ Live \in BOOLEAN
    BY <1>1 DEF Deciding, Live
  <1>3. me \in Person /\ me.id \in Ids /\ me.next \in Report /\ c \in Claims /\ me.next.review \in Review
    BY <1>2, DecidingKnows
  <1>4. TypeOK /\ report \in Reports /\ person \in [People -> Person]
           /\ standing \in [Claims -> Review \cup {None, Doubtful}]
    BY DEF IInv, TypeOK
  <1>5. /\ person'[p] \in Person /\ person'[p].pc = "append" /\ person'[p].next = me.next /\ person'[p].id = me.id
        /\ person'[p].clean = me.clean /\ \A q \in People \ {p} : person'[q] = person[q]
    BY <1>1, <1>3, <1>4 DEF Person
  <1>6. report'[me.id] = me.next /\ \A i \in Ids : i # me.id => report'[i] = report[i]
    BY <1>1, <1>3, <1>4 DEF Reports
  <1>7. PeopleKnow'
    <2>1. person'[p].next # None
      BY <1>3, <1>5, ReportTyped
    <2>2. QED
      BY <1>1, <1>2, <1>5, <1>6, <2>1, PeopleKnowOn DEF Deciding
  <1>8. Settles(Pending, Pending', standing')
    <2>1. \A q \in People : person[q].pc = "append" => person'[q].pc = "append" /\ person'[q].next = person[q].next
      BY <1>1, <1>5
    <2>2. QED
      BY <2>1, PendingStays
  <1>9. TypeOK' <=> standing' \in [Claims -> Review \cup {None, Doubtful}]
    <2>1. report' \in Reports
      BY <1>1, <1>3, <1>4 DEF Reports
    <2>2. person' \in [People -> Person]
      BY <1>1, <1>4, <1>5
    <2>3. page' = None \/ page' \in [id : Ids, shown : Report]
      BY <1>1, <1>4 DEF TypeOK
    <2>4. QED
      BY <1>1, <1>4, <2>1, <2>2, <2>3 DEF TypeOK
  <1> DEFINE alone == \A i \in Ids \ {me.id} : c \notin ClaimAt(report, i)
  <1>10. CASE me.clean /\ alone
    <2>1. standing' = [standing EXCEPT ![c] = me.next.review]
      BY <1>10 DEF Write
    <2>2. /\ standing'[c] = me.next.review /\ \A d \in Claims : d # c => standing'[d] = standing[d]
          /\ standing' \in [Claims -> Review \cup {None, Doubtful}]
      BY <1>3, <1>4, <2>1
    <2>3. ~Live /\ report[me.id] # None /\ report[me.id].claim = c
      BY <1>10 DEF IInv, PeopleKnow
    <2>4. job.pc = "idle" /\ job.kind = "none"
      BY <2>3 DEF Live, IInv, JobKnows
    <2>5. \A i \in Ids : i # me.id /\ report[i] # None => report[i].claim # c
      BY <1>10 DEF ClaimAt
    <2>6. Kept(report, history, standing, Pending) /\ Held(report, standing)
      BY <2>4 DEF IInv, JobKnows
    <2>7. c \in Pending'
      BY <1>5 DEF Pending
    <2>8. me.next.review # None /\ me.next.review # Doubtful
      BY <1>3
    <2>9. ASSUME NEW i \in Ids, report'[i] # None, standing'[report'[i].claim] # Doubtful
          PROVE  /\ RightReview(report'[i].review, standing'[report'[i].claim])
                 /\ standing'[report'[i].claim] # None /\ report'[i].claim \notin Pending' =>
                       history[i] # <<>> /\ Last(history[i]) = report'[i]
                 /\ \A j \in Ids \ {i} : report'[j] # None => report'[j].claim # report'[i].claim
      <3>1. CASE i = me.id
        <4>1. RightReview(me.next.review, standing'[c])
          BY <2>2, <2>8 DEF RightReview
        <4>2. QED
          BY <1>6, <2>5, <2>7, <3>1, <4>1
      <3>2. CASE i # me.id
        <4>1. report'[i] = report[i] /\ report[i].claim # c /\ report[i].claim \in Claims
          BY <1>4, <1>6, <2>5, <2>9, <3>2, ReportsTyped
        <4>2. standing'[report[i].claim] = standing[report[i].claim]
          BY <2>2, <4>1
        <4>3. report[i].claim \in Pending => report[i].claim \in Pending'
          BY <1>8, <2>9, <4>1 DEF Settles
        <4>4. \A j \in Ids \ {i} : report'[j] # None => report'[j].claim # report[i].claim
          BY <1>6, <2>6, <2>9, <4>1, <4>2 DEF Kept
        <4>5. QED
          BY <2>6, <2>9, <4>1, <4>2, <4>3, <4>4 DEF Kept
      <3>3. QED
        BY <3>1, <3>2
    <2>10. Kept(report', history', standing', Pending')
      BY <1>1, <2>9 DEF Kept
    <2>11. Held(report', standing')
      <3>1. ASSUME NEW d \in Claims, standing'[d] \notin {None, Doubtful}
            PROVE  \E i \in Ids : report'[i] # None /\ report'[i].claim = d
        <4>1. CASE d = c
          BY <1>3, <1>6, <4>1, ReportTyped
        <4>2. CASE d # c
          <5>1. PICK i \in Ids : report[i] # None /\ report[i].claim = d
            BY <2>2, <2>6, <3>1, <4>2 DEF Held
          <5>2. i # me.id
            BY <2>3, <4>2, <5>1
          <5>3. QED
            BY <1>6, <5>1, <5>2
        <4>3. QED
          BY <4>1, <4>2
      <3>2. QED
        BY <3>1 DEF Held
    <2>12. JobKnows'
      BY <1>1, <2>4, <2>10, <2>11 DEF JobKnows, Regenerated
    <2>13. AgentWorks'
      BY <1>1, <2>4, IInvTyped DEF IInv, AgentWorks, Typed, Analyzer
    <2>14. QED
      BY <1>7, <1>9, <2>2, <2>12, <2>13 DEF IInv
  <1>11. CASE ~(me.clean /\ alone)
    <2> DEFINE cs == Mates(c) \cup ClaimAt(report, me.id)
    <2>1. standing' = Doubt(cs)
      BY <1>11 DEF Write
    <2>2. Darker(standing, standing') /\ (\A d \in Claims : d \in cs => standing'[d] = Doubtful)
          /\ standing' \in [Claims -> Review \cup {None, Doubtful}]
      BY <1>4, <2>1, DoubtDarkens, DoubtTyped
    <2>3. Clouded(c, standing')
      BY <2>2 DEF Clouded, Mates
    <2>4. report[me.id] # None => standing'[report[me.id].claim] = Doubtful
      <3>1. report[me.id] # None => report[me.id].claim \in Claims /\ report[me.id].claim \in cs
        BY <1>3, <1>4, ReportsTyped DEF ClaimAt
      <3>2. QED
        BY <2>2, <3>1
    <2>5. DarkStep
      BY <1>1, <1>8, <2>2 DEF DarkStep
    <2>6. AgentWorks' /\ JobKnows'
      BY <1>1, <1>3, <2>3, <2>4, <2>5, DarkWrite
    <2>7. QED
      BY <1>7, <1>9, <2>2, <2>6 DEF IInv
  <1>12. QED
    BY <1>10, <1>11

\* Who was to append to a history is done with it.
LEMMA ActEnds ==
  ASSUME IInv, NEW p \in People, person[p].pc = "append", person' = [person EXCEPT ![p] = NoAct]
  PROVE  /\ person' \in [People -> Person] /\ person'[p] = NoAct /\ \A q \in People \ {p} : person'[q] = person[q]
         /\ PeopleKnow'
  <1>1. person \in [People -> Person]
    BY DEF IInv, TypeOK
  <1>2. person' \in [People -> Person] /\ person'[p] = NoAct /\ \A q \in People \ {p} : person'[q] = person[q]
    BY <1>1, NoActTyped
  <1>3. Deciding(p) /\ ~Deciding(p)' /\ ~person'[p].clean
    BY <1>2, NoActTyped DEF Deciding
  <1>4. PeopleKnow'
    BY <1>2, <1>3, PeopleKnowOn
  <1>5. QED
    BY <1>2, <1>4

\* Something overlapped the decision: nothing is known any more of it and of the report it met.
LEMMA OverlappedActEnds ==
  ASSUME IInv, NEW p \in People, person[p].pc = "append", person' = [person EXCEPT ![p] = NoAct],
         UNCHANGED <<report, job, runs, agent, page, decisions>>,
         history' \in Histories,
         history' = [history EXCEPT ![person[p].id] = Append(@, person[p].next)] \/ history' = history,
         standing' = Doubt({person[p].next.claim} \cup ClaimAt(report, person[p].id))
  PROVE  IInv'
  <1> DEFINE me == person[p]
  <1> DEFINE cs == {me.next.claim} \cup ClaimAt(report, me.id)
  <1>1. Deciding(p)
    BY DEF Deciding
  <1>2. me.id \in Ids /\ me.next.claim \in Claims
    BY <1>1, DecidingKnows
  <1>3. TypeOK /\ report \in Reports
    BY DEF IInv, TypeOK
  <1>4. person' \in [People -> Person] /\ (\A q \in People \ {p} : person'[q] = person[q]) /\ PeopleKnow'
    BY ActEnds
  <1>5. Darker(standing, standing') /\ (\A d \in Claims : d \in cs => standing'[d] = Doubtful)
        /\ standing' \in [Claims -> Review \cup {None, Doubtful}]
    BY <1>3, DoubtDarkens, DoubtTyped
  <1>6. TypeOK'
    BY <1>3, <1>4, <1>5 DEF TypeOK
  <1>7. standing'[me.next.claim] = Doubtful
    BY <1>2, <1>5
  <1>8. Settles(Pending, Pending', standing')
    BY <1>4, <1>7, PendingSettles
  <1>9. DarkStep
    BY <1>5, <1>8 DEF DarkStep
  <1>10. report[me.id] # None => standing'[report[me.id].claim] = Doubtful
    <2>1. report[me.id] # None => report[me.id].claim \in Claims /\ report[me.id].claim \in cs
      BY <1>2, <1>3, ReportsTyped DEF ClaimAt
    <2>2. QED
      BY <1>5, <2>1
  <1> DEFINE rounds == Append(history[me.id], me.next)
  <1>11. history' = [history EXCEPT ![me.id] = rounds] \/ history' = history
    OBVIOUS
  <1> HIDE DEF me, rounds
  <1>12. AgentWorks' /\ JobKnows'
    BY <1>2, <1>9, <1>10, <1>11, DarkRecord
  <1>13. QED
    BY <1>4, <1>6, <1>12 DEF IInv

LEMMA RecordStep ==
  ASSUME IInv, NEW p \in People, Record(p)
  PROVE  IInv'
  <1> DEFINE me == person[p]
  <1> DEFINE c == me.next.claim
  <1>1. /\ me.pc = "append" /\ history' = [history EXCEPT ![me.id] = Append(@, me.next)]
        /\ person' = [person EXCEPT ![p] = NoAct]
        /\ UNCHANGED <<report, job, runs, agent, page, decisions>>
    BY DEF Record
  <1>2. me.id \in Ids /\ me.next \in Report
    BY <1>1, DecidingKnows DEF Deciding
  <1>3. history \in Histories /\ TypeOK
    BY DEF IInv, TypeOK
  <1>4. /\ history'[me.id] = Append(history[me.id], me.next) /\ history[me.id] \in Seq(Report)
        /\ \A i \in Ids : i # me.id => history'[i] = history[i]
    BY <1>1, <1>2, <1>3 DEF Histories
  <1>5. history'[me.id] \in Seq(Report) /\ history'[me.id] # <<>> /\ Last(history'[me.id]) = me.next
    BY <1>2, <1>4 DEF Last
  <1>6. history' \in Histories
    BY <1>1, <1>3, <1>5 DEF Histories
  <1>7. CASE ~me.clean
    <2>1. standing' = Doubt({me.next.claim} \cup ClaimAt(report, me.id))
      BY <1>7 DEF Record
    <2>2. QED
      BY <1>1, <1>6, <2>1, OverlappedActEnds
  <1>8. CASE me.clean
    <2>1. standing' = standing
      BY <1>8 DEF Record
    <2>2. ~Live /\ report[me.id] = me.next /\ \A q \in People \ {p} : ~Deciding(q)
      BY <1>1, <1>8 DEF IInv, PeopleKnow
    <2>3. job.pc = "idle" /\ job.kind = "none"
      BY <2>2 DEF Live, IInv, JobKnows
    <2>4. Kept(report, history, standing, Pending) /\ Held(report, standing)
      BY <2>3 DEF IInv, JobKnows
    <2>5. \A d \in Pending : d = c
      BY <2>2 DEF Pending, Deciding
    <2>6. person' \in [People -> Person] /\ PeopleKnow'
      BY <1>1, ActEnds
    <2>7. ASSUME NEW i \in Ids, report[i] # None, standing[report[i].claim] # Doubtful
          PROVE  /\ RightReview(report[i].review, standing[report[i].claim])
                 /\ standing[report[i].claim] # None => history'[i] # <<>> /\ Last(history'[i]) = report[i]
                 /\ \A j \in Ids \ {i} : report[j] # None => report[j].claim # report[i].claim
      <3>1. CASE i = me.id
        BY <1>5, <2>2, <2>4, <2>7, <3>1 DEF Kept
      <3>2. CASE i # me.id
        <4>1. report[i].claim # c
          BY <1>2, <2>2, <2>4, <2>7, <3>2, ReportTyped DEF Kept
        <4>2. report[i].claim \notin Pending
          BY <2>5, <4>1
        <4>3. QED
          BY <1>4, <2>4, <2>7, <3>2, <4>2 DEF Kept
      <3>3. QED
        BY <3>1, <3>2
    <2>8. Kept(report, history', standing, Pending')
      BY <2>7 DEF Kept
    <2>9. JobKnows'
      BY <1>1, <2>1, <2>3, <2>4, <2>8 DEF JobKnows, Regenerated
    <2>10. AgentWorks'
      BY <1>1, <2>1 DEF IInv, AgentWorks
    <2>11. TypeOK'
      BY <1>1, <1>3, <1>6, <2>1, <2>6 DEF TypeOK
    <2>12. QED
      BY <2>6, <2>9, <2>10, <2>11 DEF IInv
  <1>9. QED
    BY <1>7, <1>8

LEMMA LoseEventStep ==
  ASSUME IInv, NEW p \in People, LoseEvent(p)
  PROVE  IInv'
  <1>1. /\ person[p].pc = "append" /\ person' = [person EXCEPT ![p] = NoAct]
        /\ standing' = Doubt({person[p].next.claim} \cup ClaimAt(report, person[p].id))
        /\ UNCHANGED <<report, history, job, runs, agent, page, decisions>>
    BY DEF LoseEvent
  <1>2. history' \in Histories
    BY <1>1 DEF IInv, TypeOK
  <1>3. QED
    BY <1>1, <1>2, OverlappedActEnds

-----------------------------------------------------------------------------
(* The analyzer. *)

\* A step of a job or of its analyzer: nobody decides undisturbed.
LEMMA Disturbed ==
  ASSUME IInv, \A q \in People : person'[q].pc = person[q].pc /\ person'[q].next = person[q].next
            /\ ~person'[q].clean
  PROVE  PeopleKnow' /\ Pending' = Pending
  <1>1. Pending' = Pending
    BY DEF Pending
  <1>2. QED
    BY <1>1 DEF IInv, PeopleKnow, Deciding

LEMMA JobGoesOn ==
  ASSUME IInv, Live, person' = person
  PROVE  PeopleKnow' /\ Pending' = Pending
  BY LiveMeansNobodyClean, Disturbed

\* The job that is at work is a refresh, unless it awaits its analyzer.
LEMMA RefreshIs ==
  ASSUME IInv, job.pc \notin {"idle", "agent"}
  PROVE  /\ job.kind = "refresh" /\ Live
         /\ agent["awaited"].up = FALSE /\ agent["awaited"].next = 0
         /\ Kept(job.bugs, job.saved, standing, Pending) /\ Held(job.bugs, standing)
  <1>1. job \in Job
    BY DEF IInv, TypeOK
  <1>2. job.kind = "refresh"
    BY <1>1 DEF IInv, JobKnows, Job
  <1>3. agent["awaited"].up = FALSE /\ agent["awaited"].next = 0
    BY IInvTyped DEF Typed, Analyzer, IInv, AgentWorks
  <1>4. QED
    BY <1>2, <1>3 DEF IInv, JobKnows, Live

LEMMA NoAgentTyped ==
  /\ NoAgent \in Analyzer /\ NoAgent.up = FALSE /\ NoAgent.next = 0
  /\ [NoAgent EXCEPT !.up = TRUE] \in Analyzer /\ [NoAgent EXCEPT !.up = TRUE].up = TRUE
  /\ [NoAgent EXCEPT !.up = TRUE].next = 0
  <1>1. <<>> \in Seq(Claims) /\ 0 \in 0..MaxBugs
    OBVIOUS
  <1>2. NoAgent \in Analyzer
    BY <1>1 DEF NoAgent, Analyzer
  <1> DEFINE yes == TRUE
  <1>3. yes \in BOOLEAN /\ yes
    OBVIOUS
  <1> HIDE DEF yes
  <1>4. /\ [NoAgent EXCEPT !.up = yes] \in Analyzer /\ [NoAgent EXCEPT !.up = yes].up = yes
        /\ [NoAgent EXCEPT !.up = yes].next = 0
    BY <1>1, <1>3 DEF NoAgent, Analyzer
  <1>5. QED
    BY <1>2, <1>3, <1>4 DEF NoAgent, yes

\* No analyzer is awaited.
LEMMA NobodyWorks ==
  ASSUME agent'["awaited"].up = FALSE, agent'["awaited"].next = 0
  PROVE  AgentWorks'
  BY DEF AgentWorks

LEMMA AnalysesTyped ==
  ASSUME NEW s \in Analyses
  PROVE  /\ s \in Seq(Claims)
         /\ \A i, j \in DOMAIN s : KeyOf[s[i]] = KeyOf[s[j]] => i = j
         /\ \A i \in DOMAIN s : s[i] \in Claims /\ New(s[i]) \in Report /\ New(s[i]).claim = s[i]
  <1>1. s \in BoundedSeq(Claims, MaxBugs) /\ \A i, j \in DOMAIN s : KeyOf[s[i]] = KeyOf[s[j]] => i = j
    BY DEF Analyses
  <1>2. s \in Seq(Claims)
    <2>1. PICK n \in 0..MaxBugs : s \in [1..n -> Claims]
      BY <1>1 DEF BoundedSeq, SeqOf
    <2>2. QED
      BY <2>1
  <1>3. Undecided \in Review
    BY DEF Undecided, Review
  <1>4. ASSUME NEW i \in DOMAIN s
        PROVE  s[i] \in Claims
    BY <1>2
  <1>5. QED
    BY <1>1, <1>2, <1>3, <1>4 DEF New, Report

LEMMA AnalyzeStep ==
  ASSUME IInv, NEW k \in {"awaited", "orphan"}, Analyze(k)
  PROVE  IInv'
  <1>1. PICK s \in Analyses : agent' = [agent EXCEPT ![k].analysis = s, ![k].next = 1]
    BY DEF Analyze
  <1>2. /\ agent[k].up /\ ~(k = "awaited" /\ job.wrote)
        /\ UNCHANGED <<report, history, job, runs, person, page, decisions, standing>>
    BY DEF Analyze
  <1>3. s \in Seq(Claims)
    BY AnalysesTyped
  <1>4. agent \in [{"awaited", "orphan"} -> Analyzer] /\ agent[k] \in Analyzer /\ TypeOK
    BY DEF IInv, TypeOK
  <1>5. PICK one : one = 1 /\ one \in 0..MaxBugs
    OBVIOUS
  <1>6. /\ agent'[k] = [agent[k] EXCEPT !.analysis = s, !.next = one]
        /\ \A x \in {"awaited", "orphan"} : x # k => agent'[x] = agent[x]
    BY <1>1, <1>4, <1>5
  <1>7. /\ agent'[k] \in Analyzer /\ agent'[k].up = agent[k].up /\ agent'[k].analysis = s /\ agent'[k].next = one
    BY <1>3, <1>4, <1>5, <1>6 DEF Analyzer
  <1>8. agent' \in [{"awaited", "orphan"} -> Analyzer]
    BY <1>1, <1>4, <1>7
  <1>9. TypeOK'
    BY <1>2, <1>4, <1>8 DEF TypeOK
  <1>10. CASE k = "orphan"
    <2>1. agent'["awaited"] = agent["awaited"] /\ agent'["orphan"].up = agent["orphan"].up
      BY <1>6, <1>7, <1>10
    <2>2. PeopleKnow'
      BY <1>2, <2>1 DEF IInv, PeopleKnow, Deciding, Live
    <2>3. QED
      BY <1>2, <1>9, <2>1, <2>2, PeopleStep
  <1>11. CASE k = "awaited"
    <2>1. job.pc = "agent" /\ ~job.wrote /\ Live
      BY <1>2, <1>11 DEF IInv, AgentWorks, Live
    <2>2. PeopleKnow' /\ Pending' = Pending
      BY <1>2, <2>1, JobGoesOn
    <2>3. agent'["awaited"].up /\ agent'["awaited"].next = 1 /\ agent'["awaited"].analysis = s
      BY <1>2, <1>5, <1>7, <1>11
    <2>4. AgentWorks'
      BY <1>2, <2>1, <2>3 DEF AgentWorks
    <2>5. ~Regenerated'
      BY <1>2, <2>1, <2>3 DEF Regenerated
    <2>6. JobKnows'
      BY <1>2, <2>1, <2>2, <2>5 DEF IInv, JobKnows
    <2>7. QED
      BY <1>9, <2>2, <2>4, <2>6 DEF IInv
  <1>12. QED
    BY <1>10, <1>11

\* Nothing is known of any decision: all there is to show is which job there is.
LEMMA NothingKnown ==
  ASSUME IInv, TypeOK', \A c \in Claims : standing'[c] = Doubtful, job' = job \/ job' = NoJob
  PROVE  JobKnows'
  <1>1. job' \in Job /\ report' \in Reports
    BY DEF TypeOK
  <1>2. \A h, pending : Kept(report', h, standing', pending) /\ Held(report', standing')
           /\ Fresh(report', standing')
    BY <1>1, AllDoubtful
  <1>3. CASE job' = NoJob
    BY <1>2, <1>3 DEF JobKnows, NoJob, Regenerated
  <1>4. CASE job' = job
    <2>1. job.bugs \in Reports /\ job.fresh \in Reports
      BY DEF IInv, TypeOK, Job
    <2>2. /\ \A h, pending : Kept(job.bugs, h, standing', pending) /\ Held(job.bugs, standing')
          /\ Fresh(job.fresh, standing')
      BY <2>1, AllDoubtful
    <2>3. /\ \A i \in Ids : report'[i] # None => standing'[report'[i].claim] = Doubtful
          /\ \A i \in Ids : job.bugs[i] # None => standing'[job.bugs[i].claim] = Doubtful
      BY <1>1, <2>1, ReportsTyped
    <2>4. CarriedSoFar' /\ Restored'
      BY <1>4, <2>3 DEF CarriedSoFar, Restored
    <2>5. QED
      BY <1>2, <1>4, <2>2, <2>4 DEF IInv, JobKnows
  <1>5. QED
    BY <1>3, <1>4

LEMMA WriteTyped ==
  ASSUME IInv, NEW k \in {"awaited", "orphan"}, WriteBugReports(k)
  PROVE  /\ agent[k] \in Analyzer /\ agent[k].next \in Ids /\ agent[k].up
         /\ report' \in Reports /\ job' \in Job /\ agent' \in [{"awaited", "orphan"} -> Analyzer]
         /\ \A x \in {"awaited", "orphan"} : x # k => agent'[x] = agent[x]
         /\ k = "orphan" => job' = job
  <1> DEFINE me == agent[k]
  <1> DEFINE i == me.next
  <1>1. me \in Analyzer /\ report \in Reports /\ job \in Job /\ agent \in [{"awaited", "orphan"} -> Analyzer]
    BY IInvTyped DEF IInv, TypeOK, Typed
  <1>2. me.up /\ i \in Ids
    BY DEF WriteBugReports
  <1>3. me.analysis \in Seq(Claims)
    BY <1>1 DEF Analyzer
  <1>4. \A x \in DOMAIN me.analysis : New(me.analysis[x]) \in Report
    <2>1. Undecided \in Review
      BY DEF Undecided, Review
    <2>2. \A x \in DOMAIN me.analysis : me.analysis[x] \in Claims
      BY <1>3
    <2>3. QED
      BY <2>1, <2>2 DEF New, Report
  <1>5. report' \in Reports
    <2>1. report' = [report EXCEPT ![i] = IF i \in DOMAIN me.analysis THEN New(me.analysis[i]) ELSE None]
      BY DEF WriteBugReports
    <2>2. QED
      BY <1>1, <1>2, <1>4, <2>1 DEF Reports
  <1>6. CASE i = MaxBugs
    <2> DEFINE isAwaited == k = "awaited"
    <2>1. isAwaited \in BOOLEAN /\ (isAwaited <=> k = "awaited")
      OBVIOUS
    <2>2. agent' = [agent EXCEPT ![k] = [NoAgent EXCEPT !.up = isAwaited]]
      BY <1>6 DEF WriteBugReports
    <2>3. job' = IF k = "awaited" THEN [job EXCEPT !.wrote = TRUE] ELSE job
      BY <1>6 DEF WriteBugReports
    <2> HIDE DEF isAwaited
    <2>4. [NoAgent EXCEPT !.up = isAwaited] \in Analyzer
      BY <2>1, NoAgentTyped DEF Analyzer
    <2>5. job' \in Job
      BY <1>1, <2>3 DEF Job
    <2>6. QED
      BY <1>1, <1>2, <1>5, <2>2, <2>3, <2>4, <2>5
  <1>7. CASE i # MaxBugs
    <2>1. agent' = [agent EXCEPT ![k].next = i + 1] /\ job' = job
      BY <1>7 DEF WriteBugReports
    <2>2. PICK next : next = i + 1 /\ next \in 0..MaxBugs
      BY <1>2, <1>7 DEF Ids
    <2>3. agent'[k] = [agent[k] EXCEPT !.next = next]
      BY <1>1, <2>1, <2>2
    <2>4. agent'[k] \in Analyzer
      BY <1>1, <2>2, <2>3 DEF Analyzer
    <2>5. QED
      BY <1>1, <1>2, <1>5, <2>1, <2>4
  <1>8. QED
    BY <1>6, <1>7

LEMMA WriteReportStep ==
  ASSUME IInv, WriteBugReports("awaited")
  PROVE  IInv'
  <1> DEFINE me == agent["awaited"]
  <1> DEFINE n == me.next
  <1>1. /\ me.up /\ n \in Ids
        /\ report' = [report EXCEPT ![n] = IF n \in DOMAIN me.analysis THEN New(me.analysis[n]) ELSE None]
        /\ standing' = standing
        /\ UNCHANGED <<history, runs, person, page, decisions>>
    BY DEF WriteBugReports
  <1>2. TypeOK /\ me \in Analyzer /\ report \in Reports
    BY IInvTyped DEF IInv, TypeOK, Typed
  <1>3. TypeOK'
    BY <1>1, <1>2, WriteTyped DEF TypeOK
  <1>4. job.pc = "agent" /\ ~job.wrote /\ me.analysis \in Analyses /\ Live
    <2>1. me.next # 0
      BY <1>1 DEF Ids
    <2>2. QED
      BY <1>1, <2>1 DEF IInv, AgentWorks, Live
  <1>5. PeopleKnow' /\ Pending' = Pending
    BY <1>1, <1>4, JobGoesOn
  <1>6. /\ report'[n] # None => n \in DOMAIN me.analysis /\ report'[n] = New(me.analysis[n])
        /\ \A i \in Ids : i # n => report'[i] = report[i]
    BY <1>1, <1>2 DEF Reports
  <1>7. \A i \in 1..n :
           report'[i] # None /\ ~Clouded(report'[i].claim, standing) => i \in DOMAIN me.analysis
              /\ report'[i] = New(me.analysis[i])
    <2>1. SUFFICES ASSUME NEW i \in 1..n, report'[i] # None, ~Clouded(report'[i].claim, standing)
                   PROVE  i \in DOMAIN me.analysis /\ report'[i] = New(me.analysis[i])
      OBVIOUS
    <2>2. CASE i = n
      BY <1>6, <2>1, <2>2
    <2>3. CASE i # n
      <3>1. i \in 1..(n - 1) /\ i \in Ids
        BY <1>1, <2>1, <2>3 DEF Ids
      <3>2. report'[i] = report[i]
        BY <1>6, <2>3, <3>1
      <3>3. QED
        BY <2>1, <3>1, <3>2 DEF IInv, AgentWorks
    <2>4. QED
      BY <2>2, <2>3
  <1>8. job.kind \in {"refresh", "manual"} /\ job.next = 1
    <2>1. job.kind \in {"none", "refresh", "manual"}
      BY DEF IInv, TypeOK, Job
    <2>2. QED
      BY <1>4, <2>1 DEF IInv, JobKnows
  <1>9. /\ job.kind = "refresh" => Kept(job.bugs, job.saved, standing, Pending) /\ Held(job.bugs, standing)
        /\ job.kind = "manual" => \A c \in Claims : standing[c] \in {None, Doubtful}
    BY DEF IInv, JobKnows
  <1>10. CASE n = MaxBugs
    <2>1. agent'["awaited"] = [NoAgent EXCEPT !.up = TRUE]
      BY <1>2, <1>10 DEF WriteBugReports, TypeOK
    <2>2. agent'["awaited"].up /\ agent'["awaited"].next = 0
      BY <2>1, NoAgentTyped
    <2>3. job' = [job EXCEPT !.wrote = TRUE]
      BY <1>10 DEF WriteBugReports
    <2>4. job'.pc = "agent" /\ job'.kind = job.kind /\ job'.next = 1 /\ job'.bugs = job.bugs
             /\ job'.saved = job.saved
      BY <1>2, <1>4, <1>8, <2>3 DEF TypeOK, Job
    <2>5. AgentWorks'
      BY <2>2, <2>4 DEF AgentWorks
    <2>6. ASSUME NEW i \in Ids, report'[i] # None, ~Clouded(report'[i].claim, standing)
          PROVE  /\ report'[i].review = Undecided
                 /\ \A j \in Ids \ {i} : report'[j] # None => KeyOf[report'[j].claim] # KeyOf[report'[i].claim]
      <3>1. i \in DOMAIN me.analysis /\ report'[i] = New(me.analysis[i])
        BY <1>7, <1>10, <2>6 DEF Ids
      <3>2. report'[i].review = Undecided /\ report'[i].claim = me.analysis[i]
        BY <3>1 DEF New
      <3>3. ASSUME NEW j \in Ids \ {i}, report'[j] # None, KeyOf[report'[j].claim] = KeyOf[report'[i].claim]
            PROVE  FALSE
        <4>1. ~Clouded(report'[j].claim, standing)
          BY <2>6, <3>3, CloudedMates
        <4>2. j \in DOMAIN me.analysis /\ report'[j] = New(me.analysis[j])
          BY <1>7, <1>10, <3>3, <4>1 DEF Ids
        <4>3. report'[j].claim = me.analysis[j]
          BY <4>2 DEF New
        <4>4. QED
          BY <1>4, <3>1, <3>2, <3>3, <4>2, <4>3, AnalysesTyped
      <3>4. QED
        BY <3>2, <3>3
    <2>7. Fresh(report', standing')
      BY <1>1, <2>6 DEF Fresh
    <2>8. JobKnows'
      BY <1>1, <1>5, <1>8, <1>9, <2>4, <2>7 DEF JobKnows
    <2>9. QED
      BY <1>3, <1>5, <2>5, <2>8 DEF IInv
  <1>11. CASE n # MaxBugs
    <2>1. agent' = [agent EXCEPT !["awaited"].next = n + 1] /\ job' = job
      BY <1>11 DEF WriteBugReports
    <2>2. PICK next : next = n + 1 /\ next # 0 /\ next - 1 = n
      BY <1>1 DEF Ids
    <2>3. agent'["awaited"] = [me EXCEPT !.next = next]
      BY <1>2, <2>1, <2>2 DEF TypeOK
    <2>4. /\ agent'["awaited"].up = me.up /\ agent'["awaited"].analysis = me.analysis
          /\ agent'["awaited"].next # 0 /\ agent'["awaited"].next - 1 = n
      BY <1>2, <2>2, <2>3 DEF Analyzer
    <2>5. AgentWorks'
      BY <1>1, <1>4, <1>7, <2>1, <2>4 DEF AgentWorks
    <2>6. ~Regenerated'
      BY <1>4, <2>1, <2>4 DEF Regenerated
    <2>7. JobKnows'
      BY <1>1, <1>4, <1>5, <1>8, <1>9, <2>1, <2>6 DEF JobKnows
    <2>8. QED
      BY <1>3, <1>5, <2>5, <2>7 DEF IInv
  <1>12. QED
    BY <1>10, <1>11

LEMMA OrphanWritesStep ==
  ASSUME IInv, WriteBugReports("orphan")
  PROVE  IInv'
  <1>1. /\ agent["orphan"].up /\ standing' = Doubt(Claims)
        /\ UNCHANGED <<history, runs, person, page, decisions>>
    BY DEF WriteBugReports
  <1>2. /\ report' \in Reports /\ job' = job /\ agent' \in [{"awaited", "orphan"} -> Analyzer]
        /\ agent'["awaited"] = agent["awaited"]
    BY WriteTyped
  <1>3. TypeOK /\ standing' \in [Claims -> Review \cup {None, Doubtful}]
    BY <1>1, DoubtTyped DEF IInv
  <1>4. TypeOK'
    BY <1>1, <1>2, <1>3 DEF TypeOK
  <1>5. \A c \in Claims : standing'[c] = Doubtful
    BY <1>1, DoubtDarkens
  <1>6. JobKnows'
    BY <1>2, <1>4, <1>5, NothingKnown
  <1>7. \A i \in Ids : report'[i] # None => Clouded(report'[i].claim, standing')
    BY <1>2, <1>5 DEF Clouded, Mates
  <1>8. AgentWorks'
    <2>1. \A i \in 1..(agent["awaited"].next - 1) : i \in Ids
      BY IInvTyped DEF Typed, Analyzer, Ids
    <2>2. QED
      BY <1>2, <1>7, <2>1 DEF IInv, AgentWorks
  <1>9. \A q \in People : ~person[q].clean
    BY <1>1 DEF IInv, PeopleKnow
  <1>10. PeopleKnow'
    BY <1>1, <1>9, Disturbed
  <1>11. QED
    BY <1>4, <1>6, <1>8, <1>10 DEF IInv

LEMMA OrphanEndsStep ==
  ASSUME IInv, OrphanEnds
  PROVE  IInv'
  <1>1. agent' = [agent EXCEPT !["orphan"] = NoAgent]
        /\ UNCHANGED <<report, history, job, runs, person, page, decisions, standing>>
    BY DEF OrphanEnds
  <1>2. agent \in [{"awaited", "orphan"} -> Analyzer] /\ TypeOK
    BY DEF IInv, TypeOK
  <1>3. /\ agent' \in [{"awaited", "orphan"} -> Analyzer] /\ agent'["awaited"] = agent["awaited"]
        /\ agent'["orphan"].up = FALSE
    BY <1>1, <1>2, NoAgentTyped
  <1>4. TypeOK'
    BY <1>1, <1>2, <1>3 DEF TypeOK
  <1>5. PeopleKnow'
    BY <1>1, <1>3 DEF IInv, PeopleKnow, Deciding, Live
  <1>6. QED
    BY <1>1, <1>3, <1>4, <1>5, PeopleStep

-----------------------------------------------------------------------------
(* The jobs. *)

LEMMA NoJobTyped == NoJob \in Job /\ NoJob.pc = "idle" /\ NoJob.kind = "none" /\ NoJob.wrote = FALSE
   /\ NoJob.next = 1
  <1>1. Nothing \in Reports
    BY DEF Nothing, Reports
  <1>2. NoHistory \in Histories
    <2>1. <<>> \in Seq(Report)
      OBVIOUS
    <2>2. QED
      BY <2>1 DEF NoHistory, Histories
  <1>3. PICK one : one = 1 /\ one \in 1..(MaxBugs + 1)
    OBVIOUS
  <1>4. QED
    BY <1>1, <1>2, <1>3 DEF NoJob, Job

LEMMA JobTyped ==
  ASSUME IInv
  PROVE  /\ job \in Job /\ job.bugs \in Reports /\ job.saved \in Histories /\ job.fresh \in Reports
         /\ job.old \in Histories /\ job.carried \in Histories /\ job.next \in 1..(MaxBugs + 1)
         /\ report \in Reports /\ history \in Histories
  BY DEF IInv, TypeOK, Job

LEMMA FailedTyped ==
  ASSUME IInv
  PROVE  /\ Failed \in Job /\ Failed.pc = "restoreBugs" /\ Failed.kind = "refresh" /\ Failed.wrote = FALSE
         /\ Failed.bugs = job.bugs /\ Failed.saved = job.saved
  BY NoJobTyped, JobTyped DEF Failed, Job, JobSteps

\* A refresh that has failed has its snapshot to restore.
LEMMA FailedKnows ==
  ASSUME IInv, job.kind = "refresh", job' = Failed, UNCHANGED <<report, history, standing, person>>
  PROVE  JobKnows' /\ PeopleKnow'
  <1>1. Live
    BY DEF IInv, JobKnows, Live
  <1>2. PeopleKnow' /\ Pending' = Pending
    BY <1>1, JobGoesOn
  <1>3. Kept(job.bugs, job.saved, standing, Pending) /\ Held(job.bugs, standing)
    BY DEF IInv, JobKnows
  <1>4. JobKnows'
    BY <1>2, <1>3, FailedTyped DEF JobKnows, Regenerated
  <1>5. QED
    BY <1>2, <1>4

LEMMA InterruptedTyped ==
  ASSUME IInv, person' = Interrupted
  PROVE  person' \in [People -> Person] /\ PeopleKnow' /\ Pending' = Pending
  <1> DEFINE no == FALSE
  <1>1. no \in BOOLEAN /\ ~no /\ \A q \in People : person[q] \in Person
    BY IInvTyped DEF Typed
  <1>2. person' = [q \in People |-> [person[q] EXCEPT !.clean = no]]
    BY DEF Interrupted
  <1> HIDE DEF no
  <1>3. \A q \in People : /\ person'[q] \in Person /\ person'[q].pc = person[q].pc
           /\ person'[q].next = person[q].next
                          /\ ~person'[q].clean
    BY <1>1, <1>2 DEF Person
  <1>4. QED
    BY <1>2, <1>3, Disturbed

LEMMA AwaitedTyped ==
  ASSUME IInv, NEW new \in Analyzer, agent' = [agent EXCEPT !["awaited"] = new]
  PROVE  agent' \in [{"awaited", "orphan"} -> Analyzer] /\ agent'["awaited"] = new
            /\ agent'["orphan"] = agent["orphan"]
  BY DEF IInv, TypeOK

LEMMA StartRefreshStep ==
  ASSUME IInv, StartRefresh
  PROVE  IInv'
  <1>1. /\ ~Live /\ runs < MaxRuns /\ runs' = runs + 1
        /\ job' = [NoJob EXCEPT !.pc = "agent", !.kind = "refresh", !.bugs = report, !.saved = history]
        /\ agent' = [agent EXCEPT !["awaited"] = [NoAgent EXCEPT !.up = TRUE]]
        /\ person' = Interrupted
        /\ UNCHANGED <<report, history, page, decisions, standing>>
    BY DEF StartRefresh
  <1>2. /\ job' \in Job /\ job'.pc = "agent" /\ job'.kind = "refresh" /\ job'.bugs = report /\ job'.saved = history
        /\ job'.wrote = FALSE /\ job'.next = 1
    BY <1>1, NoJobTyped, JobTyped DEF Job, JobSteps
  <1>3. /\ agent' \in [{"awaited", "orphan"} -> Analyzer] /\ agent'["awaited"].up /\ agent'["awaited"].next = 0
    BY <1>1, NoAgentTyped, AwaitedTyped
  <1>4. person' \in [People -> Person] /\ PeopleKnow' /\ Pending' = Pending
    BY <1>1, InterruptedTyped
  <1>5. TypeOK'
    <2>1. runs' \in 0..MaxRuns
      BY <1>1 DEF IInv, TypeOK
    <2>2. QED
      BY <1>1, <1>2, <1>3, <1>4, <2>1 DEF IInv, TypeOK
  <1>6. Kept(report, history, standing, Pending) /\ Held(report, standing)
    BY <1>1 DEF IInv, JobKnows, Live
  <1>7. JobKnows'
    BY <1>1, <1>2, <1>4, <1>6 DEF JobKnows, Regenerated
  <1>8. AgentWorks'
    BY <1>2, <1>3 DEF AgentWorks
  <1>9. QED
    BY <1>4, <1>5, <1>7, <1>8 DEF IInv

LEMMA StartFullRunStep ==
  ASSUME IInv, StartFullRun
  PROVE  IInv'
  <1>1. /\ runs < MaxRuns /\ runs' = runs + 1
        /\ job' = [NoJob EXCEPT !.pc = "agent", !.kind = "manual"]
        /\ report' = Nothing /\ standing' = [c \in Claims |-> None]
        /\ agent' = [agent EXCEPT !["awaited"] = [NoAgent EXCEPT !.up = TRUE]]
        /\ person' = Interrupted
        /\ UNCHANGED <<history, page, decisions>>
    BY DEF StartFullRun
  <1>2. job' \in Job /\ job'.pc = "agent" /\ job'.kind = "manual" /\ job'.wrote = FALSE /\ job'.next = 1
    BY <1>1, NoJobTyped DEF Job, JobSteps
  <1>3. agent' \in [{"awaited", "orphan"} -> Analyzer] /\ agent'["awaited"].up /\ agent'["awaited"].next = 0
    BY <1>1, NoAgentTyped, AwaitedTyped
  <1>4. person' \in [People -> Person] /\ PeopleKnow'
    BY <1>1, InterruptedTyped
  <1>5. TypeOK'
    <2>1. runs' \in 0..MaxRuns
      BY <1>1 DEF IInv, TypeOK
    <2>2. report' \in Reports /\ standing' \in [Claims -> Review \cup {None, Doubtful}]
      BY <1>1 DEF Nothing, Reports
    <2>3. QED
      BY <1>1, <1>2, <1>3, <1>4, <2>1, <2>2 DEF IInv, TypeOK
  <1>6. Fresh(report', standing') /\ \A c \in Claims : standing'[c] = None
    BY <1>1, NothingIsFresh
  <1>7. JobKnows'
    BY <1>2, <1>6 DEF JobKnows
  <1>8. AgentWorks'
    BY <1>2, <1>3 DEF AgentWorks
  <1>9. QED
    BY <1>4, <1>5, <1>7, <1>8 DEF IInv

LEMMA StagePassesStep ==
  ASSUME IInv, StagePasses
  PROVE  IInv'
  <1>1. /\ job.pc = "agent" /\ job.wrote /\ agent["awaited"].next = 0
        /\ job' = IF job.kind = "refresh" THEN [job EXCEPT !.pc = "reconcile"] ELSE NoJob
        /\ agent' = [agent EXCEPT !["awaited"] = NoAgent]
        /\ UNCHANGED <<report, history, runs, person, page, decisions, standing>>
    BY DEF StagePasses
  <1>2. /\ agent' \in [{"awaited", "orphan"} -> Analyzer] /\ AgentWorks'
    BY <1>1, NoAgentTyped, AwaitedTyped, NobodyWorks
  <1>3. PeopleKnow' /\ Pending' = Pending
    BY <1>1, JobGoesOn DEF Live
  <1>4. Fresh(report, standing)
    BY <1>1 DEF IInv, JobKnows, Regenerated
  <1>5. job' \in Job
    BY <1>1, NoJobTyped, JobTyped DEF Job, JobSteps
  <1>6. TypeOK'
    BY <1>1, <1>2, <1>5 DEF IInv, TypeOK
  <1>7. CASE job.kind = "refresh"
    <2>1. job'.pc = "reconcile" /\ job'.kind = "refresh" /\ job'.bugs = job.bugs /\ job'.saved = job.saved
             /\ job'.next = 1
      BY <1>1, <1>7, JobTyped DEF Job, IInv, JobKnows
    <2>2. Kept(job.bugs, job.saved, standing, Pending) /\ Held(job.bugs, standing)
      BY <1>7 DEF IInv, JobKnows
    <2>3. JobKnows'
      BY <1>1, <1>3, <1>4, <2>1, <2>2 DEF JobKnows
    <2>4. QED
      BY <1>2, <1>3, <1>6, <2>3 DEF IInv
  <1>8. CASE job.kind # "refresh"
    <2>1. job' = NoJob
      BY <1>1, <1>8
    <2>2. job.kind = "manual"
      BY <1>1, <1>8, JobTyped DEF Job, IInv, JobKnows
    <2>3. \A c \in Claims : standing[c] \in {None, Doubtful}
      BY <2>2 DEF IInv, JobKnows
    <2>4. Kept(report, history, standing, Pending) /\ Held(report, standing)
      BY <1>4, <2>3, FreshIsKept, JobTyped
    <2>5. JobKnows'
      BY <1>1, <1>3, <2>1, <2>4, NoJobTyped DEF JobKnows, Regenerated
    <2>6. QED
      BY <1>2, <1>3, <1>6, <2>5 DEF IInv
  <1>9. QED
    BY <1>7, <1>8

LEMMA StageFailsStep ==
  ASSUME IInv, StageFails
  PROVE  IInv'
  <1>1. /\ job.pc = "agent"
        /\ job' = IF job.kind = "refresh" THEN Failed ELSE NoJob
        /\ agent' = [agent EXCEPT !["awaited"] = NoAgent]
        /\ standing' = IF job.kind = "manual" /\ agent["awaited"].next # 0 THEN Doubt(Claims) ELSE standing
        /\ UNCHANGED <<report, history, runs, person, page, decisions>>
    BY DEF StageFails
  <1>2. agent' \in [{"awaited", "orphan"} -> Analyzer] /\ AgentWorks'
    BY <1>1, NoAgentTyped, AwaitedTyped, NobodyWorks
  <1>3. PeopleKnow' /\ Pending' = Pending
    BY <1>1, JobGoesOn DEF Live
  <1>4. job' \in Job
    BY <1>1, NoJobTyped, FailedTyped
  <1>5. TypeOK /\ standing' \in [Claims -> Review \cup {None, Doubtful}]
    BY <1>1, DoubtTyped DEF IInv, TypeOK
  <1>6. TypeOK'
    BY <1>1, <1>2, <1>4, <1>5 DEF TypeOK
  <1>7. JobKnows'
    <2>1. CASE job.kind = "refresh"
      BY <1>1, <2>1, FailedKnows
    <2>2. CASE job.kind = "manual" /\ agent["awaited"].next # 0
      <3>1. \A c \in Claims : standing'[c] = Doubtful
        BY <1>1, <2>2, DoubtDarkens
      <3>2. QED
        BY <1>1, <1>6, <2>2, <3>1, NothingKnown
    <2>3. CASE job.kind = "manual" /\ agent["awaited"].next = 0
      <3>1. Fresh(report, standing) /\ \A c \in Claims : standing[c] \in {None, Doubtful}
        BY <2>3 DEF IInv, JobKnows, Regenerated
      <3>2. Kept(report, history, standing, Pending) /\ Held(report, standing)
        BY <3>1, FreshIsKept, JobTyped
      <3>3. QED
        BY <1>1, <1>3, <2>3, <3>2, NoJobTyped DEF JobKnows, Regenerated
    <2>4. job.kind \in {"refresh", "manual"}
      BY <1>1, JobTyped DEF Job, IInv, JobKnows
    <2>5. QED
      BY <2>1, <2>2, <2>3, <2>4
  <1>8. QED
    BY <1>2, <1>3, <1>6, <1>7 DEF IInv

LEMMA ReconcileStep ==
  ASSUME IInv, Reconcile
  PROVE  IInv'
  <1>1. /\ job.pc = "reconcile" /\ job' = [job EXCEPT !.pc = "carry", !.fresh = report, !.old = history]
        /\ UNCHANGED <<report, history, runs, agent, person, page, decisions, standing>>
    BY DEF Reconcile
  <1>2. job.kind = "refresh" /\ Live /\ Kept(job.bugs, job.saved, standing, Pending) /\ Held(job.bugs, standing)
    BY <1>1, RefreshIs
  <1>3. agent'["awaited"].up = FALSE /\ agent'["awaited"].next = 0
    BY <1>1, RefreshIs
  <1>4. PeopleKnow' /\ Pending' = Pending
    BY <1>1, <1>2, JobGoesOn
  <1>5. /\ job' \in Job /\ job'.pc = "carry" /\ job'.kind = "refresh" /\ job'.fresh = report /\ job'.bugs = job.bugs
        /\ job'.saved = job.saved /\ job'.next = 1 /\ job.next = 1
    BY <1>1, <1>2, JobTyped DEF Job, JobSteps, IInv, JobKnows
  <1>6. TypeOK'
    BY <1>1, <1>5 DEF IInv, TypeOK
  <1>7. Fresh(report, standing)
    BY <1>1 DEF IInv, JobKnows, Regenerated
  <1>8. CarriedSoFar'
    BY <1>1, <1>5 DEF CarriedSoFar, Ids
  <1>9. JobKnows'
    BY <1>1, <1>2, <1>4, <1>5, <1>7, <1>8 DEF JobKnows, Regenerated
  <1>10. QED
    BY <1>3, <1>4, <1>6, <1>9, NobodyWorks DEF IInv

LEMMA ThrowsStep ==
  ASSUME IInv, Throws
  PROVE  IInv'
  <1>1. /\ job.pc \in {"reconcile", "carry", "finish"} /\ job' = Failed
        /\ UNCHANGED <<report, history, runs, agent, person, page, decisions, standing>>
    BY DEF Throws
  <1>2. job.kind = "refresh" /\ agent'["awaited"].up = FALSE /\ agent'["awaited"].next = 0
    BY <1>1, RefreshIs
  <1>3. JobKnows' /\ PeopleKnow'
    BY <1>1, <1>2, FailedKnows
  <1>4. TypeOK'
    BY <1>1, FailedTyped DEF IInv, TypeOK
  <1>5. QED
    BY <1>2, <1>3, <1>4, NobodyWorks DEF IInv

LEMMA RestoreBugsStep ==
  ASSUME IInv, RestoreBugs
  PROVE  IInv'
  <1>1. /\ job.pc = "restoreBugs" /\ report' = job.bugs /\ job' = [job EXCEPT !.pc = "restoreHistories"]
        /\ UNCHANGED <<history, runs, agent, person, page, decisions, standing>>
    BY DEF RestoreBugs
  <1>2. job.kind = "refresh" /\ Live /\ Kept(job.bugs, job.saved, standing, Pending) /\ Held(job.bugs, standing)
    BY <1>1, RefreshIs
  <1>3. agent'["awaited"].up = FALSE /\ agent'["awaited"].next = 0
    BY <1>1, RefreshIs
  <1>4. PeopleKnow' /\ Pending' = Pending
    BY <1>1, <1>2, JobGoesOn
  <1>5. /\ job' \in Job /\ job'.pc = "restoreHistories" /\ job'.kind = "refresh" /\ job'.bugs = job.bugs
        /\ job'.saved = job.saved
    BY <1>1, <1>2, JobTyped DEF Job, JobSteps
  <1>6. TypeOK'
    BY <1>1, <1>5, JobTyped DEF IInv, TypeOK
  <1>7. Restored'
    BY <1>1, <1>5 DEF Restored
  <1>8. JobKnows'
    BY <1>1, <1>2, <1>4, <1>5, <1>7 DEF JobKnows, Regenerated
  <1>9. QED
    BY <1>3, <1>4, <1>6, <1>8, NobodyWorks DEF IInv

\* Reports restored from a snapshot are what the snapshot's are.
LEMMA RestoredIsKept ==
  ASSUME IInv, Restored, Kept(job.bugs, job.saved, standing, Pending), Held(job.bugs, standing)
  PROVE  Kept(report, job.saved, standing, Pending) /\ Held(report, standing)
  <1>1. ASSUME NEW i \in Ids, report[i] # None, standing[report[i].claim] # Doubtful
        PROVE  /\ RightReview(report[i].review, standing[report[i].claim])
               /\ standing[report[i].claim] # None /\ report[i].claim \notin Pending =>
                     job.saved[i] # <<>> /\ Last(job.saved[i]) = report[i]
               /\ \A j \in Ids \ {i} : report[j] # None => report[j].claim # report[i].claim
    <2>1. report[i] = job.bugs[i]
      BY <1>1 DEF Restored
    <2>2. ASSUME NEW j \in Ids \ {i}, report[j] # None, report[j].claim = report[i].claim
          PROVE  FALSE
      <3>1. report[j] = job.bugs[j]
        BY <1>1, <2>2 DEF Restored
      <3>2. QED
        BY <1>1, <2>1, <2>2, <3>1 DEF Kept
    <2>3. QED
      BY <1>1, <2>1, <2>2 DEF Kept
  <1>2. Kept(report, job.saved, standing, Pending)
    BY <1>1 DEF Kept
  <1>3. Held(report, standing)
    <2>1. ASSUME NEW c \in Claims, standing[c] \notin {None, Doubtful}
          PROVE  \E i \in Ids : report[i] # None /\ report[i].claim = c
      <3>1. PICK i \in Ids : job.bugs[i] # None /\ job.bugs[i].claim = c
        BY <2>1 DEF Held
      <3>2. report[i] = job.bugs[i]
        BY <2>1, <3>1 DEF Restored
      <3>3. QED
        BY <3>1, <3>2
    <2>2. QED
      BY <2>1 DEF Held
  <1>4. QED
    BY <1>2, <1>3

LEMMA RestoreHistoriesStep ==
  ASSUME IInv, RestoreHistories
  PROVE  IInv'
  <1>1. /\ job.pc = "restoreHistories" /\ history' = job.saved /\ job' = NoJob
        /\ UNCHANGED <<report, runs, agent, person, page, decisions, standing>>
    BY DEF RestoreHistories
  <1>2. Live /\ Kept(job.bugs, job.saved, standing, Pending) /\ Held(job.bugs, standing)
    BY <1>1, RefreshIs
  <1>3. agent'["awaited"].up = FALSE /\ agent'["awaited"].next = 0
    BY <1>1, RefreshIs
  <1>4. PeopleKnow' /\ Pending' = Pending
    BY <1>1, <1>2, JobGoesOn
  <1>5. TypeOK'
    BY <1>1, JobTyped, NoJobTyped DEF IInv, TypeOK
  <1>6. Restored
    BY <1>1 DEF IInv, JobKnows
  <1>7. Kept(report, job.saved, standing, Pending) /\ Held(report, standing)
    BY <1>2, <1>6, RestoredIsKept
  <1>8. JobKnows'
    BY <1>1, <1>4, <1>7, NoJobTyped DEF JobKnows, Regenerated
  <1>9. QED
    BY <1>3, <1>4, <1>5, <1>8, NobodyWorks DEF IInv

LEMMA CrashStep ==
  ASSUME IInv, Crash
  PROVE  IInv'
  <1>1. /\ Live /\ job' = NoJob /\ standing' = Doubt(Claims)
        /\ agent' = [awaited |-> NoAgent,
                     orphan |-> IF agent["awaited"].up THEN agent["awaited"] ELSE agent["orphan"]]
        /\ UNCHANGED <<report, history, runs, person, page, decisions>>
    BY DEF Crash
  <1>2. TypeOK /\ agent["awaited"] \in Analyzer /\ agent["orphan"] \in Analyzer
    BY IInvTyped DEF IInv, Typed
  <1>3. agent' \in [{"awaited", "orphan"} -> Analyzer] /\ agent'["awaited"].up = FALSE /\ agent'["awaited"].next = 0
    BY <1>1, <1>2, NoAgentTyped
  <1>4. standing' \in [Claims -> Review \cup {None, Doubtful}] /\ \A c \in Claims : standing'[c] = Doubtful
    BY <1>1, <1>2, DoubtTyped, DoubtDarkens
  <1>5. TypeOK'
    BY <1>1, <1>2, <1>3, <1>4, NoJobTyped DEF TypeOK
  <1>6. JobKnows'
    BY <1>1, <1>4, <1>5, NothingKnown
  <1>7. PeopleKnow'
    BY <1>1, JobGoesOn
  <1>8. QED
    BY <1>3, <1>5, <1>6, <1>7, NobodyWorks DEF IInv

LEMMA ReplaceHistoriesStep ==
  ASSUME IInv, ReplaceHistories
  PROVE  IInv'
  <1>1. /\ job.pc = "carry" /\ job.next = MaxBugs + 1 /\ history' = job.carried
        /\ job' = [Failed EXCEPT !.pc = "finish"]
        /\ UNCHANGED <<report, runs, agent, person, page, decisions, standing>>
    BY DEF ReplaceHistories
  <1>2. Live /\ Kept(job.bugs, job.saved, standing, Pending) /\ Held(job.bugs, standing)
    BY <1>1, RefreshIs
  <1>3. agent'["awaited"].up = FALSE /\ agent'["awaited"].next = 0
    BY <1>1, RefreshIs
  <1>4. PeopleKnow' /\ Pending' = Pending
    BY <1>1, <1>2, JobGoesOn
  <1>5. job' \in Job /\ job'.pc = "finish" /\ job'.kind = "refresh" /\ job'.bugs = job.bugs
           /\ job'.saved = job.saved
    BY <1>1, FailedTyped DEF Job, JobSteps
  <1>6. TypeOK'
    BY <1>1, <1>5, JobTyped DEF IInv, TypeOK
  <1>7. Fresh(job.fresh, standing) /\ CarriedSoFar
    BY <1>1 DEF IInv, JobKnows
  <1>8. ASSUME NEW i \in Ids, report[i] # None, standing[report[i].claim] # Doubtful
        PROVE  /\ RightReview(report[i].review, standing[report[i].claim])
               /\ standing[report[i].claim] # None => job.carried[i] # <<>> /\ Last(job.carried[i]) = report[i]
               /\ \A j \in Ids \ {i} : report[j] # None => report[j].claim # report[i].claim
    <2>1. i < job.next /\ report[i].claim \in Claims
      BY <1>1, <1>8, JobTyped, ReportsTyped DEF Ids
    <2>2. job.fresh[i] # None /\ job.fresh[i].claim = report[i].claim
      BY <1>7, <1>8 DEF CarriedSoFar
    <2>3. ASSUME NEW j \in Ids \ {i}, report[j] # None, report[j].claim = report[i].claim
          PROVE  FALSE
      <3>1. job.fresh[j] # None /\ job.fresh[j].claim = report[i].claim
        BY <1>7, <1>8, <2>3 DEF CarriedSoFar
      <3>2. ~Clouded(job.fresh[i].claim, standing)
        BY <1>8, <2>1, <2>2, CloudedIsDoubtful
      <3>3. QED
        BY <1>7, <2>2, <2>3, <3>1, <3>2 DEF Fresh
    <2>4. QED
      BY <1>7, <1>8, <2>1, <2>3 DEF CarriedSoFar
  <1>9. Kept(report, history', standing, Pending)
    BY <1>1, <1>8 DEF Kept
  <1>10. JobKnows'
    BY <1>1, <1>2, <1>4, <1>5, <1>9 DEF JobKnows, Regenerated
  <1>11. QED
    BY <1>3, <1>4, <1>6, <1>10, NobodyWorks DEF IInv

LEMMA FinishStep ==
  ASSUME IInv, Finish
  PROVE  IInv'
  <1>1. /\ job.pc = "finish" /\ job' = NoJob
        /\ standing' = [c \in Claims |-> IF c \in OnTable(report) THEN standing[c] ELSE None]
        /\ UNCHANGED <<report, history, runs, agent, person, page, decisions>>
    BY DEF Finish
  <1>2. agent'["awaited"].up = FALSE /\ agent'["awaited"].next = 0 /\ Live
    BY <1>1, RefreshIs
  <1>3. PeopleKnow' /\ Pending' = Pending
    BY <1>1, <1>2, JobGoesOn
  <1>4. TypeOK'
    BY <1>1, NoJobTyped DEF IInv, TypeOK
  <1>5. Kept(report, history, standing, Pending)
    BY <1>1 DEF IInv, JobKnows
  <1>6. \A i \in Ids : report[i] # None => standing'[report[i].claim] = standing[report[i].claim]
    <2>1. ASSUME NEW i \in Ids, report[i] # None
          PROVE  report[i].claim \in Claims /\ report[i].claim \in OnTable(report)
      BY <2>1, JobTyped, ReportsTyped DEF OnTable, ClaimAt
    <2>2. QED
      BY <1>1, <2>1
  <1>7. Kept(report, history, standing', Pending)
    BY <1>5, <1>6 DEF Kept
  <1>8. Held(report, standing')
    BY <1>1 DEF Held, OnTable, ClaimAt
  <1>9. JobKnows'
    BY <1>1, <1>3, <1>7, <1>8, NoJobTyped DEF JobKnows, Regenerated
  <1>10. QED
    BY <1>2, <1>3, <1>4, <1>9, NobodyWorks DEF IInv

\* The source of a review is an earlier report of the same claim, and if there is one, it is found.
LEMMA SourceIs ==
  ASSUME NEW i \in Ids
  PROVE  LET o == Source(i)
         IN  o # None => /\ o \in Ids /\ job.bugs[o] # None /\ job.fresh[i] # None
                         /\ job.bugs[o].claim = job.fresh[i].claim
  <1> DEFINE o == Pairing(job.bugs, job.fresh)[i]
  <1>1. o # None => o \in Ids /\ job.bugs[o] # None /\ job.fresh[i] # None
    BY PairingTyped
  <1>2. Source(i) = IF o # None /\ job.bugs[o].claim = job.fresh[i].claim THEN o ELSE None
    BY DEF Source
  <1> HIDE DEF o
  <1>3. QED
    BY <1>1, <1>2

LEMMA SourceFound ==
  ASSUME IInv, NEW i \in Ids, job.fresh[i] # None, Source(i) = None,
         standing[job.fresh[i].claim] # Doubtful,
         Kept(job.bugs, job.saved, standing, Pending), Held(job.bugs, standing), Fresh(job.fresh, standing)
  PROVE  standing[job.fresh[i].claim] = None
  <1> DEFINE c == job.fresh[i].claim
  <1>1. job.bugs \in Reports /\ job.fresh \in Reports /\ c \in Claims
    BY JobTyped, ReportsTyped
  <1>2. SUFFICES ASSUME standing[c] # None
                 PROVE  FALSE
    OBVIOUS
  <1>3. PICK o \in Ids : job.bugs[o] # None /\ job.bugs[o].claim = c
    BY <1>1, <1>2 DEF Held
  <1>4. \A q \in Ids \ {o} : job.bugs[q] # None => job.bugs[q].claim # job.bugs[o].claim
    BY <1>3 DEF Kept
  <1>5. ~Clouded(c, standing)
    BY <1>1, CloudedIsDoubtful
  <1>6. \A j \in Ids \ {i} : job.fresh[j] # None => KeyOf[job.fresh[j].claim] # KeyOf[job.fresh[i].claim]
    BY <1>5 DEF Fresh
  <1>7. Pairing(job.bugs, job.fresh)[i] = o
    BY <1>1, <1>3, <1>4, <1>6, PairedWithItself
  <1>8. o # None
    BY ConstantsAre
  <1>9. Source(i) = o
    BY <1>3, <1>7, <1>8 DEF Source
  <1>10. QED
    BY <1>8, <1>9

\* The review that is carried over is as right as the one it is taken from.
LEMMA CarriedIsRight ==
  ASSUME NEW from \in Report, NEW to \in Report, NEW withEdits \in BOOLEAN, NEW known, RightReview(from.review, known)
  PROVE  /\ CarryOver(from, to, withEdits) \in Report /\ CarryOver(from, to, withEdits).claim = to.claim
         /\ RightReview(CarryOver(from, to, withEdits).review, known)
  <1> DEFINE new == [from.review EXCEPT !.edited = @ /\ withEdits]
  <1>1. CarryOver(from, to, withEdits) = [to EXCEPT !.review = new]
    BY DEF CarryOver
  <1>2. from.review \in Review /\ to.claim \in Claims
    BY DEF Report
  <1>3. new = from.review \/ new = [from.review EXCEPT !.edited = FALSE]
    <2>1. CASE withEdits
      <3>1. (from.review.edited /\ withEdits) = from.review.edited
        BY <1>2, <2>1 DEF Review
      <3>2. QED
        BY <1>2, <3>1 DEF Review
    <2>2. CASE ~withEdits
      <3>1. (from.review.edited /\ withEdits) = FALSE
        BY <2>2
      <3>2. QED
        BY <3>1
    <2>3. QED
      BY <2>1, <2>2
  <1> HIDE DEF new
  <1>4. new \in Review
    <2> DEFINE no == FALSE
    <2>1. no \in BOOLEAN
      OBVIOUS
    <2> HIDE DEF no
    <2>2. [from.review EXCEPT !.edited = no] \in Review
      BY <1>2, <2>1 DEF Review
    <2>3. QED
      BY <1>2, <1>3, <2>2 DEF no
  <1>5. RightReview(new, known)
    <2>1. CASE known = None
      <3>1. from.review = Undecided
        BY <2>1 DEF RightReview
      <3>2. [from.review EXCEPT !.edited = FALSE] = from.review
        <4> DEFINE no == FALSE
        <4>1. from.review.edited = no
          BY <3>1 DEF Undecided
        <4> HIDE DEF no
        <4>2. [from.review EXCEPT !.edited = no] = from.review
          BY <1>2, <4>1 DEF Review
        <4>3. QED
          BY <4>2 DEF no
      <3>3. QED
        BY <1>3, <2>1, <3>1, <3>2 DEF RightReview
    <2>2. CASE known # None
      <3>1. from.review = known \/ from.review = [known EXCEPT !.edited = FALSE]
        BY <2>2 DEF RightReview
      <3>2. [[known EXCEPT !.edited = FALSE] EXCEPT !.edited = FALSE] = [known EXCEPT !.edited = FALSE]
        OBVIOUS
      <3>3. QED
        BY <1>3, <2>2, <3>1, <3>2 DEF RightReview
    <2>3. QED
      BY <2>1, <2>2
  <1>6. QED
    BY <1>1, <1>2, <1>4, <1>5 DEF Report

\* All that a step of the carrying over has to show.
LEMMA CarriedOn ==
  ASSUME IInv, NEW i \in Ids, job.pc = "carry", job.next = i, Pending' = Pending, Darker(standing, standing'),
         job'.pc = "carry", job'.kind = "refresh", job'.next = i + 1,
         job'.bugs = job.bugs, job'.saved = job.saved, job'.fresh = job.fresh,
         \A x \in Ids \ {i} : report'[x] = report[x] /\ job'.carried[x] = job.carried[x],
         report'[i] # None /\ standing'[report'[i].claim] # Doubtful =>
            /\ job.fresh[i] # None /\ job.fresh[i].claim = report'[i].claim
            /\ RightReview(report'[i].review, standing'[report'[i].claim])
            /\ standing'[report'[i].claim] # None => job'.carried[i] # <<>> /\ Last(job'.carried[i]) = report'[i]
  PROVE  JobKnows'
  <1>1. /\ Kept(job.bugs, job.saved, standing, Pending) /\ Held(job.bugs, standing)
        /\ Fresh(job.fresh, standing) /\ CarriedSoFar
    BY RefreshIs DEF IInv, JobKnows
  <1>2. Kept(job.bugs, job.saved, standing', Pending)
    <2>1. Settles(Pending, Pending, standing')
      BY DEF Settles
    <2>2. QED
      BY <1>1, <2>1, JobTyped, KeptDarker
  <1>3. Held(job.bugs, standing') /\ Fresh(job.fresh, standing')
    BY <1>1, HeldDarker, FreshDarker
  <1>4. ASSUME NEW x \in Ids, report'[x] # None, standing'[report'[x].claim] # Doubtful
        PROVE  /\ job'.fresh[x] # None /\ job'.fresh[x].claim = report'[x].claim
               /\ x >= job'.next => report'[x] = job'.fresh[x]
               /\ x < job'.next =>
                     /\ RightReview(report'[x].review, standing'[report'[x].claim])
                     /\ standing'[report'[x].claim] # None => job'.carried[x] # <<>>
                           /\ Last(job'.carried[x]) = report'[x]
    <2>1. CASE x = i
      BY <1>4, <2>1 DEF Ids
    <2>2. CASE x # i
      <3>1. report'[x] = report[x] /\ job'.carried[x] = job.carried[x]
        BY <2>2
      <3>2. report[x].claim \in Claims
        BY <1>4, <3>1, JobTyped, ReportsTyped
      <3>3. standing'[report[x].claim] = standing[report[x].claim]
        BY <1>4, <3>1, <3>2 DEF Darker
      <3>4. (x >= job'.next => x >= job.next) /\ (x < job'.next => x < job.next)
        BY <2>2 DEF Ids
      <3>5. QED
        BY <1>1, <1>4, <3>1, <3>3, <3>4 DEF CarriedSoFar
    <2>3. QED
      BY <2>1, <2>2
  <1>5. CarriedSoFar'
    BY <1>4 DEF CarriedSoFar
  <1>6. QED
    BY <1>2, <1>3, <1>5 DEF JobKnows, Regenerated

LEMMA CarryStep ==
  ASSUME IInv, NEW i \in Ids, Carry(i)
  PROVE  IInv'
  <1> DEFINE o == Source(i)
  <1> DEFINE advance == [job EXCEPT !.next = i + 1]
  <1>1. /\ job.pc = "carry" /\ job.next = i
        /\ UNCHANGED <<history, runs, agent, person, page, decisions>>
    BY DEF Carry
  <1>2. \/ /\ o = None /\ job' = advance /\ UNCHANGED <<report, standing>>
        \/ /\ o # None
           /\ \E withEdits \in BOOLEAN :
                 LET next == CarryOver(job.bugs[o], job.fresh[i], withEdits)
                 IN  /\ report' = [report EXCEPT ![i] = next]
                     /\ job' = [advance EXCEPT !.carried[i] = Append(job.old[o], next)]
                     /\ UNCHANGED standing
        \/ /\ job' = advance /\ standing' = Doubt({job.fresh[i].claim}) /\ UNCHANGED report
    BY DEF Carry
  <1>3. /\ job.kind = "refresh" /\ Live /\ agent'["awaited"].up = FALSE /\ agent'["awaited"].next = 0
        /\ Kept(job.bugs, job.saved, standing, Pending) /\ Held(job.bugs, standing)
    BY <1>1, RefreshIs
  <1>4. Fresh(job.fresh, standing) /\ CarriedSoFar
    BY <1>1 DEF IInv, JobKnows
  <1>5. PeopleKnow' /\ Pending' = Pending
    BY <1>1, <1>3, JobGoesOn
  <1>6. PICK following : following = i + 1 /\ following \in 1..(MaxBugs + 1)
    BY DEF Ids
  <1>7. /\ advance \in Job /\ advance.pc = "carry" /\ advance.kind = "refresh" /\ advance.next = i + 1
        /\ advance.bugs = job.bugs /\ advance.saved = job.saved /\ advance.fresh = job.fresh
              /\ advance.carried = job.carried
    <2>1. advance = [job EXCEPT !.next = following]
      BY <1>6
    <2> HIDE DEF advance
    <2>2. QED
      BY <1>1, <1>3, <1>6, <2>1, JobTyped DEF Job
  <1> HIDE DEF o, advance
  <1>8. TypeOK /\ TypeOK' <=> /\ TypeOK /\ job' \in Job /\ report' \in Reports
                              /\ standing' \in [Claims -> Review \cup {None, Doubtful}]
    BY <1>1 DEF TypeOK
  <1>9. CASE o = None /\ job' = advance /\ UNCHANGED <<report, standing>>
    <2>1. Darker(standing, standing')
      BY <1>9 DEF Darker
    <2>2. ASSUME report[i] # None, standing[report[i].claim] # Doubtful
          PROVE  /\ job.fresh[i] # None /\ job.fresh[i].claim = report[i].claim
                 /\ standing[report[i].claim] = None /\ report[i].review = Undecided
      <3>1. job.fresh[i] # None /\ job.fresh[i].claim = report[i].claim /\ report[i] = job.fresh[i]
        BY <1>1, <1>4, <2>2 DEF CarriedSoFar, Ids
      <3>2. standing[job.fresh[i].claim] = None
        BY <1>3, <1>4, <1>9, <2>2, <3>1, SourceFound DEF o
      <3>3. ~Clouded(report[i].claim, standing)
        BY <2>2, JobTyped, ReportsTyped, CloudedIsDoubtful
      <3>4. QED
        BY <1>4, <3>1, <3>2, <3>3 DEF Fresh
    <2>3. JobKnows'
      BY <1>1, <1>5, <1>7, <1>9, <2>1, <2>2, CarriedOn DEF RightReview
    <2>4. TypeOK'
      BY <1>7, <1>8, <1>9 DEF IInv, TypeOK
    <2>5. QED
      BY <1>3, <1>5, <2>3, <2>4, NobodyWorks DEF IInv
  <1>10. ASSUME NEW withEdits \in BOOLEAN, NEW next, o # None,
                next = CarryOver(job.bugs[o], job.fresh[i], withEdits),
                report' = [report EXCEPT ![i] = next],
                job' = [advance EXCEPT !.carried[i] = Append(job.old[o], next)],
                UNCHANGED standing
         PROVE  IInv'
    <2>1. o \in Ids /\ job.bugs[o] # None /\ job.fresh[i] # None /\ job.bugs[o].claim = job.fresh[i].claim
      BY <1>10, SourceIs DEF o
    <2>2. job.bugs[o] \in Report /\ job.fresh[i] \in Report /\ job.old[o] \in Seq(Report)
      BY <2>1, JobTyped, ReportsTyped DEF Histories
    <2>3. \A known : RightReview(job.bugs[o].review, known) => RightReview(next.review, known)
      BY <1>10, <2>2, CarriedIsRight
    <2>4. next \in Report /\ next.claim = job.fresh[i].claim
      <3>1. RightReview(job.bugs[o].review, job.bugs[o].review)
        BY <2>2, ReportTyped DEF RightReview
      <3>2. \A known : RightReview(job.bugs[o].review, known) => next \in Report /\ next.claim = job.fresh[i].claim
        BY <1>10, <2>2, CarriedIsRight
      <3>3. QED
        BY <3>1, <3>2
    <2> DEFINE rounds == Append(job.old[o], next)
    <2>5. rounds \in Seq(Report) /\ rounds # <<>> /\ Last(rounds) = next
      BY <2>2, <2>4 DEF Last
    <2> HIDE DEF rounds
    <2>6. job' = [advance EXCEPT !.carried = [job.carried EXCEPT ![i] = rounds]]
      BY <1>7, <1>10 DEF rounds
    <2>7. /\ [job.carried EXCEPT ![i] = rounds] \in Histories /\ [job.carried EXCEPT ![i] = rounds][i] = rounds
          /\ \A x \in Ids \ {i} : [job.carried EXCEPT ![i] = rounds][x] = job.carried[x]
      BY <2>5, JobTyped DEF Histories
    <2>8. /\ job' \in Job /\ job'.pc = "carry" /\ job'.kind = "refresh" /\ job'.next = i + 1
          /\ job'.bugs = job.bugs /\ job'.saved = job.saved /\ job'.fresh = job.fresh
          /\ job'.carried = [job.carried EXCEPT ![i] = rounds]
      BY <1>7, <2>6, <2>7 DEF Job
    <2>9. report' \in Reports /\ report'[i] = next /\ \A x \in Ids \ {i} : report'[x] = report[x]
      BY <1>10, <2>4, JobTyped DEF Reports
    <2>10. Darker(standing, standing')
      BY <1>10 DEF Darker
    <2>11. standing[next.claim] # Doubtful => RightReview(next.review, standing[next.claim])
      BY <1>3, <2>1, <2>3, <2>4 DEF Kept
    <2>12. JobKnows'
      <3>1. \A x \in Ids \ {i} : report'[x] = report[x] /\ job'.carried[x] = job.carried[x]
        BY <2>7, <2>8, <2>9
      <3>2. job'.carried[i] # <<>> /\ Last(job'.carried[i]) = report'[i]
        BY <2>5, <2>7, <2>8, <2>9
      <3>3. standing'[report'[i].claim] # Doubtful =>
               /\ job.fresh[i] # None /\ job.fresh[i].claim = report'[i].claim
               /\ RightReview(report'[i].review, standing'[report'[i].claim])
        BY <1>10, <2>1, <2>4, <2>9, <2>11
      <3>4. QED
        BY <1>1, <1>5, <2>8, <2>10, <3>1, <3>2, <3>3, CarriedOn
    <2>13. TypeOK'
      BY <1>8, <1>10, <2>8, <2>9 DEF IInv, TypeOK
    <2>14. QED
      BY <1>3, <1>5, <2>12, <2>13, NobodyWorks DEF IInv
  <1>11. CASE job' = advance /\ standing' = Doubt({job.fresh[i].claim}) /\ UNCHANGED report
    <2>1. /\ Darker(standing, standing') /\ standing' \in [Claims -> Review \cup {None, Doubtful}]
          /\ \A c \in Claims : c = job.fresh[i].claim => standing'[c] = Doubtful
      BY <1>11, DoubtDarkens, DoubtTyped DEF IInv
    <2>2. report[i] # None => standing'[report[i].claim] = Doubtful
      <3>1. SUFFICES ASSUME report[i] # None, standing'[report[i].claim] # Doubtful
                     PROVE  FALSE
        OBVIOUS
      <3>2. report[i].claim \in Claims
        BY <3>1, JobTyped, ReportsTyped
      <3>3. standing[report[i].claim] # Doubtful
        BY <2>1, <3>1, <3>2 DEF Darker
      <3>4. job.fresh[i].claim = report[i].claim
        BY <1>4, <3>1, <3>3 DEF CarriedSoFar
      <3>5. QED
        BY <2>1, <3>1, <3>2, <3>4
    <2>3. JobKnows'
      BY <1>1, <1>5, <1>7, <1>11, <2>1, <2>2, CarriedOn
    <2>4. TypeOK'
      BY <1>7, <1>8, <1>11, <2>1 DEF IInv, TypeOK
    <2>5. QED
      BY <1>3, <1>5, <2>3, <2>4, NobodyWorks DEF IInv
  <1>12. QED
    BY <1>2, <1>9, <1>10, <1>11

-----------------------------------------------------------------------------
(* The invariant. *)

LEMMA InitTyped == Init => TypeOK
  <1> SUFFICES ASSUME Init PROVE TypeOK
    OBVIOUS
  <1>1. report = [i \in Ids |-> IF i \in DOMAIN First THEN New(First[i]) ELSE None]
    BY DEF Init
  <1>2. \A i \in DOMAIN First : New(First[i]) \in Report
    BY ConstantsAssumption, AnalysesTyped
  <1>3. report \in Reports
    BY <1>1, <1>2 DEF Reports
  <1>4. history \in Histories
    BY NoJobTyped DEF Init, NoJob, Job
  <1>5. agent \in [{"awaited", "orphan"} -> Analyzer] /\ person \in [People -> Person] /\ job \in Job
    BY NoAgentTyped, NoActTyped, NoJobTyped DEF Init
  <1>6. standing \in [Claims -> Review \cup {None, Doubtful}]
    BY DEF Init
  <1>7. runs \in 0..MaxRuns /\ decisions \in 0..MaxDecisions /\ page = None
    BY DEF Init
  <1>8. QED
    BY <1>3, <1>4, <1>5, <1>6, <1>7 DEF TypeOK

LEMMA InitIInv == Init => IInv
  <1> SUFFICES ASSUME Init PROVE IInv
    OBVIOUS
  <1>1. TypeOK
    BY InitTyped
  <1>2. /\ job = NoJob /\ standing = [c \in Claims |-> None] /\ "awaited" \in {"awaited", "orphan"}
        /\ agent = [k \in {"awaited", "orphan"} |-> NoAgent] /\ person = [p \in People |-> NoAct]
        /\ report = [i \in Ids |-> IF i \in DOMAIN First THEN New(First[i]) ELSE None]
    BY DEF Init
  <1>3. AgentWorks
    <2>1. agent["awaited"].up = FALSE /\ agent["awaited"].next = 0
      BY <1>2, NoAgentTyped
    <2>2. QED
      BY <2>1 DEF AgentWorks
  <1>4. PeopleKnow
    BY <1>2, NoActTyped DEF PeopleKnow, Deciding
  <1>5. ASSUME NEW i \in Ids, report[i] # None
        PROVE  i \in DOMAIN First /\ report[i].review = Undecided /\ report[i].claim = First[i]
    BY <1>2, <1>5 DEF New
  <1>6. Fresh(report, standing)
    <2>1. ASSUME NEW i \in Ids, NEW j \in Ids \ {i}, report[i] # None, report[j] # None
          PROVE  KeyOf[report[j].claim] # KeyOf[report[i].claim]
      BY <1>5, <2>1, ConstantsAssumption, AnalysesTyped
    <2>2. QED
      BY <1>5, <2>1 DEF Fresh
  <1>7. Kept(report, history, standing, Pending) /\ Held(report, standing)
    <2>1. \A c \in Claims : standing[c] \in {None, Doubtful}
      BY <1>2
    <2>2. report \in Reports
      BY <1>1 DEF TypeOK
    <2>3. QED
      BY <1>6, <2>1, <2>2, FreshIsKept
  <1>8. JobKnows
    BY <1>2, <1>7, NoJobTyped DEF JobKnows, Regenerated
  <1>9. QED
    BY <1>1, <1>3, <1>4, <1>8 DEF IInv

LEMMA StutterIInv == IInv /\ UNCHANGED vars => IInv'
  <1> SUFFICES ASSUME IInv, UNCHANGED vars PROVE IInv'
    OBVIOUS
  <1>1. UNCHANGED <<report, history, job, runs, agent, person, page, decisions, standing>>
    BY DEF vars
  <1>2. TypeOK'
    BY <1>1 DEF IInv, TypeOK
  <1>3. PeopleKnow'
    BY <1>1 DEF IInv, PeopleKnow, Deciding, Live
  <1>4. QED
    BY <1>1, <1>2, <1>3, PeopleStep

LEMMA NextIInv == IInv /\ [Next]_vars => IInv'
  <1> SUFFICES ASSUME IInv, [Next]_vars PROVE IInv'
    OBVIOUS
  <1>1. CASE UNCHANGED vars
    BY <1>1, StutterIInv
  <1>2. CASE (\E i \in Ids : Open(i)) \/ Arrive \/ Refuse
    BY <1>2, OpenStep, ArriveStep, RefuseStep
  <1>3. CASE \E p \in People, i \in Ids, a \in Actions : Load(p, i, a)
    BY <1>3, LoadStep
  <1>4. ASSUME NEW p \in People, Write(p) \/ Record(p) \/ LoseEvent(p)
        PROVE  IInv'
    BY <1>4, WriteStep, RecordStep, LoseEventStep
  <1>5. ASSUME NEW k \in {"awaited", "orphan"}, Analyze(k)
        PROVE  IInv'
    BY <1>5, AnalyzeStep
  <1>6. ASSUME NEW k \in {"awaited", "orphan"}, WriteBugReports(k)
        PROVE  IInv'
    BY <1>6, WriteReportStep, OrphanWritesStep
  <1>7. CASE OrphanEnds \/ StartRefresh \/ StartFullRun \/ StagePasses \/ StageFails
    BY <1>7, OrphanEndsStep, StartRefreshStep, StartFullRunStep, StagePassesStep, StageFailsStep
  <1>8. ASSUME NEW i \in Ids, Carry(i)
        PROVE  IInv'
    BY <1>8, CarryStep
  <1>9. CASE Reconcile \/ ReplaceHistories \/ Finish \/ Throws \/ RestoreBugs \/ RestoreHistories \/ Crash
    BY <1>9, ReconcileStep, ReplaceHistoriesStep, FinishStep, ThrowsStep, RestoreBugsStep, RestoreHistoriesStep,
       CrashStep
  <1>10. QED
    BY <1>1, <1>2, <1>3, <1>4, <1>5, <1>6, <1>7, <1>8, <1>9 DEF Next

-----------------------------------------------------------------------------
(* The theorems. *)

\* In whatever order people decide, refreshes and full runs regenerate, fail, are rolled back or
\* die, what is known of the decisions is what stands in the reports, in the snapshot they
\* would be restored from, and in the part already carried over (scripts/lib/refresh.mjs).
THEOREM ReviewInvariant == Spec => []IInv
  <1>1. Init => IInv
    BY InitIInv
  <1>2. IInv /\ [Next]_vars => IInv'
    BY NextIInv
  <1>3. QED
    BY <1>1, <1>2, PTL DEF Spec

\* A decision stays with the finding it was made about, whatever id a refresh gives its report
\* (bug-reconciliation.ts 92-113).
THEOREM DecisionsAreKept == Spec => []DecisionKept
  <1>1. IInv => DecisionKept
    <2>1. SUFFICES ASSUME IInv, Quiet, NEW i \in Ids, Sound(i)
                   PROVE  RightReview(report[i].review, standing[report[i].claim])
      BY DEF DecisionKept
    <2>2. Kept(report, history, standing, Pending)
      BY <2>1 DEF IInv, JobKnows, Quiet, Live
    <2>3. QED
      BY <2>1, <2>2 DEF Kept, Sound
  <1>2. QED
    BY <1>1, ReviewInvariant, PTL

\* The history beside a decided report ends with that decision (defect-review.ts).
THEOREM HistoriesMatch == Spec => []HistoryMatches
  <1>1. IInv => HistoryMatches
    <2>1. SUFFICES ASSUME IInv, Quiet, NEW i \in Ids, Settled(i)
                   PROVE  history[i] # <<>> /\ Last(history[i]) = report[i]
      BY DEF HistoryMatches
    <2>2. Kept(report, history, standing, Pending)
      BY <2>1 DEF IInv, JobKnows, Quiet, Live
    <2>3. Pending = {}
      BY <2>1 DEF Quiet, Pending, Deciding
    <2>4. QED
      BY <2>1, <2>2, <2>3 DEF Kept, Settled, Sound
  <1>2. QED
    BY <1>1, ReviewInvariant, PTL

\* The workspace decides on the report it showed: the check of the bytes holds from the reading
\* to the writing, whenever nothing else is at work (defect-review.ts 49).
THEOREM DecidesOnWhatItShowed == Spec => DecidesWhatWasShown
  <1>1. IInv /\ [Next]_vars =>
           [\A p \in People : Write(p) /\ p = "ui" /\ person[p].clean => report[person[p].id] = page.shown]_vars
    <2>1. SUFFICES ASSUME IInv, NEW p \in People, Write(p), p = "ui", person[p].clean
                   PROVE  report[person[p].id] = page.shown
      OBVIOUS
    <2>2. person[p].pc = "write"
      BY <2>1 DEF Write
    <2>3. QED
      BY <2>1, <2>2 DEF IInv, PeopleKnow
  <1>2. QED
    BY <1>1, ReviewInvariant, PTL DEF Spec, DecidesWhatWasShown
=============================================================================
