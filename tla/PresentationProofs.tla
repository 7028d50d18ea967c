-------------------------- MODULE PresentationProofs --------------------------
(***************************************************************************)
(* What TLAPS proves of Presentation, for any runs, candidates, positions, *)
(* opportunities, assessments, histories and bounds.                       *)
(*                                                                         *)
(* What holds of a position holds of each book: of the branch's and of     *)
(* every run's, whichever head the run began at (Held).  Pushes only hand  *)
(* books over.  That a push takes nothing back needs the second half of    *)
(* the invariant: a run that could still push has a book grown from the    *)
(* one on the branch (Racing).                                             *)
(***************************************************************************)
EXTENDS Presentation, TLAPS

USE DEF At, Mine

HistoryAt(h, p) == {d \in h : PositionOf[d.opportunity] = p}

\* The occurrence this candidate was found in is bound to this position.
Placed(c, p) == \E o \in Opportunity : SovOf[c] \in SovsOf[o] /\ PositionOf[o] = p

HistoryHeld(h, b) ==
  \A p \in Position : b.series[p] # <<>> =>
    \A d \in HistoryAt(h, p) :
      d.meaning = b.series[p][1].meaning /\ <<d.candidate, p>> \in b.supports

LatestHeld(b) ==
  \A p \in Position : b.series[p] # <<>> => b.latest[p] = {Newest(b.series[p]).meaning}

Shows(d) == d.meaning.status \in {"DISPLAY", "DISPLAY_WITH_REVIEW"}

ExclusionHeld(b) ==
  \A p \in Position : \A n \in DOMAIN b.series[p] :
    Shows(b.series[p][n]) /\ ~(n = 1 /\ b.series[p][n].migration # 0) =>
      /\ b.series[p][n].recalls \in DOMAIN b.recall[b.series[p][n].candidate]
      /\ b.recall[b.series[p][n].candidate][b.series[p][n].recalls] # "EXCLUDED"

\* Audits and migrated series name each other.
MigrationHeld(h, b) ==
  /\ \A a \in b.audits :
       /\ HistoryAt(h, a.position) # {}
       /\ ~a.blocked => /\ b.series[a.position] # <<>>
                        /\ b.series[a.position][1].migration = a.anchor
  /\ \A p \in Position : b.series[p] # <<>> =>
       IF HistoryAt(h, p) = {} THEN b.series[p][1].migration = 0
       ELSE b.series[p][1].migration # 0 /\ \E a \in b.audits : a.position = p /\ ~a.blocked

SeriesHeld(b) ==
  \A p \in Position : \A n \in DOMAIN b.series[p] : n > 1 =>
    /\ b.series[p][n].migration = b.series[p][n - 1].migration
    /\ b.series[p][n].meaning # b.series[p][n - 1].meaning

PlaceHeld(b) ==
  /\ \A c \in Candidate, p \in Position : <<c, p>> \in b.supports => Placed(c, p)
  /\ \A p \in Position : \A n \in DOMAIN b.series[p] : Placed(b.series[p][n].candidate, p)

Held(h, b) ==
  /\ b \in Book
  /\ HistoryHeld(h, b) /\ LatestHeld(b) /\ ExclusionHeld(b)
  /\ MigrationHeld(h, b) /\ SeriesHeld(b) /\ PlaceHeld(b)

\* Nothing of b is gone or different in c.
Grown(b, c) ==
  /\ \A p \in Position :
       /\ Len(b.series[p]) <= Len(c.series[p])
       /\ \A n \in DOMAIN b.series[p] : b.series[p][n] = c.series[p][n]
  /\ b.retained \subseteq c.retained
  /\ b.audits \subseteq c.audits
  /\ b.models \subseteq c.models

Racing(r) ==
  /\ run[r].pc # "idle" => run[r].base \in 1 .. remote.head
  /\ run[r].pc \in {"running", "built"} /\ run[r].base = remote.head =>
       Grown(remote.book, run[r].book)

IInv ==
  /\ TypeOK
  /\ Held(legacy, remote.book)
  /\ \A r \in Run : Held(legacy, run[r].book)
  /\ remote.head >= 1
  /\ \A r \in Run : Racing(r)

-----------------------------------------------------------------------------
(* Commands.                                                               *)

\* What a bound command decides is well formed and of the position its
\* candidate was found at.
LEMMA BoundCommand ==
  ASSUME NEW b \in Book, NEW k \in Commands(b), Bound(b, k)
  PROVE  /\ k.candidate \in Candidate
         /\ k.recall \in DOMAIN b.recall[k.candidate]
         /\ Subject(b, k) \in Position
         /\ MeaningOf(b, k) \in Meaning
         /\ Placed(k.candidate, Subject(b, k))
<1>1. /\ k.candidate \in Candidate /\ k.recall \in DOMAIN b.recall[k.candidate]
      /\ k.named \in Opportunity \cup {NoOpportunity}
      /\ k.assessed \in Assessments \cup {NoAssessment}
  BY DEF Commands
<1>2. Recalled(b, k) \in Recall
  BY <1>1 DEF Recalled, Book
<1>3. NoAssessment \in Assessment /\ k.assessed \in Assessment
  BY <1>1, AssessmentAssumption DEF NoAssessment, Assessment, Relevance, Eligibility
<1>4. Counted(b, k) \in Assessment
  BY <1>3 DEF Counted, Assessment, Eligibility
<1>5. Graph(b, k) \in Opportunity
  BY <1>1, <1>4 DEF Bound, Graph, Assessment
<1>6. Subject(b, k) \in Position /\ ContentOf[Graph(b, k)] \in Content
  BY <1>5, SubjectAssumption DEF Subject
<1>7. StatusOf(b, k) \in Status
  BY DEF StatusOf, Status
<1>8. MeaningOf(b, k) \in Meaning
  BY <1>2, <1>4, <1>6, <1>7 DEF MeaningOf, Meaning, Assessment
<1>9. Placed(k.candidate, Subject(b, k))
  BY <1>5 DEF Placed, Bound, Subject
<1> QED
  BY <1>1, <1>6, <1>8, <1>9

\* What is shown is not excluded.
LEMMA ShownNotExcluded ==
  ASSUME NEW b, NEW k,
         MeaningOf(b, k).status \in {"DISPLAY", "DISPLAY_WITH_REVIEW"}
  PROVE  Recalled(b, k) # "EXCLUDED"
BY DEF MeaningOf, StatusOf

-----------------------------------------------------------------------------
(* Growth.                                                                 *)

LEMMA GrownSelf ==
  ASSUME NEW b \in Book
  PROVE  Grown(b, b)
BY DEF Grown, Book

LEMMA GrownOn ==
  ASSUME NEW a \in Book, NEW b \in Book, NEW c \in Book, Grown(a, b), Grown(b, c)
  PROVE  Grown(a, c)
<1>1. ASSUME NEW p \in Position
      PROVE  /\ Len(a.series[p]) <= Len(c.series[p])
             /\ \A n \in DOMAIN a.series[p] : a.series[p][n] = c.series[p][n]
  <2>1. /\ a.series[p] \in Seq(Revision) /\ b.series[p] \in Seq(Revision)
        /\ c.series[p] \in Seq(Revision)
    BY DEF Book
  <2>2. /\ Len(a.series[p]) <= Len(b.series[p]) /\ Len(b.series[p]) <= Len(c.series[p])
        /\ \A n \in DOMAIN a.series[p] : a.series[p][n] = b.series[p][n]
        /\ \A n \in DOMAIN b.series[p] : b.series[p][n] = c.series[p][n]
    BY DEF Grown
  <2>3. DOMAIN a.series[p] \subseteq DOMAIN b.series[p]
    BY <2>1, <2>2
  <2> QED
    BY <2>1, <2>2, <2>3
<1> QED
  BY <1>1 DEF Grown

-----------------------------------------------------------------------------
(* What a command makes of a book, before who executes it.                 *)

\* What does not touch the series leaves alone what rests on the rest of the book
\* that stays.
LEMMA Unaffected ==
  ASSUME NEW h, NEW b, Held(h, b), NEW new, new.series = b.series
  PROVE  /\ b.supports \subseteq new.supports => HistoryHeld(h, new)
         /\ new.latest = b.latest => LatestHeld(new)
         /\ new.recall = b.recall => ExclusionHeld(new)
         /\ new.audits = b.audits => MigrationHeld(h, new)
         /\ SeriesHeld(new)
         /\ new.supports = b.supports => PlaceHeld(new)
<1>1. /\ HistoryHeld(h, b) /\ LatestHeld(b) /\ ExclusionHeld(b)
      /\ MigrationHeld(h, b) /\ SeriesHeld(b) /\ PlaceHeld(b)
  BY DEF Held
<1>2. b.supports \subseteq new.supports => HistoryHeld(h, new)
  BY <1>1 DEF HistoryHeld
<1>3. new.latest = b.latest => LatestHeld(new)
  BY <1>1 DEF LatestHeld
<1>4. new.recall = b.recall => ExclusionHeld(new)
  BY <1>1 DEF ExclusionHeld
<1>5. new.audits = b.audits => MigrationHeld(h, new)
  BY <1>1 DEF MigrationHeld
<1>6. SeriesHeld(new)
  BY <1>1 DEF SeriesHeld
<1>7. new.supports = b.supports => PlaceHeld(new)
  BY <1>1 DEF PlaceHeld
<1> QED
  BY <1>2, <1>3, <1>4, <1>5, <1>6, <1>7

LEMMA RetainHolds ==
  ASSUME NEW h, NEW b, Held(h, b), NEW c \in Candidate,
         NEW new, new = [b EXCEPT !.retained = @ \cup {c}]
  PROVE  Held(h, new) /\ Grown(b, new)
<1>1. new \in Book
  BY DEF Held, Book
<1>2. /\ new.recall = b.recall /\ new.series = b.series /\ new.audits = b.audits
      /\ new.supports = b.supports /\ new.latest = b.latest /\ new.models = b.models
      /\ new.retained = b.retained \cup {c}
  BY DEF Held, Book
<1>3. Held(h, new)
  BY <1>1, <1>2, Unaffected DEF Held
<1> QED
  BY <1>2, <1>3, GrownSelf DEF Grown, Held

LEMMA MaterializeHolds ==
  ASSUME NEW h, NEW b, Held(h, b), NEW p \in Position, NEW n \in Nat,
         NEW new, new = [b EXCEPT !.models = @ \cup {<<p, n>>}]
  PROVE  Held(h, new) /\ Grown(b, new)
<1>1. new \in Book
  <2>1. b \in Book
    BY DEF Held
  <2>2. b.models \cup {<<p, n>>} \in SUBSET (Position \X Nat)
    BY <2>1 DEF Book
  <2> QED
    BY <2>1, <2>2 DEF Book
<1>2. /\ new.recall = b.recall /\ new.series = b.series /\ new.audits = b.audits
      /\ new.supports = b.supports /\ new.latest = b.latest /\ new.retained = b.retained
      /\ new.models = b.models \cup {<<p, n>>}
  BY DEF Held, Book
<1>3. Held(h, new)
  BY <1>1, <1>2, Unaffected DEF Held
<1> QED
  BY <1>2, <1>3, GrownSelf DEF Grown, Held

\* Dispositions are only appended, so what a revision refers to stays.
LEMMA ReviseHolds ==
  ASSUME NEW h, NEW b, Held(h, b), NEW c \in Candidate, NEW s \in Recall,
         NEW new, new = [b EXCEPT !.recall[c] = Append(@, s)]
  PROVE  Held(h, new) /\ Grown(b, new)
<1>1. new \in Book
  <2>1. b \in Book
    BY DEF Held
  <2>2. b.recall \in [Candidate -> Seq(Recall)]
    BY <2>1 DEF Book
  <2>3. Append(b.recall[c], s) \in Seq(Recall)
    BY <2>2
  <2>4. [b.recall EXCEPT ![c] = Append(@, s)] \in [Candidate -> Seq(Recall)]
    BY <2>2, <2>3
  <2> QED
    BY <2>1, <2>4 DEF Book
<1>2. /\ new.series = b.series /\ new.audits = b.audits /\ new.models = b.models
      /\ new.supports = b.supports /\ new.latest = b.latest /\ new.retained = b.retained
      /\ new.recall = [b.recall EXCEPT ![c] = Append(@, s)]
  BY DEF Held, Book
<1>3. ASSUME NEW x \in Candidate, NEW n \in DOMAIN b.recall[x]
      PROVE  n \in DOMAIN new.recall[x] /\ new.recall[x][n] = b.recall[x][n]
  <2>1. b.recall \in [Candidate -> Seq(Recall)]
    BY DEF Held, Book
  <2>2. CASE x = c
    <3>1. b.recall[c] \in Seq(Recall) /\ new.recall[c] = Append(b.recall[c], s)
      BY <1>2, <2>1
    <3>2. n \in 1 .. Len(b.recall[c]) /\ n \in 1 .. Len(Append(b.recall[c], s))
      BY <2>2, <3>1
    <3> QED
      BY <2>2, <3>1, <3>2
  <2>3. CASE x # c
    BY <1>2, <2>1, <2>3
  <2> QED
    BY <2>2, <2>3
<1>4. ExclusionHeld(new)
  <2> SUFFICES ASSUME NEW p \in Position, NEW n \in DOMAIN b.series[p],
                      Shows(b.series[p][n]) /\ ~(n = 1 /\ b.series[p][n].migration # 0)
               PROVE  /\ b.series[p][n].recalls \in DOMAIN new.recall[b.series[p][n].candidate]
                      /\ new.recall[b.series[p][n].candidate][b.series[p][n].recalls]
                           # "EXCLUDED"
    BY <1>2 DEF ExclusionHeld
  <2>1. b.series[p][n].candidate \in Candidate
    <3>1. b.series[p] \in Seq(Revision)
      BY DEF Held, Book
    <3>2. b.series[p][n] \in Revision
      BY <3>1
    <3> QED
      BY <3>2 DEF Revision
  <2>2. /\ b.series[p][n].recalls \in DOMAIN b.recall[b.series[p][n].candidate]
        /\ b.recall[b.series[p][n].candidate][b.series[p][n].recalls] # "EXCLUDED"
    <3>1. ExclusionHeld(b)
      BY DEF Held
    <3> QED
      BY <3>1 DEF ExclusionHeld
  <2> QED
    BY <1>3, <2>1, <2>2
<1>5. Held(h, new)
  BY <1>1, <1>2, <1>4, Unaffected DEF Held
<1> QED
  BY <1>2, <1>5, GrownSelf DEF Grown, Held

\* Only an audit, of a position with a history and without a series.
LEMMA BlockedHolds ==
  ASSUME NEW h, NEW b, Held(h, b), NEW p \in Position, NEW n \in Nat,
         HistoryAt(h, p) # {},
         NEW new,
         new = [b EXCEPT !.audits =
                  @ \cup {[position |-> p, anchor |-> n, blocked |-> TRUE]}]
  PROVE  Held(h, new) /\ Grown(b, new)
<1> DEFINE a == [position |-> p, anchor |-> n, blocked |-> TRUE]
<1>1. a \in Audit /\ a.position = p /\ a.blocked
  BY DEF Audit
<1>2. new \in Book
  BY <1>1 DEF Held, Book
<1>3. /\ new.recall = b.recall /\ new.series = b.series /\ new.models = b.models
      /\ new.supports = b.supports /\ new.latest = b.latest /\ new.retained = b.retained
      /\ new.audits = b.audits \cup {a}
  BY DEF Held, Book
<1>4. MigrationHeld(h, new)
  BY <1>1, <1>3 DEF Held, MigrationHeld
<1>5. Held(h, new)
  BY <1>2, <1>3, <1>4, Unaffected DEF Held
<1> QED
  BY <1>3, <1>5, GrownSelf DEF Grown, Held

LEMMA ReuseHolds ==
  ASSUME NEW h, NEW b, Held(h, b), NEW k \in Commands(b), Bound(b, k),
         Heads(b, Subject(b, k), MeaningOf(b, k)),
         NEW new, new = Supported(b, k.candidate, Subject(b, k), MeaningOf(b, k))
  PROVE  Held(h, new) /\ Grown(b, new)
<1> DEFINE p == Subject(b, k)
           m == MeaningOf(b, k)
<1>1. /\ b \in Book /\ k.candidate \in Candidate /\ p \in Position /\ m \in Meaning
      /\ Placed(k.candidate, p)
  BY BoundCommand DEF Held
<1> HIDE DEF p, m
<1>2. /\ new.recall = b.recall /\ new.series = b.series /\ new.models = b.models
      /\ new.audits = b.audits /\ new.retained = b.retained
      /\ new.supports = b.supports \cup {<<k.candidate, p>>}
      /\ new.latest = [b.latest EXCEPT ![p] = {m}]
  BY <1>1 DEF Supported, Book, p, m
<1>3. new \in Book
  <2>1. b.supports \cup {<<k.candidate, p>>} \in SUBSET (Candidate \X Position)
    BY <1>1 DEF Book
  <2>2. [b.latest EXCEPT ![p] = {m}] \in [Position -> SUBSET Meaning]
    BY <1>1 DEF Book
  <2> QED
    BY <1>1, <2>1, <2>2 DEF Supported, Book, p, m
<1>4. LatestHeld(new)
  <2>1. b.series[p] # <<>> /\ Newest(b.series[p]).meaning = m
    BY DEF Heads, p, m
  <2>2. b.latest \in [Position -> SUBSET Meaning]
    BY <1>1 DEF Book
  <2> QED
    BY <1>1, <1>2, <2>1, <2>2 DEF Held, LatestHeld
<1>5. PlaceHeld(new)
  BY <1>1, <1>2 DEF Held, PlaceHeld
<1>6. HistoryHeld(h, new)
  BY <1>2, Unaffected
<1>7. ExclusionHeld(new) /\ MigrationHeld(h, new) /\ SeriesHeld(new)
  BY <1>2, Unaffected
<1>8. Held(h, new)
  BY <1>3, <1>4, <1>5, <1>6, <1>7 DEF Held
<1> QED
  BY <1>1, <1>2, <1>8, GrownSelf DEF Grown

\* A series that gets one revision more.
LEMMA OneMore ==
  ASSUME NEW s \in Seq(Revision), NEW r \in Revision
  PROVE  /\ Append(s, r) \in Seq(Revision) /\ Append(s, r) # <<>>
         /\ DOMAIN Append(s, r) = DOMAIN s \cup {Len(s) + 1}
         /\ Len(s) < Len(Append(s, r))
         /\ Len(s) + 1 \notin DOMAIN s
         /\ Newest(Append(s, r)) = r /\ Append(s, r)[Len(s) + 1] = r
         /\ \A n \in DOMAIN s : Append(s, r)[n] = s[n] /\ n \in Nat \ {0}
         /\ s # <<>> => /\ 1 \in DOMAIN s /\ Append(s, r)[1] = s[1]
                        /\ Len(s) \in DOMAIN s
         /\ s = <<>> => Append(s, r)[1] = r /\ Len(s) = 0
BY DEF Newest

\* What Issue appends, and the book it leaves.
Revised(b, k) ==
  [candidate |-> k.candidate, recalls |-> Len(b.recall[k.candidate]),
   meaning |-> MeaningOf(b, k),
   migration |-> IF b.series[Subject(b, k)] = <<>> THEN 0
                 ELSE Newest(b.series[Subject(b, k)]).migration]
Issued(b, k) ==
  [Supported(b, k.candidate, Subject(b, k), MeaningOf(b, k))
     EXCEPT !.series[Subject(b, k)] = Append(@, Revised(b, k))]

LEMMA IssueHolds ==
  ASSUME NEW h, NEW b, Held(h, b), NEW k \in Commands(b), Admitted(b, k), Bound(b, k),
         b.series[Subject(b, k)] # <<>> \/ HistoryAt(h, Subject(b, k)) = {},
         ~Heads(b, Subject(b, k), MeaningOf(b, k))
  PROVE  Held(h, Issued(b, k)) /\ Grown(b, Issued(b, k))
<1> DEFINE p == Subject(b, k)
           m == MeaningOf(b, k)
           new == Issued(b, k)
           revision == Revised(b, k)
           s == b.series[p]
           t == Append(s, revision)
<1>0. /\ s # <<>> \/ HistoryAt(h, p) = {}
      /\ s # <<>> => s[Len(s)].meaning # m
  BY DEF Heads, Newest
<1>1. /\ b \in Book /\ k.candidate \in Candidate /\ k.recall \in DOMAIN b.recall[k.candidate]
      /\ p \in Position /\ m \in Meaning /\ Placed(k.candidate, p)
  BY BoundCommand DEF Held
<1>2. s \in Seq(Revision) /\ b.recall[k.candidate] \in Seq(Recall)
  BY <1>1 DEF Book
<1>3. revision \in Revision
  <2>1. Len(b.recall[k.candidate]) \in Nat
    BY <1>2
  <2>2. s # <<>> => Newest(s).migration \in Nat
    <3> SUFFICES ASSUME s # <<>> PROVE s[Len(s)] \in Revision
      BY DEF Newest, Revision
    <3> QED
      BY <1>2
  <2> QED
    BY <1>1, <2>1, <2>2 DEF Revision, Revised
<1>4. /\ t \in Seq(Revision) /\ t # <<>> /\ DOMAIN t = DOMAIN s \cup {Len(s) + 1}
      /\ Len(s) < Len(t) /\ Len(s) + 1 \notin DOMAIN s
      /\ Newest(t) = revision /\ t[Len(s) + 1] = revision
      /\ \A n \in DOMAIN s : t[n] = s[n] /\ n \in Nat \ {0}
      /\ s # <<>> => 1 \in DOMAIN s /\ t[1] = s[1] /\ Len(s) \in DOMAIN s
      /\ s = <<>> => t[1] = revision /\ Len(s) = 0
  BY <1>2, <1>3, OneMore
<1>5. /\ new.recall = b.recall /\ new.models = b.models
      /\ new.audits = b.audits /\ new.retained = b.retained
      /\ new.supports = b.supports \cup {<<k.candidate, p>>}
      /\ new.latest = [b.latest EXCEPT ![p] = {m}]
      /\ new.series = [b.series EXCEPT ![p] = t]
  BY <1>1 DEF Supported, Book, Issued
<1>6. new \in Book
  <2>1. b.supports \cup {<<k.candidate, p>>} \in SUBSET (Candidate \X Position)
    BY <1>1 DEF Book
  <2>2. [b.latest EXCEPT ![p] = {m}] \in [Position -> SUBSET Meaning]
    BY <1>1 DEF Book
  <2>3. [b.series EXCEPT ![p] = t] \in [Position -> Seq(Revision)]
    BY <1>1, <1>4 DEF Book
  <2> QED
    BY <1>1, <2>1, <2>2, <2>3 DEF Supported, Book, Issued
<1>7. /\ new.series[p] = t /\ new.latest[p] = {m}
      /\ \A q \in Position \ {p} : new.series[q] = b.series[q] /\ new.latest[q] = b.latest[q]
  BY <1>1, <1>5 DEF Book
<1>8. revision.meaning = m /\ revision.candidate = k.candidate
      /\ revision.recalls = Len(b.recall[k.candidate])
      /\ revision.migration = IF s = <<>> THEN 0 ELSE s[Len(s)].migration
  BY DEF Newest, Revised
<1>a. ASSUME NEW q \in Position, NEW n \in DOMAIN new.series[q]
      PROVE  \/ q = p /\ n = Len(s) + 1 /\ new.series[q][n] = revision
             \/ n \in DOMAIN b.series[q] /\ new.series[q][n] = b.series[q][n]
  <2>1. CASE q = p
    BY <1>4, <1>7, <2>1
  <2>2. CASE q # p
    BY <1>7, <2>2
  <2> QED
    BY <2>1, <2>2
<1>b. \A q \in Position : b.series[q] # <<>> =>
        new.series[q] # <<>> /\ new.series[q][1] = b.series[q][1]
  BY <1>4, <1>7
<1> HIDE DEF p, m, new, revision, s, t
<1>9. HistoryHeld(h, new)
  <2> SUFFICES ASSUME NEW q \in Position, new.series[q] # <<>>, NEW d \in HistoryAt(h, q)
               PROVE  /\ d.meaning = new.series[q][1].meaning
                      /\ <<d.candidate, q>> \in new.supports
    BY DEF HistoryHeld
  <2>1. b.series[q] # <<>>
    BY <1>0, <1>7 DEF s
  <2> QED
    BY <1>5, <1>b, <2>1 DEF Held, HistoryHeld
<1>10. LatestHeld(new)
  <2> SUFFICES ASSUME NEW q \in Position, new.series[q] # <<>>
               PROVE  new.latest[q] = {Newest(new.series[q]).meaning}
    BY DEF LatestHeld
  <2>1. CASE q = p
    BY <1>4, <1>7, <1>8, <2>1
  <2>2. CASE q # p
    <3>1. new.series[q] = b.series[q] /\ new.latest[q] = b.latest[q]
      BY <1>7, <2>2
    <3> QED
      BY <3>1 DEF Held, LatestHeld
  <2> QED
    BY <2>1, <2>2
<1>11. ExclusionHeld(new)
  <2> SUFFICES ASSUME NEW q \in Position, NEW n \in DOMAIN new.series[q],
                      Shows(new.series[q][n]) /\ ~(n = 1 /\ new.series[q][n].migration # 0)
               PROVE  /\ new.series[q][n].recalls
                           \in DOMAIN new.recall[new.series[q][n].candidate]
                      /\ new.recall[new.series[q][n].candidate][new.series[q][n].recalls]
                           # "EXCLUDED"
    BY DEF ExclusionHeld
  <2>1. CASE new.series[q][n] = revision
    <3>1. k.recall = Len(b.recall[k.candidate])
      BY DEF Admitted
    <3>2. m.status \in {"DISPLAY", "DISPLAY_WITH_REVIEW"}
      BY <1>8, <2>1 DEF Shows
    <3>3. b.recall[k.candidate][k.recall] # "EXCLUDED"
      BY <3>2, ShownNotExcluded DEF Recalled, m
    <3> QED
      BY <1>1, <1>5, <1>8, <2>1, <3>1, <3>3
  <2>2. CASE n \in DOMAIN b.series[q] /\ new.series[q][n] = b.series[q][n]
    <3>1. /\ b.series[q][n].recalls \in DOMAIN b.recall[b.series[q][n].candidate]
          /\ b.recall[b.series[q][n].candidate][b.series[q][n].recalls] # "EXCLUDED"
      BY <2>2 DEF Held, ExclusionHeld
    <3> QED
      BY <1>5, <2>2, <3>1
  <2> QED
    BY <1>a, <2>1, <2>2
<1>12. MigrationHeld(h, new)
  <2>1. \A a \in b.audits : a.position \in Position
    BY <1>1 DEF Book, Audit
  <2>2. s = <<>> => HistoryAt(h, p) = {} /\ new.series[p][1].migration = 0
    BY <1>0, <1>4, <1>7, <1>8
  <2>3. \A a \in new.audits :
          /\ HistoryAt(h, a.position) # {}
          /\ ~a.blocked => /\ new.series[a.position] # <<>>
                           /\ new.series[a.position][1].migration = a.anchor
    BY <1>5, <1>b, <2>1 DEF Held, MigrationHeld
  <2>4. ASSUME NEW q \in Position, b.series[q] # <<>>
        PROVE  IF HistoryAt(h, q) = {} THEN new.series[q][1].migration = 0
               ELSE /\ new.series[q][1].migration # 0
                    /\ \E a \in new.audits : a.position = q /\ ~a.blocked
    BY <1>5, <1>b, <2>4 DEF Held, MigrationHeld
  <2>5. \A q \in Position : new.series[q] # <<>> => b.series[q] # <<>> \/ q = p
    BY <1>7
  <2>6. s = <<>> \/ b.series[p] # <<>>
    BY DEF s
  <2> QED
    BY <2>2, <2>3, <2>4, <2>5, <2>6 DEF MigrationHeld
<1>13. SeriesHeld(new)
  <2> SUFFICES ASSUME NEW q \in Position, NEW n \in DOMAIN new.series[q], n > 1
               PROVE  /\ new.series[q][n].migration = new.series[q][n - 1].migration
                      /\ new.series[q][n].meaning # new.series[q][n - 1].meaning
    BY DEF SeriesHeld
  <2>1. CASE q = p /\ n = Len(s) + 1 /\ new.series[q][n] = revision
    <3>1. s # <<>> /\ n - 1 = Len(s) /\ t[n - 1] = s[Len(s)]
      BY <1>2, <1>4, <2>1
    <3>2. new.series[q][n - 1] = s[Len(s)]
      BY <1>7, <2>1, <3>1
    <3> QED
      BY <1>0, <1>8, <2>1, <3>1, <3>2
  <2>2. CASE n \in DOMAIN b.series[q] /\ new.series[q][n] = b.series[q][n]
    <3>1. b.series[q] \in Seq(Revision)
      BY <1>1 DEF Book
    <3>2. n - 1 \in DOMAIN b.series[q] /\ n - 1 \in DOMAIN new.series[q]
      <4>1. new.series[q] \in Seq(Revision)
        BY <1>6 DEF Book
      <4> QED
        BY <2>2, <3>1, <4>1
    <3>3. new.series[q][n - 1] = b.series[q][n - 1]
      <4>1. q = p => n - 1 # Len(s) + 1
        BY <1>2, <2>2, <3>2 DEF s
      <4> QED
        BY <1>a, <3>2, <4>1
    <3> QED
      BY <2>2, <3>3 DEF Held, SeriesHeld
  <2> QED
    BY <1>a, <2>1, <2>2
<1>14. PlaceHeld(new)
  <2>1. \A c \in Candidate, q \in Position : <<c, q>> \in new.supports => Placed(c, q)
    BY <1>1, <1>5 DEF Held, PlaceHeld
  <2> SUFFICES ASSUME NEW q \in Position, NEW n \in DOMAIN new.series[q]
               PROVE  Placed(new.series[q][n].candidate, q)
    BY <2>1 DEF PlaceHeld
  <2>2. CASE q = p /\ new.series[q][n] = revision
    BY <1>1, <1>8, <2>2
  <2>3. CASE n \in DOMAIN b.series[q] /\ new.series[q][n] = b.series[q][n]
    BY <2>3 DEF Held, PlaceHeld
  <2> QED
    BY <1>a, <2>2, <2>3
<1>15. Held(h, new)
  BY <1>6, <1>9, <1>10, <1>11, <1>12, <1>13, <1>14 DEF Held
<1>16. Grown(b, new)
  <2>1. \A q \in Position : b.series[q] \in Seq(Revision)
    BY <1>1 DEF Book
  <2>2. \A q \in Position : /\ Len(b.series[q]) <= Len(new.series[q])
                           /\ \A n \in DOMAIN b.series[q] :
                                b.series[q][n] = new.series[q][n]
    <3> SUFFICES ASSUME NEW q \in Position
                 PROVE  /\ Len(b.series[q]) <= Len(new.series[q])
                        /\ \A n \in DOMAIN b.series[q] : b.series[q][n] = new.series[q][n]
      OBVIOUS
    <3>1. CASE q = p
      <4>1. Len(s) \in Nat /\ Len(t) \in Nat
        BY <1>2, <1>4
      <4> QED
        BY <1>4, <1>7, <3>1, <4>1 DEF s
    <3>2. CASE q # p
      <4>1. new.series[q] = b.series[q] /\ Len(b.series[q]) \in Nat
        BY <1>7, <2>1, <3>2
      <4> QED
        BY <4>1
    <3> QED
      BY <3>1, <3>2
  <2> QED
    BY <1>5, <2>2 DEF Grown
<1> QED
  BY <1>15, <1>16 DEF new

LEMMA MigrateHolds ==
  ASSUME NEW h \in Histories, NEW b, Held(h, b), NEW p \in Position,
         NEW n \in Nat \ {0},
         b.series[p] = <<>>,
         \A d \in HistoryAt(h, p) :
           /\ SovOf[d.candidate] \in SovsOf[d.opportunity]
           /\ \A e \in HistoryAt(h, p) : e.meaning = d.meaning,
         NEW d \in HistoryAt(h, p),
         NEW first,
         first = [candidate |-> d.candidate, recalls |-> 1, meaning |-> d.meaning,
                  migration |-> n],
         NEW new,
         new = [b EXCEPT
                  !.series[p] = <<first>>, !.models = @ \cup {<<p, 1>>},
                  !.audits = @ \cup {[position |-> p, anchor |-> n, blocked |-> FALSE]},
                  !.supports = @ \cup {<<e.candidate, p>> : e \in HistoryAt(h, p)},
                  !.latest[p] = {d.meaning}]
  PROVE  Held(h, new) /\ Grown(b, new)
<1> DEFINE a == [position |-> p, anchor |-> n, blocked |-> FALSE]
           S == {<<e.candidate, p>> : e \in HistoryAt(h, p)}
<1>1. \A e \in HistoryAt(h, p) :
        /\ e.candidate \in Candidate /\ e.meaning \in Meaning
        /\ e.opportunity \in Opportunity /\ PositionOf[e.opportunity] = p
  BY AssessmentAssumption DEF HistoryAt
<1>2. \A e \in HistoryAt(h, p) : Placed(e.candidate, p)
  BY <1>1 DEF Placed
<1>3. first \in Revision /\ a \in Audit /\ b \in Book
  BY <1>1 DEF Revision, Audit, Held
<1>4. <<first>> \in Seq(Revision) /\ <<first>> # <<>> /\ DOMAIN <<first>> = {1}
      /\ <<first>>[1] = first /\ Len(<<first>>) = 1
  BY <1>3
<1>5. /\ new.recall = b.recall /\ new.retained = b.retained
      /\ new.models = b.models \cup {<<p, 1>>}
      /\ new.audits = b.audits \cup {a}
      /\ new.supports = b.supports \cup S
      /\ new.latest = [b.latest EXCEPT ![p] = {d.meaning}]
      /\ new.series = [b.series EXCEPT ![p] = <<first>>]
  BY <1>3 DEF Book
<1>6. new \in Book
  <2>1. b.supports \cup S \in SUBSET (Candidate \X Position)
    BY <1>1, <1>3 DEF Book
  <2>2. [b.latest EXCEPT ![p] = {d.meaning}] \in [Position -> SUBSET Meaning]
    BY <1>1, <1>3 DEF Book
  <2>3. [b.series EXCEPT ![p] = <<first>>] \in [Position -> Seq(Revision)]
    BY <1>3, <1>4 DEF Book
  <2>4. b.models \cup {<<p, 1>>} \in SUBSET (Position \X Nat)
    BY <1>3 DEF Book
  <2>5. b.audits \cup {a} \in SUBSET Audit
    BY <1>3 DEF Book
  <2> QED
    BY <1>3, <2>1, <2>2, <2>3, <2>4, <2>5 DEF Book
<1>7. /\ new.series[p] = <<first>> /\ new.latest[p] = {d.meaning}
      /\ \A q \in Position \ {p} : new.series[q] = b.series[q] /\ new.latest[q] = b.latest[q]
  BY <1>3, <1>5 DEF Book
<1>8. /\ first.candidate = d.candidate /\ first.meaning = d.meaning /\ first.migration = n
      /\ a.position = p /\ a.anchor = n /\ ~a.blocked
  OBVIOUS
<1> HIDE DEF a
<1>9. HistoryHeld(h, new)
  <2>1. \A e \in HistoryAt(h, p) : e.meaning = d.meaning /\ <<e.candidate, p>> \in S
    OBVIOUS
  <2> QED
    BY <1>4, <1>5, <1>7, <1>8, <2>1 DEF Held, HistoryHeld
<1>10. LatestHeld(new)
  BY <1>4, <1>7, <1>8 DEF Held, LatestHeld, Newest
<1>11. ExclusionHeld(new)
  <2> SUFFICES ASSUME NEW q \in Position, NEW i \in DOMAIN new.series[q],
                      Shows(new.series[q][i]) /\ ~(i = 1 /\ new.series[q][i].migration # 0)
               PROVE  /\ new.series[q][i].recalls
                           \in DOMAIN new.recall[new.series[q][i].candidate]
                      /\ new.recall[new.series[q][i].candidate][new.series[q][i].recalls]
                           # "EXCLUDED"
    BY DEF ExclusionHeld
  <2>1. q # p
    BY <1>4, <1>7, <1>8
  <2>2. i \in DOMAIN b.series[q] /\ new.series[q][i] = b.series[q][i]
    BY <1>7, <2>1
  <2>3. /\ b.series[q][i].recalls \in DOMAIN b.recall[b.series[q][i].candidate]
        /\ b.recall[b.series[q][i].candidate][b.series[q][i].recalls] # "EXCLUDED"
    BY <2>2 DEF Held, ExclusionHeld
  <2> QED
    BY <1>5, <2>2, <2>3
<1>12. MigrationHeld(h, new)
  <2>1. \A x \in b.audits :
          /\ HistoryAt(h, x.position) # {}
          /\ ~x.blocked => /\ x.position # p /\ new.series[x.position] # <<>>
                           /\ new.series[x.position][1].migration = x.anchor
    BY <1>3, <1>7 DEF Held, MigrationHeld, Book, Audit
  <2>2. \A q \in Position \ {p} : new.series[q] # <<>> =>
          IF HistoryAt(h, q) = {} THEN new.series[q][1].migration = 0
          ELSE /\ new.series[q][1].migration # 0
               /\ \E x \in new.audits : x.position = q /\ ~x.blocked
    BY <1>5, <1>7 DEF Held, MigrationHeld
  <2> QED
    BY <1>4, <1>5, <1>7, <1>8, <2>1, <2>2 DEF MigrationHeld
<1>13. SeriesHeld(new)
  BY <1>4, <1>7 DEF Held, SeriesHeld
<1>14. PlaceHeld(new)
  <2>1. \A c \in Candidate, q \in Position : <<c, q>> \in S => q = p /\ Placed(c, q)
    BY <1>2
  <2>2. \A c \in Candidate, q \in Position : <<c, q>> \in new.supports => Placed(c, q)
    BY <1>5, <2>1 DEF Held, PlaceHeld
  <2> SUFFICES ASSUME NEW q \in Position, NEW i \in DOMAIN new.series[q]
               PROVE  Placed(new.series[q][i].candidate, q)
    BY <2>2 DEF PlaceHeld
  <2>3. CASE q = p
    <3>1. new.series[q][i] = first
      BY <1>4, <1>7, <2>3
    <3> QED
      BY <1>2, <1>8, <2>3, <3>1
  <2>4. CASE q # p
    BY <1>7, <2>4 DEF Held, PlaceHeld
  <2> QED
    BY <2>3, <2>4
<1>15. Held(h, new)
  BY <1>6, <1>9, <1>10, <1>11, <1>12, <1>13, <1>14 DEF Held
<1>16. Grown(b, new)
  <2>1. \A q \in Position : b.series[q] \in Seq(Revision)
    BY <1>3 DEF Book
  <2>2. Len(b.series[p]) = 0 /\ DOMAIN b.series[p] = {}
    OBVIOUS
  <2> QED
    BY <1>4, <1>5, <1>7, <2>1, <2>2 DEF Grown
<1> QED
  BY <1>15, <1>16

-----------------------------------------------------------------------------
(* Steps of runs.                                                          *)

RunType == [pc : Pc, base : Nat, book : Book, commands : Nat, produced : BOOLEAN]

\* What a run becomes, with nothing else happening.
LEMMA Becoming ==
  ASSUME TypeOK, NEW r \in Run, NEW v, Become(r, v)
  PROVE  /\ run'[r] = v
         /\ \A q \in Run \ {r} : run'[q] = run[q]
         /\ v \in RunType => run' \in [Run -> RunType]
BY DEF TypeOK, Become, RunType

LEMMA RunUpdated ==
  ASSUME NEW x \in RunType, NEW b \in Book, NEW n \in Nat, NEW g \in BOOLEAN
  PROVE  [x EXCEPT !.book = b, !.commands = n, !.produced = g] \in RunType
BY DEF RunType

LEMMA Written ==
  ASSUME TypeOK, NEW r \in Run, NEW b \in Book, NEW f \in BOOLEAN, Write(r, b, f),
         At(r, "running")
  PROVE  /\ run'[r] \in RunType /\ run'[r].book = b
         /\ run'[r].pc = "running" /\ run'[r].base = run[r].base
         /\ UNCHANGED <<legacy, remote>>
         /\ \E v : Become(r, v)
<1>1. run[r] \in RunType
  BY DEF TypeOK, RunType
<1> DEFINE g == run[r].produced \/ f
           v == [run[r] EXCEPT !.book = b, !.commands = @ + 1, !.produced = g]
<1>2. Become(r, v) /\ UNCHANGED <<legacy, remote>>
  BY DEF Write
<1>3. g \in BOOLEAN
  BY <1>1 DEF RunType
<1> HIDE DEF g
<1>4. v \in RunType
  <2>1. run[r].commands + 1 \in Nat
    BY <1>1 DEF RunType
  <2> QED
    BY <1>1, <1>3, <2>1, RunUpdated
<1>6. v.book = b /\ v.pc = "running" /\ v.base = run[r].base
  BY <1>1 DEF RunType
<1>5. run'[r] = v
  BY <1>2, Becoming
<1> QED
  BY <1>2, <1>4, <1>5, <1>6

\* Each command leaves a book that holds, grown from the one before.
LEMMA CommandHolds ==
  ASSUME TypeOK, NEW r \in Run, Held(legacy, run[r].book),
         run[r].pc # "idle" => run[r].base >= 1,
         Publish(r) \/ Retain(r)
  PROVE  \E b \in Book, f \in BOOLEAN :
           /\ At(r, "running") /\ Write(r, b, f)
           /\ Held(legacy, b) /\ Grown(run[r].book, b)
<1> DEFINE mine == run[r].book
           Goal == \E b \in Book, f \in BOOLEAN :
                     /\ At(r, "running") /\ Write(r, b, f)
                     /\ Held(legacy, b) /\ Grown(mine, b)
<1>0. \A p : LegacyAt(p) = HistoryAt(legacy, p)
  BY DEF LegacyAt, HistoryAt
<1>a. /\ mine \in Book /\ legacy \in Histories
      /\ TRUE \in BOOLEAN /\ FALSE \in BOOLEAN
      /\ run[r].base \in Nat
  BY DEF Held, TypeOK
<1>1. CASE Retain(r)
  <2>1. PICK k \in Commands(mine) :
          /\ At(r, "running")
          /\ Write(r, [mine EXCEPT !.retained = @ \cup {k.candidate}], TRUE)
    BY <1>1 DEF Retain
  <2>2. k.candidate \in Candidate
    BY DEF Commands
  <2> QED
    BY <2>1, <2>2, <1>a, RetainHolds DEF Held
<1>2. CASE Reuse(r)
  <2>1. PICK k \in Commands(mine) :
          /\ At(r, "running") /\ Bound(mine, k)
          /\ Heads(mine, Subject(mine, k), MeaningOf(mine, k))
          /\ Write(r, Supported(mine, k.candidate, Subject(mine, k), MeaningOf(mine, k)), FALSE)
    BY <1>2 DEF Reuse
  <2> DEFINE new == Supported(mine, k.candidate, Subject(mine, k), MeaningOf(mine, k))
  <2>2. Held(legacy, new) /\ Grown(mine, new)
    BY <2>1, ReuseHolds
  <2> HIDE DEF new
  <2>3. new \in Book
    BY <2>2 DEF Held
  <2>4. Write(r, new, FALSE)
    BY <2>1 DEF new
  <2> QED
    BY <2>1, <2>2, <2>3, <2>4, <1>a
<1>3. CASE Issue(r)
  <2>1. PICK k \in Commands(mine) :
          /\ At(r, "running") /\ Admitted(mine, k) /\ Bound(mine, k)
          /\ SeriesOpen(mine, Subject(mine, k))
          /\ ~Heads(mine, Subject(mine, k), MeaningOf(mine, k))
          /\ Write(r, Issued(mine, k), FALSE)
    BY <1>3 DEF Issue, Issued, Revised
  <2>2. mine.series[Subject(mine, k)] # <<>> \/ HistoryAt(legacy, Subject(mine, k)) = {}
    BY <2>1, <1>0 DEF SeriesOpen
  <2>3. Held(legacy, Issued(mine, k)) /\ Grown(mine, Issued(mine, k))
    BY <2>1, <2>2, IssueHolds
  <2>4. Issued(mine, k) \in Book
    BY <2>3 DEF Held
  <2> QED
    BY <2>1, <2>3, <2>4, <1>a
<1>4. ASSUME NEW p \in Position, MigrateEquivalent(r, p)
      PROVE  Goal
  <2> DEFINE First(d) == [candidate |-> d.candidate, recalls |-> 1, meaning |-> d.meaning,
                          migration |-> run[r].base]
             New(d) == [mine EXCEPT
                     !.series[p] = <<First(d)>>, !.models = @ \cup {<<p, 1>>},
                     !.audits = @ \cup {[position |-> p, anchor |-> run[r].base,
                                         blocked |-> FALSE]},
                     !.supports = @ \cup {<<e.candidate, p>> : e \in HistoryAt(legacy, p)},
                     !.latest[p] = {d.meaning}]
  <2>1. PICK d \in HistoryAt(legacy, p) :
          /\ At(r, "running") /\ Migratable(mine, r, p) /\ Equivalent(p)
          /\ Write(r, New(d), TRUE)
    BY <1>4, <1>0 DEF MigrateEquivalent
  <2>2. run[r].base \in Nat \ {0}
    BY <2>1, <1>a
  <2>3. mine.series[p] = <<>>
    BY <2>1 DEF Migratable
  <2>4. \A x \in HistoryAt(legacy, p) :
          /\ SovOf[x.candidate] \in SovsOf[x.opportunity]
          /\ \A e \in HistoryAt(legacy, p) : e.meaning = x.meaning
    BY <2>1, <1>0 DEF Equivalent
  <2>5. Held(legacy, New(d)) /\ Grown(mine, New(d))
    BY <2>2, <2>3, <2>4, <1>a, MigrateHolds
  <2> HIDE DEF New
  <2>6. New(d) \in Book
    BY <2>5 DEF Held
  <2> QED
    BY <2>1, <2>5, <2>6, <1>a
<1>5. ASSUME NEW p \in Position, MigrateBlocked(r, p)
      PROVE  Goal
  <2> DEFINE new == [mine EXCEPT !.audits =
                       @ \cup {[position |-> p, anchor |-> run[r].base, blocked |-> TRUE]}]
  <2>1. /\ At(r, "running") /\ Migratable(mine, r, p)
        /\ Write(r, new, TRUE)
    BY <1>5 DEF MigrateBlocked
  <2>2. HistoryAt(legacy, p) # {}
    BY <2>1, <1>0 DEF Migratable
  <2>3. Held(legacy, new) /\ Grown(mine, new)
    BY <2>2, <1>a, BlockedHolds
  <2> HIDE DEF new
  <2>4. new \in Book
    BY <2>3 DEF Held
  <2> QED
    BY <2>1, <2>3, <2>4, <1>a
<1>6. ASSUME NEW p \in Position, MigrateAgain(r, p)
      PROVE  Goal
  BY <1>6, <1>a, GrownSelf DEF MigrateAgain
<1>7. ASSUME NEW p \in Position, Materialize(r, p)
      PROVE  Goal
  <2> DEFINE New(n) == [mine EXCEPT !.models = @ \cup {<<p, n>>}]
  <2>1. PICK n \in DOMAIN mine.series[p] : At(r, "running") /\ Write(r, New(n), TRUE)
    BY <1>7 DEF Materialize
  <2>2. n \in Nat
    <3>1. mine.series[p] \in Seq(Revision)
      BY <1>a DEF Book
    <3> QED
      BY <3>1
  <2>3. Held(legacy, New(n)) /\ Grown(mine, New(n))
    BY <2>2, MaterializeHolds
  <2> HIDE DEF New
  <2>4. New(n) \in Book
    BY <2>3 DEF Held
  <2> QED
    BY <2>1, <2>3, <2>4, <1>a
<1>8. ASSUME NEW c \in Candidate, Revise(r, c)
      PROVE  Goal
  <2> DEFINE New(s) == [mine EXCEPT !.recall[c] = Append(@, s)]
  <2>1. PICK s \in Recall : At(r, "running") /\ Write(r, New(s), FALSE)
    BY <1>8 DEF Revise, Dispositions
  <2>2. Held(legacy, New(s)) /\ Grown(mine, New(s))
    BY ReviseHolds
  <2> HIDE DEF New
  <2>3. New(s) \in Book
    BY <2>2 DEF Held
  <2> QED
    BY <2>1, <2>2, <2>3, <1>a
<1>9. CASE Review(r) \/ ReviseAgain(r)
  <2>1. At(r, "running") /\ Write(r, mine, FALSE)
    BY <1>9 DEF Review, ReviseAgain
  <2> QED
    BY <2>1, <1>a, GrownSelf
<1> QED
  BY <1>1, <1>2, <1>3, <1>4, <1>5, <1>6, <1>7, <1>8, <1>9 DEF Publish

-----------------------------------------------------------------------------
(* The invariant.                                                          *)

LEMMA EmptyHolds ==
  ASSUME NEW h
  PROVE  EmptyBook \in Book /\ Held(h, EmptyBook)
<1>1. <<"RETAINED">> \in Seq(Recall)
  BY DEF Recall
<1>2. <<>> \in Seq(Revision)
  OBVIOUS
<1>3. EmptyBook \in Book
  BY <1>1, <1>2 DEF EmptyBook, Book
<1>4. /\ \A p \in Position : EmptyBook.series[p] = <<>> /\ DOMAIN EmptyBook.series[p] = {}
      /\ EmptyBook.audits = {} /\ EmptyBook.supports = {}
  BY DEF EmptyBook
<1> HIDE DEF EmptyBook
<1> QED
  BY <1>3, <1>4 DEF Held, HistoryHeld, LatestHeld, ExclusionHeld, MigrationHeld,
     SeriesHeld, PlaceHeld

LEMMA IdleTyped == Idle \in RunType /\ Idle.pc = "idle" /\ Idle.book = EmptyBook
BY EmptyHolds DEF Idle, RunType, Pc

LEMMA InitHolds == Init => IInv
<1> SUFFICES ASSUME Init PROVE IInv
  OBVIOUS
<1>1. /\ legacy \in Histories /\ remote.head = 1 /\ remote.book = EmptyBook
      /\ remote \in [head : Nat, book : Book] /\ \A r \in Run : run[r] = Idle
      /\ run = [r \in Run |-> Idle]
  BY EmptyHolds DEF Init
<1>2. TypeOK
  BY <1>1, IdleTyped DEF TypeOK, RunType
<1> QED
  BY <1>1, <1>2, IdleTyped, EmptyHolds DEF IInv, Racing

\* One run takes a step and the branch stays as it is.
LEMMA RunSteps ==
  ASSUME IInv, NEW r \in Run, NEW v, Become(r, v), UNCHANGED <<legacy, remote>>,
         v \in RunType, v.pc = "built" => v.produced,
         Held(legacy, v.book),
         v.pc # "idle" => v.base \in 1 .. remote.head,
         v.pc \in {"running", "built"} /\ v.base = remote.head => Grown(remote.book, v.book)
  PROVE  IInv'
<1>1. /\ run'[r] = v /\ \A q \in Run \ {r} : run'[q] = run[q]
      /\ run' \in [Run -> RunType]
  BY Becoming DEF IInv
<1>2. TypeOK'
  BY <1>1 DEF IInv, TypeOK, RunType
<1>3. \A q \in Run : Held(legacy', run'[q].book)
  BY <1>1 DEF IInv
<1>4. \A q \in Run : Racing(q)'
  BY <1>1 DEF IInv, Racing
<1> QED
  BY <1>2, <1>3, <1>4 DEF IInv

\* A push: the book comes from a run that began at the head, or stays.
LEMMA PushSteps ==
  ASSUME IInv, NEW r \in Run, NEW b, Become(r, Idle), legacy' = legacy,
         remote' = [head |-> remote.head + 1, book |-> b],
         b \in Book, Held(legacy, b)
  PROVE  IInv'
<1>1. /\ run'[r] = Idle /\ \A q \in Run \ {r} : run'[q] = run[q]
      /\ run' \in [Run -> RunType]
  BY Becoming, IdleTyped DEF IInv
<1>2. remote.head \in Nat /\ remote'.head = remote.head + 1 /\ remote'.book = b
      /\ remote' \in [head : Nat, book : Book]
  BY DEF IInv, TypeOK
<1>3. TypeOK'
  BY <1>1, <1>2, IdleTyped DEF IInv, TypeOK, RunType
<1>4. \A q \in Run : Held(legacy', run'[q].book)
  BY <1>1, IdleTyped, EmptyHolds DEF IInv
<1>5. ASSUME NEW q \in Run PROVE Racing(q)'
  <2>1. CASE q = r
    BY <1>1, <2>1, IdleTyped DEF Racing
  <2>2. CASE q # r
    <3>1. run'[q] = run[q] /\ run[q].base \in Nat
      BY <1>1, <2>2 DEF IInv, TypeOK
    <3>2. run[q].pc # "idle" => run[q].base \in 1 .. remote.head
      BY DEF IInv, Racing
    <3> QED
      BY <1>2, <3>1, <3>2 DEF Racing
  <2> QED
    BY <2>1, <2>2
<1> QED
  BY <1>2, <1>3, <1>4, <1>5 DEF IInv

LEMMA StepHolds ==
  ASSUME IInv, [Next]_vars
  PROVE  IInv' /\ Grown(remote.book, remote'.book)
<1>1. /\ TypeOK /\ remote.book \in Book /\ remote.head \in Nat /\ remote.head >= 1
      /\ \A r \in Run : run[r] \in RunType /\ Held(legacy, run[r].book) /\ Racing(r)
  BY DEF IInv, TypeOK, RunType
<1>2. CASE UNCHANGED vars
  BY <1>1, <1>2, GrownSelf DEF vars, IInv, TypeOK, Racing
<1>3. ASSUME NEW r \in Run, Publish(r) \/ Retain(r)
      PROVE  IInv' /\ Grown(remote.book, remote'.book)
  <2>1. PICK b \in Book, f \in BOOLEAN :
          /\ At(r, "running") /\ Write(r, b, f)
          /\ Held(legacy, b) /\ Grown(run[r].book, b)
    BY <1>1, <1>3, CommandHolds DEF Racing
  <2>2. /\ run'[r] \in RunType /\ run'[r].book = b /\ run'[r].pc = "running"
        /\ run'[r].base = run[r].base /\ UNCHANGED <<legacy, remote>>
    BY <1>1, <2>1, Written
  <2>3. PICK v : Become(r, v)
    BY <1>1, <2>1, Written
  <2>4. run'[r] = v
    BY <1>1, <2>3, Becoming
  <2>5. run[r].base \in 1 .. remote.head
        /\ (run[r].base = remote.head => Grown(remote.book, run[r].book))
    BY <1>1, <2>1 DEF Racing
  <2>6. run[r].base = remote.head => Grown(remote.book, b)
    BY <1>1, <2>1, <2>5, GrownOn DEF Held
  <2> QED
    BY <1>1, <2>1, <2>2, <2>3, <2>4, <2>5, <2>6, RunSteps, GrownSelf
<1>4. ASSUME NEW r \in Run, Begin(r)
      PROVE  IInv' /\ Grown(remote.book, remote'.book)
  <2> DEFINE v == [pc |-> "running", base |-> remote.head, book |-> remote.book,
                   commands |-> 0, produced |-> FALSE]
  <2>1. Become(r, v) /\ UNCHANGED <<legacy, remote>>
    BY <1>4 DEF Begin
  <2>2. v \in RunType /\ Held(legacy, v.book) /\ v.base \in 1 .. remote.head
        /\ v.pc = "running" /\ Grown(remote.book, v.book)
    BY <1>1, GrownSelf DEF RunType, Pc, IInv
  <2> HIDE DEF v
  <2> QED
    BY <1>1, <2>1, <2>2, RunSteps, GrownSelf
<1>5. ASSUME NEW r \in Run, Refuse(r) \/ (Finish(r) /\ Become(r, Failed(r)))
      PROVE  IInv' /\ Grown(remote.book, remote'.book)
  <2>1. At(r, "running") /\ Become(r, Failed(r)) /\ UNCHANGED <<legacy, remote>>
    BY <1>5 DEF Refuse, Finish
  <2>2. run[r].base \in Nat /\ run[r].base \in 1 .. remote.head
    BY <1>1, <2>1 DEF RunType, Racing
  <2>3. Failed(r) \in RunType /\ Failed(r).pc = "failed" /\ Failed(r).book = EmptyBook
        /\ Failed(r).base = run[r].base
    BY <2>2, EmptyHolds DEF Failed, Idle, RunType, Pc
  <2> QED
    BY <1>1, <2>1, <2>2, <2>3, EmptyHolds, RunSteps, GrownSelf
<1>6. ASSUME NEW r \in Run, Finish(r), ~Become(r, Failed(r))
      PROVE  IInv' /\ Grown(remote.book, remote'.book)
  <2>1. PICK v \in {[run[r] EXCEPT !.pc = "refused"], [run[r] EXCEPT !.pc = "built"]} :
          /\ At(r, "running") /\ Become(r, v) /\ UNCHANGED <<legacy, remote>>
          /\ v.pc = "built" => run[r].produced
    BY <1>1, <1>6 DEF Finish, RunType
  <2>2. /\ v \in RunType /\ v.book = run[r].book /\ v.base = run[r].base
        /\ v.produced = run[r].produced
    BY <1>1, <2>1 DEF RunType, Pc
  <2>3. run[r].base \in 1 .. remote.head
        /\ (run[r].base = remote.head => Grown(remote.book, run[r].book))
    BY <1>1, <2>1 DEF Racing
  <2> QED
    BY <1>1, <2>1, <2>2, <2>3, RunSteps, GrownSelf
<1>7. ASSUME NEW r \in Run, Push(r)
      PROVE  IInv' /\ Grown(remote.book, remote'.book)
  <2>1. /\ run[r].pc = "built" /\ run[r].base = remote.head
        /\ remote' = [head |-> remote.head + 1, book |-> run[r].book]
        /\ Become(r, Idle) /\ legacy' = legacy
    BY <1>7 DEF Push, FastForward
  <2>2. run[r].book \in Book /\ Held(legacy, run[r].book)
        /\ Grown(remote.book, run[r].book)
    BY <1>1, <2>1 DEF Held, Racing
  <2> QED
    BY <1>1, <2>1, <2>2, PushSteps
<1>8. ASSUME NEW r \in Run, PushOutcome(r)
      PROVE  IInv' /\ Grown(remote.book, remote'.book)
  <2>1. /\ remote' = [remote EXCEPT !.head = @ + 1] /\ Become(r, Idle) /\ legacy' = legacy
    BY <1>8 DEF PushOutcome
  <2>2. remote' = [head |-> remote.head + 1, book |-> remote.book]
    BY <1>1, <2>1 DEF TypeOK
  <2>3. remote.book \in Book /\ Held(legacy, remote.book)
    BY <1>1 DEF IInv
  <2> QED
    BY <1>1, <2>1, <2>2, <2>3, PushSteps, GrownSelf
<1>9. ASSUME NEW r \in Run, Drop(r)
      PROVE  IInv' /\ Grown(remote.book, remote'.book)
  <2>1. Become(r, Idle) /\ UNCHANGED <<legacy, remote>>
    BY <1>9 DEF Drop
  <2> QED
    BY <1>1, <2>1, IdleTyped, EmptyHolds, RunSteps, GrownSelf
<1> QED
  BY <1>2, <1>3, <1>4, <1>5, <1>6, <1>7, <1>8, <1>9 DEF Next, Course

LEMMA Invariance == Spec => []IInv
<1>1. IInv /\ [Next]_vars => IInv'
  BY StepHolds
<1> QED
  BY <1>1, InitHolds, PTL DEF Spec

-----------------------------------------------------------------------------
(* The theorems.                                                           *)

\* Every variable has its type, and what is to be committed has an outcome.
THEOREM PresentationTyped == Spec => []TypeOK
<1>1. IInv => TypeOK
  BY DEF IInv
<1> QED
  BY <1>1, Invariance, PTL

\* A position with a history of the first contract is published only if all of
\* that history said the same, and begins with what it said (migrateV1).
THEOREM HistoryAlwaysAgrees == Spec => []HistoryAgrees
<1>1. IInv => HistoryAgrees
  BY DEF IInv, Held, HistoryHeld, HistoryAgrees, LegacyAt, HistoryAt
<1> QED
  BY <1>1, Invariance, PTL

\* The current presentation of a position is what was decided last (decide's
\* reuse of the head and of nothing older).
THEOREM CurrentAlwaysLatest == Spec => []CurrentIsLatest
<1>1. IInv => CurrentIsLatest
  BY DEF IInv, Held, LatestHeld, CurrentIsLatest
<1> QED
  BY <1>1, Invariance, PTL

\* No revision shows a position for a candidate that was excluded by then
\* (decide's demand for the current disposition).
THEOREM ExclusionAlwaysRespected == Spec => []ExclusionRespected
<1>1. IInv => ExclusionRespected
  <2> SUFFICES ASSUME IInv, NEW p \in Position, NEW n \in DOMAIN remote.book.series[p],
                      Shows(remote.book.series[p][n]),
                      ~(n = 1 /\ remote.book.series[p][n].migration # 0)
               PROVE  remote.book.recall[remote.book.series[p][n].candidate]
                        [remote.book.series[p][n].recalls] # "EXCLUDED"
    BY DEF ExclusionRespected, Shows
  <2> QED
    BY DEF IInv, Held, ExclusionHeld
<1> QED
  BY <1>1, Invariance, PTL

\* Whatever runs race each other, what has been committed is never taken back
\* (the fast-forward of a run's push).
THEOREM DecisionsAlwaysKept == Spec => DecisionsKept
<1>1. IInv /\ [Next]_vars =>
        [/\ \A p \in Position :
              /\ Len(remote.book.series[p]) <= Len(remote'.book.series[p])
              /\ \A n \in DOMAIN remote.book.series[p] :
                   remote.book.series[p][n] = remote'.book.series[p][n]
         /\ remote.book.retained \subseteq remote'.book.retained
         /\ remote.book.audits \subseteq remote'.book.audits
         /\ remote.book.models \subseteq remote'.book.models]_remote
  BY StepHolds DEF Grown
<1> QED
  BY <1>1, Invariance, PTL DEF DecisionsKept, Spec

-----------------------------------------------------------------------------
(* Refusals.                                                               *)

\* One candidate is of one position, also where only a composition names it.
LEMMA PlacedOnce ==
  ASSUME NEW c \in Candidate, NEW p, NEW q, Placed(c, p)
  PROVE  /\ Placed(c, q) => p = q
         /\ \A o \in Opportunity : SovOf[c] \in CoverOf[o] => PositionOf[o] = p
BY IdentityAssumption DEF Placed

\* In a book that holds, what the snapshot can refuse is missing: a migration
\* that is the only one, or a read model.
LEMMA HeldBuilds ==
  ASSUME legacy \in Histories, NEW b, Held(legacy, b),
         \A p \in Position : LegacyAt(p) # {} => \E a \in AuditsAt(b, p) : AuditsAt(b, p) = {a},
         \A p \in Position : \A n \in DOMAIN b.series[p] : <<p, n>> \in b.models
  PROVE  Builds(b)
<1>0. \A p : LegacyAt(p) = HistoryAt(legacy, p)
  BY DEF LegacyAt, HistoryAt
<1>1. /\ b \in Book /\ \A a \in b.audits : a.position \in Position
      /\ \A p \in Position : b.series[p] \in Seq(Revision)
  BY DEF Held, Book, Audit
<1>2. \A a \in b.audits : LegacyAt(a.position) # {}
  BY <1>0 DEF Held, MigrationHeld
<1>3. ASSUME NEW p \in Position, LegacyAt(p) # {}
      PROVE  MigrationBuilds(b, p)
  <2>1. PICK a \in AuditsAt(b, p) : AuditsAt(b, p) = {a}
    BY <1>3
  <2>2. a \in b.audits /\ a.position = p /\ \A x \in b.audits : x.position = p => x = a
    BY <2>1 DEF AuditsAt
  <2>3. a.blocked => b.series[p] = <<>>
    BY <1>0, <1>3, <2>2 DEF Held, MigrationHeld
  <2>4. ~a.blocked => b.series[p] # <<>> /\ b.series[p][1].migration = a.anchor
    BY <2>2 DEF Held, MigrationHeld
  <2> QED
    BY <2>1, <2>3, <2>4 DEF MigrationBuilds
<1>4. ASSUME NEW p \in Position
      PROVE  SeriesBuilds(b, p)
  <2>1. ASSUME b.series[p] # <<>>
        PROVE  IF b.series[p][1].migration # 0 THEN \E a \in AuditsAt(b, p) : ~a.blocked
               ELSE LegacyAt(p) = {} /\ AuditsAt(b, p) = {}
    <3>1. IF LegacyAt(p) = {} THEN b.series[p][1].migration = 0
          ELSE b.series[p][1].migration # 0 /\ \E a \in b.audits : a.position = p /\ ~a.blocked
      BY <1>0, <2>1 DEF Held, MigrationHeld
    <3>2. LegacyAt(p) = {} => AuditsAt(b, p) = {}
      BY <1>2 DEF AuditsAt
    <3> QED
      BY <3>1, <3>2 DEF AuditsAt
  <2>2. \A n \in DOMAIN b.series[p] : n > 1 =>
          /\ b.series[p][n].migration = b.series[p][n - 1].migration
          /\ b.series[p][n].meaning # b.series[p][n - 1].meaning
    BY DEF Held, SeriesHeld
  <2> QED
    BY <2>1, <2>2 DEF SeriesBuilds
<1>5. AssociationsBuild(b)
  <2> SUFFICES ASSUME NEW c \in Candidate, NEW p \in Position, <<c, p>> \in b.supports,
                      NEW q \in Located(b, c)
               PROVE  q = p
    BY <1>1 DEF AssociationsBuild, Book
  <2>1. Placed(c, p) /\ q \in Position
    BY DEF Held, PlaceHeld, Located
  <2>2. CASE <<c, q>> \in b.supports
    BY <2>1, <2>2, PlacedOnce DEF Held, PlaceHeld
  <2>3. ASSUME NEW n \in DOMAIN b.series[q], b.series[q][n].candidate = c
        PROVE  q = p
    BY <2>1, <2>3, PlacedOnce DEF Held, PlaceHeld
  <2>4. ASSUME NEW d \in LegacyAt(q), d.candidate = c
        PROVE  q = p
    <3>1. /\ d.opportunity \in Opportunity /\ PositionOf[d.opportunity] = q
          /\ SovOf[c] \in CoverOf[d.opportunity]
      BY <2>4, AssessmentAssumption DEF LegacyAt
    <3> QED
      BY <2>1, <3>1, PlacedOnce
  <2> QED
    BY <2>2, <2>3, <2>4 DEF Located
<1> QED
  BY <1>2, <1>3, <1>4, <1>5 DEF Builds

\* What a refusal comes from.
Lacking(h, b) ==
  \E p \in Position :
    \/ HistoryAt(h, p) # {} /\ \A a \in AuditsAt(b, p) : AuditsAt(b, p) # {a}
    \/ \E n \in DOMAIN b.series[p] : <<p, n>> \notin b.models

Lacks == \A r \in Run : run[r].pc = "refused" => Lacking(legacy, run[r].book)

\* Only the end of a run refuses it, and its book stays.
LEMMA LacksSteps ==
  ASSUME IInv, Lacks, [Next]_vars
  PROVE  Lacks'
<1>1. TypeOK
  BY DEF IInv
<1>2. CASE UNCHANGED vars
  BY <1>2 DEF Lacks, vars
<1>3. ASSUME NEW r \in Run, NEW v, Become(r, v), v.pc # "refused", legacy' = legacy
      PROVE  Lacks'
  BY <1>1, <1>3, Becoming DEF Lacks
<1>4. ASSUME NEW r \in Run, Publish(r) \/ Retain(r)
      PROVE  Lacks'
  <2>1. PICK b \in Book, f \in BOOLEAN : At(r, "running") /\ Write(r, b, f)
    BY <1>1, <1>4, CommandHolds DEF IInv, Racing
  <2>2. run'[r].pc = "running" /\ legacy' = legacy /\ \E v : Become(r, v)
    BY <1>1, <2>1, Written
  <2> QED
    BY <1>1, <1>3, <2>2, Becoming
<1>5. ASSUME NEW r \in Run, Finish(r)
      PROVE  Lacks'
  <2>1. CASE Built(run[r].book)
    <3>1. /\ legacy' = legacy
          /\ Become(r, [run[r] EXCEPT !.pc = "built"]) \/ Become(r, Failed(r))
      BY <1>5, <2>1 DEF Finish
    <3>2. [run[r] EXCEPT !.pc = "built"].pc = "built"
      BY <1>1 DEF TypeOK
    <3>3. Failed(r).pc = "failed"
      BY DEF Failed, Idle
    <3> QED
      BY <1>3, <3>1, <3>2, <3>3
  <2>2. CASE ~Built(run[r].book)
    <3>1. Become(r, [run[r] EXCEPT !.pc = "refused"]) /\ legacy' = legacy
      BY <1>5, <2>2 DEF Finish
    <3>2. run'[r].book = run[r].book /\ \A q \in Run \ {r} : run'[q] = run[q]
      BY <1>1, <3>1, Becoming DEF TypeOK
    <3>3. ~Builds(run[r].book) /\ Held(legacy, run[r].book) /\ legacy \in Histories
      BY <1>1, <2>2 DEF Built, IInv, TypeOK
    <3>4. Lacking(legacy, run[r].book)
      BY <3>3, HeldBuilds DEF Lacking, LegacyAt, HistoryAt
    <3> QED
      BY <3>1, <3>2, <3>4 DEF Lacks
  <2> QED
    BY <2>1, <2>2
<1>6. ASSUME NEW r \in Run, Begin(r)
      PROVE  Lacks'
  <2> DEFINE v == [pc |-> "running", base |-> remote.head, book |-> remote.book,
                   commands |-> 0, produced |-> FALSE]
  <2>1. Become(r, v) /\ legacy' = legacy
    BY <1>6 DEF Begin
  <2>2. v.pc # "refused"
    OBVIOUS
  <2> QED
    BY <1>3, <2>1, <2>2
<1>7. ASSUME NEW r \in Run, Refuse(r)
      PROVE  Lacks'
  <2>1. Become(r, Failed(r)) /\ legacy' = legacy /\ Failed(r).pc = "failed"
    BY <1>7 DEF Refuse, Failed, Idle
  <2> QED
    BY <1>3, <2>1
<1>8. ASSUME NEW r \in Run, Push(r) \/ PushOutcome(r) \/ Drop(r)
      PROVE  Lacks'
  <2>1. Become(r, Idle) /\ legacy' = legacy
    BY <1>8 DEF Push, PushOutcome, Drop
  <2> QED
    BY <1>3, <2>1, IdleTyped
<1> QED
  BY <1>2, <1>4, <1>5, <1>6, <1>7, <1>8 DEF Next, Course

\* The read snapshot refuses a run only over a history not migrated exactly once
\* or a revision without its read model
\* (buildAuthoritativePresentationCurrentSnapshot).
THEOREM RefusalsExplained == Spec => []RefusalExplained
<1>1. Init => Lacks
  BY IdleTyped DEF Init, Lacks
<1>2. IInv /\ Lacks /\ [Next]_vars => Lacks'
  BY LacksSteps
<1>3. Lacks => RefusalExplained
  BY DEF Lacks, Lacking, RefusalExplained, LegacyAt, HistoryAt
<1> QED
  BY <1>1, <1>2, <1>3, Invariance, PTL DEF Spec

=============================================================================
