---------------------------- MODULE CollectionProofs ----------------------------
(***************************************************************************)
(* Theorems about Collection, for any pages, plans, budgets and limits.    *)
(*                                                                         *)
(* A planned page is either still in the plans or has been taken from      *)
(* them, and what was taken was requested at least once; whatever keeps    *)
(* a run from requesting or reading a page leaves its mark in the reasons, *)
(* in limited or in failed, and classification passes none of them over.   *)
(***************************************************************************)
EXTENDS Collection, FiniteSetTheorems, TLAPS

\* The requests of page l among the results s.
TriesOf(s, l) == {i \in DOMAIN s : s[i].locator = l}

Living == run.pc \in {"planning", "requesting", "extracting", "following", "ended"}

\* The run is inside its bounds and its approval.
Inside ==
  /\ Len(run.results) <= Budget
  /\ run.pages <= MaxPages
  /\ At("requesting") => run.pages < MaxPages
  /\ Elements(run.plans) \subseteq Approved
  /\ run.visited \subseteq Approved
  /\ Requested \subseteq run.visited

\* The attempts of the page under request are its results so far, and there is
\* room for its first.
Tries ==
  /\ \A l \in Locator : Cardinality(TriesOf(run.results, l)) <= RetryLimit + 1
  /\ At("requesting") =>
       /\ run.plans # <<>>
       /\ Plan \in run.visited
       /\ Cardinality(TriesOf(run.results, Plan)) = run.attempt
       /\ run.attempt = 0 => ~Spent

\* Each page planned is still to be taken or has been, and each page taken has
\* been requested, the one under request excepted.
Covered ==
  Living =>
    /\ Elements(endpoint.plan) \subseteq run.visited \cup Elements(run.plans)
    /\ \A l \in run.visited : l \in Requested \/ (At("requesting") /\ l = Plan)

\* What has gone wrong is on record.
Marked ==
  /\ Living => (run.failed <=> Failures # {})
  /\ Living => \A i \in DOMAIN run.results :
       run.results[i].page \in Page /\ Kind[run.results[i].page] = "UNREADABLE" =>
         \/ "ADAPTER_EXTRACTION_FAILED" \in run.reasons
         \/ At("extracting") /\ i = Len(run.results)
  /\ At("extracting") => run.results # <<>> /\ Latest.page \in Page
  /\ At("ended") /\ run.plans # <<>> =>
       run.limited /\ run.reasons \cap StopReasons # {}

Inv == TypeOK /\ Inside /\ Tries /\ Covered /\ Marked /\ TargetsComplete /\ StopExplained

\* What the operators on plans do to the pages in them.
LEMMA ElementsAppended ==
  ASSUME NEW S, NEW s \in Seq(S), NEW x \in S
  PROVE  Elements(Append(s, x)) = Elements(s) \cup {x}
<1>1. /\ DOMAIN s = 1 .. Len(s)
      /\ DOMAIN Append(s, x) = 1 .. Len(s) + 1
      /\ \A i \in 1 .. Len(s) : Append(s, x)[i] = s[i]
      /\ Append(s, x)[Len(s) + 1] = x
      /\ Len(s) \in Nat
  OBVIOUS
<1> QED
  BY <1>1 DEF Elements

LEMMA ElementsTaken ==
  ASSUME NEW S, NEW s \in Seq(S), s # <<>>
  PROVE  /\ Elements(s) = {Head(s)} \cup Elements(Tail(s))
         /\ Head(s) \in S
         /\ Tail(s) \in Seq(S)
<1>1. /\ DOMAIN s = 1 .. Len(s) /\ Len(s) \in Nat /\ Len(s) > 0
      /\ DOMAIN Tail(s) = 1 .. Len(s) - 1
      /\ \A i \in 1 .. Len(s) - 1 : Tail(s)[i] = s[i + 1]
      /\ Head(s) = s[1] /\ Head(s) \in S /\ Tail(s) \in Seq(S)
  OBVIOUS
<1>2. ASSUME NEW e \in Elements(s) PROVE e \in {Head(s)} \cup Elements(Tail(s))
  <2>1. PICK i \in DOMAIN s : e = s[i]
    BY DEF Elements
  <2>2. CASE i = 1
    BY <1>1, <2>1, <2>2
  <2>3. CASE i # 1
    <3>1. i - 1 \in DOMAIN Tail(s) /\ Tail(s)[i - 1] = e
      BY <1>1, <2>1, <2>3
    <3> QED
      BY <3>1 DEF Elements
  <2> QED
    BY <2>2, <2>3
<1>3. ASSUME NEW e \in Elements(Tail(s)) PROVE e \in Elements(s)
  <2>1. PICK i \in DOMAIN Tail(s) : e = Tail(s)[i]
    BY DEF Elements
  <2>2. i + 1 \in DOMAIN s /\ s[i + 1] = e
    BY <1>1, <2>1
  <2> QED
    BY <2>2 DEF Elements
<1>4. Head(s) \in Elements(s)
  BY <1>1 DEF Elements
<1> QED
  BY <1>1, <1>2, <1>3, <1>4

\* One more result is one more try of its page and of no other.
LEMMA TriesAppended ==
  ASSUME NEW s \in Seq(Result), NEW x \in Result, NEW l
  PROVE  /\ IsFiniteSet(TriesOf(s, l))
         /\ Cardinality(TriesOf(s, l)) \in Nat
         /\ Cardinality(TriesOf(Append(s, x), l))
              = Cardinality(TriesOf(s, l)) + (IF x.locator = l THEN 1 ELSE 0)
<1>1. /\ DOMAIN s = 1 .. Len(s) /\ Len(s) \in Nat
      /\ DOMAIN Append(s, x) = 1 .. Len(s) + 1
      /\ \A i \in 1 .. Len(s) : Append(s, x)[i] = s[i]
      /\ Append(s, x)[Len(s) + 1] = x
  OBVIOUS
<1>2. IsFiniteSet(1 .. Len(s))
  BY <1>1, FS_Interval
<1>3. IsFiniteSet(TriesOf(s, l)) /\ Cardinality(TriesOf(s, l)) \in Nat
  BY <1>1, <1>2, FS_Subset, FS_CardinalityType DEF TriesOf
<1>4. CASE x.locator = l
  <2>1. TriesOf(Append(s, x), l) = TriesOf(s, l) \cup {Len(s) + 1}
    BY <1>1, <1>4 DEF TriesOf
  <2>2. Len(s) + 1 \notin TriesOf(s, l)
    BY <1>1 DEF TriesOf
  <2> QED
    BY <1>3, <1>4, <2>1, <2>2, FS_AddElement
<1>5. CASE x.locator # l
  <2>1. TriesOf(Append(s, x), l) = TriesOf(s, l)
    BY <1>1, <1>5 DEF TriesOf
  <2> QED
    BY <1>3, <1>5, <2>1
<1> QED
  BY <1>3, <1>4, <1>5

\* A page that has not been requested has not been tried.
LEMMA NeverTried ==
  ASSUME NEW l, l \notin Requested
  PROVE  Cardinality(TriesOf(run.results, l)) = 0
<1>1. TriesOf(run.results, l) = {}
  BY DEF Requested, TriesOf
<1> QED
  BY <1>1, FS_EmptySet

\* A planned page is an approved one.
LEMMA PlannedApproved ==
  ASSUME endpoint \in Endpoints
  PROVE  Elements(endpoint.plan) \subseteq Approved
<1>1. endpoint.plan \in Seq(Locator)
  BY EndpointAssumption
<1>2. Elements(endpoint.plan) \subseteq Locator
  BY <1>1 DEF Elements
<1> QED
  BY <1>2 DEF Approved

LEMMA InitInv == Init => Inv
<1> SUFFICES ASSUME Init PROVE Inv
  OBVIOUS
<1> USE DEF Init, At
<1>1. endpoint \in Endpoints /\ previous \in Pasts /\ endpoint.plan \in Seq(Locator)
  BY EndpointAssumption
<1>2. /\ run.pc = "planning" /\ run.plans = endpoint.plan /\ run.visited = {}
      /\ run.results = <<>> /\ run.pages = 0 /\ run.failed = FALSE
  OBVIOUS
<1>3. TypeOK
  BY <1>1, BoundAssumption DEF TypeOK, RunState, Statuses
<1>4. Requested = {} /\ Failures = {}
  BY <1>2 DEF Requested, Failures
<1>5. Inside
  BY <1>1, <1>2, <1>4, BoundAssumption, PlannedApproved DEF Inside
<1>6. Tries
  BY <1>2, <1>4, NeverTried, BoundAssumption DEF Tries
<1>7. Covered /\ Marked
  BY <1>2, <1>4 DEF Covered, Marked
<1>8. TargetsComplete /\ StopExplained
  BY <1>2 DEF TargetsComplete, StopExplained
<1> QED
  BY <1>3, <1>5, <1>6, <1>7, <1>8 DEF Inv

\* A step without a request changes nothing that is read off the results.
LEMMA ResultsStay ==
  ASSUME run'.results = run.results, UNCHANGED endpoint
  PROVE  /\ Requested' = Requested /\ Failures' = Failures /\ Latest' = Latest
         /\ (Spent' <=> Spent) /\ Approved' = Approved
BY DEF Requested, Failures, Latest, Spent, Approved

\* Living on without a request: it is enough to look at the plans, at the page
\* taken and at the marks.
LEMMA Quiet ==
  ASSUME Inv, UNCHANGED <<endpoint, previous>>, TypeOK',
         run'.results = run.results, run'.pages = run.pages, run'.failed = run.failed,
         run'.visited = run.visited, run.reasons \subseteq run'.reasons,
         Living, run'.pc \in {"planning", "following", "ended"},
         ~At("requesting"),
         Elements(run'.plans) \subseteq Approved,
         Elements(run.plans) \subseteq run.visited \cup Elements(run'.plans),
         At("extracting") =>
           \/ "ADAPTER_EXTRACTION_FAILED" \in run'.reasons
           \/ Kind[Latest.page] # "UNREADABLE",
         run'.pc = "ended" /\ run'.plans # <<>> =>
           run'.limited /\ run'.reasons \cap StopReasons # {}
  PROVE  Inv'
<1> USE DEF Inv
<1>1. /\ Requested' = Requested /\ Failures' = Failures /\ Latest' = Latest
      /\ (Spent' <=> Spent) /\ Approved' = Approved
  BY ResultsStay
<1>2. ~At("requesting")' /\ ~At("extracting")' /\ ~At("done")' /\ Living'
  BY DEF At, Living
<1>3. Inside'
  BY <1>1, <1>2 DEF Inside
<1>4. Tries'
  BY <1>2 DEF Tries
<1>5. Covered'
  BY <1>1, <1>2 DEF Covered
<1>6. Marked'
  <2>1. ASSUME NEW i \in DOMAIN run.results, run.results[i].page \in Page,
               Kind[run.results[i].page] = "UNREADABLE"
        PROVE  "ADAPTER_EXTRACTION_FAILED" \in run'.reasons
    BY <2>1 DEF Marked, Latest
  <2> QED
    BY <1>1, <1>2, <2>1 DEF Marked, At
<1>7. TargetsComplete' /\ StopExplained'
  BY <1>2 DEF TargetsComplete, StopExplained
<1> QED
  BY <1>3, <1>4, <1>5, <1>6, <1>7

\* The locals of the run, for their types.
LEMMA RunTyped ==
  ASSUME TypeOK
  PROVE  /\ run.pc \in RunState /\ run.plans \in Seq(Locator)
         /\ run.attempt \in 0 .. RetryLimit /\ run.visited \subseteq Locator
         /\ run.results \in Seq(Result) /\ run.records \subseteq Vacancy
         /\ run.prints \subseteq SUBSET Vacancy /\ run.reasons \subseteq Reasons
         /\ run.pages \in Nat /\ run.failed \in BOOLEAN /\ run.limited \in BOOLEAN
         /\ run.status \in Statuses
         /\ endpoint \in Endpoints /\ previous \in Pasts
         /\ Len(run.results) \in Nat /\ DOMAIN run.results = 1 .. Len(run.results)
BY DEF TypeOK

\* What stands at the head of the loop or ends it without a request.
LEMMA LoopInv ==
  ASSUME Inv, EndPlans \/ StopAtPages \/ SkipVisited \/ StopAtBudget
  PROVE  Inv'
<1> USE DEF Inv
<1>1. /\ run.plans \in Seq(Locator) /\ run.reasons \subseteq Reasons
      /\ At("planning") /\ Living /\ ~At("requesting") /\ ~At("extracting")
  BY RunTyped DEF EndPlans, StopAtPages, SkipVisited, StopAtBudget, Planning, At, Living
<1>2. Elements(run.plans) \subseteq Approved
  BY DEF Inside
<1>3. CASE EndPlans
  <2>1. run' = [run EXCEPT !.pc = "ended"] /\ UNCHANGED <<endpoint, previous>> /\ run.plans = <<>>
    BY <1>3 DEF EndPlans, Become
  <2>2. TypeOK'
    BY <2>1 DEF TypeOK, RunState
  <2>3. /\ run'.pc = "ended" /\ run'.plans = run.plans /\ run'.results = run.results
        /\ run'.pages = run.pages /\ run'.failed = run.failed
        /\ run'.visited = run.visited /\ run'.reasons = run.reasons
    BY <2>1, RunTyped DEF TypeOK
  <2> QED
    BY <1>1, <1>2, <2>1, <2>2, <2>3, Quiet
<1>4. CASE StopAtPages \/ StopAtBudget
  <2>1. PICK reason \in StopReasons :
          /\ run' = [run EXCEPT !.pc = "ended", !.reasons = @ \cup {reason}, !.limited = TRUE]
          /\ UNCHANGED <<endpoint, previous>>
    BY <1>4 DEF StopAtPages, StopAtBudget, Stop, Become, StopReasons
  <2>2. TypeOK'
    BY <2>1, <1>1 DEF TypeOK, RunState, Reasons
  <2>3. /\ run'.pc = "ended" /\ run'.plans = run.plans /\ run'.results = run.results
        /\ run'.pages = run.pages /\ run'.failed = run.failed /\ run'.limited
        /\ run'.visited = run.visited /\ run'.reasons = run.reasons \cup {reason}
    BY <2>1, RunTyped DEF TypeOK
  <2> QED
    BY <1>1, <1>2, <2>1, <2>2, <2>3, Quiet
<1>5. CASE SkipVisited
  <2>1. /\ run' = [run EXCEPT !.plans = Tail(@), !.limited = TRUE,
                              !.reasons = @ \cup {"REPEATED_PAGE_BLOCKED"}]
        /\ UNCHANGED <<endpoint, previous>>
        /\ run.plans # <<>> /\ Head(run.plans) \in run.visited
    BY <1>5 DEF SkipVisited, Planning, Plan, Become
  <2>2. /\ Elements(run.plans) = {Head(run.plans)} \cup Elements(Tail(run.plans))
        /\ Tail(run.plans) \in Seq(Locator)
    BY <1>1, <2>1, ElementsTaken
  <2>3. TypeOK'
    BY <1>1, <2>1, <2>2 DEF TypeOK, Reasons
  <2>4. /\ run'.pc = "planning" /\ run'.plans = Tail(run.plans) /\ run'.results = run.results
        /\ run'.pages = run.pages /\ run'.failed = run.failed
        /\ run'.visited = run.visited /\ run.reasons \subseteq run'.reasons
    BY <1>1, <2>1, RunTyped DEF TypeOK, At
  <2> QED
    BY <1>1, <1>2, <2>1, <2>2, <2>3, <2>4, Quiet
<1> QED
  BY <1>3, <1>4, <1>5

\* A page is read, refused or followed.
LEMMA PageInv ==
  ASSUME Inv, RefusePage \/ StopAtContent \/ KeepPage \/ Follow \/ FollowMalformed
  PROVE  Inv'
<1> USE DEF Inv
<1>1. /\ run.plans \in Seq(Locator) /\ run.reasons \subseteq Reasons
      /\ run.records \subseteq Vacancy /\ run.prints \subseteq SUBSET Vacancy
      /\ Living /\ ~At("requesting")
  BY RunTyped DEF RefusePage, StopAtContent, KeepPage, Follow, FollowMalformed, Readable, At, Living
<1>2. Elements(run.plans) \subseteq Approved
  BY DEF Inside
<1>3. At("extracting") => Latest.page \in Page /\ Vacancies \subseteq Vacancy
  BY PageAssumption DEF Marked, Vacancies
<1>4. CASE RefusePage
  <2>1. /\ run' = [run EXCEPT !.pc = "planning", !.reasons = @ \cup {"ADAPTER_EXTRACTION_FAILED"}]
        /\ UNCHANGED <<endpoint, previous>>
    BY <1>4 DEF RefusePage, Become
  <2>2. TypeOK'
    BY <1>1, <2>1 DEF TypeOK, RunState, Reasons
  <2>3. /\ run'.pc = "planning" /\ run'.plans = run.plans /\ run'.results = run.results
        /\ run'.pages = run.pages /\ run'.failed = run.failed /\ run'.visited = run.visited
        /\ run'.reasons = run.reasons \cup {"ADAPTER_EXTRACTION_FAILED"}
    BY <2>1, RunTyped DEF TypeOK
  <2> QED
    BY <1>1, <1>2, <2>1, <2>2, <2>3, Quiet
<1>5. CASE StopAtContent
  <2>1. PICK reason \in {"EMPTY_PAGE_STOP", "REPEATED_CONTENT_BLOCKED"} :
          run' = [run EXCEPT
                    !.pc = "ended", !.records = @ \cup Vacancies, !.prints = @ \cup {Vacancies},
                    !.reasons = @ \cup {reason}, !.limited = run.plans # <<>>]
    BY <1>5, Zenon DEF StopAtContent, Become
  <2>2. At("extracting") /\ Kind[Latest.page] # "UNREADABLE" /\ UNCHANGED <<endpoint, previous>>
    BY <1>5 DEF StopAtContent, Readable, Become
  <2>3. TypeOK'
    <3>1. PICK limited \in BOOLEAN : limited = (run.plans # <<>>)
      OBVIOUS
    <3>2. run' = [run EXCEPT
                    !.pc = "ended", !.records = @ \cup Vacancies, !.prints = @ \cup {Vacancies},
                    !.reasons = @ \cup {reason}, !.limited = limited]
      BY <2>1, <3>1
    <3>3. reason \in Reasons
      BY DEF Reasons, StopReasons
    <3>4. /\ run.reasons \cup {reason} \in SUBSET Reasons
          /\ run.records \cup Vacancies \in SUBSET Vacancy
          /\ run.prints \cup {Vacancies} \in SUBSET SUBSET Vacancy
      BY <1>1, <1>3, <2>2, <3>3
    <3> QED
      BY <2>2, <3>2, <3>4 DEF TypeOK, RunState
  <2>4. /\ run'.pc = "ended" /\ run'.plans = run.plans /\ run'.results = run.results
        /\ run'.pages = run.pages /\ run'.failed = run.failed /\ run'.visited = run.visited
        /\ run'.reasons = run.reasons \cup {reason} /\ run'.limited = (run.plans # <<>>)
    BY <2>1, RunTyped DEF TypeOK
  <2>5. run'.reasons \cap StopReasons # {}
    BY <2>4 DEF StopReasons
  <2> QED
    BY <1>1, <1>2, <2>2, <2>3, <2>4, <2>5, Quiet
<1>6. CASE KeepPage
  <2>1. PICK prints \in SUBSET SUBSET Vacancy :
          run' = [run EXCEPT !.pc = "following", !.records = @ \cup Vacancies, !.prints = prints]
    <3>1. At("extracting")
      BY <1>6 DEF KeepPage, Readable
    <3>2. (IF endpoint.safety THEN run.prints \cup {Vacancies} ELSE run.prints)
            \in SUBSET SUBSET Vacancy
      BY <1>1, <1>3, <3>1
    <3>3. run' = [run EXCEPT !.pc = "following", !.records = @ \cup Vacancies,
                    !.prints = IF endpoint.safety THEN run.prints \cup {Vacancies} ELSE run.prints]
      BY <1>6 DEF KeepPage, Become
    <3> QED
      BY <3>2, <3>3
  <2>2. At("extracting") /\ Kind[Latest.page] # "UNREADABLE" /\ UNCHANGED <<endpoint, previous>>
    BY <1>6 DEF KeepPage, Readable, Become
  <2>3. TypeOK'
    BY <1>1, <1>3, <2>1, <2>2 DEF TypeOK, RunState
  <2>4. /\ run'.pc = "following" /\ run'.plans = run.plans /\ run'.results = run.results
        /\ run'.pages = run.pages /\ run'.failed = run.failed /\ run'.visited = run.visited
        /\ run'.reasons = run.reasons
    BY <2>1, RunTyped DEF TypeOK
  <2> QED
    BY <1>1, <1>2, <2>2, <2>3, <2>4, Quiet
<1>7. CASE Follow
  <2>1. PICK plans :
          /\ run' = [run EXCEPT !.pc = "planning", !.plans = plans]
          /\ \/ plans = run.plans
             \/ \E l \in Approved : plans = Append(run.plans, l)
    <3>1. CASE run' = [run EXCEPT !.pc = "planning"]
      <4>1. run' = [run EXCEPT !.pc = "planning", !.plans = run.plans]
        BY <3>1, RunTyped DEF TypeOK
      <4> QED
        BY <4>1
    <3>2. CASE \E l \in Approved :
                 run' = [run EXCEPT !.pc = "planning", !.plans = Append(@, l)]
      BY <3>2
    <3> QED
      BY <1>7, <3>1, <3>2 DEF Follow, Become
  <2>2. UNCHANGED <<endpoint, previous>> /\ ~At("extracting")
    BY <1>7 DEF Follow, Become, At
  <2>3. Approved \subseteq Locator
    BY RunTyped, EndpointAssumption DEF Approved, Elements
  <2>4. /\ plans \in Seq(Locator)
        /\ Elements(run.plans) \subseteq Elements(plans)
        /\ Elements(plans) \subseteq Approved
    <3>1. ASSUME NEW l \in Approved, plans = Append(run.plans, l)
          PROVE  /\ plans \in Seq(Locator)
                 /\ Elements(plans) = Elements(run.plans) \cup {l}
      <4>1. l \in Locator
        BY <2>3
      <4> QED
        BY <1>1, <3>1, <4>1, ElementsAppended
    <3> QED
      BY <1>1, <1>2, <2>1, <3>1
  <2>5. TypeOK'
    BY <2>1, <2>2, <2>4 DEF TypeOK, RunState
  <2>6. /\ run'.pc = "planning" /\ run'.plans = plans /\ run'.results = run.results
        /\ run'.pages = run.pages /\ run'.failed = run.failed /\ run'.visited = run.visited
        /\ run'.reasons = run.reasons
    BY <2>1, RunTyped DEF TypeOK
  <2> QED
    BY <1>1, <2>2, <2>4, <2>5, <2>6, Quiet
<1>8. CASE FollowMalformed
  <2>1. /\ run' = [run EXCEPT !.pc = "planning", !.limited = TRUE,
                              !.reasons = @ \cup {"MALFORMED_NEXT_PAGE"}]
        /\ UNCHANGED <<endpoint, previous>> /\ ~At("extracting")
    BY <1>8 DEF FollowMalformed, Become, At
  <2>2. TypeOK'
    BY <1>1, <2>1 DEF TypeOK, RunState, Reasons
  <2>3. /\ run'.pc = "planning" /\ run'.plans = run.plans /\ run'.results = run.results
        /\ run'.pages = run.pages /\ run'.failed = run.failed /\ run'.visited = run.visited
        /\ run.reasons \subseteq run'.reasons
    BY <2>1, RunTyped DEF TypeOK
  <2> QED
    BY <1>1, <1>2, <2>1, <2>2, <2>3, Quiet
<1> QED
  BY <1>4, <1>5, <1>6, <1>7, <1>8

\* A plan is taken: its page has not been requested before.
LEMMA TakeInv ==
  ASSUME Inv, TakePlan
  PROVE  Inv'
<1> USE DEF Inv
<1>1. /\ run.pc = "planning" /\ run.plans # <<>> /\ run.plans \in Seq(Locator)
      /\ run.pages < MaxPages /\ Plan \notin run.visited /\ ~Spent
      /\ run' = [run EXCEPT !.pc = "requesting", !.attempt = 0, !.visited = @ \cup {Plan}]
      /\ UNCHANGED <<endpoint, previous>>
  BY RunTyped DEF TakePlan, Planning, Become, At
<1>2. Plan \in Elements(run.plans) /\ Plan \in Locator
  BY <1>1, ElementsTaken DEF Plan
<1>3. /\ run'.pc = "requesting" /\ run'.plans = run.plans /\ run'.results = run.results
      /\ run'.pages = run.pages /\ run'.failed = run.failed /\ run'.attempt = 0
      /\ run'.visited = run.visited \cup {Plan} /\ run'.reasons = run.reasons
  BY <1>1, RunTyped DEF TypeOK
<1>4. TypeOK'
  <2>1. 0 \in 0 .. RetryLimit /\ run.visited \cup {Plan} \in SUBSET Locator
    BY <1>2, RunTyped, BoundAssumption
  <2> QED
    BY <1>1, <2>1 DEF TypeOK, RunState
<1>5. /\ Requested' = Requested /\ Failures' = Failures /\ Latest' = Latest
      /\ (Spent' <=> Spent) /\ Approved' = Approved /\ Plan' = Plan
  BY <1>1, <1>3, ResultsStay DEF Plan
<1>6. Inside'
  BY <1>1, <1>2, <1>3, <1>5 DEF Inside, At
<1>7. Tries'
  <2>1. Cardinality(TriesOf(run.results, Plan)) = 0
    BY <1>1, NeverTried DEF Inside
  <2> QED
    BY <1>1, <1>3, <1>5, <2>1 DEF Tries
<1>8. Covered'
  BY <1>1, <1>2, <1>3, <1>5 DEF Covered, Living, At
<1>9. Marked'
  BY <1>1, <1>3, <1>5 DEF Marked, Living, At
<1>10. TargetsComplete' /\ StopExplained'
  BY <1>3 DEF TargetsComplete, StopExplained, At
<1> QED
  BY <1>4, <1>6, <1>7, <1>8, <1>9, <1>10

\* What one more result of the plan at hand does to the results.
LEMMA ResultAppended ==
  ASSUME Inv, At("requesting"), ~Spent, NEW page \in Page \cup {NoPage},
         run'.results = With(page), UNCHANGED endpoint
  PROVE  /\ With(page) \in Seq(Result)
         /\ Len(run'.results) = Len(run.results) + 1
         /\ Len(run'.results) <= Budget
         /\ run'.results[Len(run'.results)].page = page
         /\ \A i \in DOMAIN run.results : run'.results[i] = run.results[i]
         /\ DOMAIN run'.results = DOMAIN run.results \cup {Len(run.results) + 1}
         /\ Requested' = Requested \cup {Plan}
         /\ page # NoPage => Failures' = Failures
         /\ page = NoPage => Failures' # {}
         /\ \A l \in Locator : Cardinality(TriesOf(run'.results, l)) <= RetryLimit + 1
         /\ Cardinality(TriesOf(run'.results, Plan)) = run.attempt + 1
<1> USE DEF Inv
<1> DEFINE x == [locator |-> Plan, page |-> page]
<1>1. /\ run.plans \in Seq(Locator) /\ run.plans # <<>> /\ Plan \in Locator
      /\ run.results \in Seq(Result) /\ run.attempt \in 0 .. RetryLimit
  BY RunTyped, ElementsTaken DEF Tries, Plan
<1>2. x \in Result /\ x.locator = Plan /\ x.page = page
  BY <1>1 DEF Result
<1> HIDE DEF x
<1>3. run'.results = Append(run.results, x) /\ With(page) = Append(run.results, x)
  BY DEF With, x
<1>4. /\ With(page) \in Seq(Result)
      /\ Len(run'.results) = Len(run.results) + 1
      /\ Len(run.results) \in Nat
      /\ DOMAIN run.results = 1 .. Len(run.results)
      /\ DOMAIN run'.results = 1 .. Len(run.results) + 1
      /\ run'.results[Len(run.results) + 1] = x
      /\ \A i \in DOMAIN run.results : run'.results[i] = run.results[i]
  BY <1>1, <1>2, <1>3
<1>5. Len(run.results) + 1 <= Budget
  BY <1>4, BoundAssumption DEF Spent
<1>6. DOMAIN run'.results = DOMAIN run.results \cup {Len(run.results) + 1}
  BY <1>4
<1>7. Requested' = Requested \cup {Plan}
  BY <1>2, <1>4, <1>6 DEF Requested
<1>8. /\ page # NoPage => Failures' = Failures
      /\ page = NoPage => Failures' # {}
  BY <1>2, <1>4, <1>6 DEF Failures
<1>9. \A l : /\ Cardinality(TriesOf(run.results, l)) \in Nat
             /\ Cardinality(TriesOf(run'.results, l))
                  = Cardinality(TriesOf(run.results, l)) + (IF Plan = l THEN 1 ELSE 0)
  BY <1>1, <1>2, <1>3, TriesAppended
<1>10. Cardinality(TriesOf(run.results, Plan)) = run.attempt
  BY DEF Tries
<1>11. \A l \in Locator : Cardinality(TriesOf(run'.results, l)) <= RetryLimit + 1
  <2> TAKE l \in Locator
  <2>1. CASE l = Plan
    BY <1>1, <1>9, <1>10, <2>1, BoundAssumption
  <2>2. CASE l # Plan
    BY <1>9, <2>2 DEF Tries
  <2> QED
    BY <2>1, <2>2
<1> QED
  BY <1>2, <1>4, <1>5, <1>6, <1>7, <1>8, <1>9, <1>10, <1>11

\* The plan at hand is done with: it leaves the plans, and its page stays among
\* those visited.
LEMMA PlanDone ==
  ASSUME Inv, At("requesting")
  PROVE  /\ Tail(run.plans) \in Seq(Locator)
         /\ Elements(run.plans) = {Plan} \cup Elements(Tail(run.plans))
         /\ Elements(Tail(run.plans)) \subseteq Approved
         /\ Plan \in run.visited
         /\ Elements(endpoint.plan) \subseteq run.visited \cup Elements(Tail(run.plans))
         /\ run.visited \subseteq Requested \cup {Plan}
<1> USE DEF Inv
<1>1. run.plans \in Seq(Locator) /\ run.plans # <<>> /\ Plan \in run.visited /\ Living
  BY RunTyped DEF Tries, Living, At
<1>2. /\ Tail(run.plans) \in Seq(Locator)
      /\ Elements(run.plans) = {Plan} \cup Elements(Tail(run.plans))
  BY <1>1, ElementsTaken DEF Plan
<1> QED
  BY <1>1, <1>2 DEF Inside, Covered

\* A request is answered.
LEMMA RequestInv ==
  ASSUME Inv, Request
  PROVE  Inv'
<1> USE DEF Inv
<1>1. PICK page \in Page :
        run' = [run EXCEPT !.pc = "extracting", !.plans = Tail(@), !.results = With(page),
                           !.pages = @ + 1]
  BY DEF Request, Become
<1>2. At("requesting") /\ ~Spent /\ UNCHANGED <<endpoint, previous>> /\ page # NoPage
  BY PageAssumption DEF Request, Become
<1>3. /\ run'.pc = "extracting" /\ run'.plans = Tail(run.plans) /\ run'.results = With(page)
      /\ run'.pages = run.pages + 1 /\ run'.visited = run.visited
      /\ run'.failed = run.failed /\ run'.reasons = run.reasons
  BY <1>1, RunTyped DEF TypeOK
<1>4. /\ With(page) \in Seq(Result)
      /\ Len(run'.results) = Len(run.results) + 1
      /\ Len(run'.results) <= Budget
      /\ run'.results[Len(run'.results)].page = page
      /\ \A i \in DOMAIN run.results : run'.results[i] = run.results[i]
      /\ DOMAIN run'.results = DOMAIN run.results \cup {Len(run.results) + 1}
      /\ Requested' = Requested \cup {Plan}
      /\ Failures' = Failures
      /\ \A l \in Locator : Cardinality(TriesOf(run'.results, l)) <= RetryLimit + 1
  BY <1>2, <1>3, ResultAppended
<1>5. /\ Tail(run.plans) \in Seq(Locator)
      /\ Elements(Tail(run.plans)) \subseteq Approved
      /\ Plan \in run.visited
      /\ Elements(endpoint.plan) \subseteq run.visited \cup Elements(Tail(run.plans))
      /\ run.visited \subseteq Requested \cup {Plan}
  BY <1>2, PlanDone
<1>6. TypeOK'
  <2>1. run.pages + 1 \in Nat
    BY RunTyped
  <2> QED
    BY <1>1, <1>2, <1>4, <1>5, <2>1 DEF TypeOK, RunState
<1>7. Inside'
  BY <1>2, <1>3, <1>4, <1>5, RunTyped, BoundAssumption DEF Inside, At, Approved
<1>8. Tries'
  BY <1>3, <1>4 DEF Tries, At
<1>9. Covered'
  BY <1>2, <1>3, <1>4, <1>5 DEF Covered
<1>10. Marked'
  <2>1. Living /\ run'.results # <<>>
    BY <1>2, <1>4, RunTyped DEF Living, At
  <2>2. ASSUME NEW i \in DOMAIN run'.results, run'.results[i].page \in Page,
               Kind[run'.results[i].page] = "UNREADABLE", i # Len(run'.results)
        PROVE  "ADAPTER_EXTRACTION_FAILED" \in run'.reasons
    BY <1>2, <1>3, <1>4, <2>1, <2>2 DEF Marked, At
  <2>3. Latest'.page \in Page
    BY <1>4 DEF Latest
  <2> QED
    BY <1>3, <1>4, <2>1, <2>2, <2>3 DEF Marked, Living, At, Latest
<1>11. TargetsComplete' /\ StopExplained'
  BY <1>3 DEF TargetsComplete, StopExplained, At
<1> QED
  BY <1>6, <1>7, <1>8, <1>9, <1>10, <1>11

\* A request fails: the plan is given up, or tried again while its retries and
\* the budget last.
LEMMA FailInv ==
  ASSUME Inv, FailRequest
  PROVE  Inv'
<1> USE DEF Inv
<1>1. /\ At("requesting") /\ ~Spent /\ UNCHANGED <<endpoint, previous>>
      /\ \/ run' = [run EXCEPT !.results = With(NoPage), !.failed = TRUE, !.pc = "planning",
                               !.plans = Tail(@), !.reasons = @ \cup {"TRANSPORT_FAILED"}]
         \/ /\ run.attempt < RetryLimit
            /\ run' = [run EXCEPT !.results = With(NoPage), !.failed = TRUE, !.attempt = @ + 1]
  BY RunTyped DEF FailRequest, Become, Fail, TypeOK
<1>2. run'.results = With(NoPage) /\ run'.failed = TRUE /\ run'.pages = run.pages
      /\ run'.visited = run.visited /\ run.reasons \subseteq run'.reasons
  BY <1>1, RunTyped DEF TypeOK
<1>3. /\ With(NoPage) \in Seq(Result)
      /\ Len(run'.results) <= Budget
      /\ Len(run'.results) = Len(run.results) + 1
      /\ run'.results[Len(run'.results)].page = NoPage
      /\ \A i \in DOMAIN run.results : run'.results[i] = run.results[i]
      /\ DOMAIN run'.results = DOMAIN run.results \cup {Len(run.results) + 1}
      /\ Requested' = Requested \cup {Plan}
      /\ Failures' # {}
      /\ \A l \in Locator : Cardinality(TriesOf(run'.results, l)) <= RetryLimit + 1
      /\ Cardinality(TriesOf(run'.results, Plan)) = run.attempt + 1
  BY <1>1, <1>2, ResultAppended
<1>4. /\ Tail(run.plans) \in Seq(Locator)
      /\ Elements(Tail(run.plans)) \subseteq Approved
      /\ Plan \in run.visited
      /\ Elements(endpoint.plan) \subseteq run.visited \cup Elements(Tail(run.plans))
      /\ run.visited \subseteq Requested \cup {Plan}
  BY <1>1, PlanDone
<1>5. run.attempt < RetryLimit => run.attempt + 1 \in 0 .. RetryLimit
  BY RunTyped, BoundAssumption
<1>6. run.reasons \cup {"TRANSPORT_FAILED"} \in SUBSET Reasons
  BY RunTyped DEF Reasons
<1>7. TypeOK'
  <2>1. CASE run' = [run EXCEPT !.results = With(NoPage), !.failed = TRUE, !.pc = "planning",
                       !.plans = Tail(@), !.reasons = @ \cup {"TRANSPORT_FAILED"}]
    <3>1. PICK s \in Seq(Result), p \in Seq(Locator), reasons \in SUBSET Reasons :
            run' = [run EXCEPT !.results = s, !.failed = TRUE, !.pc = "planning",
                               !.plans = p, !.reasons = reasons]
      <4>1. run' = [run EXCEPT !.results = With(NoPage), !.failed = TRUE, !.pc = "planning",
                               !.plans = Tail(run.plans),
                               !.reasons = run.reasons \cup {"TRANSPORT_FAILED"}]
        BY <2>1, Zenon
      <4> USE <1>3, <1>4, <1>6
      <4> WITNESS With(NoPage) \in Seq(Result), Tail(run.plans) \in Seq(Locator),
                  run.reasons \cup {"TRANSPORT_FAILED"} \in SUBSET Reasons
      <4> QED
        BY <4>1
    <3> QED
      BY <1>1, <3>1 DEF TypeOK, RunState
  <2>2. CASE /\ run.attempt < RetryLimit
             /\ run' = [run EXCEPT !.results = With(NoPage), !.failed = TRUE, !.attempt = @ + 1]
    BY <1>1, <1>3, <1>5, <2>2 DEF TypeOK, RunState
  <2> QED
    BY <1>1, <2>1, <2>2
<1>8. /\ run'.pc \in {"planning", "requesting"}
      /\ run'.pc = "planning" => run'.plans = Tail(run.plans)
      /\ run'.pc = "requesting" => /\ run'.plans = run.plans
                                   /\ run'.attempt = run.attempt + 1
  BY <1>1, RunTyped DEF TypeOK, At
<1>9. Inside'
  BY <1>1, <1>2, <1>3, <1>4, <1>8 DEF Inside, At, Approved
<1>10. Tries'
  <2>1. ASSUME run'.pc = "requesting"
        PROVE  /\ run'.plans # <<>> /\ Plan' = Plan
               /\ run'.attempt # 0
               /\ Cardinality(TriesOf(run'.results, Plan)) = run'.attempt
    BY <1>1, <1>3, <1>8, <2>1, RunTyped, BoundAssumption DEF Tries, Plan
  <2> QED
    BY <1>2, <1>3, <1>4, <2>1 DEF Tries, At
<1>11. Covered'
  <2>1. Elements(endpoint.plan) \subseteq run.visited \cup Elements(run.plans)
    BY <1>1 DEF Covered, Living, At
  <2> QED
    BY <1>1, <1>2, <1>3, <1>4, <1>8, <2>1 DEF Covered
<1>12. Marked'
  <2>1. Living /\ ~At("extracting")
    BY <1>1 DEF Living, At
  <2>2. ASSUME NEW i \in DOMAIN run'.results, run'.results[i].page \in Page,
               Kind[run'.results[i].page] = "UNREADABLE"
        PROVE  "ADAPTER_EXTRACTION_FAILED" \in run'.reasons
    BY <1>2, <1>3, <2>1, <2>2, PageAssumption DEF Marked
  <2> QED
    BY <1>2, <1>3, <1>8, <2>2 DEF Marked, At
<1>13. TargetsComplete' /\ StopExplained'
  BY <1>8 DEF TargetsComplete, StopExplained, At
<1> QED
  BY <1>7, <1>9, <1>10, <1>11, <1>12, <1>13

\* The budget is spent between two tries.
LEMMA LeaveInv ==
  ASSUME Inv, LeaveRetries
  PROVE  Inv'
<1> USE DEF Inv
<1>1. /\ At("requesting") /\ Spent /\ UNCHANGED <<endpoint, previous>>
      /\ run' = [run EXCEPT !.pc = "planning", !.plans = Tail(@),
                            !.reasons = @ \cup {"TRANSPORT_FAILED"}]
  BY DEF LeaveRetries, Become, Fail
<1>2. /\ run'.pc = "planning" /\ run'.plans = Tail(run.plans) /\ run'.results = run.results
      /\ run'.pages = run.pages /\ run'.visited = run.visited /\ run'.failed = run.failed
      /\ run.reasons \subseteq run'.reasons
  BY <1>1, RunTyped DEF TypeOK
<1>3. /\ Tail(run.plans) \in Seq(Locator)
      /\ Elements(Tail(run.plans)) \subseteq Approved
      /\ Elements(endpoint.plan) \subseteq run.visited \cup Elements(Tail(run.plans))
      /\ run.visited \subseteq Requested \cup {Plan}
  BY <1>1, PlanDone
<1>4. run.reasons \cup {"TRANSPORT_FAILED"} \in SUBSET Reasons
  BY RunTyped DEF Reasons
<1>5. TypeOK'
  BY <1>1, <1>3, <1>4 DEF TypeOK, RunState
<1>6. /\ Requested' = Requested /\ Failures' = Failures /\ Approved' = Approved
  BY <1>1, <1>2, ResultsStay
<1>7. Inside'
  BY <1>1, <1>2, <1>3, <1>6 DEF Inside, At
<1>8. Tries'
  BY <1>2 DEF Tries, At
<1>9. Covered'
  <2>1. Plan \in Requested
    <3>1. Cardinality(TriesOf(run.results, Plan)) # 0
      BY <1>1 DEF Tries
    <3> QED
      BY <3>1, NeverTried
  <2> QED
    BY <1>1, <1>2, <1>3, <1>6, <2>1 DEF Covered
<1>10. Marked'
  BY <1>1, <1>2, <1>6 DEF Marked, Living, At
<1>11. TargetsComplete' /\ StopExplained'
  BY <1>2 DEF TargetsComplete, StopExplained, At
<1> QED
  BY <1>5, <1>7, <1>8, <1>9, <1>10, <1>11

\* The transport throws.
LEMMA AbortInv ==
  ASSUME Inv, Abort
  PROVE  Inv'
<1> USE DEF Inv
<1>1. /\ At("requesting") /\ UNCHANGED <<endpoint, previous>>
      /\ \/ run' = [run EXCEPT !.pc = "thrown"]
         \/ run' = [run EXCEPT !.pc = "done", !.status = "FAILED", !.reasons = {"TRANSPORT_FAILED"}]
  BY DEF Abort, Become
<1>2. TypeOK'
  <2>1. {"TRANSPORT_FAILED"} \in SUBSET Reasons /\ "FAILED" \in Statuses
    BY DEF Reasons, Statuses
  <2>2. {"thrown", "done"} \subseteq RunState
    BY DEF RunState
  <2>3. CASE run' = [run EXCEPT !.pc = "thrown"]
    BY <1>1, <2>2, <2>3 DEF TypeOK
  <2>4. CASE run' = [run EXCEPT !.pc = "done", !.status = "FAILED", !.reasons = {"TRANSPORT_FAILED"}]
    BY <1>1, <2>1, <2>2, <2>4 DEF TypeOK
  <2> QED
    BY <1>1, <2>3, <2>4
<1>3. /\ run'.pc \in {"thrown", "done"}
      /\ run'.results = run.results /\ run'.pages = run.pages
      /\ run'.plans = run.plans /\ run'.visited = run.visited
      /\ run'.pc = "done" => run'.status = "FAILED" /\ run'.reasons = {"TRANSPORT_FAILED"}
  BY <1>1, RunTyped DEF TypeOK
<1>4. Requested' = Requested /\ Approved' = Approved
  BY <1>1, <1>3, ResultsStay
<1>5. Inside' /\ Tries' /\ Covered' /\ Marked'
  BY <1>3, <1>4 DEF Inside, Tries, Covered, Marked, Living, At
<1>6. TargetsComplete'
  BY <1>3 DEF TargetsComplete, Trusted, At
<1>7. StopExplained'
  BY <1>3 DEF StopExplained, At
<1> QED
  BY <1>2, <1>5, <1>6, <1>7

\* Classification reads the marks: what is taken for complete has none.
LEMMA ConcludeInv ==
  ASSUME Inv, Conclude
  PROVE  Inv'
<1> USE DEF Inv
<1> DEFINE r == [run EXCEPT !.reasons = @ \cup (IF run.failed THEN {"TRANSPORT_FAILED"} ELSE {})]
<1>1. PICK completeness \in Completeness, more \in SUBSET
             {"RETRIED_TRANSPORT_FAILURE", "ADAPTER_REPORTED_PARTIAL", "ZERO_EXTRACTED_RECORDS"} :
        run' = [r EXCEPT !.pc = "done", !.status = StatusOf(r, completeness),
                         !.reasons = @ \cup more]
  <2>1. PICK completeness \in Completeness :
          LET status == StatusOf(r, completeness)
              more == (IF run.failed /\ status # "FAILED" THEN {"RETRIED_TRANSPORT_FAILURE"} ELSE {})
                \cup (IF completeness = "PARTIAL" THEN {"ADAPTER_REPORTED_PARTIAL"} ELSE {})
                \cup (IF status = "SUSPICIOUS_EMPTY" THEN {"ZERO_EXTRACTED_RECORDS"} ELSE {}) IN
            run' = [r EXCEPT !.pc = "done", !.status = status, !.reasons = @ \cup more]
    BY DEF Conclude, Become
  <2> DEFINE status == StatusOf(r, completeness)
             more == (IF run.failed /\ status # "FAILED" THEN {"RETRIED_TRANSPORT_FAILURE"} ELSE {})
                \cup (IF completeness = "PARTIAL" THEN {"ADAPTER_REPORTED_PARTIAL"} ELSE {})
                \cup (IF status = "SUSPICIOUS_EMPTY" THEN {"ZERO_EXTRACTED_RECORDS"} ELSE {})
  <2>2. more \in SUBSET
          {"RETRIED_TRANSPORT_FAILURE", "ADAPTER_REPORTED_PARTIAL", "ZERO_EXTRACTED_RECORDS"}
    OBVIOUS
  <2> QED
    BY <2>1, <2>2
<1>2. At("ended") /\ Living /\ UNCHANGED <<endpoint, previous>>
  BY DEF Conclude, Become, At, Living
<1> DEFINE base == run.reasons \cup (IF run.failed THEN {"TRANSPORT_FAILED"} ELSE {})
<1>3. /\ r.reasons = base /\ r.limited = run.limited /\ r.records = run.records
      /\ base \in SUBSET Reasons
  BY RunTyped DEF TypeOK, Reasons
<1>4. /\ run'.pc = "done" /\ run'.status = StatusOf(r, completeness)
      /\ run'.reasons = base \cup more
      /\ run'.results = run.results /\ run'.pages = run.pages /\ run'.records = run.records
      /\ run'.plans = run.plans /\ run'.visited = run.visited
  BY <1>1, <1>3, RunTyped DEF TypeOK
<1>5. StatusOf(r, completeness) \in Statuses
  BY DEF StatusOf, Statuses
<1>6. TypeOK'
  <2>1. base \cup more \in SUBSET Reasons
    BY <1>3 DEF Reasons
  <2>2. run' = [run EXCEPT !.pc = "done", !.status = StatusOf(r, completeness),
                           !.reasons = base \cup more]
    BY <1>1, <1>3, RunTyped DEF TypeOK
  <2> HIDE DEF r, base
  <2> QED
    BY <1>2, <1>5, <2>1, <2>2 DEF TypeOK, RunState
<1>7. /\ Requested' = Requested /\ Failures' = Failures /\ Approved' = Approved
  BY <1>2, <1>4, ResultsStay
<1>8. Inside' /\ Tries' /\ Covered' /\ Marked'
  BY <1>4, <1>7 DEF Inside, Tries, Covered, Marked, Living, At
<1>9. run.plans # <<>> => run.limited /\ run.reasons \cap StopReasons # {}
  BY <1>2 DEF Marked
<1>10. Elements(endpoint.plan) \subseteq Requested \cup Elements(run.plans)
  BY <1>2 DEF Covered, At
<1>11. run.plans = <<>> => Elements(run.plans) = {}
  BY DEF Elements
<1>12. StopExplained'
  BY <1>2, <1>4, <1>7, <1>9, <1>10, <1>11 DEF StopExplained
<1>13. Failures # {} => "TRANSPORT_FAILED" \in base
  BY <1>2 DEF Marked
<1>14. \A i \in DOMAIN run.results :
         run.results[i].page \in Page /\ Kind[run.results[i].page] = "UNREADABLE" =>
           "ADAPTER_EXTRACTION_FAILED" \in base
  BY <1>2 DEF Marked, At
<1>15. ASSUME run'.status = "SUCCESS" \/ (run'.status = "SUSPICIOUS_EMPTY" /\ ProvenEmpty')
       PROVE  /\ ~run.limited
              /\ "TRANSPORT_FAILED" \notin base
              /\ "MALFORMED_NEXT_PAGE" \notin base
              /\ "ADAPTER_EXTRACTION_FAILED" \notin base
  <2>1. ProvenEmpty' => base \subseteq {"ZERO_EXTRACTED_RECORDS"}
    BY <1>4 DEF ProvenEmpty
  <2> HIDE DEF base, r
  <2>2. CASE run'.status = "SUCCESS"
    BY <1>3, <1>4, <2>2 DEF StatusOf, Partial
  <2>3. CASE run'.status = "SUSPICIOUS_EMPTY" /\ ProvenEmpty'
    BY <1>3, <1>4, <2>1, <2>3 DEF StatusOf, Partial
  <2> QED
    BY <1>15, <2>2, <2>3
<1>16. TargetsComplete'
  <2> SUFFICES ASSUME Trusted' \in {"SUCCESS", "NOT_MODIFIED", "CONFIRMED_EMPTY"}
               PROVE  /\ Elements(endpoint.plan) \cup Elements(run.plans) \subseteq Requested
                      /\ Failures = {}
                      /\ \A i \in DOMAIN run.results : Kind[run.results[i].page] # "UNREADABLE"
                      /\ "MALFORMED_NEXT_PAGE" \notin base \cup more
    BY <1>2, <1>4, <1>7 DEF TargetsComplete
  <2>1. run'.status = "SUCCESS" \/ (run'.status = "SUSPICIOUS_EMPTY" /\ ProvenEmpty')
    <3>1. run'.status \in {"SUCCESS", "PARTIAL", "SUSPICIOUS_EMPTY", "FAILED"}
      BY <1>4, <1>5 DEF Statuses
    <3>2. CASE run'.status = "SUSPICIOUS_EMPTY"
      BY <3>2 DEF Trusted, Assessed
    <3>3. CASE run'.status \in {"PARTIAL", "FAILED"}
      BY <3>3 DEF Trusted
    <3> QED
      BY <3>1, <3>2, <3>3
  <2>2. /\ ~run.limited
        /\ "TRANSPORT_FAILED" \notin base
        /\ "MALFORMED_NEXT_PAGE" \notin base
        /\ "ADAPTER_EXTRACTION_FAILED" \notin base
    BY <1>15, <2>1
  <2>3. run.plans = <<>> /\ Failures = {}
    BY <1>9, <1>13, <2>2
  <2>4. ASSUME NEW i \in DOMAIN run.results
        PROVE  Kind[run.results[i].page] # "UNREADABLE"
    <3>1. run.results[i] \in Result
      BY RunTyped
    <3>2. run.results[i].page \in Page
      BY <2>3, <3>1 DEF Result, Failures
    <3> QED
      BY <1>14, <2>2, <3>2
  <2> QED
    BY <1>10, <1>11, <2>2, <2>3, <2>4
<1> QED
  BY <1>6, <1>8, <1>12, <1>16

\* Every step preserves the invariant.
LEMMA StepInv ==
  ASSUME Inv, [Next]_vars
  PROVE  Inv'
<1>1. CASE UNCHANGED vars
  BY <1>1 DEF vars, Inv, TypeOK, Inside, Tries, Covered, Marked, Living, At, Plan, Spent, Latest,
    Failures, Requested, Approved, TargetsComplete, StopExplained, Trusted, Unchanged, ProvenEmpty,
    Assessed
<1>2. CASE Next
  BY <1>2, LoopInv, TakeInv, RequestInv, FailInv, LeaveInv, AbortInv, PageInv, ConcludeInv DEF Next
<1> QED
  BY <1>1, <1>2

LEMMA InvHolds == Spec => []Inv
BY InitInv, StepInv, PTL DEF Spec

-----------------------------------------------------------------------------
\* Every variable has its type: the locals of run() stay what they are declared
\* as, and no retry count passes its limit (collection-runner.ts, run).
THEOREM CollectionTyped == Spec => []TypeOK
<1>1. Inv => TypeOK
  BY DEF Inv
<1> QED
  BY <1>1, InvHolds, PTL

\* However pages fail, are retried or lead to one another, a run stays within
\* its budget, its pages and its retries, and on approved pages
\* (collection-runner.ts, run and executePlan).
THEOREM CollectionBounded == Spec => []Bounded
<1>1. Inv => Bounded
  BY DEF Inv, Inside, Tries, Bounded, TriesOf
<1> QED
  BY <1>1, InvHolds, PTL

\* What an execution reports as success, unchanged or confirmed empty has had
\* each page of its plan requested, answered and read (classify, and
\* classifyTrustedAcquisition over it).
THEOREM CompleteIsComplete == Spec => []TargetsComplete
<1>1. Inv => TargetsComplete
  BY DEF Inv
<1> QED
  BY <1>1, InvHolds, PTL

\* Where pages were approved one by one the result says why one of them was not
\* requested, so that its outcome can be sealed (source-execution-outcome.ts).
THEOREM StopsAreExplained == Spec => []StopExplained
<1>1. Inv => StopExplained
  BY DEF Inv
<1> QED
  BY <1>1, InvHolds, PTL
=============================================================================
