------------------------------ MODULE Collection ------------------------------
(***************************************************************************)
(* One collection run (lib/collection-runtime/collection-runner.ts): the   *)
(* planned pages of an endpoint are requested one after the other, retried *)
(* within a budget, extracted and followed, until the run ends by itself   *)
(* or at a bound; and what the production root makes of the result         *)
(* (lib/production-persistence/trusted-acquisition-evidence.ts, with       *)
(* lib/ingestion/lifecycle/source-run-missing-guard.ts).                   *)
(*                                                                         *)
(* The adapter and the transport are of each endpoint's own: what they     *)
(* answer is chosen freely.  The endpoint's content is JSON.               *)
(***************************************************************************)
EXTENDS Naturals, Sequences, FiniteSets

CONSTANTS
  Locator,
  Vacancy,
  Page,         \* bodies of successful responses
  Kind,         \* Kind[p]: how the adapter and the checks of emptiness read p
  VacanciesOf,  \* VacanciesOf[p]: the records extracted from p
  NoPage,       \* the body of a failed response
  Endpoints,    \* plans, each with or without pagination_safety
  Pasts,        \* the last verified content of the endpoint, if there is any
  MaxPages, Budget, RetryLimit  \* the smaller of what policy, endpoint and query contract allow

\* A page lists vacancies, is {"records":[]}, is {"jobs":[],"next":null,"total":0},
\* has no records in another form, or cannot be extracted.
Kinds == {"LISTED", "NO_RECORDS", "CLOSED_EMPTY", "OTHER_EMPTY", "UNREADABLE"}

Elements(s) == {s[i] : i \in DOMAIN s}

ASSUME PageAssumption ==
  /\ NoPage \notin Page
  /\ Kind \in [Page -> Kinds] /\ VacanciesOf \in [Page -> SUBSET Vacancy]
  /\ \A p \in Page : Kind[p] = "LISTED" <=> VacanciesOf[p] # {}
ASSUME EndpointAssumption ==
  /\ Endpoints \subseteq [safety : BOOLEAN, plan : Seq(Locator)]
  /\ \A e \in Endpoints : e.safety =>
       /\ e.plan # <<>>
       /\ \A i, j \in DOMAIN e.plan : e.plan[i] = e.plan[j] => i = j
  /\ Pasts \subseteq [known : BOOLEAN, requests : Seq(Locator \X Page)]
ASSUME BoundAssumption ==
  MaxPages \in Nat \ {0} /\ Budget \in Nat \ {0} /\ RetryLimit \in Nat

Result == [locator : Locator, page : Page \cup {NoPage}]

StopReasons == {"EMPTY_PAGE_STOP", "REPEATED_CONTENT_BLOCKED", "MAX_PAGES_REACHED",
                "REQUEST_BUDGET_EXHAUSTED"}
Reasons == StopReasons \cup
  {"TRANSPORT_FAILED", "REPEATED_PAGE_BLOCKED", "ADAPTER_EXTRACTION_FAILED",
   "MALFORMED_NEXT_PAGE", "RETRIED_TRANSPORT_FAILURE", "ADAPTER_REPORTED_PARTIAL",
   "ZERO_EXTRACTED_RECORDS"}
Statuses == {"SUCCESS", "PARTIAL", "SUSPICIOUS_EMPTY", "FAILED"}
Completeness == {"COMPLETE", "PARTIAL", "SUSPICIOUS_EMPTY", "FAILED"}

VARIABLES
  endpoint,  \* the endpoint collected
  previous,  \* its last verified content
  run        \* the locals of CollectionRunner.run

vars == <<endpoint, previous, run>>

\* The run is at the head of its loop, at a request, at a page, at its next
\* page, behind the loop; it has returned, or thrown.
RunState == {"planning", "requesting", "extracting", "following", "ended", "done", "thrown"}

Init ==
  /\ endpoint \in Endpoints
  /\ previous \in Pasts
  /\ run = [pc |-> "planning", plans |-> endpoint.plan, attempt |-> 0, visited |-> {},
            results |-> <<>>, records |-> {}, prints |-> {}, reasons |-> {},
            pages |-> 0, failed |-> FALSE, limited |-> FALSE, status |-> "FAILED"]

At(s) == run.pc = s
Become(r) == run' = r /\ UNCHANGED <<endpoint, previous>>

\* The pages plans may name: with pagination_safety those planned, which are
\* those approved.
Approved == IF endpoint.safety THEN Elements(endpoint.plan) ELSE Locator

\* Variant: one request too many.
SpentLate == Len(run.results) > Budget

Spent == Len(run.results) >= Budget
Latest == run.results[Len(run.results)]
Failures == {i \in DOMAIN run.results : run.results[i].page = NoPage}
Requested == {run.results[i].locator : i \in DOMAIN run.results}

-----------------------------------------------------------------------------
(* The head of the loop.                                                   *)

Stop(reason) ==
  Become([run EXCEPT !.pc = "ended", !.reasons = @ \cup {reason}, !.limited = TRUE])

EndPlans ==
  /\ At("planning") /\ run.plans = <<>>
  /\ Become([run EXCEPT !.pc = "ended"])

Planning == At("planning") /\ run.plans # <<>>
Plan == Head(run.plans)

StopAtPages ==
  /\ Planning /\ run.pages >= MaxPages
  /\ Stop("MAX_PAGES_REACHED")

SkipVisited ==
  /\ Planning /\ run.pages < MaxPages
  /\ Plan \in run.visited
  /\ Become([run EXCEPT !.plans = Tail(@), !.limited = TRUE,
                        !.reasons = @ \cup {"REPEATED_PAGE_BLOCKED"}])

\* Variant: the run stops and does not say why.
StopAtBudgetSilent ==
  /\ Planning /\ run.pages < MaxPages
  /\ Plan \notin run.visited
  /\ Spent
  /\ Become([run EXCEPT !.pc = "ended", !.limited = TRUE])

StopAtBudget ==
  /\ Planning /\ run.pages < MaxPages
  /\ Plan \notin run.visited
  /\ Spent
  /\ Stop("REQUEST_BUDGET_EXHAUSTED")

TakePlan ==
  /\ Planning /\ run.pages < MaxPages
  /\ Plan \notin run.visited
  /\ ~Spent
  /\ Become([run EXCEPT !.pc = "requesting", !.attempt = 0, !.visited = @ \cup {Plan}])

-----------------------------------------------------------------------------
(* executePlan.                                                            *)

With(page) == Append(run.results, [locator |-> Plan, page |-> page])

Request ==
  /\ At("requesting") /\ ~Spent
  /\ \E page \in Page :
       Become([run EXCEPT !.pc = "extracting", !.plans = Tail(@), !.results = With(page),
                          !.pages = @ + 1])

\* The plan is given up.
Fail(r) == [r EXCEPT !.pc = "planning", !.plans = Tail(@),
                     !.reasons = @ \cup {"TRANSPORT_FAILED"}]

\* Variant: the first request is not counted among the attempts.
FailRequestOnceMore ==
  /\ At("requesting") /\ ~Spent
  /\ LET failure == [run EXCEPT !.results = With(NoPage), !.failed = TRUE] IN
       \/ Become(Fail(failure))
       \/ /\ run.attempt <= RetryLimit
          /\ Become([failure EXCEPT !.attempt = @ + 1])

FailRequest ==
  /\ At("requesting") /\ ~Spent
  /\ LET failure == [run EXCEPT !.results = With(NoPage), !.failed = TRUE] IN
       \/ Become(Fail(failure))
       \/ /\ run.attempt < RetryLimit
          /\ Become([failure EXCEPT !.attempt = @ + 1])

LeaveRetries ==
  /\ At("requesting") /\ Spent
  /\ Become(Fail(run))

\* The transport throws: the root makes a failed collection of what has been
\* captured, or throws as well (no request captured, one still unresolved, or
\* not a continuous run).
Abort ==
  /\ At("requesting") /\ ~Spent
  /\ \/ Become([run EXCEPT !.pc = "thrown"])
     \/ /\ run.results # <<>>
        /\ Become([run EXCEPT !.pc = "done", !.status = "FAILED",
                              !.reasons = {"TRANSPORT_FAILED"}])

-----------------------------------------------------------------------------
(* A page.                                                                 *)

Vacancies == VacanciesOf[Latest.page]
Readable == At("extracting") /\ Kind[Latest.page] # "UNREADABLE"

RefusePage ==
  /\ At("extracting")
  /\ Kind[Latest.page] = "UNREADABLE"
  /\ Become([run EXCEPT !.pc = "planning", !.reasons = @ \cup {"ADAPTER_EXTRACTION_FAILED"}])

\* With pagination_safety an explicitly empty page, or one whose vacancies some
\* page has shown before, is the last.
Empty == Kind[Latest.page] = "NO_RECORDS"
Repeated == Vacancies # {} /\ Vacancies \in run.prints

StopAtContent ==
  /\ Readable
  /\ endpoint.safety /\ (Empty \/ Repeated)
  /\ Become([run EXCEPT
       !.pc = "ended", !.records = @ \cup Vacancies, !.prints = @ \cup {Vacancies},
       !.reasons = @ \cup {IF Empty THEN "EMPTY_PAGE_STOP" ELSE "REPEATED_CONTENT_BLOCKED"},
       !.limited = run.plans # <<>>])

KeepPage ==
  /\ Readable
  /\ ~(endpoint.safety /\ (Empty \/ Repeated))
  /\ Become([run EXCEPT !.pc = "following", !.records = @ \cup Vacancies,
                        !.prints = IF endpoint.safety THEN @ \cup {Vacancies} ELSE @])

\* nextPage: there is none, or it is one of those planned already.
Follow ==
  /\ At("following")
  /\ \/ Become([run EXCEPT !.pc = "planning"])
     \/ \E l \in Approved :
          /\ ~(endpoint.safety /\ l \in Elements(run.plans))
          /\ Become([run EXCEPT !.pc = "planning", !.plans = Append(@, l)])

\* nextPage throws, or names a page that is not approved.
FollowMalformed ==
  /\ At("following")
  /\ Become([run EXCEPT !.pc = "planning", !.limited = TRUE,
                        !.reasons = @ \cup {"MALFORMED_NEXT_PAGE"}])

-----------------------------------------------------------------------------
(* The result.                                                             *)

\* Variant: every reason why a run may be incomplete is taken to show in
\* limited.
PartialIfLimited(r, completeness) == r.limited \/ completeness = "PARTIAL"

Partial(r, completeness) ==
  \/ r.limited \/ completeness = "PARTIAL"
  \/ r.reasons \cap {"MALFORMED_NEXT_PAGE", "REPEATED_PAGE_BLOCKED"} # {}

\* classify
StatusOf(r, completeness) ==
  CASE /\ r.records = {} /\ "EMPTY_PAGE_STOP" \in r.reasons
       /\ "ADAPTER_EXTRACTION_FAILED" \notin r.reasons -> "SUSPICIOUS_EMPTY"
    [] OTHER ->
       IF "TRANSPORT_FAILED" \in r.reasons THEN "FAILED"
       ELSE IF Partial(r, completeness) THEN "PARTIAL"
       ELSE IF "ADAPTER_EXTRACTION_FAILED" \in r.reasons \/ completeness = "FAILED" THEN "FAILED"
       ELSE IF r.records = {} \/ completeness = "SUSPICIOUS_EMPTY" THEN "SUSPICIOUS_EMPTY"
       ELSE "SUCCESS"

\* assessCompleteness may call partial or failed what it likes.
Conclude ==
  /\ At("ended")
  /\ \E completeness \in Completeness :
       LET r == [run EXCEPT !.reasons = @ \cup (IF run.failed THEN {"TRANSPORT_FAILED"} ELSE {})]
           status == StatusOf(r, completeness)
           more == (IF run.failed /\ status # "FAILED" THEN {"RETRIED_TRANSPORT_FAILURE"} ELSE {})
             \cup (IF completeness = "PARTIAL" THEN {"ADAPTER_REPORTED_PARTIAL"} ELSE {})
             \cup (IF status = "SUSPICIOUS_EMPTY" THEN {"ZERO_EXTRACTED_RECORDS"} ELSE {}) IN
         Become([r EXCEPT !.pc = "done", !.status = status, !.reasons = @ \cup more])

\* classifyTrustedAcquisition: the same pages as last time.
Unchanged ==
  /\ previous.known
  /\ previous.requests = [i \in DOMAIN run.results |->
                            <<run.results[i].locator, run.results[i].page>>]

\* proveClosedOfficialJsonEmpty, and a history to compare with
ProvenEmpty ==
  /\ Len(run.results) = 1 /\ run.pages = 1
  /\ run.reasons \subseteq {"ZERO_EXTRACTED_RECORDS"}
  /\ Failures = {} /\ Kind[Latest.page] = "CLOSED_EMPTY"
  /\ previous.known

\* assessRun, of a run without occurrences
Assessed ==
  IF run.results = <<>> \/ Failures # {} THEN "FAILED"
  ELSE IF ProvenEmpty THEN "CONFIRMED_EMPTY"
  ELSE "SUSPICIOUS_EMPTY"

\* What the source execution is said to have come to.
Trusted ==
  CASE run.status = "FAILED" /\ run.records # {} -> "PARTIAL"
    [] run.status = "SUCCESS" /\ Unchanged -> "NOT_MODIFIED"
    [] run.status = "SUSPICIOUS_EMPTY" -> Assessed
    [] OTHER -> run.status

Next ==
  \/ EndPlans \/ StopAtPages \/ SkipVisited \/ StopAtBudget \/ TakePlan
  \/ Request \/ FailRequest \/ LeaveRetries \/ Abort
  \/ RefusePage \/ StopAtContent \/ KeepPage \/ Follow \/ FollowMalformed
  \/ Conclude

Spec == Init /\ [][Next]_vars
-----------------------------------------------------------------------------
(* What is to be checked.                                                  *)

\* Every variable has its type; the run is inside its plan.
TypeOK ==
  /\ endpoint \in Endpoints /\ previous \in Pasts
  /\ run \in [pc : RunState, plans : Seq(Locator), attempt : 0 .. RetryLimit,
              visited : SUBSET Locator, results : Seq(Result), records : SUBSET Vacancy,
              prints : SUBSET SUBSET Vacancy, reasons : SUBSET Reasons, pages : Nat,
              failed : BOOLEAN, limited : BOOLEAN, status : Statuses]

\* Whatever pages fail, are retried or lead to, a run makes no more requests
\* than its budget and collects no more pages than allowed, requests no page
\* but an approved one, and none more often than its retries allow.
Bounded ==
  /\ Len(run.results) <= Budget
  /\ run.pages <= MaxPages
  /\ Requested \subseteq Approved
  /\ \A l \in Locator :
       Cardinality({i \in DOMAIN run.results : run.results[i].locator = l}) <= RetryLimit + 1

\* An incomplete collection is never taken for a complete one: a source
\* execution is a success, unchanged or confirmed empty only if each page of its
\* plan was requested once and answered, each answer could be extracted, and no
\* page led to one that was not collected or is not known.
TargetsComplete ==
  At("done") /\ Trusted \in {"SUCCESS", "NOT_MODIFIED", "CONFIRMED_EMPTY"} =>
    /\ Elements(endpoint.plan) \cup Elements(run.plans) \subseteq Requested
    /\ Failures = {}
    /\ \A i \in DOMAIN run.results : Kind[run.results[i].page] # "UNREADABLE"
    /\ "MALFORMED_NEXT_PAGE" \notin run.reasons

\* Where a query was approved page by page, the outcome gives a reason for each
\* page that was not requested: unless the collection was aborted the run has
\* one, or the outcome could not be sealed and its attempts would stay unbound.
StopExplained ==
  At("done") /\ endpoint.safety /\ ~(Elements(endpoint.plan) \subseteq Requested) =>
    \/ run.reasons \cap StopReasons # {}
    \/ run.reasons = {"TRANSPORT_FAILED"}
=============================================================================
