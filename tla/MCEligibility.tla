----------------------------- MODULE MCEligibility -----------------------------
(***************************************************************************)
(* A small instance of Eligibility for TLC.                                *)
(***************************************************************************)
EXTENDS Eligibility, TLC

CONSTANTS
  bachelor, master, vague, claim, year, otherYear, future, passed, failed, fresh,
  freshAgain, copy, enrolled, sample

Attested(kind, value) ==
  [kind |-> kind, value |-> value, status |-> "CONFIRMED", origin |-> "DOCUMENT_VERIFIED",
   seen |-> 1, from |-> 1, to |-> 2]
Asserted(kind, value) == [Attested(kind, value) EXCEPT !.origin = "SYNTHETIC_TEST"]
Credential(level, codes, background) ==
  [kind |-> "CREDENTIAL", level |-> level, codes |-> codes, background |-> background,
   complete |-> TRUE, identified |-> background # "UNKNOWN", conversion |-> FALSE,
   status |-> "CONFIRMED", origin |-> "DOCUMENT_VERIFIED", seen |-> 1, from |-> 1, to |-> 2]
Exam(outcome) ==
  [kind |-> "QUALIFICATION", value |-> "EXAM", outcome |-> outcome, status |-> "CONFIRMED",
   origin |-> "DOCUMENT_VERIFIED", seen |-> 1, from |-> 1, to |-> 2]

Items ==
  bachelor :> Credential("BACHELOR", {"LAW_STUDIES"}, "LAW") @@
  master :> Credential("MASTER", {"ARTS"}, "NON_LAW") @@
  vague :> Credential("MASTER", {"ARTS"}, "UNKNOWN") @@
  claim :> [Credential("MASTER", {"LAW_STUDIES"}, "LAW") EXCEPT
              !.status = "INSUFFICIENT", !.origin = "CANDIDATE_ASSERTED"] @@
  sample :> [Credential("BACHELOR", {"LAW_STUDIES"}, "LAW") EXCEPT !.origin = "SYNTHETIC_TEST"] @@
  year :> Attested("GRADUATION_YEAR", "2027") @@
  otherYear :> Attested("GRADUATION_YEAR", "2026") @@
  future :> [Asserted("CITIZENSHIP", "CN") EXCEPT !.from = 2] @@
  passed :> Exam("SATISFIED") @@
  failed :> Exam("CONTRARY") @@
  fresh :> Attested("COHORT", "FRESH") @@
  freshAgain :> [Attested("COHORT", "FRESH") EXCEPT !.seen = 2] @@
  copy :> [Credential("MASTER", {"ARTS"}, "NON_LAW") EXCEPT !.seen = 2] @@
  enrolled :> Asserted("STATUS", "ENROLLED")

Fact(dimension, scope, accepts, joined) ==
  [dimension |-> dimension, scope |-> scope, accepts |-> accepts, cohorts |-> {},
   joined |-> joined, explicit |-> TRUE, reference |-> 1]
Of(role, facts) == [role |-> role, confirmed |-> TRUE, facts |-> facts]
Must(facts) == Of("MANDATORY", facts)
Case(posting, items) == [posting |-> posting, items |-> items, times |-> {1}]
Timed(k) == [k EXCEPT !.times = {1, 2}]

Law(scope) == Fact("MAJOR", scope, {"LAW_STUDIES"}, "AND")
Master == Fact("EDUCATION_LEVEL", "CANDIDATE", {"MASTER", "DOCTOR"}, "AND")
Year == Fact("GRADUATION_YEAR", "CANDIDATE", {"2027"}, "AND")
Passed == Fact("QUALIFICATION", "CANDIDATE", {"EXAM"}, "OR")

\* A law degree of both levels.
BothLevels == Case(<<Must(<<Law("BACHELOR"), Law("MASTER")>>)>>, {bachelor, master, claim})

LevelCases == {BothLevels}

TheCases ==
  {BothLevels,
   \* A law master or the exam, which may come as a claim or not at all.
   Case(<<Must(<<Law("MASTER"), Passed>>)>>, {master, claim, passed}),
   \* The same of graduates, failed or too little known of; and a graduate of 2027.
   Case(<<Must(<<Law("GRADUATE"), Passed>>), Must(<<Year>>)>>, {vague, failed, year}),
   \* One year, and a preference, one outcome of the exam.
   Case(<<Must(<<Year>>), Of("PREFERRED", <<Passed>>)>>, {year, otherYear, passed, failed}),
   \* A master's degree; and one of those who just graduated, as some are.  Both are
   \* observed on the first day and again on the second, after the time asked of.
   Case(<<Must(<<Master>>)>>, {master, copy}),
   Case(<<Must(<<[Master EXCEPT !.cohorts = {"FRESH"}]>>)>>, {master, fresh, freshAgain}),
   \* A citizenship that is effective on the second day.
   Timed(Case(<<Must(<<Fact("CITIZENSHIP_EQUALS", "CANDIDATE", {"CN"}, "AND")>>)>>, {future})),
   \* Not enrolled, with a background in law, of which there is a sample.
   Case(<<Must(<<Fact("STATUS_MUST_BE_ABSENT", "CANDIDATE", {"ENROLLED"}, "AND")>>),
          Must(<<Fact("MAJOR", "CANDIDATE", {"LAW"}, "AND")>>)>>,
        {enrolled, sample, vague}),
   \* A clause the parser could not confirm.
   Case(<<Must(<<Year>>), [Must(<<>>) EXCEPT !.confirmed = FALSE]>>, {year, otherYear})}
=============================================================================
