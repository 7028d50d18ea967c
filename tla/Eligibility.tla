------------------------------ MODULE Eligibility ------------------------------
(***************************************************************************)
(* Whether a candidate may apply for a position: evidence about the        *)
(* candidate is issued, each fact of the position's requirement set is     *)
(* resolved against evidence a command names, and an assessment is made    *)
(* of resolutions another command names                                    *)
(* (lib/ingestion/pipeline: approved-requirement-projector.ts,             *)
(* trusted-candidate-evidence.ts, position-bound-predicate-resolution.ts,  *)
(* position-bound-eligibility-assessment.ts, trusted-artifact-chain.ts).   *)
(*                                                                         *)
(* One candidate, one position; the parser is taken for what it hands to   *)
(* the projector.  The revisions of a manifest stream, which nothing here  *)
(* reads, and the program directories and CR#11 projections of majors are  *)
(* left out.                                                               *)
(***************************************************************************)
EXTENDS Naturals, Sequences, FiniteSets

CONSTANTS
  Evidence, Item,  \* Item[e]: what an item of evidence says, of whom it comes
  Cases,           \* a parsed posting each, the items a candidate may bring and
                   \* the times commands may name
  MaxRevision, MaxAssessments

Statuses == {"CONFIRMED", "INSUFFICIENT", "REVIEW_REQUIRED"}
Origins == {"CANDIDATE_ASSERTED", "DOCUMENT_VERIFIED", "SYNTHETIC_TEST"}
Levels == {"OTHER", "BACHELOR", "MASTER", "DOCTOR"}
Degrees == {"BACHELOR", "MASTER", "GRADUATE", "DOCTOR"}
Backgrounds == {"LAW", "NON_LAW"}

\* The kind of evidence that answers a dimension.  A record that must be absent
\* is answered as a status that must; formal clearances are left out.
KindOf ==
  [GRADUATION_YEAR |-> "GRADUATION_YEAR", GENDER |-> "GENDER", AGE |-> "AGE",
   MAJOR |-> "CREDENTIAL", EDUCATION_LEVEL |-> "CREDENTIAL",
   QUALIFICATION |-> "QUALIFICATION",
   CITIZENSHIP_EQUALS |-> "CITIZENSHIP", CITIZENSHIP_EXCLUDED |-> "CITIZENSHIP",
   STATUS_MUST_BE_PRESENT |-> "STATUS", STATUS_MUST_BE_ABSENT |-> "STATUS"]
Predicates == {d \in DOMAIN KindOf : KindOf[d] \in {"CITIZENSHIP", "STATUS"}}
Single == {"GRADUATION_YEAR", "GENDER", "AGE"}

ASSUME EvidenceAssumption ==
  /\ {MaxRevision, MaxAssessments} \subseteq Nat
  /\ \A e \in Evidence :
       /\ Item[e].status \in Statuses /\ Item[e].origin \in Origins
       \* Observed at seen, effective from from to to.
       /\ {"kind", "status", "origin", "seen", "from", "to"} \subseteq DOMAIN Item[e]
       /\ {Item[e].seen, Item[e].from, Item[e].to} \subseteq Nat
       /\ Item[e].kind = "COHORT" => "value" \in DOMAIN Item[e]
       /\ Item[e].kind = "CREDENTIAL" =>
            Item[e].level \in Levels /\ Item[e].background \in Backgrounds \cup {"UNKNOWN"}
       \* An assertion of a state may be of none, but is not confirmed then.
       /\ Item[e].kind \in {"CITIZENSHIP", "STATUS"} =>
            /\ Item[e].origin = "SYNTHETIC_TEST"
            /\ Item[e].value = "NONE" => Item[e].status # "CONFIRMED"
ASSUME CaseAssumption ==
  \A k \in Cases :
    /\ k.items \subseteq Evidence /\ k.times \subseteq Nat
    /\ \A i \in DOMAIN k.posting : \A j \in DOMAIN k.posting[i].facts :
         LET f == k.posting[i].facts[j]
         IN  f.joined \in {"AND", "OR"} /\ f.dimension \in DOMAIN KindOf

VARIABLES
  case,         \* the posting and the candidate
  issued,       \* the evidence the registry holds
  resolutions,  \* by fact and time, the revisions of its resolution
  assessments   \* the revisions of the assessment

vars == <<case, issued, resolutions, assessments>>

Confirmed(E) == {e \in E : Item[e].status = "CONFIRMED"}
OfKind(k, E) == {e \in E : Item[e].kind = k}
Values(E) == {Item[e].value : e \in E}
EffectiveAt(e, t) == Item[e].from <= t /\ t <= Item[e].to
AppliesAt(e, t) == Item[e].seen <= t /\ EffectiveAt(e, t)

-----------------------------------------------------------------------------
(* The requirement set: a condition for each clause of the posting.        *)

IsResolved(c) == c.confirmed /\ c.facts # <<>>
IsUnresolved(c) == ~IsResolved(c) /\ c.role = "MANDATORY"
IsMandatory(c) == IsResolved(c) /\ c.role # "PREFERRED"

Conditions == {i \in DOMAIN case.posting : IsResolved(case.posting[i])}
MandatoryRoot == {i \in DOMAIN case.posting : IsMandatory(case.posting[i])}
Facts == UNION {{i} \X DOMAIN case.posting[i].facts : i \in Conditions}
FactAt(x) == case.posting[x[1]].facts[x[2]]

Complete ==
  /\ \A i \in DOMAIN case.posting : ~IsUnresolved(case.posting[i])
  /\ \A x \in Facts : FactAt(x).explicit

FactsOf(c) == {c.facts[j] : j \in DOMAIN c.facts}

\* The levels of the credentials a condition is about.
ApplicableLevels(c) ==
  LET scopes == {f.scope : f \in FactsOf(c)}
      LevelsIn(s) == IF s = "GRADUATE" THEN {"MASTER", "DOCTOR"} ELSE {s}
  IN  IF ~(scopes \subseteq Degrees) THEN Levels
      ELSE IF scopes = {"MASTER"} THEN LevelsIn("GRADUATE")
      ELSE UNION {LevelsIn(s) : s \in scopes}

CohortsOf(c) == UNION {f.cohorts : f \in FactsOf(c)}

\* AND binds closer than OR: the alternatives of a condition.
Alternatives(c) ==
  LET starts == {1} \cup {j \in DOMAIN c.facts : c.facts[j].joined = "OR"}
  IN  {{j \in DOMAIN c.facts : s <= j /\ ~\E r \in starts : s < r /\ r <= j} : s \in starts}

-----------------------------------------------------------------------------
(* What evidence says of a fact.                                           *)

Answer(status, E) == [status |-> status, evidence |-> E]
Resolved(matched, E) == Answer(IF matched THEN "MATCH" ELSE "NOT_MATCH", E)
Insufficient(E) == Answer("INSUFFICIENT", E)
Review(E) == Answer("REVIEW_REQUIRED", E)

\* A single value, which all evidence must agree on.
AnswerSingle(f, E, t) ==
  LET items == OfKind(f.dimension, E)
  IN  IF items = {} THEN Insufficient({})
      ELSE IF f.dimension = "GRADUATION_YEAR"
              /\ \E e \in items : Item[e].status = "REVIEW_REQUIRED" THEN Review(items)
      ELSE IF Confirmed(items) # items THEN Insufficient(items)
      ELSE IF Cardinality(Values(items)) > 1 THEN Review(items)
      ELSE IF Values(items) = {"UNKNOWN"} THEN Insufficient(items)
      ELSE IF f.dimension = "AGE" /\ f.reference > t THEN Review(items)
      ELSE Resolved(Values(items) \subseteq f.accepts, items)

AnswerQualification(f, E) ==
  LET items == OfKind("QUALIFICATION", E)
      matching == {e \in items : Item[e].value \in f.accepts}
      outcomes == {Item[e].outcome : e \in matching}
  IN  IF items = {} THEN Insufficient({})
      ELSE IF matching = {} THEN Insufficient(items)
      ELSE IF \E e \in matching : Item[e].status = "REVIEW_REQUIRED" THEN Review(matching)
      ELSE IF Confirmed(matching) # matching \/ "UNKNOWN" \in outcomes
        THEN Insufficient(matching)
      ELSE IF Cardinality(outcomes) > 1 THEN Review(matching)
      ELSE Resolved(outcomes = {"SATISFIED"}, matching)

\* Evidence of a state is effective at the date the predicate names, a citizenship
\* when the question is asked; observed it is by then in either case.
Current(e, f, t) ==
  LET date == IF KindOf[f.dimension] = "CITIZENSHIP" THEN t ELSE f.reference
  IN  Item[e].seen <= t /\ EffectiveAt(e, date)

AnswerState(f, E, t) ==
  LET relevant == {e \in OfKind(KindOf[f.dimension], E) :
                     KindOf[f.dimension] = "STATUS" =>
                       Item[e].value \in f.accepts \cup {"NONE"}}
      items == {e \in relevant : Current(e, f, t)}
      sure == Confirmed(items)
      same == Values(sure) \subseteq f.accepts
  IN  IF items = {} THEN Insufficient(relevant)
      ELSE IF \E e \in items : Item[e].status = "REVIEW_REQUIRED" THEN Review(items)
      ELSE IF sure = {} THEN Insufficient(items)
      ELSE IF Cardinality(Values(sure)) > 1 THEN Review(sure)
      ELSE Resolved(f.dimension \in {"CITIZENSHIP_EQUALS", "STATUS_MUST_BE_PRESENT"} <=> same, sure)

\* Variant: evidence that was never confirmed counts.
ConfirmedCredentialsAll(C) == {e \in C : Item[e].complete}

ConfirmedCredentials(C) == {e \in Confirmed(C) : Item[e].complete}

AnswerLevel(f, C) ==
  IF \E e \in C : Item[e].level \in f.accepts THEN Resolved(TRUE, C) ELSE Insufficient(C)

\* Variant: what is not known of a major is taken for another major.
AnswerMajorAssumed(f, C) ==
  LET backgrounds == f.accepts \cap Backgrounds
  IN  IF backgrounds # {}
        THEN Resolved(\E e \in C : Item[e].background \in backgrounds, C)
        ELSE Resolved(\E e \in C : Item[e].codes \cap f.accepts # {}, C)

AnswerMajor(f, C) ==
  LET backgrounds == f.accepts \cap Backgrounds
      codes == UNION {Item[e].codes : e \in C}
  IN  IF "0351" \in f.accepts /\ \E e \in C : Item[e].conversion THEN Review(C)
      ELSE IF f.accepts = {} THEN Review(C)  \* unrestricted
      ELSE IF backgrounds # {}
        THEN IF \E e \in C : Item[e].background = "UNKNOWN" THEN Insufficient(C)
             ELSE Resolved(\E e \in C : Item[e].background \in backgrounds, C)
      ELSE IF "LAW_STUDIES_FAMILY" \in f.accepts
              /\ \A e \in C : Item[e].background = "NON_LAW" THEN Resolved(FALSE, C)
      ELSE IF codes = {} THEN Insufficient(C)
      ELSE IF codes \cap f.accepts # {} THEN Resolved(TRUE, C)
      ELSE IF \A e \in C : Item[e].identified THEN Resolved(FALSE, C)
      ELSE Insufficient(C)

AnswerCredential(f, C) ==
  IF C = {} THEN Insufficient({})
  ELSE IF ConfirmedCredentials(C) = {} THEN Insufficient(C)
  ELSE IF f.dimension = "MAJOR" THEN AnswerMajor(f, ConfirmedCredentials(C))
  ELSE AnswerLevel(f, ConfirmedCredentials(C))

\* Whether the condition concerns the candidate, by the cohorts confirmed.
Applicability(c, E, t) ==
  LET known == Values(Confirmed({e \in OfKind("COHORT", E) : AppliesAt(e, t)}))
  IN  IF CohortsOf(c) = {} THEN "APPLIES"
      ELSE IF known = {} THEN "UNKNOWN"
      ELSE IF CohortsOf(c) \cap known = {} THEN "DOES_NOT_APPLY"
      ELSE "APPLIES"

\* The credentials a condition is about.
Selected(c, E) == {e \in OfKind("CREDENTIAL", E) : Item[e].level \in ApplicableLevels(c)}

Evaluate(x, E, t) ==
  LET c == case.posting[x[1]]
      f == FactAt(x)
      usable == {e \in E : AppliesAt(e, t)}
      cohorts == Confirmed(OfKind("COHORT", usable))
      outside == {e \in OfKind(KindOf[f.dimension], E \ usable) : f.dimension # "GRADUATION_YEAR"}
  IN  IF Applicability(c, E, t) # "APPLIES" THEN Answer("UNKNOWN", cohorts)
      ELSE IF f.dimension \in Predicates THEN AnswerState(f, E, t)
      ELSE IF usable = {} /\ outside # {} THEN Insufficient(outside)
      ELSE IF KindOf[f.dimension] = "CREDENTIAL" THEN AnswerCredential(f, Selected(c, usable))
      ELSE IF f.dimension = "QUALIFICATION" THEN AnswerQualification(f, usable)
      ELSE AnswerSingle(f, usable, t)

-----------------------------------------------------------------------------
(* What a set of resolutions amounts to.                                   *)

LogicalResult(status) ==
  IF status = "MATCH" THEN "TRUE" ELSE IF status = "NOT_MATCH" THEN "FALSE" ELSE "UNKNOWN"

AndTruth(S) == IF "FALSE" \in S THEN "FALSE" ELSE IF "UNKNOWN" \in S THEN "UNKNOWN" ELSE "TRUE"

\* Variant: an alternative that is not known is dropped.
OrTruthKnown(S) == IF "TRUE" \in S THEN "TRUE" ELSE "FALSE"

OrTruth(S) == IF "TRUE" \in S THEN "TRUE" ELSE IF "UNKNOWN" \in S THEN "UNKNOWN" ELSE "FALSE"

\* answers: the resolution of each fact.
ConditionResult(i, answers) ==
  OrTruth({AndTruth({LogicalResult(answers[<<i, j>>].status) : j \in a}) :
             a \in Alternatives(case.posting[i])})

MandatoryTruth(answers) == AndTruth({ConditionResult(i, answers) : i \in MandatoryRoot})

Verdict(answers) ==
  LET truth == MandatoryTruth(answers)
  IN  IF truth = "TRUE" THEN "ELIGIBLE" ELSE IF truth = "FALSE" THEN "INELIGIBLE" ELSE "NEEDS_REVIEW"

AnswersAt(E, t) == [x \in Facts |-> Evaluate(x, E, t)]

Synthetic(E) == {e \in E : Item[e].origin = "SYNTHETIC_TEST"}
Scope(E) ==
  IF Synthetic(E) = {} THEN "PRODUCTION" ELSE IF Synthetic(E) = E THEN "SYNTHETIC_TEST" ELSE "MIXED"

-----------------------------------------------------------------------------
(* The commands.                                                           *)

Init ==
  /\ case \in Cases
  /\ issued = {}
  /\ resolutions = [k \in Facts \X case.times |-> <<>>]
  /\ assessments = <<>>

\* A claim is never confirmed.
Issue(e) ==
  /\ e \in case.items \ issued
  /\ ~(Item[e].origin = "CANDIDATE_ASSERTED" /\ Item[e].status = "CONFIRMED")
  /\ issued' = issued \cup {e}
  /\ UNCHANGED <<case, resolutions, assessments>>

Elements(s) == {s[i] : i \in DOMAIN s}

\* Variant: an answer found before is sealed again.
RevisedAgain(s, answer) == Append(s, answer)

\* An answer given before keeps its revision.
Revised(s, answer) == IF answer \in Elements(s) THEN s ELSE Append(s, answer)

Resolve(E, t) ==
  /\ Complete
  /\ resolutions' =
       [k \in Facts \X case.times |->
          IF k[2] = t THEN Revised(resolutions[k], Evaluate(k[1], E, t)) ELSE resolutions[k]]
  /\ \A k \in Facts \X case.times : Len(resolutions'[k]) <= MaxRevision
  /\ UNCHANGED <<case, issued, assessments>>

Supplied(chosen, t) == [x \in Facts |-> resolutions[<<x, t>>][chosen[x]]]

\* Variant: what was resolved is taken as it is.
VerifiedUnchecked(answers, E, t) == TRUE

\* The resolutions are computed again from the evidence of this command.
Verified(answers, E, t) == answers = AnswersAt(E, t)

Assessment(answers, E, t) ==
  [scope |-> Scope(E), asOf |-> t, answers |-> answers, verdict |-> Verdict(answers)]

\* What makes two items one to an assessment: all but when they were observed,
\* which the assertion of a state has within.
Said(e) ==
  IF Item[e].kind \in {"CITIZENSHIP", "STATUS"} THEN Item[e]
  ELSE [field \in DOMAIN Item[e] \ {"seen"} |-> Item[e][field]]

\* Of items that are one the first named is kept (uniqueCandidateEvidence), which
\* by the order of the command may be any.
Listings(E) ==
  {L \in SUBSET E :
     /\ \A e \in E : \E d \in L : Said(d) = Said(e)
     /\ \A d, e \in L : Said(d) = Said(e) => d = e}

\* chosen: a revision of each fact's resolution.  named, the evidence of the command,
\* is known from its journal; the assessment itself keeps what is listed.
Assess(chosen, E, t) ==
  /\ Complete
  /\ \A x \in Facts : chosen[x] \in DOMAIN resolutions[<<x, t>>]
  /\ LET answers == Supplied(chosen, t)
         basis == Assessment(answers, E, t)
     IN  /\ Verified(answers, E, t)
         /\ basis.scope # "MIXED"
         /\ \E L \in Listings(E) : assessments' =
              IF \E i \in DOMAIN assessments : assessments[i].basis = basis THEN assessments
              ELSE Append(assessments, [basis |-> basis, named |-> E, listed |-> L])
  /\ Len(assessments') <= MaxAssessments
  /\ UNCHANGED <<case, issued, resolutions>>

Next ==
  \/ \E e \in Evidence : Issue(e)
  \/ \E E \in SUBSET issued, t \in case.times :
       \/ Resolve(E, t)
       \/ \E chosen \in [Facts -> 1..MaxRevision] : Assess(chosen, E, t)

Spec == Init /\ [][Next]_vars

-----------------------------------------------------------------------------
(* Correctness.                                                            *)

AnswerType == [status : {"MATCH", "NOT_MATCH", "INSUFFICIENT", "REVIEW_REQUIRED", "UNKNOWN"},
               evidence : SUBSET case.items]

\* Types: evidence is the candidate's, no claim of it is confirmed, and the
\* revisions of a resolution and of an assessment differ in what they say.
TypeOK ==
  /\ case \in Cases
  /\ issued \subseteq case.items
  /\ \A e \in Confirmed(issued) : Item[e].origin # "CANDIDATE_ASSERTED"
  /\ DOMAIN resolutions = Facts \X case.times
  /\ \A k \in DOMAIN resolutions :
       /\ Elements(resolutions[k]) \subseteq AnswerType
       /\ Cardinality(Elements(resolutions[k])) = Len(resolutions[k])
  /\ \A i, j \in DOMAIN assessments :
       /\ assessments[i].listed \subseteq assessments[i].named
       /\ assessments[i].named \subseteq issued
       /\ assessments[i].basis = assessments[j].basis => i = j

Assessed == Elements(assessments)

\* The mandatory conditions hold when just the facts of F do.
Holds(F) ==
  \A i \in MandatoryRoot : \E a \in Alternatives(case.posting[i]) : {i} \X a \subseteq F

Answering(a, status) == {x \in Facts : LogicalResult(a.basis.answers[x].status) = status}

\* All that may turn out of the facts: those known to hold, and any of the others
\* that are not known to fail.
Outcomes(a) == {Answering(a, "TRUE") \cup U : U \in SUBSET Answering(a, "UNKNOWN")}

\* A verdict is definite exactly when what is unknown cannot change it: nothing
\* unknown is taken for a failure or a success, and nobody is sent to review
\* over what does not matter (evaluateLogicTree and aggregateMandatoryLogic).
DefiniteExactly ==
  \A a \in Assessed :
    /\ a.basis.verdict = "ELIGIBLE" <=> \A F \in Outcomes(a) : Holds(F)
    /\ a.basis.verdict = "INELIGIBLE" <=> \A F \in Outcomes(a) : ~Holds(F)

\* The evidence an assessment can be read with: what it lists, and what the answers
\* it rests on refer to.
KeptWith(a) == a.listed \cup UNION {a.basis.answers[x].evidence : x \in Facts}

\* A cohort is listed by an item that was observed only after the time asked of.
\* Another item may have said it in time and have been taken for one with this.
CohortListedLate(a) == \E e \in OfKind("COHORT", a.listed) : Item[e].seen > a.basis.asOf

\* An assessment says what the evidence of its command says, though its resolutions
\* were made by earlier commands of other evidence (validatePredicateResolutions).
\* And what it keeps of that evidence says the same: of items taken for one another
\* none is lost that the verdict needs, but for a cohort listed late, which no answer
\* refers to where the condition applies (uniqueCandidateEvidence).
VerdictOfEvidence ==
  \A a \in Assessed :
    /\ a.basis.verdict = Verdict(AnswersAt(a.named, a.basis.asOf))
    /\ ~CohortListedLate(a) => a.basis.verdict = Verdict(AnswersAt(KeptWith(a), a.basis.asOf))

Documents(E) == {e \in E : Item[e].origin = "DOCUMENT_VERIFIED"}

\* What the candidate merely claims decides nothing: a definite verdict is the
\* verdict of the verified documents alone.
RestsOnDocuments ==
  \A a \in Assessed :
    a.basis.scope = "PRODUCTION" /\ a.basis.verdict # "NEEDS_REVIEW" =>
      a.basis.verdict = Verdict(AnswersAt(Documents(a.named), a.basis.asOf))

\* Confirmed evidence that speaks to a fact at the time asked.
Speaks(e, x, t) ==
  LET f == FactAt(x)
  IN  /\ Item[e].status = "CONFIRMED" /\ Item[e].kind = KindOf[f.dimension]
      /\ IF f.dimension \in Predicates THEN Current(e, f, t) ELSE AppliesAt(e, t)
      /\ Item[e].kind = "CREDENTIAL" =>
           Item[e].complete /\ Item[e].level \in ApplicableLevels(case.posting[x[1]])
      /\ Item[e].kind \in {"QUALIFICATION", "STATUS"} => Item[e].value \in f.accepts

\* It satisfies the fact, by its own.
Satisfies(e, f) ==
  CASE f.dimension = "EDUCATION_LEVEL" -> Item[e].level \in f.accepts
    [] f.dimension = "MAJOR" ->
         IF f.accepts \cap Backgrounds # {} THEN Item[e].background \in f.accepts
         ELSE Item[e].codes \cap f.accepts # {}
    [] f.dimension = "QUALIFICATION" -> Item[e].outcome = "SATISFIED"
    [] f.dimension \in {"CITIZENSHIP_EXCLUDED", "STATUS_MUST_BE_ABSENT"} ->
         Item[e].value \notin f.accepts
    [] OTHER -> Item[e].value \in f.accepts

\* A credential of another background is none of the law family, whatever programs
\* it names: nothing compares the two.
OutsideLaw(e, f) ==
  f.dimension = "MAJOR" /\ "LAW_STUDIES_FAMILY" \in f.accepts /\ Item[e].background = "NON_LAW"

\* Of a credential too little is known to say that it does not.
Open(e) == Item[e].kind = "CREDENTIAL" /\ Item[e].background = "UNKNOWN" /\ ~Item[e].identified

\* Each fact called met or failed has confirmed evidence that speaks to it: some
\* that satisfies it, or all of it known not to; and where one value is asked
\* for, none that contradicts it.
AnswersStand ==
  \A a \in Assessed : \A x \in Facts :
    LET speaking == {e \in a.named : Speaks(e, x, a.basis.asOf)}
        meeting == {e \in speaking : Satisfies(e, FactAt(x))}
        status == a.basis.answers[x].status
    IN  /\ status = "MATCH" =>
             /\ meeting # {}
             /\ KindOf[FactAt(x).dimension] # "CREDENTIAL" => meeting = speaking
        /\ status = "NOT_MATCH" =>
             /\ speaking # {}
             /\ meeting = {} \/ \A e \in speaking : OutsideLaw(e, FactAt(x))
             /\ \A e \in speaking : ~Open(e)

\* README.md:9 tells "bachelor and master both in law" from the other restrictions,
\* and docs/2026-10-07-real-requirement-domain-inventory.md:46 says that "Existing
\* control preserves BACHELOR AND MASTER law-major requirements": who is eligible
\* has, for each major asked of a level by a condition without alternatives, a
\* credential of that level in it.
EachLevelHolds ==
  \A a \in Assessed : a.basis.verdict = "ELIGIBLE" =>
    \A x \in Facts :
      LET f == FactAt(x)
      IN  /\ x[1] \in MandatoryRoot /\ Cardinality(Alternatives(case.posting[x[1]])) = 1
          /\ f.dimension = "MAJOR" /\ f.scope \in {"BACHELOR", "MASTER", "DOCTOR"}
          => \E e \in Confirmed(a.named) :
               Item[e].kind = "CREDENTIAL" /\ Item[e].level = f.scope /\ Satisfies(e, f)
=============================================================================
