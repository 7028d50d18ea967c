--------------------------- MODULE EligibilityProofs ---------------------------
(***************************************************************************)
(* That what an assessment says of a candidate rests on the evidence of    *)
(* its command, and on what it keeps of that, whatever postings and        *)
(* evidence there are.                                                     *)
(*                                                                         *)
(* No command changes the posting, so that an answer computed from a set   *)
(* of evidence is the same whenever it is computed.  What an assessment    *)
(* keeps is tied to its evidence by one conjunct of the invariant, and the *)
(* properties are then facts about the evaluation of a requirement set.    *)
(***************************************************************************)
EXTENDS Eligibility, FiniteSetTheorems, TLAPS

-----------------------------------------------------------------------------
(* Sets of values.                                                         *)

LEMMA OneValue ==
  ASSUME NEW V, IsFiniteSet(V), ~(Cardinality(V) > 1), NEW u \in V, NEW v \in V
  PROVE  u = v
<1>1. Cardinality(V) \in Nat
  BY FS_CardinalityType
<1>2. Cardinality(V) = 0 \/ Cardinality(V) = 1
  BY <1>1
<1>3. V # {}
  OBVIOUS
<1>4. \E x : V = {x}
  BY <1>2, <1>3, FS_EmptySet, FS_Singleton
<1> QED
  BY <1>4

LEMMA FiniteValues ==
  ASSUME NEW E, IsFiniteSet(E)
  PROVE  IsFiniteSet(Values(E)) /\ IsFiniteSet({Item[e].outcome : e \in E})
<1> DEFINE f == [e \in E |-> Item[e].value]
           g == [e \in E |-> Item[e].outcome]
<1>1. f \in Surjection(E, Values(E))
  BY DEF Surjection, Values
<1>2. g \in Surjection(E, {Item[e].outcome : e \in E})
  BY DEF Surjection
<1> QED
  BY <1>1, <1>2, FS_Surjection

-----------------------------------------------------------------------------
(* Each answer is of its type, and of the evidence it was asked of.        *)

Answers(E) ==
  [status : {"MATCH", "NOT_MATCH", "INSUFFICIENT", "REVIEW_REQUIRED", "UNKNOWN"},
   evidence : SUBSET E]

LEMMA SingleType ==
  ASSUME NEW f, NEW E, NEW t
  PROVE  AnswerSingle(f, E, t) \in Answers(E)
BY DEF AnswerSingle, Answers, Answer, Insufficient, Review, Resolved, OfKind

LEMMA QualificationType ==
  ASSUME NEW f, NEW E
  PROVE  AnswerQualification(f, E) \in Answers(E)
BY DEF AnswerQualification, Answers, Answer, Insufficient, Review, Resolved, OfKind

LEMMA StateType ==
  ASSUME NEW f, NEW E, NEW t
  PROVE  AnswerState(f, E, t) \in Answers(E)
BY DEF AnswerState, Answers, Answer, Insufficient, Review, Resolved, OfKind, Confirmed

LEMMA CredentialType ==
  ASSUME NEW f, NEW C
  PROVE  AnswerCredential(f, C) \in Answers(C)
<1> DEFINE D == ConfirmedCredentials(C)
<1>1. D \subseteq C
  BY DEF ConfirmedCredentials, Confirmed
<1>2. AnswerMajor(f, D) \in Answers(D)
  BY DEF AnswerMajor, Answers, Answer, Insufficient, Review, Resolved
<1>3. AnswerLevel(f, D) \in Answers(D)
  BY DEF AnswerLevel, Answers, Answer, Insufficient, Resolved
<1>4. Answers(D) \subseteq Answers(C)
  BY <1>1 DEF Answers
<1>5. Insufficient({}) \in Answers(C) /\ Insufficient(C) \in Answers(C)
  BY DEF Answers, Answer, Insufficient
<1> QED
  BY <1>2, <1>3, <1>4, <1>5 DEF AnswerCredential

LEMMA EvaluateType ==
  ASSUME NEW x, NEW E, NEW t
  PROVE  Evaluate(x, E, t) \in Answers(E)
<1> DEFINE f == FactAt(x)
           usable == {e \in E : AppliesAt(e, t)}
           C == Selected(case.posting[x[1]], usable)
<1>1. usable \subseteq E /\ C \subseteq E
  BY DEF Selected, OfKind
<1>2. \A D \in SUBSET E : Answers(D) \subseteq Answers(E)
  BY DEF Answers
<1>3. \A D \in SUBSET E : Answer("UNKNOWN", D) \in Answers(E) /\ Insufficient(D) \in Answers(E)
  BY DEF Answers, Answer, Insufficient
<1>4. /\ AnswerState(f, E, t) \in Answers(E)
      /\ AnswerSingle(f, usable, t) \in Answers(E)
      /\ AnswerQualification(f, usable) \in Answers(E)
      /\ AnswerCredential(f, C) \in Answers(E)
  BY <1>1, <1>2, StateType, SingleType, QualificationType, CredentialType
<1> DEFINE cohorts == Confirmed(OfKind("COHORT", usable))
           outside == {e \in OfKind(KindOf[f.dimension], E \ usable) :
                         f.dimension # "GRADUATION_YEAR"}
<1>5. cohorts \subseteq E /\ outside \subseteq E
  BY DEF Confirmed, OfKind
<1>6. Answer("UNKNOWN", cohorts) \in Answers(E) /\ Insufficient(outside) \in Answers(E)
  BY <1>3, <1>5
<1> HIDE DEF f, usable, C, cohorts, outside
<1> QED
  BY <1>4, <1>6 DEF Evaluate, f, usable, C, cohorts, outside
-----------------------------------------------------------------------------
(* An answer that is definite stands on the evidence that speaks.          *)

\* What AnswersStand asks of one answer; S is the evidence that speaks.
Stands(status, S, f) ==
  LET meeting == {e \in S : Satisfies(e, f)}
  IN  /\ status = "MATCH" =>
           meeting # {} /\ (KindOf[f.dimension] # "CREDENTIAL" => meeting = S)
      /\ status = "NOT_MATCH" =>
           /\ S # {}
           /\ meeting = {} \/ \A e \in S : OutsideLaw(e, f)
           /\ \A e \in S : ~Open(e)

\* All of the evidence has one value, so that it all satisfies the fact or none.
LEMMA SingleStands ==
  ASSUME NEW f, f.dimension \in Single, NEW E, IsFiniteSet(E), NEW t
  PROVE  Stands(AnswerSingle(f, E, t).status, Confirmed(OfKind(f.dimension, E)), f)
<1> DEFINE items == OfKind(f.dimension, E)
           status == AnswerSingle(f, E, t).status
<1>1. \A e \in E : Satisfies(e, f) <=> Item[e].value \in f.accepts
  BY DEF Satisfies, Single
<1>2. \A e \in items : e \in E /\ ~Open(e)
  BY DEF OfKind, Open, Single
<1>3. IsFiniteSet(items)
  BY FS_Subset DEF OfKind
<1>4. CASE status \in {"MATCH", "NOT_MATCH"}
  <2>1. /\ items # {} /\ Confirmed(items) = items /\ ~(Cardinality(Values(items)) > 1)
        /\ status = "MATCH" <=> Values(items) \subseteq f.accepts
    BY <1>4 DEF AnswerSingle, Answer, Resolved, Insufficient, Review
  <2>2. \A d, e \in items : Item[d].value = Item[e].value
    <3>1. \A u, v \in Values(items) : u = v
      BY <2>1, <1>3, FiniteValues, OneValue
    <3> QED
      BY <3>1 DEF Values
  <2>3. Values(items) \subseteq f.accepts <=> \A e \in items : Item[e].value \in f.accepts
    BY DEF Values
  <2> HIDE DEF items, status
  <2> QED
    BY <1>1, <1>2, <2>1, <2>2, <2>3 DEF Stands, items, status
<1>5. CASE status \notin {"MATCH", "NOT_MATCH"}
  BY <1>5 DEF Stands
<1> QED
  BY <1>4, <1>5

LEMMA QualificationStands ==
  ASSUME NEW f, f.dimension = "QUALIFICATION", NEW E, IsFiniteSet(E)
  PROVE  Stands(AnswerQualification(f, E).status,
                {e \in Confirmed(OfKind("QUALIFICATION", E)) : Item[e].value \in f.accepts}, f)
<1> DEFINE items == OfKind("QUALIFICATION", E)
           matching == {e \in items : Item[e].value \in f.accepts}
           outcomes == {Item[e].outcome : e \in matching}
           status == AnswerQualification(f, E).status
           S == {e \in Confirmed(items) : Item[e].value \in f.accepts}
<1>1. \A e \in E : Satisfies(e, f) <=> Item[e].outcome = "SATISFIED"
  BY DEF Satisfies
<1>2. \A e \in matching : e \in E /\ ~Open(e)
  BY DEF OfKind, Open
<1>3. IsFiniteSet(matching)
  BY FS_Subset DEF OfKind
<1>4. CASE status \in {"MATCH", "NOT_MATCH"}
  <2>1. /\ matching # {} /\ Confirmed(matching) = matching /\ ~(Cardinality(outcomes) > 1)
        /\ status = "MATCH" <=> outcomes = {"SATISFIED"}
    BY <1>4 DEF AnswerQualification, Answer, Resolved, Insufficient, Review
  <2>2. S = matching
    BY <2>1 DEF Confirmed
  <2>3. \A u, v \in outcomes : u = v
    BY <2>1, <1>3, FiniteValues, OneValue
  <2>4. \A d, e \in matching : Item[d].outcome = Item[e].outcome
    BY <2>3
  <2>5. outcomes = {"SATISFIED"} <=> \A e \in matching : Item[e].outcome = "SATISFIED"
    BY <2>1
  <2> HIDE DEF matching, outcomes, status, S
  <2>6. Stands(status, S, f)
    BY <1>1, <1>2, <2>1, <2>2, <2>4, <2>5 DEF Stands
  <2> QED
    BY <2>6 DEF matching, outcomes, status, S
<1>5. CASE status \notin {"MATCH", "NOT_MATCH"}
  BY <1>5 DEF Stands
<1> QED
  BY <1>4, <1>5

\* An assertion of no status is not confirmed, so what is sure of a status is of
\* one the fact names.
LEMMA StateStands ==
  ASSUME NEW f, f.dimension \in Predicates, NEW E \in SUBSET Evidence, IsFiniteSet(E), NEW t
  PROVE  Stands(AnswerState(f, E, t).status,
                {e \in Confirmed(OfKind(KindOf[f.dimension], E)) :
                   /\ Current(e, f, t)
                   /\ Item[e].kind = "STATUS" => Item[e].value \in f.accepts}, f)
<1> DEFINE kind == KindOf[f.dimension]
           relevant == {e \in OfKind(kind, E) :
                          kind = "STATUS" => Item[e].value \in f.accepts \cup {"NONE"}}
           items == {e \in relevant : Current(e, f, t)}
           sure == Confirmed(items)
           status == AnswerState(f, E, t).status
           S == {e \in Confirmed(OfKind(kind, E)) :
                   Current(e, f, t) /\ (Item[e].kind = "STATUS" => Item[e].value \in f.accepts)}
           positive == f.dimension \in {"CITIZENSHIP_EQUALS", "STATUS_MUST_BE_PRESENT"}
<1>1. /\ f.dimension \in {"CITIZENSHIP_EQUALS", "CITIZENSHIP_EXCLUDED",
                          "STATUS_MUST_BE_PRESENT", "STATUS_MUST_BE_ABSENT"}
      /\ kind \in {"CITIZENSHIP", "STATUS"}
  BY DEF Predicates, KindOf
<1>2. \A e \in E : Satisfies(e, f) <=> (positive <=> Item[e].value \in f.accepts)
  BY <1>1 DEF Satisfies
<1>3. S = sure
  <2>1. \A e \in Evidence : Item[e].kind = "STATUS" /\ Item[e].value = "NONE" =>
                              Item[e].status # "CONFIRMED"
    BY EvidenceAssumption
  <2> HIDE DEF kind
  <2> QED
    BY <2>1 DEF Confirmed, OfKind
<1>4. \A e \in sure : e \in E /\ ~Open(e)
  BY <1>1 DEF OfKind, Open, Confirmed
<1>5. IsFiniteSet(sure)
  BY FS_Subset DEF OfKind, Confirmed
<1>6. CASE status \in {"MATCH", "NOT_MATCH"}
  <2>1. /\ sure # {} /\ ~(Cardinality(Values(sure)) > 1)
        /\ status = "MATCH" <=> (positive <=> Values(sure) \subseteq f.accepts)
    BY <1>6 DEF AnswerState, Answer, Resolved, Insufficient, Review
  <2>2. \A d, e \in sure : Item[d].value = Item[e].value
    <3>1. \A u, v \in Values(sure) : u = v
      BY <2>1, <1>5, FiniteValues, OneValue
    <3> QED
      BY <3>1 DEF Values
  <2>3. Values(sure) \subseteq f.accepts <=> \A e \in sure : Item[e].value \in f.accepts
    BY DEF Values
  <2>4. kind # "CREDENTIAL"
    BY <1>1
  <2> HIDE DEF kind, relevant, items, sure, status, S, positive
  <2>5. Stands(status, S, f)
    BY <1>2, <1>3, <1>4, <2>1, <2>2, <2>3 DEF Stands
  <2> QED
    BY <2>5 DEF kind, status, S
<1>7. CASE status \notin {"MATCH", "NOT_MATCH"}
  BY <1>7 DEF Stands
<1> QED
  BY <1>6, <1>7

LEMMA CredentialStands ==
  ASSUME NEW f, f.dimension \in {"MAJOR", "EDUCATION_LEVEL"}, NEW C \in SUBSET Evidence,
         \A e \in C : Item[e].kind = "CREDENTIAL"
  PROVE  Stands(AnswerCredential(f, C).status, ConfirmedCredentials(C), f)
<1> DEFINE D == ConfirmedCredentials(C)
<1>1. KindOf[f.dimension] = "CREDENTIAL"
  BY DEF KindOf
<1>2. f.dimension = "EDUCATION_LEVEL" => Stands(AnswerLevel(f, D).status, D, f)
  BY <1>1 DEF Stands, AnswerLevel, Answer, Resolved, Insufficient, Satisfies
<1>3. ASSUME f.dimension = "MAJOR", D # {}
      PROVE  Stands(AnswerMajor(f, D).status, D, f)
  <2> DEFINE backgrounds == f.accepts \cap Backgrounds
             codes == UNION {Item[e].codes : e \in D}
             status == AnswerMajor(f, D).status
  <2>1. \A e \in D : Satisfies(e, f) <=>
          IF backgrounds # {} THEN Item[e].background \in f.accepts
          ELSE Item[e].codes \cap f.accepts # {}
    BY <1>3 DEF Satisfies
  <2>2. CASE status = "MATCH"
    <3>1. \/ backgrounds # {} /\ \E e \in D : Item[e].background \in backgrounds
          \/ backgrounds = {} /\ codes \cap f.accepts # {}
      BY <2>2 DEF AnswerMajor, Answer, Resolved, Insufficient, Review
    <3> QED
      BY <1>1, <2>1, <2>2, <3>1 DEF Stands
  <2>3. CASE status = "NOT_MATCH"
    <3>1. \/ /\ backgrounds # {}
             /\ \A e \in D : Item[e].background # "UNKNOWN" /\ Item[e].background \notin backgrounds
          \/ "LAW_STUDIES_FAMILY" \in f.accepts /\ \A e \in D : Item[e].background = "NON_LAW"
          \/ backgrounds = {} /\ codes \cap f.accepts = {} /\ \A e \in D : Item[e].identified
      BY <2>3 DEF AnswerMajor, Answer, Resolved, Insufficient, Review
    <3>2. \/ {e \in D : Satisfies(e, f)} = {}
          \/ \A e \in D : OutsideLaw(e, f)
      <4>1. CASE /\ backgrounds # {}
                 /\ \A e \in D : /\ Item[e].background # "UNKNOWN"
                                /\ Item[e].background \notin backgrounds
        <5>1. \A e \in D : ~Satisfies(e, f)
          <6> SUFFICES ASSUME NEW e \in D, Item[e].background \in f.accepts
                       PROVE  FALSE
            BY <2>1, <4>1
          <6>1. e \in Evidence /\ Item[e].kind = "CREDENTIAL"
            BY DEF ConfirmedCredentials, Confirmed
          <6>2. Item[e].background \in Backgrounds \cup {"UNKNOWN"}
            BY <6>1, EvidenceAssumption
          <6> QED
            BY <6>2, <4>1
        <5> QED
          BY <5>1
      <4>2. CASE backgrounds = {} /\ codes \cap f.accepts = {}
        BY <2>1, <4>2
      <4>3. CASE "LAW_STUDIES_FAMILY" \in f.accepts /\ \A e \in D : Item[e].background = "NON_LAW"
        BY <1>3, <4>3 DEF OutsideLaw
      <4> QED
        BY <3>1, <4>1, <4>2, <4>3
    <3>3. \A e \in D : ~Open(e)
      BY <3>1 DEF Open
    <3> QED
      BY <1>3, <2>3, <3>2, <3>3 DEF Stands
  <2>4. CASE status \notin {"MATCH", "NOT_MATCH"}
    BY <2>4 DEF Stands
  <2> QED
    BY <2>2, <2>3, <2>4
<1>4. Stands("INSUFFICIENT", D, f)
  BY DEF Stands
<1> HIDE DEF D
<1>5. Insufficient({}).status = "INSUFFICIENT" /\ Insufficient(C).status = "INSUFFICIENT"
  BY DEF Insufficient, Answer
<1> QED
  BY <1>2, <1>3, <1>4, <1>5 DEF AnswerCredential, D

LEMMA FactType ==
  ASSUME case \in Cases, NEW x \in Facts
  PROVE  /\ x[1] \in MandatoryRoot \cup DOMAIN case.posting
         /\ FactAt(x).dimension \in DOMAIN KindOf
<1>1. PICK i \in Conditions : x \in {i} \X DOMAIN case.posting[i].facts
  BY DEF Facts
<1>2. x[1] \in DOMAIN case.posting /\ x[2] \in DOMAIN case.posting[x[1]].facts
  BY <1>1 DEF Conditions
<1>3. \A k \in Cases : \A n \in DOMAIN k.posting : \A j \in DOMAIN k.posting[n].facts :
        k.posting[n].facts[j].dimension \in DOMAIN KindOf
  BY CaseAssumption
<1> QED
  BY <1>2, <1>3 DEF FactAt

Dimensions == Single \cup Predicates \cup {"MAJOR", "EDUCATION_LEVEL", "QUALIFICATION"}

LEMMA KindsOfDimensions ==
  /\ DOMAIN KindOf = Dimensions
  /\ \A d \in Single : KindOf[d] = d /\ d \notin Predicates
  /\ KindOf["QUALIFICATION"] = "QUALIFICATION"
  /\ \A d \in {"MAJOR", "EDUCATION_LEVEL"} : KindOf[d] = "CREDENTIAL" /\ d \notin Predicates
  /\ \A d \in Predicates : KindOf[d] \in {"CITIZENSHIP", "STATUS"}
  /\ \A d \in Single \cup {"QUALIFICATION"} : d \notin Predicates /\ KindOf[d] # "CREDENTIAL"
BY DEF KindOf, Dimensions, Single, Predicates

LEMMA EvaluateStands ==
  ASSUME case \in Cases, NEW x \in Facts, NEW E \in SUBSET Evidence, IsFiniteSet(E), NEW t
  PROVE  Stands(Evaluate(x, E, t).status, {e \in E : Speaks(e, x, t)}, FactAt(x))
<1> DEFINE f == FactAt(x)
           usable == {e \in E : AppliesAt(e, t)}
           C == Selected(case.posting[x[1]], usable)
           S == {e \in E : Speaks(e, x, t)}
           status == Evaluate(x, E, t).status
<1>1. f.dimension \in Dimensions
  BY FactType, KindsOfDimensions
<1>2. usable \in SUBSET Evidence /\ IsFiniteSet(usable)
  BY FS_Subset
<1>3. CASE status \notin {"MATCH", "NOT_MATCH"}
  BY <1>3 DEF Stands
<1>4. CASE status \in {"MATCH", "NOT_MATCH"}
  <2>1. /\ f.dimension \in Predicates => status = AnswerState(f, E, t).status
        /\ f.dimension \in {"MAJOR", "EDUCATION_LEVEL"} => status = AnswerCredential(f, C).status
        /\ f.dimension = "QUALIFICATION" => status = AnswerQualification(f, usable).status
        /\ f.dimension \in Single => status = AnswerSingle(f, usable, t).status
    <3>1. \A X : Answer("UNKNOWN", X).status \notin {"MATCH", "NOT_MATCH"}
                  /\ Insufficient(X).status \notin {"MATCH", "NOT_MATCH"}
      BY DEF Answer, Insufficient
    <3>2. /\ Applicability(case.posting[x[1]], E, t) = "APPLIES"
          /\ f.dimension \notin Predicates =>
               ~(/\ usable = {}
                 /\ {e \in OfKind(KindOf[f.dimension], E \ usable) :
                        f.dimension # "GRADUATION_YEAR"} # {})
      BY <1>4, <3>1 DEF Evaluate
    <3>3. Evaluate(x, E, t) =
            IF f.dimension \in Predicates THEN AnswerState(f, E, t)
            ELSE IF KindOf[f.dimension] = "CREDENTIAL" THEN AnswerCredential(f, C)
            ELSE IF f.dimension = "QUALIFICATION" THEN AnswerQualification(f, usable)
            ELSE AnswerSingle(f, usable, t)
      BY <3>2 DEF Evaluate
    <3> QED
      BY <3>3, KindsOfDimensions DEF Single
  <2>2. CASE f.dimension \in Single
    <3>1. S = Confirmed(OfKind(f.dimension, usable))
      BY <2>2, KindsOfDimensions DEF Speaks, Confirmed, OfKind, Single
    <3> QED
      BY <2>1, <2>2, <3>1, <1>2, SingleStands
  <2>3. CASE f.dimension = "QUALIFICATION"
    <3>1. S = {e \in Confirmed(OfKind("QUALIFICATION", usable)) : Item[e].value \in f.accepts}
      BY <2>3, KindsOfDimensions DEF Speaks, Confirmed, OfKind
    <3> QED
      BY <2>1, <2>3, <3>1, <1>2, QualificationStands
  <2>4. CASE f.dimension \in {"MAJOR", "EDUCATION_LEVEL"}
    <3>1. S = ConfirmedCredentials(C)
      BY <2>4, KindsOfDimensions DEF Speaks, ConfirmedCredentials, Confirmed, OfKind, Selected
    <3>2. C \in SUBSET Evidence /\ \A e \in C : Item[e].kind = "CREDENTIAL"
      BY DEF Selected, OfKind
    <3>3. Stands(AnswerCredential(f, C).status, ConfirmedCredentials(C), f)
      <4> HIDE DEF C, f
      <4> QED
        BY <2>4, <3>2, CredentialStands
    <3> QED
      BY <2>1, <2>4, <3>1, <3>3
  <2>5. CASE f.dimension \in Predicates
    <3>1. S = {e \in Confirmed(OfKind(KindOf[f.dimension], E)) :
                 /\ Current(e, f, t)
                 /\ Item[e].kind = "STATUS" => Item[e].value \in f.accepts}
      BY <2>5, KindsOfDimensions DEF Speaks, Confirmed, OfKind
    <3> QED
      BY <2>1, <2>5, <3>1, StateStands
  <2> QED
    BY <1>1, <2>2, <2>3, <2>4, <2>5 DEF Dimensions
<1> QED
  BY <1>3, <1>4

-----------------------------------------------------------------------------
(* Claims decide nothing.                                                  *)

Definite == {"MATCH", "NOT_MATCH"}

\* A definite answer is of confirmed evidence, and no claim is confirmed; so it is
\* the same without the claims.
LEMMA DefiniteOfDocuments ==
  ASSUME case \in Cases, NEW x \in Facts, NEW E \in SUBSET Evidence, NEW t,
         Synthetic(E) = {},
         \A e \in Confirmed(E) : Item[e].origin # "CANDIDATE_ASSERTED",
         Evaluate(x, E, t).status \in Definite
  PROVE  Evaluate(x, Documents(E), t) = Evaluate(x, E, t)
<1> DEFINE c == case.posting[x[1]]
           f == FactAt(x)
           D == Documents(E)
           U(X) == {e \in X : AppliesAt(e, t)}
           Outside(X) == {e \in OfKind(KindOf[f.dimension], X \ U(X)) : f.dimension # "GRADUATION_YEAR"}
<1>1. f.dimension \in Dimensions
  BY FactType, KindsOfDimensions
<1>2. D \subseteq E /\ Confirmed(E) \subseteq D
  <2>1. \A e \in E : Item[e].origin \in Origins
    BY EvidenceAssumption
  <2> QED
    BY <2>1 DEF Documents, Confirmed, Synthetic, Origins
<1>3. \A X \in SUBSET E : Confirmed(X) \subseteq D
  BY <1>2 DEF Confirmed
<1>4. Applicability(c, D, t) = Applicability(c, E, t)
  <2>1. Confirmed({e \in OfKind("COHORT", D) : AppliesAt(e, t)})
          = Confirmed({e \in OfKind("COHORT", E) : AppliesAt(e, t)})
    BY <1>2 DEF Confirmed, OfKind
  <2> QED
    BY <2>1 DEF Applicability
<1>5. /\ Applicability(c, E, t) = "APPLIES"
      /\ f.dimension \notin Predicates => ~(U(E) = {} /\ Outside(E) # {})
  <2>1. \A X : Answer("UNKNOWN", X).status \notin Definite /\ Insufficient(X).status \notin Definite
    BY DEF Answer, Insufficient, Definite
  <2> QED
    BY <2>1 DEF Evaluate
<1>6. f.dimension \notin Predicates
  <2> SUFFICES ASSUME f.dimension \in Predicates PROVE FALSE
    OBVIOUS
  <2>1. OfKind(KindOf[f.dimension], E) = {}
    BY KindsOfDimensions, EvidenceAssumption DEF OfKind, Synthetic
  <2>2. AnswerState(f, E, t).status = "INSUFFICIENT"
    BY <2>1 DEF AnswerState, Insufficient, Answer
  <2>3. Evaluate(x, E, t) = AnswerState(f, E, t)
    BY <1>5 DEF Evaluate
  <2> QED
    BY <2>2, <2>3 DEF Definite
\* What the evaluation comes to for a set of evidence that applies.
<1> DEFINE OfFact(V) ==
             IF KindOf[f.dimension] = "CREDENTIAL" THEN AnswerCredential(f, Selected(c, V))
             ELSE IF f.dimension = "QUALIFICATION" THEN AnswerQualification(f, V)
             ELSE AnswerSingle(f, V, t)
<1>7. Evaluate(x, E, t) = OfFact(U(E))
  BY <1>5, <1>6 DEF Evaluate
<1>8. U(D) \subseteq U(E) /\ Confirmed(U(E)) \subseteq U(D)
  BY <1>2 DEF Confirmed
<1>9. OfFact(U(D)) = OfFact(U(E)) /\ Confirmed(U(E)) # {}
  <2>0. Evaluate(x, E, t).status \in {"MATCH", "NOT_MATCH"}
    BY DEF Definite
  <2>1. CASE KindOf[f.dimension] = "CREDENTIAL"
    <3> DEFINE C == Selected(c, U(E))
    <3>1. AnswerCredential(f, C).status \in Definite
      BY <1>7, <2>1
    <3>2. C # {} /\ ConfirmedCredentials(C) # {}
      BY <3>1 DEF AnswerCredential, Insufficient, Answer, Definite
    <3>3. ConfirmedCredentials(Selected(c, U(D))) = ConfirmedCredentials(C)
      BY <1>8 DEF ConfirmedCredentials, Confirmed, Selected, OfKind
    <3>4. Selected(c, U(D)) # {} /\ Confirmed(U(E)) # {}
      BY <3>2, <3>3 DEF ConfirmedCredentials, Confirmed, Selected, OfKind
    <3>5. AnswerCredential(f, Selected(c, U(D))) = AnswerCredential(f, C)
      BY <3>2, <3>3, <3>4 DEF AnswerCredential
    <3> QED
      BY <2>1, <3>4, <3>5
  <2>2. CASE f.dimension = "QUALIFICATION"
    <3> DEFINE Items(V) == OfKind("QUALIFICATION", V)
               Matching(V) == {e \in Items(V) : Item[e].value \in f.accepts}
    <3>1. AnswerQualification(f, U(E)).status \in {"MATCH", "NOT_MATCH"}
      BY <1>7, <2>0, <2>2, KindsOfDimensions
    <3>2. Matching(U(E)) # {} /\ Confirmed(Matching(U(E))) = Matching(U(E))
      BY <3>1 DEF AnswerQualification, Insufficient, Review, Answer
    <3>3. Matching(U(E)) \subseteq Confirmed(U(E))
      BY <3>2 DEF Confirmed, OfKind
    <3>4. Matching(U(D)) = Matching(U(E)) /\ Items(U(D)) # {} /\ Items(U(E)) # {}
      BY <1>8, <3>2, <3>3 DEF OfKind
    <3>5. AnswerQualification(f, U(D)) = AnswerQualification(f, U(E))
      <4> HIDE DEF U
      <4> QED
        BY <3>2, <3>4 DEF AnswerQualification
    <3> QED
      BY <2>2, <3>2, <3>3, <3>5, KindsOfDimensions
  <2>3. CASE f.dimension \in Single
    <3>1. AnswerSingle(f, U(E), t).status \in {"MATCH", "NOT_MATCH"}
      BY <1>7, <2>0, <2>3, KindsOfDimensions DEF Single
    <3>2. OfKind(f.dimension, U(E)) # {}
          /\ Confirmed(OfKind(f.dimension, U(E))) = OfKind(f.dimension, U(E))
      BY <3>1 DEF AnswerSingle, Insufficient, Review, Answer
    <3>3. OfKind(f.dimension, U(E)) \subseteq Confirmed(U(E))
      BY <3>2 DEF Confirmed, OfKind
    <3>4. OfKind(f.dimension, U(D)) = OfKind(f.dimension, U(E))
      BY <1>8, <3>3 DEF OfKind
    <3>5. AnswerSingle(f, U(D), t) = AnswerSingle(f, U(E), t)
      BY <3>4 DEF AnswerSingle
    <3> QED
      BY <2>3, <3>2, <3>3, <3>5, KindsOfDimensions DEF Single
  <2> QED
    BY <1>1, <1>6, <2>1, <2>2, <2>3, KindsOfDimensions DEF Dimensions
<1>10. Evaluate(x, D, t) = OfFact(U(D))
  <2>1. U(D) # {}
    BY <1>8, <1>9
  <2> QED
    BY <1>4, <1>5, <1>6, <2>1 DEF Evaluate
<1> QED
  BY <1>7, <1>9, <1>10
-----------------------------------------------------------------------------
(* What is kept says what was named.                                       *)

\* Items that are one say the same, at whatever time each was observed.
LEMMA SaidAlike ==
  ASSUME NEW d \in Evidence, NEW e \in Evidence, Said(d) = Said(e)
  PROVE  /\ Item[d].kind = Item[e].kind
         /\ Item[d].status = Item[e].status
         /\ Item[d].from = Item[e].from /\ Item[d].to = Item[e].to
         /\ Item[d].kind = "COHORT" => Item[d].value = Item[e].value
         /\ Item[d].kind \in {"CITIZENSHIP", "STATUS"} => Item[d] = Item[e]
<1> DEFINE Rest(x) == [field \in DOMAIN Item[x] \ {"seen"} |-> Item[x][field]]
           State(x) == Item[x].kind \in {"CITIZENSHIP", "STATUS"}
<1>1. \A x \in {d, e} : {"kind", "status", "origin", "seen", "from", "to"} \subseteq DOMAIN Item[x]
                        /\ (Item[x].kind = "COHORT" => "value" \in DOMAIN Item[x])
  BY EvidenceAssumption
<1>2. \A x \in {d, e} : Said(x) = IF State(x) THEN Item[x] ELSE Rest(x)
  BY DEF Said
<1>3. \A x \in {d, e} : "seen" \notin DOMAIN Rest(x)
  OBVIOUS
<1>4. State(d) <=> State(e)
  <2>1. \A x, y \in {d, e} : Said(x) = Said(y) /\ State(x) => State(y)
    <3> SUFFICES ASSUME NEW x \in {d, e}, NEW y \in {d, e}, Said(x) = Said(y), State(x), ~State(y)
                 PROVE  FALSE
      OBVIOUS
    <3>1. Item[x] = Rest(y)
      BY <1>2
    <3>2. "seen" \in DOMAIN Item[x] /\ "seen" \notin DOMAIN Rest(y)
      BY <1>1, <1>3
    <3> HIDE DEF Rest
    <3> QED
      BY <3>1, <3>2
  <2> QED
    BY <2>1
<1>5. CASE State(d)
  BY <1>2, <1>4, <1>5
<1>6. CASE ~State(d)
  <2>1. Rest(d) = Rest(e)
    BY <1>2, <1>4, <1>6
  <2>2. \A x \in {d, e} : \A field \in DOMAIN Item[x] \ {"seen"} : Rest(x)[field] = Item[x][field]
    OBVIOUS
  <2>3. \A field \in {"kind", "status", "from", "to"} : Item[d][field] = Item[e][field]
    <3> HIDE DEF Rest
    <3> QED
      BY <1>1, <2>1, <2>2
  <2>4. Item[d].kind = "COHORT" => Item[d]["value"] = Item[e]["value"]
    <3>1. Item[d].kind = Item[e].kind
      BY <2>3
    <3> HIDE DEF Rest
    <3> QED
      BY <1>1, <2>1, <2>2, <3>1
  <2> QED
    BY <1>6, <2>3, <2>4
<1> QED
  BY <1>5, <1>6

\* The cohorts known are the same, if each is listed in time.
LEMMA CohortsKept ==
  ASSUME NEW E \in SUBSET Evidence, NEW L \in Listings(E), NEW W, L \subseteq W, W \subseteq E,
         NEW t, \A e \in L : Item[e].kind = "COHORT" => ~(Item[e].seen > t), t \in Nat, NEW c
  PROVE  Applicability(c, W, t) = Applicability(c, E, t)
<1> DEFINE Known(X) == Confirmed({e \in OfKind("COHORT", X) : AppliesAt(e, t)})
<1>1. \A e \in Known(E) : \E d \in Known(W) : Item[d].value = Item[e].value
  <2> SUFFICES ASSUME NEW e \in Known(E)
               PROVE  \E d \in Known(W) : Item[d].value = Item[e].value
    OBVIOUS
  <2>1. /\ e \in E /\ Item[e].kind = "COHORT" /\ Item[e].status = "CONFIRMED"
        /\ Item[e].from <= t /\ t <= Item[e].to
    BY DEF Known, Confirmed, OfKind, AppliesAt, EffectiveAt
  <2>2. PICK d \in L : Said(d) = Said(e)
    BY <2>1 DEF Listings
  <2>3. d \in Evidence /\ e \in Evidence
    BY <2>1
  <2>4. /\ Item[d].kind = "COHORT" /\ Item[d].status = "CONFIRMED" /\ Item[d].value = Item[e].value
        /\ Item[d].from <= t /\ t <= Item[d].to
    BY <2>1, <2>2, <2>3, SaidAlike
  <2>5. Item[d].seen <= t
    BY <2>3, <2>4, EvidenceAssumption
  <2>6. d \in Known(W)
    BY <2>4, <2>5 DEF Known, Confirmed, OfKind, AppliesAt, EffectiveAt
  <2> QED
    BY <2>4, <2>6
<1>2. Known(W) \subseteq Known(E)
  BY DEF Known, Confirmed, OfKind
<1> HIDE DEF Known
<1>3. Values(Known(W)) = Values(Known(E))
  BY <1>1, <1>2 DEF Values
<1> QED
  BY <1>3 DEF Applicability, Known

\* Assertions of a state are one only if they are the same.
LEMMA StateKept ==
  ASSUME NEW E \in SUBSET Evidence, NEW L \in Listings(E), NEW W, L \subseteq W, W \subseteq E,
         NEW t, NEW f, f.dimension \in Predicates
  PROVE  AnswerState(f, W, t).status = AnswerState(f, E, t).status
<1> DEFINE kind == KindOf[f.dimension]
           Relevant(X) == {e \in OfKind(kind, X) :
                             kind = "STATUS" => Item[e].value \in f.accepts \cup {"NONE"}}
           Items(X) == {e \in Relevant(X) : Current(e, f, t)}
           Sure(X) == Confirmed(Items(X))
<1>1. kind \in {"CITIZENSHIP", "STATUS"}
  BY KindsOfDimensions
<1>2. \A e \in Items(E) : \E d \in Items(W) : Item[d] = Item[e]
  <2> SUFFICES ASSUME NEW e \in Items(E) PROVE \E d \in Items(W) : Item[d] = Item[e]
    OBVIOUS
  <2>1. /\ e \in E /\ Item[e].kind = kind /\ Current(e, f, t)
        /\ kind = "STATUS" => Item[e].value \in f.accepts \cup {"NONE"}
    BY DEF OfKind
  <2>2. PICK d \in L : Said(d) = Said(e)
    BY <2>1 DEF Listings
  <2>3. Item[d] = Item[e]
    <3>1. d \in Evidence /\ e \in Evidence
      BY <2>1
    <3>2. Item[d].kind = Item[e].kind
      BY <2>2, <3>1, SaidAlike
    <3> QED
      BY <1>1, <2>1, <2>2, <3>1, <3>2, SaidAlike
  <2>4. Current(d, f, t)
    BY <2>1, <2>3 DEF Current, EffectiveAt
  <2>5. d \in W
    OBVIOUS
  <2> QED
    BY <2>1, <2>3, <2>4, <2>5 DEF OfKind
<1>3. Items(W) \subseteq Items(E)
  BY DEF OfKind
<1>4. \A X : AnswerState(f, X, t).status =
          IF Items(X) = {} THEN "INSUFFICIENT"
          ELSE IF \E e \in Items(X) : Item[e].status = "REVIEW_REQUIRED" THEN "REVIEW_REQUIRED"
          ELSE IF Sure(X) = {} THEN "INSUFFICIENT"
          ELSE IF Cardinality(Values(Sure(X))) > 1 THEN "REVIEW_REQUIRED"
          ELSE IF f.dimension \in {"CITIZENSHIP_EQUALS", "STATUS_MUST_BE_PRESENT"} <=>
                    Values(Sure(X)) \subseteq f.accepts THEN "MATCH"
          ELSE "NOT_MATCH"
  BY DEF AnswerState, Answer, Insufficient, Review, Resolved
<1> HIDE DEF Items, Relevant, kind
<1>5. /\ Items(W) = {} <=> Items(E) = {}
      /\ (\E e \in Items(W) : Item[e].status = "REVIEW_REQUIRED")
           <=> \E e \in Items(E) : Item[e].status = "REVIEW_REQUIRED"
  BY <1>2, <1>3
<1>6. Sure(W) = {} <=> Sure(E) = {}
  BY <1>2, <1>3 DEF Confirmed
<1>7. Values(Sure(W)) = Values(Sure(E))
  BY <1>2, <1>3 DEF Confirmed, Values
<1> HIDE DEF Sure
<1> QED
  BY <1>4, <1>5, <1>6, <1>7

\* Any other answer refers to all of the evidence that gave it.
LEMMA OthersKept ==
  ASSUME case \in Cases, NEW x \in Facts, NEW f, f = FactAt(x), f.dimension \notin Predicates,
         NEW E \in SUBSET Evidence, NEW W \in SUBSET E, NEW t,
         NEW c, c = case.posting[x[1]],
         Applicability(c, E, t) = "APPLIES", Applicability(c, W, t) = "APPLIES",
         Evaluate(x, E, t).evidence \subseteq W
  PROVE  LogicalResult(Evaluate(x, W, t).status) = LogicalResult(Evaluate(x, E, t).status)
<1> DEFINE U(X) == {e \in X : AppliesAt(e, t)}
           Outside(X) == {e \in OfKind(KindOf[f.dimension], X \ U(X)) : f.dimension # "GRADUATION_YEAR"}
           OfFact(V) ==
             IF KindOf[f.dimension] = "CREDENTIAL" THEN AnswerCredential(f, Selected(c, V))
             ELSE IF f.dimension = "QUALIFICATION" THEN AnswerQualification(f, V)
             ELSE AnswerSingle(f, V, t)
           Told(answer) == LogicalResult(answer.status)
<1>1. f.dimension \in Dimensions
  BY FactType, KindsOfDimensions
<1>2. \A X : Told(Insufficient(X)) = "UNKNOWN" /\ Told(Review(X)) = "UNKNOWN"
  BY DEF Insufficient, Review, Answer, LogicalResult
<1>3. \A X \in {E, W} : Evaluate(x, X, t) =
        IF U(X) = {} /\ Outside(X) # {} THEN Insufficient(Outside(X)) ELSE OfFact(U(X))
  BY DEF Evaluate
<1>4. Told(OfFact({})) = "UNKNOWN"
  <2>1. OfKind(f.dimension, {}) = {} /\ OfKind("QUALIFICATION", {}) = {} /\ Selected(c, {}) = {}
    BY DEF OfKind, Selected
  <2>2. /\ AnswerCredential(f, Selected(c, {})) = Insufficient({})
        /\ AnswerQualification(f, {}) = Insufficient({})
        /\ AnswerSingle(f, {}, t) = Insufficient({})
    BY <2>1 DEF AnswerCredential, AnswerQualification, AnswerSingle
  <2> QED
    BY <1>2, <2>2
<1>5. \A X \in {E, W} : Told(Evaluate(x, X, t)) = Told(OfFact(U(X)))
  BY <1>2, <1>3, <1>4
<1>6. U(W) \subseteq U(E) /\ U(E) \cap W = U(W)
  OBVIOUS
<1>7. CASE U(E) = {}
  BY <1>5, <1>6, <1>7
<1>8. CASE U(E) # {}
  <2>1. OfFact(U(E)).evidence \subseteq W
    BY <1>3, <1>8
  <2> HIDE DEF U
  <2>2. CASE KindOf[f.dimension] = "CREDENTIAL"
    <3> DEFINE C(X) == Selected(c, U(X))
               D(X) == ConfirmedCredentials(C(X))
    <3>1. C(W) \subseteq C(E) /\ D(W) \subseteq D(E) /\ D(E) \cap W \subseteq D(W)
      BY <1>6 DEF Selected, OfKind, ConfirmedCredentials, Confirmed
    <3>2. CASE D(E) = {}
      BY <1>2, <1>5, <2>2, <3>1, <3>2 DEF AnswerCredential
    <3>3. CASE D(E) # {}
      <4>1. C(E) # {}
        BY <3>3 DEF ConfirmedCredentials, Confirmed
      <4>2. \A X : AnswerMajor(f, X).evidence = X /\ AnswerLevel(f, X).evidence = X
        BY DEF AnswerMajor, AnswerLevel, Insufficient, Review, Resolved, Answer
      <4>3. AnswerCredential(f, C(E)).evidence = D(E)
        BY <3>3, <4>1, <4>2 DEF AnswerCredential
      <4>4. D(W) = D(E)
        BY <2>1, <2>2, <3>1, <4>3
      <4>5. C(W) # {}
        BY <3>3, <4>4 DEF ConfirmedCredentials, Confirmed
      <4>6. AnswerCredential(f, C(W)) = AnswerCredential(f, C(E))
        BY <3>3, <4>1, <4>4, <4>5 DEF AnswerCredential
      <4> QED
        BY <1>5, <2>2, <4>6
    <3> QED
      BY <3>2, <3>3
  <2>3. CASE f.dimension = "QUALIFICATION"
    <3> DEFINE Items(V) == OfKind("QUALIFICATION", V)
               Matching(V) == {e \in Items(V) : Item[e].value \in f.accepts}
    <3>1. \A X \in {E, W} : OfFact(U(X)) = AnswerQualification(f, U(X))
      BY <2>3, KindsOfDimensions
    <3>2. /\ Matching(U(W)) \subseteq Matching(U(E))
          /\ Matching(U(E)) \cap W \subseteq Matching(U(W))
      BY <1>6 DEF OfKind
    <3>3. CASE Matching(U(E)) = {}
      <4>1. \A X \in {E, W} : Told(AnswerQualification(f, U(X))) = "UNKNOWN"
        BY <1>2, <3>2, <3>3 DEF AnswerQualification
      <4> QED
        BY <1>5, <3>1, <4>1
    <3>4. CASE Matching(U(E)) # {}
      <4>1. Items(U(E)) # {} /\ AnswerQualification(f, U(E)).evidence = Matching(U(E))
        BY <3>4 DEF AnswerQualification, Insufficient, Review, Resolved, Answer
      <4>2. Matching(U(W)) = Matching(U(E))
        BY <2>1, <3>1, <3>2, <4>1
      <4>3. Items(U(W)) # {}
        BY <3>4, <4>2
      <4>4. AnswerQualification(f, U(W)) = AnswerQualification(f, U(E))
        BY <3>4, <4>1, <4>2, <4>3 DEF AnswerQualification
      <4> QED
        BY <1>5, <3>1, <4>4
    <3> QED
      BY <3>3, <3>4
  <2>4. CASE f.dimension \in Single
    <3> DEFINE Items(V) == OfKind(f.dimension, V)
    <3>1. \A X \in {E, W} : OfFact(U(X)) = AnswerSingle(f, U(X), t)
      BY <2>4, KindsOfDimensions DEF Single
    <3>2. Items(U(W)) \subseteq Items(U(E)) /\ Items(U(E)) \cap W \subseteq Items(U(W))
      BY <1>6 DEF OfKind
    <3>3. AnswerSingle(f, U(E), t).evidence = Items(U(E))
      BY DEF AnswerSingle, Insufficient, Review, Resolved, Answer
    <3>4. Items(U(W)) = Items(U(E))
      BY <2>1, <3>1, <3>2, <3>3
    <3>5. AnswerSingle(f, U(W), t) = AnswerSingle(f, U(E), t)
      BY <3>4 DEF AnswerSingle
    <3> QED
      BY <1>5, <3>1, <3>5
  <2> QED
    BY <1>1, <2>2, <2>3, <2>4, KindsOfDimensions DEF Dimensions
<1> QED
  BY <1>7, <1>8

\* What is listed and what answers refer to give each fact the result that all of the
\* evidence did, if the cohorts are listed in time.
LEMMA KeptSaysTheSame ==
  ASSUME case \in Cases, NEW x \in Facts, NEW E \in SUBSET Evidence, NEW L \in Listings(E),
         NEW W, L \subseteq W, W \subseteq E, NEW t \in Nat,
         \A e \in L : Item[e].kind = "COHORT" => ~(Item[e].seen > t),
         Evaluate(x, E, t).evidence \subseteq W
  PROVE  LogicalResult(Evaluate(x, W, t).status) = LogicalResult(Evaluate(x, E, t).status)
<1> DEFINE f == FactAt(x)
           c == case.posting[x[1]]
<1>1. Applicability(c, W, t) = Applicability(c, E, t)
  BY CohortsKept
<1>2. CASE Applicability(c, E, t) # "APPLIES"
  BY <1>1, <1>2 DEF Evaluate, Answer
<1>3. CASE Applicability(c, E, t) = "APPLIES" /\ f.dimension \in Predicates
  <2>1. Evaluate(x, E, t) = AnswerState(f, E, t) /\ Evaluate(x, W, t) = AnswerState(f, W, t)
    BY <1>1, <1>3 DEF Evaluate
  <2> QED
    BY <1>3, <2>1, StateKept
<1>4. CASE Applicability(c, E, t) = "APPLIES" /\ f.dimension \notin Predicates
  BY <1>1, <1>4, OthersKept
<1> QED
  BY <1>2, <1>3, <1>4

-----------------------------------------------------------------------------
(* What a set of answers amounts to.                                       *)

LEMMA ThreeValued ==
  /\ \A S : /\ AndTruth(S) = "TRUE" <=> "FALSE" \notin S /\ "UNKNOWN" \notin S
            /\ AndTruth(S) = "FALSE" <=> "FALSE" \in S
            /\ AndTruth(S) \in {"TRUE", "FALSE", "UNKNOWN"}
  /\ \A S : /\ OrTruth(S) = "TRUE" <=> "TRUE" \in S
            /\ OrTruth(S) = "FALSE" <=> "TRUE" \notin S /\ "UNKNOWN" \notin S
            /\ OrTruth(S) \in {"TRUE", "FALSE", "UNKNOWN"}
  /\ \A status : LogicalResult(status) \in {"TRUE", "FALSE", "UNKNOWN"}
BY DEF AndTruth, OrTruth, LogicalResult

LEMMA ConditionTold ==
  ASSUME NEW i, NEW answers
  PROVE  /\ ConditionResult(i, answers) = "TRUE" <=>
              \E a \in Alternatives(case.posting[i]) :
                \A j \in a : LogicalResult(answers[<<i, j>>].status) = "TRUE"
         /\ ConditionResult(i, answers) = "FALSE" <=>
              \A a \in Alternatives(case.posting[i]) :
                \E j \in a : LogicalResult(answers[<<i, j>>].status) = "FALSE"
         /\ ConditionResult(i, answers) \in {"TRUE", "FALSE", "UNKNOWN"}
<1> DEFINE L(j) == LogicalResult(answers[<<i, j>>].status)
           Of(a) == AndTruth({L(j) : j \in a})
           S == {Of(a) : a \in Alternatives(case.posting[i])}
<1>1. ConditionResult(i, answers) = OrTruth(S)
  BY DEF ConditionResult
<1>2. \A j : L(j) \in {"TRUE", "FALSE", "UNKNOWN"}
  BY ThreeValued
<1> HIDE DEF L
<1>3. \A a : /\ Of(a) = "TRUE" <=> \A j \in a : L(j) = "TRUE"
             /\ Of(a) = "FALSE" <=> \E j \in a : L(j) = "FALSE"
             /\ Of(a) \in {"TRUE", "FALSE", "UNKNOWN"}
  <2> SUFFICES ASSUME NEW a
               PROVE  /\ Of(a) = "TRUE" <=> \A j \in a : L(j) = "TRUE"
                      /\ Of(a) = "FALSE" <=> \E j \in a : L(j) = "FALSE"
                      /\ Of(a) \in {"TRUE", "FALSE", "UNKNOWN"}
    OBVIOUS
  <2>1. /\ Of(a) = "TRUE" <=> "FALSE" \notin {L(j) : j \in a} /\ "UNKNOWN" \notin {L(j) : j \in a}
        /\ Of(a) = "FALSE" <=> "FALSE" \in {L(j) : j \in a}
        /\ Of(a) \in {"TRUE", "FALSE", "UNKNOWN"}
    BY ThreeValued
  <2> HIDE DEF Of
  <2> QED
    BY <1>2, <2>1
<1> HIDE DEF Of
<1>4. /\ OrTruth(S) = "TRUE" <=> "TRUE" \in S
      /\ OrTruth(S) = "FALSE" <=> "TRUE" \notin S /\ "UNKNOWN" \notin S
      /\ OrTruth(S) \in {"TRUE", "FALSE", "UNKNOWN"}
  BY ThreeValued
<1>5. /\ OrTruth(S) = "TRUE" <=> \E a \in Alternatives(case.posting[i]) : Of(a) = "TRUE"
      /\ OrTruth(S) = "FALSE" <=> \A a \in Alternatives(case.posting[i]) : Of(a) = "FALSE"
  BY <1>3, <1>4
<1> QED
  BY <1>1, <1>3, <1>4, <1>5 DEF L

\* The facts that answers tell to hold, and those they do not tell to fail.
Held(answers) == {x \in Facts : LogicalResult(answers[x].status) = "TRUE"}
NotFailed(answers) == {x \in Facts : LogicalResult(answers[x].status) # "FALSE"}

LEMMA AlternativesOfFacts ==
  ASSUME NEW i \in MandatoryRoot, NEW a \in Alternatives(case.posting[i])
  PROVE  {i} \X a \subseteq Facts
<1>1. a \subseteq DOMAIN case.posting[i].facts
  BY DEF Alternatives
<1>2. i \in Conditions
  BY DEF MandatoryRoot, IsMandatory, Conditions
<1> QED
  BY <1>1, <1>2 DEF Facts

LEMMA HoldsOfMore ==
  ASSUME NEW F, NEW G, F \subseteq G, Holds(F)
  PROVE  Holds(G)
BY DEF Holds

\* The verdict of answers, by the facts alone.
LEMMA VerdictTold ==
  ASSUME NEW answers
  PROVE  /\ Verdict(answers) = "ELIGIBLE" <=> Holds(Held(answers))
         /\ Verdict(answers) = "INELIGIBLE" <=> ~Holds(NotFailed(answers))
<1> DEFINE R == {ConditionResult(i, answers) : i \in MandatoryRoot}
<1>1. /\ Verdict(answers) = "ELIGIBLE" <=> AndTruth(R) = "TRUE"
      /\ Verdict(answers) = "INELIGIBLE" <=> AndTruth(R) = "FALSE"
  BY ThreeValued DEF Verdict, MandatoryTruth
<1>2. /\ AndTruth(R) = "TRUE" <=> \A i \in MandatoryRoot : ConditionResult(i, answers) = "TRUE"
      /\ AndTruth(R) = "FALSE" <=> \E i \in MandatoryRoot : ConditionResult(i, answers) = "FALSE"
  <2>1. /\ AndTruth(R) = "TRUE" <=> "FALSE" \notin R /\ "UNKNOWN" \notin R
        /\ AndTruth(R) = "FALSE" <=> "FALSE" \in R
    BY ThreeValued
  <2>2. \A i \in MandatoryRoot : ConditionResult(i, answers) \in {"TRUE", "FALSE", "UNKNOWN"}
    BY ConditionTold
  <2> QED
    BY <2>1, <2>2
<1>3. ASSUME NEW i \in MandatoryRoot
      PROVE  /\ ConditionResult(i, answers) = "TRUE" <=>
                  \E a \in Alternatives(case.posting[i]) : {i} \X a \subseteq Held(answers)
             /\ ConditionResult(i, answers) = "FALSE" <=>
                  \A a \in Alternatives(case.posting[i]) : ~({i} \X a \subseteq NotFailed(answers))
  <2>1. ASSUME NEW a \in Alternatives(case.posting[i])
        PROVE  /\ {i} \X a \subseteq Held(answers) <=>
                    \A j \in a : LogicalResult(answers[<<i, j>>].status) = "TRUE"
               /\ {i} \X a \subseteq NotFailed(answers) <=>
                    ~\E j \in a : LogicalResult(answers[<<i, j>>].status) = "FALSE"
    <3>1. \A j \in a : <<i, j>> \in Facts
      BY AlternativesOfFacts
    <3>2. \A F : {i} \X a \subseteq F <=> \A j \in a : <<i, j>> \in F
      OBVIOUS
    <3>3. \A j \in a : /\ <<i, j>> \in Held(answers) <=>
                            LogicalResult(answers[<<i, j>>].status) = "TRUE"
                       /\ <<i, j>> \in NotFailed(answers) <=>
                            LogicalResult(answers[<<i, j>>].status) # "FALSE"
      BY <3>1 DEF Held, NotFailed
    <3> QED
      BY <3>2, <3>3
  <2> QED
    BY <2>1, ConditionTold
<1> QED
  BY <1>1, <1>2, <1>3 DEF Holds

\* A verdict is changed by no answer that was not definite.
LEMMA VerdictOfDefinite ==
  ASSUME NEW A, NEW B, \A x \in Facts : A[x].status \in Definite => B[x] = A[x],
         Verdict(A) # "NEEDS_REVIEW"
  PROVE  Verdict(B) = Verdict(A)
<1>1. Held(A) \subseteq Held(B) /\ NotFailed(B) \subseteq NotFailed(A)
  BY DEF Held, NotFailed, LogicalResult, Definite
<1>2. Verdict(A) \in {"ELIGIBLE", "INELIGIBLE"}
  BY DEF Verdict
<1> QED
  BY <1>1, <1>2, VerdictTold, HoldsOfMore

\* It is of the results alone.
LEMMA VerdictOfResults ==
  ASSUME NEW A, NEW B,
         \A x \in Facts : LogicalResult(B[x].status) = LogicalResult(A[x].status)
  PROVE  Verdict(A) = Verdict(B)
<1>1. Held(A) = Held(B) /\ NotFailed(A) = NotFailed(B)
  BY DEF Held, NotFailed
<1>2. \A C : Verdict(C) \in {"ELIGIBLE", "INELIGIBLE", "NEEDS_REVIEW"}
  BY DEF Verdict
<1> QED
  BY <1>1, <1>2, VerdictTold

-----------------------------------------------------------------------------
(* The invariant.                                                          *)

\* What an assessment of evidence E at t, which lists L, is recorded as.
Recorded(E, L, t) ==
  [basis |-> Assessment(AnswersAt(E, t), E, t), named |-> E, listed |-> L]
Records ==
  UNION {{Recorded(E, L, t) : L \in Listings(E), t \in case.times} : E \in SUBSET case.items}

EvidenceAttested ==
  /\ issued \subseteq case.items /\ IsFiniteSet(issued)
  /\ \A e \in Confirmed(issued) : Item[e].origin # "CANDIDATE_ASSERTED"

ResolutionsDiffer ==
  /\ resolutions \in [Facts \X case.times -> Seq(AnswerType)]
  /\ \A k \in Facts \X case.times :
       /\ IsFiniteSet(Elements(resolutions[k]))
       /\ Cardinality(Elements(resolutions[k])) = Len(resolutions[k])

AssessmentsBound ==
  /\ assessments \in Seq(Records)
  /\ \A i \in DOMAIN assessments : assessments[i].named \subseteq issued
  /\ \A i, j \in DOMAIN assessments : assessments[i].basis = assessments[j].basis => i = j

IInv == case \in Cases /\ EvidenceAttested /\ ResolutionsDiffer /\ AssessmentsBound

\* The posting does not change, nor does anything computed of it.
LEMMA PostingStands ==
  ASSUME case' = case
  PROVE  /\ Facts' = Facts /\ AnswerType' = AnswerType
         /\ \A E, t : AnswersAt(E, t)' = AnswersAt(E, t)
         /\ \A answers, E, t : Assessment(answers, E, t)' = Assessment(answers, E, t)
         /\ Records' = Records
<1>1. Facts' = Facts /\ MandatoryRoot' = MandatoryRoot
  BY DEF Facts, Conditions, MandatoryRoot
<1>2. AnswerType' = AnswerType
  BY DEF AnswerType
<1>3. \A x, E, t : Evaluate(x, E, t)' = Evaluate(x, E, t)
  BY DEF Evaluate, FactAt
<1>4. \A E, t : AnswersAt(E, t)' = AnswersAt(E, t)
  BY <1>1, <1>3 DEF AnswersAt
<1>5. \A answers : Verdict(answers)' = Verdict(answers)
  <2>1. \A i, answers : ConditionResult(i, answers)' = ConditionResult(i, answers)
    BY DEF ConditionResult
  <2>2. \A answers : MandatoryTruth(answers)' = MandatoryTruth(answers)
    BY <1>1, <2>1 DEF MandatoryTruth
  <2> QED
    BY <2>2 DEF Verdict
<1>6. \A answers, E, t : Assessment(answers, E, t)' = Assessment(answers, E, t)
  BY <1>5 DEF Assessment
<1>7. Records' = Records
  BY <1>4, <1>6 DEF Records, Recorded
<1> QED
  BY <1>1, <1>2, <1>4, <1>6, <1>7

LEMMA ElementsOfAppend ==
  ASSUME NEW S, NEW s \in Seq(S), NEW x
  PROVE  Elements(Append(s, x)) = Elements(s) \cup {x}
<1>1. Len(s) \in Nat /\ DOMAIN s = 1 .. Len(s)
  OBVIOUS
<1>2. DOMAIN Append(s, x) = 1 .. Len(s) + 1
  OBVIOUS
<1>3. \A i \in 1 .. Len(s) + 1 : Append(s, x)[i] = IF i = Len(s) + 1 THEN x ELSE s[i]
  OBVIOUS
<1> QED
  BY <1>1, <1>2, <1>3 DEF Elements

\* A revision is added only if it says something new.
LEMMA RevisedDistinct ==
  ASSUME NEW s \in Seq(AnswerType), NEW answer \in AnswerType,
         IsFiniteSet(Elements(s)), Cardinality(Elements(s)) = Len(s)
  PROVE  /\ Revised(s, answer) \in Seq(AnswerType)
         /\ IsFiniteSet(Elements(Revised(s, answer)))
         /\ Cardinality(Elements(Revised(s, answer))) = Len(Revised(s, answer))
<1>1. CASE answer \in Elements(s)
  BY <1>1 DEF Revised
<1>2. CASE answer \notin Elements(s)
  <2>1. Revised(s, answer) = Append(s, answer)
    BY <1>2 DEF Revised
  <2>2. Elements(Append(s, answer)) = Elements(s) \cup {answer}
    BY ElementsOfAppend
  <2>3. /\ Append(s, answer) \in Seq(AnswerType)
        /\ Len(Append(s, answer)) = Len(s) + 1
    OBVIOUS
  <2> QED
    BY <1>2, <2>1, <2>2, <2>3, FS_AddElement
<1> QED
  BY <1>1, <1>2

LEMMA Undisturbed ==
  ASSUME IInv, case' = case
  PROVE  /\ case' \in Cases
         /\ issued' = issued => EvidenceAttested'
         /\ resolutions' = resolutions => ResolutionsDiffer'
         /\ issued' = issued /\ assessments' = assessments => AssessmentsBound'
<1>1. Facts' = Facts /\ AnswerType' = AnswerType /\ Records' = Records
  BY PostingStands
<1>2. issued' = issued => EvidenceAttested'
  BY DEF IInv, EvidenceAttested, Confirmed
<1>3. resolutions' = resolutions => ResolutionsDiffer'
  BY <1>1 DEF IInv, ResolutionsDiffer, Elements
<1>4. issued' = issued /\ assessments' = assessments => AssessmentsBound'
  BY <1>1 DEF IInv, AssessmentsBound
<1> QED
  BY <1>2, <1>3, <1>4 DEF IInv

LEMMA IInvInit == Init => IInv
<1> SUFFICES ASSUME Init PROVE IInv
  OBVIOUS
<1>1. issued = {} /\ IsFiniteSet(issued) /\ Confirmed(issued) = {}
  BY FS_EmptySet DEF Init, Confirmed
<1>2. \A k \in Facts \X case.times : resolutions[k] = <<>>
  BY DEF Init
<1>3. Elements(<<>>) = {} /\ Len(<<>>) = 0 /\ <<>> \in Seq(AnswerType) /\ <<>> \in Seq(Records)
  BY DEF Elements
<1>4. resolutions \in [Facts \X case.times -> Seq(AnswerType)]
  BY <1>3 DEF Init
<1>5. assessments = <<>> /\ DOMAIN assessments = {}
  BY DEF Init
<1> QED
  BY <1>1, <1>2, <1>3, <1>4, <1>5, FS_EmptySet
     DEF Init, IInv, EvidenceAttested, ResolutionsDiffer, AssessmentsBound

LEMMA IssueStep == ASSUME IInv, NEW e \in Evidence, Issue(e) PROVE IInv'
<1>1. case' = case /\ resolutions' = resolutions /\ assessments' = assessments
      /\ issued' = issued \cup {e}
  BY DEF Issue
<1>2. Facts' = Facts /\ AnswerType' = AnswerType /\ Records' = Records
  BY <1>1, PostingStands
<1>3. issued' \subseteq case.items /\ IsFiniteSet(issued')
  BY <1>1, FS_AddElement DEF IInv, EvidenceAttested, Issue
<1>4. \A d \in Confirmed(issued') : Item[d].origin # "CANDIDATE_ASSERTED"
  BY <1>1 DEF IInv, EvidenceAttested, Issue, Confirmed
<1>5. EvidenceAttested'
  BY <1>1, <1>3, <1>4 DEF EvidenceAttested, Confirmed
<1>6. AssessmentsBound'
  BY <1>1, <1>2 DEF IInv, AssessmentsBound
<1> QED
  BY <1>1, <1>5, <1>6, Undisturbed DEF IInv

LEMMA ResolveStep ==
  ASSUME IInv, NEW E \in SUBSET issued, NEW t \in case.times, Resolve(E, t)
  PROVE  IInv'
<1>1. case' = case /\ issued' = issued /\ assessments' = assessments
  BY DEF Resolve
<1>2. Facts' = Facts /\ AnswerType' = AnswerType /\ Records' = Records
  BY <1>1, PostingStands
<1>3. \A k \in Facts \X case.times :
        resolutions'[k] = IF k[2] = t THEN Revised(resolutions[k], Evaluate(k[1], E, t))
                          ELSE resolutions[k]
  BY DEF Resolve
<1>4. \A x : Evaluate(x, E, t) \in AnswerType
  <2>1. E \subseteq case.items
    BY DEF IInv, EvidenceAttested
  <2>2. Answers(E) \subseteq AnswerType
    BY <2>1 DEF Answers, AnswerType
  <2> QED
    BY <2>2, EvaluateType
<1>5. ASSUME NEW k \in Facts \X case.times
      PROVE  /\ resolutions'[k] \in Seq(AnswerType)
             /\ IsFiniteSet(Elements(resolutions'[k]))
             /\ Cardinality(Elements(resolutions'[k])) = Len(resolutions'[k])
  <2>1. /\ resolutions[k] \in Seq(AnswerType)
        /\ IsFiniteSet(Elements(resolutions[k]))
        /\ Cardinality(Elements(resolutions[k])) = Len(resolutions[k])
    BY DEF IInv, ResolutionsDiffer
  <2>2. CASE k[2] = t
    BY <1>3, <1>4, <2>1, <2>2, RevisedDistinct
  <2>3. CASE k[2] # t
    BY <1>3, <2>1, <2>3
  <2> QED
    BY <2>2, <2>3
<1>6. resolutions' = [k \in Facts \X case.times |-> resolutions'[k]]
  BY DEF Resolve
<1>7. resolutions' \in [Facts \X case.times -> Seq(AnswerType)]
  BY <1>5, <1>6
<1>8. ResolutionsDiffer'
  BY <1>1, <1>2, <1>5, <1>7 DEF ResolutionsDiffer, Elements
<1> QED
  BY <1>1, <1>8, Undisturbed DEF IInv

LEMMA AssessStep ==
  ASSUME IInv, NEW E \in SUBSET issued, NEW t \in case.times, NEW chosen, Assess(chosen, E, t)
  PROVE  IInv'
<1> DEFINE basis == Assessment(AnswersAt(E, t), E, t)
<1>1. case' = case /\ issued' = issued /\ resolutions' = resolutions
  BY DEF Assess
<1>2. Facts' = Facts /\ AnswerType' = AnswerType /\ Records' = Records
  BY <1>1, PostingStands
<1>3. PICK L \in Listings(E) :
        assessments' =
          IF \E i \in DOMAIN assessments : assessments[i].basis = basis THEN assessments
          ELSE Append(assessments, [basis |-> basis, named |-> E, listed |-> L])
  BY DEF Assess, Verified
<1> DEFINE new == [basis |-> basis, named |-> E, listed |-> L]
<1>4. new \in Records
  <2>1. E \in SUBSET case.items
    BY DEF IInv, EvidenceAttested
  <2>2. new \in {Recorded(E, M, u) : M \in Listings(E), u \in case.times}
    BY DEF Recorded
  <2> HIDE DEF new
  <2> QED
    BY <2>1, <2>2 DEF Records
<1>5. assessments \in Seq(Records)
  BY DEF IInv, AssessmentsBound
<1>6. CASE assessments' = assessments
  BY <1>1, <1>6, Undisturbed DEF IInv
<1>7. CASE /\ \A i \in DOMAIN assessments : assessments[i].basis # basis
           /\ assessments' = Append(assessments, new)
  <2> DEFINE n == Len(assessments)
  <2>1. /\ assessments' \in Seq(Records) /\ DOMAIN assessments' = 1 .. n + 1
        /\ DOMAIN assessments = 1 .. n /\ n \in Nat
        /\ assessments'[n + 1] = new /\ \A i \in 1 .. n : assessments'[i] = assessments[i]
    BY <1>4, <1>5, <1>7
  <2>2. \A i \in DOMAIN assessments' : assessments'[i].named \subseteq issued
    <3>1. \A i \in 1 .. n : assessments[i].named \subseteq issued
      BY <2>1 DEF IInv, AssessmentsBound
    <3>2. new.named \subseteq issued
      OBVIOUS
    <3>3. \A i \in 1 .. n + 1 : i \in 1 .. n \/ i = n + 1
      BY <2>1
    <3> HIDE DEF new
    <3> QED
      BY <2>1, <3>1, <3>2, <3>3
  <2>3. \A i, j \in DOMAIN assessments' : assessments'[i].basis = assessments'[j].basis => i = j
    <3>1. \A i, j \in 1 .. n : assessments[i].basis = assessments[j].basis => i = j
      BY <2>1 DEF IInv, AssessmentsBound
    <3>2. \A i \in 1 .. n : assessments[i].basis # new.basis
      BY <1>7, <2>1
    <3>3. \A i \in 1 .. n + 1 : i \in 1 .. n \/ i = n + 1
      BY <2>1
    <3> HIDE DEF new
    <3> QED
      BY <2>1, <3>1, <3>2, <3>3
  <2>4. AssessmentsBound'
    BY <1>1, <1>2, <2>1, <2>2, <2>3 DEF AssessmentsBound
  <2> QED
    BY <1>1, <2>4, Undisturbed DEF IInv
<1> QED
  BY <1>3, <1>6, <1>7

LEMMA IInvNext == IInv /\ [Next]_vars => IInv'
<1> SUFFICES ASSUME IInv, [Next]_vars PROVE IInv'
  OBVIOUS
<1>1. CASE \E e \in Evidence : Issue(e)
  BY <1>1, IssueStep
<1>2. ASSUME NEW E \in SUBSET issued, NEW t \in case.times,
             \/ Resolve(E, t)
             \/ \E chosen \in [Facts -> 1..MaxRevision] : Assess(chosen, E, t)
      PROVE  IInv'
  BY <1>2, ResolveStep, AssessStep
<1>3. CASE UNCHANGED vars
  BY <1>3, Undisturbed DEF IInv, vars
<1> QED
  BY <1>1, <1>2, <1>3 DEF Next

LEMMA Invariance == Spec => []IInv
BY IInvInit, IInvNext, PTL DEF Spec

-----------------------------------------------------------------------------
(* The theorems.                                                           *)

LEMMA IInvTypes == IInv => TypeOK
<1> SUFFICES ASSUME IInv PROVE TypeOK
  OBVIOUS
<1>1. \A k \in DOMAIN resolutions :
        /\ Elements(resolutions[k]) \subseteq AnswerType
        /\ Cardinality(Elements(resolutions[k])) = Len(resolutions[k])
  <2>1. \A k \in Facts \X case.times : resolutions[k] \in Seq(AnswerType)
    BY DEF IInv, ResolutionsDiffer
  <2>2. \A s \in Seq(AnswerType) : Elements(s) \subseteq AnswerType
    BY DEF Elements
  <2> QED
    BY <2>1, <2>2 DEF IInv, ResolutionsDiffer
<1>2. \A i \in DOMAIN assessments : assessments[i].listed \subseteq assessments[i].named
  <2>1. \A i \in DOMAIN assessments : assessments[i] \in Records
    BY DEF IInv, AssessmentsBound
  <2>2. \A a \in Records : a.listed \subseteq a.named
    BY DEF Records, Recorded, Listings
  <2> QED
    BY <2>1, <2>2
<1> QED
  BY <1>1, <1>2 DEF IInv, EvidenceAttested, ResolutionsDiffer, AssessmentsBound, TypeOK

\* What is recorded of an assessment is what its evidence gives.
LEMMA AssessedRecord ==
  ASSUME IInv, NEW a \in Assessed
  PROVE  /\ a.named \in SUBSET Evidence /\ IsFiniteSet(a.named)
         /\ a.listed \in Listings(a.named)
         /\ \A e \in Confirmed(a.named) : Item[e].origin # "CANDIDATE_ASSERTED"
         /\ a.basis.answers = AnswersAt(a.named, a.basis.asOf)
         /\ a.basis.verdict = Verdict(a.basis.answers)
         /\ a.basis.scope = Scope(a.named)
         /\ a.basis.asOf \in Nat
<1>1. PICK i \in DOMAIN assessments : a = assessments[i]
  BY DEF Assessed, Elements
<1>2. a \in Records /\ a.named \subseteq issued
  BY <1>1 DEF IInv, AssessmentsBound
<1>3. PICK E \in SUBSET case.items :
        a \in {Recorded(E, L, t) : L \in Listings(E), t \in case.times}
  BY <1>2 DEF Records
<1>4. PICK L \in Listings(E), t \in case.times : a = Recorded(E, L, t)
  BY <1>3
<1>5. a.named = E /\ a.listed = L /\ a.basis = Assessment(AnswersAt(E, t), E, t)
  BY <1>4 DEF Recorded
<1>6. /\ a.basis.asOf = t /\ a.basis.answers = AnswersAt(E, t)
      /\ a.basis.verdict = Verdict(AnswersAt(E, t)) /\ a.basis.scope = Scope(E)
  BY <1>5 DEF Assessment
<1>7. a.named \in SUBSET Evidence
  BY <1>2, CaseAssumption DEF IInv, EvidenceAttested
<1>8. IsFiniteSet(a.named)
  BY <1>2, FS_Subset DEF IInv, EvidenceAttested
<1>9. \A e \in Confirmed(a.named) : Item[e].origin # "CANDIDATE_ASSERTED"
  BY <1>2 DEF IInv, EvidenceAttested, Confirmed
<1>10. t \in Nat
  BY CaseAssumption DEF IInv
<1> QED
  BY <1>5, <1>6, <1>7, <1>8, <1>9, <1>10

LEMMA IInvDefinite == IInv => DefiniteExactly
<1> SUFFICES ASSUME IInv, NEW a \in Assessed
             PROVE  /\ a.basis.verdict = "ELIGIBLE" <=> \A F \in Outcomes(a) : Holds(F)
                    /\ a.basis.verdict = "INELIGIBLE" <=> \A F \in Outcomes(a) : ~Holds(F)
  BY DEF DefiniteExactly
<1> DEFINE answers == a.basis.answers
           T == Answering(a, "TRUE")
           U == Answering(a, "UNKNOWN")
<1>1. a.basis.verdict = Verdict(answers)
  BY AssessedRecord
<1>2. Held(answers) = T /\ NotFailed(answers) = T \cup U
  BY ThreeValued DEF Held, NotFailed, Answering
<1>3. /\ Verdict(answers) = "ELIGIBLE" <=> Holds(T)
      /\ Verdict(answers) = "INELIGIBLE" <=> ~Holds(T \cup U)
  BY <1>2, VerdictTold
<1>4. /\ T \in Outcomes(a) /\ T \cup U \in Outcomes(a)
      /\ \A F \in Outcomes(a) : T \subseteq F /\ F \subseteq T \cup U
  <2>1. T = T \cup {} /\ {} \in SUBSET U /\ U \in SUBSET U
    OBVIOUS
  <2> HIDE DEF T, U
  <2>2. Outcomes(a) = {T \cup V : V \in SUBSET U}
    BY DEF Outcomes, T, U
  <2> QED
    BY <2>1, <2>2
<1> HIDE DEF T, U, answers
<1> QED
  BY <1>1, <1>3, <1>4, HoldsOfMore

LEMMA IInvVerdict == IInv => VerdictOfEvidence
<1> SUFFICES ASSUME IInv, NEW a \in Assessed
             PROVE  /\ a.basis.verdict = Verdict(AnswersAt(a.named, a.basis.asOf))
                    /\ ~CohortListedLate(a) =>
                         a.basis.verdict = Verdict(AnswersAt(KeptWith(a), a.basis.asOf))
  BY DEF VerdictOfEvidence
<1> DEFINE E == a.named
           t == a.basis.asOf
           W == KeptWith(a)
           A == AnswersAt(E, t)
           B == AnswersAt(W, t)
<1>1. /\ E \in SUBSET Evidence /\ a.listed \in Listings(E)
      /\ a.basis.answers = A /\ a.basis.verdict = Verdict(A) /\ t \in Nat
  BY AssessedRecord
<1>2. \A x \in Facts : A[x] = Evaluate(x, E, t) /\ B[x] = Evaluate(x, W, t)
  BY DEF AnswersAt
<1>3. /\ W \subseteq E /\ a.listed \subseteq W
      /\ \A x \in Facts : Evaluate(x, E, t).evidence \subseteq W
  <2>1. a.listed \subseteq E
    BY <1>1 DEF Listings
  <2>2. \A x \in Facts : Evaluate(x, E, t).evidence \subseteq E
    BY EvaluateType DEF Answers
  <2>3. W = a.listed \cup UNION {Evaluate(x, E, t).evidence : x \in Facts}
    <3>1. W = a.listed \cup UNION {A[x].evidence : x \in Facts}
      BY <1>1 DEF KeptWith
    <3> HIDE DEF A, W, E, t
    <3> QED
      BY <1>2, <3>1
  <2> HIDE DEF E, W, t
  <2> QED
    BY <2>1, <2>2, <2>3
<1>4. ASSUME ~CohortListedLate(a)
      PROVE  Verdict(A) = Verdict(B)
  <2>1. \A e \in a.listed : Item[e].kind = "COHORT" => ~(Item[e].seen > t)
    BY <1>4 DEF CohortListedLate, OfKind
  <2>2. \A x \in Facts : LogicalResult(B[x].status) = LogicalResult(A[x].status)
    <3>1. case \in Cases
      BY DEF IInv
    <3> HIDE DEF E, W, t, A, B
    <3>2. ASSUME NEW x \in Facts
          PROVE  LogicalResult(Evaluate(x, W, t).status) = LogicalResult(Evaluate(x, E, t).status)
      BY <1>1, <1>3, <2>1, <3>1, KeptSaysTheSame
    <3> QED
      BY <1>2, <3>2
  <2> HIDE DEF A, B
  <2> QED
    BY <2>2, VerdictOfResults
<1> QED
  BY <1>1, <1>4

LEMMA IInvDocuments == IInv => RestsOnDocuments
<1> SUFFICES ASSUME IInv, NEW a \in Assessed,
                    a.basis.scope = "PRODUCTION", a.basis.verdict # "NEEDS_REVIEW"
             PROVE  a.basis.verdict = Verdict(AnswersAt(Documents(a.named), a.basis.asOf))
  BY DEF RestsOnDocuments
<1> DEFINE E == a.named
           t == a.basis.asOf
           A == AnswersAt(E, t)
           B == AnswersAt(Documents(E), t)
<1>1. /\ E \in SUBSET Evidence /\ Synthetic(E) = {}
      /\ \A e \in Confirmed(E) : Item[e].origin # "CANDIDATE_ASSERTED"
      /\ a.basis.verdict = Verdict(A)
  BY AssessedRecord DEF Scope
<1>2. \A x \in Facts : A[x] = Evaluate(x, E, t) /\ B[x] = Evaluate(x, Documents(E), t)
  BY DEF AnswersAt
<1>3. \A x \in Facts : A[x].status \in Definite => B[x] = A[x]
  <2> HIDE DEF E, t, A, B
  <2> QED
    BY <1>1, <1>2, DefiniteOfDocuments DEF IInv
<1> QED
  BY <1>1, <1>3, VerdictOfDefinite

LEMMA IInvStand == IInv => AnswersStand
<1> SUFFICES ASSUME IInv, NEW a \in Assessed, NEW x \in Facts
             PROVE  Stands(a.basis.answers[x].status,
                           {e \in a.named : Speaks(e, x, a.basis.asOf)}, FactAt(x))
  BY DEF AnswersStand, Stands
<1>1. a.named \in SUBSET Evidence /\ IsFiniteSet(a.named)
      /\ a.basis.answers = AnswersAt(a.named, a.basis.asOf)
  BY AssessedRecord
<1>2. a.basis.answers[x] = Evaluate(x, a.named, a.basis.asOf)
  BY <1>1 DEF AnswersAt
<1> QED
  BY <1>1, <1>2, EvaluateStands DEF IInv

\* Evidence is the candidate's and no claim of it is confirmed, and the revisions of
\* a resolution and of an assessment differ in what they say (resolve and assess
\* return an equal revision instead of sealing another).
THEOREM Types == Spec => []TypeOK
BY Invariance, IInvTypes, PTL

\* A verdict is definite exactly when what is unknown cannot change it, for every
\* tree of conditions (evaluateLogicTree, aggregateMandatoryLogic).
THEOREM ThreeValuedVerdict == Spec => []DefiniteExactly
BY Invariance, IInvDefinite, PTL

\* An assessment says what the evidence of its command says, whatever was resolved
\* before (validatePredicateResolutions), and so does what it keeps of that evidence,
\* unless a cohort is listed late (uniqueCandidateEvidence).
THEOREM VerdictBound == Spec => []VerdictOfEvidence
BY Invariance, IInvVerdict, PTL

\* What the candidate merely claims decides nothing (trusted-candidate-evidence.ts
\* and the resolvers, which answer by confirmed evidence).
THEOREM ClaimsDecideNothing == Spec => []RestsOnDocuments
BY Invariance, IInvDocuments, PTL

\* Each fact called met or failed has confirmed evidence that speaks to it and bears
\* the answer out (the resolvers of position-bound-predicate-resolution.ts).
THEOREM AnswersBorneOut == Spec => []AnswersStand
BY Invariance, IInvStand, PTL
=============================================================================
