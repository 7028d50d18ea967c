----------------------------- MODULE Presentation -----------------------------
(***************************************************************************)
(* What is shown of each position: production runs replay the trusted      *)
(* chain of a branch, revise recall dispositions, decide presentations,    *)
(* migrate the decisions of the first contract and materialize read        *)
(* models, and commit all of it at once or nothing                         *)
(* (lib/ingestion/pipeline/presentation-decision.ts, the read snapshot of  *)
(* presentation-persistence.ts, trusted-chain-composition-root.ts and the  *)
(* run() of zero-cost-production-composition-root.ts around them).         *)
(*                                                                         *)
(* Candidates, opportunities and assessments exist already: a run may      *)
(* refer to any.  A book is what a journal holds of presentation.          *)
(***************************************************************************)
EXTENDS Naturals, Sequences, FiniteSets

CONSTANTS
  Run,
  Candidate,
  Excludable,   \* candidates of a publisher the approved exclusions name
  Sov, Position, Opportunity,
  SovOf,        \* the source occurrence a candidate was discovered in
  PositionOf,   \* the position of an opportunity
  SovsOf,       \* the source occurrences an opportunity is bound to
  CoverOf,      \* those its composition, and so its relevance assessment, names
  NoOpportunity,
  Content, ContentOf,  \* what an opportunity shows: no names of artifacts
  Assessments,  \* a relevance assessment each, with an eligibility assessment or none
  Unsupported,  \* opportunities whose composition the projection cannot represent
  Histories,    \* sets of decisions of the first contract that bound their candidate
  MaxHead, MaxRevision, MaxRecall, MaxCommands

Relevance == {"NONE", "RELEVANT", "UNCERTAIN", "NOT_RELEVANT", "EVIDENCE_BLOCKED"}
Eligibility == {"NONE", "ELIGIBLE", "OTHER"}
Recall == {"RETAINED", "EXCLUDED"}
Status == {"DISPLAY", "DISPLAY_WITH_REVIEW", "NOT_DISPLAY", "EVIDENCE_BLOCKED"}

Assessment ==
  [opportunity : Opportunity \cup {NoOpportunity}, relevance : Relevance,
   eligibility : Eligibility]
NoAssessment == [opportunity |-> NoOpportunity, relevance |-> "NONE", eligibility |-> "NONE"]

\* What a semantic projection tells apart.
Meaning == [content : Content, recall : Recall, relevance : Relevance,
            eligibility : Eligibility, status : Status]

ASSUME SubjectAssumption ==
  /\ SovOf \in [Candidate -> Sov] /\ Excludable \subseteq Candidate
  /\ NoOpportunity \notin Opportunity
  /\ PositionOf \in [Opportunity -> Position]
  /\ SovsOf \in [Opportunity -> SUBSET Sov] /\ CoverOf \in [Opportunity -> SUBSET Sov]
  /\ ContentOf \in [Opportunity -> Content] /\ Unsupported \subseteq Opportunity
\* A source occurrence has one position (resolvePositionIdentity), and what a
\* composition names is of its position, or has none.
ASSUME IdentityAssumption ==
  \A o, q \in Opportunity :
    (SovsOf[o] \cup CoverOf[o]) \cap SovsOf[q] # {} => PositionOf[o] = PositionOf[q]
ASSUME AssessmentAssumption ==
  /\ Assessments \subseteq Assessment
  /\ \A e \in Assessments : e.opportunity # NoOpportunity /\ e.relevance # "NONE"
  /\ Histories \subseteq
       SUBSET [candidate : Candidate, opportunity : Opportunity, meaning : Meaning]
  /\ \A h \in Histories : \A d \in h : SovOf[d.candidate] \in CoverOf[d.opportunity]
ASSUME BoundAssumption ==
  {MaxHead, MaxRevision, MaxCommands} \subseteq Nat /\ MaxRecall \in [Candidate -> Nat]

VARIABLES
  legacy,  \* what the branch held before the second contract
  remote,  \* the branch: its head, counted, and its book
  run      \* each run: where it is, the head it cloned, its own book

vars == <<legacy, remote, run>>

\* migration: the anchor of the migration a series began with, 0 for none;
\* recalls: how many dispositions the journal held of the candidate.
Revision == [candidate : Candidate, recalls : Nat, meaning : Meaning, migration : Nat]
Audit == [position : Position, anchor : Nat, blocked : BOOLEAN]

\* latest is history: the meaning of the last decision journaled of a position.
Book ==
  [recall : [Candidate -> Seq(Recall)],
   series : [Position -> Seq(Revision)],       \* POSITION_PRESENTATION
   models : SUBSET (Position \X Nat),          \* revisions with a read model
   audits : SUBSET Audit,
   retained : SUBSET Candidate,                \* with an UNBOUND_RETAINED_OUTCOME
   supports : SUBSET (Candidate \X Position),  \* the associations of candidates
   latest : [Position -> SUBSET Meaning]]

EmptyBook ==
  [recall |-> [c \in Candidate |-> <<"RETAINED">>], series |-> [p \in Position |-> <<>>],
   models |-> {}, audits |-> {}, retained |-> {}, supports |-> {},
   latest |-> [p \in Position |-> {}]]

Idle == [pc |-> "idle", base |-> 0, book |-> EmptyBook, commands |-> 0,
         produced |-> FALSE]

Init ==
  /\ legacy \in Histories
  /\ remote = [head |-> 1, book |-> EmptyBook]
  /\ run = [r \in Run |-> Idle]

At(r, s) == run[r].pc = s
Mine(r) == run[r].book
Become(r, v) == run' = [run EXCEPT ![r] = v]

\* A command has been executed and journaled.
Write(r, b, produced) ==
  /\ run[r].commands < MaxCommands
  /\ Become(r, [run[r] EXCEPT !.book = b, !.commands = @ + 1, !.produced = @ \/ produced])
  /\ UNCHANGED <<legacy, remote>>

-----------------------------------------------------------------------------
(* decide, by the second contract.                                         *)

\* A command names a candidate and one of its dispositions, may name an
\* opportunity and may refer to assessments.
Commands(b) ==
  UNION {[candidate : {c}, recall : DOMAIN b.recall[c],
          named : Opportunity \cup {NoOpportunity},
          assessed : Assessments \cup {NoAssessment}] : c \in Candidate}

Covered(k) ==
  k.assessed.opportunity # NoOpportunity /\ SovOf[k.candidate] \in CoverOf[k.assessed.opportunity]
Recalled(b, k) == b.recall[k.candidate][k.recall]

\* The assessments that count (decisionPayload).
Counted(b, k) ==
  IF Recalled(b, k) = "EXCLUDED" THEN NoAssessment
  ELSE IF Covered(k) /\ k.assessed.relevance \in {"RELEVANT", "UNCERTAIN"} THEN k.assessed
  ELSE [k.assessed EXCEPT !.eligibility = "NONE"]

\* materializeDecision
StatusOf(b, k) ==
  LET e == Counted(b, k) IN
    IF Recalled(b, k) = "EXCLUDED" THEN "NOT_DISPLAY"
    ELSE IF ~Covered(k) \/ e.relevance = "EVIDENCE_BLOCKED" THEN "EVIDENCE_BLOCKED"
    ELSE IF e.relevance = "NOT_RELEVANT" THEN "NOT_DISPLAY"
    ELSE IF e.eligibility = "NONE" THEN "EVIDENCE_BLOCKED"
    ELSE IF e.relevance = "RELEVANT" /\ e.eligibility = "ELIGIBLE" THEN "DISPLAY"
    ELSE "DISPLAY_WITH_REVIEW"

\* The opportunity decided on, if there is one.
Graph(b, k) == IF k.named # NoOpportunity THEN k.named ELSE Counted(b, k).opportunity

Bound(b, k) == Graph(b, k) # NoOpportunity /\ SovOf[k.candidate] \in SovsOf[Graph(b, k)]
Subject(b, k) == PositionOf[Graph(b, k)]

MeaningOf(b, k) ==
  [content |-> ContentOf[Graph(b, k)], recall |-> Recalled(b, k),
   relevance |-> Counted(b, k).relevance, eligibility |-> Counted(b, k).eligibility,
   status |-> StatusOf(b, k)]

\* Without relevance no composition is projected.
Projectable(o, m) == m.relevance = "NONE" \/ o \notin Unsupported

\* Variant: any disposition of the candidate will do, such as its first.
AdmittedAnyRecall(b, k) ==
  Counted(b, k).opportunity \in {NoOpportunity, Graph(b, k)}

Admitted(b, k) ==
  /\ k.recall = Len(b.recall[k.candidate])
  /\ Counted(b, k).opportunity \in {NoOpportunity, Graph(b, k)}

LegacyAt(p) == {d \in legacy : PositionOf[d.opportunity] = p}

Newest(s) == s[Len(s)]

\* Variant, as the first contract has it: some revision has this meaning.
HeadsOnce(b, p, m) == \E n \in DOMAIN b.series[p] : b.series[p][n].meaning = m

\* The head of a position has this meaning.
Heads(b, p, m) == b.series[p] # <<>> /\ Newest(b.series[p]).meaning = m

Supported(b, c, p, m) ==
  [b EXCEPT !.supports = @ \cup {<<c, p>>}, !.latest[p] = {m}]

Retain(r) ==
  /\ At(r, "running")
  /\ \E k \in Commands(Mine(r)) : LET b == Mine(r) IN
       /\ Admitted(b, k) /\ ~Bound(b, k)
       /\ Write(r, [b EXCEPT !.retained = @ \cup {k.candidate}], TRUE)

\* Variant: a position with a history of the first contract starts afresh.
SeriesOpenUngated(b, p) == TRUE

\* A position with such a history and no series waits for its migration.
SeriesOpen(b, p) == b.series[p] # <<>> \/ LegacyAt(p) = {}

Reuse(r) ==
  /\ At(r, "running")
  /\ \E k \in Commands(Mine(r)) : LET b == Mine(r) IN
       /\ Admitted(b, k) /\ Bound(b, k)
       /\ SeriesOpen(b, Subject(b, k)) /\ Projectable(Graph(b, k), MeaningOf(b, k))
       /\ Heads(b, Subject(b, k), MeaningOf(b, k))
       /\ Write(r, Supported(b, k.candidate, Subject(b, k), MeaningOf(b, k)), FALSE)

Issue(r) ==
  /\ At(r, "running")
  /\ \E k \in Commands(Mine(r)) :
       LET b == Mine(r)
           p == Subject(b, k)
           revision == [candidate |-> k.candidate, recalls |-> Len(b.recall[k.candidate]),
                        meaning |-> MeaningOf(b, k),
                        migration |-> IF b.series[p] = <<>> THEN 0
                                      ELSE Newest(b.series[p]).migration] IN
         /\ Admitted(b, k) /\ Bound(b, k)
         /\ SeriesOpen(b, p) /\ Projectable(Graph(b, k), MeaningOf(b, k))
         /\ ~Heads(b, p, MeaningOf(b, k))
         /\ Len(b.series[p]) < MaxRevision
         /\ Write(r, [Supported(b, k.candidate, p, MeaningOf(b, k))
                        EXCEPT !.series[p] = Append(@, revision)], FALSE)

\* What cannot be projected is journaled as in need of review, and no more.
Review(r) ==
  /\ At(r, "running")
  /\ \E k \in Commands(Mine(r)) : LET b == Mine(r) IN
       /\ Admitted(b, k) /\ Bound(b, k) /\ SeriesOpen(b, Subject(b, k))
       /\ ~Projectable(Graph(b, k), MeaningOf(b, k))
       /\ Write(r, b, FALSE)

-----------------------------------------------------------------------------
(* migrateV1, whose anchor is the head the run has cloned.                 *)

AuditOf(b, r, p) == {a \in b.audits : a.position = p /\ a.anchor = run[r].base}

\* Variant: the first decision of the history stands for all of them.
EquivalentFirst(p) ==
  \E d \in LegacyAt(p) :
    SovOf[d.candidate] \in SovsOf[d.opportunity] /\ Projectable(d.opportunity, d.meaning)

\* Each decision's binding is proven, and all project to the same.
Equivalent(p) ==
  \A d \in LegacyAt(p) :
    /\ SovOf[d.candidate] \in SovsOf[d.opportunity]
    /\ Projectable(d.opportunity, d.meaning)
    /\ \A e \in LegacyAt(p) : e.meaning = d.meaning

Migratable(b, r, p) ==
  LegacyAt(p) # {} /\ AuditOf(b, r, p) = {} /\ b.series[p] = <<>>

\* The revision is of the decision issued first; its model is made at once.
MigrateEquivalent(r, p) ==
  /\ At(r, "running")
  /\ Migratable(Mine(r), r, p) /\ Equivalent(p)
  /\ \E d \in LegacyAt(p) :
       LET first == [candidate |-> d.candidate, recalls |-> 1, meaning |-> d.meaning,
                     migration |-> run[r].base] IN
         Write(r, [Mine(r) EXCEPT
                     !.series[p] = <<first>>, !.models = @ \cup {<<p, 1>>},
                     !.audits = @ \cup {[position |-> p, anchor |-> run[r].base,
                                         blocked |-> FALSE]},
                     !.supports = @ \cup {<<e.candidate, p>> : e \in LegacyAt(p)},
                     !.latest[p] = {d.meaning}], TRUE)

MigrateBlocked(r, p) ==
  /\ At(r, "running")
  /\ Migratable(Mine(r), r, p) /\ ~Equivalent(p)
  /\ Write(r, [Mine(r) EXCEPT !.audits =
                 @ \cup {[position |-> p, anchor |-> run[r].base, blocked |-> TRUE]}], TRUE)

\* The same migration once more.
MigrateAgain(r, p) ==
  /\ At(r, "running")
  /\ AuditOf(Mine(r), r, p) # {}
  /\ Write(r, Mine(r), TRUE)

-----------------------------------------------------------------------------
(* The rest of a run.                                                      *)

\* RETAINED stands for every status given before the exclusions are applied.
Dispositions(c) == {s \in Recall : s = "EXCLUDED" => c \in Excludable}

\* RECALL_DISPOSITION_RECORD, RECALL_APPROVED_EXCLUSION_RECORD
Revise(r, c) ==
  /\ At(r, "running")
  /\ Len(Mine(r).recall[c]) < MaxRecall[c]
  /\ \E s \in Dispositions(c) : Write(r, [Mine(r) EXCEPT !.recall[c] = Append(@, s)], FALSE)

\* A disposition is recorded once more as it was before.
ReviseAgain(r) == At(r, "running") /\ Write(r, Mine(r), FALSE)

\* PRESENTATION_READ_MODEL_MATERIALIZE, of any revision.
Materialize(r, p) ==
  /\ At(r, "running")
  /\ \E n \in DOMAIN Mine(r).series[p] :
       Write(r, [Mine(r) EXCEPT !.models = @ \cup {<<p, n>>}], TRUE)

\* Clone and replay.
Begin(r) ==
  /\ At(r, "idle")
  /\ Become(r, [pc |-> "running", base |-> remote.head, book |-> remote.book,
                commands |-> 0, produced |-> FALSE])
  /\ UNCHANGED <<legacy, remote>>

\* A failed run keeps nothing of its book.
Failed(r) == [Idle EXCEPT !.pc = "failed", !.base = run[r].base]

\* Something fails or a command is refused: it expects another head than the
\* current one, refers to a disposition that is not the latest or to another
\* opportunity than its assessments, or asks for a series before its migration or
\* for a migration after it.  That ends the run.
Refuse(r) ==
  /\ At(r, "running")
  /\ Become(r, Failed(r))
  /\ UNCHANGED <<legacy, remote>>

AuditsAt(b, p) == {a \in b.audits : a.position = p}

\* buildAuthoritativePresentationCurrentSnapshot, of positions with a history
\* of the first contract
MigrationBuilds(b, p) ==
  \E a \in AuditsAt(b, p) :
    /\ AuditsAt(b, p) = {a}
    /\ IF a.blocked THEN b.series[p] = <<>>
       ELSE b.series[p] # <<>> /\ b.series[p][1].migration = a.anchor

SeriesBuilds(b, p) ==
  /\ b.series[p] # <<>> =>
       IF b.series[p][1].migration # 0 THEN \E a \in AuditsAt(b, p) : ~a.blocked
       ELSE LegacyAt(p) = {} /\ AuditsAt(b, p) = {}
  /\ \A n \in DOMAIN b.series[p] :
       /\ <<p, n>> \in b.models
       /\ n > 1 => /\ b.series[p][n].migration = b.series[p][n - 1].migration
                   /\ b.series[p][n].meaning # b.series[p][n - 1].meaning

\* Where a candidate's associations lead.
Located(b, c) ==
  {p \in Position :
     \/ <<c, p>> \in b.supports
     \/ \E n \in DOMAIN b.series[p] : b.series[p][n].candidate = c
     \/ (\E a \in AuditsAt(b, p) : a.blocked) /\ (\E d \in LegacyAt(p) : d.candidate = c)}

\* A candidate is associated with one position at most.
AssociationsBuild(b) == \A s \in b.supports : Located(b, s[1]) \subseteq {s[2]}

Builds(b) ==
  /\ \A a \in b.audits : LegacyAt(a.position) # {}
  /\ \A p \in Position : (LegacyAt(p) # {} => MigrationBuilds(b, p)) /\ SeriesBuilds(b, p)
  /\ AssociationsBuild(b)

\* Without anything of the second contract there is no snapshot to build.
Activated(b) ==
  b.audits # {} \/ b.retained # {} \/ \E p \in Position : b.series[p] # <<>>

Built(b) == Activated(b) => Builds(b)

\* Variant: a run without any outcome is committed as well.
FinishUnproduced(r) ==
  /\ At(r, "running")
  /\ Become(r, [run[r] EXCEPT !.pc = IF Built(Mine(r)) THEN "built" ELSE "refused"])
  /\ UNCHANGED <<legacy, remote>>

Finish(r) ==
  /\ At(r, "running")
  /\ Become(r, IF ~Built(Mine(r)) THEN [run[r] EXCEPT !.pc = "refused"]
               ELSE IF run[r].produced THEN [run[r] EXCEPT !.pc = "built"] ELSE Failed(r))
  /\ UNCHANGED <<legacy, remote>>

\* Variant: the head need not be the one cloned.
FastForwardUnchecked(r) == TRUE

FastForward(r) == remote.head = run[r].base

Push(r) ==
  /\ At(r, "built") /\ FastForward(r) /\ remote.head < MaxHead
  /\ remote' = [head |-> remote.head + 1, book |-> Mine(r)]
  /\ Become(r, Idle)
  /\ UNCHANGED legacy

\* The outcome of a failed run is committed without its book.
PushOutcome(r) ==
  /\ run[r].pc \in {"failed", "refused"}
  /\ remote.head = run[r].base /\ remote.head < MaxHead
  /\ remote' = [remote EXCEPT !.head = @ + 1]
  /\ Become(r, Idle)
  /\ UNCHANGED legacy

\* The head has moved, or the process stops.
Drop(r) ==
  /\ ~At(r, "idle")
  /\ Become(r, Idle)
  /\ UNCHANGED <<legacy, remote>>

Publish(r) ==
  \/ Reuse(r) \/ Issue(r) \/ Review(r) \/ ReviseAgain(r)
  \/ \E p \in Position :
       MigrateEquivalent(r, p) \/ MigrateBlocked(r, p) \/ MigrateAgain(r, p) \/ Materialize(r, p)
  \/ \E c \in Candidate : Revise(r, c)

Course(r) ==
  Begin(r) \/ Refuse(r) \/ Finish(r) \/ Push(r) \/ PushOutcome(r) \/ Drop(r)

Next == \E r \in Run : Publish(r) \/ Retain(r) \/ Course(r)

Spec == Init /\ [][Next]_vars
-----------------------------------------------------------------------------
(* What is to be checked.                                                  *)

Pc == {"idle", "running", "built", "failed", "refused"}

\* Every variable has its type, and a run that is to be committed has produced
\* something.
TypeOK ==
  /\ legacy \in Histories
  /\ remote \in [head : Nat, book : Book]
  /\ run \in [Run -> [pc : Pc, base : Nat, book : Book, commands : Nat, produced : BOOLEAN]]
  /\ \A r \in Run : At(r, "built") => run[r].produced

\* What a run decides and migrates is refused by the read snapshot for two
\* reasons only: some history of the first contract has not been migrated, or
\* more than once, or some revision has no read model.
RefusalExplained ==
  \A r \in Run : At(r, "refused") =>
    \E p \in Position :
      \/ LegacyAt(p) # {} /\ \A a \in AuditsAt(Mine(r), p) : AuditsAt(Mine(r), p) # {a}
      \/ \E n \in DOMAIN Mine(r).series[p] : <<p, n>> \notin Mine(r).models

\* A committed decision is never taken back: whatever runs race each other or
\* migrate again, series only get longer and nothing retained, audited or
\* materialized goes.
DecisionsKept ==
  [][/\ \A p \in Position :
          /\ Len(remote.book.series[p]) <= Len(remote'.book.series[p])
          /\ \A n \in DOMAIN remote.book.series[p] :
               remote.book.series[p][n] = remote'.book.series[p][n]
     /\ remote.book.retained \subseteq remote'.book.retained
     /\ remote.book.audits \subseteq remote'.book.audits
     /\ remote.book.models \subseteq remote'.book.models]_remote

\* A position with a history of the first contract is published only if all of
\* that history said the same, and begins with what it said.
HistoryAgrees ==
  \A p \in Position :
    remote.book.series[p] # <<>> =>
      \A d \in LegacyAt(p) :
        /\ d.meaning = remote.book.series[p][1].meaning
        /\ <<d.candidate, p>> \in remote.book.supports

\* The current presentation of a position is what was decided last, also when
\* that had been decided before.
CurrentIsLatest ==
  \A p \in Position :
    remote.book.series[p] # <<>> =>
      remote.book.latest[p] = {Newest(remote.book.series[p]).meaning}

\* No revision shows a position for a candidate that was excluded by then; what
\* a migration carries over was decided before.
ExclusionRespected ==
  \A p \in Position : \A n \in DOMAIN remote.book.series[p] :
    LET d == remote.book.series[p][n] IN
      d.meaning.status \in {"DISPLAY", "DISPLAY_WITH_REVIEW"} /\ ~(n = 1 /\ d.migration # 0) =>
        remote.book.recall[d.candidate][d.recalls] # "EXCLUDED"

\* What the design says of a blocked position: it is resolved, and migrated
\* then.  So a run that migrates it again can be committed.
BlockedCanMigrate ==
  \A r \in Run : At(r, "refused") =>
    \A p \in Position : \A a, q \in AuditsAt(Mine(r), p) : a = q
=============================================================================
