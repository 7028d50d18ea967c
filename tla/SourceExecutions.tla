-------------------------- MODULE SourceExecutions --------------------------
(***************************************************************************)
(* What scheduler batches and their source executions leave on the         *)
(* production branch, and what is read off it: request intents, attempts   *)
(* and their closings, outcomes and batch manifests                        *)
(* (lib/production-persistence/source-execution-outcome.ts,                *)
(* source-execution-request-intent.ts, scheduler-source-enumeration.ts,    *)
(* scheduler-batch-manifest.ts).                                           *)
(*                                                                         *)
(* A branch is the sequence of its commits.  It only grows, so a head is   *)
(* named by its length, and an attempt by the position of its reservation. *)
(* Every authorization has been granted, for a target of its own; sources  *)
(* do not change.  The module is constant-level.                           *)
(***************************************************************************)
EXTENDS Naturals, Sequences

CONSTANTS
  Authorization,  \* granted authorizations, each for one exact target
  Endpoint,       \* recruitment endpoints
  Plan,           \* Plan[e]: the authorizations of e's targets, as e's adapter plans them
  Batch,          \* batch ids
  Interval        \* the granted interval between two requests of a target

Planned(e) == {Plan[e][i] : i \in DOMAIN Plan[e]}

ASSUME PlanAssumption ==
  /\ Plan \in [Endpoint -> Seq(Authorization)]
  /\ \A e, f \in Endpoint : e # f => Planned(e) \cap Planned(f) = {}
  /\ \A e \in Endpoint : \A i, j \in DOMAIN Plan[e] :
       Plan[e][i] = Plan[e][j] => i = j
ASSUME IntervalAssumption == Interval \in Nat

\* schedulerSourceExecutionId: a hash of the batch id and the authorizations.
Execution == [batch : Batch, auths : SUBSET Authorization]

IntentCommit   == [kind : {"INTENT"}, execution : Execution]
ReserveCommit  == [kind : {"RESERVE"}, auth : Authorization]
CloseCommit    == [kind : {"COMPLETE", "RECOVER"}, attempt : Nat, at : Nat]
OutcomeCommit  == [kind : {"OUTCOME"}, execution : Execution, attempts : SUBSET Nat]
RevokeCommit   == [kind : {"REVOKE"}, auth : Authorization]
ManifestCommit == [kind : {"MANIFEST"}, batch : Batch,
                   executions : SUBSET SUBSET Authorization,
                   deferred : SUBSET Authorization]
Commit == IntentCommit \cup ReserveCommit \cup CloseCommit \cup OutcomeCommit
            \cup RevokeCommit \cup ManifestCommit

Of(h, kind) == {i \in DOMAIN h : h[i].kind = kind}

Closings(h) == Of(h, "COMPLETE") \cup Of(h, "RECOVER")
Closed(h) == {h[i].attempt : i \in Closings(h)}
Completed(h) == {h[i].attempt : i \in Of(h, "COMPLETE")}

\* pendingContinuousAttempt
Open(h) == Of(h, "RESERVE") \ Closed(h)

Revoked(h, a) == \E i \in Of(h, "REVOKE") : h[i].auth = a

Declared(h, x) == \E i \in Of(h, "INTENT") : h[i].execution = x
OutcomesOf(h, x) == {i \in Of(h, "OUTCOME") : h[i].execution = x}
ManifestsOf(h, b) == {i \in Of(h, "MANIFEST") : h[i].batch = b}

\* The attempts some outcome names as its requests.
Bound(h) == UNION {h[i].attempts : i \in Of(h, "OUTCOME")}

\* assertNoUnsettledSourceExecution throws.
Unsettled(h) == Open(h) # {} \/ ~(Completed(h) \subseteq Bound(h))

\* reserveContinuousRecord admits a request under a at time t.
Reservable(h, a, t) ==
  /\ ~Revoked(h, a)
  /\ Open(h) = {}
  /\ \A i \in Closings(h) : h[h[i].attempt].auth = a => h[i].at + Interval <= t

\* enumerateScheduledSources: a revoked authorization is left out, of the
\* others those are deferred that may not be reserved now.
Eligible(h, t) == {a \in Authorization : Reservable(h, a, t)}
Deferred(h, t) == {a \in Authorization : ~Revoked(h, a) /\ ~Reservable(h, a, t)}

\* groupEndpointTargets
Groups(S) == {S \cap Planned(e) : e \in Endpoint} \ {{}}
EndpointOf(g) == CHOOSE e \in Endpoint : g \subseteq Planned(e)

\* Outcomes of an earlier run of the batch: their authorizations.
Recovered(h, b) ==
  {h[i].execution.auths : i \in {j \in Of(h, "OUTCOME") : h[j].execution.batch = b}}

\* prepareEvidenceLossRecoveryOutcome: execution x, declared for one target and
\* without an outcome, may be ended as a failure that binds attempt i: the last
\* one under its authorization, answered (successfully, but the response is not
\* modelled), and reserved while x's intent was the newest.
LossRecoverable(h, x, i) ==
  /\ OutcomesOf(h, x) = {}
  /\ \E e \in Endpoint : Len(Plan[e]) = 1 /\ Planned(e) = x.auths
  /\ i \in Of(h, "RESERVE") /\ h[i].auth \in x.auths
  /\ \A j \in Of(h, "RESERVE") : h[j].auth = h[i].auth => j <= i
  /\ i \in Completed(h)
  /\ Open(h) = {}
  /\ i \notin Bound(h)
  /\ \E n \in Of(h, "INTENT") :
       /\ h[n].execution = x /\ n < i
       /\ \A m \in Of(h, "INTENT") : m > n => m > i

-----------------------------------------------------------------------------
(* What every branch is to be like.                                        *)

\* Closings are of earlier commits.
ClosesEarlier(h) == \A i \in Closings(h) : h[i].attempt \in 1 .. i - 1

\* Every attempt is bound by at most one outcome, no execution has two, and an
\* outcome binds only attempts of its own authorizations that were answered
\* before it.
BindsOnce(h) ==
  \A i \in Of(h, "OUTCOME") :
    /\ h[i].attempts \subseteq Completed(SubSeq(h, 1, i - 1))
    /\ \A n \in h[i].attempts : h[n].auth \in h[i].execution.auths
    /\ \A j \in Of(h, "OUTCOME") : j # i =>
         /\ h[i].attempts \cap h[j].attempts = {}
         /\ h[i].execution # h[j].execution

\* A manifest of batch b may stand on top of h: nothing is unsettled, the batch
\* has no manifest yet, and each of its executions has its outcome.
MayManifest(h, b, executions) ==
  /\ ~Unsettled(h)
  /\ ManifestsOf(h, b) = {}
  /\ \A g \in executions : OutcomesOf(h, [batch |-> b, auths |-> g]) # {}

ManifestsStand(h) ==
  \A n \in Of(h, "MANIFEST") : MayManifest(SubSeq(h, 1, n - 1), h[n].batch, h[n].executions)
=============================================================================
