--------------------------- MODULE SchedulerBatch ---------------------------
(***************************************************************************)
(* Scheduler batches (lib/production-persistence/                          *)
(* production-scheduler-batch.ts), with the source executions each of them *)
(* starts (zero-cost-production-composition-root.ts) and the manifest it   *)
(* appends at its end (scheduler-batch-manifest.ts), run by several        *)
(* processes and interfered with by operators, all of them through         *)
(* compare-and-swap on one production branch.                              *)
(*                                                                         *)
(* The request gate itself is ContinuousGate's; here one push stands for a *)
(* reservation and one for its closing.  What is added is what a batch     *)
(* makes of a run that fails: whether it repeats it, defers it, or gives   *)
(* up.                                                                     *)
(***************************************************************************)
EXTENDS SourceExecutions

CONSTANTS
  Runner,     \* processes that run batches, one at a time each
  NoBatch,    \* the batch of a process that runs none
  Pasts,      \* branches earlier batches may have left, each with the time by now
  MaxTime,    \* bound: the clock stops here
  MaxStarts,  \* bound: batch runs started, repetitions included
  MaxExecutions, \* bound: source executions started
  MaxIncidents   \* bound: revocations, crashes, lost acknowledgements and other failures

ASSUME NoBatchAssumption == NoBatch \notin Batch
ASSUME PastsAssumption ==
  /\ Pasts \subseteq [branch : Seq(Commit), clock : 0 .. MaxTime]
  /\ \A p \in Pasts :
       /\ \A i \in Closings(p.branch) : p.branch[i].at <= p.clock
       /\ ClosesEarlier(p.branch) /\ BindsOnce(p.branch) /\ ManifestsStand(p.branch)
ASSUME BoundAssumption ==
  {MaxTime, MaxStarts, MaxExecutions, MaxIncidents} \subseteq Nat

VARIABLES
  branch,  \* the commits of the production branch
  run,     \* run[r]: the batch run of process r
  clock,   \* now()
  used     \* batch runs started and incidents so far

vars == <<branch, run, clock, used>>

\* Where a batch run is: at selection; at a group of one endpoint's targets,
\* and there in its execution (from "declaring" to "confirming") or after its
\* failure; at its manifest.
Executing == {"declaring", "collecting", "reserved", "answered", "concluding",
              "confirming"}
RunState == {"idle", "selecting", "choosing", "failed", "refreshing",
             "resolving", "appending"} \cup Executing

Blank(b) == [pc |-> "idle", batch |-> b, base |-> 0, recovered |-> {}, committed |-> {},
             deferred |-> {}, todo |-> {}, group |-> {}, next |-> 1, captured |-> {},
             again |-> FALSE, conflict |-> FALSE]

Init ==
  /\ \E p \in Pasts : branch = p.branch /\ clock = p.clock
  /\ run = [r \in Runner |-> Blank(NoBatch)]
  /\ used = [starts |-> 0, executions |-> 0, incidents |-> 0]

\* The branch as the checkout of r, or the state it restored, has it.
View(r) == SubSeq(branch, 1, run[r].base)
Moved(r) == Len(branch) # run[r].base

At(r, s) == run[r].pc = s
Become(r, t) == run' = [run EXCEPT ![r] = t]

\* The batch run between two groups: it keeps what it has recovered, committed
\* and deferred and what is left to do.
Between(r) ==
  [Blank(run[r].batch) EXCEPT !.pc = "choosing", !.recovered = run[r].recovered,
                             !.committed = run[r].committed, !.deferred = run[r].deferred,
                             !.todo = run[r].todo]

\* Variant: the process remembers the batch it has run.
EndRemembering(r) == Become(r, Blank(run[r].batch))

\* The batch run ends, by a result, an exception or the death of its process.
End(r) == Become(r, Blank(NoBatch))

\* Something happens that need not have.
Incident ==
  /\ used.incidents < MaxIncidents
  /\ used' = [used EXCEPT !.incidents = @ + 1]

-----------------------------------------------------------------------------
(* A batch starts and selects.                                             *)

\* Restore; a manifest of this batch is the result, an unsettled execution an
\* exception.  recoveredOutcomes are found in the same state.
StartBatch(r) ==
  /\ At(r, "idle")
  /\ used.starts < MaxStarts
  /\ used' = [used EXCEPT !.starts = @ + 1]
  /\ ~Unsettled(branch)
  /\ \E b \in Batch :
       /\ ManifestsOf(branch, b) = {}
       /\ Become(r, [Blank(b) EXCEPT !.pc = "selecting", !.base = Len(branch),
                                    !.recovered = Recovered(branch, b),
                                    !.committed = Recovered(branch, b)])
  /\ UNCHANGED <<branch, clock>>

\* recoveredAuthorizationIds
RecoveredAuths(r) == UNION run[r].recovered

\* Variant: what the batch has recovered is deferred as well.
NewlyDeferredAll(r) == Deferred(branch, clock)

\* An authorization whose outcome has been recovered is not deferred.
NewlyDeferred(r) == Deferred(branch, clock) \ RecoveredAuths(r)

\* committedSelection, in a checkout of its own.  Its head may have moved since
\* the restoration, and then nothing may be deferred.
Select(r) ==
  /\ At(r, "selecting")
  /\ ~(Moved(r) /\ Deferred(branch, clock) # {})
  /\ Become(r, [Between(r) EXCEPT
       !.deferred = NewlyDeferred(r),
       !.todo = Groups(Eligible(branch, clock))])
  /\ UNCHANGED <<branch, clock, used>>

RefuseSelection(r) ==
  /\ At(r, "selecting")
  /\ Moved(r) /\ Deferred(branch, clock) # {}
  /\ End(r)
  /\ UNCHANGED <<branch, clock, used>>

-----------------------------------------------------------------------------
(* A batch takes the groups one by one, in the order of their ids.         *)

NextGroup(r) == CHOOSE g \in run[r].todo : TRUE

Choosing(r) == At(r, "choosing") /\ run[r].todo # {}

\* A group whose outcome the batch has recovered.
SkipRecovered(r) ==
  /\ Choosing(r)
  /\ NextGroup(r) \subseteq RecoveredAuths(r)
  /\ Become(r, [run[r] EXCEPT !.todo = @ \ {NextGroup(r)}])
  /\ UNCHANGED <<branch, clock, used>>

\* SCHEDULER_PARTIAL_GROUP_RECOVERY_DENIED
RefusePartial(r) ==
  /\ Choosing(r)
  /\ NextGroup(r) \cap RecoveredAuths(r) \notin {{}, NextGroup(r)}
  /\ End(r)
  /\ UNCHANGED <<branch, clock, used>>

\* ADAPTER_UNAVAILABLE: whether the deployment has an adapter for an endpoint
\* is not the branch's affair.
DeferUnadapted(r) ==
  /\ Choosing(r)
  /\ NextGroup(r) \cap RecoveredAuths(r) = {}
  /\ Become(r, [run[r] EXCEPT !.todo = @ \ {NextGroup(r)}, !.deferred = @ \cup NextGroup(r)])
  /\ UNCHANGED <<branch, clock, used>>

\* The source execution r is busy with.
Current(r) == [batch |-> run[r].batch, auths |-> run[r].group]

\* root.run clones, plans all of the endpoint's targets and has an intent with
\* these targets on the branch before it requests any.
Cloned(r, g) ==
  [run[r] EXCEPT
     !.pc = IF Declared(branch, [batch |-> run[r].batch, auths |-> g])
              THEN "collecting" ELSE "declaring",
     !.base = Len(branch), !.todo = @ \ {g}, !.group = g, !.next = 1,
     !.captured = {}]

Start ==
  /\ used.executions < MaxExecutions
  /\ used' = [used EXCEPT !.executions = @ + 1]

Execute(r) ==
  /\ Choosing(r)
  /\ NextGroup(r) \cap RecoveredAuths(r) = {}
  /\ Start
  /\ Become(r, Cloned(r, NextGroup(r)))
  /\ UNCHANGED <<branch, clock>>

-----------------------------------------------------------------------------
(* One source execution.                                                   *)

\* The requests follow the plan, whether or not their authorization is one of
\* the group's.
Targets(r) == Plan[EndpointOf(run[r].group)]
Target(r) == Targets(r)[run[r].next]
Exhausted(r) == run[r].next > Len(Targets(r))
MayReserve(r) ==
  /\ ~Exhausted(r)
  /\ Target(r) \in run[r].group
  /\ Reservable(View(r), Target(r), clock)

\* The attempt r has reserved, while its reservation is the head.
Attempt(r) == run[r].base

\* The commit r pushes next.
Staged(r) ==
  CASE At(r, "declaring") -> [kind |-> "INTENT", execution |-> Current(r)]
    [] At(r, "collecting") -> [kind |-> "RESERVE", auth |-> Target(r)]
    [] At(r, "answered") -> [kind |-> "COMPLETE", attempt |-> Attempt(r),
                             at |-> clock]
    [] At(r, "concluding") -> [kind |-> "OUTCOME", execution |-> Current(r),
                               attempts |-> run[r].captured]

\* Variant: an outcome is rebased onto whatever the branch holds.
AcceptRebased(r) ==
  /\ ~Moved(r) \/ At(r, "concluding")
  /\ branch' = Append(branch, Staged(r))

\* The remote takes a commit made on its head and no other.
Accept(r) ==
  /\ ~Moved(r)
  /\ branch' = Append(branch, Staged(r))

Proceed(r, s) ==
  Become(r, [run[r] EXCEPT !.pc = s, !.base = Len(branch) + 1])

\* The run ends without a commit it knows of; conflict tells whether the batch
\* reads its error as a lost compare-and-swap.
Failing(r, conflict) ==
  Become(r, [Between(r) EXCEPT !.pc = "failed", !.group = run[r].group,
                               !.again = run[r].again, !.conflict = conflict])

PushIntent(r) ==
  /\ At(r, "declaring")
  /\ Accept(r)
  /\ Proceed(r, "collecting")
  /\ UNCHANGED <<clock, used>>

PushReserve(r) ==
  /\ At(r, "collecting")
  /\ MayReserve(r)
  /\ Accept(r)
  /\ Proceed(r, "reserved")
  /\ UNCHANGED <<clock, used>>

\* The head is compared once more and the request is sent.
Send(r) ==
  /\ At(r, "reserved")
  /\ ~Moved(r)
  /\ Become(r, [run[r] EXCEPT !.pc = "answered"])
  /\ UNCHANGED <<branch, clock, used>>

FindMoved(r) ==
  /\ At(r, "reserved")
  /\ Moved(r)
  /\ Failing(r, TRUE)
  /\ UNCHANGED <<branch, clock, used>>

\* SEND_STATE_UNKNOWN: the attempt stays pending.
FailSend(r) ==
  /\ At(r, "reserved")
  /\ Incident
  /\ Failing(r, FALSE)
  /\ UNCHANGED <<branch, clock>>

PushClose(r) ==
  /\ At(r, "answered")
  /\ Accept(r)
  /\ Become(r, [run[r] EXCEPT !.pc = "collecting", !.base = Len(branch) + 1,
                              !.next = @ + 1, !.captured = @ \cup {Attempt(r)}])
  /\ UNCHANGED <<clock, used>>

\* Every target has been requested.
Conclude(r) ==
  /\ At(r, "collecting")
  /\ Exhausted(r)
  /\ Become(r, [run[r] EXCEPT !.pc = "concluding"])
  /\ UNCHANGED <<branch, clock, used>>

\* A request is denied before it is reserved.  The requests captured so far
\* make a failed collection; without any the run fails.
Deny(r) ==
  /\ At(r, "collecting")
  /\ ~Exhausted(r) /\ ~MayReserve(r)
  /\ ~Moved(r)
  /\ IF run[r].captured # {}
       THEN Become(r, [run[r] EXCEPT !.pc = "concluding"])
       ELSE Failing(r, FALSE)
  /\ UNCHANGED <<branch, clock, used>>

\* The outcome file may not exist with other bytes.
PushOutcome(r) ==
  /\ At(r, "concluding")
  /\ OutcomesOf(View(r), Current(r)) = {}
  /\ Accept(r)
  /\ Proceed(r, "confirming")
  /\ UNCHANGED <<clock, used>>

Collide(r) ==
  /\ At(r, "concluding")
  /\ OutcomesOf(View(r), Current(r)) # {}
  /\ Failing(r, FALSE)
  /\ UNCHANGED <<branch, clock, used>>

Pushing(r) ==
  \/ run[r].pc \in {"declaring", "answered", "concluding"}
  \/ At(r, "collecting") /\ ~Exhausted(r) /\ (Moved(r) \/ MayReserve(r))

\* When a closing fails, an earlier answer of the same execution makes the run
\* try its outcome on a head it knows to be old.
Captures(r) == At(r, "answered") /\ run[r].captured # {}

\* The head has moved: a comparison finds it, or, after the last comparison,
\* the push is rejected, which the batch does not read as a conflict.
LosePush(r) ==
  /\ Pushing(r)
  /\ Moved(r)
  /\ \E conflict \in BOOLEAN : Failing(r, conflict \/ Captures(r))
  /\ UNCHANGED <<branch, clock, used>>

FailPush(r) ==
  /\ Pushing(r)
  /\ ~Moved(r)
  /\ Incident
  /\ Failing(r, Captures(r))
  /\ UNCHANGED <<branch, clock>>

\* A push takes effect and its run does not learn of it.
LoseAck(r) ==
  /\ Pushing(r) /\ ~At(r, "concluding")
  /\ Accept(r)
  /\ Incident
  /\ Failing(r, Captures(r))
  /\ UNCHANGED clock

\* The run reads the remote head back, and believes its outcome committed if
\* it is that; it does not if the read fails or somebody has pushed since.
Confirm(r) ==
  /\ At(r, "confirming")
  /\ ~Moved(r)
  /\ Become(r, [Between(r) EXCEPT !.committed = @ \cup {run[r].group}])
  /\ UNCHANGED <<branch, clock, used>>

FailConfirm(r) ==
  /\ At(r, "confirming")
  /\ IF Moved(r) THEN UNCHANGED used ELSE Incident
  /\ Failing(r, FALSE)
  /\ UNCHANGED <<branch, clock>>

-----------------------------------------------------------------------------
(* What the batch makes of an execution that failed.                       *)

\* After a lost compare-and-swap: the outcome may be there.
FindOutcome(r) ==
  /\ At(r, "failed")
  /\ run[r].conflict /\ ~run[r].again
  /\ IF OutcomesOf(branch, Current(r)) # {}
       THEN Become(r, [Between(r) EXCEPT !.committed = @ \cup {run[r].group}])
       ELSE Become(r, [run[r] EXCEPT !.pc = "refreshing"])
  /\ UNCHANGED <<branch, clock, used>>

\* If all of the group may still be requested, the execution is run again,
\* once; otherwise the batch ends.
ExecuteAgain(r) ==
  /\ At(r, "refreshing")
  /\ run[r].group \subseteq Eligible(branch, clock)
  /\ Start
  /\ Become(r, [Cloned(r, run[r].group) EXCEPT !.again = TRUE])
  /\ UNCHANGED <<branch, clock>>

RefuseAgain(r) ==
  /\ At(r, "refreshing")
  /\ ~(run[r].group \subseteq Eligible(branch, clock))
  /\ End(r)
  /\ UNCHANGED <<branch, clock, used>>

\* CAS_DEFERRED, after the second execution
GiveUp(r) ==
  /\ At(r, "failed")
  /\ run[r].conflict /\ run[r].again
  /\ End(r)
  /\ UNCHANGED <<branch, clock, used>>

\* Any other failure: the first authorization of the group that may not be
\* requested now is deferred in its stead.
DeferBlocked(r) ==
  /\ At(r, "failed")
  /\ ~run[r].conflict
  /\ \E a \in run[r].group \cap Deferred(branch, clock) :
       Become(r, [Between(r) EXCEPT !.deferred = @ \cup {a}])
  /\ UNCHANGED <<branch, clock, used>>

\* SCHEDULER_SOURCE_NOT_COMMITTED
RefuseFailed(r) ==
  /\ At(r, "failed")
  /\ ~run[r].conflict
  /\ run[r].group \cap Deferred(branch, clock) = {}
  /\ End(r)
  /\ UNCHANGED <<branch, clock, used>>

-----------------------------------------------------------------------------
(* The manifest.                                                           *)

FinishGroups(r) ==
  /\ At(r, "choosing")
  /\ run[r].todo = {}
  /\ Become(r, [run[r] EXCEPT !.pc = "resolving"])
  /\ UNCHANGED <<branch, clock, used>>

Apart(S) == \A g, f \in S : g # f => g \cap f = {}

\* sealSchedulerBatchManifest: no authorization may occur twice.
Sealable(r) ==
  /\ Apart(run[r].committed)
  /\ (UNION run[r].committed) \cap run[r].deferred = {}

\* Each committed execution has an outcome.
Resolved(r) ==
  \A g \in run[r].committed :
    OutcomesOf(branch, [batch |-> run[r].batch, auths |-> g]) # {}

\* Restore again; the manifest is sealed for the head found.
Resolve(r) ==
  /\ At(r, "resolving")
  /\ ~Unsettled(branch)
  /\ ManifestsOf(branch, run[r].batch) = {}
  /\ Resolved(r) /\ Sealable(r)
  /\ Become(r, [run[r] EXCEPT !.pc = "appending", !.base = Len(branch)])
  /\ UNCHANGED <<branch, clock, used>>

\* Somebody's manifest of the batch is the result; otherwise an exception.
EndUnresolved(r) ==
  /\ At(r, "resolving")
  /\ \/ Unsettled(branch)
     \/ ManifestsOf(branch, run[r].batch) # {}
     \/ ~(Resolved(r) /\ Sealable(r))
  /\ End(r)
  /\ UNCHANGED <<branch, clock, used>>

Manifest(r) ==
  [kind |-> "MANIFEST", batch |-> run[r].batch,
   executions |-> run[r].committed, deferred |-> run[r].deferred]

\* SCHEDULER_BATCH_CAS_CONFLICT: once more from Resolve, or the end.
Conflict(r) ==
  IF run[r].again
    THEN End(r)
    ELSE Become(r, [run[r] EXCEPT !.pc = "resolving", !.again = TRUE])

\* Variant: the manifest goes onto whatever the head is.
AppendManifestAnywhere(r) ==
  /\ At(r, "appending")
  /\ ManifestsOf(branch, run[r].batch) = {}
  /\ branch' = Append(branch, Manifest(r))
  /\ End(r)
  /\ UNCHANGED <<clock, used>>

\* appendSchedulerBatchManifest, on the head the manifest is sealed for.
AppendManifest(r) ==
  /\ At(r, "appending")
  /\ ~Moved(r)
  /\ branch' = Append(branch, Manifest(r))
  /\ End(r)
  /\ UNCHANGED <<clock, used>>

\* The head has moved: SCHEDULER_BATCH_IDENTITY_COLLISION if another manifest
\* of the batch is there.
LoseManifest(r) ==
  /\ At(r, "appending")
  /\ Moved(r)
  /\ IF ManifestsOf(branch, run[r].batch) # {} THEN End(r) ELSE Conflict(r)
  /\ UNCHANGED <<branch, clock, used>>

\* The push is reported as failed, rightly or not.
FailManifest(r) ==
  /\ At(r, "appending")
  /\ ~Moved(r)
  /\ Incident
  /\ branch' \in {branch, Append(branch, Manifest(r))}
  /\ Conflict(r)
  /\ UNCHANGED clock

-----------------------------------------------------------------------------
(* The environment.                                                        *)

\* The process ends; its reservation, if any, stays.
Crash(r) ==
  /\ ~At(r, "idle")
  /\ Incident
  /\ End(r)
  /\ UNCHANGED <<branch, clock>>

\* An operator's records go on the branch in one step: what he commits on a
\* head that has moved is not accepted.
Revoke ==
  /\ Open(branch) = {}
  /\ \E a \in Authorization :
       /\ ~Revoked(branch, a)
       /\ branch' = Append(branch, [kind |-> "REVOKE", auth |-> a])
  /\ Incident
  /\ UNCHANGED <<run, clock>>

\* A pending attempt is recovered once nobody is left who could send it.
Fenced(i) == \A r \in Runner : run[r].pc \in {"reserved", "answered"} => Attempt(r) # i

Recover ==
  /\ \E i \in Open(branch) :
       /\ Fenced(i)
       /\ branch' = Append(branch, [kind |-> "RECOVER", attempt |-> i, at |-> clock])
  /\ UNCHANGED <<run, clock, used>>

\* The outcome prepareEvidenceLossRecovery returns is committed.
RecordLoss ==
  /\ \E x \in Execution, i \in Of(branch, "RESERVE") :
       /\ LossRecoverable(branch, x, i)
       /\ branch' = Append(branch, [kind |-> "OUTCOME", execution |-> x, attempts |-> {i}])
  /\ UNCHANGED <<run, clock, used>>

\* Before the first closing the time tells nothing apart.
Tick ==
  /\ clock < MaxTime
  /\ Closings(branch) # {}
  /\ clock' = clock + 1
  /\ UNCHANGED <<branch, run, used>>

Step(r) ==
  \/ Select(r) \/ RefuseSelection(r)
  \/ SkipRecovered(r) \/ RefusePartial(r) \/ DeferUnadapted(r) \/ Execute(r)
  \/ PushIntent(r) \/ PushReserve(r) \/ Send(r) \/ FindMoved(r) \/ FailSend(r) \/ PushClose(r)
  \/ Conclude(r) \/ Deny(r) \/ PushOutcome(r) \/ Collide(r)
  \/ LosePush(r) \/ FailPush(r) \/ LoseAck(r) \/ Confirm(r) \/ FailConfirm(r)
  \/ FindOutcome(r) \/ ExecuteAgain(r) \/ RefuseAgain(r) \/ GiveUp(r)
  \/ DeferBlocked(r) \/ RefuseFailed(r)
  \/ FinishGroups(r) \/ Resolve(r) \/ EndUnresolved(r)
  \/ AppendManifest(r) \/ LoseManifest(r) \/ FailManifest(r)

Next ==
  \/ \E r \in Runner : StartBatch(r) \/ Step(r) \/ Crash(r)
  \/ Revoke \/ Recover \/ RecordLoss
  \/ Tick

Spec == Init /\ [][Next]_vars

-----------------------------------------------------------------------------
(* What is to be checked.                                                  *)

\* Every variable has its type, and a run is inside its batch: its checkout is
\* no longer than the branch, its groups are of one endpoint each.
TypeOK ==
  /\ branch \in Seq(Commit)
  /\ clock \in 0 .. MaxTime
  /\ used \in [starts : 0 .. MaxStarts, executions : 0 .. MaxExecutions,
               incidents : 0 .. MaxIncidents]
  /\ \A r \in Runner :
       /\ run[r].pc \in RunState
       /\ run[r].recovered \subseteq SUBSET Authorization
       /\ run[r].batch \in (IF At(r, "idle") THEN {NoBatch} ELSE Batch)
       /\ run[r].base \in 0 .. Len(branch)
       /\ run[r].committed \subseteq SUBSET Authorization
       /\ run[r].deferred \subseteq Authorization
       /\ \A g \in run[r].todo \cup ({run[r].group} \ {{}}) :
            \E e \in Endpoint : g \subseteq Planned(e)
       /\ run[r].captured \subseteq 1 .. Len(branch)

\* No request is accounted for twice: every attempt is bound by at most one
\* outcome, no execution has two, and an outcome binds only attempts of its
\* own authorizations that were answered before it (readSourceExecutionOutcomes
\* would refuse the branch from then on, and with it every run).
BoundOnce == BindsOnce(branch)

\* A manifest is never stale: below it no attempt is pending, each answered one
\* is bound, its batch has no other manifest and each execution it refers to
\* has its outcome (the manifest is sealed for the head its state was read at
\* and accepted only there).
ManifestSettled == ManifestsStand(branch)

\* What a run is about to seal agrees with the branch and with itself, whatever
\* failed, was repeated or recovered on the way: each execution it refers to has
\* its outcome, no authorization is both executed and deferred, and none is
\* executed twice unless it was in the outcomes the run recovered.  Two runs of
\* one batch may leave such outcomes; assertSchedulerBatchManifest costs every
\* later run of that batch its manifest.
SealAgrees ==
  \A r \in Runner : At(r, "resolving") =>
    /\ Resolved(r)
    /\ (UNION run[r].committed) \cap run[r].deferred = {}
    /\ Apart(run[r].recovered) => Apart(run[r].committed)

\* What stops the scheduling of batches can be resolved: while no batch runs,
\* an attempt is pending, and can be recovered, or the loss of an execution's
\* evidence can be recorded, or the next batch may start.
Resolvable ==
  (\A r \in Runner : At(r, "idle")) /\ Unsettled(branch) =>
    \/ Open(branch) # {}
    \/ \E x \in Execution, i \in Of(branch, "RESERVE") : LossRecoverable(branch, x, i)
=============================================================================
