---------------------------- MODULE ContinuousGate ----------------------------
(***************************************************************************)
(* Production runs that request official pages under revocable continuous  *)
(* authorizations, and operators who issue, revoke, recover and revise     *)
(* meanwhile, all through one branch of a git remote                       *)
(* (lib/production-persistence/continuous-request-gate.ts,                 *)
(* git-source-registry-persistence.ts,                                     *)
(* zero-cost-production-composition-root.ts).                              *)
(*                                                                         *)
(* There is no lock server.  A run reserves a request by committing a      *)
(* RESERVE record on its own checkout and pushing it; the push succeeds    *)
(* only if the remote branch is still where the checkout started.  The     *)
(* gate the documentation promises (one request in the world at a time,    *)
(* under an authority nobody changes meanwhile, at the granted cadence) is *)
(* to follow from that compare-and-swap and from the rules of the ledger.  *)
(***************************************************************************)
EXTENDS ContinuousRecords

CONSTANTS
  Operator,    \* human operators and registry scripts
  EffectiveFrom, \* the effective times an issue command may ask for
  Skew,        \* the most a process's clock reading differs from real time
  MaxTime,     \* bound: the clock stops here
  MaxCommits   \* bound: operators stop changing a history of this length

ASSUME OperatorAssumption == Operator \cap Executor = {}
ASSUME EffectiveFromAssumption == EffectiveFrom \subseteq Nat
ASSUME BoundAssumption == Skew \in Nat /\ MaxTime \in Nat /\ MaxCommits \in Nat

Process == Executor \cup Operator

VARIABLES
  remote,   \* the history of the authoritative branch
  base,     \* base[p]: the history of p's checkout, its loaded head
  staged,   \* staged[p]: the commit p has made on its checkout and not pushed
  pc,       \* pc[p]: where p is
  tries,    \* tries[e]: attempts run e has drawn so far
  clock,    \* real time
  sends     \* every request that left a run, with the time it left

vars == <<remote, base, staged, pc, tries, clock, sends>>

NoCommit == [kind |-> "NONE"]

ExecutorState == {"idle", "declaring", "ready", "reserving", "reserved",
                  "verified", "sending", "closing", "settling", "done", "stopped"}
OperatorState == {"idle", "staged"}

\* The attempt run e is busy with.
Current(e) == <<e, tries[e]>>

\* What new Date() may return now.
Reading == (clock - Skew .. clock + Skew) \cap Time

Init ==
  /\ remote = <<>>
  /\ base = [p \in Process |-> <<>>]
  /\ staged = [p \in Process |-> NoCommit]
  /\ pc = [p \in Process |-> "idle"]
  /\ tries = [e \in Executor |-> 0]
  /\ clock = 0
  /\ sends = {}

-----------------------------------------------------------------------------
(* Checkouts and the branch.                                               *)

\* assertAuthoritativeHead: the remote head is the head this process loaded.
Authoritative(p) == remote = base[p]

\* Variant: a forced push replaces whatever the branch holds.
PushForced(p) ==
  /\ remote' = Append(base[p], staged[p])
  /\ staged' = [staged EXCEPT ![p] = NoCommit]

\* Variant: a push that meets a moved branch rebases onto it.
PushRebased(p) ==
  /\ remote' = Append(remote, staged[p])
  /\ staged' = [staged EXCEPT ![p] = NoCommit]

\* git push of the staged commit: accepted only as a fast-forward of the base
\* it was made on.
Push(p) ==
  /\ remote = base[p]
  /\ remote' = Append(base[p], staged[p])
  /\ staged' = [staged EXCEPT ![p] = NoCommit]

Goto(p, s) == pc' = [pc EXCEPT ![p] = s]

\* The process lets go of its temporary checkout.
Discard(p) ==
  /\ base' = [base EXCEPT ![p] = <<>>]
  /\ staged' = [staged EXCEPT ![p] = NoCommit]

-----------------------------------------------------------------------------
(* A production run.                                                       *)

\* A run clones the branch and, when it has a plan whose intent is not
\* committed yet, commits that intent; nothing here looks for a pending
\* attempt.
CloneRemote(e) ==
  /\ pc[e] = "idle"
  /\ base' = [base EXCEPT ![e] = remote]
  /\ \/ /\ staged' = [staged EXCEPT ![e] = [kind |-> "INTENT", run |-> e]]
        /\ Goto(e, "declaring")
     \/ /\ Goto(e, "ready")
        /\ UNCHANGED staged
  /\ UNCHANGED <<remote, tries, clock, sends>>

PushIntent(e) ==
  /\ pc[e] = "declaring"
  /\ Push(e)
  /\ base' = [base EXCEPT ![e] = remote']
  /\ Goto(e, "ready")
  /\ UNCHANGED <<tries, clock, sends>>

\* The reservation of a request under authorization a at reading t, granted
\* by commit i of the checkout.
Reservation(e, a, t, i) ==
  [kind |-> "RESERVE", auth |-> a, attempt |-> <<e, tries[e] + 1>>,
   target |-> TargetOf[a], at |-> t, interval |-> base[e][i].interval]

\* Variant: a run that commits its reservation unvalidated, and beyond its
\* budget.
ReserveUnvalidated(e) ==
  /\ pc[e] = "ready"
  /\ Authoritative(e)
  /\ \E a \in Authorization, t \in Reading :
       \E i \in CurrentGrant(base[e], a) :
         staged' = [staged EXCEPT ![e] = Reservation(e, a, t, i)]
  /\ tries' = [tries EXCEPT ![e] = @ + 1]
  /\ Goto(e, "reserving")
  /\ UNCHANGED <<remote, base, clock, sends>>

Reserve(e) ==
  /\ pc[e] = "ready"
  /\ tries[e] < MaxAttempts
  /\ Authoritative(e)
  /\ \E a \in Authorization, t \in Reading :
       \E i \in CurrentGrant(base[e], a) :
         /\ ReserveAllowed(base[e], Reservation(e, a, t, i))
         /\ staged' = [staged EXCEPT ![e] = Reservation(e, a, t, i)]
  /\ tries' = [tries EXCEPT ![e] = @ + 1]
  /\ Goto(e, "reserving")
  /\ UNCHANGED <<remote, base, clock, sends>>

PushReserve(e) ==
  /\ pc[e] = "reserving"
  /\ Push(e)
  /\ base' = [base EXCEPT ![e] = remote']
  /\ Goto(e, "reserved")
  /\ UNCHANGED <<tries, clock, sends>>

\* The last look at the remote before the request leaves.
VerifyHead(e) ==
  /\ pc[e] = "reserved"
  /\ Authoritative(e)
  /\ Goto(e, "verified")
  /\ UNCHANGED <<remote, base, staged, tries, clock, sends>>

\* The request leaves; nothing re-reads the remote since VerifyHead.
Send(e) ==
  /\ pc[e] = "verified"
  /\ LET r == base[e][Len(base[e])]
     IN  sends' = sends \cup {[attempt |-> r.attempt, target |-> r.target,
                               interval |-> r.interval, time |-> clock]}
  /\ Goto(e, "sending")
  /\ UNCHANGED <<remote, base, staged, tries, clock>>

\* The closing of the checkout's pending reservation.
ClosingOf(r, t, kind, outcome) ==
  [kind |-> kind, attempt |-> r.attempt, target |-> r.target, at |-> t,
   interval |-> r.interval, outcome |-> outcome]

\* The response has come; the run reloads its checkout and closes with the
\* response's status.
Close(e) ==
  /\ pc[e] = "sending"
  /\ Authoritative(e)
  /\ \E t \in Reading, status \in {"SUCCESS", "FAILED"} :
       LET c == ClosingOf(base[e][Len(base[e])], t, "COMPLETE", status)
       IN  /\ CloseRule(base[e], c)
           /\ c.attempt = Current(e)
           /\ staged' = [staged EXCEPT ![e] = c]
  /\ Goto(e, "closing")
  /\ UNCHANGED <<remote, base, tries, clock, sends>>

PushClose(e) ==
  /\ pc[e] = "closing"
  /\ Push(e)
  /\ base' = [base EXCEPT ![e] = remote']
  /\ Goto(e, "ready")
  /\ UNCHANGED <<tries, clock, sends>>

\* The run makes no further request and has an outcome to commit: the squash
\* of all it wrote since its base, none of it a record.
Settle(e) ==
  /\ pc[e] = "ready"
  /\ staged' = [staged EXCEPT ![e] = [kind |-> "OUTCOME", run |-> e]]
  /\ Goto(e, "settling")
  /\ UNCHANGED <<remote, base, tries, clock, sends>>

PushOutcome(e) ==
  /\ pc[e] = "settling"
  /\ Push(e)
  /\ base' = [base EXCEPT ![e] = <<>>]
  /\ Goto(e, "done")
  /\ UNCHANGED <<tries, clock, sends>>

\* The run ends without an outcome to commit.
Finish(e) ==
  /\ pc[e] = "ready"
  /\ Goto(e, "done")
  /\ Discard(e)
  /\ UNCHANGED <<remote, tries, clock, sends>>

Halt(e) ==
  /\ Goto(e, "stopped")
  /\ Discard(e)
  /\ UNCHANGED <<remote, tries, clock, sends>>

\* Variant: a run whose response finds the branch moved waits for it.
StaleHeadPatient(e) ==
  /\ pc[e] \in {"declaring", "ready", "reserving", "reserved", "closing", "settling"}
  /\ ~Authoritative(e)
  /\ Halt(e)

\* Somebody else moved the branch: each of these states is followed by a
\* comparison of heads (or by a push) that fails and throws.
StaleHead(e) ==
  /\ pc[e] \in {"declaring", "ready", "reserving", "reserved", "sending", "closing", "settling"}
  /\ ~Authoritative(e)
  /\ Halt(e)

\* The chosen request is not admitted: revoked, not effective, too early,
\* bound to an older source revision, or behind a pending attempt.
DenyReserve(e) ==
  /\ pc[e] = "ready"
  /\ tries[e] < MaxAttempts
  /\ \E a \in Authorization, t \in Reading :
       \A i \in CurrentGrant(base[e], a) :
         ~ReserveAllowed(base[e], Reservation(e, a, t, i))
  /\ Halt(e)

\* The run's clock reads earlier than its own reservation.
DenyClose(e) ==
  /\ pc[e] = "sending"
  /\ \E t \in Reading :
       ~CloseRule(base[e], ClosingOf(base[e][Len(base[e])], t, "COMPLETE", "FAILED"))
  /\ Halt(e)

\* The process dies, its job is cancelled or times out, or a request or a
\* push throws though it took effect.
Crash(e) ==
  /\ pc[e] \notin {"idle", "done", "stopped"}
  /\ Halt(e)

\* The acknowledgement of a push that took effect is lost.
LoseAck(e) ==
  /\ pc[e] \in {"declaring", "reserving", "closing", "settling"}
  /\ remote = base[e]
  /\ remote' = Append(base[e], staged[e])
  /\ Goto(e, "stopped")
  /\ Discard(e)
  /\ UNCHANGED <<tries, clock, sends>>

ExecutorStep(e) ==
  \/ CloneRemote(e) \/ PushIntent(e)
  \/ Reserve(e) \/ PushReserve(e) \/ VerifyHead(e) \/ Send(e)
  \/ Close(e) \/ PushClose(e) \/ Settle(e) \/ PushOutcome(e) \/ Finish(e)
  \/ StaleHead(e) \/ DenyReserve(e) \/ DenyClose(e)

-----------------------------------------------------------------------------
(* An operator's command: a fresh clone, one commit, one push.             *)

Stage(o, c) ==
  /\ pc[o] = "idle"
  /\ Len(remote) < MaxCommits
  /\ base' = [base EXCEPT ![o] = remote]
  /\ staged' = [staged EXCEPT ![o] = c]
  /\ Goto(o, "staged")
  /\ UNCHANGED <<remote, tries, clock, sends>>

Issue(o) ==
  \E a \in Authorization, n \in 0 .. Len(remote), m \in Interval, t \in EffectiveFrom :
    LET c == [kind |-> "GRANT", auth |-> a, binding |-> n, interval |-> m, from |-> t]
    IN  IssueAllowed(remote, c) /\ Stage(o, c)

Revoke(o) ==
  \E a \in Authorization, t \in Reading :
    LET c == [kind |-> "REVOKE", auth |-> a, at |-> t]
    IN  RevokeRule(remote, c) /\ Stage(o, c)

\* Variant: a recovery that trusts its command.
FencedUnchecked(x) == x \in Attempt

\* The fencing evidence the verifier accepts shows that the executor of the
\* attempt has ended before the closing's time.
Fenced(x) == pc[x[1]] = "stopped"

Recover(o) ==
  \E i \in Open(remote), t \in Reading :
    LET c == ClosingOf(remote[i], t, "RECOVER", "FENCED_UNKNOWN")
    IN  /\ CloseRule(remote, c)
        /\ Fenced(c.attempt)
        /\ Stage(o, c)

Revise(o) ==
  \E s \in Source, u \in BOOLEAN :
    LET c == [kind |-> "VERSION", source |-> s, usable |-> u]
    IN  VersionAllowed(remote, c) /\ Stage(o, c)

PushCommand(o) ==
  /\ pc[o] = "staged"
  /\ Push(o)
  /\ base' = [base EXCEPT ![o] = <<>>]
  /\ Goto(o, "idle")
  /\ UNCHANGED <<tries, clock, sends>>

\* The compare-and-swap fails, or the command dies before its push.
DropCommand(o) ==
  /\ pc[o] = "staged"
  /\ Goto(o, "idle")
  /\ Discard(o)
  /\ UNCHANGED <<remote, tries, clock, sends>>

OperatorStep(o) ==
  Issue(o) \/ Revoke(o) \/ Recover(o) \/ Revise(o) \/ PushCommand(o) \/ DropCommand(o)

Tick ==
  /\ clock < MaxTime
  /\ clock' = clock + 1
  /\ UNCHANGED <<remote, base, staged, pc, tries, sends>>

-----------------------------------------------------------------------------
Next ==
  \/ \E e \in Executor : ExecutorStep(e) \/ Crash(e) \/ LoseAck(e)
  \/ \E o \in Operator : OperatorStep(o)
  \/ Tick

Spec == Init /\ [][Next]_vars

\* A run that is alive goes on to its next step: every wait in it is a git
\* command or a fetch with a time limit.  Nobody promises an operator's
\* command, a crash or the passing of time.
Fairness == \A e \in Executor : WF_vars(ExecutorStep(e))

FairSpec == Spec /\ Fairness

-----------------------------------------------------------------------------
(* What is to be checked.                                                  *)

\* Every variable has its type; a staged commit is a commit of the ledger.
TypeOK ==
  /\ remote \in History
  /\ base \in [Process -> History]
  /\ staged \in [Process -> Commit \cup {NoCommit}]
  /\ pc \in [Process -> ExecutorState \cup OperatorState]
  /\ \A e \in Executor : pc[e] \in ExecutorState
  /\ \A o \in Operator : pc[o] \in OperatorState
  /\ tries \in [Executor -> 0 .. MaxAttempts]
  /\ clock \in Nat
  /\ sends \subseteq [attempt : Attempt, target : Target, interval : Interval, time : Nat]

\* A run from its reservation's push until its closing's push.
Holding == {"reserved", "verified", "sending", "closing"}

\* While a run holds, its attempt is the one open reservation of the branch:
\* no other run reserved and nobody closed it under the run's feet, although
\* the run does not look at the remote between VerifyHead and its closing
\* (executeContinuousRequest, after assertAuthoritativeHead).
SendHoldsGate ==
  \A e \in Executor : pc[e] \in Holding =>
    /\ \E i \in Open(remote) : remote[i].attempt = Current(e)
    /\ \A i \in Open(remote) : remote[i].attempt = Current(e)

\* As long as a reservation is open, the authority it was made under stands:
\* not revoked, the same grant current, the source's versions those the grant
\* was issued for and still usable.  No command looks for running requests;
\* the pending-attempt guards and the compare-and-swap have to suffice
\* (PENDING_GATE_DENIED in issue, revoke and appendVersion).
AuthorityFrozen ==
  \A i \in Open(remote) :
    LET a == remote[i].auth
    IN  /\ ~Revoked(remote, a)
        /\ Usable(remote, SourceOf[a])
        /\ \A g \in CurrentGrant(remote, a) :
             /\ g < i
             /\ remote[g].interval = remote[i].interval
             /\ IsBinding(remote, SourceOf[a], remote[g].binding)

Gap(s, t) == IF s.time > t.time THEN s.time - t.time ELSE t.time - s.time

\* Two requests of one target leave at least the longer of their granted
\* intervals apart in real time, up to what the clocks of the machines
\* differ: through re-issued grants, another run or authorization, failures
\* and recoveries alike (reserveContinuousRecord's cadence, which compares
\* recorded closing times and never sees when a request left).
CadenceRespected ==
  \A s, t \in sends : s # t /\ s.target = t.target =>
    /\ Gap(s, t) >= s.interval - 2 * Skew
    /\ Gap(s, t) >= t.interval - 2 * Skew

\* The records on the branch replay: a history that some process pushed can
\* be loaded by every other, so no interleaving of commands leaves a branch
\* that all later runs refuse (replayContinuousRecords in the constructor of
\* GitSourceRegistryPersistence).
RemoteReplays == Replayable(remote)

\* The branch only grows by whole commits on top of what was there: a push
\* never discards a record another process has pushed
\* (publishContinuousRecord, control, publishSupportingInspectionClaim).
HistoryGrows ==
  [][ /\ Len(remote') = Len(remote) + 1
      /\ SubSeq(remote', 1, Len(remote)) = remote ]_remote

\* An attempt that holds the gate is closed or its run has stopped: no run
\* waits forever with the gate in its hands, whatever the others do
\* (executeContinuousRequest; a stopped run's attempt waits for recovery).
GateSettles ==
  \A x \in Attempt :
    (\E i \in Open(remote) : remote[i].attempt = x)
      ~> (IsClosed(remote, x) \/ pc[x[1]] = "stopped")

\* The gate the ledger implements: who holds it is read off the branch.
Gate == INSTANCE ExclusiveGate WITH
  holder <- {remote[i].attempt : i \in Open(remote)},
  used <- {remote[i].attempt : i \in {j \in DOMAIN remote : remote[j].kind = "RESERVE"}},
  sent <- {s.attempt : s \in sends}

\* Every behaviour of runs and operators, crashes, stale heads and lost
\* acknowledgements included, is a behaviour of the exclusive gate.
ImplementsGate == Gate!Spec
=============================================================================
