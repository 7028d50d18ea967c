------------------------ MODULE ContinuousGateSafety ------------------------
(***************************************************************************)
(* The gate's safety theorems.  The argument: a reservation is pushed only *)
(* onto a base without an open one, so one is open at most; a run's        *)
(* attempt is fresh until its push, so nothing on the branch closes it;    *)
(* every other commit that could close it or change the authority it was   *)
(* made under is staged on a base where nothing is open, or by a recovery  *)
(* of a run that has stopped; and a push is refused on any base but the    *)
(* branch itself.                                                          *)
(***************************************************************************)
EXTENDS ContinuousGateProofs

\* The attempts on the branch are those that runs have drawn, and the one a
\* run is about to push is not among them.
AttemptsDrawn ==
  \A i \in DOMAIN remote : remote[i].kind \in {"RESERVE"} \cup Closing =>
    LET x == remote[i].attempt
    IN  /\ x[2] <= tries[x[1]]
        /\ pc[x[1]] = "reserving" => x[2] < tries[x[1]]

OneOpen == \A i, j \in Open(remote) : i = j

\* The part of the inductive invariant that speaks of the branch.
Ledger ==
  /\ AttemptsDrawn
  /\ OneOpen
  /\ SendHoldsGate
  /\ AuthorityFrozen
  /\ RemoteReplays

-----------------------------------------------------------------------------

\* The last member of a set of numbers is one.
LEMMA LastIsOne ==
  ASSUME NEW S \in SUBSET Int, NEW i \in Last(S), NEW j \in Last(S)
  PROVE  i = j
BY DEF Last

\* What is open is on the branch, a reservation, and names an attempt.
LEMMA OpenIsReserve ==
  ASSUME NEW h \in History, NEW i \in Open(h)
  PROVE  /\ i \in DOMAIN h
         /\ h[i] \in ReserveCommit
         /\ h[i].attempt \in Attempt
<1>1. i \in DOMAIN h /\ h[i] \in Commit /\ h[i].kind = "RESERVE"
  BY DEF Open, History
<1> QED BY <1>1, CommitKind, NamesAttempt

\* A step that leaves the branch alone keeps the ledger's part, if nobody
\* begins to hold and whoever gets ready to push a reservation draws anew.
LEMMA QuietStep ==
  ASSUME Hands, Ledger, TypeOK', remote' = remote,
         \A f \in Executor : pc'[f] \in Holding => pc[f] \in Holding /\ tries'[f] = tries[f],
         \A f \in Executor : tries'[f] >= tries[f],
         \A f \in Executor : pc'[f] = "reserving" =>
           (pc[f] = "reserving" /\ tries'[f] = tries[f]) \/ tries'[f] > tries[f]
  PROVE  Ledger'
<1>1. AttemptsDrawn'
  <2> SUFFICES ASSUME NEW i \in DOMAIN remote,
                      remote[i].kind \in {"RESERVE"} \cup Closing
               PROVE  /\ remote[i].attempt[2] <= tries'[remote[i].attempt[1]]
                      /\ pc'[remote[i].attempt[1]] = "reserving" =>
                           remote[i].attempt[2] < tries'[remote[i].attempt[1]]
    BY DEF AttemptsDrawn
  <2> DEFINE x == remote[i].attempt
  <2>1. remote[i] \in Commit
    BY DEF Hands, TypeOK, History
  <2>2. x[1] \in Executor /\ x[2] \in Nat
    BY <2>1, NamesAttempt DEF Attempt
  <2>3. tries[x[1]] \in Nat /\ tries'[x[1]] \in Nat
    BY <2>2, MaxAttemptsAssumption DEF Hands, TypeOK
  <2>4. x[2] <= tries[x[1]] /\ (pc[x[1]] = "reserving" => x[2] < tries[x[1]])
    BY DEF Ledger, AttemptsDrawn
  <2> QED BY <2>2, <2>3, <2>4
<1>2. OneOpen' /\ AuthorityFrozen' /\ RemoteReplays'
  BY DEF Ledger, OneOpen, AuthorityFrozen, RemoteReplays
<1>3. SendHoldsGate'
  BY DEF Ledger, SendHoldsGate, Current
<1> QED BY <1>1, <1>2, <1>3 DEF Ledger

\* Nobody but process p begins or ends anything.
Elsewhere(p) ==
  /\ tries' = tries
  /\ \A f \in Executor \ {p} : pc'[f] = pc[f]

\* After a commit that names an attempt already drawn, or none, the attempts
\* on the branch are still those drawn.
LEMMA StillDrawn ==
  ASSUME Hands, AttemptsDrawn, NEW c \in Commit, remote' = Append(remote, c), tries' = tries,
         \A f \in Executor : pc'[f] = "reserving" => pc[f] = "reserving",
         c.kind \in {"RESERVE"} \cup Closing =>
           /\ c.attempt[2] <= tries[c.attempt[1]]
           /\ pc'[c.attempt[1]] # "reserving"
  PROVE  AttemptsDrawn'
<1> DEFINE g == Append(remote, c)
<1> SUFFICES ASSUME NEW i \in DOMAIN g, g[i].kind \in {"RESERVE"} \cup Closing
             PROVE  /\ g[i].attempt[2] <= tries[g[i].attempt[1]]
                    /\ pc'[g[i].attempt[1]] = "reserving" =>
                         g[i].attempt[2] < tries[g[i].attempt[1]]
  BY DEF AttemptsDrawn
<1>1. remote \in History
  BY DEF Hands, TypeOK
<1>2. CASE i \in DOMAIN remote
  <2>1. g[i] = remote[i] /\ remote[i] \in Commit
    BY <1>1, <1>2, OneMore
  <2>2. remote[i].attempt[1] \in Executor
    BY <2>1, NamesAttempt DEF Attempt
  <2> QED BY <1>2, <2>1, <2>2 DEF AttemptsDrawn
<1>3. CASE i = Len(remote) + 1
  <2>1. g[i] = c
    BY <1>1, <1>3, OneMore
  <2> QED BY <2>1
<1>4. DOMAIN g = DOMAIN remote \cup {Len(remote) + 1}
  BY <1>1, OneMore
<1> QED BY <1>2, <1>3, <1>4

\* The push of a reservation: nothing was open, and the new attempt is open
\* because it is fresh; its authority is the one it was just checked against.
LEMMA ReservePushed ==
  ASSUME Hands, Ledger, NEW e \in Executor, pc[e] = "reserving", remote = base[e],
         remote' = Append(base[e], staged[e]), Elsewhere(e),
         pc'[e] \in {"reserved", "stopped"}
  PROVE  Ledger'
<1> DEFINE c == staged[e]
           n == Len(remote) + 1
<1>1. /\ ReserveAllowed(remote, c)
      /\ c \in ReserveCommit /\ c \in Commit /\ c.kind = "RESERVE"
      /\ c.attempt = Current(e)
      /\ Open(remote) = {}
      /\ remote' = Append(remote, c)
  BY StagedIsCommit DEF Hands, StagedByRun, ReserveAllowed, ReserveRule, ReserveCommit
<1> HIDE DEF c
<1>2. remote \in History /\ tries[e] \in Nat
  BY MaxAttemptsAssumption DEF Hands, TypeOK
<1>3. ~IsClosed(remote, c.attempt)
  <2> SUFFICES ASSUME NEW i \in DOMAIN remote, remote[i].kind \in Closing,
                      remote[i].attempt = Current(e)
               PROVE  FALSE
    BY <1>1 DEF IsClosed
  <2>1. tries[e] < tries[e]
    BY DEF Ledger, AttemptsDrawn, Current
  <2> QED BY <1>2, <2>1
<1>4. Open(remote') = {n} /\ remote'[n] = c
  <2>1. Open(Append(remote, c)) = Open(remote) \cup {n}
    BY <1>1, <1>2, <1>3, OpenAfterReserve
  <2>2. Append(remote, c)[n] = c
    BY <1>1, <1>2, OneMore
  <2> QED BY <1>1, <2>1, <2>2
<1>5. AttemptsDrawn'
  <2>1. c.attempt[1] = e /\ c.attempt[2] = tries[e]
    BY <1>1 DEF Current
  <2> QED BY <1>1, <1>2, <2>1, StillDrawn DEF Elsewhere, Ledger
<1>6. SendHoldsGate'
  <2> SUFFICES ASSUME NEW f \in Executor, pc'[f] \in Holding
               PROVE  f = e
    BY <1>1, <1>4 DEF SendHoldsGate, Current, Elsewhere
  <2>1. f # e => \E i \in Open(remote) : TRUE
    BY DEF Elsewhere, Ledger, SendHoldsGate
  <2> QED BY <1>1, <2>1
<1>7. AuthorityFrozen'
  <2> DEFINE a == c.auth
             s == SourceOf[a]
  <2>1. /\ CurrentGrant(remote', a) = CurrentGrant(remote, a)
        /\ Revoked(remote', a) <=> Revoked(remote, a)
        /\ Usable(remote', s) <=> Usable(remote, s)
        /\ \A k : IsBinding(remote', s, k) <=> IsBinding(remote, s, k)
    <3> DEFINE h == Append(remote, c)
    <3>1. /\ CurrentGrant(h, a) = CurrentGrant(remote, a)
          /\ Revoked(h, a) <=> Revoked(remote, a)
      BY <1>1, <1>2, AuthorityAfter
    <3>2. /\ Usable(h, s) <=> Usable(remote, s)
          /\ \A k : IsBinding(h, s, k) <=> IsBinding(remote, s, k)
      BY <1>1, <1>2, ContextAfter
    <3>3. remote' = h
      BY <1>1
    <3> HIDE DEF h
    <3> QED BY <3>1, <3>2, <3>3
  <2>2. ~Revoked(remote, a) /\ Usable(remote, s)
    BY <1>1 DEF ReserveAllowed, ReserveRule
  <2>3. ASSUME NEW g \in CurrentGrant(remote, a)
        PROVE  /\ g < n
               /\ remote'[g].interval = c.interval
               /\ IsBinding(remote, s, remote'[g].binding)
    <3>1. /\ CurrentGrant(remote, a) = Last(GrantsOf(remote, a))
          /\ GrantsOf(remote, a) \in SUBSET Int
          /\ g \in DOMAIN remote
      BY <1>2, OneMore DEF CurrentGrant, Last, GrantsOf
    <3>2. g < n /\ remote'[g] = remote[g]
      BY <1>1, <1>2, <3>1, OneMore
    <3>3. PICK i \in CurrentGrant(remote, a) : remote[i].interval = c.interval
      BY <1>1 DEF ReserveAllowed, ReserveRule
    <3>4. i = g
      BY <3>1, <3>3, LastIsOne
    <3>5. IsBinding(remote, s, remote[g].binding)
      BY <1>1 DEF ReserveAllowed
    <3> QED BY <3>2, <3>3, <3>4, <3>5
  <2>4. ASSUME NEW i \in Open(remote')
        PROVE  /\ ~Revoked(remote', remote'[i].auth)
               /\ Usable(remote', SourceOf[remote'[i].auth])
               /\ \A g \in CurrentGrant(remote', remote'[i].auth) :
                    /\ g < i
                    /\ remote'[g].interval = remote'[i].interval
                    /\ IsBinding(remote', SourceOf[remote'[i].auth], remote'[g].binding)
    <3>1. i = n /\ remote'[i] = c
      BY <1>4
    <3> HIDE DEF n
    <3> QED BY <2>1, <2>2, <2>3, <3>1
  <2> QED BY <2>4 DEF AuthorityFrozen
<1>8. RemoteReplays'
  BY <1>1, <1>2, ReplayAfter DEF ReserveAllowed, RecordRule, Ledger, RemoteReplays
<1>9. OneOpen'
  BY <1>4 DEF OneOpen
<1> QED BY <1>5, <1>6, <1>7, <1>8, <1>9 DEF Ledger

\* The push of a closing, by the run or by a recovery: what was open is
\* closed, and whoever held the gate no longer does.
LEMMA ClosingPushed ==
  ASSUME Hands, Ledger, NEW p \in Process, NEW c \in Commit, c.kind \in Closing,
         CloseRule(remote, c), remote' = Append(remote, c), Elsewhere(p),
         p \in Executor => pc'[p] \notin Holding \cup {"reserving"},
         pc'[c.attempt[1]] \notin Holding
  PROVE  Ledger'
<1>1. remote \in History
  BY DEF Hands, TypeOK
<1>2. PICK i \in Open(remote) : remote[i].attempt = c.attempt
  BY DEF CloseRule, Pending
<1>3. Open(remote') = {}
  BY <1>1, <1>2, OpenAfterClose DEF Ledger, OneOpen
<1>4. /\ c.attempt[1] \in Executor
      /\ c.attempt[2] <= tries[c.attempt[1]]
      /\ pc[c.attempt[1]] = "reserving" => c.attempt[2] < tries[c.attempt[1]]
  <2>1. remote[i].kind = "RESERVE" /\ i \in DOMAIN remote /\ c.attempt \in Attempt
    BY <1>1, <1>2, OpenIsReserve DEF ReserveCommit
  <2> QED BY <1>2, <2>1 DEF Ledger, AttemptsDrawn, Attempt
<1>5. \A f \in Executor : pc'[f] \notin Holding
  <2> SUFFICES ASSUME NEW f \in Executor, f # p, pc[f] \in Holding
               PROVE  c.attempt[1] = f /\ pc'[f] = pc[f]
    BY DEF Elsewhere
  <2>1. remote[i].attempt = Current(f)
    BY <1>2 DEF Ledger, SendHoldsGate
  <2> QED BY <1>2, <2>1 DEF Current, Elsewhere
<1>6. AttemptsDrawn'
  <2> DEFINE g == Append(remote, c)
  <2> SUFFICES ASSUME NEW j \in DOMAIN g, g[j].kind \in {"RESERVE"} \cup Closing
               PROVE  /\ g[j].attempt[2] <= tries[g[j].attempt[1]]
                      /\ pc'[g[j].attempt[1]] = "reserving" =>
                           g[j].attempt[2] < tries[g[j].attempt[1]]
    BY DEF AttemptsDrawn, Elsewhere
  <2>1. \A f \in Executor : pc'[f] = "reserving" => pc[f] = "reserving"
    BY DEF Elsewhere
  <2>2. CASE j \in DOMAIN remote
    <3>1. g[j] = remote[j] /\ remote[j] \in Commit
      BY <1>1, <2>2, OneMore
    <3>2. remote[j].attempt[1] \in Executor
      BY <3>1, NamesAttempt DEF Attempt
    <3> QED BY <2>1, <2>2, <3>1, <3>2 DEF Ledger, AttemptsDrawn
  <2>3. CASE j = Len(remote) + 1
    <3>1. g[j] = c
      BY <1>1, <2>3, OneMore
    <3> QED BY <1>4, <2>1, <3>1
  <2>4. DOMAIN g = DOMAIN remote \cup {Len(remote) + 1}
    BY <1>1, OneMore
  <2> QED BY <2>2, <2>3, <2>4
<1>7. RemoteReplays'
  BY <1>1, ReplayAfter DEF RecordRule, Ledger, RemoteReplays
<1> QED BY <1>3, <1>5, <1>6, <1>7 DEF Ledger, OneOpen, SendHoldsGate, AuthorityFrozen

\* The push of a grant, a revocation or a version: nothing is open, so nobody
\* holds.
LEMMA CommandPushed ==
  ASSUME Hands, Ledger, NEW o \in Operator, NEW c \in Commit,
         GrantRule(remote, c) \/ RevokeRule(remote, c) \/ VersionAllowed(remote, c),
         remote' = Append(remote, c), Elsewhere(o)
  PROVE  Ledger'
<1>1. /\ remote \in History
      /\ Open(remote) = {}
      /\ c.kind \in {"GRANT", "REVOKE", "VERSION"}
      /\ \A f \in Executor : pc'[f] = pc[f]
  BY OperatorAssumption DEF Hands, TypeOK, GrantRule, RevokeRule, VersionAllowed,
     GrantCommit, RevokeCommit, VersionCommit, Elsewhere
<1>2. Open(remote') = {}
  BY <1>1, OpenAfterOther DEF Closing
<1>3. AttemptsDrawn'
  BY <1>1, StillDrawn DEF Closing, Elsewhere, Ledger
<1>4. RemoteReplays'
  BY <1>1, ReplayAfter DEF RecordRule, RecordKind, VersionAllowed, VersionCommit, Closing,
     Ledger, RemoteReplays
<1>5. SendHoldsGate'
  BY <1>1 DEF Ledger, SendHoldsGate
<1> QED BY <1>2, <1>3, <1>4, <1>5 DEF Ledger, OneOpen, AuthorityFrozen

\* The push of an intent or an outcome, which other runs may make while a run
\* holds:
\* it names no attempt and changes no authority.
LEMMA RunCommitPushed ==
  ASSUME Hands, Ledger, NEW e \in Executor, NEW c \in RunCommit,
         remote' = Append(remote, c), Elsewhere(e),
         pc[e] \in {"declaring", "settling"}, pc'[e] \in {"ready", "done", "stopped"}
  PROVE  Ledger'
<1>1. /\ remote \in History
      /\ c \in Commit
      /\ c.kind \in {"INTENT", "OUTCOME"}
  BY RulesAdmitCommits DEF Hands, TypeOK, RunCommit
<1>2. /\ Open(remote') = Open(remote)
      /\ \A i \in Open(remote) : remote'[i] = remote[i]
  BY <1>1, OpenAfterOther, OpenIsReserve, OneMore DEF Closing
<1>3. AttemptsDrawn'
  BY <1>1, StillDrawn DEF Closing, Elsewhere, Ledger
<1>4. RemoteReplays'
  BY <1>1, ReplayAfter DEF RecordKind, Closing, Ledger, RemoteReplays
<1>5. SendHoldsGate'
  BY <1>2 DEF Ledger, SendHoldsGate, Elsewhere, Holding, Current
<1>6. AuthorityFrozen'
  <2> SUFFICES ASSUME NEW i \in Open(remote'), NEW a, a = remote'[i].auth
               PROVE  /\ ~Revoked(remote', a)
                      /\ Usable(remote', SourceOf[a])
                      /\ \A g \in CurrentGrant(remote', a) :
                           /\ g < i
                           /\ remote'[g].interval = remote'[i].interval
                           /\ IsBinding(remote', SourceOf[a], remote'[g].binding)
    BY DEF AuthorityFrozen
  <2>0. i \in Open(remote) /\ remote'[i] = remote[i]
    BY <1>2
  <2>1. /\ CurrentGrant(remote', a) = CurrentGrant(remote, a)
        /\ Revoked(remote', a) <=> Revoked(remote, a)
        /\ Usable(remote', SourceOf[a]) <=> Usable(remote, SourceOf[a])
        /\ \A k : IsBinding(remote', SourceOf[a], k) <=> IsBinding(remote, SourceOf[a], k)
    BY <1>1, AuthorityAfter, ContextAfter
  <2>2. \A g \in CurrentGrant(remote, a) : remote'[g] = remote[g]
    BY <1>1, OneMore DEF CurrentGrant, Last, GrantsOf
  <2> QED BY <2>0, <2>1, <2>2 DEF Ledger, AuthorityFrozen
<1>7. OneOpen'
  BY <1>2 DEF Ledger, OneOpen
<1> QED BY <1>3, <1>4, <1>5, <1>6, <1>7 DEF Ledger

-----------------------------------------------------------------------------

\* Every step of a run keeps the ledger's part.
LEMMA RunKeepsLedger ==
  ASSUME Hands, Ledger, TypeOK', NEW e \in Executor,
         ExecutorStep(e) \/ Crash(e) \/ LoseAck(e)
  PROVE  Ledger'
<1> USE DEF Process
<1>0. /\ pc[e] \in ExecutorState /\ e \in Process
      /\ tries[e] \in Nat
      /\ \A f \in Executor : tries[f] >= tries[f]
  BY MaxAttemptsAssumption DEF Hands, TypeOK
<1>1. CASE \/ CloneRemote(e) \/ VerifyHead(e) \/ Send(e) \/ Close(e) \/ Settle(e)
           \/ Finish(e)
  <2>1. /\ remote' = remote /\ tries' = tries
        /\ \A f \in Executor \ {e} : pc'[f] = pc[f]
        /\ pc'[e] # "reserving"
        /\ pc'[e] \in Holding => pc[e] \in Holding
    BY <1>1 DEF Hands, TypeOK, CloneRemote, VerifyHead, Send, Close, Settle, Finish, Goto,
       Holding
  <2> QED BY <1>0, <2>1, QuietStep
<1>2. CASE Reserve(e)
  <2>1. /\ remote' = remote
        /\ \A f \in Executor \ {e} : pc'[f] = pc[f] /\ tries'[f] = tries[f]
        /\ tries'[e] = tries[e] + 1
        /\ pc'[e] = "reserving"
    BY <1>2 DEF Hands, TypeOK, Reserve, Goto
  <2>2. \A f \in Executor : tries'[f] >= tries[f] /\ (f = e => tries'[f] > tries[f])
    BY <1>0, <2>1
  <2> QED BY <2>1, <2>2, QuietStep DEF Holding
<1>3. CASE PushIntent(e) \/ PushOutcome(e)
  <2>1. pc'[e] \in {"ready", "done"} /\ Elsewhere(e)
    BY <1>3 DEF Hands, TypeOK, PushIntent, PushOutcome, Goto, Elsewhere
  <2> QED BY <1>3, <2>1, RunCommitPushed
          DEF Hands, StagedByRun, PushIntent, PushOutcome, Push
<1>4. CASE PushReserve(e)
  <2>1. pc'[e] = "reserved" /\ Elsewhere(e)
    BY <1>4 DEF Hands, TypeOK, PushReserve, Goto, Elsewhere
  <2> QED BY <1>4, <2>1, ReservePushed DEF PushReserve, Push
<1>5. CASE PushClose(e) \/ (LoseAck(e) /\ pc[e] = "closing")
  <2>1. /\ pc[e] = "closing"
        /\ pc'[e] \in {"ready", "stopped"} /\ Elsewhere(e)
        /\ remote = base[e] /\ remote' = Append(remote, staged[e])
    BY <1>5 DEF Hands, TypeOK, PushClose, LoseAck, Push, Goto, Elsewhere
  <2>2. /\ staged[e] \in CloseCommit /\ staged[e] \in Commit
        /\ CloseRule(remote, staged[e])
        /\ staged[e].attempt[1] = e
    BY <2>1, StagedIsCommit DEF Hands, StagedByRun, Current
  <2>3. staged[e].kind \in Closing
    BY <2>2 DEF CloseCommit, Closing
  <2>4. \A st \in {"ready", "stopped"} : st \notin Holding \cup {"reserving"}
    BY DEF Holding
  <2> QED BY <1>0, <2>1, <2>2, <2>3, <2>4, ClosingPushed
<1>6. CASE StaleHead(e) \/ DenyReserve(e) \/ DenyClose(e) \/ Crash(e)
  <2>1. /\ remote' = remote /\ tries' = tries
        /\ \A f \in Executor \ {e} : pc'[f] = pc[f]
        /\ pc'[e] = "stopped"
    BY <1>6 DEF Hands, TypeOK, StaleHead, DenyReserve, DenyClose, Crash, Halt, Goto
  <2> QED BY <1>0, <2>1, QuietStep DEF Holding
<1>7. CASE LoseAck(e) /\ pc[e] # "closing"
  <2>1. pc'[e] = "stopped" /\ Elsewhere(e)
    BY <1>7 DEF Hands, TypeOK, LoseAck, Goto, Elsewhere
  <2>2. CASE pc[e] \in {"declaring", "settling"}
    BY <1>7, <2>1, <2>2, RunCommitPushed DEF Hands, StagedByRun, LoseAck
  <2>3. CASE pc[e] = "reserving"
    BY <1>7, <2>1, <2>3, ReservePushed DEF LoseAck
  <2> QED BY <1>7, <2>2, <2>3 DEF LoseAck
<1> QED BY <1>1, <1>2, <1>3, <1>4, <1>5, <1>6, <1>7 DEF ExecutorStep

\* Every step of an operator keeps the ledger's part.
LEMMA CommandKeepsLedger ==
  ASSUME Hands, Ledger, TypeOK', NEW o \in Operator, OperatorStep(o)
  PROVE  Ledger'
<1> USE OperatorAssumption DEF Process
<1>0. \A f \in Executor : tries[f] >= tries[f]
  BY MaxAttemptsAssumption DEF Hands, TypeOK
<1>1. CASE ~PushCommand(o)
  <2>1. remote' = remote /\ tries' = tries /\ \A f \in Executor : pc'[f] = pc[f]
    BY <1>1 DEF Hands, TypeOK, OperatorStep, Issue, Revoke, Recover, Revise, Stage,
       DropCommand, Goto
  <2> QED BY <1>0, <2>1, QuietStep
<1>2. CASE PushCommand(o)
  <2>1. /\ remote = base[o] /\ remote' = Append(remote, staged[o])
        /\ pc[o] = "staged" /\ staged[o] \in Commit
        /\ Elsewhere(o) /\ \A f \in Executor : pc'[f] = pc[f]
    BY <1>2, StagedIsCommit DEF Hands, TypeOK, PushCommand, Push, Goto, Elsewhere
  <2>2. CASE \/ GrantRule(remote, staged[o]) \/ RevokeRule(remote, staged[o])
             \/ VersionAllowed(remote, staged[o])
    BY <2>1, <2>2, CommandPushed
  <2>3. CASE /\ staged[o] \in RecoverCommit /\ CloseRule(remote, staged[o])
             /\ pc[staged[o].attempt[1]] = "stopped"
    <3>1. staged[o].kind \in Closing /\ staged[o].attempt[1] \in Executor /\ o \notin Executor
      BY <2>3 DEF RecoverCommit, Closing, Attempt
    <3>2. pc'[staged[o].attempt[1]] \notin Holding
      BY <2>1, <2>3, <3>1 DEF Holding
    <3> QED BY <2>1, <2>3, <3>1, <3>2, ClosingPushed
  <2> QED BY <2>1, <2>2, <2>3 DEF Hands, StagedByCommand
<1> QED BY <1>1, <1>2

\* Together with the hands, the ledger's part is inductive.
LEMMA LedgerInductive ==
  (Init => Ledger) /\ (Hands /\ Ledger /\ TypeOK' /\ [Next]_vars => Ledger')
<1>1. Init => Ledger
  BY DEF Init, Ledger, AttemptsDrawn, OneOpen, SendHoldsGate, AuthorityFrozen,
         RemoteReplays, Replayable, Open, Holding, Process
<1>2. ASSUME Hands, Ledger, TypeOK', [Next]_vars PROVE Ledger'
  <2>1. CASE \E e \in Executor : ExecutorStep(e) \/ Crash(e) \/ LoseAck(e)
    BY <1>2, <2>1, RunKeepsLedger
  <2>2. CASE \E o \in Operator : OperatorStep(o)
    BY <1>2, <2>2, CommandKeepsLedger
  <2>3. CASE Tick \/ UNCHANGED vars
    <3>1. \A f \in Executor : tries[f] >= tries[f]
      BY <1>2, MaxAttemptsAssumption DEF Hands, TypeOK
    <3> QED BY <1>2, <2>3, <3>1, QuietStep DEF Tick, vars
  <2> QED BY <1>2, <2>1, <2>2, <2>3 DEF Next
<1> QED BY <1>1, <1>2

LEMMA LedgerHolds == Spec => [](Hands /\ Ledger)
<1>1. Hands => TypeOK
  BY DEF Hands
<1> QED BY <1>1, HandsInductive, LedgerInductive, PTL DEF Spec

-----------------------------------------------------------------------------

\* While a run holds the gate its attempt is the one open reservation on the
\* branch (executeContinuousRequest): whatever any number of other runs and
\* operators do, and wherever they crash or lose acknowledgements.
THEOREM GateIsHeld == Spec => []SendHoldsGate
<1>1. Ledger => SendHoldsGate
  BY DEF Ledger
<1> QED BY <1>1, LedgerHolds, PTL

\* An open reservation's authority stands: not revoked, its grant current, its
\* source's versions unchanged and usable (the PENDING_GATE_DENIED guards).
THEOREM AuthorityStands == Spec => []AuthorityFrozen
<1>1. Ledger => AuthorityFrozen
  BY DEF Ledger
<1> QED BY <1>1, LedgerHolds, PTL

\* Whatever is on the branch replays, so every later checkout can be loaded
\* (replayContinuousRecords).
THEOREM BranchReplays == Spec => []RemoteReplays
<1>1. Ledger => RemoteReplays
  BY DEF Ledger
<1> QED BY <1>1, LedgerHolds, PTL

-----------------------------------------------------------------------------
(* The branch only grows, and the runs, operators and git operations of    *)
(* ContinuousGate implement the exclusive gate of ExclusiveGate.           *)

\* A request that has left belongs to an attempt drawn before the one its run
\* is now reserving or about to send.
SendsDrawn ==
  \A s \in sends :
    /\ s.attempt[2] <= tries[s.attempt[1]]
    /\ pc[s.attempt[1]] \in {"reserving", "reserved", "verified"} =>
         s.attempt[2] < tries[s.attempt[1]]

\* How a step changes the branch: not at all, or by one staged commit.
LEMMA BranchSteps ==
  ASSUME Hands, [Next]_vars
  PROVE  \/ remote' = remote
         \/ \E c \in Commit : remote' = Append(remote, c)
<1>1. CASE UNCHANGED vars
  BY <1>1 DEF vars
<1>2. CASE Tick
  BY <1>2 DEF Tick
<1>3. ASSUME NEW e \in Executor, ExecutorStep(e) \/ Crash(e) \/ LoseAck(e)
      PROVE  remote' = remote \/ \E c \in Commit : remote' = Append(remote, c)
  BY <1>3, StagedIsCommit DEF ExecutorStep, Crash, LoseAck, CloneRemote, PushIntent, Reserve,
     PushReserve, VerifyHead, Send, Close, PushClose, Settle, PushOutcome, Finish,
     StaleHead, DenyReserve, DenyClose, Halt, Push
<1>4. ASSUME NEW o \in Operator, OperatorStep(o)
      PROVE  remote' = remote \/ \E c \in Commit : remote' = Append(remote, c)
  BY <1>4, StagedIsCommit DEF OperatorStep, Issue, Revoke, Recover, Revise, Stage,
     PushCommand, DropCommand, Push
<1> QED BY <1>1, <1>2, <1>3, <1>4 DEF Next

\* A push never discards what another process pushed: the branch grows by one
\* commit at a time on top of all that was there.
THEOREM BranchGrows == Spec => HistoryGrows
<1>1. ASSUME Hands, [Next]_vars
      PROVE  [ /\ Len(remote') = Len(remote) + 1
               /\ SubSeq(remote', 1, Len(remote)) = remote ]_remote
  <2>1. ASSUME NEW c \in Commit, remote' = Append(remote, c)
        PROVE  /\ Len(remote') = Len(remote) + 1
               /\ SubSeq(remote', 1, Len(remote)) = remote
    BY <1>1, <2>1 DEF Hands, TypeOK, History
  <2> QED BY <1>1, <2>1, BranchSteps
<1> QED BY <1>1, HandsHold, PTL DEF Spec, HistoryGrows

-----------------------------------------------------------------------------
(* The refinement.                                                         *)

Holder == {remote[i].attempt : i \in Open(remote)}
Used == {remote[i].attempt : i \in {j \in DOMAIN remote : remote[j].kind = "RESERVE"}}
Sent == {s.attempt : s \in sends}

\* The requests that left stay drawn.
LEMMA SendsDrawnInductive ==
  (Init => SendsDrawn) /\ (Hands /\ SendsDrawn /\ [Next]_vars => SendsDrawn')
<1>1. Init => SendsDrawn
  BY DEF Init, SendsDrawn
<1>2. ASSUME Hands, SendsDrawn, [Next]_vars PROVE SendsDrawn'
  <2>0. /\ \A s \in sends : s.attempt[1] \in Executor /\ s.attempt[2] \in Nat
        /\ \A f \in Executor : tries[f] \in Nat /\ f \in Process
    BY <1>2, MaxAttemptsAssumption DEF Hands, TypeOK, Attempt, Process
  <2>1. ASSUME sends' = sends, tries' = tries,
               \A f \in Executor : pc'[f] \in {"reserving", "reserved", "verified"} =>
                 pc[f] \in {"reserving", "reserved", "verified"}
        PROVE  SendsDrawn'
    BY <1>2, <2>0, <2>1 DEF SendsDrawn
  <2>2. ASSUME NEW e \in Executor, ExecutorStep(e) \/ Crash(e) \/ LoseAck(e)
        PROVE  SendsDrawn'
    <3>1. CASE Reserve(e)
      <4>1. /\ sends' = sends
            /\ \A f \in Executor \ {e} : pc'[f] = pc[f] /\ tries'[f] = tries[f]
            /\ tries'[e] = tries[e] + 1
        BY <1>2, <3>1 DEF Hands, TypeOK, Reserve, Goto, Process
      <4> QED BY <1>2, <2>0, <4>1 DEF SendsDrawn
    <3>2. CASE Send(e)
      <4> DEFINE r == base[e][Len(base[e])]
      <4>1. r.attempt[1] = e /\ r.attempt[2] = tries[e]
        BY <1>2, <3>2 DEF Hands, HeadOfRun, Send, Current
      <4>2. /\ \A f \in Executor \ {e} : pc'[f] = pc[f]
            /\ pc'[e] = "sending" /\ tries' = tries
            /\ \A s \in sends' : s \in sends \/ s.attempt = r.attempt
        BY <1>2, <3>2 DEF Hands, TypeOK, Send, Goto, Process
      <4> HIDE DEF r
      <4> QED BY <1>2, <2>0, <4>1, <4>2 DEF SendsDrawn
    <3>3. CASE ~Reserve(e) /\ ~Send(e)
      <4>1. /\ sends' = sends /\ tries' = tries
            /\ \A f \in Executor \ {e} : pc'[f] = pc[f]
            /\ pc'[e] \in {"reserving", "reserved", "verified"} =>
                 pc[e] \in {"reserving", "reserved", "verified"}
        BY <1>2, <2>0, <2>2, <3>3 DEF Hands, TypeOK, ExecutorStep, Crash, LoseAck, CloneRemote,
           PushIntent, PushReserve, VerifyHead, Close, PushClose, Settle, PushOutcome,
           Finish, StaleHead, DenyReserve, DenyClose, Halt, Goto
      <4> QED BY <2>1, <4>1
    <3> QED BY <3>1, <3>2, <3>3
  <2>3. ASSUME NEW o \in Operator, OperatorStep(o)
        PROVE  SendsDrawn'
    <3>1. /\ sends' = sends /\ tries' = tries
          /\ \A f \in Executor : pc'[f] = pc[f]
      BY <1>2, <2>3, OperatorAssumption DEF Hands, TypeOK, Process, OperatorStep, Issue, Revoke,
         Recover, Revise, Stage, PushCommand, DropCommand, Goto
    <3> QED BY <2>1, <3>1
  <2> QED BY <1>2, <2>1, <2>2, <2>3 DEF Next, Tick, vars
<1> QED BY <1>1, <1>2

\* What one more commit does to the attempts that have ever held the gate.
LEMMA UsedAfter ==
  ASSUME Hands, NEW c \in Commit, remote' = Append(remote, c)
  PROVE  Used' = IF c.kind = "RESERVE" THEN Used \cup {c.attempt} ELSE Used
<1> DEFINE n == Len(remote) + 1
<1>1. /\ DOMAIN remote' = DOMAIN remote \cup {n}
      /\ remote'[n] = c
      /\ \A i \in DOMAIN remote : remote'[i] = remote[i]
  BY OneMore DEF Hands, TypeOK
<1> HIDE DEF n
<1>2. CASE c.kind = "RESERVE"
  BY <1>1, <1>2 DEF Used
<1>3. CASE c.kind # "RESERVE"
  BY <1>1, <1>3 DEF Used
<1> QED BY <1>2, <1>3

\* The push of a reservation is the acquisition of the gate.
LEMMA ReserveAcquires ==
  ASSUME Hands, Ledger, Ledger', NEW e \in Executor, pc[e] = "reserving", remote = base[e],
         remote' = Append(base[e], staged[e]), sends' = sends,
         NEW x \in Attempt, x = Current(e)
  PROVE  Gate!Acquire(x)
<1>1. /\ staged[e] \in ReserveCommit /\ staged[e] \in Commit /\ staged[e].kind = "RESERVE"
      /\ staged[e].attempt = Current(e)
      /\ Open(remote) = {}
  BY StagedIsCommit DEF Hands, StagedByRun, ReserveAllowed, ReserveRule, ReserveCommit
<1>2. remote \in History /\ tries[e] \in Nat
  BY MaxAttemptsAssumption DEF Hands, TypeOK
<1>3. \A i \in DOMAIN remote :
        remote[i].kind \in {"RESERVE"} \cup Closing => remote[i].attempt # Current(e)
  <2> SUFFICES ASSUME NEW i \in DOMAIN remote, remote[i].kind \in {"RESERVE"} \cup Closing,
                      remote[i].attempt = Current(e)
               PROVE  FALSE
    OBVIOUS
  <2>1. tries[e] < tries[e]
    BY DEF Ledger, AttemptsDrawn, Current
  <2> QED BY <1>2, <2>1
<1>4. Holder = {} /\ Current(e) \notin Used
  BY <1>1, <1>3 DEF Holder, Used
<1>5. Holder' = {Current(e)}
  <2> DEFINE g == Append(remote, staged[e])
             n == Len(remote) + 1
  <2>1. ~IsClosed(remote, staged[e].attempt)
    BY <1>1, <1>3 DEF IsClosed
  <2>2. Open(g) = {n} /\ g[n] = staged[e]
    BY <1>1, <1>2, <2>1, OpenAfterReserve, OneMore
  <2>3. remote' = g
    OBVIOUS
  <2> HIDE DEF g, n
  <2> QED BY <1>1, <2>2, <2>3 DEF Holder
<1>6. Used' = Used \cup {Current(e)} /\ Sent' = Sent
  BY <1>1, UsedAfter DEF Sent
<1> QED BY <1>4, <1>5, <1>6 DEF Gate!Acquire, Holder, Used, Sent

\* The push of a closing, the run's own or a recovery's, is its release.
LEMMA ClosingReleases ==
  ASSUME Hands, Ledger, NEW c \in Commit, c.kind \in Closing, CloseRule(remote, c),
         remote' = Append(remote, c), sends' = sends
  PROVE  c.attempt \in Attempt /\ Gate!Release(c.attempt)
<1>1. remote \in History
  BY DEF Hands, TypeOK
<1>2. PICK i \in Open(remote) : remote[i].attempt = c.attempt
  BY DEF CloseRule, Pending
<1>3. Open(remote') = {}
  BY <1>1, <1>2, OpenAfterClose DEF Ledger, OneOpen
<1>4. Used' = Used /\ Sent' = Sent
  BY UsedAfter DEF Sent, Closing
<1>5. c.attempt \in Holder /\ Holder' = {}
  BY <1>2, <1>3 DEF Holder
<1> QED BY <1>4, <1>5, NamesAttempt DEF Gate!Release, Holder, Used, Sent

\* A request leaves while its attempt holds the gate, and leaves once.
LEMMA SendSends ==
  ASSUME Hands, Ledger, SendsDrawn, NEW e \in Executor, Send(e),
         NEW x \in Attempt, x = Current(e)
  PROVE  Gate!Send(x)
<1>1. Current(e) \in Holder
  BY DEF Ledger, SendHoldsGate, Holder, Holding, Send
<1>2. Current(e) \notin Sent
  <2> SUFFICES ASSUME NEW s \in sends, s.attempt = Current(e)
               PROVE  FALSE
    BY DEF Sent
  <2>1. tries[e] < tries[e] /\ tries[e] \in Nat
    BY MaxAttemptsAssumption DEF SendsDrawn, Current, Send, Hands, TypeOK
  <2> QED BY <2>1
<1>3. Sent' = Sent \cup {Current(e)}
  <2> DEFINE r == base[e][Len(base[e])]
             s == [attempt |-> r.attempt, target |-> r.target,
                   interval |-> r.interval, time |-> clock]
  <2>1. s.attempt = Current(e)
    BY DEF Send, Hands, HeadOfRun
  <2>2. sends' = sends \cup {s}
    BY DEF Send
  <2> HIDE DEF s
  <2> QED BY <2>1, <2>2 DEF Sent
<1>4. Holder' = Holder /\ Used' = Used
  BY DEF Send, Holder, Used
<1> QED BY <1>1, <1>2, <1>3, <1>4 DEF Gate!Send, Holder, Used, Sent

\* A commit that is neither a reservation nor a closing is a stutter.
LEMMA OtherStutters ==
  ASSUME Hands, NEW c \in Commit, c.kind \notin {"RESERVE"} \cup Closing,
         remote' = Append(remote, c), sends' = sends
  PROVE  UNCHANGED Gate!vars
<1>1. remote \in History
  BY DEF Hands, TypeOK
<1>2. /\ Open(remote') = Open(remote)
      /\ \A i \in Open(remote) : remote'[i] = remote[i]
  BY <1>1, OpenAfterOther, OpenIsReserve, OneMore
<1>3. Holder' = Holder /\ Used' = Used /\ Sent' = Sent
  BY <1>2, UsedAfter DEF Holder, Sent
<1> QED BY <1>3 DEF Gate!vars, Holder, Used, Sent

\* So is a step that pushes and sends nothing.
LEMMA QuietStutters ==
  ASSUME remote' = remote, sends' = sends
  PROVE  UNCHANGED Gate!vars
BY DEF Gate!vars

LEMMA InitRefines == Init => Gate!Init
BY DEF Init, Gate!Init, Open

LEMMA StepRefines ==
  ASSUME Hands, Ledger, Ledger', SendsDrawn, [Next]_vars
  PROVE  [Gate!Next]_Gate!vars
<1>0. \A e \in Executor : pc[e] \in {"reserving", "verified"} => Current(e) \in Attempt
  BY DEF Hands, HeadOfRun, StagedByRun, ReserveAllowed, ReserveRule, ReserveCommit
<1>1. CASE Tick \/ UNCHANGED vars
  BY <1>1, QuietStutters DEF Tick, vars
<1>2. ASSUME NEW e \in Executor, ExecutorStep(e) \/ Crash(e) \/ LoseAck(e)
      PROVE  [Gate!Next]_Gate!vars
  <2>1. CASE Send(e)
    <3>1. PICK x \in Attempt : x = Current(e)
      BY <1>0, <2>1 DEF Send
    <3> QED BY <2>1, <3>1, SendSends DEF Gate!Next
  <2>2. CASE PushReserve(e) \/ (LoseAck(e) /\ pc[e] = "reserving")
    <3>1. /\ pc[e] = "reserving" /\ remote = base[e]
          /\ remote' = Append(base[e], staged[e]) /\ sends' = sends
      BY <2>2 DEF PushReserve, LoseAck, Push
    <3>2. PICK x \in Attempt : x = Current(e)
      BY <1>0, <3>1
    <3> QED BY <3>1, <3>2, ReserveAcquires DEF Gate!Next
  <2>3. CASE PushClose(e) \/ (LoseAck(e) /\ pc[e] = "closing")
    <3>1. /\ staged[e] \in CloseCommit /\ staged[e] \in Commit
          /\ remote' = Append(remote, staged[e]) /\ sends' = sends
          /\ CloseRule(remote, staged[e])
      BY <2>3, StagedIsCommit DEF Hands, StagedByRun, PushClose, LoseAck, Push
    <3>2. staged[e].kind \in Closing
      BY <3>1 DEF CloseCommit, Closing
    <3> QED BY <3>1, <3>2, ClosingReleases DEF Gate!Next
  <2>4. CASE \/ PushIntent(e) \/ PushOutcome(e)
             \/ LoseAck(e) /\ pc[e] \in {"declaring", "settling"}
    <3>1. /\ staged[e] \in RunCommit /\ staged[e] \in Commit
          /\ remote' = Append(remote, staged[e]) /\ sends' = sends
      BY <2>4, StagedIsCommit DEF Hands, StagedByRun, PushIntent, PushOutcome, LoseAck,
         Push
    <3>2. staged[e].kind \notin {"RESERVE"} \cup Closing
      BY <3>1 DEF RunCommit, Closing
    <3> QED BY <3>1, <3>2, OtherStutters
  <2>5. CASE \/ CloneRemote(e) \/ Reserve(e) \/ VerifyHead(e) \/ Close(e) \/ Settle(e)
             \/ Finish(e)             \/ StaleHead(e) \/ DenyReserve(e) \/ DenyClose(e) \/ Crash(e)
    <3>1. remote' = remote /\ sends' = sends
      BY <2>5 DEF CloneRemote, Reserve, VerifyHead, Close, Settle, Finish, StaleHead,
         DenyReserve, DenyClose, Crash, Halt
    <3> QED BY <3>1, QuietStutters
  <2> QED BY <1>2, <2>1, <2>2, <2>3, <2>4, <2>5 DEF ExecutorStep, LoseAck
<1>3. ASSUME NEW o \in Operator, OperatorStep(o)
      PROVE  [Gate!Next]_Gate!vars
  <2>1. CASE ~PushCommand(o)
    <3>1. remote' = remote /\ sends' = sends
      BY <1>3, <2>1 DEF OperatorStep, Issue, Revoke, Recover, Revise, Stage, DropCommand
    <3> QED BY <3>1, QuietStutters
  <2>2. CASE PushCommand(o)
    <3>1. /\ remote = base[o] /\ remote' = Append(remote, staged[o]) /\ sends' = sends
          /\ pc[o] = "staged" /\ staged[o] \in Commit
      BY <2>2, StagedIsCommit DEF PushCommand, Push
    <3>2. CASE \/ GrantRule(remote, staged[o]) \/ RevokeRule(remote, staged[o])
               \/ VersionAllowed(remote, staged[o])
      <4>1. staged[o].kind \notin {"RESERVE"} \cup Closing
        BY <3>2 DEF GrantRule, RevokeRule, VersionAllowed, GrantCommit, RevokeCommit,
           VersionCommit, Closing
      <4> QED BY <3>1, <4>1, OtherStutters
    <3>3. CASE staged[o] \in RecoverCommit /\ CloseRule(remote, staged[o])
      <4>1. staged[o].kind \in Closing
        BY <3>3 DEF RecoverCommit, Closing
      <4> QED BY <3>1, <3>3, <4>1, ClosingReleases DEF Gate!Next
    <3> QED BY <3>1, <3>2, <3>3 DEF Hands, StagedByCommand
  <2> QED BY <2>1, <2>2
<1> QED BY <1>1, <1>2, <1>3 DEF Next

\* Runs and operators that share nothing but the branch implement the
\* exclusive gate: whoever acquires it had it to itself, no attempt acquires
\* it twice, and each request leaves once, while its attempt holds it
\* (executeContinuousRequest, recoverContinuousAttempt).
THEOREM ImplementsExclusiveGate == Spec => ImplementsGate
BY HandsInductive, LedgerHolds, SendsDrawnInductive, InitRefines, StepRefines, PTL
   DEF Spec, ImplementsGate, Gate!Spec

-----------------------------------------------------------------------------
(***************************************************************************)
(* The cadence.  A run's reading of its clock is never more than the skew  *)
(* from real time, and the times on the branch are in this order: a        *)
(* reservation's, the request's, its closing's, and, an interval later,    *)
(* that of the next reservation of the same target.  The rules compare     *)
(* only recorded times, of which the latest closing is the one that counts *)
(* as the closings of one target are themselves an interval apart.         *)
(***************************************************************************)

\* The closings of a target, if there are any, have a last one, and they are
\* as far apart as the earlier one's interval.
ClosingsSpaced(h) ==
  \A x \in Target :
    /\ ClosingsOf(h, x) # {} => Last(ClosingsOf(h, x)) # {}
    /\ \A k, l \in ClosingsOf(h, x) : k < l => h[l].at >= h[k].at + h[k].interval

\* What is open was reserved later than every closing of its target, by the
\* interval of either.
OpenSpaced(h) ==
  \A i \in Open(h) : \A k \in ClosingsOf(h, h[i].target) :
    h[i].at >= h[k].at + h[k].interval /\ h[i].at >= h[k].at + h[i].interval

\* The reservation a run has made is on the branch.
ReservationKept ==
  \A e \in Executor : pc[e] \in {"reserved", "verified", "sending"} =>
    \E i \in DOMAIN remote : remote[i] = base[e][Len(base[e])]

\* No reservation is dated later than a clock may read now.
ReservedByNow ==
  /\ \A i \in Open(remote) : remote[i].at <= clock + Skew
  /\ \A e \in Executor : pc[e] = "reserving" => staged[e].at <= clock + Skew

\* Record c is of the request s: it has its target and its interval.
OfRequest(c, s) == c.target = s.target /\ c.interval = s.interval

\* Request s is reserved on the branch, and whatever closes its attempt, there
\* or in somebody's hands, is dated no earlier than it left.
Recorded(s) ==
  /\ s.time <= clock
  /\ \E i \in DOMAIN remote : remote[i].kind = "RESERVE" /\ remote[i].attempt = s.attempt
  /\ \A i \in DOMAIN remote :
       remote[i].kind \in {"RESERVE"} \cup Closing /\ remote[i].attempt = s.attempt =>
         /\ OfRequest(remote[i], s)
         /\ remote[i].kind \in Closing => remote[i].at + Skew >= s.time
  /\ \A e \in Executor :
       pc[e] = "closing" /\ staged[e].attempt = s.attempt => staged[e].at + Skew >= s.time
  /\ \A o \in Operator :
       pc[o] = "staged" /\ staged[o].kind = "RECOVER" /\ staged[o].attempt = s.attempt =>
         staged[o].at + Skew >= s.time

Paced ==
  /\ ClosingsSpaced(remote) /\ OpenSpaced(remote)
  /\ ReservationKept /\ ReservedByNow
  /\ \A s \in sends : Recorded(s)
  /\ CadenceRespected

\* A closing or a reservation has a time and an interval.
LEMMA TimesAreNumbers ==
  ASSUME NEW c \in Commit, c.kind \in {"RESERVE"} \cup Closing
  PROVE  c.at \in Nat /\ c.interval \in Nat /\ c.target \in Target
BY CommitKind, IntervalAssumption DEF ReserveCommit, CloseCommit, RecoverCommit, Closing, Time

\* What one more commit does to the closings of a target, and what it may open.
LEMMA OneMoreClosing ==
  ASSUME NEW h \in History, NEW c \in Commit, NEW x
  PROVE  /\ ClosingsOf(Append(h, c), x) =
              ClosingsOf(h, x)
                \cup (IF c.kind \in Closing /\ c.target = x THEN {Len(h) + 1} ELSE {})
         /\ \A i \in Open(Append(h, c)) :
              i \in Open(h) \/ (i = Len(h) + 1 /\ c.kind = "RESERVE")
<1> DEFINE g == Append(h, c)
           n == Len(h) + 1
<1>1. /\ DOMAIN g = DOMAIN h \cup {n}
      /\ g[n] = c
      /\ \A i \in DOMAIN h : g[i] = h[i]
      /\ n \notin DOMAIN h
  BY OneMore
<1>2. \A y : IsClosed(h, y) => IsClosed(g, y)
  BY ClosedAfter
<1> HIDE DEF g, n
<1>3. /\ ClosingsOf(g, x) =
           ClosingsOf(h, x) \cup (IF c.kind \in Closing /\ c.target = x THEN {n} ELSE {})
      /\ \A i \in Open(g) : i \in Open(h) \/ (i = n /\ c.kind = "RESERVE")
  BY <1>1, <1>2 DEF ClosingsOf, Open
<1> QED BY <1>3 DEF g, n

\* One more commit that its rule admits keeps the records of a target apart.
LEMMA SpacedAfter ==
  ASSUME NEW h \in History, NEW c \in Commit,
         ClosingsSpaced(h), OpenSpaced(h), \A i, j \in Open(h) : i = j,
         c.kind = "RESERVE" => ReserveRule(h, c),
         c.kind \in Closing => CloseRule(h, c)
  PROVE  ClosingsSpaced(Append(h, c)) /\ OpenSpaced(Append(h, c))
<1> DEFINE g == Append(h, c)
           n == Len(h) + 1
<1>1. /\ n \in Nat /\ n \notin DOMAIN h /\ g[n] = c
      /\ \A i \in DOMAIN h : i \in Nat /\ i < n /\ h[i] \in Commit /\ g[i] = h[i]
  BY OneMore
<1>2. \A x : ClosingsOf(g, x) =
        ClosingsOf(h, x) \cup (IF c.kind \in Closing /\ c.target = x THEN {n} ELSE {})
  BY OneMoreClosing
<1>3. \A i \in Open(g) : i \in Open(h) \/ (i = n /\ c.kind = "RESERVE")
  BY OneMoreClosing
<1>4. \A i \in DOMAIN h : h[i].kind \in {"RESERVE"} \cup Closing =>
        h[i].at \in Nat /\ h[i].interval \in Nat /\ h[i].target \in Target
  BY <1>1, TimesAreNumbers
<1>5. \A x : \A k \in ClosingsOf(h, x) :
        /\ k \in DOMAIN h /\ k \in Nat /\ k < n
        /\ h[k].at \in Nat /\ h[k].interval \in Nat /\ h[k].target \in Target /\ x = h[k].target
  BY <1>1, <1>4 DEF ClosingsOf
<1>6. \A i \in Open(h) :
        /\ i \in DOMAIN h /\ i \in Nat /\ i < n
        /\ h[i].at \in Nat /\ h[i].interval \in Nat /\ h[i].target \in Target
  BY <1>1, <1>4 DEF Open
<1>7. c.kind \in {"RESERVE"} \cup Closing =>
        c.at \in Nat /\ c.interval \in Nat /\ c.target \in Target
  BY TimesAreNumbers
<1> HIDE DEF g, n
\* A closing is as late as the reservation it closes.
<1>8. ASSUME c.kind \in Closing, NEW k \in ClosingsOf(h, c.target)
      PROVE  c.at >= h[k].at + h[k].interval
  <2>1. PICK i \in Open(h) : h[i].at <= c.at /\ h[i].target = c.target
    BY <1>8 DEF CloseRule, Pending
  <2> QED BY <1>5, <1>6, <1>7, <1>8, <2>1 DEF OpenSpaced
\* A reservation is an interval later than the last closing, and so than each.
<1>9. ASSUME c.kind = "RESERVE", NEW k \in ClosingsOf(h, c.target)
      PROVE  c.at >= h[k].at + h[k].interval /\ c.at >= h[k].at + c.interval
  <2>1. PICK l \in Last(ClosingsOf(h, c.target)) : TRUE
    BY <1>7, <1>9 DEF ClosingsSpaced
  <2>2. l \in ClosingsOf(h, c.target) /\ k <= l
    BY <1>9, <2>1 DEF Last
  <2>3. c.at >= h[l].at + h[l].interval /\ c.at >= h[l].at + c.interval
    BY <1>5, <1>7, <1>9, <2>1, <2>2 DEF ReserveRule, Cadence
  <2>4. k = l \/ h[l].at >= h[k].at + h[k].interval
    BY <1>5, <1>7, <1>9, <2>2 DEF ClosingsSpaced
  <2> QED BY <1>5, <1>7, <1>9, <2>2, <2>3, <2>4
<1>10. ClosingsSpaced(g)
  <2> SUFFICES ASSUME NEW x \in Target
               PROVE  /\ ClosingsOf(g, x) # {} => Last(ClosingsOf(g, x)) # {}
                      /\ \A k, l \in ClosingsOf(g, x) : k < l => g[l].at >= g[k].at + g[k].interval
    BY DEF ClosingsSpaced
  <2>1. CASE c.kind \in Closing /\ c.target = x
    <3>1. n \in Last(ClosingsOf(g, x))
      BY <1>1, <1>2, <1>5, <2>1 DEF Last
    <3>2. ASSUME NEW k \in ClosingsOf(g, x), NEW l \in ClosingsOf(g, x), k < l
          PROVE  g[l].at >= g[k].at + g[k].interval
      <4>1. k \in ClosingsOf(h, x) /\ g[k] = h[k]
        BY <1>1, <1>2, <1>5, <2>1, <3>2
      <4>2. CASE l = n
        BY <1>1, <1>8, <2>1, <4>1, <4>2
      <4>3. CASE l \in ClosingsOf(h, x)
        BY <1>1, <1>5, <3>2, <4>1, <4>3 DEF ClosingsSpaced
      <4> QED BY <1>2, <3>2, <4>2, <4>3
    <3> QED BY <3>1, <3>2
  <2>2. CASE ~(c.kind \in Closing /\ c.target = x)
    <3>1. ClosingsOf(g, x) = ClosingsOf(h, x)
      BY <1>2, <2>2
    <3>2. \A k \in ClosingsOf(h, x) : g[k] = h[k]
      BY <1>1, <1>5
    <3> QED BY <3>1, <3>2 DEF ClosingsSpaced
  <2> QED BY <2>1, <2>2
<1>11. OpenSpaced(g)
  <2> SUFFICES ASSUME NEW i \in Open(g), NEW k \in ClosingsOf(g, g[i].target)
               PROVE  g[i].at >= g[k].at + g[k].interval /\ g[i].at >= g[k].at + g[i].interval
    BY DEF OpenSpaced
  <2>1. CASE i = n /\ c.kind = "RESERVE"
    <3>1. k \in ClosingsOf(h, c.target)
      BY <1>1, <1>2, <2>1 DEF Closing
    <3> QED BY <1>1, <1>5, <1>9, <2>1, <3>1
  <2>2. CASE i \in Open(h) /\ c.kind \in Closing
    \* The one that was open is closed by it.
    <3>1. PICK j \in Open(h) : h[j].attempt = c.attempt
      BY <2>2 DEF CloseRule, Pending
    <3>2. h[i].attempt = c.attempt
      BY <2>2, <3>1
    <3>3. i \notin Open(g)
      BY <2>2, <3>2, OpenAfterClose DEF g
    <3> QED BY <3>3
  <2>3. CASE i \in Open(h) /\ c.kind \notin Closing
    BY <1>1, <1>2, <1>5, <1>6, <2>3 DEF OpenSpaced
  <2> QED BY <1>3, <2>1, <2>2, <2>3
<1> QED BY <1>10, <1>11 DEF g

\* A step that leaves the branch and the requests alone keeps the pace, if what
\* it puts into somebody's hands is dated by a clock it reads now.
LEMMA PacedStill ==
  ASSUME Hands, Paced, remote' = remote, sends' = sends, clock' \in Nat, clock' >= clock,
         \A e \in Executor : pc'[e] \in {"reserved", "verified", "sending"} =>
           pc[e] \in {"reserved", "verified", "sending"} /\ base'[e] = base[e],
         \A e \in Executor : pc'[e] = "reserving" =>
           \/ pc[e] = "reserving" /\ staged'[e] = staged[e]
           \/ staged'[e].at \in Nat /\ staged'[e].at <= clock + Skew,
         \A e \in Executor : pc'[e] = "closing" =>
           \/ pc[e] = "closing" /\ staged'[e] = staged[e]
           \/ staged'[e].at \in Nat /\ staged'[e].at + Skew >= clock,
         \A o \in Operator : pc'[o] = "staged" /\ staged'[o].kind = "RECOVER" =>
           \/ pc[o] = "staged" /\ staged'[o] = staged[o]
           \/ staged'[o].at \in Nat /\ staged'[o].at + Skew >= clock
  PROVE  Paced'
<1>0. /\ clock \in Nat /\ Skew \in Nat
      /\ \A s \in sends : s.time \in Nat /\ s.time <= clock
      /\ \A i \in Open(remote) : remote[i].at \in Nat
      /\ \A e \in Executor : pc[e] = "reserving" => staged[e].at \in Nat
  <2>1. \A i \in Open(remote) : remote[i] \in Commit /\ remote[i].kind = "RESERVE"
    BY DEF Hands, TypeOK, History, Open
  <2>2. \A e \in Executor : pc[e] = "reserving" => staged[e] \in ReserveCommit
    BY DEF Hands, StagedByRun, ReserveAllowed, ReserveRule
  <2> QED BY <2>1, <2>2, TimesAreNumbers, BoundAssumption
          DEF Hands, TypeOK, Paced, Recorded, ReserveCommit, Time
<1>1. (ClosingsSpaced(remote) /\ OpenSpaced(remote))'
  BY DEF Paced
<1>2. ReservationKept'
  BY DEF Paced, ReservationKept
<1>3. ReservedByNow'
  <2>1. \A i \in Open(remote) : remote[i].at <= clock' + Skew
    BY <1>0 DEF Paced, ReservedByNow
  <2>2. ASSUME NEW e \in Executor, pc'[e] = "reserving"
        PROVE  staged'[e].at <= clock' + Skew
    <3>1. CASE pc[e] = "reserving" /\ staged'[e] = staged[e]
      BY <1>0, <3>1 DEF Paced, ReservedByNow
    <3>2. CASE staged'[e].at \in Nat /\ staged'[e].at <= clock + Skew
      BY <1>0, <3>2
    <3> QED BY <1>0, <2>2, <3>1, <3>2
  <2> QED BY <2>1, <2>2 DEF ReservedByNow
<1>4. ASSUME NEW s \in sends
      PROVE  Recorded(s)'
  <2>1. Recorded(s)
    BY DEF Paced
  <2>2. s.time <= clock'
    BY <1>0
  <2>3. ASSUME NEW e \in Executor, pc'[e] = "closing", staged'[e].attempt = s.attempt
        PROVE  staged'[e].at + Skew >= s.time
    BY <1>0, <2>1, <2>3 DEF Recorded
  <2>4. ASSUME NEW o \in Operator, pc'[o] = "staged", staged'[o].kind = "RECOVER",
               staged'[o].attempt = s.attempt
        PROVE  staged'[o].at + Skew >= s.time
    BY <1>0, <2>1, <2>4 DEF Recorded
  <2> QED BY <2>1, <2>2, <2>3, <2>4 DEF Recorded
<1>5. CadenceRespected'
  BY DEF Paced, CadenceRespected, Gap
<1> QED BY <1>1, <1>2, <1>3, <1>4, <1>5 DEF Paced

\* A push keeps the pace: process p appends what it has staged, a reservation
\* that is no later than now, or a closing no earlier than its request.
LEMMA PacedPush ==
  ASSUME Hands, Ledger, Paced, NEW p \in Process, NEW c \in Commit,
         remote' = Append(remote, c), sends' = sends, clock' = clock,
         \A q \in Process \ {p} :
           pc'[q] = pc[q] /\ staged'[q] = staged[q] /\ base'[q] = base[q],
         pc'[p] \notin {"reserving", "verified", "sending", "closing", "staged"},
         pc'[p] = "reserved" => base'[p] = remote',
         c.kind = "RESERVE" => ReserveRule(remote, c) /\ c.at <= clock + Skew,
         c.kind \in Closing =>
           CloseRule(remote, c)
           /\ \A s \in sends : s.attempt = c.attempt => c.at + Skew >= s.time
  PROVE  Paced'
<1> DEFINE n == Len(remote) + 1
<1>0. /\ remote \in History
      /\ n \in Nat /\ DOMAIN remote' = DOMAIN remote \cup {n} /\ remote'[n] = c
      /\ Len(remote') = n
      /\ \A i \in DOMAIN remote : remote'[i] = remote[i]
  <2>1. remote \in History
    BY DEF Hands, TypeOK
  <2> QED BY <2>1, OneMore
<1> HIDE DEF n
<1>1. (ClosingsSpaced(remote) /\ OpenSpaced(remote))'
  BY <1>0, SpacedAfter DEF Paced, Ledger, OneOpen
<1>2. ReservationKept'
  <2> SUFFICES ASSUME NEW e \in Executor, pc'[e] \in {"reserved", "verified", "sending"}
               PROVE  \E i \in DOMAIN remote' : remote'[i] = base'[e][Len(base'[e])]
    BY DEF ReservationKept
  <2>1. CASE e = p
    BY <1>0, <2>1
  <2>2. CASE e # p
    BY <1>0, <2>2 DEF Paced, ReservationKept, Process
  <2> QED BY <2>1, <2>2
<1>3. ReservedByNow'
  <2>1. ASSUME NEW i \in Open(remote')
        PROVE  remote'[i].at <= clock + Skew
    <3>1. i \in Open(remote) \/ (i = n /\ c.kind = "RESERVE")
      BY <1>0, OneMoreClosing DEF n
    <3>2. i \in Open(remote) => i \in DOMAIN remote
      BY DEF Open
    <3> QED BY <1>0, <3>1, <3>2 DEF Paced, ReservedByNow
  <2> QED BY <2>1 DEF Paced, ReservedByNow, Process
<1>4. ASSUME NEW s \in sends
      PROVE  Recorded(s)'
  <2>1. Recorded(s)
    BY DEF Paced
  <2>2. ASSUME NEW i \in DOMAIN remote', remote'[i].kind \in {"RESERVE"} \cup Closing,
               remote'[i].attempt = s.attempt
        PROVE  /\ OfRequest(remote'[i], s)
               /\ remote'[i].kind \in Closing => remote'[i].at + Skew >= s.time
    <3>1. CASE i \in DOMAIN remote
      BY <1>0, <2>1, <2>2, <3>1 DEF Recorded
    <3>2. CASE i = n /\ c.kind = "RESERVE"
      BY <1>0, <2>1, <2>2, <3>2 DEF Recorded, ReserveRule
    <3>3. CASE i = n /\ c.kind \in Closing
      <4>1. PICK j \in Open(remote) : /\ remote[j].attempt = c.attempt
                                      /\ remote[j].target = c.target
                                      /\ remote[j].interval = c.interval
        BY <3>3 DEF CloseRule, Pending
      <4>2. OfRequest(remote[j], s)
        BY <1>0, <2>1, <2>2, <3>3, <4>1 DEF Recorded, Open
      <4> QED BY <1>0, <2>2, <3>3, <4>1, <4>2 DEF OfRequest
    <3> QED BY <1>0, <2>2, <3>1, <3>2, <3>3
  <2>3. \E i \in DOMAIN remote' : remote'[i].kind = "RESERVE" /\ remote'[i].attempt = s.attempt
    BY <1>0, <2>1 DEF Recorded
  <2>4. /\ \A e \in Executor : pc'[e] = "closing" => pc[e] = "closing" /\ staged'[e] = staged[e]
        /\ \A o \in Operator : pc'[o] = "staged" => pc[o] = "staged" /\ staged'[o] = staged[o]
    BY DEF Process
  <2> QED BY <2>1, <2>2, <2>3, <2>4 DEF Recorded
<1>5. CadenceRespected'
  BY DEF Paced, CadenceRespected, Gap
<1> QED BY <1>1, <1>2, <1>3, <1>4, <1>5 DEF Paced

\* A request that leaves is an interval later than those before it, since its
\* reservation is that much later than whatever closed them.
LEMMA PacedSend ==
  ASSUME Hands, Ledger, SendsDrawn, Paced, NEW e \in Executor, Send(e)
  PROVE  Paced'
<1> DEFINE r == base[e][Len(base[e])]
           new == [attempt |-> r.attempt, target |-> r.target,
                   interval |-> r.interval, time |-> clock]
<1>0. /\ pc[e] = "verified" /\ sends' = sends \cup {new}
      /\ clock \in Nat /\ Skew \in Nat
      /\ remote' = remote /\ staged' = staged /\ clock' = clock /\ base' = base
      /\ pc' = [pc EXCEPT ![e] = "sending"] /\ e \in Process /\ e \notin Operator
      /\ DOMAIN pc = Process
  BY OperatorAssumption, BoundAssumption DEF Hands, TypeOK, Send, Goto, Process
<1>1. r.attempt = Current(e) /\ r.kind = "RESERVE"
  BY <1>0 DEF Hands, HeadOfRun, ReserveCommit
\* Its reservation is the open one.
<1>2. PICK i \in Open(remote) : remote[i].attempt = Current(e)
  BY <1>0 DEF Ledger, SendHoldsGate, Holding
<1>3. remote[i] = r
  <2>1. PICK j \in DOMAIN remote : remote[j] = r
    BY <1>0 DEF Paced, ReservationKept
  <2>2. j \in Open(remote)
    BY <1>1, <1>2, <2>1 DEF Open
  <2> QED BY <1>2, <2>1, <2>2 DEF Ledger, OneOpen
<1>4. /\ i \in DOMAIN remote /\ remote[i].kind = "RESERVE"
      /\ ~IsClosed(remote, r.attempt)
      /\ r.at \in Nat /\ r.interval \in Nat /\ r.at <= clock + Skew
  <2>1. remote[i] \in Commit /\ i \in DOMAIN remote
    BY <1>2 DEF Hands, TypeOK, History, Open
  <2> QED BY <1>1, <1>2, <1>3, <2>1, TimesAreNumbers DEF Open, Paced, ReservedByNow
<1>5. /\ \A j \in Open(remote) : remote[j].attempt = r.attempt
      /\ \A j \in DOMAIN remote :
           remote[j].kind \in {"RESERVE"} \cup Closing /\ remote[j].attempt = r.attempt =>
             remote[j] = r /\ remote[j].kind \notin Closing
  <2>1. \A j \in Open(remote) : j = i
    BY <1>2 DEF Ledger, OneOpen
  <2>2. ASSUME NEW j \in DOMAIN remote, remote[j].kind \in {"RESERVE"} \cup Closing,
               remote[j].attempt = r.attempt
        PROVE  remote[j] = r /\ remote[j].kind \notin Closing
    <3>1. remote[j].kind = "RESERVE"
      BY <1>4, <2>2 DEF IsClosed
    <3>2. j \in Open(remote)
      BY <1>4, <2>2, <3>1 DEF Open
    <3> QED BY <1>3, <2>1, <3>1, <3>2 DEF Closing
  <2> QED BY <1>1, <1>2, <2>1, <2>2
<1>6. /\ \A f \in Executor : pc'[f] = "closing" => pc[f] = "closing"
      /\ \A f \in Executor : pc'[f] = "reserving" => pc[f] = "reserving"
      /\ \A f \in Executor : pc'[f] \in {"reserved", "verified", "sending"} =>
           pc[f] \in {"reserved", "verified", "sending"}
      /\ \A o \in Operator : pc'[o] = pc[o]
  BY <1>0 DEF Process
\* The requests before it were of other attempts, which are closed.
<1>7. ASSUME NEW s \in sends, s.target = r.target
      PROVE  /\ clock >= s.time
             /\ clock - s.time >= s.interval - 2 * Skew
             /\ clock - s.time >= r.interval - 2 * Skew
  <2>0. s.time \in Nat /\ s.interval \in Nat /\ s.attempt \in Attempt
    BY IntervalAssumption DEF Hands, TypeOK
  <2>1. s.attempt # r.attempt
    <3>1. s.attempt[1] = e => s.attempt[2] < tries[e]
      BY <1>0 DEF SendsDrawn
    <3>2. tries[e] \in Nat
      BY <1>0, MaxAttemptsAssumption DEF Hands, TypeOK
    <3> QED BY <1>1, <3>1, <3>2 DEF Current
  <2>2. PICK j \in DOMAIN remote : remote[j].kind = "RESERVE" /\ remote[j].attempt = s.attempt
    BY DEF Paced, Recorded
  <2>3. IsClosed(remote, s.attempt)
    BY <1>5, <2>1, <2>2 DEF Open
  <2>4. PICK k \in DOMAIN remote : remote[k].kind \in Closing /\ remote[k].attempt = s.attempt
    BY <2>3 DEF IsClosed
  <2>5. OfRequest(remote[k], s) /\ remote[k].at + Skew >= s.time
    BY <2>4 DEF Paced, Recorded
  <2>6. remote[k].at \in Nat
    <3>1. remote[k] \in Commit
      BY DEF Hands, TypeOK, History
    <3> QED BY <2>4, <3>1, TimesAreNumbers
  <2>7. k \in ClosingsOf(remote, r.target)
    BY <1>7, <2>4, <2>5 DEF ClosingsOf, OfRequest
  <2>8. r.at >= remote[k].at + s.interval /\ r.at >= remote[k].at + r.interval
    BY <1>2, <1>3, <2>5, <2>7 DEF Paced, OpenSpaced, OfRequest
  <2>9. clock >= s.time
    BY DEF Paced, Recorded
  <2> HIDE DEF r
  <2> QED BY <1>0, <1>4, <2>0, <2>5, <2>6, <2>8, <2>9
<1>8. ASSUME NEW s, s = new
      PROVE  Recorded(s)'
  <2>1. \A f \in Executor : ~(pc[f] = "closing" /\ staged[f].attempt = r.attempt)
    <3>1. ASSUME NEW f \in Executor, pc[f] = "closing", staged[f].attempt = r.attempt
          PROVE  FALSE
      <4>1. Current(f) = Current(e)
        BY <1>1, <3>1 DEF Hands, StagedByRun
      <4> QED BY <1>0, <3>1, <4>1 DEF Current
    <3> QED BY <3>1
  <2>2. \A o \in Operator :
          ~(pc[o] = "staged" /\ staged[o].kind = "RECOVER" /\ staged[o].attempt = r.attempt)
    <3>1. ASSUME NEW o \in Operator, pc[o] = "staged", staged[o].kind = "RECOVER",
                 staged[o].attempt = r.attempt
          PROVE  FALSE
      <4>1. pc[staged[o].attempt[1]] = "stopped"
        BY <3>1 DEF Hands, StagedByCommand, GrantRule, RevokeRule, VersionAllowed, GrantCommit,
           RevokeCommit, VersionCommit
      <4> QED BY <1>0, <1>1, <3>1, <4>1 DEF Current
    <3> QED BY <3>1
  <2>3. /\ s.time = clock /\ s.attempt = r.attempt
        /\ s.target = r.target /\ s.interval = r.interval
    BY <1>8
  <2> HIDE DEF r, new
  <2>4. \A f \in Executor :
          pc'[f] = "closing" /\ staged'[f].attempt = s.attempt => staged'[f].at + Skew >= s.time
    BY <1>0, <1>6, <2>1, <2>3
  <2>5. \A o \in Operator :
          pc'[o] = "staged" /\ staged'[o].kind = "RECOVER" /\ staged'[o].attempt = s.attempt =>
            staged'[o].at + Skew >= s.time
    BY <1>0, <1>6, <2>2, <2>3
  <2>6. \A j \in DOMAIN remote' :
          remote'[j].kind \in {"RESERVE"} \cup Closing /\ remote'[j].attempt = s.attempt =>
            /\ OfRequest(remote'[j], s)
            /\ remote'[j].kind \in Closing => remote'[j].at + Skew >= s.time
    BY <1>0, <1>5, <2>3 DEF OfRequest
  <2>7. /\ s.time <= clock'
        /\ \E j \in DOMAIN remote' : remote'[j].kind = "RESERVE" /\ remote'[j].attempt = s.attempt
    BY <1>0, <1>3, <1>4, <2>3
  <2> QED BY <2>4, <2>5, <2>6, <2>7 DEF Recorded
<1>9. \A s \in sends : Recorded(s)'
  BY <1>0, <1>6 DEF Paced, Recorded
<1>10. CadenceRespected'
  <2> SUFFICES ASSUME NEW s \in sends', NEW t \in sends', s # t, s.target = t.target
               PROVE  /\ Gap(s, t) >= s.interval - 2 * Skew
                      /\ Gap(s, t) >= t.interval - 2 * Skew
    BY DEF CadenceRespected, Gap
  <2>0. /\ \A u \in sends : u.time \in Nat /\ u.interval \in Nat
        /\ new.time = clock /\ new.target = r.target /\ new.interval = r.interval
    BY IntervalAssumption DEF Hands, TypeOK
  <2> HIDE DEF r, new
  <2>1. CASE s \in sends /\ t \in sends
    BY <2>1 DEF Paced, CadenceRespected
  <2>2. CASE s \in sends /\ t = new
    BY <1>0, <1>4, <1>7, <2>0, <2>2 DEF Gap
  <2>3. CASE s = new /\ t \in sends
    BY <1>0, <1>4, <1>7, <2>0, <2>3 DEF Gap
  <2> QED BY <1>0, <2>1, <2>2, <2>3
<1>11. ReservationKept' /\ ReservedByNow' /\ (ClosingsSpaced(remote) /\ OpenSpaced(remote))'
  BY <1>0, <1>6 DEF Paced, ReservationKept, ReservedByNow
<1> QED BY <1>0, <1>8, <1>9, <1>10, <1>11 DEF Paced

\* A closing in a run's hands, or a recovery in an operator's, is no earlier
\* than the request it closes.
LEMMA StagedClosing ==
  ASSUME Paced, NEW s \in sends
  PROVE  /\ \A e \in Executor :
              pc[e] = "closing" /\ staged[e].attempt = s.attempt => staged[e].at + Skew >= s.time
         /\ \A o \in Operator :
              pc[o] = "staged" /\ staged[o].kind = "RECOVER" /\ staged[o].attempt = s.attempt =>
                staged[o].at + Skew >= s.time
BY DEF Paced, Recorded

LEMMA RunKeepsPace ==
  ASSUME Hands, Ledger, SendsDrawn, Paced, NEW e \in Executor,
         ExecutorStep(e) \/ Crash(e) \/ LoseAck(e)
  PROVE  Paced'
<1>0. /\ e \in Process /\ e \notin Operator /\ clock \in Nat /\ Skew \in Nat
      /\ DOMAIN pc = Process /\ DOMAIN staged = Process /\ DOMAIN base = Process
      /\ \A t \in Reading : t \in Nat /\ t <= clock + Skew /\ t + Skew >= clock
  BY OperatorAssumption, BoundAssumption DEF Hands, TypeOK, Process, Reading, Time
<1> DEFINE Apart == \A q \in Process \ {e} :
             pc'[q] = pc[q] /\ staged'[q] = staged[q] /\ base'[q] = base[q]
<1>1. CASE Send(e)
  BY <1>1, PacedSend
<1>2. CASE Reserve(e)
  <2>1. PICK a \in Authorization, t \in Reading :
          \E i \in CurrentGrant(base[e], a) :
            staged' = [staged EXCEPT ![e] = Reservation(e, a, t, i)]
    BY <1>2 DEF Reserve
  <2>2. /\ remote' = remote /\ sends' = sends /\ clock' = clock /\ base' = base
        /\ pc' = [pc EXCEPT ![e] = "reserving"]
    BY <1>2 DEF Reserve, Goto
  <2>3. staged'[e].at = t /\ \A q \in Process \ {e} : staged'[q] = staged[q]
    BY <1>0, <2>1 DEF Reservation
  <2> QED BY <1>0, <2>2, <2>3, PacedStill DEF Process
<1>3. CASE Close(e)
  <2>1. PICK t \in Reading, status \in {"SUCCESS", "FAILED"} :
          staged' = [staged EXCEPT ![e] =
            ClosingOf(base[e][Len(base[e])], t, "COMPLETE", status)]
    BY <1>3 DEF Close
  <2>2. /\ remote' = remote /\ sends' = sends /\ clock' = clock /\ base' = base
        /\ pc' = [pc EXCEPT ![e] = "closing"]
    BY <1>3 DEF Close, Goto
  <2>3. staged'[e].at = t /\ \A q \in Process \ {e} : staged'[q] = staged[q]
    BY <1>0, <2>1 DEF ClosingOf
  <2> QED BY <1>0, <2>2, <2>3, PacedStill DEF Process
<1>4. CASE \/ CloneRemote(e) \/ VerifyHead(e) \/ Settle(e) \/ Finish(e)
           \/ StaleHead(e) \/ DenyReserve(e) \/ DenyClose(e) \/ Crash(e)
  <2>1. /\ remote' = remote /\ sends' = sends /\ clock' = clock
        /\ Apart
        /\ pc'[e] \notin {"reserved", "sending", "reserving", "closing"}
        /\ pc'[e] = "verified" => pc[e] = "reserved" /\ base'[e] = base[e]
    BY <1>0, <1>4 DEF CloneRemote, VerifyHead, Settle, Finish, StaleHead, DenyReserve, DenyClose,
       Crash, Halt, Goto, Discard
  <2> QED BY <1>0, <2>1, PacedStill DEF Process
<1>5. CASE PushIntent(e) \/ PushReserve(e) \/ PushClose(e) \/ PushOutcome(e) \/ LoseAck(e)
  <2>1. /\ remote = base[e] /\ remote' = Append(remote, staged[e])
        /\ sends' = sends /\ clock' = clock /\ Apart
        /\ pc[e] \in {"declaring", "reserving", "closing", "settling"}
        /\ pc'[e] \in {"ready", "reserved", "done", "stopped"}
        /\ pc'[e] = "reserved" => base'[e] = remote'
    BY <1>0, <1>5 DEF PushIntent, PushReserve, PushClose, PushOutcome, LoseAck, Push, Goto, Discard
  <2>2. staged[e] \in Commit
    BY <2>1, StagedIsCommit
  <2>3. CASE pc[e] \in {"declaring", "settling"}
    <3>1. staged[e].kind \notin {"RESERVE"} \cup Closing
      BY <2>3 DEF Hands, StagedByRun, RunCommit, Closing
    <3> QED BY <1>0, <2>1, <2>2, <3>1, PacedPush
  <2>4. CASE pc[e] = "reserving"
    <3>1. ReserveRule(remote, staged[e]) /\ staged[e].kind = "RESERVE"
      BY <2>1, <2>4 DEF Hands, StagedByRun, ReserveAllowed, ReserveRule, ReserveCommit
    <3>2. staged[e].at <= clock + Skew
      BY <2>4 DEF Paced, ReservedByNow
    <3> QED BY <1>0, <2>1, <2>2, <3>1, <3>2, PacedPush DEF Closing
  <2>5. CASE pc[e] = "closing"
    <3>1. CloseRule(remote, staged[e]) /\ staged[e].kind # "RESERVE"
      BY <2>1, <2>5 DEF Hands, StagedByRun, CloseCommit
    <3>2. \A s \in sends : s.attempt = staged[e].attempt => staged[e].at + Skew >= s.time
      BY <2>5, StagedClosing
    <3> QED BY <1>0, <2>1, <2>2, <3>1, <3>2, PacedPush
  <2> QED BY <2>1, <2>3, <2>4, <2>5
<1> QED BY <1>1, <1>2, <1>3, <1>4, <1>5 DEF ExecutorStep

LEMMA CommandKeepsPace ==
  ASSUME Hands, Ledger, Paced, NEW o \in Operator, OperatorStep(o)
  PROVE  Paced'
<1>0. /\ o \in Process /\ o \notin Executor /\ clock \in Nat /\ Skew \in Nat
      /\ DOMAIN pc = Process /\ DOMAIN staged = Process /\ DOMAIN base = Process
      /\ \A t \in Reading : t \in Nat /\ t + Skew >= clock
  BY OperatorAssumption, BoundAssumption DEF Hands, TypeOK, Process, Reading, Time
<1>1. ASSUME NEW c, Stage(o, c), c.kind = "RECOVER" => c.at \in Nat /\ c.at + Skew >= clock
      PROVE  Paced'
  <2>1. /\ remote' = remote /\ sends' = sends /\ clock' = clock
        /\ \A q \in Process \ {o} : pc'[q] = pc[q] /\ staged'[q] = staged[q] /\ base'[q] = base[q]
        /\ staged'[o] = c
    BY <1>0, <1>1 DEF Stage, Goto
  <2> QED BY <1>0, <1>1, <2>1, PacedStill DEF Process
<1>2. CASE Issue(o)
  BY <1>1, <1>2 DEF Issue
<1>3. CASE Revoke(o)
  BY <1>1, <1>3 DEF Revoke
<1>4. CASE Revise(o)
  BY <1>1, <1>4 DEF Revise
<1>5. CASE Recover(o)
  <2>1. PICK i \in Open(remote), t \in Reading :
          Stage(o, ClosingOf(remote[i], t, "RECOVER", "FENCED_UNKNOWN"))
    BY <1>5 DEF Recover
  <2>2. ClosingOf(remote[i], t, "RECOVER", "FENCED_UNKNOWN").at = t
    BY DEF ClosingOf
  <2> QED BY <1>0, <1>1, <2>1, <2>2
<1>6. CASE DropCommand(o)
  <2>1. /\ remote' = remote /\ sends' = sends /\ clock' = clock
        /\ \A q \in Process \ {o} : pc'[q] = pc[q] /\ staged'[q] = staged[q] /\ base'[q] = base[q]
        /\ pc'[o] = "idle"
    BY <1>0, <1>6 DEF DropCommand, Goto, Discard
  <2> QED BY <1>0, <2>1, PacedStill DEF Process
<1>7. CASE PushCommand(o)
  <2>1. /\ remote = base[o] /\ remote' = Append(remote, staged[o])
        /\ sends' = sends /\ clock' = clock /\ pc[o] = "staged" /\ pc'[o] = "idle"
        /\ \A q \in Process \ {o} : pc'[q] = pc[q] /\ staged'[q] = staged[q] /\ base'[q] = base[q]
    BY <1>0, <1>7 DEF PushCommand, Push, Goto
  <2>2. staged[o] \in Commit
    BY <2>1, StagedIsCommit
  <2>3. staged[o].kind # "RESERVE" /\ (staged[o].kind \in Closing =>
          staged[o].kind = "RECOVER" /\ CloseRule(remote, staged[o]))
    BY <2>1 DEF Hands, StagedByCommand, GrantRule, RevokeRule, VersionAllowed, GrantCommit,
       RevokeCommit, VersionCommit, RecoverCommit, Closing
  <2>4. \A s \in sends : staged[o].kind = "RECOVER" /\ s.attempt = staged[o].attempt =>
          staged[o].at + Skew >= s.time
    BY <2>1, StagedClosing
  <2> QED BY <1>0, <2>1, <2>2, <2>3, <2>4, PacedPush
<1> QED BY <1>2, <1>3, <1>4, <1>5, <1>6, <1>7 DEF OperatorStep

LEMMA PacedInductive ==
  (Init => Paced) /\ (Hands /\ Ledger /\ SendsDrawn /\ Paced /\ [Next]_vars => Paced')
<1>1. Init => Paced
  BY BoundAssumption
     DEF Init, Paced, ClosingsSpaced, ClosingsOf, OpenSpaced, Open, ReservationKept,
         ReservedByNow, CadenceRespected, Process
<1>2. ASSUME Hands, Ledger, SendsDrawn, Paced, [Next]_vars PROVE Paced'
  <2>1. CASE \E e \in Executor : ExecutorStep(e) \/ Crash(e) \/ LoseAck(e)
    BY <1>2, <2>1, RunKeepsPace
  <2>2. CASE \E o \in Operator : OperatorStep(o)
    BY <1>2, <2>2, CommandKeepsPace
  <2>3. CASE Tick \/ UNCHANGED vars
    <3>1. /\ UNCHANGED <<remote, base, staged, pc, sends>>
          /\ clock \in Nat /\ clock' \in Nat /\ clock' >= clock
      BY <1>2, <2>3 DEF Hands, TypeOK, Tick, vars
    <3> QED BY <1>2, <3>1, PacedStill
  <2> QED BY <1>2, <2>1, <2>2, <2>3 DEF Next
<1> QED BY <1>1, <1>2

\* Requests of one target keep the granted cadence in real time, up to twice
\* the skew, in every history: through re-issued grants, other runs and
\* authorizations, failures and recoveries (reserveContinuousRecord compares
\* recorded times and never sees when a request left).
THEOREM CadenceHolds == Spec => []CadenceRespected
<1>1. Paced => CadenceRespected
  BY DEF Paced
<1> QED BY <1>1, HandsInductive, LedgerHolds, SendsDrawnInductive, PacedInductive, PTL DEF Spec
=============================================================================
