------------------------- MODULE ContinuousGateProofs -------------------------
(***************************************************************************)
(* Theorems of ContinuousGate for any sets of runs, operators, sources,    *)
(* authorizations and targets and any bounds: what one more commit does to *)
(* the ledger (lemmas about Append and the operators of ContinuousRecords) *)
(* and what each process has in its hands.                                 *)
(***************************************************************************)
EXTENDS ContinuousGate, TLAPS

-----------------------------------------------------------------------------
(* The ledger and one more commit.                                         *)

\* The kind of a commit tells which record it is.
LEMMA CommitKind ==
  ASSUME NEW c \in Commit
  PROVE  /\ c.kind = "GRANT" => c \in GrantCommit
         /\ c.kind = "REVOKE" => c \in RevokeCommit
         /\ c.kind = "RESERVE" => c \in ReserveCommit
         /\ c.kind = "COMPLETE" => c \in CloseCommit
         /\ c.kind = "RECOVER" => c \in RecoverCommit
         /\ c.kind = "VERSION" => c \in VersionCommit
         /\ c.kind \in {"INTENT", "OUTCOME"} => c \in RunCommit
         /\ c.kind \in RecordKind \cup {"VERSION", "INTENT", "OUTCOME"}
BY DEF Commit, RecordCommit, GrantCommit, RevokeCommit, ReserveCommit, CloseCommit,
       RecoverCommit, VersionCommit, RunCommit, RecordKind, Closing

\* A reservation and a closing name an attempt.
LEMMA NamesAttempt ==
  ASSUME NEW c \in Commit, c.kind \in {"RESERVE"} \cup Closing
  PROVE  c.attempt \in Attempt
BY CommitKind DEF ReserveCommit, CloseCommit, RecoverCommit, Closing

\* A history and one more commit.
LEMMA OneMore ==
  ASSUME NEW h \in History, NEW c \in Commit
  PROVE  /\ Append(h, c) \in History
         /\ Len(Append(h, c)) = Len(h) + 1
         /\ Len(h) \in Nat
         /\ DOMAIN h = 1 .. Len(h)
         /\ DOMAIN Append(h, c) = DOMAIN h \cup {Len(h) + 1}
         /\ \A i \in DOMAIN h : i \in Nat /\ i < Len(h) + 1 /\ h[i] \in Commit
                                /\ Append(h, c)[i] = h[i]
         /\ Append(h, c)[Len(h) + 1] = c
         /\ Len(h) + 1 \notin DOMAIN h
BY DEF History

\* A closing closes its own attempt; no other commit closes any.
LEMMA ClosedAfter ==
  ASSUME NEW h \in History, NEW c \in Commit, NEW x
  PROVE  IsClosed(Append(h, c), x)
           <=> IsClosed(h, x) \/ (c.kind \in Closing /\ c.attempt = x)
<1> DEFINE g == Append(h, c)
           n == Len(h) + 1
<1>1. /\ DOMAIN g = DOMAIN h \cup {n}
      /\ g[n] = c
      /\ \A i \in DOMAIN h : g[i] = h[i]
  BY OneMore
<1> HIDE DEF g, n
<1>2. IsClosed(g, x) <=> IsClosed(h, x) \/ (c.kind \in Closing /\ c.attempt = x)
  BY <1>1 DEF IsClosed
<1> QED BY <1>2 DEF g

\* A commit that is neither a reservation nor a closing opens and closes none.
LEMMA OpenAfterOther ==
  ASSUME NEW h \in History, NEW c \in Commit, c.kind \notin {"RESERVE"} \cup Closing
  PROVE  Open(Append(h, c)) = Open(h)
<1> DEFINE g == Append(h, c)
           n == Len(h) + 1
<1>1. /\ DOMAIN g = DOMAIN h \cup {n}
      /\ n \notin DOMAIN h
      /\ g[n] = c
      /\ \A i \in DOMAIN h : g[i] = h[i]
  BY OneMore
<1>2. \A x : IsClosed(g, x) <=> IsClosed(h, x) \/ (c.kind \in Closing /\ c.attempt = x)
  BY ClosedAfter
<1> HIDE DEF g, n
<1>3. Open(g) = Open(h)
  BY <1>1, <1>2 DEF Open, Closing
<1> QED BY <1>3 DEF g

\* A reservation of an attempt that nothing closed is open.
LEMMA OpenAfterReserve ==
  ASSUME NEW h \in History, NEW c \in Commit, c.kind = "RESERVE", ~IsClosed(h, c.attempt)
  PROVE  Open(Append(h, c)) = Open(h) \cup {Len(h) + 1}
<1> DEFINE g == Append(h, c)
           n == Len(h) + 1
<1>1. /\ DOMAIN g = DOMAIN h \cup {n}
      /\ n \notin DOMAIN h
      /\ g[n] = c
      /\ \A i \in DOMAIN h : g[i] = h[i]
  BY OneMore
<1>2. \A x : IsClosed(g, x) <=> IsClosed(h, x) \/ (c.kind \in Closing /\ c.attempt = x)
  BY ClosedAfter
<1> HIDE DEF g, n
<1>3. Open(g) = Open(h) \cup {n}
  BY <1>1, <1>2 DEF Open, Closing
<1> QED BY <1>3 DEF g, n

\* A closing leaves open what was open under other attempts.
LEMMA OpenAfterClose ==
  ASSUME NEW h \in History, NEW c \in Commit, c.kind \in Closing
  PROVE  Open(Append(h, c)) = {i \in Open(h) : h[i].attempt # c.attempt}
<1> DEFINE g == Append(h, c)
           n == Len(h) + 1
<1>1. /\ DOMAIN g = DOMAIN h \cup {n}
      /\ n \notin DOMAIN h
      /\ g[n] = c
      /\ \A i \in DOMAIN h : g[i] = h[i]
  BY OneMore
<1>2. \A x : IsClosed(g, x) <=> IsClosed(h, x) \/ (c.kind \in Closing /\ c.attempt = x)
  BY ClosedAfter
<1> HIDE DEF g, n
<1>3. Open(g) = {i \in Open(h) : h[i].attempt # c.attempt}
  BY <1>1, <1>2 DEF Open, Closing
<1> QED BY <1>3 DEF g

\* Only a grant changes what is granted, only a revocation what is revoked,
\* only a version what a source is bound to.
LEMMA AuthorityAfter ==
  ASSUME NEW h \in History, NEW c \in Commit, NEW a, NEW s
  PROVE  /\ c.kind # "GRANT" => CurrentGrant(Append(h, c), a) = CurrentGrant(h, a)
         /\ c.kind # "REVOKE" => (Revoked(Append(h, c), a) <=> Revoked(h, a))
         /\ c.kind # "VERSION" => VersionsOf(Append(h, c), s) = VersionsOf(h, s)
<1> DEFINE g == Append(h, c)
           n == Len(h) + 1
<1>0. /\ DOMAIN g = DOMAIN h \cup {n}
      /\ g[n] = c
      /\ \A i \in DOMAIN h : g[i] = h[i]
  BY OneMore
<1> HIDE DEF g, n
<1>1. c.kind # "GRANT" => GrantsOf(g, a) = GrantsOf(h, a)
  BY <1>0 DEF GrantsOf
<1>2. c.kind # "REVOKE" => (Revoked(g, a) <=> Revoked(h, a))
  BY <1>0 DEF Revoked
<1>3. c.kind # "VERSION" => VersionsOf(g, s) = VersionsOf(h, s)
  BY <1>0 DEF VersionsOf
<1> QED BY <1>1, <1>2, <1>3 DEF CurrentGrant, g

\* The same of the usability and the binding of a source.
LEMMA ContextAfter ==
  ASSUME NEW h \in History, NEW c \in Commit, NEW s, NEW n, c.kind # "VERSION"
  PROVE  /\ Usable(Append(h, c), s) <=> Usable(h, s)
         /\ IsBinding(Append(h, c), s, n) <=> IsBinding(h, s, n)
<1>1. VersionsOf(Append(h, c), s) = VersionsOf(h, s)
  BY AuthorityAfter
<1>2. \A i \in Last(VersionsOf(h, s)) : Append(h, c)[i] = h[i]
  BY OneMore DEF Last, VersionsOf
<1> QED BY <1>1, <1>2 DEF Usable, IsBinding

\* A history replays after one more commit if it replayed before and the
\* commit, if it is a record, is admitted by the rule on what was there.
LEMMA ReplayAfter ==
  ASSUME NEW h \in History, NEW c \in Commit, Replayable(h),
         c.kind \in RecordKind => RecordRule(h, c)
  PROVE  Replayable(Append(h, c))
<1> DEFINE g == Append(h, c)
<1> SUFFICES ASSUME NEW n \in DOMAIN g, g[n].kind \in RecordKind
             PROVE  RecordRule(SubSeq(g, 1, n - 1), g[n])
  BY DEF Replayable
<1>1. CASE n \in DOMAIN h
  <2>1. SubSeq(g, 1, n - 1) = SubSeq(h, 1, n - 1)
    BY <1>1, OneMore DEF History
  <2>2. g[n] = h[n]
    BY <1>1, OneMore
  <2> QED BY <1>1, <2>1, <2>2 DEF Replayable
<1>2. CASE n = Len(h) + 1
  <2>1. SubSeq(g, 1, n - 1) = h
    BY <1>2, OneMore DEF History
  <2>2. g[n] = c
    BY <1>2, OneMore
  <2> QED BY <2>1, <2>2
<1> QED BY <1>1, <1>2, OneMore

-----------------------------------------------------------------------------
(***************************************************************************)
(* What each process has in its hands: a process about to push has staged  *)
(* a commit its own base admits, and a run whose reservation is pushed has *)
(* that reservation at the head of its base.                               *)
(***************************************************************************)
StagedByRun(e) ==
  /\ pc[e] \in {"declaring", "settling"} => staged[e] \in RunCommit
  /\ pc[e] = "reserving" =>
       ReserveAllowed(base[e], staged[e]) /\ staged[e].attempt = Current(e)
  /\ pc[e] = "closing" =>
       /\ staged[e] \in CloseCommit
       /\ CloseRule(base[e], staged[e])
       /\ staged[e].attempt = Current(e)

HeadOfRun(e) ==
  pc[e] \in {"reserved", "verified", "sending"} =>
    /\ Len(base[e]) \in DOMAIN base[e]
    /\ base[e][Len(base[e])] \in ReserveCommit
    /\ base[e][Len(base[e])].attempt = Current(e)

StagedByCommand(o) ==
  pc[o] = "staged" =>
    \/ GrantRule(base[o], staged[o])
    \/ RevokeRule(base[o], staged[o])
    \/ VersionAllowed(base[o], staged[o])
    \/ /\ staged[o] \in RecoverCommit
       /\ CloseRule(base[o], staged[o])
       /\ pc[staged[o].attempt[1]] = "stopped"

Hands ==
  /\ TypeOK
  /\ \A e \in Executor : StagedByRun(e) /\ HeadOfRun(e)
  /\ \A o \in Operator : StagedByCommand(o)

-----------------------------------------------------------------------------

\* Whatever a rule admits is a commit of the ledger.
LEMMA RulesAdmitCommits ==
  /\ \A h, c : GrantRule(h, c) \/ RevokeRule(h, c) \/ ReserveRule(h, c)
                 \/ CloseRule(h, c) \/ VersionAllowed(h, c) => c \in Commit
  /\ RunCommit \cup CloseCommit \cup RecoverCommit \subseteq Commit
BY DEF GrantRule, RevokeRule, ReserveRule, CloseRule, VersionAllowed, Commit, RecordCommit

\* What a process that is about to push has staged is a commit.
LEMMA StagedIsCommit ==
  ASSUME Hands
  PROVE  /\ \A e \in Executor :
              pc[e] \in {"declaring", "reserving", "closing", "settling"} => staged[e] \in Commit
         /\ \A o \in Operator : pc[o] = "staged" => staged[o] \in Commit
BY RulesAdmitCommits DEF Hands, StagedByRun, StagedByCommand, ReserveAllowed

\* No commits are a history.
LEMMA EmptyHistory == <<>> \in History
BY DEF History

\* A push leaves a history on the branch.
LEMMA PushedHistory ==
  ASSUME Hands, NEW p \in Process, staged[p] \in Commit
  PROVE  Append(base[p], staged[p]) \in History
BY OneMore DEF Hands, TypeOK

\* A step of run e leaves everyone else's hands as they are: of the others it
\* could only disturb a recovery, whose run has stopped, and e has not.
LEMMA RunMoves ==
  ASSUME Hands, NEW e \in Executor, pc[e] # "stopped",
         \A p \in Process \ {e} :
           pc'[p] = pc[p] /\ base'[p] = base[p] /\ staged'[p] = staged[p],
         \A f \in Executor \ {e} : tries'[f] = tries[f],
         TypeOK', StagedByRun(e)', HeadOfRun(e)'
  PROVE  Hands'
<1>1. ASSUME NEW f \in Executor
      PROVE  StagedByRun(f)' /\ HeadOfRun(f)'
  <2>1. CASE f = e
    BY <2>1
  <2>2. CASE f # e
    BY <2>2 DEF Hands, StagedByRun, HeadOfRun, Current, Process
  <2> QED BY <2>1, <2>2
<1>2. ASSUME NEW o \in Operator
      PROVE  StagedByCommand(o)'
  <2>1. o # e /\ o \in Process
    BY OperatorAssumption DEF Process
  <2>2. ASSUME staged[o] \in RecoverCommit, pc[staged[o].attempt[1]] = "stopped"
        PROVE  pc'[staged[o].attempt[1]] = "stopped"
    <3>1. staged[o].attempt[1] \in Executor
      BY <2>2 DEF RecoverCommit, Attempt
    <3> QED BY <2>2, <3>1 DEF Process
  <2> QED BY <2>1, <2>2 DEF Hands, StagedByCommand
<1> QED BY <1>1, <1>2 DEF Hands

\* The same of an operator's step.
LEMMA CommandMoves ==
  ASSUME Hands, NEW o \in Operator,
         \A p \in Process \ {o} :
           pc'[p] = pc[p] /\ base'[p] = base[p] /\ staged'[p] = staged[p],
         tries' = tries, TypeOK', StagedByCommand(o)'
  PROVE  Hands'
<1>1. ASSUME NEW f \in Executor
      PROVE  StagedByRun(f)' /\ HeadOfRun(f)'
  BY OperatorAssumption DEF Hands, StagedByRun, HeadOfRun, Current, Process
<1>2. ASSUME NEW q \in Operator, q # o
      PROVE  StagedByCommand(q)'
  <2>1. ASSUME staged[q] \in RecoverCommit, pc[staged[q].attempt[1]] = "stopped"
        PROVE  pc'[staged[q].attempt[1]] = "stopped"
    <3>1. staged[q].attempt[1] \in Executor
      BY <2>1 DEF RecoverCommit, Attempt
    <3> QED BY <2>1, <3>1, OperatorAssumption DEF Process
  <2> QED BY <1>2, <2>1 DEF Hands, StagedByCommand, Process
<1> QED BY <1>1, <1>2 DEF Hands

-----------------------------------------------------------------------------

\* A clock reading is a time.
LEMMA ReadingIsTime == Reading \subseteq Time
BY DEF Reading

\* A run that lets its checkout go has nothing in its hands.
LEMMA HaltKeepsHands ==
  ASSUME Hands, NEW e \in Executor, pc[e] \notin {"idle", "done", "stopped"}, Halt(e)
  PROVE  Hands'
<1>1. TypeOK'
  BY OperatorAssumption
     DEF Hands, TypeOK, Halt, Goto, Discard, Process, History, ExecutorState
<1>2. StagedByRun(e)' /\ HeadOfRun(e)'
  BY DEF Hands, TypeOK, Halt, Goto, Discard, Process, StagedByRun, HeadOfRun
<1> QED BY <1>1, <1>2, RunMoves DEF Hands, TypeOK, Halt, Goto, Discard, Process

\* A push appends what the process staged to the branch, and it may be lost
\* on the way back.
LEMMA PushKeepsType ==
  ASSUME Hands, NEW p \in Process, staged[p] \in Commit,
         remote' = Append(base[p], staged[p]),
         staged' = [staged EXCEPT ![p] = NoCommit],
         base' = [base EXCEPT ![p] = remote'] \/ base' = [base EXCEPT ![p] = <<>>],
         NEW s, pc' = [pc EXCEPT ![p] = s],
         p \in Executor => s \in ExecutorState,
         p \in Operator => s \in OperatorState,
         UNCHANGED <<tries, clock, sends>>
  PROVE  TypeOK'
<1>1. remote' \in History
  BY PushedHistory
<1>2. base' \in [Process -> History]
  BY <1>1, EmptyHistory DEF Hands, TypeOK
<1>3. staged' \in [Process -> Commit \cup {NoCommit}]
  BY DEF Hands, TypeOK
<1>4. /\ pc' \in [Process -> ExecutorState \cup OperatorState]
      /\ \A e \in Executor : pc'[e] \in ExecutorState
      /\ \A o \in Operator : pc'[o] \in OperatorState
  BY OperatorAssumption DEF Hands, TypeOK, Process
<1> QED BY <1>1, <1>2, <1>3, <1>4 DEF Hands, TypeOK

\* Every step of a run keeps the hands.
LEMMA RunKeepsHands ==
  ASSUME Hands, NEW e \in Executor, ExecutorStep(e) \/ Crash(e) \/ LoseAck(e)
  PROVE  Hands'
<1> USE OperatorAssumption DEF Process
<1> DEFINE Frame == /\ \A p \in Process \ {e} :
                         pc'[p] = pc[p] /\ base'[p] = base[p] /\ staged'[p] = staged[p]
                    /\ \A f \in Executor \ {e} : tries'[f] = tries[f]
<1>1. CASE CloneRemote(e)
  <2>1. TypeOK'
    BY <1>1, RulesAdmitCommits DEF Hands, TypeOK, CloneRemote, Goto, ExecutorState, RunCommit
  <2>2. StagedByRun(e)' /\ HeadOfRun(e)'
    BY <1>1 DEF Hands, TypeOK, CloneRemote, Goto, StagedByRun, HeadOfRun, RunCommit
  <2>3. Frame
    BY <1>1 DEF Hands, TypeOK, CloneRemote, Goto
  <2> QED BY <1>1, <2>1, <2>2, <2>3, RunMoves DEF CloneRemote
<1>2. CASE PushIntent(e)
  <2>1. TypeOK'
    BY <1>2, PushKeepsType, StagedIsCommit DEF PushIntent, Push, Goto, ExecutorState,
       OperatorState
  <2>2. StagedByRun(e)' /\ HeadOfRun(e)'
    BY <1>2 DEF Hands, TypeOK, PushIntent, Goto, StagedByRun, HeadOfRun
  <2>3. Frame
    BY <1>2 DEF Hands, TypeOK, PushIntent, Push, Goto
  <2> QED BY <1>2, <2>1, <2>2, <2>3, RunMoves DEF PushIntent
<1>3. CASE Reserve(e)
  <2>0. PICK a \in Authorization, t \in Reading :
          \E i \in CurrentGrant(base[e], a) :
            /\ ReserveAllowed(base[e], Reservation(e, a, t, i))
            /\ staged' = [staged EXCEPT ![e] = Reservation(e, a, t, i)]
    BY <1>3 DEF Reserve
  <2>1. PICK i \in CurrentGrant(base[e], a) :
          /\ ReserveAllowed(base[e], Reservation(e, a, t, i))
          /\ staged' = [staged EXCEPT ![e] = Reservation(e, a, t, i)]
    BY <2>0
  <2>2. Reservation(e, a, t, i) \in Commit
    BY <2>1, RulesAdmitCommits DEF ReserveAllowed
  <2>3. /\ tries[e] \in 0 .. MaxAttempts
        /\ tries'[e] = tries[e] + 1
        /\ tries' \in [Executor -> 0 .. MaxAttempts]
    BY <1>3, MaxAttemptsAssumption DEF Hands, TypeOK, Reserve
  <2>4. TypeOK'
    BY <1>3, <2>1, <2>2, <2>3 DEF Hands, TypeOK, Reserve, Goto, ExecutorState
  <2>5. StagedByRun(e)' /\ HeadOfRun(e)'
    <3>1. pc'[e] = "reserving" /\ base' = base /\ staged'[e] = Reservation(e, a, t, i)
      BY <1>3, <2>1 DEF Hands, TypeOK, Reserve, Goto
    <3>2. Reservation(e, a, t, i).attempt = <<e, tries'[e]>>
      BY <2>3 DEF Reservation
    <3> QED BY <2>1, <3>1, <3>2 DEF StagedByRun, HeadOfRun, Current
  <2>6. Frame
    BY <1>3, <2>1 DEF Hands, TypeOK, Reserve, Goto
  <2> QED BY <1>3, <2>4, <2>5, <2>6, RunMoves DEF Reserve
<1>4. CASE PushReserve(e)
  <2>1. TypeOK'
    BY <1>4, PushKeepsType, StagedIsCommit DEF PushReserve, Push, Goto, ExecutorState,
       OperatorState
  <2>2. staged[e] \in ReserveCommit /\ staged[e] \in Commit /\ staged[e].attempt = Current(e)
    BY <1>4, StagedIsCommit DEF Hands, StagedByRun, PushReserve, ReserveAllowed, ReserveRule
  <2>3. base'[e] = Append(base[e], staged[e]) /\ pc'[e] = "reserved"
    BY <1>4 DEF Hands, TypeOK, PushReserve, Push, Goto
  <2>4. StagedByRun(e)' /\ HeadOfRun(e)'
    <3>1. base[e] \in History
      BY DEF Hands, TypeOK
    <3>2. /\ Len(base'[e]) \in DOMAIN base'[e]
          /\ base'[e][Len(base'[e])] = staged[e]
      BY <2>2, <2>3, <3>1, OneMore
    <3> QED BY <1>4, <2>2, <2>3, <3>2 DEF StagedByRun, HeadOfRun, Current, PushReserve
  <2>5. Frame
    BY <1>4 DEF Hands, TypeOK, PushReserve, Push, Goto
  <2> QED BY <1>4, <2>1, <2>4, <2>5, RunMoves DEF PushReserve
<1>5. CASE VerifyHead(e)
  <2>1. TypeOK'
    BY <1>5 DEF Hands, TypeOK, VerifyHead, Goto, ExecutorState
  <2>2. StagedByRun(e)' /\ HeadOfRun(e)'
    BY <1>5 DEF Hands, TypeOK, VerifyHead, Goto, StagedByRun, HeadOfRun, Current
  <2>3. Frame
    BY <1>5 DEF Hands, TypeOK, VerifyHead, Goto
  <2> QED BY <1>5, <2>1, <2>2, <2>3, RunMoves DEF VerifyHead
<1>6. CASE Send(e)
  <2> DEFINE r == base[e][Len(base[e])]
  <2>1. r \in ReserveCommit
    BY <1>6 DEF Hands, HeadOfRun, Send
  <2>2. [attempt |-> r.attempt, target |-> r.target, interval |-> r.interval, time |-> clock]
          \in [attempt : Attempt, target : Target, interval : Interval, time : Nat]
    BY <2>1 DEF ReserveCommit, Hands, TypeOK
  <2>3. TypeOK'
    BY <1>6, <2>2 DEF Hands, TypeOK, Send, Goto, ExecutorState
  <2>4. StagedByRun(e)' /\ HeadOfRun(e)'
    BY <1>6 DEF Hands, TypeOK, Send, Goto, StagedByRun, HeadOfRun, Current
  <2>5. Frame
    BY <1>6 DEF Hands, TypeOK, Send, Goto
  <2> QED BY <1>6, <2>3, <2>4, <2>5, RunMoves DEF Send
<1>7. CASE Close(e)
  <2>1. PICK c : /\ c.kind = "COMPLETE"
                 /\ CloseRule(base[e], c)
                 /\ c.attempt = Current(e)
                 /\ staged' = [staged EXCEPT ![e] = c]
    BY <1>7 DEF Close, ClosingOf
  <2>2. c \in CloseCommit /\ c \in Commit
    BY <2>1, RulesAdmitCommits DEF CloseRule, RecoverCommit
  <2>3. TypeOK'
    BY <1>7, <2>1, <2>2 DEF Hands, TypeOK, Close, Goto, ExecutorState
  <2>4. StagedByRun(e)' /\ HeadOfRun(e)'
    BY <1>7, <2>1, <2>2 DEF Hands, TypeOK, Close, Goto, StagedByRun, HeadOfRun, Current
  <2>5. Frame
    BY <1>7, <2>1 DEF Hands, TypeOK, Close, Goto
  <2> QED BY <1>7, <2>3, <2>4, <2>5, RunMoves DEF Close
<1>8. CASE PushClose(e)
  <2>1. TypeOK'
    BY <1>8, PushKeepsType, StagedIsCommit DEF PushClose, Push, Goto, ExecutorState,
       OperatorState
  <2>2. StagedByRun(e)' /\ HeadOfRun(e)'
    BY <1>8 DEF Hands, TypeOK, PushClose, Goto, StagedByRun, HeadOfRun
  <2>3. Frame
    BY <1>8 DEF Hands, TypeOK, PushClose, Push, Goto
  <2> QED BY <1>8, <2>1, <2>2, <2>3, RunMoves DEF PushClose
<1>9. CASE Finish(e)
  <2>1. TypeOK'
    BY <1>9 DEF Hands, TypeOK, Finish, Goto, Discard, History, ExecutorState
  <2>2. StagedByRun(e)' /\ HeadOfRun(e)'
    BY <1>9 DEF Hands, TypeOK, Finish, Goto, StagedByRun, HeadOfRun
  <2>3. Frame
    BY <1>9 DEF Hands, TypeOK, Finish, Goto, Discard
  <2> QED BY <1>9, <2>1, <2>2, <2>3, RunMoves DEF Finish
<1>10. CASE Settle(e)
  <2>1. TypeOK'
    BY <1>10, RulesAdmitCommits DEF Hands, TypeOK, Settle, Goto, ExecutorState, RunCommit
  <2>2. StagedByRun(e)' /\ HeadOfRun(e)'
    BY <1>10 DEF Hands, TypeOK, Settle, Goto, StagedByRun, HeadOfRun, RunCommit
  <2>3. Frame
    BY <1>10 DEF Hands, TypeOK, Settle, Goto
  <2> QED BY <1>10, <2>1, <2>2, <2>3, RunMoves DEF Settle
<1>11. CASE PushOutcome(e)
  <2>1. TypeOK'
    BY <1>11, PushKeepsType, StagedIsCommit DEF PushOutcome, Push, Goto, ExecutorState,
       OperatorState
  <2>2. StagedByRun(e)' /\ HeadOfRun(e)'
    BY <1>11 DEF Hands, TypeOK, PushOutcome, Goto, StagedByRun, HeadOfRun
  <2>3. Frame
    BY <1>11 DEF Hands, TypeOK, PushOutcome, Push, Goto
  <2> QED BY <1>11, <2>1, <2>2, <2>3, RunMoves DEF PushOutcome
<1>12. CASE StaleHead(e) \/ DenyReserve(e) \/ DenyClose(e) \/ Crash(e)
  BY <1>12, HaltKeepsHands DEF StaleHead, DenyReserve, DenyClose, Crash
<1>13. CASE LoseAck(e)
  <2>1. TypeOK'
    BY <1>13, PushKeepsType, StagedIsCommit DEF LoseAck, Goto, Discard, ExecutorState,
       OperatorState
  <2>2. StagedByRun(e)' /\ HeadOfRun(e)'
    BY <1>13 DEF Hands, TypeOK, LoseAck, Goto, StagedByRun, HeadOfRun
  <2>3. Frame
    BY <1>13 DEF Hands, TypeOK, LoseAck, Goto, Discard
  <2> QED BY <1>13, <2>1, <2>2, <2>3, RunMoves DEF LoseAck
<1> QED BY <1>1, <1>2, <1>3, <1>4, <1>5, <1>6, <1>7, <1>8, <1>9, <1>10, <1>11, <1>12,
        <1>13 DEF ExecutorStep

\* An operator who stages a commit the fresh clone admits has it in hand.
LEMMA StageKeepsHands ==
  ASSUME Hands, NEW o \in Operator, NEW c \in Commit, Stage(o, c),
         \/ GrantRule(remote, c) \/ RevokeRule(remote, c) \/ VersionAllowed(remote, c)
         \/ c \in RecoverCommit /\ CloseRule(remote, c) /\ pc[c.attempt[1]] = "stopped"
  PROVE  Hands'
<1> USE OperatorAssumption DEF Process
<1>1. TypeOK'
  BY DEF Hands, TypeOK, Stage, Goto, OperatorState
<1>2. pc' = [pc EXCEPT ![o] = "staged"] /\ base'[o] = remote /\ staged'[o] = c
  BY DEF Hands, TypeOK, Stage, Goto
<1>3. StagedByCommand(o)'
  <2>1. ASSUME c \in RecoverCommit, pc[c.attempt[1]] = "stopped"
        PROVE  pc'[c.attempt[1]] = "stopped"
    <3>1. c.attempt[1] \in Executor
      BY <2>1 DEF RecoverCommit, Attempt
    <3> QED BY <1>2, <2>1, <3>1 DEF Hands, TypeOK
  <2> QED BY <1>2, <2>1 DEF StagedByCommand
<1>4. /\ \A p \in Process \ {o} :
           pc'[p] = pc[p] /\ base'[p] = base[p] /\ staged'[p] = staged[p]
      /\ tries' = tries
  BY DEF Hands, TypeOK, Stage, Goto
<1> QED BY <1>1, <1>3, <1>4, CommandMoves

\* Every step of an operator keeps the hands.
LEMMA CommandKeepsHands ==
  ASSUME Hands, NEW o \in Operator, OperatorStep(o)
  PROVE  Hands'
<1> USE OperatorAssumption DEF Process
<1>1. CASE Issue(o)
  <2>1. PICK c : GrantRule(remote, c) /\ Stage(o, c)
    BY <1>1 DEF Issue, IssueAllowed
  <2> QED BY <2>1, RulesAdmitCommits, StageKeepsHands
<1>2. CASE Revoke(o)
  <2>1. PICK c : RevokeRule(remote, c) /\ Stage(o, c)
    BY <1>2 DEF Revoke
  <2> QED BY <2>1, RulesAdmitCommits, StageKeepsHands
<1>3. CASE Recover(o)
  <2>1. PICK c : /\ c.kind = "RECOVER"
                 /\ CloseRule(remote, c)
                 /\ Fenced(c.attempt)
                 /\ Stage(o, c)
    BY <1>3 DEF Recover, ClosingOf
  <2>2. c \in RecoverCommit
    BY <2>1 DEF CloseRule, CloseCommit
  <2> QED BY <2>1, <2>2, RulesAdmitCommits, StageKeepsHands DEF Fenced
<1>4. CASE Revise(o)
  <2>1. PICK c : VersionAllowed(remote, c) /\ Stage(o, c)
    BY <1>4 DEF Revise
  <2> QED BY <2>1, RulesAdmitCommits, StageKeepsHands
<1>5. CASE PushCommand(o)
  <2>1. TypeOK'
    BY <1>5, PushKeepsType, StagedIsCommit DEF PushCommand, Push, Goto, OperatorState
  <2>2. pc'[o] = "idle"
    BY <1>5 DEF Hands, TypeOK, PushCommand, Goto
  <2>3. /\ \A p \in Process \ {o} :
             pc'[p] = pc[p] /\ base'[p] = base[p] /\ staged'[p] = staged[p]
        /\ tries' = tries
    BY <1>5 DEF Hands, TypeOK, PushCommand, Push, Goto
  <2> QED BY <2>1, <2>2, <2>3, CommandMoves DEF StagedByCommand
<1>6. CASE DropCommand(o)
  <2>1. TypeOK'
    BY <1>6, EmptyHistory DEF Hands, TypeOK, DropCommand, Goto, Discard, OperatorState
  <2>2. pc'[o] = "idle"
    BY <1>6 DEF Hands, TypeOK, DropCommand, Goto
  <2>3. /\ \A p \in Process \ {o} :
             pc'[p] = pc[p] /\ base'[p] = base[p] /\ staged'[p] = staged[p]
        /\ tries' = tries
    BY <1>6 DEF Hands, TypeOK, DropCommand, Goto, Discard
  <2> QED BY <2>1, <2>2, <2>3, CommandMoves DEF StagedByCommand
<1> QED BY <1>1, <1>2, <1>3, <1>4, <1>5, <1>6 DEF OperatorStep

\* What the clock and a stutter leave.
LEMMA HandsUntouched ==
  ASSUME Hands, UNCHANGED <<remote, base, staged, pc, tries, sends>>, clock' \in Nat
  PROVE  Hands'
BY DEF Hands, TypeOK, StagedByRun, HeadOfRun, StagedByCommand, Current

LEMMA HandsInductive == (Init => Hands) /\ (Hands /\ [Next]_vars => Hands')
<1>1. Init => Hands
  BY EmptyHistory, MaxAttemptsAssumption
     DEF Init, Hands, TypeOK, StagedByRun, HeadOfRun, StagedByCommand, Process,
         ExecutorState, OperatorState
<1>2. ASSUME Hands, [Next]_vars PROVE Hands'
  <2>1. CASE \E e \in Executor : ExecutorStep(e) \/ Crash(e) \/ LoseAck(e)
    BY <1>2, <2>1, RunKeepsHands
  <2>2. CASE \E o \in Operator : OperatorStep(o)
    BY <1>2, <2>2, CommandKeepsHands
  <2>3. CASE Tick
    BY <1>2, <2>3, HandsUntouched DEF Tick, Hands, TypeOK
  <2>4. CASE UNCHANGED vars
    BY <1>2, <2>4, HandsUntouched DEF vars, Hands, TypeOK
  <2> QED BY <1>2, <2>1, <2>2, <2>3, <2>4 DEF Next
<1> QED BY <1>1, <1>2

\* Every reachable state has its types, and every process its hands in order.
THEOREM HandsHold == Spec => []Hands
BY HandsInductive, PTL DEF Spec

\* Type correctness: in particular a run draws no more attempts than its
\* budget, whatever it meets (CloneRemote .. DenyClose), and only commits of
\* the ledger are ever staged or pushed.
THEOREM TypeCorrect == Spec => []TypeOK
<1>1. Hands => TypeOK
  BY DEF Hands
<1> QED BY <1>1, HandsHold, PTL
=============================================================================
