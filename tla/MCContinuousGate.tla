--------------------------- MODULE MCContinuousGate ---------------------------
(***************************************************************************)
(* Small instances of ContinuousGate for TLC.                              *)
(***************************************************************************)
EXTENDS ContinuousGate, TLC

CONSTANTS e1, e2, o1, a1, a2, s1, t1, t2

OneSource == [a \in Authorization |-> s1]

\* Authorizations that share one target, or have one each.
SharedTarget == [a \in Authorization |-> t1]
OwnTarget == [a \in Authorization |-> IF a = a1 THEN t1 ELSE t2]

\* Runs that do the same are interchangeable under safety.
RunSymmetry == Permutations(Executor)

Granted(a) ==
  [kind |-> "GRANT", auth |-> a, binding |-> 0,
   interval |-> CHOOSE m \in Interval : \A n \in Interval : n <= m, from |-> 0]

\* The state Spec is in when an operator has issued the grants gs and nothing
\* else has happened: instances start there that ask about what comes later.
After(gs) ==
  /\ remote = gs
  /\ base = [p \in Process |-> <<>>]
  /\ staged = [p \in Process |-> NoCommit]
  /\ pc = [p \in Process |-> "idle"]
  /\ tries = [e \in Executor |-> 0]
  /\ clock = 0
  /\ sends = {}

\* Runs that commit nothing but records and an operator who only re-issues and
\* recovers: a revocation, a new source revision, an intent or an outcome never
\* enables a request, and a question about how close requests come can spend
\* its bounds without them.
ReissueNext ==
  \/ \E e \in Executor :
       \/ CloneRemote(e) /\ pc'[e] = "ready"
       \/ Reserve(e) \/ PushReserve(e) \/ VerifyHead(e) \/ Send(e)
       \/ Close(e) \/ PushClose(e) \/ Finish(e)
       \/ StaleHead(e) \/ DenyReserve(e) \/ DenyClose(e) \/ Crash(e)
  \/ \E o \in Operator : Issue(o) \/ Recover(o) \/ PushCommand(o)
  \/ Tick

ReissueSpec == After(<<Granted(a1)>>) /\ [][ReissueNext]_vars
OneGrantSpec == After(<<Granted(a1)>>) /\ [][Next]_vars
OneGrantFairSpec == OneGrantSpec /\ Fairness
=============================================================================
