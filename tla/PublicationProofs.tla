--------------------------- MODULE PublicationProofs ---------------------------
(***************************************************************************)
(* Theorems about Publication, for any sets of processes, commits, base    *)
(* paths and builds and any descent relation.                              *)
(*                                                                         *)
(* The argument is that of a lock held by one process and given up by      *)
(* nobody alive: who is in a critical state created the lock file, so      *)
(* what he has compared or archived stays so until he acts on it.          *)
(***************************************************************************)
EXTENDS Publication, TLAPS

\* A process in a critical state created the lock file that is there.
LockHeld == \A w \in Writer : pc[w] \in Critical => lock = w

\* A publication replaces what it expects by a successor of it.
Intent ==
  \A w \in Writer : cmd[w].kind = "publish" => Follows(cmd[w].expected, cmd[w].release)

\* How far the command of a process has come, for what is on disk.
Progress ==
  \A w \in Writer :
    /\ pc[w] \in {"recording", "writing"} => cmd[w].release \in releases
    /\ pc[w] \in {"switching", "replacing"} => Complete(cmd[w].release)
    /\ pc[w] = "replacing" => pointer = cmd[w].expected

Inv == TypeOK /\ LockHeld /\ Intent /\ Progress /\ PointerComplete

\* Initially nothing is on disk and nobody holds the lock.
LEMMA InitInv == Init => Inv
<1> SUFFICES ASSUME Init PROVE Inv
  OBVIOUS
<1> USE DEF Init
<1>1. NoCommand.kind # "rollback" /\ NoCommand.kind # "publish"
  BY DEF NoCommand
<1>2. TypeOK
  BY <1>1 DEF TypeOK, WriterState, ReceiptState
<1>3. LockHeld /\ Progress
  BY DEF LockHeld, Progress, Critical
<1>4. Intent
  BY <1>1 DEF Intent
<1>5. PointerComplete
  BY DEF PointerComplete, Readable
<1> QED
  BY <1>2, <1>3, <1>4, <1>5 DEF Inv

\* A process that was alive and in a critical state is alone there, and the
\* lock of a dead process is nobody's whose step is to come.
LEMMA Alone ==
  ASSUME LockHeld, NEW v \in Writer, NEW w \in Writer,
         pc[v] \in Critical, pc[w] \in Critical
  PROVE  v = w
BY DEF LockHeld

\* A step that leaves the files alone leaves complete releases complete.
LEMMA FilesStay ==
  ASSUME UNCHANGED files
  PROVE  (Readable' <=> Readable) /\ (\A r : Complete(r)' <=> Complete(r))
BY DEF files, Readable, Complete

\* A step of a process that has started and changes no command: types and
\* intents stay, the other processes stay where they are.
LEMMA Move ==
  ASSUME Inv, NEW w \in Writer, NEW s \in WriterState,
         pc[w] # "idle", pc' = [pc EXCEPT ![w] = s], UNCHANGED cmd,
         lock' \in Writer \cup {NoWriter}, pointer' \in Release \cup {NoRelease},
         releases' \subseteq Release, receipts' \in [Release -> ReceiptState]
  PROVE  /\ TypeOK' /\ Intent'
         /\ pc'[w] = s
         /\ \A v \in Writer : v # w => pc'[v] = pc[v]
         /\ cmd[w] \in Command
         /\ cmd[w].release \in Release
<1> USE DEF Inv
<1>1. pc \in [Writer -> WriterState] /\ cmd[w] \in Command
  BY DEF TypeOK
<1>2. pc' \in [Writer -> WriterState] /\ pc'[w] = s
  BY <1>1
<1>3. \A v \in Writer : v # w => pc'[v] = pc[v]
  BY <1>1
<1>4. \A v \in Writer : pc'[v] # "idle" => cmd[v] \in Command
  BY <1>1, <1>3 DEF TypeOK
<1>5. TypeOK'
  BY <1>2, <1>4 DEF TypeOK
<1>6. Intent'
  BY DEF Intent, Follows
<1>7. cmd[w].release \in Release
  BY <1>1 DEF Command
<1> QED
  BY <1>1, <1>2, <1>3, <1>5, <1>6, <1>7

\* A step that touches neither files nor commands: a process that holds the
\* lock goes on or lets go of it, or one takes a free lock, or lets be.
LEMMA Quiet ==
  ASSUME Inv, NEW w \in Writer, NEW s \in WriterState,
         pc[w] # "idle", pc' = [pc EXCEPT ![w] = s], UNCHANGED <<files, cmd>>,
         \/ lock' = lock /\ (s \in Critical => pc[w] \in Critical)
         \/ lock' = w /\ lock = NoWriter
         \/ lock' = NoWriter /\ pc[w] \in Critical /\ s \notin Critical,
         s \in {"recording", "writing"} => cmd[w].release \in releases,
         s \in {"switching", "replacing"} => Complete(cmd[w].release),
         s = "replacing" => pointer = cmd[w].expected
  PROVE  Inv'
<1> USE DEF Inv
<1>1. /\ pointer' = pointer /\ releases' = releases
      /\ receipts' = receipts
  BY DEF files
<1>2. lock' \in Writer \cup {NoWriter}
  BY DEF TypeOK
<1>3. /\ TypeOK' /\ Intent'
      /\ pc'[w] = s
      /\ \A v \in Writer : v # w => pc'[v] = pc[v]
  BY <1>1, <1>2, Move DEF TypeOK
<1>4. LockHeld'
  BY <1>3, NullAssumption DEF LockHeld
<1>5. Progress'
  BY <1>1, <1>3, FilesStay DEF Progress
<1>6. PointerComplete'
  BY FilesStay DEF PointerComplete
<1> QED
  BY <1>3, <1>4, <1>5, <1>6

\* Every step of a process, a failure and a crash included, preserves Inv.
LEMMA StepInv ==
  ASSUME Inv, [Next]_vars
  PROVE  Inv'
<1> USE DEF Inv
<1>a. /\ pc \in [Writer -> WriterState]
      /\ cmd \in [Writer -> Command \cup {NoCommand}]
      /\ receipts \in [Release -> ReceiptState]
  BY DEF TypeOK
<1>b. NoCommand.kind = "none" /\ NoCommand \notin Command
  BY DEF NoCommand, Command
<1>1. ASSUME NEW w \in Writer, BeginPublish(w) PROVE Inv'
  <2>1. PICK r \in Release :
          /\ Follows(pointer, r)
          /\ cmd' = [cmd EXCEPT ![w] = [kind |-> "publish", release |-> r, expected |-> pointer]]
    BY <1>1 DEF BeginPublish
  <2>2. /\ pc' = [pc EXCEPT ![w] = "built"]
        /\ UNCHANGED <<files, lock>>
    BY <1>1 DEF BeginPublish, Goto
  <2>3. cmd'[w] = [kind |-> "publish", release |-> r, expected |-> pointer]
        /\ cmd'[w] \in Command
    BY <2>1, <1>a DEF TypeOK, Command
  <2>4. \A v \in Writer : v # w => cmd'[v] = cmd[v] /\ pc'[v] = pc[v]
    BY <2>1, <2>2, <1>a
  <2>5. pc'[w] = "built" /\ "built" \notin Critical
    BY <2>2, <1>a DEF Critical
  <2>6. TypeOK'
    <3>1. cmd' \in [Writer -> Command \cup {NoCommand}]
      BY <2>1, <2>3, <1>a
    <3>2. pc' \in [Writer -> WriterState]
      BY <2>2, <1>a DEF WriterState
    <3>3. ASSUME NEW v \in Writer
          PROVE  /\ pc'[v] # "idle" => cmd'[v] \in Command
                 /\ cmd'[v].kind = "rollback" => cmd'[v].expected \in Release
      BY <2>3, <2>4 DEF TypeOK
    <3> QED BY <3>1, <3>2, <3>3, <2>2 DEF TypeOK, files
  <2>7. LockHeld'
    BY <2>2, <2>4, <2>5 DEF LockHeld
  <2>8. Intent'
    BY <2>1, <2>3, <2>4 DEF Intent, Follows
  <2>9. Progress'
    BY <2>2, <2>4, <2>5, FilesStay DEF Progress, files, Critical
  <2>10. PointerComplete'
    BY <2>2, FilesStay DEF PointerComplete
  <2> QED BY <2>6, <2>7, <2>8, <2>9, <2>10
<1>2. ASSUME NEW w \in Writer, BeginRollback(w) PROVE Inv'
  <2>1. PICK r \in Release :
          cmd' = [cmd EXCEPT ![w] = [kind |-> "rollback", release |-> r, expected |-> pointer]]
    BY <1>2 DEF BeginRollback
  <2>2. /\ pc' = [pc EXCEPT ![w] = "built"]
        /\ UNCHANGED <<files, lock>>
        /\ pointer \in Release
    BY <1>2 DEF BeginRollback, Goto, TypeOK
  <2>3. cmd'[w] = [kind |-> "rollback", release |-> r, expected |-> pointer]
        /\ cmd'[w] \in Command
    BY <2>1, <2>2, <1>a DEF Command
  <2>4. \A v \in Writer : v # w => cmd'[v] = cmd[v] /\ pc'[v] = pc[v]
    BY <2>1, <2>2, <1>a
  <2>5. pc'[w] = "built" /\ "built" \notin Critical
    BY <2>2, <1>a DEF Critical
  <2>6. TypeOK'
    <3>1. cmd' \in [Writer -> Command \cup {NoCommand}]
      BY <2>1, <2>3, <1>a
    <3>2. pc' \in [Writer -> WriterState]
      BY <2>2, <1>a DEF WriterState
    <3>3. ASSUME NEW v \in Writer
          PROVE  /\ pc'[v] # "idle" => cmd'[v] \in Command
                 /\ cmd'[v].kind = "rollback" => cmd'[v].expected \in Release
      BY <2>2, <2>3, <2>4 DEF TypeOK
    <3> QED BY <3>1, <3>2, <3>3, <2>2 DEF TypeOK, files
  <2>7. LockHeld'
    BY <2>2, <2>4, <2>5 DEF LockHeld
  <2>8. Intent'
    BY <2>3, <2>4 DEF Intent, Follows
  <2>9. Progress'
    BY <2>2, <2>4, <2>5, FilesStay DEF Progress, files, Critical
  <2>10. PointerComplete'
    BY <2>2, FilesStay DEF PointerComplete
  <2> QED BY <2>6, <2>7, <2>8, <2>9, <2>10
<1>3. ASSUME NEW w \in Writer, TakeLock(w) PROVE Inv'
  BY <1>3, Quiet DEF TakeLock, Goto, WriterState, Critical
<1>4. ASSUME NEW w \in Writer, FindLocked(w) PROVE Inv'
  BY <1>4, Quiet DEF FindLocked, Goto, WriterState, Critical
<1>5. ASSUME NEW w \in Writer, CheckPublish(w) PROVE Inv'
  BY <1>5, Quiet DEF CheckPublish, Goto, WriterState, Critical
<1>6. ASSUME NEW w \in Writer, CheckRollback(w) PROVE Inv'
  BY <1>6, Quiet DEF CheckRollback, Goto, WriterState, Critical
<1>7. ASSUME NEW w \in Writer, KeepReceipt(w) PROVE Inv'
  <2>1. Complete(cmd[w].release)
    BY <1>7 DEF KeepReceipt, Progress, Complete
  <2> QED BY <1>7, <2>1, Quiet DEF KeepReceipt, Goto, WriterState, Critical
<1>8. ASSUME NEW w \in Writer, ComparePointer(w) PROVE Inv'
  <2>1. Complete(cmd[w].release) /\ pointer = cmd[w].expected
    BY <1>8 DEF ComparePointer, ExpectedPointer, Progress
  <2> QED BY <1>8, <2>1, Quiet DEF ComparePointer, Goto, WriterState, Critical
<1>9. ASSUME NEW w \in Writer, Repeat(w) PROVE Inv'
  BY <1>9, Quiet DEF Repeat, Unlock, Goto, WriterState, Critical
<1>10. ASSUME NEW w \in Writer, Refuse(w) PROVE Inv'
  BY <1>10, Quiet DEF Refuse, Unlock, Goto, WriterState, Critical
<1>11. ASSUME NEW w \in Writer, RefuseReceipt(w) PROVE Inv'
  BY <1>11, Quiet DEF RefuseReceipt, Unlock, Goto, WriterState, Critical
<1>12. ASSUME NEW w \in Writer, RefuseSwitch(w) PROVE Inv'
  BY <1>12, Quiet DEF RefuseSwitch, Unlock, Goto, WriterState, Critical
<1>13. ASSUME NEW w \in Writer, Leave(w) PROVE Inv'
  BY <1>13, Quiet DEF Leave, Unlock, Goto, WriterState, Critical
<1>14. ASSUME NEW w \in Writer, Fail(w) PROVE Inv'
  BY <1>14, Quiet DEF Fail, Unlock, Goto, WriterState, Critical
<1>15. ASSUME NEW w \in Writer, Crash(w) PROVE Inv'
  BY <1>15, Quiet DEF Crash, Goto, WriterState, Critical
<1>16. ASSUME NEW w \in Writer, ArchiveRelease(w) PROVE Inv'
  <2>1. /\ pc[w] = "archiving" /\ pc' = [pc EXCEPT ![w] = "recording"]
        /\ releases' = releases \cup {cmd[w].release}
        /\ UNCHANGED <<pointer, receipts, lock, cmd>>
    BY <1>16 DEF ArchiveRelease, Goto
  <2>2. cmd[w].release \in Release
    BY <2>1 DEF TypeOK, Command
  <2>3. /\ TypeOK' /\ Intent'
        /\ pc'[w] = "recording"
        /\ \A v \in Writer : v # w => pc'[v] = pc[v]
    BY <2>1, <2>2, Move DEF TypeOK, WriterState, Critical
  <2>4. \A r : Complete(r) => Complete(r)'
    BY <2>1 DEF Complete
  <2>5. LockHeld'
    BY <2>1, <2>3 DEF LockHeld, Critical
  <2>6. Progress'
    BY <2>1, <2>3, <2>4 DEF Progress
  <2>7. PointerComplete'
    BY <2>1, <2>4 DEF PointerComplete, Readable
  <2> QED BY <2>3, <2>5, <2>6, <2>7
<1>17. ASSUME NEW w \in Writer, OpenReceipt(w) PROVE Inv'
  <2>1. /\ pc[w] = "recording" /\ pc' = [pc EXCEPT ![w] = "writing"]
        /\ receipts[cmd[w].release] = "absent"
        /\ receipts' = [receipts EXCEPT ![cmd[w].release] = "partial"]
        /\ UNCHANGED <<pointer, releases, lock, cmd>>
    BY <1>17 DEF OpenReceipt, Goto
  <2>2. receipts' \in [Release -> ReceiptState]
    BY <2>1, <1>a DEF ReceiptState
  <2>3. /\ TypeOK' /\ Intent'
        /\ pc'[w] = "writing"
        /\ \A v \in Writer : v # w => pc'[v] = pc[v]
    BY <2>1, <2>2, Move DEF TypeOK, WriterState, Critical
  <2>4. \A r \in Release : Complete(r) => Complete(r)'
    BY <2>1, <1>a DEF Complete
  <2>5. LockHeld'
    BY <2>1, <2>3 DEF LockHeld, Critical
  <2>6. Progress'
    <3>1. \A v \in Writer : Complete(cmd[v].release) => cmd[v].release \in Release
      BY DEF Complete, TypeOK
    <3> QED BY <2>1, <2>3, <2>4, <3>1 DEF Progress
  <2>7. PointerComplete'
    BY <2>1, <2>4 DEF PointerComplete, Readable, TypeOK
  <2> QED BY <2>3, <2>5, <2>6, <2>7
<1>18. ASSUME NEW w \in Writer, WriteReceipt(w) PROVE Inv'
  <2>1. /\ pc[w] = "writing" /\ pc' = [pc EXCEPT ![w] = "switching"]
        /\ receipts' = [receipts EXCEPT ![cmd[w].release] = "complete"]
        /\ UNCHANGED <<pointer, releases, lock, cmd>>
    BY <1>18 DEF WriteReceipt, Goto
  <2>2. receipts' \in [Release -> ReceiptState]
    BY <2>1, <1>a DEF ReceiptState
  <2>3. /\ TypeOK' /\ Intent'
        /\ pc'[w] = "switching"
        /\ \A v \in Writer : v # w => pc'[v] = pc[v]
        /\ cmd[w].release \in Release
    BY <2>1, <2>2, Move DEF TypeOK, WriterState, Critical
  <2>4. \A r \in Release : Complete(r) => Complete(r)'
    BY <2>1, <1>a DEF Complete
  <2>5. LockHeld'
    BY <2>1, <2>3 DEF LockHeld, Critical
  <2>6. Progress'
    <3>1. \A v \in Writer : Complete(cmd[v].release) => cmd[v].release \in Release
      BY DEF Complete, TypeOK
    <3>2. Complete(cmd[w].release)'
      BY <2>1, <2>3, <1>a DEF Complete, Progress
    <3> QED BY <2>1, <2>3, <2>4, <3>1, <3>2 DEF Progress
  <2>7. PointerComplete'
    BY <2>1, <2>4 DEF PointerComplete, Readable, TypeOK
  <2> QED BY <2>3, <2>5, <2>6, <2>7
<1>19. ASSUME NEW w \in Writer, ReplacePointer(w) PROVE Inv'
  <2>1. /\ pc[w] = "replacing" /\ pc' = [pc EXCEPT ![w] = "leaving"]
        /\ pointer' = cmd[w].release
        /\ UNCHANGED <<releases, receipts, lock, cmd>>
    BY <1>19 DEF ReplacePointer, Goto
  <2>2. cmd[w].release \in Release /\ Complete(cmd[w].release)
    BY <2>1 DEF TypeOK, Command, Progress
  <2>3. /\ TypeOK' /\ Intent'
        /\ pc'[w] = "leaving"
        /\ \A v \in Writer : v # w => pc'[v] = pc[v]
    BY <2>1, <2>2, Move DEF TypeOK, WriterState, Critical
  <2>4. \A r : Complete(r)' <=> Complete(r)
    BY <2>1 DEF Complete
  <2>5. LockHeld'
    BY <2>1, <2>3 DEF LockHeld, Critical
  <2>6. \A v \in Writer : pc'[v] # "replacing"
    BY <2>1, <2>3, Alone DEF Critical
  <2>7. Progress'
    BY <2>1, <2>3, <2>4, <2>6 DEF Progress
  <2>8. PointerComplete'
    BY <2>1, <2>2, <2>4 DEF PointerComplete, Readable
  <2> QED BY <2>3, <2>5, <2>7, <2>8
<1>20. ASSUME ClearLock PROVE Inv'
  <2>1. /\ lock \in Writer /\ pc[lock] = "dead" /\ lock' = NoWriter
        /\ UNCHANGED <<files, cmd, pc>>
    BY <1>20 DEF ClearLock
  <2>2. TypeOK'
    BY <2>1 DEF TypeOK, files
  <2>3. LockHeld'
    BY <2>1 DEF LockHeld, Critical
  <2>4. Intent'
    BY <2>1 DEF Intent, Follows
  <2>5. Progress'
    BY <2>1, FilesStay DEF Progress, files
  <2>6. PointerComplete'
    BY <2>1, FilesStay DEF PointerComplete
  <2> QED BY <2>2, <2>3, <2>4, <2>5, <2>6
<1>21. ASSUME UNCHANGED vars PROVE Inv'
  BY <1>21, FilesStay DEF vars, files, TypeOK, LockHeld, Intent, Follows, Progress,
     PointerComplete
<1> QED
  BY <1>1, <1>2, <1>3, <1>4, <1>5, <1>6, <1>7, <1>8, <1>9, <1>10, <1>11, <1>12,
     <1>13, <1>14, <1>15, <1>16, <1>17, <1>18, <1>19, <1>20, <1>21
     DEF Next, WriterStep

LEMMA Invariance == Spec => []Inv
<1> QED
  BY InitInv, StepInv, PTL DEF Spec

\* Every reachable state has its types, whatever the processes, commits and
\* builds.
THEOREM PublicationTyped == Spec => []TypeOK
<1>1. Inv => TypeOK
  BY DEF Inv
<1> QED
  BY <1>1, Invariance, PTL

\* The pointer always names a complete release with a valid receipt: no crash,
\* failed file operation, race or lock recovery leaves readers or later
\* commands without one (publishPublicRelease, switchPointer).
THEOREM PointerAlwaysComplete == Spec => []PointerComplete
<1>1. Inv => PointerComplete
  BY DEF Inv
<1> QED
  BY <1>1, Invariance, PTL

\* Whenever the pointer moves it moves away from what its command had seen
\* before the lock, and by a publication only to a descendant
\* (switchPointer under withPublicationLock).
THEOREM PointerMovesAsSeen == Spec => PointerMoves
<1> DEFINE Move_ ==
      \E w \in Writer :
        /\ pc[w] = "replacing"
        /\ pointer = cmd[w].expected
        /\ pointer' = cmd[w].release
        /\ cmd[w].kind = "publish" => Follows(pointer, pointer')
<1>1. ASSUME Inv, Next, pointer' # pointer PROVE Move_
  <2>1. PICK w \in Writer : ReplacePointer(w)
    BY <1>1 DEF Next, WriterStep, files, Unlock, BeginPublish, BeginRollback, TakeLock,
       FindLocked, CheckPublish, Repeat, CheckRollback, Refuse, ArchiveRelease,
       OpenReceipt, WriteReceipt, KeepReceipt, RefuseReceipt, ComparePointer,
       RefuseSwitch, Leave, Fail, Crash, ClearLock
  <2>2. pc[w] = "replacing" /\ pointer' = cmd[w].release
    BY <2>1 DEF ReplacePointer
  <2>3. pointer = cmd[w].expected
    BY <1>1, <2>2 DEF Inv, Progress
  <2> QED BY <1>1, <2>2, <2>3 DEF Inv, Intent
<1>2. Inv /\ [Next]_vars => [Move_]_pointer
  BY <1>1 DEF vars
<1> QED
  BY <1>2, Invariance, PTL DEF Spec, PointerMoves
=============================================================================
