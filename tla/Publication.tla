------------------------------ MODULE Publication ------------------------------
(***************************************************************************)
(* The delivery directory of the public site: immutable releases, the      *)
(* pointer current.json and the writer lock                                *)
(* (lib/public-presentation/publication.ts), as commands of several        *)
(* processes use it (scripts/publish-public-presentation.ts and an         *)
(* operator's rollback), any of which may end at any step.                 *)
(*                                                                         *)
(* A command reads the pointer long before it takes the lock, since it     *)
(* builds the site in between, and hands what it read to the command       *)
(* proper as the expected pointer.                                         *)
(***************************************************************************)
EXTENDS Naturals

CONSTANTS
  Writer,    \* processes; each runs one command
  Sha,       \* authoritative commits
  BasePath,  \* base paths a site may be built for
  Build,     \* what two builds of one commit and base path may differ in
  Descends,  \* pairs <<a, b>> for which git merge-base --is-ancestor a b holds
  NoRelease, \* no current.json
  NoWriter   \* no .publication.lock

\* What a release's content hash identifies.
Release == [sha : Sha, base : BasePath, build : Build]

ASSUME DescendsAssumption == Descends \subseteq Sha \X Sha
ASSUME NullAssumption == NoRelease \notin Release /\ NoWriter \notin Writer

VARIABLES
  pointer,   \* the release current.json names
  releases,  \* the complete directories under releases/
  receipts,  \* receipts[r]: the file release-provenance/r.json
  lock,      \* the process that created .publication.lock
  cmd,       \* cmd[w]: w's command and the pointer it expects
  pc         \* pc[w]: where w is

vars == <<pointer, releases, receipts, lock, cmd, pc>>
files == <<pointer, releases, receipts>>

ReceiptState == {"absent", "partial", "complete"}

NoCommand == [kind |-> "none", release |-> NoRelease, expected |-> NoRelease]
Command == [kind : {"publish", "rollback"}, release : Release,
            expected : Release \cup {NoRelease}]

\* The states in which a process holds the lock.
Critical == {"checking", "archiving", "recording", "writing", "switching",
             "replacing", "leaving"}
WriterState == {"idle", "built", "done", "failed", "dead"} \cup Critical

Init ==
  /\ pointer = NoRelease
  /\ releases = {}
  /\ receipts = [r \in Release |-> "absent"]
  /\ lock = NoWriter
  /\ cmd = [w \in Writer |-> NoCommand]
  /\ pc = [w \in Writer |-> "idle"]

Goto(w, s) == pc' = [pc EXCEPT ![w] = s]

\* A release whose directory and receipt both validate.
Complete(r) == r \in releases /\ receipts[r] = "complete"

\* readPublicationPointer returns; otherwise it throws.
Readable == pointer # NoRelease => Complete(pointer)

\* A publication may replace p by r: the same commit or a descendant.
Follows(p, r) ==
  p # NoRelease => p.sha = r.sha \/ <<p.sha, r.sha>> \in Descends

\* Publishing r over p has nothing to do: same commit (and with it the same
\* snapshot and implementation) and same base path.
SamePublication(p, r) ==
  p # NoRelease /\ p.sha = r.sha /\ p.base = r.base

-----------------------------------------------------------------------------
(* Before the lock.                                                        *)

\* The command reads the pointer, refuses a commit that does not descend from
\* it, and builds a release in a temporary directory.
BeginPublish(w) ==
  /\ pc[w] = "idle"
  /\ Readable
  /\ \E r \in Release :
       /\ Follows(pointer, r)
       /\ cmd' = [cmd EXCEPT ![w] = [kind |-> "publish", release |-> r, expected |-> pointer]]
  /\ Goto(w, "built")
  /\ UNCHANGED <<files, lock>>

\* Variant: an operator who rolls back without having read a pointer.
BeginRollbackUnread(w) ==
  /\ pc[w] = "idle"
  /\ Readable
  /\ \E r \in Release :
       cmd' = [cmd EXCEPT ![w] = [kind |-> "rollback", release |-> r, expected |-> pointer]]
  /\ Goto(w, "built")
  /\ UNCHANGED <<files, lock>>

\* An operator names a release and the pointer he sees.
BeginRollback(w) ==
  /\ pc[w] = "idle"
  /\ Readable
  /\ pointer # NoRelease
  /\ \E r \in Release :
       cmd' = [cmd EXCEPT ![w] = [kind |-> "rollback", release |-> r, expected |-> pointer]]
  /\ Goto(w, "built")
  /\ UNCHANGED <<files, lock>>

\* Variant: a writer that takes over a lock it finds.
TakeLockOver(w) ==
  /\ pc[w] = "built"
  /\ lock' = w
  /\ Goto(w, "checking")
  /\ UNCHANGED <<files, cmd>>

\* The exclusive creation of .publication.lock.
TakeLock(w) ==
  /\ pc[w] = "built"
  /\ lock = NoWriter
  /\ lock' = w
  /\ Goto(w, "checking")
  /\ UNCHANGED <<files, cmd>>

\* PUBLIC_WRITER_LOCKED: the command fails, it never waits.
FindLocked(w) ==
  /\ pc[w] = "built"
  /\ lock # NoWriter
  /\ Goto(w, "failed")
  /\ UNCHANGED <<files, lock, cmd>>

-----------------------------------------------------------------------------
(* Under the lock.                                                         *)

\* The command ends and removes the lock file, whoever's it is.
Unlock(w, s) ==
  /\ lock' = NoWriter
  /\ Goto(w, s)
  /\ UNCHANGED <<files, cmd>>

ExpectedPointer(w) == Readable /\ pointer = cmd[w].expected

\* What publishPublicRelease asks before it writes anything.
MayPublish(w) ==
  /\ ExpectedPointer(w)
  /\ Follows(pointer, cmd[w].release)

CheckPublish(w) ==
  /\ pc[w] = "checking"
  /\ cmd[w].kind = "publish"
  /\ MayPublish(w)
  /\ ~SamePublication(pointer, cmd[w].release)
  /\ Goto(w, "archiving")
  /\ UNCHANGED <<files, lock, cmd>>

\* IDEMPOTENT: the current release serves.
Repeat(w) ==
  /\ pc[w] = "checking"
  /\ cmd[w].kind = "publish"
  /\ MayPublish(w)
  /\ SamePublication(pointer, cmd[w].release)
  /\ Unlock(w, "done")

\* rollbackPublicRelease asks that the release is archived with its receipt,
\* and no more of it; the expected pointer is compared with the switch.
CheckRollback(w) ==
  /\ pc[w] = "checking"
  /\ cmd[w].kind = "rollback"
  /\ Complete(cmd[w].release)
  /\ Goto(w, "switching")
  /\ UNCHANGED <<files, lock, cmd>>

\* Variant: an early return that keeps the lock.
RefuseLocked(w) ==
  /\ pc[w] = "checking"
  /\ \/ cmd[w].kind = "publish" /\ ~MayPublish(w)
     \/ cmd[w].kind = "rollback" /\ ~Complete(cmd[w].release)
  /\ Goto(w, "failed")
  /\ UNCHANGED <<files, lock, cmd>>

\* PUBLIC_POINTER_CAS_MISMATCH, PUBLIC_STALE_OR_UNRELATED_COMMIT, or a release
\* to roll back to that does not validate.
Refuse(w) ==
  /\ pc[w] = "checking"
  /\ \/ cmd[w].kind = "publish" /\ ~MayPublish(w)
     \/ cmd[w].kind = "rollback" /\ ~Complete(cmd[w].release)
  /\ Unlock(w, "failed")

\* The release is copied to a staging directory, validated there and renamed
\* to its final name; an existing directory is validated instead.
ArchiveRelease(w) ==
  /\ pc[w] = "archiving"
  /\ releases' = releases \cup {cmd[w].release}
  /\ Goto(w, "recording")
  /\ UNCHANGED <<pointer, receipts, lock, cmd>>

\* The exclusive creation of the receipt file, empty as yet.
OpenReceipt(w) ==
  /\ pc[w] = "recording"
  /\ receipts[cmd[w].release] = "absent"
  /\ receipts' = [receipts EXCEPT ![cmd[w].release] = "partial"]
  /\ Goto(w, "writing")
  /\ UNCHANGED <<pointer, releases, lock, cmd>>

WriteReceipt(w) ==
  /\ pc[w] = "writing"
  /\ receipts' = [receipts EXCEPT ![cmd[w].release] = "complete"]
  /\ Goto(w, "switching")
  /\ UNCHANGED <<pointer, releases, lock, cmd>>

\* Variant: a receipt that exists is taken for a receipt that is valid.
KeepReceiptUnread(w) ==
  /\ pc[w] = "recording"
  /\ receipts[cmd[w].release] # "absent"
  /\ Goto(w, "switching")
  /\ UNCHANGED <<files, lock, cmd>>

\* An earlier command has written the receipt of this release.
KeepReceipt(w) ==
  /\ pc[w] = "recording"
  /\ receipts[cmd[w].release] = "complete"
  /\ Goto(w, "switching")
  /\ UNCHANGED <<files, lock, cmd>>

\* The receipt that exists does not parse.
RefuseReceipt(w) ==
  /\ pc[w] = "recording"
  /\ receipts[cmd[w].release] = "partial"
  /\ Unlock(w, "failed")

\* switchPointer compares once more and writes a temporary file.
ComparePointer(w) ==
  /\ pc[w] = "switching"
  /\ ExpectedPointer(w)
  /\ Goto(w, "replacing")
  /\ UNCHANGED <<files, lock, cmd>>

RefuseSwitch(w) ==
  /\ pc[w] = "switching"
  /\ ~ExpectedPointer(w)
  /\ Unlock(w, "failed")

\* The temporary file is renamed to current.json.
ReplacePointer(w) ==
  /\ pc[w] = "replacing"
  /\ pointer' = cmd[w].release
  /\ Goto(w, "leaving")
  /\ UNCHANGED <<releases, receipts, lock, cmd>>

Leave(w) ==
  /\ pc[w] = "leaving"
  /\ Unlock(w, "done")

\* A file operation throws: the lock is removed on the way out, nothing else
\* is undone.
Fail(w) ==
  /\ pc[w] \in Critical \ {"checking", "leaving"}
  /\ Unlock(w, "failed")

\* The process ends; its files stay as they are, the lock among them.
Crash(w) ==
  /\ pc[w] \in Critical \cup {"built"}
  /\ Goto(w, "dead")
  /\ UNCHANGED <<files, lock, cmd>>

\* Lock recovery by an operator who has confirmed that its writer is gone.
ClearLock ==
  /\ lock \in Writer
  /\ pc[lock] = "dead"
  /\ lock' = NoWriter
  /\ UNCHANGED <<files, cmd, pc>>

WriterStep(w) ==
  \/ TakeLock(w) \/ FindLocked(w)
  \/ CheckPublish(w) \/ Repeat(w) \/ CheckRollback(w) \/ Refuse(w)
  \/ ArchiveRelease(w) \/ OpenReceipt(w) \/ WriteReceipt(w)
  \/ KeepReceipt(w) \/ RefuseReceipt(w)
  \/ ComparePointer(w) \/ RefuseSwitch(w) \/ ReplacePointer(w) \/ Leave(w)

Next ==
  \/ \E w \in Writer :
       BeginPublish(w) \/ BeginRollback(w) \/ WriterStep(w) \/ Fail(w) \/ Crash(w)
  \/ ClearLock

Spec == Init /\ [][Next]_vars

\* A command that has started goes on: each of its steps is a synchronous
\* call.  Nobody has to start one, to crash, or to clear a lock.
Fairness == \A w \in Writer : WF_vars(WriterStep(w))

FairSpec == Spec /\ Fairness

-----------------------------------------------------------------------------
(* What is to be checked.                                                  *)

\* Every variable has its type; a rollback always states which pointer it
\* expects (rollbackPublicRelease's expected_pointer_hash is not nullable).
TypeOK ==
  /\ pointer \in Release \cup {NoRelease}
  /\ releases \subseteq Release
  /\ receipts \in [Release -> ReceiptState]
  /\ lock \in Writer \cup {NoWriter}
  /\ pc \in [Writer -> WriterState]
  /\ cmd \in [Writer -> Command \cup {NoCommand}]
  /\ \A w \in Writer :
       /\ pc[w] # "idle" => cmd[w] \in Command
       /\ cmd[w].kind = "rollback" => cmd[w].expected \in Release

\* Whoever reads current.json at any moment, before, after or because of a
\* crash, finds a complete release with a valid receipt: no failure leaves a
\* pointer that readPublicationPointer, and with it every later command,
\* refuses (the order of archive, receipt and pointer in
\* publishPublicRelease).
PointerComplete == Readable

\* The pointer moves only from the release its command had seen before it
\* took the lock, and a publication moves it to a descendant of what it
\* replaces: a late or stale publication, a rollback racing it or a recovered
\* lock never overwrite a newer release unseen (the comparisons of
\* publishPublicRelease and switchPointer precede the rename).
PointerMoves ==
  [][\E w \in Writer :
       /\ pc[w] = "replacing"
       /\ pointer = cmd[w].expected
       /\ pointer' = cmd[w].release
       /\ cmd[w].kind = "publish" => Follows(pointer, pointer')]_pointer

\* A writer that took the lock gives it back or is dead: no refusal, failed
\* file operation or repeated publication leaves a lock behind that a living
\* process made (the finally of withPublicationLock).
LockSettles ==
  \A w \in Writer : lock = w ~> (lock # w \/ pc[w] = "dead")

\* What a command that failed or crashed before the pointer moved leaves is
\* the lock and complete unreferenced releases: with the lock free, nothing
\* half-written is in the way of a retry.  Stated by
\* docs/superpowers/specs/2026-09-27-public-presentation-delivery-design.md:188
\* and docs/public-presentation-delivery-operations.md:52.
RetryUnhindered ==
  lock = NoWriter => \A r \in Release : receipts[r] # "partial"
=============================================================================
