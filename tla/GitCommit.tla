----------------------------- MODULE GitCommit -----------------------------
(***************************************************************************)
(* The local commit transaction of AutoGit, end to end: workflow.Run       *)
(* prepares and verifies a candidate outside the writer lease, then, under *)
(* the lease, gittransaction.CommitPrepared persists the intent, builds    *)
(* the commit object, re-checks HEAD and index, creates the ref            *)
(* refs/autogit/commits/<id> and records the result; a second delivery of  *)
(* the same id recovers from the ref instead.  Around it: the user, who    *)
(* moves HEAD and stages files at any time; `operation cancel` and         *)
(* `operation undo`, which do not take the lease; crashes; git commands    *)
(* and store transactions that fail.                                       *)
(*                                                                         *)
(* Every SQLite transaction and every git command is one step.  Commit     *)
(* objects are content addressed: a SHA is the record of what it names.    *)
(* HEAD 0 is the unborn branch (no parent).                                *)
(***************************************************************************)
EXTENDS Integers, FiniteSets

CONSTANTS Proc,           \* autogit processes (CLI runs and hook deliveries)
          Ids,            \* commit operation ids
          Snaps,          \* owned snapshots with their message and digests
          Stamps,         \* commit seconds: what else enters a commit object
          MaxHead,        \* bound on the user's commits
          MaxIndex,       \* bound on the user's staging operations
          MaxCrashes,     \* bound on process deaths
          MayOverstay,    \* a live holder may outlast the two-minute lease
          HeadReadsFail,  \* `git rev-parse HEAD` may fail on an existing HEAD
          NoIntent, NoSha, NoLease, NoRun

ASSUME GitCommitAssumption ==
  /\ MaxHead \in Nat /\ MaxIndex \in Nat /\ MaxCrashes \in Nat
  /\ MayOverstay \in BOOLEAN /\ HeadReadsFail \in BOOLEAN

Heads == 0..MaxHead
Indexes == 0..MaxIndex
Candidates == [parent : Heads, snap : Snaps]
Shas == [parent : Heads, snap : Snaps, stamp : Stamps]
States == {"COMMIT_REQUESTED", "RECONCILE_REQUIRED", "CREATED", "CANCELLED", "UNDONE"}
Intents == [cand : Candidates, sha : Shas \cup {NoSha}, state : States]
Leases == [owner : Ids, expired : BOOLEAN]
Runs == [id : Ids, cand : Candidates, idx : Indexes, sha : Shas \cup {NoSha}]

ASSUME NullAssumption ==
  /\ NoSha \notin Shas
  /\ NoIntent \notin Intents
  /\ NoLease \notin Leases
  /\ NoRun \notin Runs

VARIABLES
  head, index,   \* the user's repository
  refs,          \* refs/autogit/commits/<id>
  objects,       \* commit objects written by commit-tree
  intents,       \* the git_commit_intents table
  lease,         \* the worktree's row of the leases table
  pc, run,       \* each process: where it is, and its Prepared value
  undo,          \* an `operation undo` between its ref deletion and its record
  crashes,
  \* history, read by no guard:
  verified,      \* <<id, candidate>> pairs that passed trusted verification
  named,         \* every commit each AutoGit ref has ever named
  attempts,      \* commit-tree invocations per id
  stale          \* objects only ever built after HEAD or index had moved

repo == <<head, index>>
history == <<verified, named, attempts, stale>>
vars == <<head, index, refs, objects, intents, lease, pc, run, undo, crashes, history>>

(* Program points between Acquire and the deferred Release.                *)
SectionPcs == {"gateHead", "gateIndex", "getIntent", "putIntent", "commitTree",
               "postHead", "postIndex", "inspect", "updateRef", "verifyCommit",
               "record", "reconcile", "recover", "release"}
OutsidePcs == {"idle", "observeIndex", "prepHead", "prepIndex", "verify", "acquire"}
Pcs == SectionPcs \cup OutsidePcs

TypeOK ==
  /\ head \in Heads /\ index \in Indexes
  /\ refs \in [Ids -> Shas \cup {NoSha}]
  /\ objects \in SUBSET Shas
  /\ intents \in [Ids -> Intents \cup {NoIntent}]
  /\ lease \in Leases \cup {NoLease}
  /\ pc \in [Proc -> Pcs]
  /\ run \in [Proc -> Runs \cup {NoRun}]
  /\ \A p \in Proc : run[p] = NoRun <=> pc[p] = "idle"
  /\ undo \in [Ids -> {"idle", "record"}]
  /\ crashes \in 0..MaxCrashes
  /\ verified \in SUBSET (Ids \X Candidates)
  /\ named \in [Ids -> SUBSET Shas]
  /\ attempts \in [Ids -> Nat]
  /\ stale \in SUBSET Shas

Init ==
  /\ head = 0 /\ index = 0
  /\ refs = [i \in Ids |-> NoSha]
  /\ objects = {}
  /\ intents = [i \in Ids |-> NoIntent]
  /\ lease = NoLease
  /\ pc = [p \in Proc |-> "idle"]
  /\ run = [p \in Proc |-> NoRun]
  /\ undo = [i \in Ids |-> "idle"]
  /\ crashes = 0
  /\ verified = {}
  /\ named = [i \in Ids |-> {}]
  /\ attempts = [i \in Ids |-> 0]
  /\ stale = {}

-----------------------------------------------------------------------------
Goto(p, l) == pc' = [pc EXCEPT ![p] = l] /\ UNCHANGED run

Finish(p) == pc' = [pc EXCEPT ![p] = "idle"] /\ run' = [run EXCEPT ![p] = NoRun]

(* What a process learns from `git rev-parse --verify HEAD^{commit}`: an   *)
(* error is taken for an unborn HEAD.                                      *)
HeadSeen == {head} \cup (IF HeadReadsFail THEN {0} ELSE {})

(* What inspectRef returns: a failing rev-parse is taken for no ref.       *)
RefSeen(i) == {refs[i], NoSha}

-----------------------------------------------------------------------------
(* Preparation and verification, outside the lease.                        *)

(* observe reads HEAD, then the index; the candidate tree is HEAD's tree   *)
(* with the snapshot applied in a temporary index.                         *)
ObserveHead(p, i, s) ==
  /\ pc[p] = "idle"
  /\ \E h \in HeadSeen :
       run' = [run EXCEPT ![p] = [id |-> i, cand |-> [parent |-> h, snap |-> s],
                                  idx |-> 0, sha |-> NoSha]]
  /\ pc' = [pc EXCEPT ![p] = "observeIndex"]
  /\ UNCHANGED <<repo, refs, objects, intents, lease, undo, crashes, history>>

ObserveIndex(p) ==
  /\ pc[p] = "observeIndex"
  /\ run' = [run EXCEPT ![p].idx = index]
  /\ pc' = [pc EXCEPT ![p] = "prepHead"]
  /\ UNCHANGED <<repo, refs, objects, intents, lease, undo, crashes, history>>

(* The two reads of ensureUnchanged, at program point at.                  *)
HeadUnchanged(p, at, next) ==
  /\ pc[p] = at
  /\ run[p].cand.parent \in HeadSeen
  /\ Goto(p, next)
  /\ UNCHANGED <<repo, refs, objects, intents, lease, undo, crashes, history>>

IndexUnchanged(p, at, next) ==
  /\ pc[p] = at
  /\ run[p].idx = index
  /\ Goto(p, next)
  /\ UNCHANGED <<repo, refs, objects, intents, lease, undo, crashes, history>>

(* ensureUnchanged fails in one of its two reads.                          *)
Changed(p, headPc, indexPc) ==
  \/ pc[p] = headPc /\ \E h \in HeadSeen : h # run[p].cand.parent
  \/ pc[p] = indexPc /\ index # run[p].idx

PrepareUnchanged(p) ==
  \/ HeadUnchanged(p, "prepHead", "prepIndex")
  \/ IndexUnchanged(p, "prepIndex", "verify")

PrepareChanged(p) ==
  /\ Changed(p, "prepHead", "prepIndex")
  /\ Finish(p)
  /\ UNCHANGED <<repo, refs, objects, intents, lease, undo, crashes, history>>

(* The guards and the trusted verifiers pass for exactly this candidate    *)
(* ... or they block it, and nothing durable has happened.                 *)
VerifyPasses(p) ==
  /\ pc[p] = "verify"
  /\ verified' = verified \cup {<<run[p].id, run[p].cand>>}
  /\ Goto(p, "acquire")
  /\ UNCHANGED <<repo, refs, objects, intents, lease, undo, crashes, named, attempts, stale>>

(* A mutant of VerifyFails: a blocked verification lets the commit go on.  *)
VerifyFailsOpen(p) ==
  /\ pc[p] = "verify"
  /\ Goto(p, "acquire")
  /\ UNCHANGED <<repo, refs, objects, intents, lease, undo, crashes, history>>

VerifyFails(p) ==
  /\ pc[p] = "verify"
  /\ Finish(p)
  /\ UNCHANGED <<repo, refs, objects, intents, lease, undo, crashes, history>>

-----------------------------------------------------------------------------
(* The writer lease of the worktree (module Lease has its clock).          *)

LeaseFree == lease = NoLease \/ lease \in [owner : Ids, expired : {TRUE}]

Acquire(p) ==
  /\ pc[p] = "acquire"
  /\ LeaseFree
  /\ lease' = [owner |-> run[p].id, expired |-> FALSE]
  /\ Goto(p, "gateHead")
  /\ UNCHANGED <<repo, refs, objects, intents, undo, crashes, history>>

LeaseHeld(p) ==
  /\ pc[p] = "acquire"
  /\ ~LeaseFree
  /\ Finish(p)
  /\ UNCHANGED <<repo, refs, objects, intents, lease, undo, crashes, history>>

(* Two minutes pass.  Without MayOverstay only a dead holder's lease runs  *)
(* out.                                                                    *)
LeaseExpires ==
  /\ lease \in [owner : Ids, expired : {FALSE}]
  /\ MayOverstay \/ \A p \in Proc : pc[p] \notin SectionPcs
  /\ lease' = [lease EXCEPT !.expired = TRUE]
  /\ UNCHANGED <<repo, refs, objects, intents, pc, run, undo, crashes, history>>

(* The deferred Release: by owner string, and it may fail.                 *)
Release(p) ==
  /\ pc[p] = "release"
  /\ \/ /\ lease # NoLease /\ lease.owner = run[p].id
        /\ lease' = NoLease
     \/ lease' = lease
  /\ Finish(p)
  /\ UNCHANGED <<repo, refs, objects, intents, undo, crashes, history>>

-----------------------------------------------------------------------------
(* CommitPrepared, inside the lease.                                       *)

GateUnchanged(p) ==
  \/ HeadUnchanged(p, "gateHead", "gateIndex")
  \/ IndexUnchanged(p, "gateIndex", "getIntent")

GateChanged(p) ==
  /\ Changed(p, "gateHead", "gateIndex")
  /\ Goto(p, "release")
  /\ UNCHANGED <<repo, refs, objects, intents, lease, undo, crashes, history>>

(* A mutant of GetIntent: an existing intent is not an answer yet.         *)
GetIntentIgnored(p) ==
  /\ pc[p] = "getIntent"
  /\ Goto(p, "putIntent")
  /\ UNCHANGED <<repo, refs, objects, intents, lease, undo, crashes, history>>


(* An existing intent is authoritative: the same one is recovered, another *)
(* one under this id is a conflict.                                        *)
GetIntent(p) ==
  LET i == run[p].id IN
  /\ pc[p] = "getIntent"
  /\ Goto(p, IF intents[i] = NoIntent THEN "putIntent"
             ELSE IF intents[i].cand = run[p].cand THEN "recover" ELSE "release")
  /\ UNCHANGED <<repo, refs, objects, intents, lease, undo, crashes, history>>

(* PutGitCommitIntent: insert, or accept an equal row, or conflict.        *)
PutIntent(p) ==
  LET i == run[p].id IN
  /\ pc[p] = "putIntent"
  /\ \/ /\ intents[i] = NoIntent
        /\ intents' = [intents EXCEPT ![i] =
             [cand |-> run[p].cand, sha |-> NoSha, state |-> "COMMIT_REQUESTED"]]
        /\ Goto(p, "commitTree")
     \/ /\ intents[i] # NoIntent
        /\ Goto(p, IF intents[i].cand = run[p].cand THEN "commitTree" ELSE "release")
        /\ UNCHANGED intents
  /\ UNCHANGED <<repo, refs, objects, lease, undo, crashes, history>>

(* `git commit-tree`: the object depends on the second it is written in.   *)
CommitTree(p) ==
  /\ pc[p] = "commitTree"
  /\ attempts' = [attempts EXCEPT ![run[p].id] = @ + 1]
  /\ \E t \in Stamps :
       LET s == [parent |-> run[p].cand.parent, snap |-> run[p].cand.snap, stamp |-> t]
       IN  /\ objects' = objects \cup {s}
           /\ run' = [run EXCEPT ![p].sha = s]
           /\ stale' = IF head = run[p].cand.parent /\ index = run[p].idx
                      THEN stale \ {s}
                      ELSE stale \cup ({s} \ objects)
  /\ pc' = [pc EXCEPT ![p] = "postHead"]
  /\ UNCHANGED <<repo, refs, intents, lease, undo, crashes, verified, named>>

(* commit-tree reports an error or no object name: outcome unknown.        *)
CommitTreeFails(p) ==
  /\ pc[p] = "commitTree"
  /\ attempts' = [attempts EXCEPT ![run[p].id] = @ + 1]
  /\ Goto(p, "reconcile")
  /\ UNCHANGED <<repo, refs, objects, intents, lease, undo, crashes, verified, named, stale>>

(* A mutant of PostUnchanged: no second look at HEAD.                      *)
PostIndexOnly(p) ==
  \/ pc[p] = "postHead" /\ Goto(p, "postIndex")
       /\ UNCHANGED <<repo, refs, objects, intents, lease, undo, crashes, history>>
  \/ IndexUnchanged(p, "postIndex", "inspect")

PostUnchanged(p) ==
  \/ HeadUnchanged(p, "postHead", "postIndex")
  \/ IndexUnchanged(p, "postIndex", "inspect")

PostChanged(p) ==
  /\ Changed(p, "postHead", "postIndex")
  /\ Goto(p, "reconcile")
  /\ UNCHANGED <<repo, refs, objects, intents, lease, undo, crashes, history>>

(* inspectRef before the ref update.                                       *)
InspectRef(p) ==
  /\ pc[p] = "inspect"
  /\ \E s \in RefSeen(run[p].id) :
       Goto(p, IF s = NoSha THEN "updateRef" ELSE IF s = run[p].sha THEN "record" ELSE "reconcile")
  /\ UNCHANGED <<repo, refs, objects, intents, lease, undo, crashes, history>>

(* `git update-ref REF SHA ""`: create only; the answer may be lost.       *)
UpdateRef(p) ==
  LET i == run[p].id IN
  /\ pc[p] = "updateRef"
  /\ refs[i] = NoSha
  /\ refs' = [refs EXCEPT ![i] = run[p].sha]
  /\ named' = [named EXCEPT ![i] = @ \cup {run[p].sha}]
  /\ \E l \in {"verifyCommit", "reconcile"} : Goto(p, l)
  /\ UNCHANGED <<repo, objects, intents, lease, undo, crashes, verified, attempts, stale>>

(* A mutant of UpdateRefFails: the error of update-ref is dropped.         *)
UpdateRefErrorDropped(p) ==
  /\ pc[p] = "updateRef"
  /\ Goto(p, "verifyCommit")
  /\ UNCHANGED <<repo, refs, objects, intents, lease, undo, crashes, history>>

UpdateRefFails(p) ==
  /\ pc[p] = "updateRef"
  /\ Goto(p, "reconcile")
  /\ UNCHANGED <<repo, refs, objects, intents, lease, undo, crashes, history>>

(* verifyCommit compares tree, first parent (unless the intent has none)   *)
(* and message with the commit object.                                     *)
Evidence(s, c) == s.snap = c.snap /\ (c.parent # 0 => s.parent = c.parent)

VerifyCommit(p) ==
  /\ pc[p] = "verifyCommit"
  /\ \/ Evidence(run[p].sha, run[p].cand) /\ Goto(p, "record")
     \/ Goto(p, "reconcile")  \* mismatch, or cat-file fails
  /\ UNCHANGED <<repo, refs, objects, intents, lease, undo, crashes, history>>

(* Recover: the ref is the evidence; commit-tree is never run again.       *)
Recover(p) ==
  /\ pc[p] = "recover"
  /\ \E s \in RefSeen(run[p].id) :
       \/ s = NoSha /\ Goto(p, "reconcile")
       \/ /\ s # NoSha
          /\ run' = [run EXCEPT ![p].sha = s]
          /\ pc' = [pc EXCEPT ![p] = "verifyCommit"]
  /\ UNCHANGED <<repo, refs, objects, intents, lease, undo, crashes, history>>

(* RecordGitCommit: the stored SHA, once set, never changes.               *)
RecordCommit(p) ==
  LET i == run[p].id IN
  /\ pc[p] = "record"
  /\ \/ /\ intents[i].sha \in {NoSha, run[p].sha}
        /\ intents' = [intents EXCEPT ![i].sha = run[p].sha, ![i].state = "CREATED"]
     \/ /\ intents[i].sha \notin {NoSha, run[p].sha}
        /\ UNCHANGED intents
  /\ Goto(p, "release")
  /\ UNCHANGED <<repo, refs, objects, lease, undo, crashes, history>>

(* RecordGitReconcile overwrites whatever state the row has.               *)
RecordReconcile(p) ==
  /\ pc[p] = "reconcile"
  /\ intents' = [intents EXCEPT ![run[p].id].state = "RECONCILE_REQUIRED"]
  /\ Goto(p, "release")
  /\ UNCHANGED <<repo, refs, objects, lease, undo, crashes, history>>

(* A store transaction fails (busy, I/O): nothing is written, the call     *)
(* returns the error.                                                      *)
StoreFails(p) ==
  /\ pc[p] \in {"getIntent", "putIntent", "record", "reconcile", "recover"}
  /\ Goto(p, "release")
  /\ UNCHANGED <<repo, refs, objects, intents, lease, undo, crashes, history>>

-----------------------------------------------------------------------------
(* operation cancel and operation undo: neither takes the lease.           *)

(* A mutant of Cancel: UPDATE without the condition on sha.                *)
CancelAnyway(i) ==
  /\ intents[i] # NoIntent
  /\ intents' = [intents EXCEPT ![i].state = "CANCELLED"]
  /\ UNCHANGED <<repo, refs, objects, lease, pc, run, undo, crashes, history>>

(* Inspect and RecordGitCancel (WHERE sha=''): a set SHA never clears, so  *)
(* the two reads agree when the update matches.                            *)
Cancel(i) ==
  /\ intents[i] # NoIntent
  /\ intents[i].sha = NoSha
  /\ intents' = [intents EXCEPT ![i].state = "CANCELLED"]
  /\ UNCHANGED <<repo, refs, objects, lease, pc, run, undo, crashes, history>>

(* A mutant of UndoDeleteRef: no expected old value.                       *)
UndoDeleteAny(i) ==
  /\ undo[i] = "idle"
  /\ refs[i] # NoSha
  /\ refs' = [refs EXCEPT ![i] = NoSha]
  /\ undo' = [undo EXCEPT ![i] = "record"]
  /\ UNCHANGED <<repo, objects, intents, lease, pc, run, crashes, history>>

(* `git update-ref -d REF SHA` with the recorded SHA as the expected value.*)
UndoDeleteRef(i) ==
  /\ undo[i] = "idle"
  /\ intents[i] # NoIntent
  /\ intents[i].sha # NoSha
  /\ refs[i] = intents[i].sha
  /\ refs' = [refs EXCEPT ![i] = NoSha]
  /\ undo' = [undo EXCEPT ![i] = "record"]
  /\ UNCHANGED <<repo, objects, intents, lease, pc, run, crashes, history>>

RecordUndo(i) ==
  /\ undo[i] = "record"
  /\ intents' = [intents EXCEPT ![i].state = "UNDONE"]
  /\ undo' = [undo EXCEPT ![i] = "idle"]
  /\ UNCHANGED <<repo, refs, objects, lease, pc, run, crashes, history>>

-----------------------------------------------------------------------------
(* The environment.                                                        *)

UserCommits ==
  /\ head < MaxHead
  /\ head' = head + 1
  /\ UNCHANGED <<index, refs, objects, intents, lease, pc, run, undo, crashes, history>>

UserStages ==
  /\ index < MaxIndex
  /\ index' = index + 1
  /\ UNCHANGED <<head, refs, objects, intents, lease, pc, run, undo, crashes, history>>

Crash(p) ==
  /\ pc[p] # "idle"
  /\ crashes < MaxCrashes
  /\ crashes' = crashes + 1
  /\ Finish(p)
  /\ UNCHANGED <<repo, refs, objects, intents, lease, undo, history>>

UndoCrash(i) ==
  /\ undo[i] = "record"
  /\ crashes < MaxCrashes
  /\ crashes' = crashes + 1
  /\ undo' = [undo EXCEPT ![i] = "idle"]
  /\ UNCHANGED <<repo, refs, objects, intents, lease, pc, run, history>>

-----------------------------------------------------------------------------
(* workflow.Run is started: a CLI command, a hook delivery, or a repeat.   *)
Start(p) == \E i \in Ids, s \in Snaps : ObserveHead(p, i, s)

(* A started run goes on: preparation, ...                                 *)
PrepareStep(p) ==
  ObserveIndex(p) \/ PrepareUnchanged(p) \/ PrepareChanged(p) \/ VerifyPasses(p)
    \/ VerifyFails(p) \/ Acquire(p) \/ LeaseHeld(p)

(* ... then the steps inside the lease.                                    *)
SectionStep(p) ==
  \/ GateUnchanged(p) \/ GateChanged(p) \/ GetIntent(p) \/ PutIntent(p)
  \/ CommitTree(p) \/ CommitTreeFails(p) \/ PostUnchanged(p) \/ PostChanged(p)
  \/ InspectRef(p) \/ UpdateRef(p) \/ UpdateRefFails(p) \/ VerifyCommit(p)
  \/ Recover(p) \/ RecordCommit(p) \/ RecordReconcile(p) \/ StoreFails(p)
  \/ Release(p)

OperatorStep(i) == Cancel(i) \/ UndoDeleteRef(i) \/ RecordUndo(i) \/ UndoCrash(i)

Next ==
  \/ \E p \in Proc : Start(p) \/ PrepareStep(p) \/ SectionStep(p) \/ Crash(p)
  \/ \E i \in Ids : OperatorStep(i)
  \/ UserCommits \/ UserStages \/ LeaseExpires

Spec == Init /\ [][Next]_vars

-----------------------------------------------------------------------------
(* An AutoGit ref only ever names a commit of the tree, parent and message *)
(* that the durable intent of its id holds and that trusted verification   *)
(* passed: the intent is on disk before the ref, and no interleaving of    *)
(* deliveries, recoveries, HEAD moves or crashes puts another candidate    *)
(* under the id.                                                           *)
RefIsVerifiedIntent ==
  \A i \in Ids : refs[i] # NoSha =>
    /\ intents[i] # NoIntent
    /\ refs[i].parent = intents[i].cand.parent
    /\ refs[i].snap = intents[i].cand.snap
    /\ <<i, intents[i].cand>> \in verified

(* A recorded SHA, and with it state CREATED, is never a claim without     *)
(* evidence: the AutoGit ref has named exactly that commit.                *)
RecordedWasNamed ==
  \A i \in Ids : intents[i] # NoIntent =>
    /\ intents[i].sha # NoSha => intents[i].sha \in named[i]
    /\ intents[i].state \in {"CREATED", "UNDONE"} => intents[i].sha # NoSha

(* "Duplicate delivery cannot create a second ... commit" (lifecycle.md):  *)
(* while leases outlast their live holders, commit-tree runs at most once  *)
(* per id, over all deliveries, crashes and recoveries.                    *)
CommitTreeAtMostOnce == \A i \in Ids : attempts[i] <= 1

(* A commit object that was built after HEAD or the index had moved away   *)
(* from the candidate's base never gets under the AutoGit ref.             *)
NoStaleRef == \A i \in Ids : named[i] \cap stale = {}

(* What no step may do to a durable identity: drop an intent, change its   *)
(* candidate, change a SHA once recorded, move a ref to another commit, or *)
(* delete a ref that does not name the recorded commit.                    *)
IdentityIsDurable ==
  [][ \A i \in Ids :
        /\ intents[i] # NoIntent =>
             /\ intents'[i] # NoIntent
             /\ intents'[i].cand = intents[i].cand
             /\ intents[i].sha # NoSha => intents'[i].sha = intents[i].sha
        /\ refs[i] # NoSha /\ refs'[i] # refs[i] =>
             refs'[i] = NoSha /\ intents[i].sha = refs[i] ]_vars

-----------------------------------------------------------------------------
(* The transaction implements the ledger: whatever processes, crashes and  *)
(* git failures do, intents and refs move only as CommitLedger allows.     *)
CandOfSha == [s \in Shas |-> [parent |-> s.parent, snap |-> s.snap]]

Ledger == INSTANCE CommitLedger WITH Cand <- Candidates, Sha <- Shas, CandOf <- CandOfSha

ImplementsLedger == Ledger!Spec

-----------------------------------------------------------------------------
(* Fairness: a live process takes its next step; deliveries are repeated   *)
(* (adapters redeliver, users rerun); time passes; and neither verifiers,  *)
(* lease contention nor the store refuse for ever.                         *)
Fairness ==
  /\ WF_vars(LeaseExpires)
  /\ \A p \in Proc :
       /\ WF_vars(Start(p))
       /\ WF_vars(PrepareStep(p))
       /\ WF_vars(SectionStep(p))
       /\ SF_vars(VerifyPasses(p))
       /\ SF_vars(Acquire(p))
       /\ SF_vars(GetIntent(p))
       /\ SF_vars(Recover(p))
       /\ SF_vars(RecordCommit(p))
       /\ SF_vars(RecordReconcile(p))

FairSpec == Spec /\ Fairness

Requested(i) == intents[i] # NoIntent /\ intents[i].state = "COMMIT_REQUESTED"


(* The same wherever the user takes HEAD ("Unknown outcomes become visible *)
(* `RECONCILE_REQUIRED`", docs/lifecycle.md:203).  The code does not keep  *)
(* it: a delivery after the user's next commit prepares another candidate, *)
(* which conflicts with the intent and leaves it as it is.                 *)
RequestedResolves == \A i \in Ids : Requested(i) ~> ~Requested(i)
=============================================================================
