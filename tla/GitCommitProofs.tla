-------------------------- MODULE GitCommitProofs --------------------------
(***************************************************************************)
(* Proofs about GitCommit, for any sets of processes, ids, snapshots and   *)
(* commit seconds and any bounds.                                          *)
(*                                                                         *)
(* The properties of the durable state (refs, intents) are not inductive   *)
(* alone: a process carries a candidate and a SHA from one step to a later *)
(* one, and what it writes is right because of what it read.  RunInv says, *)
(* per program point, what is known of the values a process carries; it    *)
(* holds because intents, recorded SHAs and verified candidates never      *)
(* change (LedgerInv), so a fact once read stays true while the process is *)
(* delayed.                                                                *)
(***************************************************************************)
EXTENDS GitCommit, TLAPS

(* Program points after PutIntent or GetIntent found the process's own     *)
(* intent, points where it carries a commit, and where that commit is      *)
(* known to have been named by the ref.                                    *)
IntentPcs == {"commitTree", "postHead", "postIndex", "inspect", "updateRef",
              "verifyCommit", "record", "reconcile", "recover"}
CommitPcs == {"postHead", "postIndex", "inspect", "updateRef", "verifyCommit", "record"}
NamedPcs == {"verifyCommit", "record"}

IsCommitOf(s, c) == s.parent = c.parent /\ s.snap = c.snap

Carries(p) ==
  /\ pc[p] \in SectionPcs \cup {"acquire"} => <<run[p].id, run[p].cand>> \in verified
  /\ pc[p] \in IntentPcs => intents[run[p].id] # NoIntent
                            /\ intents[run[p].id].cand = run[p].cand
  /\ pc[p] \in CommitPcs => run[p].sha # NoSha /\ IsCommitOf(run[p].sha, run[p].cand)
  /\ pc[p] \in NamedPcs => run[p].sha \in named[run[p].id]

RunInv == \A p \in Proc : Carries(p)

RowInv(i) ==
  /\ intents[i] # NoIntent => <<i, intents[i].cand>> \in verified
  /\ \A s \in named[i] : intents[i] # NoIntent /\ IsCommitOf(s, intents[i].cand)
  /\ refs[i] # NoSha => refs[i] \in named[i]
  /\ undo[i] = "record" => intents[i] # NoIntent /\ intents[i].sha # NoSha

LedgerInv == \A i \in Ids : RowInv(i)

IInv == TypeOK /\ RunInv /\ LedgerInv /\ RecordedWasNamed

-----------------------------------------------------------------------------
(* The types are kept, given what processes carry.                         *)
LEMMA TypeInductive == IInv /\ [Next]_vars => TypeOK'
<1> SUFFICES ASSUME IInv, [Next]_vars PROVE TypeOK'
  OBVIOUS
<1> USE GitCommitAssumption, NullAssumption
<1> USE DEF IInv, TypeOK, Pcs, SectionPcs, OutsidePcs, repo, history, Goto, Finish
<1>1. ASSUME NEW p \in Proc, Start(p) PROVE TypeOK'
  <2>1. PICK i \in Ids, s \in Snaps : ObserveHead(p, i, s)
    BY <1>1 DEF Start
  <2>2. PICK h \in HeadSeen :
          run' = [run EXCEPT ![p] = [id |-> i, cand |-> [parent |-> h, snap |-> s],
                                     idx |-> 0, sha |-> NoSha]]
    BY <2>1 DEF ObserveHead
  <2>3. [id |-> i, cand |-> [parent |-> h, snap |-> s], idx |-> 0, sha |-> NoSha] \in Runs
    BY DEF Runs, Candidates, Heads, Indexes, HeadSeen
  <2> QED
    BY <2>1, <2>2, <2>3 DEF ObserveHead
<1>2. ASSUME NEW p \in Proc, PrepareStep(p) PROVE TypeOK'
  <2>1. CASE ObserveIndex(p)
    <3>1. run'[p] \in Runs
      BY <2>1 DEF ObserveIndex, Runs
    <3> QED
      BY <2>1, <3>1 DEF ObserveIndex
  <2>2. CASE PrepareUnchanged(p)
    BY <2>2 DEF PrepareUnchanged, HeadUnchanged, IndexUnchanged
  <2>3. CASE PrepareChanged(p)
    BY <2>3 DEF PrepareChanged
  <2>4. CASE VerifyPasses(p)
    <3>1. <<run[p].id, run[p].cand>> \in Ids \X Candidates
      BY <2>4 DEF VerifyPasses, Runs
    <3> QED
      BY <2>4, <3>1 DEF VerifyPasses
  <2>5. CASE VerifyFails(p)
    BY <2>5 DEF VerifyFails
  <2>6. CASE Acquire(p)
    BY <2>6 DEF Acquire, Runs, Leases
  <2>7. CASE LeaseHeld(p)
    BY <2>7 DEF LeaseHeld
  <2> QED
    BY <1>2, <2>1, <2>2, <2>3, <2>4, <2>5, <2>6, <2>7 DEF PrepareStep
<1>3. ASSUME NEW p \in Proc, SectionStep(p) PROVE TypeOK'
  <2>1. CASE GateUnchanged(p)
    BY <2>1 DEF GateUnchanged, HeadUnchanged, IndexUnchanged
  <2>2. CASE GateChanged(p)
    BY <2>2 DEF GateChanged, Changed
  <2>3. CASE GetIntent(p)
    BY <2>3 DEF GetIntent
  <2>4. CASE PutIntent(p)
    <3>1. [cand |-> run[p].cand, sha |-> NoSha, state |-> "COMMIT_REQUESTED"] \in Intents
      BY <2>4 DEF PutIntent, Runs, Intents, States
    <3> QED
      BY <2>4, <3>1 DEF PutIntent
  <2>5. CASE CommitTree(p)
    <3>1. PICK t \in Stamps :
            LET s == [parent |-> run[p].cand.parent, snap |-> run[p].cand.snap, stamp |-> t]
            IN  /\ objects' = objects \cup {s}
                /\ run' = [run EXCEPT ![p].sha = s]
                /\ stale' = IF head = run[p].cand.parent /\ index = run[p].idx
                            THEN stale \ {s} ELSE stale \cup ({s} \ objects)
      BY <2>5 DEF CommitTree
    <3>2. [parent |-> run[p].cand.parent, snap |-> run[p].cand.snap, stamp |-> t] \in Shas
      BY <2>5 DEF CommitTree, Runs, Candidates, Shas
    <3>3. run'[p] \in Runs
      <4> DEFINE s == [parent |-> run[p].cand.parent, snap |-> run[p].cand.snap, stamp |-> t]
      <4>1. run[p] \in Runs /\ run'[p] = [run[p] EXCEPT !.sha = s]
        BY <2>5, <3>1 DEF CommitTree
      <4>2. s \in Shas
        BY <3>2
      <4> HIDE DEF s
      <4> QED
        BY <4>1, <4>2 DEF Runs
    <3>4. attempts' \in [Ids -> Nat]
      BY <2>5 DEF CommitTree, Runs
    <3> QED
      BY <2>5, <3>1, <3>2, <3>3, <3>4 DEF CommitTree
  <2>6. CASE CommitTreeFails(p)
    BY <2>6 DEF CommitTreeFails, Runs
  <2>7. CASE PostUnchanged(p)
    BY <2>7 DEF PostUnchanged, HeadUnchanged, IndexUnchanged
  <2>8. CASE PostChanged(p)
    BY <2>8 DEF PostChanged, Changed
  <2>9. CASE InspectRef(p)
    BY <2>9 DEF InspectRef
  <2>10. CASE UpdateRef(p)
    <3>1. run[p].id \in Ids /\ run[p].sha \in Shas \cup {NoSha}
      BY <2>10 DEF UpdateRef, Runs
    <3>2. run[p].sha # NoSha
      BY <2>10 DEF UpdateRef, RunInv, Carries, CommitPcs
    <3> QED
      BY <2>10, <3>1, <3>2 DEF UpdateRef
  <2>11. CASE UpdateRefFails(p)
    BY <2>11 DEF UpdateRefFails
  <2>12. CASE VerifyCommit(p)
    BY <2>12 DEF VerifyCommit
  <2>13. CASE Recover(p)
    <3>1. CASE Goto(p, "reconcile")
      BY <2>13, <3>1 DEF Recover
    <3>2. CASE \E s \in RefSeen(run[p].id) :
                 /\ s # NoSha
                 /\ run' = [run EXCEPT ![p].sha = s]
                 /\ pc' = [pc EXCEPT ![p] = "verifyCommit"]
      <4>1. run[p] \in Runs /\ run[p].id \in Ids
        BY <2>13 DEF Recover, Runs
      <4>2. run'[p] \in Runs
        BY <3>2, <4>1 DEF Runs, RefSeen
      <4> QED
        BY <2>13, <3>2, <4>2 DEF Recover
    <3> QED
      BY <2>13, <3>1, <3>2 DEF Recover
  <2>14. CASE RecordCommit(p)
    <3>1. run[p].id \in Ids /\ run[p].sha \in Shas \cup {NoSha}
      BY <2>14 DEF RecordCommit, Runs
    <3>2. intents[run[p].id] \in Intents
      BY <2>14, <3>1 DEF RecordCommit, RunInv, Carries, IntentPcs
    <3>3. CASE intents' = [intents EXCEPT ![run[p].id].sha = run[p].sha,
                                          ![run[p].id].state = "CREATED"]
      <4>1. intents'[run[p].id] \in Intents
        BY <3>1, <3>2, <3>3 DEF Intents, States
      <4> QED
        BY <2>14, <3>1, <3>3, <4>1 DEF RecordCommit
    <3>4. CASE UNCHANGED intents
      BY <2>14, <3>4 DEF RecordCommit
    <3> QED
      BY <2>14, <3>3, <3>4 DEF RecordCommit
  <2>15. CASE RecordReconcile(p)
    <3>1. run[p].id \in Ids
      BY <2>15 DEF RecordReconcile, Runs
    <3>2. intents[run[p].id] \in Intents
      BY <2>15, <3>1 DEF RecordReconcile, RunInv, Carries, IntentPcs
    <3>3. intents'[run[p].id] \in Intents
      BY <2>15, <3>1, <3>2 DEF RecordReconcile, Intents, States
    <3> QED
      BY <2>15, <3>1, <3>3 DEF RecordReconcile
  <2>16. CASE StoreFails(p)
    BY <2>16 DEF StoreFails
  <2>17. CASE Release(p)
    BY <2>17 DEF Release
  <2> QED
    BY <1>3, <2>1, <2>2, <2>3, <2>4, <2>5, <2>6, <2>7, <2>8, <2>9, <2>10, <2>11,
       <2>12, <2>13, <2>14, <2>15, <2>16, <2>17 DEF SectionStep
<1>4. ASSUME NEW p \in Proc, Crash(p) PROVE TypeOK'
  BY <1>4 DEF Crash
<1>5. ASSUME NEW i \in Ids, OperatorStep(i) PROVE TypeOK'
  <2>1. CASE Cancel(i)
    <3>1. intents'[i] \in Intents
      BY <2>1 DEF Cancel, Intents, States
    <3> QED
      BY <2>1, <3>1 DEF Cancel
  <2>2. CASE UndoDeleteRef(i)
    BY <2>2 DEF UndoDeleteRef
  <2>3. CASE RecordUndo(i)
    <3>0. intents[i] \in Intents
      BY <2>3 DEF RecordUndo, LedgerInv, RowInv
    <3>1. intents'[i] \in Intents
      BY <2>3, <3>0 DEF RecordUndo, Intents, States
    <3> QED
      BY <2>3, <3>1 DEF RecordUndo
  <2>4. CASE UndoCrash(i)
    BY <2>4 DEF UndoCrash
  <2> QED
    BY <1>5, <2>1, <2>2, <2>3, <2>4 DEF OperatorStep
<1>6. CASE UserCommits
  <2>1. head' \in Heads
    BY <1>6 DEF UserCommits, Heads
  <2> QED
    BY <1>6, <2>1 DEF UserCommits
<1>7. CASE UserStages
  <2>1. index' \in Indexes
    BY <1>7 DEF UserStages, Indexes
  <2> QED
    BY <1>7, <2>1 DEF UserStages
<1>8. CASE LeaseExpires
  <2>1. lease' \in Leases
    BY <1>8 DEF LeaseExpires, Leases
  <2> QED
    BY <1>8, <2>1 DEF LeaseExpires
<1>9. CASE UNCHANGED vars
  BY <1>9 DEF vars
<1> QED
  BY <1>1, <1>2, <1>3, <1>4, <1>5, <1>6, <1>7, <1>8, <1>9 DEF Next

-----------------------------------------------------------------------------
(* The steps that touch the durable ledger or its history; every other     *)
(* step leaves all of it alone.                                            *)
ledger == <<intents, refs, named, undo, verified>>

LedgerStep ==
  \/ \E p \in Proc : VerifyPasses(p) \/ PutIntent(p) \/ UpdateRef(p)
                      \/ RecordCommit(p) \/ RecordReconcile(p)
  \/ \E i \in Ids : OperatorStep(i)

(* Which steps those are.                                                  *)
LEMMA LedgerCases == [Next]_vars => UNCHANGED ledger \/ LedgerStep
<1> SUFFICES ASSUME [Next]_vars PROVE UNCHANGED ledger \/ LedgerStep
  OBVIOUS
<1> USE DEF ledger, LedgerStep, repo, history
<1>1. ASSUME NEW p \in Proc, Start(p) PROVE UNCHANGED ledger
  BY <1>1 DEF Start, ObserveHead
<1>2. ASSUME NEW p \in Proc, PrepareStep(p) PROVE UNCHANGED ledger \/ LedgerStep
  BY <1>2 DEF PrepareStep, ObserveIndex, PrepareUnchanged, PrepareChanged, HeadUnchanged,
     IndexUnchanged, VerifyFails, Acquire, LeaseHeld
<1>3. ASSUME NEW p \in Proc, SectionStep(p) PROVE UNCHANGED ledger \/ LedgerStep
  BY <1>3 DEF SectionStep, GateUnchanged, GateChanged, HeadUnchanged, IndexUnchanged, GetIntent,
     CommitTree, CommitTreeFails, PostUnchanged, PostChanged, InspectRef, UpdateRefFails,
     VerifyCommit, Recover, StoreFails, Release
<1>4. ASSUME NEW p \in Proc, Crash(p) PROVE UNCHANGED ledger
  BY <1>4 DEF Crash
<1>5. CASE UserCommits \/ UserStages \/ LeaseExpires
  BY <1>5 DEF UserCommits, UserStages, LeaseExpires
<1>6. CASE UNCHANGED vars
  BY <1>6 DEF vars
<1> QED
  BY <1>1, <1>2, <1>3, <1>4, <1>5, <1>6 DEF Next

(* The durable ledger keeps its invariant.                                 *)
LEMMA LedgerInductive ==
  ASSUME IInv, TypeOK', [Next]_vars
  PROVE  LedgerInv' /\ RecordedWasNamed'
<1> USE NullAssumption DEF IInv, LedgerInv, RowInv, RecordedWasNamed, TypeOK
<1>1. CASE UNCHANGED ledger
  BY <1>1 DEF ledger
<1>2. ASSUME NEW p \in Proc, VerifyPasses(p) PROVE LedgerInv' /\ RecordedWasNamed'
  BY <1>2 DEF VerifyPasses, repo
<1>3. ASSUME NEW p \in Proc, PutIntent(p) PROVE LedgerInv' /\ RecordedWasNamed'
  <2>1. run[p].id \in Ids /\ <<run[p].id, run[p].cand>> \in verified
    <3>1. pc[p] = "putIntent" /\ run[p].id \in Ids
      BY <1>3 DEF PutIntent, Runs
    <3>2. Carries(p)
      BY DEF RunInv
    <3> QED
      BY <3>1, <3>2 DEF Carries, SectionPcs
  <2>2. CASE UNCHANGED intents
    BY <1>3, <2>2 DEF PutIntent, repo, history
  <2>3. CASE /\ intents[run[p].id] = NoIntent
             /\ intents' = [intents EXCEPT ![run[p].id] =
                  [cand |-> run[p].cand, sha |-> NoSha, state |-> "COMMIT_REQUESTED"]]
    <3>1. /\ intents'[run[p].id].cand = run[p].cand /\ intents'[run[p].id].sha = NoSha
          /\ intents'[run[p].id].state = "COMMIT_REQUESTED"
          /\ \A j \in Ids : j # run[p].id => intents'[j] = intents[j]
      BY <2>1, <2>3
    <3>2. UNCHANGED <<refs, named, verified, undo>>
      BY <1>3 DEF PutIntent, history
    <3>3. /\ \A s \in named[run[p].id] : FALSE
          /\ undo[run[p].id] # "record"
      <4>1. RowInv(run[p].id)
        BY <2>1
      <4> QED
        BY <2>3, <4>1
    <3>4. ASSUME NEW j \in Ids PROVE RowInv(j)'
      <4>1. CASE j = run[p].id
        BY <2>1, <3>1, <3>2, <3>3, <4>1
      <4>2. CASE j # run[p].id
        BY <3>1, <3>2, <4>2
      <4> QED
        BY <4>1, <4>2
    <3>5. ASSUME NEW j \in Ids, intents'[j] # NoIntent
          PROVE  /\ intents'[j].sha # NoSha => intents'[j].sha \in named'[j]
                 /\ intents'[j].state \in {"CREATED", "UNDONE"} => intents'[j].sha # NoSha
      <4>1. CASE j = run[p].id
        BY <3>1, <4>1
      <4>2. CASE j # run[p].id
        <5>1. intents'[j] = intents[j] /\ named' = named
          BY <3>1, <3>2, <4>2
        <5> QED
          BY <3>5, <5>1
      <4> QED
        BY <4>1, <4>2
    <3> QED
      BY <3>4, <3>5
  <2> QED
    BY <1>3, <2>2, <2>3 DEF PutIntent
<1>4. ASSUME NEW p \in Proc, UpdateRef(p) PROVE LedgerInv' /\ RecordedWasNamed'
  <2>1. /\ run[p].id \in Ids
        /\ intents[run[p].id] # NoIntent
        /\ IsCommitOf(run[p].sha, intents[run[p].id].cand)
    <3>1. pc[p] = "updateRef" /\ run[p].id \in Ids
      BY <1>4 DEF UpdateRef, Runs
    <3>2. Carries(p)
      BY DEF RunInv
    <3> QED
      BY <3>1, <3>2 DEF Carries, IntentPcs, CommitPcs, IsCommitOf
  <2>2. /\ refs'[run[p].id] = run[p].sha
        /\ named'[run[p].id] = named[run[p].id] \cup {run[p].sha}
        /\ \A j \in Ids : j # run[p].id => refs'[j] = refs[j] /\ named'[j] = named[j]
        /\ UNCHANGED <<intents, verified, undo>>
    BY <1>4, <2>1 DEF UpdateRef
  <2>3. ASSUME NEW j \in Ids PROVE RowInv(j)'
    <3>1. CASE j = run[p].id
      <4>1. RowInv(j)
        OBVIOUS
      <4> QED
        BY <2>1, <2>2, <3>1, <4>1
    <3>2. CASE j # run[p].id
      BY <2>2, <3>2
    <3> QED
      BY <3>1, <3>2
  <2>4. \A j \in Ids : named[j] \subseteq named'[j]
    BY <2>1, <2>2
  <2>5. RecordedWasNamed'
    BY <2>2, <2>4
  <2> QED
    BY <2>3, <2>5
<1>5. ASSUME NEW p \in Proc, RecordCommit(p) PROVE LedgerInv' /\ RecordedWasNamed'
  <2>1. /\ run[p].id \in Ids
        /\ intents[run[p].id] # NoIntent
        /\ run[p].sha # NoSha
        /\ run[p].sha \in named[run[p].id]
    <3>1. pc[p] = "record" /\ run[p].id \in Ids
      BY <1>5 DEF RecordCommit, Runs
    <3>2. Carries(p)
      BY DEF RunInv
    <3> QED
      BY <3>1, <3>2 DEF Carries, IntentPcs, CommitPcs, NamedPcs
  <2>2. intents[run[p].id] \in Intents
    BY <2>1
  <2>3. CASE UNCHANGED intents
    BY <1>5, <2>3 DEF RecordCommit, repo, history
  <2>4. CASE intents' = [intents EXCEPT ![run[p].id].sha = run[p].sha,
                                        ![run[p].id].state = "CREATED"]
    <3>0. /\ intents'[run[p].id] = [intents[run[p].id] EXCEPT !.sha = run[p].sha,
                                                             !.state = "CREATED"]
          /\ \A j \in Ids : j # run[p].id => intents'[j] = intents[j]
      BY <2>1, <2>4
    <3>1. intents'[run[p].id] \in Intents
      BY <2>1, <2>2, <3>0 DEF Intents, States
    <3>2. /\ intents'[run[p].id].cand = intents[run[p].id].cand
          /\ intents'[run[p].id].sha = run[p].sha
      BY <2>1, <2>2, <3>0 DEF Intents
    <3>3. UNCHANGED <<refs, named, verified, undo>>
      BY <1>5 DEF RecordCommit, history
    <3>4. ASSUME NEW j \in Ids PROVE RowInv(j)'
      <4>1. CASE j = run[p].id
        BY <2>1, <3>0, <3>1, <3>2, <3>3, <4>1
      <4>2. CASE j # run[p].id
        BY <2>1, <3>0, <3>3, <4>2
      <4> QED
        BY <4>1, <4>2
    <3>5. RecordedWasNamed'
      BY <2>1, <3>0, <3>1, <3>2, <3>3
    <3> QED
      BY <3>4, <3>5
  <2> QED
    BY <1>5, <2>3, <2>4 DEF RecordCommit
<1>6. ASSUME NEW p \in Proc, RecordReconcile(p) PROVE LedgerInv' /\ RecordedWasNamed'
  <2>1. run[p].id \in Ids /\ intents[run[p].id] # NoIntent
    BY <1>6 DEF RecordReconcile, RunInv, Carries, IntentPcs, Runs
  <2>2. intents[run[p].id] \in Intents
    BY <2>1
  <2>3. /\ intents'[run[p].id] = [intents[run[p].id] EXCEPT !.state = "RECONCILE_REQUIRED"]
        /\ \A j \in Ids : j # run[p].id => intents'[j] = intents[j]
    BY <1>6, <2>1 DEF RecordReconcile
  <2>4. /\ intents'[run[p].id].cand = intents[run[p].id].cand
        /\ intents'[run[p].id].sha = intents[run[p].id].sha
        /\ intents'[run[p].id].state = "RECONCILE_REQUIRED"
    BY <2>1, <2>2, <2>3 DEF Intents
  <2>5. intents'[run[p].id] \in Intents
    BY <2>1, <2>2, <2>3 DEF Intents, States
  <2>6. UNCHANGED <<refs, named, undo, verified>>
    BY <1>6 DEF RecordReconcile, history
  <2>7. ASSUME NEW j \in Ids PROVE RowInv(j)'
    <3>1. CASE j = run[p].id
      BY <2>1, <2>4, <2>5, <2>6, <3>1
    <3>2. CASE j # run[p].id
      BY <2>3, <2>6, <3>2
    <3> QED
      BY <3>1, <3>2
  <2>8. ASSUME NEW j \in Ids, intents'[j] # NoIntent
        PROVE  /\ intents'[j].sha # NoSha => intents'[j].sha \in named'[j]
               /\ intents'[j].state \in {"CREATED", "UNDONE"} => intents'[j].sha # NoSha
    <3>1. CASE j = run[p].id
      BY <2>1, <2>4, <2>6, <3>1
    <3>2. CASE j # run[p].id
      <4>1. intents'[j] = intents[j] /\ named' = named
        BY <2>3, <2>6, <3>2
      <4> QED
        BY <2>8, <4>1
    <3> QED
      BY <3>1, <3>2
  <2> QED
    BY <2>7, <2>8
<1>7. ASSUME NEW i \in Ids, OperatorStep(i) PROVE LedgerInv' /\ RecordedWasNamed'
  <2>1. CASE Cancel(i)
    <3>1. intents[i] \in Intents
      BY <2>1 DEF Cancel
    <3>2. /\ intents'[i] = [intents[i] EXCEPT !.state = "CANCELLED"]
          /\ \A j \in Ids : j # i => intents'[j] = intents[j]
      BY <2>1 DEF Cancel
    <3>3. /\ intents'[i].cand = intents[i].cand
          /\ intents'[i].sha = intents[i].sha
          /\ intents'[i].state = "CANCELLED"
      BY <3>1, <3>2 DEF Intents
    <3>4. intents'[i] \in Intents
      BY <3>1, <3>2 DEF Intents, States
    <3> QED
      BY <2>1, <3>1, <3>2, <3>3, <3>4 DEF Cancel, repo, history
  <2>2. CASE UndoDeleteRef(i)
    BY <2>2 DEF UndoDeleteRef, repo, history
  <2>3. CASE RecordUndo(i)
    <3>1. intents[i] \in Intents
      BY <2>3 DEF RecordUndo
    <3>2. /\ intents'[i] = [intents[i] EXCEPT !.state = "UNDONE"]
          /\ \A j \in Ids : j # i => intents'[j] = intents[j]
      BY <2>3 DEF RecordUndo
    <3>3. /\ intents'[i].cand = intents[i].cand
          /\ intents'[i].sha = intents[i].sha
          /\ intents'[i].state = "UNDONE"
      BY <3>1, <3>2 DEF Intents
    <3>4. intents'[i] \in Intents
      BY <3>1, <3>2 DEF Intents, States
    <3>5. /\ UNCHANGED <<refs, named, verified>>
          /\ \A j \in Ids : undo'[j] = "record" => undo[j] = "record"
          /\ intents[i].sha # NoSha
      BY <2>3 DEF RecordUndo, history
    <3>6. ASSUME NEW j \in Ids PROVE RowInv(j)'
      <4>1. CASE j = i
        BY <3>1, <3>2, <3>3, <3>4, <3>5, <4>1
      <4>2. CASE j # i
        BY <3>2, <3>5, <4>2
      <4> QED
        BY <4>1, <4>2
    <3>7. ASSUME NEW j \in Ids, intents'[j] # NoIntent
          PROVE  /\ intents'[j].sha # NoSha => intents'[j].sha \in named'[j]
                 /\ intents'[j].state \in {"CREATED", "UNDONE"} => intents'[j].sha # NoSha
      <4>1. CASE j = i
        BY <3>1, <3>3, <3>5, <4>1
      <4>2. CASE j # i
        <5>1. intents'[j] = intents[j] /\ named' = named
          BY <3>2, <3>5, <4>2
        <5> QED
          BY <3>7, <5>1
      <4> QED
        BY <4>1, <4>2
    <3>8. RecordedWasNamed'
      BY <3>7
    <3> QED
      BY <3>6, <3>8
  <2>4. CASE UndoCrash(i)
    BY <2>4 DEF UndoCrash, repo, history
  <2> QED
    BY <1>7, <2>1, <2>2, <2>3, <2>4 DEF OperatorStep
<1> QED
  BY <1>1, <1>2, <1>3, <1>4, <1>5, <1>6, <1>7, LedgerCases DEF LedgerStep

-----------------------------------------------------------------------------
(* What a delayed process relies on: evidence, intents, recorded SHAs and  *)
(* the ref's history only grow, and a ref is only ever deleted, when it    *)
(* names the recorded commit.                                              *)
RowKept(i) ==
  /\ intents[i] # NoIntent =>
       /\ intents'[i] # NoIntent
       /\ intents'[i].cand = intents[i].cand
       /\ intents[i].sha # NoSha => intents'[i].sha = intents[i].sha
  /\ refs[i] # NoSha /\ refs'[i] # refs[i] => refs'[i] = NoSha /\ intents[i].sha = refs[i]
  /\ named[i] \subseteq named'[i]

(* No step takes any of it back.                                           *)
LEMMA LedgerMonotone ==
  ASSUME IInv, [Next]_vars
  PROVE  verified \subseteq verified' /\ \A i \in Ids : RowKept(i)
<1> USE NullAssumption DEF IInv, TypeOK, RowKept
<1>1. CASE UNCHANGED ledger
  BY <1>1 DEF ledger
<1>2. ASSUME NEW p \in Proc, VerifyPasses(p)
      PROVE  verified \subseteq verified' /\ \A i \in Ids : RowKept(i)
  BY <1>2 DEF VerifyPasses, repo
<1>3. ASSUME NEW p \in Proc, PutIntent(p)
      PROVE  verified \subseteq verified' /\ \A i \in Ids : RowKept(i)
  BY <1>3 DEF PutIntent, repo, history, Runs
<1>4. ASSUME NEW p \in Proc, UpdateRef(p)
      PROVE  verified \subseteq verified' /\ \A i \in Ids : RowKept(i)
  BY <1>4 DEF UpdateRef, repo, Runs
<1>5. ASSUME NEW p \in Proc, RecordCommit(p)
      PROVE  verified \subseteq verified' /\ \A i \in Ids : RowKept(i)
  <2>1. run[p].id \in Ids /\ run[p].sha \in Shas \cup {NoSha}
    BY <1>5 DEF RecordCommit, Runs
  <2>2. intents[run[p].id] \in Intents
    BY <1>5, <2>1 DEF RecordCommit, RunInv, Carries, IntentPcs
  <2>3. UNCHANGED <<refs, named, verified>>
    BY <1>5 DEF RecordCommit, history
  <2>4. CASE UNCHANGED intents
    BY <2>3, <2>4
  <2>5. CASE /\ intents[run[p].id].sha \in {NoSha, run[p].sha}
             /\ intents' = [intents EXCEPT ![run[p].id].sha = run[p].sha,
                                           ![run[p].id].state = "CREATED"]
    <3>1. intents'[run[p].id] \in Intents
      BY <2>1, <2>2, <2>5 DEF Intents, States
    <3>2. /\ intents'[run[p].id].cand = intents[run[p].id].cand
          /\ intents'[run[p].id].sha = run[p].sha
          /\ \A j \in Ids : j # run[p].id => intents'[j] = intents[j]
      BY <2>1, <2>2, <2>5 DEF Intents
    <3> QED
      BY <2>1, <2>3, <2>5, <3>1, <3>2
  <2> QED
    BY <1>5, <2>4, <2>5 DEF RecordCommit
<1>6. ASSUME NEW p \in Proc, RecordReconcile(p)
      PROVE  verified \subseteq verified' /\ \A i \in Ids : RowKept(i)
  <2>1. run[p].id \in Ids
    BY <1>6 DEF RecordReconcile, Runs
  <2>2. intents[run[p].id] \in Intents
    BY <1>6, <2>1 DEF RecordReconcile, RunInv, Carries, IntentPcs
  <2>3. intents'[run[p].id] \in Intents
    BY <1>6, <2>1, <2>2 DEF RecordReconcile, Intents, States
  <2>4. /\ intents'[run[p].id].cand = intents[run[p].id].cand
        /\ intents'[run[p].id].sha = intents[run[p].id].sha
        /\ \A j \in Ids : j # run[p].id => intents'[j] = intents[j]
    BY <1>6, <2>1, <2>2 DEF RecordReconcile, Intents
  <2>5. UNCHANGED <<refs, named, verified>>
    BY <1>6 DEF RecordReconcile, history
  <2> QED
    BY <2>1, <2>3, <2>4, <2>5
<1>7. ASSUME NEW i \in Ids, OperatorStep(i)
      PROVE  verified \subseteq verified' /\ \A j \in Ids : RowKept(j)
  <2>1. CASE UndoDeleteRef(i)
    BY <2>1 DEF UndoDeleteRef, history
  <2>2. CASE UndoCrash(i)
    BY <2>2 DEF UndoCrash, history
  <2>3. ASSUME NEW t \in States, intents[i] # NoIntent,
               intents' = [intents EXCEPT ![i].state = t]
        PROVE  \A j \in Ids : /\ intents[j] # NoIntent => intents'[j] # NoIntent
                              /\ intents[j] # NoIntent => intents'[j].cand = intents[j].cand
                              /\ intents[j] # NoIntent => intents'[j].sha = intents[j].sha
    <3>1. intents[i] \in Intents
      BY <2>3
    <3>2. intents'[i] \in Intents
      BY <2>3, <3>1 DEF Intents
    <3>3. /\ intents'[i].cand = intents[i].cand
          /\ intents'[i].sha = intents[i].sha
          /\ \A j \in Ids : j # i => intents'[j] = intents[j]
      BY <2>3, <3>1 DEF Intents
    <3> QED
      BY <3>2, <3>3
  <2>4. CASE Cancel(i)
    <3>1. /\ intents[i] # NoIntent /\ intents' = [intents EXCEPT ![i].state = "CANCELLED"]
          /\ UNCHANGED <<refs, named, verified>>
      BY <2>4 DEF Cancel, history
    <3> QED
      BY <2>3, <3>1 DEF States
  <2>5. CASE RecordUndo(i)
    <3>1. /\ intents[i] # NoIntent /\ intents' = [intents EXCEPT ![i].state = "UNDONE"]
          /\ UNCHANGED <<refs, named, verified>>
      BY <2>5 DEF RecordUndo, LedgerInv, RowInv, history
    <3> QED
      BY <2>3, <3>1 DEF States
  <2> QED
    BY <1>7, <2>1, <2>2, <2>4, <2>5 DEF OperatorStep
<1> QED
  BY <1>1, <1>2, <1>3, <1>4, <1>5, <1>6, <1>7, LedgerCases DEF LedgerStep

(* A process that does not move keeps what it carries.                     *)
LEMMA CarriesKept ==
  ASSUME IInv, [Next]_vars, NEW p \in Proc, pc'[p] = pc[p], run'[p] = run[p]
  PROVE  Carries(p)'
<1>1. Carries(p) /\ (pc[p] # "idle" => run[p].id \in Ids)
  BY DEF IInv, TypeOK, RunInv, Runs
<1>2. pc[p] # "idle" => RowKept(run[p].id)
  BY <1>1, LedgerMonotone
<1> QED
  BY <1>1, <1>2, LedgerMonotone
  DEF Carries, RowKept, IntentPcs, CommitPcs, NamedPcs, SectionPcs

(* A process may move to any point where no more is asked of it than       *)
(* where it was.                                                           *)
LEMMA CarriesWeakened ==
  ASSUME IInv, [Next]_vars, NEW p \in Proc, run'[p] = run[p], pc[p] # "idle",
         pc'[p] \in SectionPcs \cup {"acquire"} => pc[p] \in SectionPcs \cup {"acquire"},
         pc'[p] \in IntentPcs => pc[p] \in IntentPcs,
         pc'[p] \in CommitPcs => pc[p] \in CommitPcs,
         pc'[p] \in NamedPcs => pc[p] \in NamedPcs
  PROVE  Carries(p)'
<1>1. Carries(p) /\ run[p].id \in Ids
  BY DEF IInv, TypeOK, RunInv, Runs
<1>2. RowKept(run[p].id)
  BY <1>1, LedgerMonotone
<1> QED
  BY <1>1, <1>2, LedgerMonotone DEF Carries, RowKept

-----------------------------------------------------------------------------
(* A step of p moves only p.                                               *)
LEMMA OthersStay ==
  ASSUME TypeOK, NEW p \in Proc, NEW q \in Proc, q # p,
         Start(p) \/ PrepareStep(p) \/ SectionStep(p) \/ Crash(p)
  PROVE  pc'[q] = pc[q] /\ run'[q] = run[q]
<1> USE DEF TypeOK, Goto, Finish
<1>1. CASE Start(p)
  BY <1>1 DEF Start, ObserveHead
<1>2. CASE PrepareStep(p)
  BY <1>2 DEF PrepareStep, ObserveIndex, PrepareUnchanged, PrepareChanged, HeadUnchanged,
     IndexUnchanged, VerifyPasses, VerifyFails, Acquire, LeaseHeld
<1>3. CASE GateUnchanged(p) \/ GateChanged(p) \/ GetIntent(p) \/ PutIntent(p)
  BY <1>3 DEF GateUnchanged, GateChanged, HeadUnchanged, IndexUnchanged, GetIntent, PutIntent
<1>4. CASE CommitTree(p) \/ CommitTreeFails(p) \/ PostUnchanged(p) \/ PostChanged(p)
  BY <1>4 DEF CommitTree, CommitTreeFails, PostUnchanged, PostChanged, HeadUnchanged, IndexUnchanged
<1>5. CASE InspectRef(p) \/ UpdateRef(p) \/ UpdateRefFails(p) \/ VerifyCommit(p) \/ Recover(p)
  BY <1>5 DEF InspectRef, UpdateRef, UpdateRefFails, VerifyCommit, Recover
<1>6. CASE RecordCommit(p) \/ RecordReconcile(p) \/ StoreFails(p) \/ Release(p)
  BY <1>6 DEF RecordCommit, RecordReconcile, StoreFails, Release
<1>7. CASE Crash(p)
  BY <1>7 DEF Crash
<1> QED
  BY <1>1, <1>2, <1>3, <1>4, <1>5, <1>6, <1>7 DEF SectionStep

(* Each step of p establishes what the next point needs.                   *)
LEMMA CarriesStep ==
  ASSUME IInv, TypeOK', NEW p \in Proc, [Next]_vars,
         Start(p) \/ PrepareStep(p) \/ SectionStep(p) \/ Crash(p)
  PROVE  Carries(p)'
<1> USE DEF SectionPcs, IntentPcs, CommitPcs, NamedPcs
<1>1. TypeOK /\ Carries(p) /\ (pc[p] # "idle" => run[p] \in Runs /\ run[p].id \in Ids)
  BY DEF IInv, TypeOK, RunInv, Runs
<1>2. pc[p] # "idle" => RowKept(run[p].id) /\ RowInv(run[p].id)
  BY <1>1, LedgerMonotone DEF IInv, LedgerInv
<1>3. CASE \/ Start(p) \/ Crash(p) \/ ObserveIndex(p) \/ PrepareUnchanged(p)
           \/ PrepareChanged(p) \/ VerifyFails(p) \/ LeaseHeld(p) \/ Release(p)
  <2>1. pc'[p] \in OutsidePcs \ {"acquire"}
    BY <1>1, <1>3 DEF Start, ObserveHead, Crash, ObserveIndex, PrepareUnchanged, HeadUnchanged,
       IndexUnchanged, PrepareChanged, VerifyFails, LeaseHeld, Release, Goto, Finish,
       TypeOK, OutsidePcs
  <2> QED
    BY <2>1 DEF Carries, OutsidePcs
<1>4. CASE VerifyPasses(p)
  BY <1>1, <1>4 DEF VerifyPasses, Goto, Carries, TypeOK
<1>5. CASE \/ Acquire(p) \/ GateUnchanged(p) \/ GateChanged(p) \/ CommitTreeFails(p)
           \/ PostUnchanged(p) \/ PostChanged(p) \/ UpdateRefFails(p) \/ VerifyCommit(p)
           \/ RecordCommit(p) \/ RecordReconcile(p) \/ StoreFails(p)
  <2>1. /\ run'[p] = run[p]
        /\ pc[p] # "idle"
        /\ pc'[p] \in SectionPcs \cup {"acquire"} => pc[p] \in SectionPcs \cup {"acquire"}
        /\ pc'[p] \in IntentPcs => pc[p] \in IntentPcs
        /\ pc'[p] \in CommitPcs => pc[p] \in CommitPcs
        /\ pc'[p] \in NamedPcs => pc[p] \in NamedPcs
    BY <1>1, <1>5 DEF Acquire, GateUnchanged, GateChanged, HeadUnchanged, IndexUnchanged, Changed,
       CommitTreeFails, PostUnchanged, PostChanged, UpdateRefFails, VerifyCommit, RecordCommit,
       RecordReconcile, StoreFails, Goto, TypeOK
  <2> QED
    BY <2>1, CarriesWeakened
<1>6. CASE GetIntent(p)
  BY <1>1, <1>2, <1>6, LedgerMonotone DEF GetIntent, Goto, Carries, TypeOK, repo, history
<1>7. CASE PutIntent(p)
  <2>1. /\ run'[p] = run[p]
        /\ pc'[p] = "release" \/ (pc'[p] = "commitTree" /\ intents'[run[p].id] # NoIntent
                                    /\ intents'[run[p].id].cand = run[p].cand)
        /\ pc[p] \in SectionPcs
    <3>1. [cand |-> run[p].cand, sha |-> NoSha, state |-> "COMMIT_REQUESTED"] \in Intents
      BY <1>1, <1>7 DEF PutIntent, Runs, Intents, States
    <3> QED
      BY <1>1, <1>7, <3>1, NullAssumption DEF PutIntent, Goto, TypeOK
  <2> QED
    BY <1>1, <2>1, LedgerMonotone DEF Carries
<1>8. CASE CommitTree(p)
  <2>1. PICK t \in Stamps :
          run' = [run EXCEPT ![p].sha =
            [parent |-> run[p].cand.parent, snap |-> run[p].cand.snap, stamp |-> t]]
    BY <1>8 DEF CommitTree
  <2>2. [parent |-> run[p].cand.parent, snap |-> run[p].cand.snap, stamp |-> t] \in Shas
    BY <1>1, <1>8 DEF CommitTree, Runs, Candidates, Shas
  <2>3. /\ run'[p].id = run[p].id
        /\ run'[p].cand = run[p].cand
        /\ run'[p].sha # NoSha
        /\ IsCommitOf(run'[p].sha, run[p].cand)
    BY <1>1, <1>8, <2>1, <2>2, NullAssumption DEF CommitTree, Runs, IsCommitOf, TypeOK
  <2> QED
    BY <1>1, <1>2, <1>8, <2>3 DEF CommitTree, Carries, RowKept, TypeOK, repo
<1>9. CASE InspectRef(p)
  <2>1. /\ run'[p] = run[p]
        /\ UNCHANGED <<intents, refs, named, verified>>
        /\ \/ pc'[p] \in {"updateRef", "reconcile"}
           \/ pc'[p] = "record" /\ run[p].sha = refs[run[p].id]
    BY <1>1, <1>9 DEF InspectRef, RefSeen, Goto, TypeOK, repo, history
  <2>2. pc'[p] = "record" => run[p].sha \in named[run[p].id]
    BY <1>1, <1>2, <1>9, <2>1 DEF InspectRef, Carries, RowInv
  <2> QED
    BY <1>1, <1>9, <2>1, <2>2 DEF InspectRef, Carries
<1>10. CASE UpdateRef(p)
  <2>1. /\ run'[p] = run[p]
        /\ pc'[p] \in {"verifyCommit", "reconcile"}
        /\ run[p].sha \in named'[run[p].id]
        /\ UNCHANGED <<intents, verified>>
    BY <1>1, <1>10 DEF UpdateRef, Goto, TypeOK, repo
  <2> QED
    BY <1>1, <1>10, <2>1 DEF UpdateRef, Carries
<1>11. CASE Recover(p)
  <2>1. UNCHANGED <<intents, refs, named, verified>> /\ pc[p] = "recover"
    BY <1>11 DEF Recover, repo, history
  <2>2. CASE Goto(p, "reconcile")
    BY <1>1, <2>1, <2>2 DEF Goto, Carries, TypeOK
  <2>3. CASE /\ refs[run[p].id] # NoSha
             /\ run' = [run EXCEPT ![p].sha = refs[run[p].id]]
             /\ pc' = [pc EXCEPT ![p] = "verifyCommit"]
    <3>1. /\ run'[p].id = run[p].id
          /\ run'[p].cand = run[p].cand
          /\ run'[p].sha = refs[run[p].id]
          /\ pc'[p] = "verifyCommit"
      BY <1>1, <2>1, <2>3 DEF TypeOK, Runs
    <3>2. /\ refs[run[p].id] \in named[run[p].id]
          /\ IsCommitOf(refs[run[p].id], intents[run[p].id].cand)
      BY <1>2, <2>1, <2>3 DEF RowInv
    <3> QED
      BY <1>1, <2>1, <2>3, <3>1, <3>2 DEF Carries
  <2> QED
    BY <1>11, <2>2, <2>3 DEF Recover, RefSeen
<1> QED
  BY <1>3, <1>4, <1>5, <1>6, <1>7, <1>8, <1>9, <1>10, <1>11 DEF PrepareStep, SectionStep

(* What processes carry is kept by every step.                             *)
LEMMA RunInductive ==
  ASSUME IInv, TypeOK', [Next]_vars
  PROVE  RunInv'
<1> SUFFICES ASSUME NEW q \in Proc PROVE Carries(q)'
  BY DEF RunInv
<1>1. ASSUME NEW p \in Proc, Start(p) \/ PrepareStep(p) \/ SectionStep(p) \/ Crash(p)
      PROVE  Carries(q)'
  BY <1>1, CarriesStep, CarriesKept, OthersStay DEF IInv
<1>2. CASE UNCHANGED <<pc, run>>
  BY <1>2, CarriesKept
<1>3. ASSUME NEW i \in Ids, OperatorStep(i) PROVE UNCHANGED <<pc, run>>
  BY <1>3 DEF OperatorStep, Cancel, UndoDeleteRef, RecordUndo, UndoCrash
<1>4. UserCommits \/ UserStages \/ LeaseExpires => UNCHANGED <<pc, run>>
  BY DEF UserCommits, UserStages, LeaseExpires
<1>5. UNCHANGED vars => UNCHANGED <<pc, run>>
  BY DEF vars
<1> QED
  BY <1>1, <1>2, <1>3, <1>4, <1>5 DEF Next

-----------------------------------------------------------------------------
(* Nothing is durable and no process runs at first.                        *)
LEMMA InitIInv == Init => IInv
<1> SUFFICES ASSUME Init PROVE IInv
  OBVIOUS
<1>1. TypeOK
  BY GitCommitAssumption, NullAssumption
  DEF Init, TypeOK, Pcs, OutsidePcs, Heads, Indexes
<1>2. RunInv
  BY DEF Init, RunInv, Carries, SectionPcs, IntentPcs, CommitPcs, NamedPcs
<1>3. LedgerInv /\ RecordedWasNamed
  BY DEF Init, LedgerInv, RowInv, RecordedWasNamed
<1> QED
  BY <1>1, <1>2, <1>3 DEF IInv

(* The inductive invariant holds in every reachable state.                 *)
THEOREM Invariance == Spec => []IInv
<1>1. IInv /\ [Next]_vars => IInv'
  BY TypeInductive, RunInductive, LedgerInductive DEF IInv
<1> QED
  BY InitIInv, <1>1, PTL DEF Spec

(* Every state is well typed.                                              *)
THEOREM TypeCorrect == Spec => []TypeOK
<1>1. IInv => TypeOK
  BY DEF IInv
<1> QED
  BY <1>1, Invariance, PTL

(* No AutoGit ref names anything but its id's durable, verified candidate, *)
(* whatever interleaving of deliveries, lease expiries, HEAD moves,        *)
(* cancellations and crashes (CommitPrepared, Recover, UndoCommitRef).     *)
THEOREM RefSafety == Spec => []RefIsVerifiedIntent
<1>1. IInv => RefIsVerifiedIntent
  BY DEF IInv, LedgerInv, RowInv, RefIsVerifiedIntent, IsCommitOf
<1> QED
  BY <1>1, Invariance, PTL

(* No SHA is recorded that the AutoGit ref has not named (RecordGitCommit, *)
(* from CommitPrepared and from Recover).                                  *)
THEOREM RecordSafety == Spec => []RecordedWasNamed
<1>1. IInv => RecordedWasNamed
  BY DEF IInv
<1> QED
  BY <1>1, Invariance, PTL

(* No step changes a durable identity (the intents table and the refs).    *)
THEOREM DurableIdentity == Spec => IdentityIsDurable
<1>1. ASSUME IInv, [Next]_vars
      PROVE  [\A i \in Ids :
                /\ intents[i] # NoIntent =>
                     /\ intents'[i] # NoIntent
                     /\ intents'[i].cand = intents[i].cand
                     /\ intents[i].sha # NoSha => intents'[i].sha = intents[i].sha
                /\ refs[i] # NoSha /\ refs'[i] # refs[i] =>
                     refs'[i] = NoSha /\ intents[i].sha = refs[i]]_vars
  BY <1>1, LedgerMonotone DEF RowKept
<1> QED
  BY <1>1, Invariance, PTL DEF Spec, IdentityIsDurable

-----------------------------------------------------------------------------
(* The commit transaction implements CommitLedger: every ledger step is    *)
(* the abstract step of its name, every other step a stutter.              *)
THEOREM LedgerRefinement == Spec => ImplementsLedger
<1>1. Init => Ledger!Init
  BY DEF Init, Ledger!Init
<1>2. ASSUME IInv, [Next]_vars
      PROVE  [Ledger!Next]_(Ledger!vars)
  <2> USE <1>2, NullAssumption DEF IInv, TypeOK
  <2>0. ASSUME NEW p \in Proc, pc[p] # "idle"
        PROVE  /\ run[p].id \in Ids /\ run[p].cand \in Candidates
               /\ run[p].sha \in Shas \cup {NoSha}
    BY <2>0 DEF Runs
  <2>1. CASE UNCHANGED ledger
    BY <2>1 DEF ledger, Ledger!vars
  <2>2. ASSUME NEW p \in Proc, VerifyPasses(p) PROVE UNCHANGED Ledger!vars
    BY <2>2 DEF VerifyPasses, Ledger!vars
  <2>3. ASSUME NEW p \in Proc, PutIntent(p) PROVE [Ledger!Next]_(Ledger!vars)
    <3>1. run[p].id \in Ids /\ run[p].cand \in Candidates /\ UNCHANGED <<refs, named>>
      BY <2>0, <2>3 DEF PutIntent, history
    <3>2. CASE UNCHANGED intents
      BY <3>1, <3>2 DEF Ledger!vars
    <3>3. CASE intents' # intents
      <4>1. Ledger!Request(run[p].id, run[p].cand)
        BY <2>3, <3>1, <3>3 DEF PutIntent, Ledger!Request
      <4> QED
        BY <3>1, <4>1 DEF Ledger!Next
    <3> QED
      BY <3>2, <3>3
  <2>4. ASSUME NEW p \in Proc, UpdateRef(p) PROVE Ledger!Next
    <3>1. /\ run[p].id \in Ids /\ run[p].sha \in Shas
          /\ intents[run[p].id] # NoIntent
          /\ intents[run[p].id].cand = run[p].cand
          /\ IsCommitOf(run[p].sha, run[p].cand)
      BY <2>0, <2>4 DEF UpdateRef, RunInv, Carries, IntentPcs, CommitPcs
    <3>2. CandOfSha[run[p].sha] = run[p].cand
      <4>1. run[p].cand = [parent |-> run[p].cand.parent, snap |-> run[p].cand.snap]
        BY <2>0, <2>4 DEF UpdateRef, Candidates
      <4> QED
        BY <3>1, <4>1 DEF CandOfSha, IsCommitOf
    <3>3. Ledger!CreateRef(run[p].id, run[p].sha)
      BY <2>4, <3>1, <3>2 DEF UpdateRef, Ledger!CreateRef
    <3> QED
      BY <3>1, <3>3 DEF Ledger!Next
  <2>5. ASSUME NEW p \in Proc, RecordCommit(p) PROVE [Ledger!Next]_(Ledger!vars)
    <3>1. /\ run[p].id \in Ids /\ run[p].sha \in Shas
          /\ intents[run[p].id] # NoIntent
          /\ run[p].sha \in named[run[p].id]
          /\ UNCHANGED <<refs, named>>
      BY <2>0, <2>5 DEF RecordCommit, RunInv, Carries, IntentPcs, CommitPcs, NamedPcs, history
    <3>2. CASE intents[run[p].id].sha \in {NoSha, run[p].sha}
      <4>1. Ledger!Confirm(run[p].id, run[p].sha)
        BY <2>5, <3>1, <3>2 DEF RecordCommit, Ledger!Confirm
      <4> QED
        BY <3>1, <4>1 DEF Ledger!Next
    <3>3. CASE intents[run[p].id].sha \notin {NoSha, run[p].sha}
      BY <2>5, <3>1, <3>3 DEF RecordCommit, Ledger!vars
    <3> QED
      BY <3>2, <3>3
  <2>6. ASSUME NEW p \in Proc, RecordReconcile(p) PROVE Ledger!Next
    <3>1. run[p].id \in Ids /\ intents[run[p].id] # NoIntent
      BY <2>0, <2>6 DEF RecordReconcile, RunInv, Carries, IntentPcs
    <3>2. Ledger!Flag(run[p].id)
      BY <2>6, <3>1 DEF RecordReconcile, Ledger!Flag, history
    <3> QED
      BY <3>1, <3>2 DEF Ledger!Next
  <2>7. ASSUME NEW i \in Ids, OperatorStep(i) PROVE [Ledger!Next]_(Ledger!vars)
    <3>1. CASE Cancel(i)
      BY <3>1 DEF Cancel, Ledger!Cancel, Ledger!Next, history
    <3>2. CASE UndoDeleteRef(i)
      <4>1. Ledger!DeleteRef(i)
        BY <3>2 DEF UndoDeleteRef, Ledger!DeleteRef, history
      <4> QED
        BY <4>1 DEF Ledger!Next
    <3>3. CASE RecordUndo(i)
      <4>1. intents[i] # NoIntent /\ intents[i].sha # NoSha
        BY <3>3 DEF RecordUndo, LedgerInv, RowInv
      <4>2. Ledger!MarkUndone(i)
        BY <3>3, <4>1 DEF RecordUndo, Ledger!MarkUndone, history
      <4> QED
        BY <4>2 DEF Ledger!Next
    <3>4. CASE UndoCrash(i)
      BY <3>4 DEF UndoCrash, history, Ledger!vars
    <3> QED
      BY <2>7, <3>1, <3>2, <3>3, <3>4 DEF OperatorStep
  <2> QED
    BY <1>2, <2>1, <2>2, <2>3, <2>4, <2>5, <2>6, <2>7, LedgerCases DEF LedgerStep
<1> QED
  BY <1>1, <1>2, Invariance, PTL DEF Spec, ImplementsLedger, Ledger!Spec

-----------------------------------------------------------------------------
(* At most one commit-tree per id, when no live holder outlasts its lease: *)
(* the process inside the section is alone, so what GetIntent answered is  *)
(* still true at PutIntent.                                                *)
Alone ==
  \A p \in Proc : pc[p] \in SectionPcs =>
    /\ lease \in [owner : Ids, expired : {FALSE}]
    /\ \A q \in Proc : pc[q] \in SectionPcs => q = p

AttemptInv ==
  /\ \A i \in Ids : attempts[i] <= 1 /\ (intents[i] = NoIntent => attempts[i] = 0)
  /\ \A p \in Proc :
       /\ pc[p] = "putIntent" => intents[run[p].id] = NoIntent
       /\ pc[p] = "commitTree" => attempts[run[p].id] = 0

(* The lease of the process in the section is in force, and keeps others out. *)
LEMMA AloneInductive ==
  ASSUME ~MayOverstay, IInv, Alone, [Next]_vars
  PROVE  Alone'
<1> USE DEF IInv, TypeOK, Alone, SectionPcs
<1>1. ASSUME NEW p \in Proc,
             Start(p) \/ ObserveIndex(p) \/ PrepareUnchanged(p) \/ PrepareChanged(p)
               \/ VerifyPasses(p) \/ VerifyFails(p) \/ LeaseHeld(p) \/ Crash(p)
      PROVE  Alone'
  <2>1. pc'[p] \notin SectionPcs /\ lease' = lease
    BY <1>1 DEF Start, ObserveHead, ObserveIndex, PrepareUnchanged, HeadUnchanged, IndexUnchanged,
       PrepareChanged, VerifyPasses, VerifyFails, LeaseHeld, Crash, Goto, Finish
  <2>2. \A q \in Proc : q # p => pc'[q] = pc[q]
    BY <1>1, OthersStay DEF PrepareStep
  <2> QED
    BY <2>1, <2>2
<1>2. ASSUME NEW p \in Proc, Acquire(p) PROVE Alone'
  <2>1. \A q \in Proc : pc[q] \notin SectionPcs
    BY <1>2, NullAssumption DEF Acquire, LeaseFree, Leases
  <2>2. lease' \in [owner : Ids, expired : {FALSE}]
    BY <1>2 DEF Acquire, Runs
  <2>3. \A q \in Proc : q # p => pc'[q] = pc[q]
    BY <1>2, OthersStay DEF PrepareStep
  <2> QED
    BY <2>1, <2>2, <2>3
<1>3. ASSUME NEW p \in Proc, SectionStep(p) PROVE Alone'
  <2>1. pc[p] \in SectionPcs
    BY <1>3 DEF SectionStep, GateUnchanged, GateChanged, Changed, HeadUnchanged, IndexUnchanged,
       GetIntent, PutIntent, CommitTree, CommitTreeFails, PostUnchanged, PostChanged, InspectRef,
       UpdateRef, UpdateRefFails, VerifyCommit, Recover, RecordCommit, RecordReconcile,
       StoreFails, Release
  <2>2. pc'[p] \in SectionPcs => lease' = lease
    BY <1>3 DEF SectionStep, GateUnchanged, GateChanged, HeadUnchanged, IndexUnchanged,
       GetIntent, PutIntent, CommitTree, CommitTreeFails, PostUnchanged, PostChanged, InspectRef,
       UpdateRef, UpdateRefFails, VerifyCommit, Recover, RecordCommit, RecordReconcile,
       StoreFails, Release, Finish
  <2>3. \A q \in Proc : q # p => pc'[q] = pc[q] /\ pc[q] \notin SectionPcs
    BY <1>3, <2>1, OthersStay
  <2> QED
    BY <2>1, <2>2, <2>3
<1>4. CASE LeaseExpires
  BY <1>4 DEF LeaseExpires
<1>5. CASE UNCHANGED <<pc, lease>>
  BY <1>5
<1>6. ASSUME NEW i \in Ids, OperatorStep(i) PROVE UNCHANGED <<pc, lease>>
  BY <1>6 DEF OperatorStep, Cancel, UndoDeleteRef, RecordUndo, UndoCrash
<1>7. UserCommits \/ UserStages \/ UNCHANGED vars => UNCHANGED <<pc, lease>>
  BY DEF UserCommits, UserStages, vars
<1> QED
  BY <1>1, <1>2, <1>3, <1>4, <1>5, <1>6, <1>7 DEF Next, PrepareStep

(* A step that is neither of the three below leaves the counters alone,    *)
(* inserts no intent and brings no process to the two points.              *)
Quiet ==
  /\ attempts' = attempts
  /\ \A i \in Ids : intents'[i] = NoIntent <=> intents[i] = NoIntent
  /\ \A q \in Proc : pc'[q] \in {"putIntent", "commitTree"} => pc'[q] = pc[q] /\ run'[q] = run[q]

(* Which steps those three are, commit-tree with its two outcomes.         *)
LEMMA QuietUnlessAttempt ==
  ASSUME IInv, TypeOK', [Next]_vars
  PROVE  Quiet \/ \E p \in Proc : GetIntent(p) \/ PutIntent(p) \/ CommitTree(p) \/ CommitTreeFails(p)
<1>1. ASSUME NEW p \in Proc, Start(p) \/ PrepareStep(p) \/ Crash(p) PROVE Quiet
  <2>1. UNCHANGED <<attempts, intents>> /\ pc'[p] \notin {"putIntent", "commitTree"}
    BY <1>1 DEF IInv, TypeOK, Start, ObserveHead, PrepareStep, ObserveIndex, PrepareUnchanged,
       PrepareChanged, HeadUnchanged, IndexUnchanged, VerifyPasses, VerifyFails, Acquire,
       LeaseHeld, Crash, Goto, Finish, history
  <2> QED
    BY <1>1, <2>1, OthersStay DEF Quiet, IInv
<1>2. ASSUME NEW p \in Proc,
             \/ GateUnchanged(p) \/ GateChanged(p) \/ PostUnchanged(p) \/ PostChanged(p)
             \/ InspectRef(p) \/ UpdateRef(p) \/ UpdateRefFails(p) \/ VerifyCommit(p)
             \/ Recover(p) \/ StoreFails(p) \/ Release(p)
      PROVE  Quiet
  <2>1. UNCHANGED <<attempts, intents>> /\ pc'[p] \notin {"putIntent", "commitTree"}
    BY <1>2 DEF IInv, TypeOK, GateUnchanged, GateChanged, PostUnchanged, PostChanged,
       HeadUnchanged, IndexUnchanged, InspectRef, UpdateRef, UpdateRefFails, VerifyCommit,
       Recover, StoreFails, Release, Goto, Finish, history
  <2> QED
    BY <1>2, <2>1, OthersStay DEF Quiet, IInv, SectionStep
<1>3. ASSUME NEW p \in Proc, RecordCommit(p) \/ RecordReconcile(p) PROVE Quiet
  <2>1. attempts' = attempts /\ pc'[p] = "release"
    BY <1>3 DEF IInv, TypeOK, RecordCommit, RecordReconcile, Goto, history
  <2>2. run[p].id \in Ids /\ intents[run[p].id] # NoIntent
    BY <1>3 DEF IInv, TypeOK, RecordCommit, RecordReconcile, RunInv, Carries, IntentPcs, Runs
  <2>3. \A i \in Ids : i # run[p].id => intents'[i] = intents[i]
    BY <1>3 DEF IInv, TypeOK, RecordCommit, RecordReconcile
  <2>4. intents'[run[p].id] # NoIntent
    BY <2>2, LedgerMonotone DEF RowKept
  <2> QED
    BY <1>3, <2>1, <2>2, <2>3, <2>4, OthersStay DEF Quiet, IInv, SectionStep
<1>4. ASSUME NEW i \in Ids, OperatorStep(i) PROVE Quiet
  <2>1. UNCHANGED <<attempts, pc, run>>
    BY <1>4 DEF OperatorStep, Cancel, UndoDeleteRef, RecordUndo, UndoCrash, history
  <2>2. \A j \in Ids : intents'[j] = intents[j] \/ (j = i /\ intents[j] # NoIntent)
    BY <1>4 DEF IInv, TypeOK, LedgerInv, RowInv, OperatorStep, Cancel, UndoDeleteRef,
       RecordUndo, UndoCrash
  <2> QED
    BY <2>1, <2>2, LedgerMonotone DEF Quiet, RowKept
<1>5. UserCommits \/ UserStages \/ LeaseExpires \/ UNCHANGED vars => Quiet
  BY DEF UserCommits, UserStages, LeaseExpires, vars, history, Quiet
<1> QED
  BY <1>1, <1>2, <1>3, <1>4, <1>5 DEF Next, SectionStep

(* The counters stay below two.                                            *)
LEMMA AttemptInductive ==
  ASSUME ~MayOverstay, IInv, TypeOK', Alone, AttemptInv, [Next]_vars
  PROVE  AttemptInv'
<1>1. CASE Quiet
  BY <1>1 DEF Quiet, AttemptInv, IInv, TypeOK, Runs
<1>2. ASSUME NEW p \in Proc,
             GetIntent(p) \/ PutIntent(p) \/ CommitTree(p) \/ CommitTreeFails(p)
      PROVE  AttemptInv'
  <2>1. run[p].id \in Ids /\ pc[p] \in SectionPcs
    BY <1>2 DEF IInv, TypeOK, GetIntent, PutIntent, CommitTree, CommitTreeFails, Runs, SectionPcs
  <2>2. \A q \in Proc : q # p => pc'[q] \notin {"putIntent", "commitTree"}
    BY <1>2, <2>1, OthersStay DEF Alone, SectionStep, SectionPcs, IInv
  <2>3. CASE GetIntent(p)
    <3>1. UNCHANGED <<attempts, intents, run>>
      BY <2>3 DEF GetIntent, history, Goto
    <3>2. /\ pc'[p] # "commitTree"
          /\ pc'[p] = "putIntent" => intents[run[p].id] = NoIntent
      BY <2>3 DEF GetIntent, Goto, IInv, TypeOK
    <3> QED
      BY <2>1, <2>2, <3>1, <3>2 DEF AttemptInv
  <2>4. CASE PutIntent(p)
    <3>1. UNCHANGED <<attempts, run>> /\ pc'[p] # "putIntent"
      BY <2>4 DEF PutIntent, history, Goto, IInv, TypeOK
    <3>2. \A i \in Ids : intents'[i] = NoIntent => intents[i] = NoIntent
      BY LedgerMonotone DEF RowKept
    <3>3. attempts[run[p].id] = 0
      BY <2>1, <2>4 DEF PutIntent, AttemptInv
    <3> QED
      BY <2>1, <2>2, <3>1, <3>2, <3>3 DEF AttemptInv
  <2>5. CASE CommitTree(p) \/ CommitTreeFails(p)
    <3>1. /\ attempts' = [attempts EXCEPT ![run[p].id] = @ + 1]
          /\ intents' = intents
          /\ pc'[p] \in {"postHead", "reconcile"}
      BY <2>5 DEF CommitTree, CommitTreeFails, Goto, IInv, TypeOK
    <3>2. attempts[run[p].id] = 0 /\ intents[run[p].id] # NoIntent
      BY <2>5 DEF CommitTree, CommitTreeFails, AttemptInv, IInv, RunInv, Carries, IntentPcs
    <3>3. \A i \in Ids : attempts'[i] = IF i = run[p].id THEN 1 ELSE attempts[i]
      BY <2>1, <3>1, <3>2 DEF IInv, TypeOK
    <3> QED
      BY <2>1, <2>2, <3>1, <3>2, <3>3 DEF AttemptInv
  <2> QED
    BY <1>2, <2>3, <2>4, <2>5
<1> QED
  BY <1>1, <1>2, QuietUnlessAttempt

(* One id, at most one commit-tree: over all deliveries, recoveries and    *)
(* crashes, while no live holder outlasts its lease (GetIntent answers     *)
(* before PutIntent writes, both inside the lease).                        *)
THEOREM AtMostOnce == ASSUME ~MayOverstay PROVE Spec => []CommitTreeAtMostOnce
<1> DEFINE J == IInv /\ Alone /\ AttemptInv
<1>1. Init => J
  BY InitIInv DEF Init, Alone, AttemptInv, SectionPcs
<1>2. J /\ [Next]_vars => J'
  BY TypeInductive, RunInductive, LedgerInductive, AloneInductive, AttemptInductive DEF IInv
<1>3. J => CommitTreeAtMostOnce
  BY DEF AttemptInv, CommitTreeAtMostOnce
<1> HIDE DEF J
<1> QED
  BY <1>1, <1>2, <1>3, PTL DEF Spec

-----------------------------------------------------------------------------
(* No stale object under a ref, when HEAD is read without error.  HEAD and *)
(* index only move on, so a process that built its commit after they had   *)
(* moved away fails one of the two looks it takes afterwards; and an       *)
(* object that has been built never becomes stale.                         *)
UpToDate(p) ==
  /\ pc[p] # "idle" => run[p].cand.parent <= head
  /\ pc[p] \notin {"idle", "observeIndex"} => run[p].idx <= index
  /\ pc[p] \in CommitPcs => run[p].sha \in objects
  /\ pc[p] = "postHead" /\ run[p].sha \in stale => run[p].cand.parent < head \/ run[p].idx < index
  /\ pc[p] = "postIndex" /\ run[p].sha \in stale => run[p].idx < index
  /\ pc[p] \in {"inspect", "updateRef"} => run[p].sha \notin stale

StaleInv ==
  /\ stale \subseteq objects
  /\ \A i \in Ids : named[i] \subseteq objects \ stale
  /\ \A p \in Proc : UpToDate(p)

(* HEAD, index and the objects only grow, and stale objects are new ones;  *)
(* only commit-tree writes objects.                                        *)
LEMMA WorldMovesOn ==
  ASSUME IInv, [Next]_vars
  PROVE  /\ head <= head' /\ index <= index' /\ objects \subseteq objects'
         /\ head \in Nat /\ head' \in Nat /\ index \in Nat /\ index' \in Nat
         /\ stale' \cap objects \subseteq stale
         /\ stale' \ stale \subseteq objects' \ objects
         /\ (\E p \in Proc : CommitTree(p)) \/ (objects' = objects /\ stale' = stale)
<1>0. head \in Nat /\ index \in Nat
  BY GitCommitAssumption DEF IInv, TypeOK, Heads, Indexes
<1>1. ASSUME NEW p \in Proc, Start(p) \/ PrepareStep(p) \/ Crash(p)
      PROVE  UNCHANGED <<head, index, objects, stale>>
  BY <1>1 DEF Start, ObserveHead, PrepareStep, ObserveIndex, PrepareUnchanged, PrepareChanged,
     HeadUnchanged, IndexUnchanged, VerifyPasses, VerifyFails, Acquire, LeaseHeld, Crash, repo, history
<1>2. ASSUME NEW p \in Proc, SectionStep(p), ~CommitTree(p)
      PROVE  UNCHANGED <<head, index, objects, stale>>
  BY <1>2 DEF SectionStep, GateUnchanged, GateChanged, HeadUnchanged, IndexUnchanged, GetIntent,
     PutIntent, CommitTreeFails, PostUnchanged, PostChanged, InspectRef, UpdateRef, UpdateRefFails,
     VerifyCommit, Recover, RecordCommit, RecordReconcile, StoreFails, Release, repo, history
<1>3. ASSUME NEW p \in Proc, CommitTree(p)
      PROVE  /\ UNCHANGED <<head, index>> /\ objects \subseteq objects'
             /\ stale' \ stale \subseteq objects' \ objects
  BY <1>3 DEF CommitTree, repo
<1>4. ASSUME NEW i \in Ids, OperatorStep(i) PROVE UNCHANGED <<head, index, objects, stale>>
  BY <1>4 DEF OperatorStep, Cancel, UndoDeleteRef, RecordUndo, UndoCrash, repo, history
<1>5. CASE UserCommits
  BY <1>0, <1>5 DEF UserCommits, history
<1>6. CASE UserStages
  BY <1>0, <1>6 DEF UserStages, history
<1>7. LeaseExpires \/ UNCHANGED vars => UNCHANGED <<head, index, objects, stale>>
  BY DEF LeaseExpires, vars, repo, history
<1> QED
  BY <1>0, <1>1, <1>2, <1>3, <1>4, <1>5, <1>6, <1>7 DEF Next

(* What a process knows of its commit stays true while it waits.           *)
LEMMA UpToDateKept ==
  ASSUME IInv, StaleInv, [Next]_vars, NEW p \in Proc, pc'[p] = pc[p], run'[p] = run[p]
  PROVE  UpToDate(p)'
<1>1. UpToDate(p)
  BY DEF StaleInv
<1>2. pc[p] # "idle" => run[p].cand.parent \in Nat /\ run[p].idx \in Nat
  BY GitCommitAssumption DEF IInv, TypeOK, Runs, Candidates, Heads, Indexes
<1>3. pc[p] \in CommitPcs => run[p].sha \in objects /\ run[p].sha \in objects'
  BY <1>1, WorldMovesOn DEF UpToDate
<1>4. pc[p] \in CommitPcs /\ run[p].sha \in stale' => run[p].sha \in stale
  BY <1>3, WorldMovesOn
<1>5. /\ pc[p] # "idle" => run[p].cand.parent <= head'
      /\ pc[p] \notin {"idle", "observeIndex"} => run[p].idx <= index'
      /\ pc[p] # "idle" /\ run[p].cand.parent < head => run[p].cand.parent < head'
      /\ pc[p] # "idle" /\ run[p].idx < index => run[p].idx < index'
  BY <1>1, <1>2, WorldMovesOn DEF UpToDate
<1>6. \A l \in {"postHead", "postIndex", "inspect", "updateRef"} : l \in CommitPcs /\ l # "idle"
  BY DEF CommitPcs
<1> QED
  BY <1>1, <1>3, <1>4, <1>5, <1>6 DEF UpToDate

(* A process may go on to where nothing more is asked of it.               *)
LEMMA UpToDateWeakened ==
  ASSUME IInv, StaleInv, [Next]_vars, NEW p \in Proc, run'[p] = run[p],
         pc[p] \notin {"idle", "observeIndex"},
         pc'[p] \in CommitPcs => pc[p] \in CommitPcs,
         pc'[p] \notin {"postHead", "postIndex"},
         pc'[p] \in {"inspect", "updateRef"} => pc[p] \in {"inspect", "updateRef"}
  PROVE  UpToDate(p)'
<1>1. UpToDate(p)
  BY DEF StaleInv
<1>2. run[p].cand.parent \in Nat /\ run[p].idx \in Nat
  BY GitCommitAssumption DEF IInv, TypeOK, Runs, Candidates, Heads, Indexes
<1>3. pc[p] \in CommitPcs => run[p].sha \in objects /\ run[p].sha \in objects'
  BY <1>1, WorldMovesOn DEF UpToDate
<1>4. pc[p] \in CommitPcs /\ run[p].sha \in stale' => run[p].sha \in stale
  BY <1>3, WorldMovesOn
<1>5. run[p].cand.parent <= head' /\ run[p].idx <= index'
  BY <1>1, <1>2, WorldMovesOn DEF UpToDate
<1>6. \A l \in {"inspect", "updateRef"} : l \in CommitPcs
  BY DEF CommitPcs
<1> QED
  BY <1>1, <1>3, <1>4, <1>5, <1>6 DEF UpToDate

(* Each step of p establishes what its next point needs.                   *)
LEMMA UpToDateStep ==
  ASSUME ~HeadReadsFail, IInv, StaleInv, [Next]_vars, NEW p \in Proc,
         Start(p) \/ PrepareStep(p) \/ SectionStep(p) \/ Crash(p)
  PROVE  UpToDate(p)'
<1>0. /\ UpToDate(p) /\ pc \in [Proc -> Pcs] /\ run \in [Proc -> Runs \cup {NoRun}]
      /\ pc[p] # "idle" => run[p] \in Runs
  BY DEF StaleInv, IInv, TypeOK
<1>1. HeadSeen = {head} /\ head \in Nat /\ index \in Nat
  BY GitCommitAssumption DEF HeadSeen, IInv, TypeOK, Heads, Indexes
<1>2. pc[p] # "idle" => run[p].cand.parent \in Nat /\ run[p].idx \in Nat
  BY <1>0, GitCommitAssumption DEF Runs, Candidates, Heads, Indexes
<1>3. CASE pc'[p] = "idle"
  BY <1>3 DEF UpToDate, CommitPcs
<1>4. CASE Start(p)
  <2>1. pc'[p] = "observeIndex" /\ run'[p].cand.parent = head /\ head' = head
    BY <1>0, <1>1, <1>4 DEF Start, ObserveHead, repo
  <2> QED
    BY <1>1, <2>1 DEF UpToDate, CommitPcs
<1>5. CASE ObserveIndex(p)
  <2>1. /\ pc[p] = "observeIndex" /\ pc'[p] = "prepHead" /\ head' = head /\ index' = index
        /\ run'[p] = [run[p] EXCEPT !.idx = index]
    BY <1>0, <1>5 DEF ObserveIndex, repo
  <2>2. run'[p].cand.parent = run[p].cand.parent /\ run'[p].idx = index
    BY <1>0, <2>1 DEF Runs
  <2> QED
    BY <1>0, <1>1, <2>1, <2>2 DEF UpToDate, CommitPcs
<1>6. CASE CommitTree(p)
  <2>1. PICK t \in Stamps :
          LET s == [parent |-> run[p].cand.parent, snap |-> run[p].cand.snap, stamp |-> t]
          IN  /\ objects' = objects \cup {s}
              /\ run' = [run EXCEPT ![p].sha = s]
              /\ stale' = IF head = run[p].cand.parent /\ index = run[p].idx
                          THEN stale \ {s} ELSE stale \cup ({s} \ objects)
    BY <1>6 DEF CommitTree
  <2> DEFINE s == [parent |-> run[p].cand.parent, snap |-> run[p].cand.snap, stamp |-> t]
  <2>2. pc[p] = "commitTree" /\ pc'[p] = "postHead" /\ head' = head /\ index' = index
    BY <1>0, <1>6 DEF CommitTree, repo
  <2>3. /\ run'[p].sha = s /\ run'[p].cand = run[p].cand /\ run'[p].idx = run[p].idx
        /\ s \in objects'
    BY <1>0, <2>1, <2>2 DEF Runs
  <2>4. s \in stale' => ~(head = run[p].cand.parent /\ index = run[p].idx)
    BY <2>1
  <2> HIDE DEF s
  <2>5. run[p].cand.parent <= head /\ run[p].idx <= index
    BY <1>0, <2>2 DEF UpToDate
  <2>6. s \in stale' => run[p].cand.parent < head \/ run[p].idx < index
    BY <1>1, <1>2, <2>2, <2>4, <2>5
  <2> QED
    BY <2>2, <2>3, <2>5, <2>6 DEF UpToDate
<1>7. CASE PostUnchanged(p)
  <2>0. head' = head /\ index' = index /\ objects' = objects /\ stale' = stale /\ run' = run
    BY <1>7 DEF PostUnchanged, HeadUnchanged, IndexUnchanged, Goto, repo, history
  <2>1. CASE pc[p] = "postHead" /\ pc'[p] = "postIndex" /\ run[p].cand.parent = head
    BY <1>0, <1>1, <1>2, <2>0, <2>1 DEF UpToDate, CommitPcs
  <2>2. CASE pc[p] = "postIndex" /\ pc'[p] = "inspect" /\ run[p].idx = index
    BY <1>0, <1>1, <1>2, <2>0, <2>2 DEF UpToDate, CommitPcs
  <2> QED
    BY <1>0, <1>1, <1>7, <2>1, <2>2 DEF PostUnchanged, HeadUnchanged, IndexUnchanged, Goto
<1>8. CASE Recover(p)
  <2>1. CASE pc'[p] = "reconcile" /\ run'[p] = run[p]
    BY <1>8, <2>1, UpToDateWeakened DEF Recover, CommitPcs
  <2>2. ASSUME NEW s \in RefSeen(run[p].id), s # NoSha, run' = [run EXCEPT ![p].sha = s],
               pc' = [pc EXCEPT ![p] = "verifyCommit"]
        PROVE  UpToDate(p)'
    <3>1. pc[p] = "recover" /\ run[p].id \in Ids /\ UNCHANGED <<head, index, objects>>
      BY <1>0, <1>8 DEF Recover, Runs, repo
    <3>2. s \in objects
      BY <2>2, <3>1 DEF RefSeen, IInv, LedgerInv, RowInv, StaleInv
    <3>3. run'[p] = [run[p] EXCEPT !.sha = s] /\ pc'[p] = "verifyCommit"
      BY <1>0, <2>2, <3>1
    <3>4. run'[p].sha = s /\ run'[p].cand = run[p].cand /\ run'[p].idx = run[p].idx
      BY <1>0, <3>1, <3>3 DEF Runs
    <3> QED
      BY <1>0, <3>1, <3>2, <3>3, <3>4 DEF UpToDate
  <2> QED
    BY <1>0, <1>8, <2>1, <2>2 DEF Recover, Goto
<1>9. CASE PrepareUnchanged(p) \/ VerifyPasses(p) \/ Acquire(p)
  <2>1. run'[p] = run[p] /\ pc[p] \notin {"idle", "observeIndex"} /\ pc'[p] \notin CommitPcs
    BY <1>0, <1>9 DEF PrepareUnchanged, HeadUnchanged, IndexUnchanged, VerifyPasses, Acquire, Goto,
       CommitPcs
  <2> QED
    BY <2>1, UpToDateWeakened DEF CommitPcs
<1>10. CASE GateUnchanged(p) \/ GateChanged(p) \/ GetIntent(p) \/ PutIntent(p) \/ CommitTreeFails(p)
              \/ PostChanged(p) \/ UpdateRefFails(p) \/ RecordCommit(p) \/ RecordReconcile(p)
              \/ StoreFails(p)
  <2>1. run'[p] = run[p] /\ pc[p] \notin {"idle", "observeIndex"} /\ pc'[p] \notin CommitPcs
    BY <1>0, <1>10 DEF GateUnchanged, GateChanged, Changed, HeadUnchanged, IndexUnchanged, GetIntent,
       PutIntent, CommitTreeFails, PostChanged, UpdateRefFails, RecordCommit, RecordReconcile,
       StoreFails, Goto, CommitPcs
  <2> QED
    BY <2>1, UpToDateWeakened DEF CommitPcs
<1>11. CASE InspectRef(p) \/ UpdateRef(p) \/ VerifyCommit(p)
  <2>1. /\ run'[p] = run[p] /\ pc[p] \in {"inspect", "updateRef", "verifyCommit"}
        /\ pc'[p] \notin {"postHead", "postIndex"}
        /\ pc'[p] \in {"inspect", "updateRef"} => pc[p] = "inspect"
    BY <1>0, <1>11 DEF InspectRef, UpdateRef, VerifyCommit, Goto
  <2> QED
    BY <2>1, UpToDateWeakened DEF CommitPcs
<1>12. PrepareChanged(p) \/ VerifyFails(p) \/ LeaseHeld(p) \/ Release(p) \/ Crash(p) => pc'[p] = "idle"
  BY <1>0 DEF PrepareChanged, VerifyFails, LeaseHeld, Release, Crash, Finish
<1> QED
  BY <1>3, <1>4, <1>5, <1>6, <1>7, <1>8, <1>9, <1>10, <1>11, <1>12 DEF PrepareStep, SectionStep

(* StaleInv is inductive: only update-ref names a commit, and not a stale  *)
(* one.                                                                    *)
LEMMA StaleInductive ==
  ASSUME ~HeadReadsFail, IInv, StaleInv, [Next]_vars
  PROVE  StaleInv'
<1>1. stale' \subseteq objects'
  BY WorldMovesOn DEF StaleInv
<1>2. ASSUME NEW i \in Ids PROVE named'[i] \subseteq objects' \ stale'
  <2>1. named[i] \subseteq objects' \ stale'
    BY WorldMovesOn DEF StaleInv
  <2>2. CASE named' = named
    BY <2>1, <2>2
  <2>3. ASSUME NEW p \in Proc, UpdateRef(p) PROVE named'[i] \subseteq objects' \ stale'
    <3>1. named'[i] \subseteq named[i] \cup {run[p].sha}
      BY <2>3 DEF UpdateRef, IInv, TypeOK
    <3>2. run[p].sha \in objects \ stale
      BY <2>3 DEF UpdateRef, StaleInv, UpToDate, CommitPcs
    <3>3. objects' = objects /\ stale' = stale
      BY <2>3 DEF UpdateRef
    <3> QED
      BY <2>1, <3>1, <3>2, <3>3
  <2>4. named' = named \/ \E p \in Proc : UpdateRef(p)
    <3>1. LedgerStep => named' = named \/ \E p \in Proc : UpdateRef(p)
      BY DEF LedgerStep, VerifyPasses, PutIntent, RecordCommit, RecordReconcile, OperatorStep, Cancel,
         UndoDeleteRef, RecordUndo, UndoCrash, history
    <3> QED
      BY <3>1, LedgerCases DEF ledger
  <2> QED
    BY <2>2, <2>3, <2>4
<1>3. ASSUME NEW p \in Proc PROVE UpToDate(p)'
  <2>1. CASE Start(p) \/ PrepareStep(p) \/ SectionStep(p) \/ Crash(p)
    BY <2>1, UpToDateStep
  <2>2. CASE ~(Start(p) \/ PrepareStep(p) \/ SectionStep(p) \/ Crash(p))
    <3>1. ASSUME NEW q \in Proc, Start(q) \/ PrepareStep(q) \/ SectionStep(q) \/ Crash(q)
          PROVE  pc'[p] = pc[p] /\ run'[p] = run[p]
      BY <2>2, <3>1, OthersStay DEF IInv
    <3>2. ASSUME NEW i \in Ids, OperatorStep(i) PROVE UNCHANGED <<pc, run>>
      BY <3>2 DEF OperatorStep, Cancel, UndoDeleteRef, RecordUndo, UndoCrash
    <3>3. UserCommits \/ UserStages \/ LeaseExpires \/ UNCHANGED vars => UNCHANGED <<pc, run>>
      BY DEF UserCommits, UserStages, LeaseExpires, vars
    <3>4. pc'[p] = pc[p] /\ run'[p] = run[p]
      BY <3>1, <3>2, <3>3 DEF Next
    <3> QED
      BY <3>4, UpToDateKept
  <2> QED
    BY <2>1, <2>2
<1> QED
  BY <1>1, <1>2, <1>3 DEF StaleInv

(* No AutoGit ref ever names a commit that was built only after HEAD or    *)
(* the index had moved away from its base (the second ensureUnchanged of   *)
(* CommitPrepared), even when holders outlast their leases, provided that  *)
(* an existing HEAD can be read.                                           *)
THEOREM RefsAreNotStale == ASSUME ~HeadReadsFail PROVE Spec => []NoStaleRef
<1> DEFINE J == IInv /\ StaleInv
<1>1. Init => J
  BY InitIInv DEF Init, StaleInv, UpToDate, CommitPcs
<1>2. J /\ [Next]_vars => J'
  BY TypeInductive, RunInductive, LedgerInductive, StaleInductive DEF IInv
<1>3. J => NoStaleRef
  BY DEF StaleInv, NoStaleRef
<1> HIDE DEF J
<1> QED
  BY <1>1, <1>2, <1>3, PTL DEF Spec
=============================================================================
