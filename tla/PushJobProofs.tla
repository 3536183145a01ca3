--------------------------- MODULE PushJobProofs ---------------------------
(***************************************************************************)
(* Proofs about PushJob, for any sets of processes, push ids, destinations *)
(* and commits, any ancestry, any requests and any bounds.                 *)
(*                                                                         *)
(* What a call writes into its job rests on a branch it read several steps *)
(* before.  EvidenceInv says what is still known of that reading when the  *)
(* call uses it; it holds in every case, whatever leases and answers do,   *)
(* because it speaks of what a branch has ever named.  BranchInv says what *)
(* is known of the branch itself, which takes a lease that outlasts its    *)
(* holder, truthful readings, and nobody else writing the branch.          *)
(***************************************************************************)
EXTENDS PushJob, TLAPS

(* From the durable intent on, a call works for the job its request names. *)
ContactPcs == LeasedPcs \cup {"acquire"}

HasIntent(p) ==
  pc[p] \in ContactPcs =>
    /\ jobs[req[p].id] # NoJob
    /\ jobs[req[p].id].dest = req[p].dest
    /\ ~jobs[req[p].id].local

EvidenceInv ==
  /\ \A p \in Proc : HasIntent(p)
  /\ \A p \in Proc : pc[p] = "succeed" => ShaOf[req[p].id] \in held[req[p].dest]
  /\ \A d \in Dests : remote[d] # NoSha => remote[d] \in held[d]

IInv == TypeOK /\ EvidenceInv /\ SucceededWasOnRemote

(* The lease of a destination names each call inside its section, and no   *)
(* two calls are inside the section of one destination.                    *)
Inside(p, d) == pc[p] \in LeasedPcs /\ req[p].dest = d

LeaseInv ==
  /\ \A p \in Proc : pc[p] \in LeasedPcs =>
       lease[req[p].dest] = [owner |-> req[p].id, expired |-> FALSE]
  /\ \A d \in Dests, p, q \in Proc : Inside(p, d) /\ Inside(q, d) => p = q

(* While nobody else writes: a branch has named what it names and nothing  *)
(* else, a call about to push found it absent, a call after its push finds *)
(* its commit, and, as long as nothing failed, whoever is about to block   *)
(* or has blocked a job found another commit there.                        *)
BranchInv ==
  others = 0 =>
    /\ \A d \in Dests : held[d] = {remote[d]} \ {NoSha}
    /\ \A p \in Proc : pc[p] = "gitPush" => remote[req[p].dest] = NoSha
    /\ \A p \in Proc : pc[p] \in {"pubPost", "post"} => remote[req[p].dest] = ShaOf[req[p].id]
    /\ faults = 0 => \A p \in Proc : pc[p] = "block" =>
         remote[req[p].dest] \notin {NoSha, ShaOf[req[p].id]}
    /\ faults = 0 => \A i \in Ids : jobs[i] # NoJob /\ jobs[i].state = "BLOCKED" =>
         remote[jobs[i].dest] \notin {NoSha, ShaOf[i]}

(* What the lease and the provider must give for BranchInv.                *)
Dependable == ~MayOverstay /\ ~Lag /\ Looks404 = {}

-----------------------------------------------------------------------------
(* A process that takes a step holds a request.                            *)
LEMMA StepHasRequest ==
  ASSUME TypeOK, NEW p \in Proc, Step(p)
  PROVE  /\ pc[p] # "idle" /\ req[p] \in Requests
         /\ req[p].id \in Ids /\ req[p].dest \in Dests /\ req[p].local \in BOOLEAN
<1>1. pc[p] # "idle"
  BY DEF Step, PushStatus, PutPushIntent, MarkPushSkipped, PutRefused, PutFails, Acquire,
     LeaseHeld, ConfirmPush, PublishConfirm, Confirm, GitPush, GitPushRejected,
     ConfirmAfterMutation, ProviderFails, MarkPush, MarkFails, Release, ReadPcs, MarkPcs
<1>2. req[p] \in Requests
  BY <1>1 DEF TypeOK
<1> QED
  BY <1>1, <1>2 DEF Requests

(* The types are kept by every step (the store's rows, the leases and the  *)
(* calls of coordinator.Push).                                             *)
LEMMA TypeInductive == IInv /\ [Next]_vars => TypeOK'
<1> SUFFICES ASSUME IInv, [Next]_vars PROVE TypeOK'
  OBVIOUS
<1> USE PushAssumption, AskedAssumption, PushNullAssumption
<1> USE DEF IInv, TypeOK, Goto, Finish, Fault
<1>1. ASSUME NEW p \in Proc, Call(p) PROVE TypeOK'
  <2>1. ASSUME NEW r \in Requests, pc[p] = "idle", Begin(p, r),
               UNCHANGED <<jobs, remote, lease, others, faults, held>>
        PROVE  TypeOK'
    BY <2>1 DEF Begin, Pcs
  <2>2. ASSUME NEW i \in Ids, Retry(p, i) PROVE TypeOK'
    <3>1. [id |-> i, dest |-> jobs[i].dest, local |-> jobs[i].local] \in Requests
      BY <2>2 DEF Retry, Jobs, Requests
    <3> QED
      BY <2>1, <2>2, <3>1 DEF Retry
  <2>3. ASSUME NEW r \in Asked, Publish(p, r.id, r.dest, r.local) PROVE TypeOK'
    <3>1. [id |-> r.id, dest |-> r.dest, local |-> r.local] \in Requests
      BY DEF Requests
    <3> QED
      BY <2>1, <2>3, <3>1 DEF Publish
  <2> QED
    BY <1>1, <2>2, <2>3 DEF Call
<1>2. ASSUME NEW p \in Proc, Step(p) PROVE TypeOK'
  <2>0. pc[p] # "idle" /\ req[p] \in Requests /\ req[p].id \in Ids /\ req[p].dest \in Dests
        /\ req[p].local \in BOOLEAN
    BY <1>2, StepHasRequest
  <2>1. ASSUME NEW s \in PushStates, PutPushJob(p, s) PROVE jobs' \in [Ids -> Jobs \cup {NoJob}]
    BY <2>0, <2>1 DEF PutPushJob, Jobs, PushStates
  <2>2. ASSUME NEW l \in Pcs \ {"idle"}, Goto(p, l)
        PROVE  /\ pc' \in [Proc -> Pcs]
               /\ req' \in [Proc -> Requests \cup {NoRun}]
               /\ \A q \in Proc : req'[q] = NoRun <=> pc'[q] = "idle"
    BY <2>0, <2>2
  <2>3. ASSUME Finish(p)
        PROVE  /\ pc' \in [Proc -> Pcs]
               /\ req' \in [Proc -> Requests \cup {NoRun}]
               /\ \A q \in Proc : req'[q] = NoRun <=> pc'[q] = "idle"
    BY <2>3 DEF Pcs
  <2> HIDE DEF Goto, Finish
  <2>4. CASE PushStatus(p)
    BY <2>2, <2>3, <2>4 DEF PushStatus, Pcs
  <2>5. CASE PutPushIntent(p)
    <3>1. (IF req[p].local THEN "skip" ELSE "acquire") \in Pcs \ {"idle"}
      BY DEF Pcs
    <3> QED
      BY <2>1, <2>2, <2>5, <3>1 DEF PutPushIntent, PushStates
  <2>6. CASE MarkPushSkipped(p)
    BY <2>1, <2>3, <2>6 DEF MarkPushSkipped, PushStates
  <2>7. CASE PutRefused(p)
    BY <2>3, <2>7 DEF PutRefused
  <2>8. CASE PutFails(p)
    BY <2>3, <2>8 DEF PutFails
  <2>9. CASE Acquire(p)
    <3>1. [owner |-> req[p].id, expired |-> FALSE] \in Leases
      BY <2>0 DEF Leases
    <3>2. "confirm" \in Pcs \ {"idle"}
      BY DEF Pcs, LeasedPcs, ReadPcs
    <3> QED
      BY <2>2, <2>9, <3>1, <3>2 DEF Acquire
  <2>10. CASE LeaseHeld(p)
    BY <2>3, <2>10 DEF LeaseHeld
  <2>11. ASSUME NEW at, NEW x \in Pcs \ {"idle"}, NEW y \in Pcs \ {"idle"}, Confirm(p, at, x, y)
         PROVE  TypeOK'
    <3>1. PICK o \in Outcomes(p) :
            Goto(p, IF o = "present" THEN x ELSE IF o = "missing" THEN y ELSE "block")
      BY <2>11 DEF Confirm
    <3>2. (IF o = "present" THEN x ELSE IF o = "missing" THEN y ELSE "block") \in Pcs \ {"idle"}
      BY DEF Pcs, LeasedPcs, MarkPcs
    <3> QED
      BY <2>2, <2>11, <3>1, <3>2 DEF Confirm
  <2>12. {"succeed", "pubConfirm", "post", "gitPush", "block", "pubPost", "wait", "release"}
           \subseteq Pcs \ {"idle"}
    BY DEF Pcs, LeasedPcs, MarkPcs, ReadPcs
  <2>13. CASE ConfirmPush(p) \/ PublishConfirm(p) \/ ConfirmAfterMutation(p)
    BY <2>11, <2>12, <2>13 DEF ConfirmPush, PublishConfirm, ConfirmAfterMutation
  <2>14. CASE GitPush(p)
    BY <2>0, <2>2, <2>12, <2>14 DEF GitPush
  <2>15. CASE GitPushRejected(p)
    BY <2>2, <2>12, <2>15 DEF GitPushRejected
  <2>16. CASE ProviderFails(p)
    BY <2>2, <2>12, <2>16 DEF ProviderFails
  <2>17. CASE MarkPush(p)
    <3>1. PICK s \in PushStates : PutPushJob(p, s)
      BY <2>17 DEF MarkPush, MarkPcs, PushStates
    <3> QED
      BY <2>1, <2>2, <2>12, <2>17, <3>1 DEF MarkPush
  <2>18. CASE MarkFails(p)
    BY <2>2, <2>12, <2>18 DEF MarkFails
  <2>19. CASE Release(p)
    BY <2>0, <2>3, <2>19 DEF Release
  <2> QED
    BY <1>2, <2>4, <2>5, <2>6, <2>7, <2>8, <2>9, <2>10, <2>13, <2>14, <2>15, <2>16, <2>17,
       <2>18, <2>19 DEF Step
<1>3. ASSUME NEW p \in Proc, Crash(p) PROVE TypeOK'
  BY <1>3 DEF Crash, Pcs
<1>4. ASSUME NEW d \in Dests, LeaseExpires(d) PROVE TypeOK'
  BY <1>4 DEF LeaseExpires, Leases
<1>5. ASSUME NEW d \in Dests, OthersWrite(d) PROVE TypeOK'
  BY <1>5 DEF OthersWrite
<1>6. CASE UNCHANGED vars
  BY <1>6 DEF vars
<1> QED
  BY <1>1, <1>2, <1>3, <1>4, <1>5, <1>6 DEF Next

-----------------------------------------------------------------------------
(* PutPushJob never changes what a row says of destination and locality,   *)
(* and touches one row.                                                    *)
LEMMA PutKeepsIdentity ==
  ASSUME TypeOK, NEW p \in Proc, req[p] \in Requests, NEW s \in PushStates, PutPushJob(p, s)
  PROVE  /\ \A i \in Ids : jobs[i] # NoJob =>
              /\ jobs'[i] # NoJob
              /\ jobs'[i].dest = jobs[i].dest /\ jobs'[i].local = jobs[i].local
         /\ \A i \in Ids : i # req[p].id => jobs'[i] = jobs[i]
         /\ jobs'[req[p].id] # NoJob /\ jobs'[req[p].id].state = s
         /\ jobs[req[p].id] = NoJob => /\ jobs'[req[p].id].dest = req[p].dest
                                       /\ jobs'[req[p].id].local = req[p].local
<1>1. req[p].id \in Ids /\ req[p].dest \in Dests /\ req[p].local \in BOOLEAN
  BY DEF Requests
<1>2. CASE jobs[req[p].id] = NoJob
  <2>1. jobs' = [jobs EXCEPT ![req[p].id] = [dest |-> req[p].dest, local |-> req[p].local, state |-> s]]
    BY <1>1, <1>2 DEF PutPushJob, TypeOK
  <2>2. [dest |-> req[p].dest, local |-> req[p].local, state |-> s] \in Jobs
    BY <1>1 DEF Jobs
  <2> QED
    BY <1>1, <1>2, <2>1, <2>2, PushNullAssumption DEF TypeOK
<1>3. CASE jobs[req[p].id] # NoJob
  <2>1. jobs[req[p].id] \in Jobs
    BY <1>1, <1>3 DEF TypeOK
  <2>2. jobs' = [jobs EXCEPT ![req[p].id] = [jobs[req[p].id] EXCEPT !.state = s]]
    BY <1>1, <1>3 DEF PutPushJob, TypeOK
  <2>3. /\ [jobs[req[p].id] EXCEPT !.state = s] \in Jobs
        /\ [jobs[req[p].id] EXCEPT !.state = s].dest = jobs[req[p].id].dest
        /\ [jobs[req[p].id] EXCEPT !.state = s].local = jobs[req[p].id].local
        /\ [jobs[req[p].id] EXCEPT !.state = s].state = s
    BY <2>1 DEF Jobs
  <2> QED
    BY <1>1, <1>3, <2>2, <2>3, PushNullAssumption DEF TypeOK
<1> QED
  BY <1>2, <1>3

(* Every step of every actor leaves the identity of a row alone.           *)
LEMMA RowsKeepIdentity ==
  ASSUME TypeOK, [Next]_vars, NEW i \in Ids, jobs[i] # NoJob
  PROVE  jobs'[i] # NoJob /\ jobs'[i].dest = jobs[i].dest /\ jobs'[i].local = jobs[i].local
<1>1. CASE UNCHANGED jobs
  BY <1>1
<1>2. ASSUME NEW p \in Proc, Step(p), NEW s \in PushStates, PutPushJob(p, s)
      PROVE  jobs'[i] # NoJob /\ jobs'[i].dest = jobs[i].dest /\ jobs'[i].local = jobs[i].local
  BY <1>2, StepHasRequest, PutKeepsIdentity
<1>3. ASSUME NEW p \in Proc, Step(p)
      PROVE  UNCHANGED jobs \/ \E s \in PushStates : PutPushJob(p, s)
  BY <1>3 DEF Step, PushStatus, PutPushIntent, MarkPushSkipped, PutRefused, PutFails, Acquire,
     LeaseHeld, ConfirmPush, PublishConfirm, Confirm, GitPush, GitPushRejected,
     ConfirmAfterMutation, ProviderFails, MarkPush, MarkFails, Release, MarkPcs, PushStates
<1>4. ASSUME NEW p \in Proc, Call(p) \/ Crash(p) PROVE UNCHANGED jobs
  BY <1>4 DEF Call, Retry, Publish, Crash
<1>5. ASSUME NEW d \in Dests, LeaseExpires(d) \/ OthersWrite(d) PROVE UNCHANGED jobs
  BY <1>5 DEF LeaseExpires, OthersWrite
<1> QED
  BY <1>1, <1>2, <1>3, <1>4, <1>5 DEF Next, vars

(* A call comes to contact the provider only through its durable intent.   *)
LEMMA EntersByIntent ==
  ASSUME TypeOK, [Next]_vars, NEW q \in Proc, pc'[q] \in ContactPcs
  PROVE  /\ req'[q] = req[q]
         /\ pc[q] \in ContactPcs \/ (PutPushIntent(q) /\ ~req[q].local)
<1> USE DEF TypeOK
<1>1. ASSUME NEW p \in Proc, Call(p) PROVE pc[q] \in ContactPcs /\ req'[q] = req[q]
  BY <1>1 DEF Call, Retry, Publish, Begin, ContactPcs, LeasedPcs, ReadPcs, MarkPcs
<1>2. ASSUME NEW p \in Proc, Crash(p) PROVE pc[q] \in ContactPcs /\ req'[q] = req[q]
  BY <1>2 DEF Crash, Finish, ContactPcs, LeasedPcs, ReadPcs, MarkPcs
<1>3. ASSUME NEW p \in Proc, Step(p), p # q PROVE pc[q] \in ContactPcs /\ req'[q] = req[q]
  BY <1>3 DEF Step, PushStatus, PutPushIntent, MarkPushSkipped, PutRefused, PutFails, Acquire,
     LeaseHeld, ConfirmPush, PublishConfirm, Confirm, GitPush, GitPushRejected,
     ConfirmAfterMutation, ProviderFails, MarkPush, MarkFails, Release, Goto, Finish
<1>4. CASE PutPushIntent(q)
  <2>1. ~req[q].local /\ req' = req
    BY <1>4 DEF PutPushIntent, Goto, ContactPcs, LeasedPcs, ReadPcs, MarkPcs
  <2> QED
    BY <1>4, <2>1
<1>5. CASE Step(q) /\ ~PutPushIntent(q)
  BY <1>5 DEF Step, PushStatus, MarkPushSkipped, PutRefused, PutFails, Acquire,
     LeaseHeld, ConfirmPush, PublishConfirm, Confirm, GitPush, GitPushRejected,
     ConfirmAfterMutation, ProviderFails, MarkPush, MarkFails, Release, Goto, Finish,
     ContactPcs, LeasedPcs, ReadPcs, MarkPcs
<1>6. ASSUME NEW d \in Dests, LeaseExpires(d) \/ OthersWrite(d)
      PROVE  pc[q] \in ContactPcs /\ req'[q] = req[q]
  BY <1>6 DEF LeaseExpires, OthersWrite
<1>7. CASE UNCHANGED vars
  BY <1>7 DEF vars
<1> QED
  BY <1>1, <1>2, <1>3, <1>4, <1>5, <1>6, <1>7 DEF Next

(* The intent a call wrote is there for as long as the call needs it.      *)
LEMMA IntentInductive ==
  ASSUME IInv, [Next]_vars, NEW q \in Proc
  PROVE  HasIntent(q)'
<1> SUFFICES ASSUME pc'[q] \in ContactPcs
             PROVE  /\ jobs'[req'[q].id] # NoJob
                    /\ jobs'[req'[q].id].dest = req'[q].dest
                    /\ ~jobs'[req'[q].id].local
  BY DEF HasIntent
<1>0. TypeOK
  BY DEF IInv
<1>1. req'[q] = req[q]
  BY <1>0, EntersByIntent
<1>2. CASE pc[q] \in ContactPcs
  <2>1. req[q] \in Requests /\ req[q].id \in Ids
    BY <1>0, <1>2 DEF TypeOK, ContactPcs, LeasedPcs, ReadPcs, MarkPcs, Requests
  <2>2. jobs[req[q].id] # NoJob /\ jobs[req[q].id].dest = req[q].dest /\ ~jobs[req[q].id].local
    BY <1>2 DEF IInv, EvidenceInv, HasIntent
  <2>3. /\ jobs'[req[q].id] # NoJob
        /\ jobs'[req[q].id].dest = jobs[req[q].id].dest
        /\ jobs'[req[q].id].local = jobs[req[q].id].local
    BY <1>0, <2>1, <2>2, RowsKeepIdentity
  <2> QED
    BY <1>1, <2>2, <2>3
<1>3. CASE PutPushIntent(q) /\ ~req[q].local
  <2>1. Step(q)
    BY <1>3 DEF Step
  <2>2. PutPushJob(q, "PUSH_REQUESTED") /\ "PUSH_REQUESTED" \in PushStates
    BY <1>3 DEF PutPushIntent, PushStates
  <2>3. req[q] \in Requests /\ req[q].id \in Ids
    BY <1>0, <2>1, StepHasRequest
  <2>4. CASE jobs[req[q].id] = NoJob
    BY <1>0, <1>1, <1>3, <2>2, <2>3, <2>4, PutKeepsIdentity
  <2>5. CASE jobs[req[q].id] # NoJob
    <3>1. jobs[req[q].id].dest = req[q].dest /\ ~jobs[req[q].id].local
      BY <1>3, <2>5 DEF PutPushIntent, Accepts
    <3>2. /\ jobs'[req[q].id] # NoJob
          /\ jobs'[req[q].id].dest = jobs[req[q].id].dest
          /\ jobs'[req[q].id].local = jobs[req[q].id].local
      BY <1>0, <2>3, <2>5, RowsKeepIdentity
    <3> QED
      BY <1>1, <3>1, <3>2
  <2> QED
    BY <2>4, <2>5
<1> QED
  BY <1>0, <1>2, <1>3, EntersByIntent

(* What a branch has named stays on record, and what it names is on it.    *)
LEMMA HeldGrows ==
  ASSUME IInv, [Next]_vars, NEW d \in Dests
  PROVE  /\ held[d] \subseteq held'[d]
         /\ remote'[d] # NoSha => remote'[d] \in held'[d]
<1> USE DEF IInv, TypeOK, EvidenceInv
<1>1. CASE UNCHANGED <<remote, held>>
  BY <1>1
<1>2. ASSUME NEW p \in Proc, GitPush(p)
      PROVE  held[d] \subseteq held'[d] /\ (remote'[d] # NoSha => remote'[d] \in held'[d])
  BY <1>2, StepHasRequest DEF GitPush, Step
<1>3. ASSUME NEW e \in Dests, OthersWrite(e)
      PROVE  held[d] \subseteq held'[d] /\ (remote'[d] # NoSha => remote'[d] \in held'[d])
  BY <1>3 DEF OthersWrite
<1>4. ASSUME NEW p \in Proc, Step(p), ~GitPush(p) PROVE UNCHANGED <<remote, held>>
  BY <1>4 DEF Step, PushStatus, PutPushIntent, MarkPushSkipped, PutRefused, PutFails, Acquire,
     LeaseHeld, ConfirmPush, PublishConfirm, Confirm, GitPushRejected,
     ConfirmAfterMutation, ProviderFails, MarkPush, MarkFails, Release
<1>5. ASSUME NEW p \in Proc, Call(p) \/ Crash(p) PROVE UNCHANGED <<remote, held>>
  BY <1>5 DEF Call, Retry, Publish, Crash
<1>6. ASSUME NEW e \in Dests, LeaseExpires(e) PROVE UNCHANGED <<remote, held>>
  BY <1>6 DEF LeaseExpires
<1> QED
  BY <1>1, <1>2, <1>3, <1>4, <1>5, <1>6 DEF Next, vars

(* A confirmation that reports the commit present has read it.             *)
LEMMA PresentIsThere ==
  ASSUME NEW p \in Proc, "present" \in Outcomes(p)
  PROVE  remote[req[p].dest] = ShaOf[req[p].id] /\ remote[req[p].dest] # NoSha
  BY DEF Outcomes, Outcome

(* A call about to record success has seen its commit on its branch.       *)
LEMMA SucceedInductive ==
  ASSUME IInv, [Next]_vars, NEW q \in Proc, pc'[q] = "succeed"
  PROVE  ShaOf[req'[q].id] \in held'[req'[q].dest]
<1> USE DEF IInv, TypeOK
<1>1. CASE pc[q] = "succeed" /\ req'[q] = req[q]
  <2>1. req[q] \in Requests /\ req[q].dest \in Dests
    BY <1>1 DEF Requests
  <2> QED
    BY <1>1, <2>1, HeldGrows DEF EvidenceInv
<1>2. CASE ConfirmPush(q) \/ ConfirmAfterMutation(q)
  <2>1. Step(q)
    BY <1>2 DEF Step
  <2>2. "present" \in Outcomes(q) /\ req'[q] = req[q] /\ UNCHANGED held
    BY <1>2 DEF ConfirmPush, ConfirmAfterMutation, Confirm, Goto
  <2>3. req[q].dest \in Dests
    BY <2>1, StepHasRequest
  <2> QED
    BY <2>2, <2>3, PresentIsThere DEF EvidenceInv
<1>3. ASSUME NEW p \in Proc, Call(p) \/ Crash(p) PROVE pc[q] = "succeed" /\ req'[q] = req[q]
  BY <1>3 DEF Call, Retry, Publish, Begin, Crash, Finish
<1>4. ASSUME NEW p \in Proc, Step(p), p # q \/ ~(ConfirmPush(q) \/ ConfirmAfterMutation(q))
      PROVE  pc[q] = "succeed" /\ req'[q] = req[q]
  BY <1>4 DEF Step, PushStatus, PutPushIntent, MarkPushSkipped, PutRefused, PutFails, Acquire,
     LeaseHeld, ConfirmPush, PublishConfirm, Confirm, GitPush, GitPushRejected,
     ConfirmAfterMutation, ProviderFails, MarkPush, MarkFails, Release, Goto, Finish
<1>5. ASSUME NEW d \in Dests, LeaseExpires(d) \/ OthersWrite(d)
      PROVE  pc[q] = "succeed" /\ req'[q] = req[q]
  BY <1>5 DEF LeaseExpires, OthersWrite
<1> QED
  BY <1>1, <1>2, <1>3, <1>4, <1>5 DEF Next, vars

(* The state of a row changes only by the three stores of Push.            *)
LEMMA SuccessInductive == IInv /\ [Next]_vars => SucceededWasOnRemote'
<1> SUFFICES ASSUME IInv, [Next]_vars, NEW i \in Ids,
                    jobs'[i] # NoJob, jobs'[i].state = "SUCCEEDED"
             PROVE  ShaOf[i] \in held'[jobs'[i].dest]
  BY DEF SucceededWasOnRemote
<1>0. TypeOK
  BY DEF IInv
<1>1. CASE jobs'[i] = jobs[i]
  <2>1. jobs[i].dest \in Dests
    BY <1>0, <1>1 DEF TypeOK, Jobs
  <2> QED
    BY <1>1, <2>1, HeldGrows DEF IInv, SucceededWasOnRemote
<1>2. ASSUME NEW p \in Proc, MarkPush(p), jobs'[i] # jobs[i]
      PROVE  ShaOf[i] \in held'[jobs'[i].dest]
  <2>0. Step(p)
    BY <1>2 DEF Step
  <2>1. PICK s \in PushStates : PutPushJob(p, s) /\ (s = "SUCCEEDED" => pc[p] = "succeed")
    BY <1>2 DEF MarkPush, MarkPcs, PushStates
  <2>2. req[p] \in Requests /\ req[p].id \in Ids
    BY <1>0, <2>0, StepHasRequest
  <2>3. i = req[p].id /\ s = "SUCCEEDED"
    BY <1>0, <1>2, <2>1, <2>2, PutKeepsIdentity
  <2>4. ShaOf[i] \in held[req[p].dest] /\ held' = held
    BY <1>2, <2>1, <2>3 DEF MarkPush, IInv, EvidenceInv
  <2>5. jobs[i] # NoJob /\ jobs[i].dest = req[p].dest
    BY <2>1, <2>3 DEF IInv, EvidenceInv, HasIntent, ContactPcs, LeasedPcs, MarkPcs
  <2> QED
    BY <1>0, <2>4, <2>5, RowsKeepIdentity
<1>3. ASSUME NEW p \in Proc, PutPushIntent(p) \/ MarkPushSkipped(p) PROVE jobs'[i] = jobs[i]
  <2>0. Step(p)
    BY <1>3 DEF Step
  <2>1. PICK s \in PushStates : PutPushJob(p, s) /\ s # "SUCCEEDED"
    BY <1>3 DEF PutPushIntent, MarkPushSkipped, PushStates
  <2> QED
    BY <1>0, <2>0, <2>1, StepHasRequest, PutKeepsIdentity
<1>4. ASSUME NEW p \in Proc, Step(p), ~MarkPush(p), ~PutPushIntent(p), ~MarkPushSkipped(p)
      PROVE  UNCHANGED jobs
  BY <1>4 DEF Step, PushStatus, PutRefused, PutFails, Acquire, LeaseHeld, ConfirmPush,
     PublishConfirm, Confirm, GitPush, GitPushRejected, ConfirmAfterMutation, ProviderFails,
     MarkFails, Release
<1>5. ASSUME NEW p \in Proc, Call(p) \/ Crash(p) PROVE UNCHANGED jobs
  BY <1>5 DEF Call, Retry, Publish, Crash
<1>6. ASSUME NEW d \in Dests, LeaseExpires(d) \/ OthersWrite(d) PROVE UNCHANGED jobs
  BY <1>6 DEF LeaseExpires, OthersWrite
<1> QED
  BY <1>1, <1>2, <1>3, <1>4, <1>5, <1>6 DEF Next, vars

-----------------------------------------------------------------------------
(* IInv holds in every reachable state: types, what each call may rely on, *)
(* and the evidence of every recorded success.                             *)
THEOREM Invariance == Spec => []IInv
<1>1. Init => IInv
  BY PushAssumption DEF Init, IInv, TypeOK, Pcs, EvidenceInv, HasIntent, ContactPcs,
     LeasedPcs, ReadPcs, MarkPcs, SucceededWasOnRemote
<1>2. IInv /\ [Next]_vars => IInv'
  <2> SUFFICES ASSUME IInv, [Next]_vars PROVE IInv'
    OBVIOUS
  <2>1. TypeOK'
    BY TypeInductive
  <2>2. EvidenceInv'
    BY IntentInductive, SucceedInductive, HeldGrows DEF EvidenceInv
  <2>3. SucceededWasOnRemote'
    BY SuccessInductive
  <2> QED
    BY <2>1, <2>2, <2>3 DEF IInv
<1> QED
  BY <1>1, <1>2, PTL DEF Spec

(* A push recorded SUCCEEDED was on the branch its row names (Push,        *)
(* ConfirmPush, PutPushJob), for any number of concurrent calls, lost      *)
(* answers, crashes, lagging reads, overstayed leases and other writers.   *)
THEOREM SuccessHasEvidence == Spec => []SucceededWasOnRemote
  BY Invariance, PTL DEF IInv

(* The provider is contacted only for a durable intent of this destination *)
(* that is not local-only (Push writes the intent before it asks for the   *)
(* lease).                                                                 *)
THEOREM ContactHasIntent == Spec => []RemoteContactHasIntent
<1>1. IInv => RemoteContactHasIntent
  BY DEF IInv, EvidenceInv, HasIntent, ContactPcs, RemoteContactHasIntent
<1> QED
  BY <1>1, Invariance, PTL

-----------------------------------------------------------------------------
(* A call enters its section only by acquiring the lease.                  *)
LEMMA EntersByLease ==
  ASSUME TypeOK, [Next]_vars, NEW q \in Proc, pc'[q] \in LeasedPcs
  PROVE  req'[q] = req[q] /\ (pc[q] \in LeasedPcs \/ Acquire(q))
<1> USE DEF TypeOK
<1>1. ASSUME NEW p \in Proc, Call(p) \/ Crash(p) PROVE pc[q] \in LeasedPcs /\ req'[q] = req[q]
  BY <1>1 DEF Call, Retry, Publish, Begin, Crash, Finish, LeasedPcs, ReadPcs, MarkPcs
<1>2. ASSUME NEW p \in Proc, Step(p), p # q PROVE pc[q] \in LeasedPcs /\ req'[q] = req[q]
  BY <1>2 DEF Step, PushStatus, PutPushIntent, MarkPushSkipped, PutRefused, PutFails, Acquire,
     LeaseHeld, ConfirmPush, PublishConfirm, Confirm, GitPush, GitPushRejected,
     ConfirmAfterMutation, ProviderFails, MarkPush, MarkFails, Release, Goto, Finish
<1>3. CASE Acquire(q)
  BY <1>3 DEF Acquire, Goto
<1>4. CASE Step(q) /\ ~Acquire(q)
  BY <1>4 DEF Step, PushStatus, PutPushIntent, MarkPushSkipped, PutRefused, PutFails,
     LeaseHeld, ConfirmPush, PublishConfirm, Confirm, GitPush, GitPushRejected,
     ConfirmAfterMutation, ProviderFails, MarkPush, MarkFails, Release, Goto, Finish,
     LeasedPcs, ReadPcs, MarkPcs
<1>5. ASSUME NEW d \in Dests, LeaseExpires(d) \/ OthersWrite(d)
      PROVE  pc[q] \in LeasedPcs /\ req'[q] = req[q]
  BY <1>5 DEF LeaseExpires, OthersWrite
<1>6. CASE UNCHANGED vars
  BY <1>6 DEF vars
<1> QED
  BY <1>1, <1>2, <1>3, <1>4, <1>5, <1>6 DEF Next

(* An unexpired lease is not free.                                         *)
LEMMA HeldIsNotFree ==
  ASSUME NEW i \in Ids, NEW d, lease[d] = [owner |-> i, expired |-> FALSE]
  PROVE  ~LeaseFree(d)
<1>1. [owner |-> i, expired |-> FALSE] \in Leases
  BY DEF Leases
<1>2. lease[d] # NoLease
  BY <1>1, PushNullAssumption
<1>3. [owner |-> i, expired |-> FALSE] \notin [owner : Ids, expired : {TRUE}]
  OBVIOUS
<1> QED
  BY <1>2, <1>3 DEF LeaseFree

(* Who is inside a section keeps its lease until it leaves.                *)
LEMMA LeaseKept ==
  ASSUME ~MayOverstay, TypeOK, LeaseInv, [Next]_vars, NEW q \in Proc,
         pc[q] \in LeasedPcs, pc'[q] \in LeasedPcs
  PROVE  lease'[req[q].dest] = lease[req[q].dest]
<1> DEFINE d == req[q].dest
<1>0. req[q] \in Requests /\ d \in Dests
  BY DEF TypeOK, LeasedPcs, ReadPcs, MarkPcs, Requests
<1>1. lease[d] = [owner |-> req[q].id, expired |-> FALSE]
  BY DEF LeaseInv
<1>2. ASSUME NEW p \in Proc, Acquire(p) PROVE lease'[d] = lease[d]
  <2>1. ~LeaseFree(d)
    BY <1>0, <1>1, HeldIsNotFree DEF Requests
  <2>2. req[p].dest # d
    BY <1>2, <2>1 DEF Acquire
  <2> QED
    BY <1>0, <1>2, <2>2 DEF Acquire, TypeOK
<1>3. ASSUME NEW p \in Proc, Release(p) PROVE lease'[d] = lease[d]
  <2>1. p # q
    BY <1>3 DEF Release, Finish, TypeOK, LeasedPcs, ReadPcs, MarkPcs
  <2>2. req[p].dest # d
    BY <1>0, <1>3, <2>1 DEF Release, LeaseInv, Inside, LeasedPcs
  <2> QED
    BY <1>0, <1>3, <2>2 DEF Release, TypeOK
<1>4. ASSUME NEW e \in Dests, LeaseExpires(e) PROVE lease'[d] = lease[d]
  <2>1. e # d
    BY <1>4 DEF LeaseExpires
  <2> QED
    BY <1>0, <1>4, <2>1 DEF LeaseExpires, TypeOK
<1>5. ASSUME NEW p \in Proc, Step(p), ~Acquire(p), ~Release(p) PROVE UNCHANGED lease
  BY <1>5 DEF Step, PushStatus, PutPushIntent, MarkPushSkipped, PutRefused, PutFails,
     LeaseHeld, ConfirmPush, PublishConfirm, Confirm, GitPush, GitPushRejected,
     ConfirmAfterMutation, ProviderFails, MarkPush, MarkFails
<1>6. ASSUME NEW p \in Proc, Call(p) \/ Crash(p) PROVE UNCHANGED lease
  BY <1>6 DEF Call, Retry, Publish, Crash
<1>7. ASSUME NEW e \in Dests, OthersWrite(e) PROVE UNCHANGED lease
  BY <1>7 DEF OthersWrite
<1> QED
  BY <1>2, <1>3, <1>4, <1>5, <1>6, <1>7 DEF Next, vars

(* With leases that outlast their live holders the section is exclusive.   *)
LEMMA LeaseInductive ==
  ASSUME ~MayOverstay, TypeOK, LeaseInv, [Next]_vars
  PROVE  LeaseInv'
<1>1. ASSUME NEW q \in Proc, pc'[q] \in LeasedPcs
      PROVE  lease'[req'[q].dest] = [owner |-> req'[q].id, expired |-> FALSE]
  <2>1. req'[q] = req[q]
    BY <1>1, EntersByLease
  <2>2. CASE pc[q] \in LeasedPcs
    BY <1>1, <2>1, <2>2, LeaseKept DEF LeaseInv
  <2>3. CASE Acquire(q)
    <3>1. req[q].dest \in Dests
      BY <2>3, StepHasRequest DEF Step
    <3> QED
      BY <2>1, <2>3, <3>1 DEF Acquire, TypeOK
  <2> QED
    BY <1>1, <2>2, <2>3, EntersByLease
<1>2. ASSUME NEW d \in Dests, NEW p \in Proc, NEW q \in Proc, Acquire(p),
             pc[q] \in LeasedPcs, req[q].dest = req[p].dest
      PROVE  FALSE
  <2>1. lease[req[p].dest] = [owner |-> req[q].id, expired |-> FALSE]
    BY <1>2 DEF LeaseInv
  <2>2. req[q].id \in Ids
    BY <1>2 DEF TypeOK, LeasedPcs, ReadPcs, MarkPcs, Requests
  <2> QED
    BY <1>2, <2>1, <2>2, HeldIsNotFree DEF Acquire
<1>3. ASSUME NEW p \in Proc, NEW q \in Proc, Acquire(p), p # q
      PROVE  pc'[q] = pc[q]
  BY <1>3 DEF Acquire, Goto, TypeOK
<1>4. ASSUME NEW d \in Dests, NEW p \in Proc, NEW q \in Proc, Inside(p, d)', Inside(q, d)'
      PROVE  p = q
  <2>1. /\ req'[p] = req[p] /\ (pc[p] \in LeasedPcs \/ Acquire(p))
        /\ req'[q] = req[q] /\ (pc[q] \in LeasedPcs \/ Acquire(q))
    BY <1>4, EntersByLease DEF Inside
  <2>2. CASE pc[p] \in LeasedPcs /\ pc[q] \in LeasedPcs
    BY <1>4, <2>1, <2>2 DEF LeaseInv, Inside
  <2>3. CASE pc[p] \notin LeasedPcs
    <3>1. Acquire(p)
      BY <2>1, <2>3
    <3>2. SUFFICES ASSUME p # q PROVE FALSE
      OBVIOUS
    <3>3. pc[q] \in LeasedPcs
      BY <1>3, <1>4, <3>1, <3>2 DEF Inside
    <3> QED
      BY <1>2, <1>4, <2>1, <3>1, <3>3 DEF Inside
  <2>4. CASE pc[q] \notin LeasedPcs
    <3>1. Acquire(q)
      BY <2>1, <2>4
    <3>2. SUFFICES ASSUME p # q PROVE FALSE
      OBVIOUS
    <3>3. pc[p] \in LeasedPcs
      BY <1>3, <1>4, <3>1, <3>2 DEF Inside
    <3> QED
      BY <1>2, <1>4, <2>1, <3>1, <3>3 DEF Inside
  <2> QED
    BY <2>2, <2>3, <2>4
<1> QED
  BY <1>1, <1>4 DEF LeaseInv

(* With truthful readings a confirmation reports what the branch is.       *)
LEMMA TruthfulReading ==
  ASSUME Dependable, TypeOK, NEW p \in Proc, req[p] \in Requests, NEW o \in Outcomes(p)
  PROVE  /\ o = "present" => remote[req[p].dest] = ShaOf[req[p].id]
         /\ o = "missing" => remote[req[p].dest] = NoSha
         /\ o \notin {"present", "missing"} => remote[req[p].dest] \notin {NoSha, ShaOf[req[p].id]}
  BY DEF Dependable, Outcomes, Outcome

(* As long as only AutoGit writes, a step that changes a branch is a git   *)
(* push that finds it absent, made by the one call inside its section.     *)
LEMMA BranchChange ==
  ASSUME Dependable, IInv, LeaseInv, BranchInv, [Next]_vars, others' = 0, NEW d \in Dests,
         remote'[d] # remote[d]
  PROVE  /\ remote[d] = NoSha
         /\ \E p \in Proc : GitPush(p) /\ req[p].dest = d
<1> USE DEF IInv, TypeOK
<1>1. ASSUME NEW p \in Proc, GitPush(p)
      PROVE  remote[d] = NoSha /\ req[p].dest = d
  <2>1. req[p].dest \in Dests
    BY <1>1, StepHasRequest DEF Step
  <2>2. req[p].dest = d
    BY <1>1, <2>1 DEF GitPush
  <2>3. others = 0 /\ pc[p] = "gitPush"
    BY <1>1 DEF GitPush
  <2> QED
    BY <2>2, <2>3 DEF BranchInv
<1>2. ASSUME NEW p \in Proc, Step(p), ~GitPush(p) PROVE UNCHANGED remote
  BY <1>2 DEF Step, PushStatus, PutPushIntent, MarkPushSkipped, PutRefused, PutFails, Acquire,
     LeaseHeld, ConfirmPush, PublishConfirm, Confirm, GitPushRejected,
     ConfirmAfterMutation, ProviderFails, MarkPush, MarkFails, Release
<1>3. ASSUME NEW p \in Proc, Call(p) \/ Crash(p) PROVE UNCHANGED remote
  BY <1>3 DEF Call, Retry, Publish, Crash
<1>4. ASSUME NEW e \in Dests, LeaseExpires(e) PROVE UNCHANGED remote
  BY <1>4 DEF LeaseExpires
<1>5. ASSUME NEW e \in Dests, OthersWrite(e) PROVE FALSE
  BY <1>5, PushAssumption DEF OthersWrite
<1> QED
  BY <1>1, <1>2, <1>3, <1>4, <1>5 DEF Next, vars

(* Bounds on other writers and on failures are counted up.                 *)
LEMMA CountersGrow ==
  ASSUME TypeOK, [Next]_vars
  PROVE  (others' = 0 => others = 0) /\ (faults' = 0 => faults = 0)
<1>0. others \in Nat /\ faults \in Nat /\ others + 1 # 0 /\ faults + 1 # 0
  BY PushAssumption DEF TypeOK
<1>1. ASSUME NEW p \in Proc, Call(p) \/ Crash(p)
      PROVE  others' = others /\ faults' \in {faults, faults + 1}
  BY <1>1 DEF Call, Retry, Publish, Crash, Fault
<1>2. ASSUME NEW p \in Proc, Step(p)
      PROVE  others' = others /\ faults' \in {faults, faults + 1}
  BY <1>2 DEF Step, PushStatus, PutPushIntent, MarkPushSkipped, PutRefused, PutFails, Acquire,
     LeaseHeld, ConfirmPush, PublishConfirm, Confirm, GitPush, GitPushRejected,
     ConfirmAfterMutation, ProviderFails, MarkPush, MarkFails, Release, Fault
<1>3. ASSUME NEW d \in Dests, LeaseExpires(d) \/ OthersWrite(d)
      PROVE  others' \in {others, others + 1} /\ faults' = faults
  BY <1>3 DEF LeaseExpires, OthersWrite
<1> QED
  BY <1>0, <1>1, <1>2, <1>3 DEF Next, vars

(* How a call reaches the points where it relies on the branch.            *)
LEMMA ReliesOnBranch ==
  ASSUME Dependable, IInv, LeaseInv, BranchInv, [Next]_vars, others' = 0, NEW q \in Proc,
         pc'[q] \in {"gitPush", "pubPost", "post", "block"}
  PROVE  LET now == remote'[req'[q].dest]
             sha == ShaOf[req'[q].id] IN
         /\ pc'[q] = "gitPush" => now = NoSha
         /\ pc'[q] \in {"pubPost", "post"} => now = sha
         /\ pc'[q] = "block" /\ faults' = 0 => now \notin {NoSha, sha}
<1> DEFINE d == req[q].dest
<1>0. TypeOK /\ others = 0 /\ (faults' = 0 => faults = 0)
  BY CountersGrow DEF IInv
<1>1. req'[q] = req[q] /\ (pc[q] \in LeasedPcs \/ Acquire(q))
  BY <1>0, EntersByLease DEF LeasedPcs, ReadPcs, MarkPcs
<1>2. pc[q] \in LeasedPcs
  BY <1>0, <1>1 DEF Acquire, Goto, TypeOK
<1>3. req[q] \in Requests /\ d \in Dests /\ req[q].id \in Ids /\ ShaOf[req[q].id] \in Shas
  BY <1>0, <1>2, PushAssumption DEF TypeOK, LeasedPcs, ReadPcs, MarkPcs, Requests
<1>4. ShaOf[req[q].id] # NoSha
  BY <1>3, PushNullAssumption
<1>5. CASE pc'[q] = pc[q]
  <2>1. CASE pc[q] = "gitPush"
    <3>1. remote[d] = NoSha
      BY <1>0, <2>1 DEF BranchInv
    <3>2. ASSUME NEW p \in Proc, GitPush(p), req[p].dest = d PROVE FALSE
      <4>1. p = q
        BY <1>2, <1>3, <3>2 DEF GitPush, LeaseInv, Inside, LeasedPcs
      <4> QED
        BY <1>0, <1>5, <2>1, <3>2, <4>1 DEF GitPush, Goto, TypeOK
    <3> QED
      BY <1>1, <1>3, <1>5, <2>1, <3>1, <3>2, BranchChange
  <2>2. CASE pc[q] \in {"pubPost", "post"}
    <3>1. remote[d] = ShaOf[req[q].id]
      BY <1>0, <2>2 DEF BranchInv
    <3> QED
      BY <1>1, <1>3, <1>4, <1>5, <2>2, <3>1, BranchChange
  <2>3. CASE pc[q] = "block" /\ faults' = 0
    <3>1. remote[d] \notin {NoSha, ShaOf[req[q].id]}
      BY <1>0, <2>3 DEF BranchInv
    <3> QED
      BY <1>1, <1>3, <1>5, <2>3, <3>1, BranchChange
  <2>4. CASE pc[q] = "block" /\ faults' # 0
    BY <1>5, <2>4
  <2> QED
    BY <1>5, <2>1, <2>2, <2>3, <2>4
<1>6. CASE GitPush(q)
  <2>1. pc'[q] \in {"pubPost", "block"} /\ remote'[d] = ShaOf[req[q].id]
    BY <1>0, <1>3, <1>6 DEF GitPush, Goto, TypeOK
  <2>2. pc'[q] = "block" => faults' # 0
    BY <1>0, <1>6, PushAssumption DEF GitPush, Goto, TypeOK, Fault
  <2> QED
    BY <1>1, <2>1, <2>2
<1>7. CASE ConfirmPush(q) \/ PublishConfirm(q) \/ ConfirmAfterMutation(q)
  <2>1. UNCHANGED remote
    BY <1>7 DEF ConfirmPush, PublishConfirm, ConfirmAfterMutation, Confirm
  <2>2. CASE ConfirmPush(q)
    <3>1. PICK o \in Outcomes(q) :
            pc'[q] = IF o = "present" THEN "succeed" ELSE IF o = "missing" THEN "pubConfirm" ELSE "block"
      BY <1>0, <2>2 DEF ConfirmPush, Confirm, Goto, TypeOK
    <3> QED
      BY <1>0, <1>1, <1>3, <2>1, <3>1, TruthfulReading
  <2>3. CASE PublishConfirm(q)
    <3>1. PICK o \in Outcomes(q) :
            pc'[q] = IF o = "present" THEN "post" ELSE IF o = "missing" THEN "gitPush" ELSE "block"
      BY <1>0, <2>3 DEF PublishConfirm, Confirm, Goto, TypeOK
    <3> QED
      BY <1>0, <1>1, <1>3, <2>1, <3>1, TruthfulReading
  <2>4. CASE ConfirmAfterMutation(q)
    <3>1. PICK o \in Outcomes(q) : pc'[q] = "block" => o # "present"
      BY <1>0, <2>4 DEF ConfirmAfterMutation, Confirm, Goto, TypeOK
    <3>2. remote[d] = ShaOf[req[q].id]
      BY <1>0, <2>4 DEF ConfirmAfterMutation, Confirm, BranchInv
    <3>3. o = "present"
      BY <1>0, <1>3, <1>4, <3>2, TruthfulReading
    <3>4. pc'[q] # "gitPush"
      BY <1>0, <2>4 DEF ConfirmAfterMutation, Confirm, Goto, TypeOK
    <3> QED
      BY <1>1, <2>1, <3>1, <3>2, <3>3, <3>4
  <2> QED
    BY <1>7, <2>2, <2>3, <2>4
<1>8. CASE GitPushRejected(q)
  <2>1. remote[d] = NoSha /\ remote[d] \notin {NoSha, ShaOf[req[q].id]}
    BY <1>0, <1>8 DEF GitPushRejected, BranchInv
  <2> QED
    BY <2>1
<1>9. CASE ProviderFails(q)
  <2>1. pc'[q] \in {"wait", "block"} /\ faults' # 0
    BY <1>0, <1>9, PushAssumption DEF ProviderFails, Goto, TypeOK, Fault
  <2> QED
    BY <2>1
<1>10. ASSUME NEW p \in Proc, Step(p), p # q PROVE pc'[q] = pc[q]
  BY <1>0, <1>10 DEF TypeOK, Step, PushStatus, PutPushIntent, MarkPushSkipped, PutRefused,
     PutFails, Acquire, LeaseHeld, ConfirmPush, PublishConfirm, Confirm, GitPush,
     GitPushRejected, ConfirmAfterMutation, ProviderFails, MarkPush, MarkFails, Release,
     Goto, Finish
<1>11. ASSUME Step(q), ~GitPush(q), ~ConfirmPush(q), ~PublishConfirm(q),
              ~ConfirmAfterMutation(q), ~GitPushRejected(q), ~ProviderFails(q)
       PROVE  FALSE
  BY <1>0, <1>2, <1>11 DEF TypeOK, Step, PushStatus, PutPushIntent, MarkPushSkipped, PutRefused,
     PutFails, Acquire, LeaseHeld, MarkPush, MarkFails, Release, Goto, Finish,
     LeasedPcs, ReadPcs, MarkPcs
<1>12. ASSUME NEW p \in Proc, Call(p) \/ Crash(p) PROVE pc'[q] = pc[q]
  BY <1>0, <1>12 DEF TypeOK, Call, Retry, Publish, Begin, Crash, Finish
<1>13. ASSUME NEW e \in Dests, LeaseExpires(e) \/ OthersWrite(e) PROVE pc'[q] = pc[q]
  BY <1>13 DEF LeaseExpires, OthersWrite
<1> QED
  BY <1>5, <1>6, <1>7, <1>8, <1>9, <1>10, <1>11, <1>12, <1>13 DEF Next, vars

(* While only AutoGit writes, a branch has named one commit at most.       *)
LEMMA HeldInductive ==
  ASSUME Dependable, IInv, LeaseInv, BranchInv, [Next]_vars, others' = 0, NEW d \in Dests
  PROVE  held'[d] = {remote'[d]} \ {NoSha}
<1> USE DEF IInv, TypeOK
<1>0. others = 0 /\ held[d] = {remote[d]} \ {NoSha}
  BY CountersGrow DEF BranchInv
<1>1. CASE UNCHANGED <<remote, held>>
  BY <1>0, <1>1
<1>2. ASSUME NEW p \in Proc, GitPush(p) PROVE held'[d] = {remote'[d]} \ {NoSha}
  <2>1. req[p].dest \in Dests /\ req[p].id \in Ids
    BY <1>2, StepHasRequest DEF Step
  <2>2. ShaOf[req[p].id] # NoSha
    BY <2>1, PushAssumption, PushNullAssumption
  <2>3. remote[req[p].dest] = NoSha
    BY <1>0, <1>2 DEF GitPush, BranchInv
  <2>4. CASE req[p].dest = d
    BY <1>0, <1>2, <2>2, <2>3, <2>4 DEF GitPush
  <2>5. CASE req[p].dest # d
    BY <1>0, <1>2, <2>1, <2>5 DEF GitPush
  <2> QED
    BY <2>4, <2>5
<1>3. ASSUME NEW p \in Proc, Step(p), ~GitPush(p) PROVE UNCHANGED <<remote, held>>
  BY <1>3 DEF Step, PushStatus, PutPushIntent, MarkPushSkipped, PutRefused, PutFails, Acquire,
     LeaseHeld, ConfirmPush, PublishConfirm, Confirm, GitPushRejected,
     ConfirmAfterMutation, ProviderFails, MarkPush, MarkFails, Release
<1>4. ASSUME NEW p \in Proc, Call(p) \/ Crash(p) PROVE UNCHANGED <<remote, held>>
  BY <1>4 DEF Call, Retry, Publish, Crash
<1>5. ASSUME NEW e \in Dests, LeaseExpires(e) PROVE UNCHANGED <<remote, held>>
  BY <1>5 DEF LeaseExpires
<1>6. ASSUME NEW e \in Dests, OthersWrite(e) PROVE FALSE
  BY <1>6, PushAssumption DEF OthersWrite
<1> QED
  BY <1>1, <1>2, <1>3, <1>4, <1>5, <1>6 DEF Next, vars

(* A job is blocked, while nothing failed, only over a foreign commit.     *)
LEMMA BlockedInductive ==
  ASSUME Dependable, IInv, LeaseInv, BranchInv, [Next]_vars, others' = 0, faults' = 0,
         NEW i \in Ids, jobs'[i] # NoJob, jobs'[i].state = "BLOCKED"
  PROVE  remote'[jobs'[i].dest] \notin {NoSha, ShaOf[i]}
<1>0. TypeOK /\ others = 0 /\ faults = 0
  BY CountersGrow DEF IInv
<1>1. CASE jobs'[i] = jobs[i]
  <2>1. jobs[i].dest \in Dests
    BY <1>0, <1>1 DEF TypeOK, Jobs
  <2>2. remote[jobs[i].dest] \notin {NoSha, ShaOf[i]}
    BY <1>0, <1>1 DEF BranchInv
  <2> QED
    BY <1>1, <2>1, <2>2, BranchChange
<1>2. ASSUME NEW p \in Proc, MarkPush(p), jobs'[i] # jobs[i]
      PROVE  remote'[jobs'[i].dest] \notin {NoSha, ShaOf[i]}
  <2>0. Step(p)
    BY <1>2 DEF Step
  <2>1. PICK s \in PushStates : PutPushJob(p, s) /\ (s = "BLOCKED" => pc[p] = "block")
    BY <1>2 DEF MarkPush, MarkPcs, PushStates
  <2>2. req[p] \in Requests
    BY <1>0, <2>0, StepHasRequest
  <2>3. i = req[p].id /\ s = "BLOCKED"
    BY <1>0, <1>2, <2>1, <2>2, PutKeepsIdentity
  <2>4. remote[req[p].dest] \notin {NoSha, ShaOf[i]} /\ remote' = remote
    BY <1>0, <1>2, <2>1, <2>3 DEF MarkPush, BranchInv
  <2>5. jobs[i] # NoJob /\ jobs[i].dest = req[p].dest
    BY <2>1, <2>3 DEF IInv, EvidenceInv, HasIntent, ContactPcs, LeasedPcs, MarkPcs
  <2> QED
    BY <1>0, <2>4, <2>5, RowsKeepIdentity
<1>3. ASSUME NEW p \in Proc, PutPushIntent(p) \/ MarkPushSkipped(p) PROVE jobs'[i] = jobs[i]
  <2>0. Step(p)
    BY <1>3 DEF Step
  <2>1. PICK s \in PushStates : PutPushJob(p, s) /\ s # "BLOCKED"
    BY <1>3 DEF PutPushIntent, MarkPushSkipped, PushStates
  <2> QED
    BY <1>0, <2>0, <2>1, StepHasRequest, PutKeepsIdentity
<1>4. ASSUME NEW p \in Proc, Step(p), ~MarkPush(p), ~PutPushIntent(p), ~MarkPushSkipped(p)
      PROVE  UNCHANGED jobs
  BY <1>4 DEF Step, PushStatus, PutRefused, PutFails, Acquire, LeaseHeld, ConfirmPush,
     PublishConfirm, Confirm, GitPush, GitPushRejected, ConfirmAfterMutation, ProviderFails,
     MarkFails, Release
<1>5. ASSUME NEW p \in Proc, Call(p) \/ Crash(p) PROVE UNCHANGED jobs
  BY <1>5 DEF Call, Retry, Publish, Crash
<1>6. ASSUME NEW d \in Dests, LeaseExpires(d) \/ OthersWrite(d) PROVE UNCHANGED jobs
  BY <1>6 DEF LeaseExpires, OthersWrite
<1> QED
  BY <1>1, <1>2, <1>3, <1>4, <1>5, <1>6 DEF Next, vars

(* BranchInv is kept under dependable leases and readings.                 *)
LEMMA BranchInductive ==
  ASSUME Dependable, IInv, LeaseInv, BranchInv, [Next]_vars
  PROVE  BranchInv'
<1> SUFFICES ASSUME others' = 0
             PROVE  /\ \A d \in Dests : held'[d] = {remote'[d]} \ {NoSha}
                    /\ \A p \in Proc : pc'[p] = "gitPush" => remote'[req'[p].dest] = NoSha
                    /\ \A p \in Proc : pc'[p] \in {"pubPost", "post"} =>
                         remote'[req'[p].dest] = ShaOf[req'[p].id]
                    /\ faults' = 0 => \A p \in Proc : pc'[p] = "block" =>
                         remote'[req'[p].dest] \notin {NoSha, ShaOf[req'[p].id]}
                    /\ faults' = 0 => \A i \in Ids : jobs'[i] # NoJob /\ jobs'[i].state = "BLOCKED" =>
                         remote'[jobs'[i].dest] \notin {NoSha, ShaOf[i]}
  BY DEF BranchInv
<1>1. \A d \in Dests : held'[d] = {remote'[d]} \ {NoSha}
  BY HeldInductive
<1>2. ASSUME NEW p \in Proc
      PROVE  /\ pc'[p] = "gitPush" => remote'[req'[p].dest] = NoSha
             /\ pc'[p] \in {"pubPost", "post"} => remote'[req'[p].dest] = ShaOf[req'[p].id]
             /\ pc'[p] = "block" /\ faults' = 0 =>
                  remote'[req'[p].dest] \notin {NoSha, ShaOf[req'[p].id]}
  BY ReliesOnBranch
<1>3. faults' = 0 => \A i \in Ids : jobs'[i] # NoJob /\ jobs'[i].state = "BLOCKED" =>
                       remote'[jobs'[i].dest] \notin {NoSha, ShaOf[i]}
  BY BlockedInductive
<1> QED
  BY <1>1, <1>2, <1>3

-----------------------------------------------------------------------------
(* With leases that outlast their live holders and truthful readings, the  *)
(* section of a destination is exclusive and BranchInv holds.              *)
THEOREM BranchInvariance ==
  ASSUME Dependable
  PROVE  Spec => [](IInv /\ LeaseInv /\ BranchInv)
<1>1. Init => LeaseInv /\ BranchInv
  BY DEF Init, LeaseInv, Inside, BranchInv, LeasedPcs, ReadPcs, MarkPcs
<1>2. IInv /\ LeaseInv /\ BranchInv /\ [Next]_vars => (LeaseInv /\ BranchInv)'
  <2> SUFFICES ASSUME IInv, LeaseInv, BranchInv, [Next]_vars PROVE LeaseInv' /\ BranchInv'
    OBVIOUS
  <2>1. LeaseInv'
    BY LeaseInductive DEF IInv, Dependable
  <2>2. BranchInv'
    BY BranchInductive
  <2> QED
    BY <2>1, <2>2
<1> QED
  BY <1>1, <1>2, Invariance, PTL DEF Spec

(* As long as only AutoGit writes a branch, a push creates it and never    *)
(* moves it, although confirmation and push are several steps apart        *)
(* (Push and safe.go: "A missing ref permits one exact-SHA push").         *)
THEOREM NeverMovesABranch ==
  ASSUME Dependable
  PROVE  Spec => PushOnlyCreates
<1>1. IInv /\ LeaseInv /\ BranchInv /\ [Next]_vars =>
        [\A d \in Dests : remote'[d] # remote[d] /\ others' = 0 => remote[d] = NoSha]_vars
  BY BranchChange
<1> QED
  BY <1>1, BranchInvariance, PTL DEF Spec, PushOnlyCreates

(* A push that arrived, with nothing failing and nobody else writing, is   *)
(* not recorded BLOCKED, unless its name is mistaken for "not found".      *)
THEOREM NoFalseBlock ==
  ASSUME Dependable
  PROVE  Spec => []BlockedWasNotPushed
<1>1. IInv /\ BranchInv => BlockedWasNotPushed
  <2> SUFFICES ASSUME IInv, BranchInv, faults = 0, others = 0, NEW i \in Ids,
                      jobs[i] # NoJob, jobs[i].state = "BLOCKED"
               PROVE  ShaOf[i] \notin held[jobs[i].dest]
    BY DEF BlockedWasNotPushed
  <2>1. jobs[i].dest \in Dests
    BY DEF IInv, TypeOK, Jobs
  <2>2. remote[jobs[i].dest] # ShaOf[i] /\ held[jobs[i].dest] = {remote[jobs[i].dest]} \ {NoSha}
    BY <2>1 DEF BranchInv
  <2> QED
    BY <2>2
<1> QED
  BY <1>1, BranchInvariance, PTL
====
