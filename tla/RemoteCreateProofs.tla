------------------------- MODULE RemoteCreateProofs -------------------------
(***************************************************************************)
(* Proofs about RemoteCreate, for any sets of processes, job ids and       *)
(* destinations and any bounds.                                            *)
(*                                                                         *)
(* EvidenceInv says what a call still knows, at each point of Create, of   *)
(* its row, the hosted repository and the alias it looked at earlier.  It  *)
(* needs no lease: rows keep their identity, and what has been hosted and  *)
(* bound (`shown`, `bound`) only grows.  CreateInv says what no other call *)
(* did meanwhile, which takes a lease that outlasts its holder.            *)
(***************************************************************************)
EXTENDS RemoteCreate, TLAPS

(* Once it has read or written its row, a call works on a row of its       *)
(* destination.                                                            *)
RowPcs == LeasedPcs \ {"getJob", "putJob", "release"}
MatchPcs == {"confirmKnown", "markCreated", "addRemote", "verifyRemote", "markAttached"}
BoundPcs == {"confirmLocal", "markAttached"}

EvidenceInv ==
  /\ \A p \in Proc : pc[p] \in RowPcs => Row(p) # NoJob /\ Row(p).dest = req[p].dest
  /\ \A p \in Proc : pc[p] \in MatchPcs => req[p].dest \in shown
  /\ \A p \in Proc : pc[p] \in BoundPcs => req[p].dest \in bound
  /\ \A i \in Ids : jobs[i] # NoJob /\ jobs[i].hosted => jobs[i].dest \in shown
  /\ \A d \in Dests : hosted[d] = "match" => d \in shown
  /\ binding \in Dests => binding \in bound

IInv == TypeOK /\ EvidenceInv /\ AttachedIsReal /\ CreatedIsOnRecord

(* The lease of a destination names the one call inside its section.       *)
Inside(p, d) == pc[p] \in LeasedPcs /\ req[p].dest = d

LeaseInv ==
  /\ \A p \in Proc : pc[p] \in LeasedPcs =>
       lease[req[p].dest] = [owner |-> req[p].id, expired |-> FALSE]
  /\ \A d \in Dests, p, q \in Proc : Inside(p, d) /\ Inside(q, d) => p = q

(* What AutoGit created exists; a call about to create has not created,    *)
(* and the row it is about to classify is open as GetJob left it.          *)
OpenPcs == {"localURL", "readJob"}

CreateInv ==
  /\ \A d \in Dests : creates[d] # 0 => hosted[d] # "absent"
  /\ \A p \in Proc : pc[p] \in OpenPcs => Row(p).state = "REMOTE_REQUESTED" \/ Row(p).hosted
  /\ NoSecondCreate

-----------------------------------------------------------------------------
(* A process that takes a step holds a request.                            *)
LEMMA StepHasRequest ==
  ASSUME TypeOK, NEW p \in Proc, Step(p)
  PROVE  pc[p] # "idle" /\ req[p] \in Requests /\ req[p].id \in Ids /\ req[p].dest \in Dests
<1>1. pc[p] # "idle"
  BY DEF Step, Acquire, LeaseHeld, GetJob, PutJob, LocalURL, ConfirmLocal, ReadJob,
     ConfirmHosted, HostedCreate, AddRemote, VerifyRemote, MarkJob, PutRefused, StepFails,
     Release, MarkPcs
<1>2. req[p] \in Requests
  BY <1>1 DEF TypeOK
<1> QED
  BY <1>1, <1>2 DEF Requests

(* PutRemoteJob writes one row, of the request's destination: its state is *)
(* replaced, a hosted identity on record is kept.                          *)
LEMMA PutWritesRow ==
  ASSUME TypeOK, NEW p \in Proc, req[p] \in Requests,
         NEW s \in RemoteStates, NEW h \in BOOLEAN, Put(p, s, h)
  PROVE  /\ jobs' \in [Ids -> Jobs \cup {NoJob}]
         /\ \A i \in Ids : i # req[p].id => jobs'[i] = jobs[i]
         /\ jobs'[req[p].id] # NoJob
         /\ jobs'[req[p].id].dest = req[p].dest
         /\ jobs'[req[p].id].state = s
         /\ jobs'[req[p].id].hosted <=> h \/ (Row(p) # NoJob /\ Row(p).hosted)
         /\ Row(p) # NoJob => Row(p).dest = req[p].dest
<1>1. req[p].id \in Ids /\ req[p].dest \in Dests
  BY DEF Requests
<1> DEFINE k == [dest |-> req[p].dest, hosted |-> h \/ (Row(p) # NoJob /\ Row(p).hosted), state |-> s]
<1>2. (h \/ (Row(p) # NoJob /\ Row(p).hosted)) \in BOOLEAN
  OBVIOUS
<1>3. k \in Jobs
  BY <1>1, <1>2 DEF Jobs
<1>4. jobs' = [jobs EXCEPT ![req[p].id] = k] /\ (Row(p) # NoJob => Row(p).dest = req[p].dest)
  BY DEF Put
<1>5. k # NoJob
  BY <1>3, RemoteNullAssumption
<1>6. k.dest = req[p].dest /\ k.state = s /\ k.hosted = (h \/ (Row(p) # NoJob /\ Row(p).hosted))
  BY Zenon
<1> HIDE DEF k
<1>7. jobs'[req[p].id] = k /\ \A i \in Ids : i # req[p].id => jobs'[i] = jobs[i]
  BY <1>1, <1>4 DEF TypeOK
<1>8. jobs' \in [Ids -> Jobs \cup {NoJob}]
  BY <1>1, <1>3, <1>4 DEF TypeOK
<1> QED
  BY <1>4, <1>5, <1>6, <1>7, <1>8

(* The rows are written by PutJob and MarkJob alone, and by no other actor.*)
LEMMA RowWriters ==
  ASSUME TypeOK, [Next]_vars
  PROVE  \/ UNCHANGED jobs
         \/ \E p \in Proc, s \in RemoteStates, h \in BOOLEAN :
              /\ Step(p) /\ Put(p, s, h) /\ UNCHANGED <<hosted, binding, creates, bound, shown>>
              /\ \/ pc[p] = "putJob" /\ s = "REMOTE_REQUESTED" /\ ~h
                 \/ pc[p] = "markCreated" /\ s = "REMOTE_CREATED" /\ h
                 \/ pc[p] = "markAttached" /\ s = "REMOTE_ATTACHED" /\ h
                 \/ pc[p] = "markFailed" /\ s = "REMOTE_FAILED" /\ ~h
<1>1. ASSUME NEW p \in Proc, Step(p), ~PutJob(p), ~MarkJob(p) PROVE UNCHANGED jobs
  BY <1>1 DEF Step, Acquire, LeaseHeld, GetJob, LocalURL, ConfirmLocal, ReadJob,
     ConfirmHosted, HostedCreate, AddRemote, VerifyRemote, PutRefused, StepFails, Release
<1>2. ASSUME NEW p \in Proc, Crash(p) \/ \E i \in Ids, d \in Dests : Call(p, i, d)
      PROVE  UNCHANGED jobs
  BY <1>2 DEF Crash, Call
<1>3. ASSUME OthersAct \/ \E d \in Dests : LeaseExpires(d) PROVE UNCHANGED jobs
  BY <1>3 DEF OthersAct, LeaseExpires
<1>4. ASSUME NEW p \in Proc, PutJob(p)
      PROVE  /\ Step(p) /\ Put(p, "REMOTE_REQUESTED", FALSE) /\ pc[p] = "putJob"
             /\ UNCHANGED <<hosted, binding, creates, bound, shown>>
  BY <1>4 DEF PutJob, Step, history
<1>5. ASSUME NEW p \in Proc, MarkJob(p)
      PROVE  /\ Step(p) /\ UNCHANGED <<hosted, binding, creates, bound, shown>>
             /\ \/ Put(p, "REMOTE_CREATED", TRUE) /\ pc[p] = "markCreated"
                \/ Put(p, "REMOTE_ATTACHED", TRUE) /\ pc[p] = "markAttached"
                \/ Put(p, "REMOTE_FAILED", FALSE) /\ pc[p] = "markFailed"
  BY <1>5 DEF MarkJob, Step, history
<1>6. RemoteStates = {"REMOTE_REQUESTED", "REMOTE_CREATED", "REMOTE_ATTACHED", "REMOTE_FAILED"}
  BY DEF RemoteStates
<1> QED
  BY <1>1, <1>2, <1>3, <1>4, <1>5, <1>6 DEF Next, vars

(* A row is never removed and never changes its destination, and its       *)
(* hosted identity is never cleared (PutRemoteJob).                        *)
LEMMA RowsKeepIdentity ==
  ASSUME TypeOK, [Next]_vars, NEW i \in Ids, jobs[i] # NoJob
  PROVE  jobs'[i] # NoJob /\ jobs'[i].dest = jobs[i].dest /\ (jobs[i].hosted => jobs'[i].hosted)
<1>1. ASSUME NEW p \in Proc, NEW s \in RemoteStates, NEW h \in BOOLEAN, Step(p), Put(p, s, h)
      PROVE  jobs'[i] # NoJob /\ jobs'[i].dest = jobs[i].dest /\ (jobs[i].hosted => jobs'[i].hosted)
  BY <1>1, StepHasRequest, PutWritesRow DEF Row
<1> QED
  BY <1>1, RowWriters

(* What has been hosted and what the alias has been bound to stays on      *)
(* record, and what is hosted and bound now is.                            *)
LEMMA WorldKept ==
  ASSUME IInv, [Next]_vars
  PROVE  /\ shown \subseteq shown' /\ bound \subseteq bound'
         /\ \A d \in Dests : hosted'[d] = "match" => d \in shown'
         /\ binding' \in Dests => binding' \in bound'
<1> USE DEF IInv, TypeOK, EvidenceInv
<1>1. ASSUME NEW p \in Proc, HostedCreate(p)
      PROVE  /\ shown \subseteq shown' /\ UNCHANGED <<binding, bound>>
             /\ \A d \in Dests : hosted'[d] = "match" => d \in shown'
  BY <1>1, StepHasRequest DEF HostedCreate, Step
<1>2. ASSUME NEW p \in Proc, AddRemote(p)
      PROVE  /\ UNCHANGED <<hosted, shown>> /\ bound \subseteq bound'
             /\ binding' \in Dests => binding' \in bound'
  BY <1>2 DEF AddRemote
<1>3. ASSUME OthersAct
      PROVE  /\ shown \subseteq shown' /\ bound \subseteq bound'
             /\ \A d \in Dests : hosted'[d] = "match" => d \in shown'
             /\ binding' \in Dests => binding' \in bound'
  BY <1>3 DEF OthersAct
<1>4. ASSUME NEW p \in Proc, Step(p), ~HostedCreate(p), ~AddRemote(p)
      PROVE  UNCHANGED <<hosted, binding, bound, shown>>
  BY <1>4 DEF Step, Acquire, LeaseHeld, GetJob, PutJob, LocalURL, ConfirmLocal, ReadJob,
     ConfirmHosted, VerifyRemote, MarkJob, PutRefused, StepFails, Release, history
<1>5. ASSUME NEW p \in Proc, Crash(p) \/ \E i \in Ids, d \in Dests : Call(p, i, d)
      PROVE  UNCHANGED <<hosted, binding, bound, shown>>
  BY <1>5 DEF Crash, Call, history
<1>6. ASSUME NEW d \in Dests, LeaseExpires(d) PROVE UNCHANGED <<hosted, binding, bound, shown>>
  BY <1>6 DEF LeaseExpires, history
<1>7. CASE UNCHANGED vars
  BY <1>7 DEF vars, history
<1> QED
  BY <1>1, <1>2, <1>3, <1>4, <1>5, <1>6, <1>7 DEF Next

(* Each process moves by its own steps only.                               *)
LEMMA OwnSteps ==
  ASSUME TypeOK, [Next]_vars, NEW q \in Proc, pc'[q] # pc[q] \/ req'[q] # req[q]
  PROVE  Step(q) \/ pc'[q] \in {"idle", "acquire"}
<1> USE DEF TypeOK
<1>1. ASSUME NEW p \in Proc, Step(p), p # q PROVE pc'[q] = pc[q] /\ req'[q] = req[q]
  BY <1>1 DEF Step, Acquire, LeaseHeld, GetJob, PutJob, LocalURL, ConfirmLocal, ReadJob,
     ConfirmHosted, HostedCreate, AddRemote, VerifyRemote, MarkJob, PutRefused, StepFails,
     Release, Goto, Finish
<1>2. ASSUME NEW p \in Proc, Crash(p) \/ \E i \in Ids, d \in Dests : Call(p, i, d)
      PROVE  (pc'[q] = pc[q] /\ req'[q] = req[q]) \/ pc'[q] \in {"idle", "acquire"}
  BY <1>2 DEF Crash, Call, Finish
<1>3. ASSUME OthersAct \/ \E d \in Dests : LeaseExpires(d) PROVE UNCHANGED <<pc, req>>
  BY <1>3 DEF OthersAct, LeaseExpires
<1> QED
  BY <1>1, <1>2, <1>3 DEF Next, vars

(* The types are kept by every step (the rows, the leases and the calls of *)
(* Create).                                                                *)
LEMMA TypeInductive == IInv /\ [Next]_vars => TypeOK'
<1> SUFFICES ASSUME IInv, [Next]_vars PROVE TypeOK'
  OBVIOUS
<1> USE RemoteAssumption, RemoteNullAssumption
<1> USE DEF IInv, TypeOK
<1>1. jobs' \in [Ids -> Jobs \cup {NoJob}]
  BY RowWriters, StepHasRequest, PutWritesRow
<1>2. ASSUME NEW p \in Proc, Step(p)
      PROVE  /\ pc' \in [Proc -> Pcs] /\ req' \in [Proc -> Requests \cup {NoRun}]
             /\ \A q \in Proc : req'[q] = NoRun <=> pc'[q] = "idle"
  <2>1. pc[p] # "idle" /\ req[p] \in Requests
    BY <1>2, StepHasRequest
  <2>2. ASSUME NEW l \in LeasedPcs, Goto(p, l)
        PROVE  /\ pc' \in [Proc -> Pcs] /\ req' \in [Proc -> Requests \cup {NoRun}]
               /\ \A q \in Proc : req'[q] = NoRun <=> pc'[q] = "idle"
    BY <2>1, <2>2 DEF Goto, Pcs, LeasedPcs, MarkPcs
  <2>3. ASSUME Finish(p)
        PROVE  /\ pc' \in [Proc -> Pcs] /\ req' \in [Proc -> Requests \cup {NoRun}]
               /\ \A q \in Proc : req'[q] = NoRun <=> pc'[q] = "idle"
    BY <2>3 DEF Finish, Pcs
  <2>4. Finish(p) \/ \E l \in LeasedPcs : Goto(p, l)
    BY <1>2 DEF Step, Acquire, LeaseHeld, GetJob, PutJob, LocalURL, ConfirmLocal, ReadJob,
       ConfirmHosted, HostedCreate, AddRemote, VerifyRemote, MarkJob, PutRefused, StepFails,
       Release, LeasedPcs, MarkPcs
  <2> QED
    BY <2>2, <2>3, <2>4
<1>3. ASSUME NEW p \in Proc, Step(p)
      PROVE  /\ hosted' \in [Dests -> {"absent", "match", "mismatch"}]
             /\ binding' \in Dests \cup {NoRemote, Foreign} /\ bound' \in SUBSET Dests
             /\ shown' \in SUBSET Dests
  <2>1. CASE HostedCreate(p) \/ AddRemote(p)
    BY <1>3, <2>1, StepHasRequest DEF HostedCreate, AddRemote
  <2>2. CASE ~HostedCreate(p) /\ ~AddRemote(p)
    BY <1>3, <2>2 DEF Step, Acquire, LeaseHeld, GetJob, PutJob, LocalURL, ConfirmLocal,
       ReadJob, ConfirmHosted, VerifyRemote, MarkJob, PutRefused, StepFails, Release, history
  <2> QED
    BY <2>1, <2>2
<1>4. ASSUME NEW p \in Proc, Step(p) PROVE lease' \in [Dests -> Leases \cup {NoLease}]
  <2>1. CASE Acquire(p)
    <3>1. req[p].dest \in Dests /\ [owner |-> req[p].id, expired |-> FALSE] \in Leases
      BY <1>4, StepHasRequest DEF Leases
    <3> QED
      BY <2>1, <3>1 DEF Acquire
  <2>2. CASE Release(p)
    BY <2>2, <1>4, StepHasRequest DEF Release
  <2>3. CASE ~Acquire(p) /\ ~Release(p)
    BY <1>4, <2>3 DEF Step, LeaseHeld, GetJob, PutJob, LocalURL, ConfirmLocal, ReadJob,
       ConfirmHosted, HostedCreate, AddRemote, VerifyRemote, MarkJob, PutRefused, StepFails
  <2> QED
    BY <2>1, <2>2, <2>3
<1>5. ASSUME NEW p \in Proc, Step(p) PROVE creates' \in [Dests -> Nat]
  <2>1. CASE HostedCreate(p)
    BY <1>5, <2>1, StepHasRequest DEF HostedCreate
  <2>2. CASE ~HostedCreate(p)
    BY <1>5, <2>2 DEF Step, Acquire, LeaseHeld, GetJob, PutJob, LocalURL, ConfirmLocal, ReadJob,
       ConfirmHosted, AddRemote, VerifyRemote, MarkJob, PutRefused, StepFails, Release, history
  <2> QED
    BY <2>1, <2>2
<1>6. ASSUME NEW p \in Proc, Step(p) PROVE others' \in 0..MaxOther /\ faults' \in 0..MaxFaults
  <2>1. others' = others /\ (faults' = faults \/ Fault)
    BY <1>6 DEF Step, Acquire, LeaseHeld, GetJob, PutJob, LocalURL, ConfirmLocal, ReadJob,
       ConfirmHosted, HostedCreate, AddRemote, VerifyRemote, MarkJob, PutRefused, StepFails,
       Release
  <2> QED
    BY <2>1 DEF Fault
<1>7. ASSUME NEW p \in Proc, Step(p) PROVE TypeOK'
  BY <1>1, <1>2, <1>3, <1>4, <1>5, <1>6, <1>7
<1>8. ASSUME NEW p \in Proc, Crash(p) PROVE TypeOK'
  BY <1>8 DEF Crash, Fault, Finish, Pcs, history
<1>9. ASSUME NEW p \in Proc, NEW i \in Ids, NEW d \in Dests, Call(p, i, d) PROVE TypeOK'
  <2>1. [id |-> i, dest |-> d] \in Requests
    BY DEF Requests
  <2> QED
    BY <1>9, <2>1 DEF Call, Pcs, history
<1>10. CASE OthersAct
  BY <1>10 DEF OthersAct
<1>11. ASSUME NEW d \in Dests, LeaseExpires(d) PROVE TypeOK'
  BY <1>11 DEF LeaseExpires, Leases, history
<1>12. CASE UNCHANGED vars
  BY <1>12 DEF vars, history
<1> QED
  BY <1>7, <1>8, <1>9, <1>10, <1>11, <1>12 DEF Next

(* A call past GetJob and PutJob works on a row of its destination.        *)
LEMMA RowInductive ==
  ASSUME IInv, [Next]_vars, NEW q \in Proc, pc'[q] \in RowPcs
  PROVE  jobs'[req'[q].id] # NoJob /\ jobs'[req'[q].id].dest = req'[q].dest
<1>0. TypeOK
  BY DEF IInv
<1>1. CASE pc[q] \in RowPcs /\ req'[q] = req[q]
  <2>1. req[q].id \in Ids
    BY <1>0, <1>1 DEF TypeOK, RowPcs, LeasedPcs, MarkPcs, Requests
  <2> QED
    BY <1>0, <1>1, <2>1, RowsKeepIdentity DEF IInv, EvidenceInv, Row
<1>2. CASE PutJob(q)
  <2>1. Step(q)
    BY <1>2 DEF Step
  <2> QED
    BY <1>0, <1>2, <2>1, StepHasRequest, PutWritesRow DEF PutJob, Goto, RemoteStates
<1>3. CASE GetJob(q)
  <2>1. Row(q) # NoJob /\ Row(q).dest = req[q].dest /\ UNCHANGED <<jobs, req>>
    BY <1>0, <1>3 DEF TypeOK, GetJob, Goto, RowPcs, LeasedPcs, MarkPcs
  <2> QED
    BY <2>1 DEF Row
<1>4. CASE Step(q) /\ ~PutJob(q) /\ ~GetJob(q)
  <2>1. pc[q] \in RowPcs /\ req'[q] = req[q]
    BY <1>0, <1>4 DEF TypeOK, Step, Acquire, LeaseHeld, LocalURL, ConfirmLocal, ReadJob,
       ConfirmHosted, HostedCreate, AddRemote, VerifyRemote, MarkJob, PutRefused, StepFails,
       Release, Goto, Finish, RowPcs, LeasedPcs, MarkPcs
  <2> QED
    BY <1>1, <2>1
<1> QED
  BY <1>0, <1>1, <1>2, <1>3, <1>4, OwnSteps DEF RowPcs, LeasedPcs, MarkPcs

(* A call that goes on from a matching repository saw it match, or found   *)
(* its identity in the row.                                                *)
LEMMA MatchInductive ==
  ASSUME IInv, [Next]_vars, NEW q \in Proc, pc'[q] \in MatchPcs
  PROVE  req'[q].dest \in shown'
<1>0. TypeOK
  BY DEF IInv
<1>1. CASE req'[q] = req[q] /\ req[q].dest \in shown
  BY <1>1, WorldKept
<1>2. CASE pc[q] \in MatchPcs /\ req'[q] = req[q]
  <2>1. req[q].dest \in shown
    BY <1>2 DEF IInv, EvidenceInv
  <2> QED
    BY <1>1, <1>2, <2>1
<1>3. CASE HostedCreate(q)
  <2>1. Step(q)
    BY <1>3 DEF Step
  <2> QED
    BY <1>0, <1>3, <2>1, StepHasRequest DEF TypeOK, HostedCreate, Goto, MatchPcs
<1>4. CASE ReadJob(q)
  <2>1. Step(q)
    BY <1>4 DEF Step
  <2>2. Row(q) # NoJob /\ Row(q).hosted /\ req' = req
    BY <1>0, <1>4 DEF TypeOK, ReadJob, Goto, MatchPcs
  <2>3. Row(q).dest = req[q].dest
    BY <1>4 DEF IInv, EvidenceInv, ReadJob, RowPcs, LeasedPcs, MarkPcs
  <2>4. req[q].id \in Ids /\ req[q].dest \in Dests
    BY <1>0, <2>1, StepHasRequest
  <2>5. req[q].dest \in shown
    BY <2>2, <2>3, <2>4 DEF IInv, EvidenceInv, Row
  <2> QED
    BY <1>1, <2>2, <2>4, <2>5
<1>5. CASE ConfirmHosted(q)
  <2>1. Step(q)
    BY <1>5 DEF Step
  <2>2. req[q].dest \in Dests /\ hosted[req[q].dest] \in {"absent", "match", "mismatch"}
    BY <1>0, <2>1, StepHasRequest DEF TypeOK
  <2>3. CASE hosted[req[q].dest] = "match"
    BY <1>1, <1>5, <2>2, <2>3 DEF ConfirmHosted, Goto, IInv, EvidenceInv
  <2>4. CASE pc[q] = "confirmKnown"
    BY <1>2, <1>5, <2>4 DEF ConfirmHosted, Goto, MatchPcs
  <2>5. CASE hosted[req[q].dest] # "match" /\ pc[q] # "confirmKnown"
    BY <1>0, <1>5, <2>5 DEF TypeOK, ConfirmHosted, Goto, MatchPcs
  <2> QED
    BY <2>3, <2>4, <2>5
<1>6. CASE ConfirmLocal(q)
  <2>1. Step(q)
    BY <1>6 DEF Step
  <2>2. hosted[req[q].dest] = "match" /\ req' = req
    BY <1>0, <1>6 DEF TypeOK, ConfirmLocal, Goto, MatchPcs
  <2>3. req[q].dest \in shown
    BY <1>0, <2>1, <2>2, StepHasRequest DEF IInv, EvidenceInv
  <2> QED
    BY <1>1, <2>2, <2>3
<1>7. CASE Step(q) /\ ~HostedCreate(q) /\ ~ReadJob(q) /\ ~ConfirmHosted(q) /\ ~ConfirmLocal(q)
  <2>1. pc[q] \in MatchPcs /\ req'[q] = req[q]
    <3>1. CASE Acquire(q) \/ LeaseHeld(q) \/ GetJob(q) \/ PutJob(q) \/ LocalURL(q)
      BY <1>0, <3>1 DEF TypeOK, Acquire, LeaseHeld, GetJob, PutJob, LocalURL, Goto, Finish, MatchPcs
    <3>2. CASE AddRemote(q) \/ VerifyRemote(q) \/ MarkJob(q)
      BY <1>0, <3>2 DEF TypeOK, AddRemote, VerifyRemote, MarkJob, Goto, Finish, MatchPcs, MarkPcs
    <3>3. CASE PutRefused(q) \/ StepFails(q) \/ Release(q)
      BY <1>0, <3>3 DEF TypeOK, PutRefused, StepFails, Release, Goto, Finish, MatchPcs
    <3> QED
      BY <1>7, <3>1, <3>2, <3>3 DEF Step
  <2> QED
    BY <1>2, <2>1
<1> QED
  BY <1>0, <1>2, <1>3, <1>4, <1>5, <1>6, <1>7, OwnSteps DEF MatchPcs

(* A call about to record the attachment saw the alias bound to its        *)
(* destination.                                                            *)
LEMMA BoundInductive ==
  ASSUME IInv, [Next]_vars, NEW q \in Proc, pc'[q] \in BoundPcs
  PROVE  req'[q].dest \in bound'
<1>0. TypeOK /\ bound \subseteq bound'
  BY WorldKept DEF IInv
<1>1. CASE pc[q] \in BoundPcs /\ req'[q] = req[q]
  BY <1>0, <1>1 DEF IInv, EvidenceInv
<1>2. CASE LocalURL(q) \/ VerifyRemote(q)
  <2>1. Step(q)
    BY <1>2 DEF Step
  <2>2. binding = req[q].dest /\ req' = req
    BY <1>0, <1>2 DEF TypeOK, LocalURL, VerifyRemote, Goto, BoundPcs
  <2>3. req[q].dest \in Dests
    BY <1>0, <2>1, StepHasRequest
  <2> QED
    BY <1>0, <2>2, <2>3 DEF IInv, EvidenceInv
<1>3. CASE Step(q) /\ ~LocalURL(q) /\ ~VerifyRemote(q)
  <2>1. pc[q] \in BoundPcs /\ req'[q] = req[q]
    <3>1. CASE Acquire(q) \/ LeaseHeld(q) \/ GetJob(q) \/ PutJob(q)
      BY <1>0, <3>1 DEF TypeOK, Acquire, LeaseHeld, GetJob, PutJob, Goto, Finish, BoundPcs
    <3>2. CASE ConfirmLocal(q) \/ ReadJob(q) \/ ConfirmHosted(q) \/ HostedCreate(q)
      BY <1>0, <3>2 DEF TypeOK, ConfirmLocal, ReadJob, ConfirmHosted, HostedCreate, Goto, Finish,
         BoundPcs
    <3>3. CASE AddRemote(q) \/ MarkJob(q) \/ PutRefused(q) \/ StepFails(q) \/ Release(q)
      BY <1>0, <3>3 DEF TypeOK, AddRemote, MarkJob, PutRefused, StepFails, Release, Goto, Finish,
         BoundPcs, MarkPcs
    <3> QED
      BY <1>3, <3>1, <3>2, <3>3 DEF Step
  <2> QED
    BY <1>1, <2>1
<1> QED
  BY <1>0, <1>1, <1>2, <1>3, OwnSteps DEF BoundPcs

(* A hosted identity enters a row of what has matched, and            *)
(* REMOTE_ATTACHED only once the alias was bound as well (PutRemoteJob     *)
(* from the three marks of Create).                                        *)
LEMMA RowEvidenceInductive ==
  ASSUME IInv, [Next]_vars, NEW i \in Ids, jobs'[i] # NoJob
  PROVE  /\ jobs'[i].hosted => jobs'[i].dest \in shown'
         /\ jobs'[i].state = "REMOTE_ATTACHED" =>
              jobs'[i].hosted /\ jobs'[i].dest \in bound'
<1>0. TypeOK
  BY DEF IInv
<1>1. CASE jobs'[i] = jobs[i]
  <2>2. /\ jobs[i].hosted => jobs[i].dest \in shown
        /\ jobs[i].state = "REMOTE_ATTACHED" => jobs[i].hosted /\ jobs[i].dest \in bound
    BY <1>1 DEF IInv, EvidenceInv, AttachedIsReal
  <2>3. shown \subseteq shown' /\ bound \subseteq bound'
    BY WorldKept
  <2> QED
    BY <1>1, <2>2, <2>3
<1>2. ASSUME jobs'[i] # jobs[i],
             NEW p \in Proc, NEW s \in RemoteStates, NEW h \in BOOLEAN,
             Step(p), Put(p, s, h), UNCHANGED <<hosted, binding, creates, bound, shown>>,
             h => pc[p] \in MatchPcs,
             s = "REMOTE_ATTACHED" => h /\ pc[p] = "markAttached"
      PROVE  /\ jobs'[i].hosted => jobs'[i].dest \in shown'
             /\ jobs'[i].state = "REMOTE_ATTACHED" =>
                  jobs'[i].hosted /\ jobs'[i].dest \in bound'
  <2>1. req[p] \in Requests /\ req[p].id \in Ids
    BY <1>0, <1>2, StepHasRequest
  <2>2. i = req[p].id
    BY <1>0, <1>2, <2>1, PutWritesRow
  <2>3. /\ jobs'[i].dest = req[p].dest /\ jobs'[i].state = s
        /\ jobs'[i].hosted <=> h \/ (Row(p) # NoJob /\ Row(p).hosted)
        /\ Row(p) # NoJob => Row(p).dest = req[p].dest
    BY <1>0, <1>2, <2>1, <2>2, PutWritesRow
  <2>4. h => req[p].dest \in shown
    BY <1>2 DEF IInv, EvidenceInv
  <2>5. Row(p) # NoJob /\ Row(p).hosted => req[p].dest \in shown
    BY <2>1, <2>3 DEF IInv, EvidenceInv, Row
  <2>6. s = "REMOTE_ATTACHED" => h /\ req[p].dest \in bound
    BY <1>2 DEF IInv, EvidenceInv, BoundPcs
  <2>7. shown' = shown /\ bound' = bound
    BY <1>2
  <2> QED
    BY <2>3, <2>4, <2>5, <2>6, <2>7
<1> QED
  BY <1>0, <1>1, <1>2, RowWriters DEF MatchPcs

(* Create is called on the hosted service only after the job is on record. *)
LEMMA RecordInductive == IInv /\ [Next]_vars => CreatedIsOnRecord'
<1> SUFFICES ASSUME IInv, [Next]_vars, NEW d \in Dests, creates'[d] > 0
             PROVE  \E i \in Ids : jobs'[i] # NoJob /\ jobs'[i].dest = d
  BY DEF CreatedIsOnRecord
<1>0. TypeOK
  BY DEF IInv
<1>1. SUFFICES \E i \in Ids : jobs[i] # NoJob /\ jobs[i].dest = d
  BY <1>0, RowsKeepIdentity
<1>2. CASE creates'[d] = creates[d]
  BY <1>2 DEF IInv, CreatedIsOnRecord
<1>3. ASSUME NEW p \in Proc, HostedCreate(p), creates'[d] # creates[d]
      PROVE  \E i \in Ids : jobs[i] # NoJob /\ jobs[i].dest = d
  <2>1. req[p].id \in Ids /\ req[p].dest \in Dests
    BY <1>0, <1>3, StepHasRequest DEF Step
  <2>2. req[p].dest = d
    BY <1>0, <1>3, <2>1 DEF HostedCreate, TypeOK
  <2>3. Row(p) # NoJob /\ Row(p).dest = d
    BY <1>3, <2>2 DEF IInv, EvidenceInv, HostedCreate, RowPcs, LeasedPcs, MarkPcs
  <2> QED
    BY <2>1, <2>3 DEF Row
<1>4. ASSUME NEW p \in Proc, Step(p), ~HostedCreate(p) PROVE UNCHANGED creates
  BY <1>4 DEF Step, Acquire, LeaseHeld, GetJob, PutJob, LocalURL, ConfirmLocal, ReadJob,
     ConfirmHosted, AddRemote, VerifyRemote, MarkJob, PutRefused, StepFails, Release, history
<1>5. ASSUME NEW p \in Proc, Crash(p) \/ \E i \in Ids, e \in Dests : Call(p, i, e)
      PROVE  UNCHANGED creates
  BY <1>5 DEF Crash, Call, history
<1>6. ASSUME NEW e \in Dests, LeaseExpires(e) PROVE UNCHANGED creates
  BY <1>6 DEF LeaseExpires, history
<1>7. ASSUME OthersAct PROVE creates'[d] \in {0, creates[d]}
  BY <1>0, <1>7 DEF OthersAct, TypeOK
<1> QED
  BY <1>2, <1>3, <1>4, <1>5, <1>6, <1>7 DEF Next, vars, history

-----------------------------------------------------------------------------
(* IInv holds in every reachable state, however leases behave: types, what *)
(* each call may rely on, and what the durable rows claim.                 *)
THEOREM Invariance == Spec => []IInv
<1>1. Init => IInv
  BY RemoteAssumption, RemoteNullAssumption DEF Init, IInv, TypeOK, Pcs, EvidenceInv, RowPcs,
     LeasedPcs, MarkPcs, MatchPcs, BoundPcs, AttachedIsReal, CreatedIsOnRecord
<1>2. IInv /\ [Next]_vars => IInv'
  <2> SUFFICES ASSUME IInv, [Next]_vars PROVE IInv'
    OBVIOUS
  <2>1. TypeOK'
    BY TypeInductive
  <2>2. EvidenceInv'
    BY RowInductive, MatchInductive, BoundInductive, RowEvidenceInductive, WorldKept
       DEF EvidenceInv, Row
  <2>3. AttachedIsReal'
    BY RowEvidenceInductive DEF AttachedIsReal
  <2>4. CreatedIsOnRecord'
    BY RecordInductive
  <2> QED
    BY <2>1, <2>2, <2>3, <2>4 DEF IInv
<1> QED
  BY <1>1, <1>2, PTL DEF Spec

(* A job marked REMOTE_ATTACHED has its hosted repository, its recorded    *)
(* identity and its alias behind it (RepositoryTransaction.Create), for    *)
(* any number of calls, also under one id for different destinations, any  *)
(* user edits, crashes and overstayed leases.                              *)
THEOREM AttachedHasEvidence == Spec => []AttachedIsReal
  BY Invariance, PTL DEF IInv

(* No hosted repository AutoGit created is off the record: Create writes   *)
(* its job before it calls the provider.                                   *)
THEOREM CreatedStaysOnRecord == Spec => []CreatedIsOnRecord
  BY Invariance, PTL DEF IInv

-----------------------------------------------------------------------------
(* A call enters its section only by acquiring the lease.                  *)
LEMMA EntersByLease ==
  ASSUME TypeOK, [Next]_vars, NEW q \in Proc, pc'[q] \in LeasedPcs
  PROVE  req'[q] = req[q] /\ (pc[q] \in LeasedPcs \/ Acquire(q))
<1>1. CASE Step(q)
  BY <1>1 DEF TypeOK, Step, Acquire, LeaseHeld, GetJob, PutJob, LocalURL, ConfirmLocal, ReadJob,
     ConfirmHosted, HostedCreate, AddRemote, VerifyRemote, MarkJob, PutRefused, StepFails,
     Release, Goto, Finish, LeasedPcs, MarkPcs
<1>2. pc'[q] \notin {"idle", "acquire"}
  BY DEF LeasedPcs, MarkPcs
<1> QED
  BY <1>1, <1>2, OwnSteps

(* An unexpired lease is not free.                                         *)
LEMMA HeldIsNotFree ==
  ASSUME NEW i \in Ids, NEW d, lease[d] = [owner |-> i, expired |-> FALSE]
  PROVE  ~LeaseFree(d)
<1>1. [owner |-> i, expired |-> FALSE] \in Leases
  BY DEF Leases
<1>2. lease[d] # NoLease
  BY <1>1, RemoteNullAssumption
<1>3. [owner |-> i, expired |-> FALSE] \notin [owner : Ids, expired : {TRUE}]
  OBVIOUS
<1> QED
  BY <1>2, <1>3 DEF LeaseFree

(* A process is outside its section, or holds a request.                   *)
LEMMA InsideHasRequest ==
  ASSUME TypeOK, NEW q \in Proc, pc[q] \in LeasedPcs
  PROVE  req[q] \in Requests /\ req[q].id \in Ids /\ req[q].dest \in Dests
  BY DEF TypeOK, LeasedPcs, MarkPcs, Requests

(* Who is inside a section keeps its lease until it leaves.                *)
LEMMA LeaseKept ==
  ASSUME ~MayOverstay, TypeOK, LeaseInv, [Next]_vars, NEW q \in Proc,
         pc[q] \in LeasedPcs, pc'[q] \in LeasedPcs
  PROVE  lease'[req[q].dest] = lease[req[q].dest]
<1> DEFINE d == req[q].dest
<1>0. req[q].id \in Ids /\ d \in Dests
  BY InsideHasRequest
<1>1. lease[d] = [owner |-> req[q].id, expired |-> FALSE]
  BY DEF LeaseInv
<1>2. ASSUME NEW p \in Proc, Acquire(p) PROVE lease'[d] = lease[d]
  <2>1. ~LeaseFree(d)
    BY <1>0, <1>1, HeldIsNotFree
  <2>2. req[p].dest # d
    BY <1>2, <2>1 DEF Acquire
  <2> QED
    BY <1>0, <1>2, <2>2 DEF Acquire, TypeOK
<1>3. ASSUME NEW p \in Proc, Release(p) PROVE lease'[d] = lease[d]
  <2>1. p # q
    BY <1>3 DEF Release, Finish, TypeOK, LeasedPcs, MarkPcs
  <2>2. req[p].dest # d
    BY <1>0, <1>3, <2>1 DEF Release, LeaseInv, Inside, LeasedPcs
  <2> QED
    BY <1>0, <1>3, <2>2 DEF Release, TypeOK
<1>4. ASSUME NEW e \in Dests, LeaseExpires(e) PROVE lease'[d] = lease[d]
  <2>1. e # d
    BY <1>4 DEF LeaseExpires
  <2> QED
    BY <1>0, <1>4, <2>1 DEF LeaseExpires, TypeOK
<1>5. ASSUME NEW p \in Proc, Step(p), ~Acquire(p), ~Release(p) PROVE UNCHANGED lease
  BY <1>5 DEF Step, LeaseHeld, GetJob, PutJob, LocalURL, ConfirmLocal, ReadJob, ConfirmHosted,
     HostedCreate, AddRemote, VerifyRemote, MarkJob, PutRefused, StepFails
<1>6. ASSUME NEW p \in Proc, Crash(p) \/ \E i \in Ids, e \in Dests : Call(p, i, e)
      PROVE  UNCHANGED lease
  BY <1>6 DEF Crash, Call
<1>7. CASE OthersAct
  BY <1>7 DEF OthersAct
<1> QED
  BY <1>2, <1>3, <1>4, <1>5, <1>6, <1>7 DEF Next, vars

(* With leases that outlast their live holders the section is exclusive.   *)
LEMMA LeaseInductive ==
  ASSUME ~MayOverstay, TypeOK, LeaseInv, [Next]_vars
  PROVE  LeaseInv'
<1>1. ASSUME NEW q \in Proc, pc'[q] \in LeasedPcs
      PROVE  lease'[req'[q].dest] = [owner |-> req'[q].id, expired |-> FALSE]
  <2>1. req'[q] = req[q]
    BY <1>1, EntersByLease
  <2>2. CASE pc[q] \in LeasedPcs
    BY <1>1, <2>1, <2>2, LeaseKept DEF LeaseInv
  <2>3. CASE Acquire(q)
    <3>1. req[q].dest \in Dests
      BY <2>3, StepHasRequest DEF Step
    <3> QED
      BY <2>1, <2>3, <3>1 DEF Acquire, TypeOK
  <2> QED
    BY <1>1, <2>2, <2>3, EntersByLease
<1>2. ASSUME NEW p \in Proc, NEW q \in Proc, Acquire(p),
             pc[q] \in LeasedPcs, req[q].dest = req[p].dest
      PROVE  FALSE
  BY <1>2, InsideHasRequest, HeldIsNotFree DEF Acquire, LeaseInv
<1>3. ASSUME NEW p \in Proc, NEW q \in Proc, Acquire(p), p # q PROVE pc'[q] = pc[q]
  BY <1>3 DEF Acquire, Goto, TypeOK
<1>4. ASSUME NEW d \in Dests, NEW p \in Proc, NEW q \in Proc, p # q, Inside(p, d)', Inside(q, d)'
      PROVE  FALSE
  <2>1. /\ req'[p] = req[p] /\ (pc[p] \in LeasedPcs \/ Acquire(p))
        /\ req'[q] = req[q] /\ (pc[q] \in LeasedPcs \/ Acquire(q))
    BY <1>4, EntersByLease DEF Inside
  <2>2. CASE pc[p] \in LeasedPcs /\ pc[q] \in LeasedPcs
    BY <1>4, <2>1, <2>2 DEF LeaseInv, Inside
  <2>3. CASE Acquire(p)
    BY <1>2, <1>3, <1>4, <2>1, <2>3 DEF Inside
  <2>4. CASE Acquire(q)
    BY <1>2, <1>3, <1>4, <2>1, <2>4 DEF Inside
  <2> QED
    BY <2>1, <2>2, <2>3, <2>4
<1> QED
  BY <1>1, <1>4 DEF LeaseInv

(* The rows of a call's destination are its own while it is inside: no     *)
(* other step writes the row it works on, and no other call creates there. *)
LEMMA SectionIsOwn ==
  ASSUME IInv, LeaseInv, [Next]_vars, NEW q \in Proc, pc[q] \in LeasedPcs, ~Step(q)
  PROVE  /\ Row(q) # NoJob /\ Row(q).dest = req[q].dest => jobs'[req[q].id] = jobs[req[q].id]
         /\ creates'[req[q].dest] \in {0, creates[req[q].dest]}
<1>0. TypeOK /\ req[q].id \in Ids /\ req[q].dest \in Dests
  BY InsideHasRequest DEF IInv
<1>1. ASSUME NEW p \in Proc, Step(p), pc[p] \in LeasedPcs PROVE req[p].dest # req[q].dest
  BY <1>0, <1>1 DEF LeaseInv, Inside
<1>2. ASSUME NEW p \in Proc, NEW s \in RemoteStates, NEW h \in BOOLEAN, Step(p), Put(p, s, h),
             pc[p] \in LeasedPcs, Row(q) # NoJob, Row(q).dest = req[q].dest
      PROVE  jobs'[req[q].id] = jobs[req[q].id]
  <2>1. req[p].id # req[q].id
    BY <1>0, <1>1, <1>2, StepHasRequest, PutWritesRow DEF Row
  <2> QED
    BY <1>0, <1>2, <2>1, StepHasRequest, PutWritesRow
<1>3. Row(q) # NoJob /\ Row(q).dest = req[q].dest => jobs'[req[q].id] = jobs[req[q].id]
  BY <1>0, <1>2, RowWriters DEF LeasedPcs, MarkPcs
<1>4. ASSUME NEW p \in Proc, HostedCreate(p)
      PROVE  creates'[req[q].dest] = creates[req[q].dest]
  <2>1. Step(p) /\ pc[p] \in LeasedPcs
    BY <1>4 DEF Step, HostedCreate, LeasedPcs
  <2>2. req[p].dest # req[q].dest
    BY <1>1, <2>1
  <2> QED
    BY <1>0, <1>4, <2>1, <2>2, StepHasRequest DEF HostedCreate, TypeOK
<1>5. ASSUME NEW p \in Proc, Step(p), ~HostedCreate(p) PROVE UNCHANGED creates
  BY <1>5 DEF Step, Acquire, LeaseHeld, GetJob, PutJob, LocalURL, ConfirmLocal, ReadJob,
     ConfirmHosted, AddRemote, VerifyRemote, MarkJob, PutRefused, StepFails, Release, history
<1>6. ASSUME NEW p \in Proc, Crash(p) \/ \E i \in Ids, e \in Dests : Call(p, i, e)
      PROVE  UNCHANGED creates
  BY <1>6 DEF Crash, Call, history
<1>7. ASSUME NEW e \in Dests, LeaseExpires(e) PROVE UNCHANGED creates
  BY <1>7 DEF LeaseExpires, history
<1>8. CASE OthersAct
  BY <1>0, <1>8 DEF OthersAct, TypeOK
<1> QED
  BY <1>3, <1>4, <1>5, <1>6, <1>7, <1>8 DEF Next, vars, history

(* What AutoGit created exists until it is deleted.                        *)
LEMMA CreatedExists ==
  ASSUME IInv, CreateInv, [Next]_vars, NEW d \in Dests, creates'[d] # 0
  PROVE  hosted'[d] # "absent"
<1>0. TypeOK
  BY DEF IInv
<1>1. CASE UNCHANGED <<hosted, creates>>
  BY <1>1 DEF CreateInv
<1>2. ASSUME NEW p \in Proc, HostedCreate(p)
      PROVE  hosted'[d] # "absent"
  BY <1>0, <1>2, StepHasRequest DEF Step, HostedCreate, TypeOK, CreateInv
<1>3. ASSUME NEW p \in Proc, Step(p), ~HostedCreate(p) PROVE UNCHANGED <<hosted, creates>>
  BY <1>3 DEF Step, Acquire, LeaseHeld, GetJob, PutJob, LocalURL, ConfirmLocal, ReadJob,
     ConfirmHosted, AddRemote, VerifyRemote, MarkJob, PutRefused, StepFails, Release, history
<1>4. ASSUME NEW p \in Proc, Crash(p) \/ \E i \in Ids, e \in Dests : Call(p, i, e)
      PROVE  UNCHANGED <<hosted, creates>>
  BY <1>4 DEF Crash, Call, history
<1>5. ASSUME NEW e \in Dests, LeaseExpires(e) PROVE UNCHANGED <<hosted, creates>>
  BY <1>5 DEF LeaseExpires, history
<1>6. CASE OthersAct
  BY <1>0, <1>6 DEF OthersAct, TypeOK, CreateInv
<1> QED
  BY <1>1, <1>2, <1>3, <1>4, <1>5, <1>6 DEF Next, vars, history

(* A call classifies the row as GetJob or PutJob left it.                  *)
LEMMA OpenInductive ==
  ASSUME IInv, LeaseInv, CreateInv, [Next]_vars, NEW q \in Proc, pc'[q] \in OpenPcs
  PROVE  jobs'[req'[q].id].state = "REMOTE_REQUESTED" \/ jobs'[req'[q].id].hosted
<1>0. TypeOK
  BY DEF IInv
<1>1. CASE ~Step(q)
  <2>1. pc[q] \in OpenPcs /\ req'[q] = req[q]
    BY <1>0, <1>1, OwnSteps DEF OpenPcs
  <2>2. Row(q) # NoJob /\ Row(q).dest = req[q].dest
    BY <2>1 DEF IInv, EvidenceInv, OpenPcs, RowPcs, LeasedPcs, MarkPcs
  <2>3. jobs'[req[q].id] = jobs[req[q].id]
    BY <1>1, <2>1, <2>2, SectionIsOwn DEF OpenPcs, LeasedPcs
  <2> QED
    BY <2>1, <2>3 DEF CreateInv, Row
<1>2. CASE PutJob(q)
  <2>1. Step(q)
    BY <1>2 DEF Step
  <2> QED
    BY <1>0, <1>2, <2>1, StepHasRequest, PutWritesRow DEF PutJob, Goto, RemoteStates
<1>3. CASE GetJob(q)
  BY <1>0, <1>3 DEF TypeOK, GetJob, Goto, OpenPcs, Row
<1>4. CASE LocalURL(q)
  BY <1>0, <1>4 DEF TypeOK, LocalURL, Goto, OpenPcs, Row, CreateInv
<1>5. CASE Step(q) /\ ~PutJob(q) /\ ~GetJob(q) /\ ~LocalURL(q)
  BY <1>0, <1>5 DEF TypeOK, Step, Acquire, LeaseHeld, ConfirmLocal, ReadJob,
     ConfirmHosted, HostedCreate, AddRemote, VerifyRemote, MarkJob, PutRefused, StepFails,
     Release, Goto, Finish, OpenPcs
<1> QED
  BY <1>1, <1>2, <1>3, <1>4, <1>5

(* A call comes to the creation only after it found nothing there.         *)
LEMMA FirstCreateInductive ==
  ASSUME IInv, LeaseInv, CreateInv, [Next]_vars, NEW q \in Proc, pc'[q] = "create"
  PROVE  creates'[req'[q].dest] = 0
<1>0. TypeOK
  BY DEF IInv
<1>1. CASE ~Step(q)
  <2>1. pc[q] = "create" /\ req'[q] = req[q]
    BY <1>0, <1>1, OwnSteps
  <2>2. creates'[req[q].dest] \in {0, creates[req[q].dest]}
    BY <1>1, <2>1, SectionIsOwn DEF LeasedPcs
  <2> QED
    BY <2>1, <2>2 DEF CreateInv, NoSecondCreate
<1>2. CASE ConfirmHosted(q)
  <2>1. req[q].dest \in Dests
    BY <1>0, <1>2, StepHasRequest DEF Step
  <2>2. hosted[req[q].dest] = "absent" /\ req' = req /\ creates' = creates
    BY <1>0, <1>2, <2>1 DEF TypeOK, ConfirmHosted, Goto, history
  <2> QED
    BY <2>1, <2>2 DEF CreateInv
<1>3. CASE ReadJob(q)
  <2>1. Row(q).state = "REMOTE_REQUESTED" \/ Row(q).hosted
    BY <1>3 DEF ReadJob, CreateInv, OpenPcs
  <2>2. pc'[q] # "create"
    BY <1>0, <1>3, <2>1 DEF TypeOK, ReadJob, Goto
  <2> QED
    BY <2>2
<1>4. CASE Step(q) /\ ~ConfirmHosted(q) /\ ~ReadJob(q)
  BY <1>0, <1>4 DEF TypeOK, Step, Acquire, LeaseHeld, GetJob, PutJob, LocalURL, ConfirmLocal,
     HostedCreate, AddRemote, VerifyRemote, MarkJob, PutRefused, StepFails,
     Release, Goto, Finish
<1> QED
  BY <1>1, <1>2, <1>3, <1>4

-----------------------------------------------------------------------------
(* With leases that outlast their live holders, the section of a           *)
(* destination is exclusive and CreateInv holds.                           *)
THEOREM CreateInvariance ==
  ASSUME ~MayOverstay
  PROVE  Spec => [](IInv /\ LeaseInv /\ CreateInv)
<1>1. Init => LeaseInv /\ CreateInv
  BY DEF Init, LeaseInv, Inside, CreateInv, NoSecondCreate, OpenPcs, LeasedPcs, MarkPcs
<1>2. IInv /\ LeaseInv /\ CreateInv /\ [Next]_vars => (LeaseInv /\ CreateInv)'
  <2> SUFFICES ASSUME IInv, LeaseInv, CreateInv, [Next]_vars PROVE LeaseInv' /\ CreateInv'
    OBVIOUS
  <2>1. LeaseInv'
    BY LeaseInductive DEF IInv
  <2>2. CreateInv'
    BY CreatedExists, OpenInductive, FirstCreateInductive DEF CreateInv, NoSecondCreate, Row
  <2> QED
    BY <2>1, <2>2
<1> QED
  BY <1>1, <1>2, Invariance, PTL DEF Spec

(* "Confirm the exact destination first so retry reconciles an             *)
(* already-created repository instead of issuing a second create           *)
(* operation" (repository_transaction.go): while leases outlast their live *)
(* holders, no creation is issued where AutoGit has created already and    *)
(* nobody has deleted what it created.                                     *)
THEOREM CreatesOnce ==
  ASSUME ~MayOverstay
  PROVE  Spec => []NoSecondCreate
  BY CreateInvariance, PTL DEF CreateInv
=============================================================================
