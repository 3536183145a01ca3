------------------------------ MODULE PushJob ------------------------------
(***************************************************************************)
(* Publication: coordinator.Push and RetryPush over the pushes table, the  *)
(* gh provider (confirm by exact SHA, `git push`, confirm again) and the   *)
(* hosted branch, which other people also write.  `autogit publish` and    *)
(* `autogit retry` are the two ways in; a push id is the id of a commit    *)
(* intent, whose recorded SHA never changes (module GitCommit), so the SHA *)
(* is a function of the id and only the destination is chosen per call.    *)
(*                                                                         *)
(* Every store transaction, every read of the hosted branch and every git  *)
(* push is one step.  The Mark functions read a row and then write it with *)
(* another state; identity columns never change, so they are one step.     *)
(***************************************************************************)
EXTENDS Integers, FiniteSets

CONSTANTS Proc,         \* autogit processes
          Ids,          \* push job ids
          Dests,        \* destinations: owner/name/ref
          Shas,         \* commits
          ShaOf,        \* the commit recorded for each id
          Descends,     \* pairs <<old, new>>: new descends from old
          Looks404,     \* commits whose hex name contains "404"
          Asked,        \* the requests publish is called with
          Lag,          \* the API may miss a branch that was just created
          MayOverstay,  \* a live holder may outlast the two-minute lease
          MaxOther,     \* bound on what other people do to the branches
          MaxFaults,    \* bound on deaths, failing calls and lost answers
          NoJob, NoSha, NoLease, NoRun

ASSUME PushAssumption ==
  /\ ShaOf \in [Ids -> Shas]
  /\ Descends \subseteq Shas \X Shas /\ Looks404 \subseteq Shas
  /\ Lag \in BOOLEAN /\ MayOverstay \in BOOLEAN
  /\ MaxOther \in Nat /\ MaxFaults \in Nat

PushStates == {"PUSH_REQUESTED", "RETRY_WAIT", "SUCCEEDED", "BLOCKED", "SKIPPED_LOCAL"}
Jobs == [dest : Dests, local : BOOLEAN, state : PushStates]
Leases == [owner : Ids, expired : BOOLEAN]
Requests == [id : Ids, dest : Dests, local : BOOLEAN]

ASSUME AskedAssumption == Asked \subseteq Requests

ASSUME PushNullAssumption ==
  NoJob \notin Jobs /\ NoSha \notin Shas /\ NoLease \notin Leases /\ NoRun \notin Requests

VARIABLES
  jobs,      \* the pushes table
  remote,    \* the hosted branch of each destination
  lease,     \* the row of the leases table for each destination
  pc, req,   \* each process: where it is in Push, and its request
  others, faults,
  held       \* history, read by no guard: every commit each branch has named

vars == <<jobs, remote, lease, pc, req, others, faults, held>>

ReadPcs == {"confirm", "pubConfirm", "pubPost", "post"}
MarkPcs == {"succeed", "block", "wait"}
LeasedPcs == ReadPcs \cup MarkPcs \cup {"gitPush", "release"}
Pcs == LeasedPcs \cup {"idle", "status", "putIntent", "skip", "acquire"}

TypeOK ==
  /\ jobs \in [Ids -> Jobs \cup {NoJob}]
  /\ remote \in [Dests -> Shas \cup {NoSha}]
  /\ lease \in [Dests -> Leases \cup {NoLease}]
  /\ pc \in [Proc -> Pcs]
  /\ req \in [Proc -> Requests \cup {NoRun}]
  /\ \A p \in Proc : req[p] = NoRun <=> pc[p] = "idle"
  /\ others \in 0..MaxOther /\ faults \in 0..MaxFaults
  /\ held \in [Dests -> SUBSET Shas]

Init ==
  /\ jobs = [i \in Ids |-> NoJob]
  /\ remote = [d \in Dests |-> NoSha]
  /\ lease = [d \in Dests |-> NoLease]
  /\ pc = [p \in Proc |-> "idle"]
  /\ req = [p \in Proc |-> NoRun]
  /\ others = 0 /\ faults = 0
  /\ held = [d \in Dests |-> {}]

Goto(p, l) == pc' = [pc EXCEPT ![p] = l] /\ UNCHANGED req
Finish(p) == pc' = [pc EXCEPT ![p] = "idle"] /\ req' = [req EXCEPT ![p] = NoRun]
(* Something fails: one of finitely many times.                            *)
Fault == faults < MaxFaults /\ faults' = faults + 1

Begin(p, r) == pc' = [pc EXCEPT ![p] = "status"] /\ req' = [req EXCEPT ![p] = r]

-----------------------------------------------------------------------------
(* The two commands.                                                       *)

Publish(p, i, d, l) ==
  /\ pc[p] = "idle"
  /\ Begin(p, [id |-> i, dest |-> d, local |-> l])
  /\ UNCHANGED <<jobs, remote, lease, others, faults, held>>

(* RetryPush resumes a RETRY_WAIT job with its stored request.             *)
Retry(p, i) ==
  /\ pc[p] = "idle"
  /\ jobs[i] # NoJob
  /\ jobs[i].state = "RETRY_WAIT"
  /\ Begin(p, [id |-> i, dest |-> jobs[i].dest, local |-> jobs[i].local])
  /\ UNCHANGED <<jobs, remote, lease, others, faults, held>>

-----------------------------------------------------------------------------
(* Push before the lease.                                                  *)

(* A mutant of MayGoOn: an intent someone else may be working on is left.  *)
MayGoOnFresh(j, r) ==
  j # NoJob => j.dest = r.dest /\ j.local = r.local /\ j.state = "RETRY_WAIT"

(* PushStatus: another identity is a conflict, SUCCEEDED and BLOCKED are   *)
(* the answer, everything else goes on.                                    *)
MayGoOn(j, r) ==
  j # NoJob => j.dest = r.dest /\ j.local = r.local /\ j.state \notin {"SUCCEEDED", "BLOCKED"}

PushStatus(p) ==
  /\ pc[p] = "status"
  /\ IF MayGoOn(jobs[req[p].id], req[p]) THEN Goto(p, "putIntent") ELSE Finish(p)
  /\ UNCHANGED <<jobs, remote, lease, others, faults, held>>

(* A mutant of Accepts: only the read of PushStatus checks the identity.   *)
AcceptsAll(i, d) == TRUE

(* PutPushJob's identity check.  It compares the stored local_only flag    *)
(* with a field that its own query leaves false.                           *)
Accepts(i, d) == jobs[i] # NoJob => jobs[i].dest = d /\ ~jobs[i].local

(* PutPushJob: insert, or overwrite the state whatever it was.             *)
PutPushJob(p, state) ==
  LET r == req[p] IN
  jobs' = [jobs EXCEPT ![r.id] =
    IF @ = NoJob THEN [dest |-> r.dest, local |-> r.local, state |-> state]
    ELSE [@ EXCEPT !.state = state]]

PutPushIntent(p) ==
  /\ pc[p] = "putIntent"
  /\ Accepts(req[p].id, req[p].dest)
  /\ PutPushJob(p, "PUSH_REQUESTED")
  /\ Goto(p, IF req[p].local THEN "skip" ELSE "acquire")
  /\ UNCHANGED <<remote, lease, others, faults, held>>

MarkPushSkipped(p) ==
  /\ pc[p] = "skip"
  /\ Accepts(req[p].id, req[p].dest)
  /\ PutPushJob(p, "SKIPPED_LOCAL")
  /\ Finish(p)
  /\ UNCHANGED <<remote, lease, others, faults, held>>

(* The identity check refuses.                                             *)
PutRefused(p) ==
  /\ pc[p] \in {"putIntent", "skip"}
  /\ ~Accepts(req[p].id, req[p].dest)
  /\ Finish(p)
  /\ UNCHANGED <<jobs, remote, lease, others, faults, held>>

(* The store fails.                                                        *)
PutFails(p) ==
  /\ pc[p] \in {"status", "putIntent", "skip", "acquire"}
  /\ Fault
  /\ Finish(p)
  /\ UNCHANGED <<jobs, remote, lease, others, held>>

LeaseFree(d) == lease[d] = NoLease \/ lease[d] \in [owner : Ids, expired : {TRUE}]

(* A mutant of Acquire: the lease is taken whoever holds it.               *)
AcquireAnyway(p) ==
  /\ pc[p] = "acquire"
  /\ lease' = [lease EXCEPT ![req[p].dest] = [owner |-> req[p].id, expired |-> FALSE]]
  /\ Goto(p, "confirm")
  /\ UNCHANGED <<jobs, remote, others, faults, held>>

Acquire(p) ==
  /\ pc[p] = "acquire"
  /\ LeaseFree(req[p].dest)
  /\ lease' = [lease EXCEPT ![req[p].dest] = [owner |-> req[p].id, expired |-> FALSE]]
  /\ Goto(p, "confirm")
  /\ UNCHANGED <<jobs, remote, others, faults, held>>

(* A held lease ends the call; the row stays PUSH_REQUESTED.               *)
LeaseHeld(p) ==
  /\ pc[p] = "acquire"
  /\ ~LeaseFree(req[p].dest)
  /\ Finish(p)
  /\ UNCHANGED <<jobs, remote, lease, others, faults, held>>

-----------------------------------------------------------------------------
(* Push under the lease.                                                   *)

(* A mutant of Outcome: any branch will do.                                *)
OutcomeAnyBranch(s, sha) == IF s = NoSha THEN "missing" ELSE "present"

(* A mutant of Outcome: a branch that exists is always in the way.         *)
OutcomeNeverPresent(s, sha) == IF s = NoSha THEN "missing" ELSE "conflict"

(* What ConfirmPush reports for the branch it reads: an output with "404"  *)
(* in it, error text or commit name, is taken for an absent branch.        *)
Outcome(s, sha) ==
  IF s = NoSha \/ s \in Looks404 THEN "missing" ELSE IF s = sha THEN "present" ELSE "conflict"

Outcomes(p) ==
  LET d == req[p].dest  seen == {remote[d]} \cup (IF Lag THEN {NoSha} ELSE {})
  IN  {Outcome(s, ShaOf[req[p].id]) : s \in seen}

(* One ConfirmPush at point at, and where each outcome leads.              *)
Confirm(p, at, present, missing) ==
  /\ pc[p] = at
  /\ \E o \in Outcomes(p) :
       Goto(p, IF o = "present" THEN present ELSE IF o = "missing" THEN missing ELSE "block")
  /\ UNCHANGED <<jobs, remote, lease, others, faults, held>>

ConfirmPush(p) == Confirm(p, "confirm", "succeed", "pubConfirm")
PublishConfirm(p) == Confirm(p, "pubConfirm", "post", "gitPush")

(* confirmPushAfterMutation, in the provider and again in the coordinator: *)
(* a missing branch is read up to three times (the extra reads change      *)
(* nothing) and is then a failed postcondition.                            *)
ConfirmAfterMutation(p) ==
  \/ Confirm(p, "pubPost", "post", "block")
  \/ Confirm(p, "post", "succeed", "block")

(* `git push REMOTE SHA:refs/heads/REF`, without force: it creates the     *)
(* branch or fast-forwards it.  Its answer may be lost.                    *)
GitPush(p) ==
  LET d == req[p].dest  sha == ShaOf[req[p].id] IN
  /\ pc[p] = "gitPush"
  /\ remote[d] \in {NoSha, sha} \/ <<remote[d], sha>> \in Descends
  /\ remote' = [remote EXCEPT ![d] = sha]
  /\ held' = [held EXCEPT ![d] = @ \cup {sha}]
  /\ \/ Goto(p, "pubPost") /\ UNCHANGED faults
     \/ Fault /\ \E l \in {"wait", "block"} : Goto(p, l)
  /\ UNCHANGED <<jobs, lease, others>>

GitPushRejected(p) ==
  LET d == req[p].dest  sha == ShaOf[req[p].id] IN
  /\ pc[p] = "gitPush"
  /\ remote[d] \notin {NoSha, sha} /\ <<remote[d], sha>> \notin Descends
  /\ Goto(p, "block")
  /\ UNCHANGED <<jobs, remote, lease, others, faults, held>>

(* A provider call fails without effect; IsRetryable decides whether the   *)
(* job waits for a retry or is blocked.                                    *)
ProviderFails(p) ==
  /\ pc[p] \in ReadPcs \cup {"gitPush"}
  /\ Fault
  /\ \E l \in {"wait", "block"} : Goto(p, l)
  /\ UNCHANGED <<jobs, remote, lease, others, held>>

(* MarkPushSucceeded, MarkPushBlocked, MarkPushRetry.                      *)
MarkPush(p) ==
  /\ pc[p] \in MarkPcs
  /\ Accepts(req[p].id, req[p].dest)
  /\ PutPushJob(p, CASE pc[p] = "succeed" -> "SUCCEEDED"
                     [] pc[p] = "block" -> "BLOCKED"
                     [] pc[p] = "wait" -> "RETRY_WAIT")
  /\ Goto(p, "release")
  /\ UNCHANGED <<remote, lease, others, faults, held>>

(* The write fails, as it must when the caller's context is cancelled: the *)
(* row keeps PUSH_REQUESTED.                                               *)
MarkFails(p) ==
  /\ pc[p] \in MarkPcs
  /\ Fault
  /\ Goto(p, "release")
  /\ UNCHANGED <<jobs, remote, lease, others, held>>

(* The deferred Release deletes the row if its owner is this id.           *)
Release(p) ==
  LET d == req[p].dest IN
  /\ pc[p] = "release"
  /\ lease' = IF lease[d] # NoLease /\ lease[d].owner = req[p].id
              THEN [lease EXCEPT ![d] = NoLease] ELSE lease
  /\ Finish(p)
  /\ UNCHANGED <<jobs, remote, others, faults, held>>

-----------------------------------------------------------------------------
(* The environment.                                                        *)

LeaseExpires(d) ==
  /\ lease[d] \in [owner : Ids, expired : {FALSE}]
  /\ MayOverstay \/ \A p \in Proc : ~(pc[p] \in LeasedPcs /\ req[p].dest = d)
  /\ lease' = [lease EXCEPT ![d].expired = TRUE]
  /\ UNCHANGED <<jobs, remote, pc, req, others, faults, held>>

OthersWrite(d) ==
  /\ others < MaxOther
  /\ others' = others + 1
  /\ \E s \in Shas \cup {NoSha} :
       /\ remote' = [remote EXCEPT ![d] = s]
       /\ held' = [held EXCEPT ![d] = @ \cup ({s} \ {NoSha})]
  /\ UNCHANGED <<jobs, lease, pc, req, faults>>

(* The process dies, or its Release fails: what is durable stays.          *)
Crash(p) ==
  /\ pc[p] # "idle"
  /\ Fault
  /\ Finish(p)
  /\ UNCHANGED <<jobs, remote, lease, others, held>>

-----------------------------------------------------------------------------
Call(p) ==
  \/ \E i \in Ids : Retry(p, i)
  \/ \E r \in Asked : Publish(p, r.id, r.dest, r.local)

Step(p) ==
  \/ PushStatus(p) \/ PutPushIntent(p) \/ MarkPushSkipped(p) \/ PutRefused(p)
  \/ PutFails(p)  \/ Acquire(p) \/ LeaseHeld(p) \/ ConfirmPush(p) \/ PublishConfirm(p)
  \/ GitPush(p) \/ GitPushRejected(p) \/ ConfirmAfterMutation(p) \/ ProviderFails(p)
  \/ MarkPush(p) \/ MarkFails(p) \/ Release(p)

Next ==
  \/ \E p \in Proc : Call(p) \/ Step(p) \/ Crash(p)
  \/ \E d \in Dests : LeaseExpires(d) \/ OthersWrite(d)

Spec == Init /\ [][Next]_vars

-----------------------------------------------------------------------------
(* SUCCEEDED is never a claim without evidence: the job's destination, as  *)
(* its durable row names it, has held exactly the job's commit.  Neither   *)
(* calls with another destination under the same id, nor lagging reads,    *)
(* nor lost answers break it (Push, PutPushJob).                           *)
SucceededWasOnRemote ==
  \A i \in Ids : jobs[i] # NoJob /\ jobs[i].state = "SUCCEEDED" => ShaOf[i] \in held[jobs[i].dest]

(* The provider is contacted only for a durable intent of exactly this     *)
(* destination, and never for one recorded as local-only.                  *)
RemoteContactHasIntent ==
  \A p \in Proc : pc[p] \in LeasedPcs =>
    /\ jobs[req[p].id] # NoJob
    /\ jobs[req[p].id].dest = req[p].dest
    /\ ~jobs[req[p].id].local

(* "A missing ref permits one exact-SHA push; a present ref must already   *)
(* point to that exact SHA" (coordinator.go): a push creates the branch    *)
(* and never moves an existing one, as long as only AutoGit writes it.     *)
(* The check and the push are several steps apart; the lease joins them.   *)
PushOnlyCreates ==
  [][ \A d \in Dests :
        remote'[d] # remote[d] /\ others' = 0 => remote[d] = NoSha ]_vars

(* A push that reached its destination, with nothing failing and nobody    *)
(* else writing, is not reported BLOCKED ("Remote ref confirms expected    *)
(* SHA: push SUCCEEDED", lifecycle.md).                                    *)
BlockedWasNotPushed ==
  faults = 0 /\ others = 0 =>
    \A i \in Ids :
      jobs[i] # NoJob /\ jobs[i].state = "BLOCKED" => ShaOf[i] \notin held[jobs[i].dest]

-----------------------------------------------------------------------------
(* Fairness: live processes go on, leases run out, and a command is        *)
(* repeated with the stored request (`retry` for RETRY_WAIT, otherwise     *)
(* `publish`).  Faults end: MaxFaults bounds them.                         *)
Recall(i) ==
  \E p \in Proc : jobs[i] # NoJob /\ Publish(p, i, jobs[i].dest, jobs[i].local)

Fairness ==
  /\ \A d \in Dests : WF_vars(LeaseExpires(d))
  /\ \A p \in Proc : WF_vars(Step(p))
  /\ \A i \in Ids : SF_vars(Recall(i))

FairSpec == Spec /\ Fairness

Settled(i) == jobs[i] # NoJob /\ jobs[i].state \in {"SUCCEEDED", "BLOCKED", "SKIPPED_LOCAL"}

(* From some point on no other operation asks for this one's lease.  Two   *)
(* that go on asking may each meet the other's lease for ever: a held      *)
(* lease ends the call and nothing queues.                                 *)
Uncontended(i) ==
  \A p \in Proc : req[p] # NoRun /\ req[p].id # i => jobs[i] # NoJob /\ req[p].dest # jobs[i].dest

(* A requested push is not forgotten: over transient failures, lost        *)
(* answers, held leases and crashes, repeated commands settle it once      *)
(* other operations leave its destination alone.                           *)
PushSettles ==
  \A i \in Ids : <>[]Uncontended(i) => ((jobs[i] # NoJob /\ ~jobs[i].local) ~> Settled(i))

(* "Local-only policy emits SKIPPED_LOCAL" (lifecycle.md).                 *)
LocalOnlySkips ==
  \A i \in Ids : (jobs[i] # NoJob /\ jobs[i].local) ~> (jobs[i] # NoJob /\ jobs[i].state = "SKIPPED_LOCAL")
=============================================================================
