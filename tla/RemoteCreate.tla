---------------------------- MODULE RemoteCreate ----------------------------
(***************************************************************************)
(* `autogit remote create` (provider.RepositoryTransaction.Create): under  *)
(* a lease on the destination, a durable job, the hosted repository and    *)
(* the local git remote are brought in line in that order, so that a run   *)
(* that died anywhere can be repeated.  One local repository and one       *)
(* remote alias; the user configures the alias, and other people create,   *)
(* delete and publish or hide hosted repositories, at any time.  Every     *)
(* store transaction, provider call and git command is one step.           *)
(***************************************************************************)
EXTENDS Integers, FiniteSets

CONSTANTS Proc,          \* autogit processes
          Ids,           \* remote job ids
          Dests,         \* hosted identities with their visibility
          MayOverstay,   \* a live holder may outlast the two-minute lease
          MaxOther,      \* bound on what the user and other people do
          MaxFaults,     \* bound on deaths, failing calls and lost answers
          NoJob, NoLease, NoRun, NoRemote,
          Foreign        \* a remote URL that is no destination here

ASSUME RemoteAssumption ==
  MayOverstay \in BOOLEAN /\ MaxOther \in Nat /\ MaxFaults \in Nat

RemoteStates == {"REMOTE_REQUESTED", "REMOTE_CREATED", "REMOTE_ATTACHED", "REMOTE_FAILED"}
Jobs == [dest : Dests, hosted : BOOLEAN, state : RemoteStates]
Leases == [owner : Ids, expired : BOOLEAN]
Requests == [id : Ids, dest : Dests]

ASSUME RemoteNullAssumption ==
  /\ NoJob \notin Jobs /\ NoLease \notin Leases /\ NoRun \notin Requests
  /\ NoRemote \notin Dests /\ Foreign \notin Dests /\ NoRemote # Foreign

VARIABLES
  jobs,       \* the remote_jobs table; hosted: hosted_identity is set
  hosted,     \* hosted repositories: absent, matching, or of another visibility
  binding,    \* the push URL of the local remote alias
  lease,      \* the row of the leases table for each destination
  pc, req,    \* each process: where it is in Create, and its request
  others, faults,
  \* history, read by no guard:
  creates,    \* effective `gh repo create` calls per destination, since it was last deleted
  bound,      \* destinations the alias has ever been bound to
  shown       \* destinations that have ever been hosted in the right visibility

history == <<creates, bound, shown>>
vars == <<jobs, hosted, binding, lease, pc, req, others, faults, history>>

MarkPcs == {"markCreated", "markAttached", "markFailed"}
LeasedPcs == MarkPcs \cup {"getJob", "putJob", "localURL", "confirmLocal", "readJob",
                           "confirmHosted", "confirmKnown", "create", "addRemote",
                           "verifyRemote", "release"}
Pcs == LeasedPcs \cup {"idle", "acquire"}

TypeOK ==
  /\ jobs \in [Ids -> Jobs \cup {NoJob}]
  /\ hosted \in [Dests -> {"absent", "match", "mismatch"}]
  /\ binding \in Dests \cup {NoRemote, Foreign}
  /\ lease \in [Dests -> Leases \cup {NoLease}]
  /\ pc \in [Proc -> Pcs]
  /\ req \in [Proc -> Requests \cup {NoRun}]
  /\ \A p \in Proc : req[p] = NoRun <=> pc[p] = "idle"
  /\ others \in 0..MaxOther /\ faults \in 0..MaxFaults
  /\ creates \in [Dests -> Nat]
  /\ bound \in SUBSET Dests /\ shown \in SUBSET Dests

Init ==
  /\ jobs = [i \in Ids |-> NoJob]
  /\ hosted = [d \in Dests |-> "absent"]
  /\ binding = NoRemote
  /\ lease = [d \in Dests |-> NoLease]
  /\ pc = [p \in Proc |-> "idle"]
  /\ req = [p \in Proc |-> NoRun]
  /\ others = 0 /\ faults = 0
  /\ creates = [d \in Dests |-> 0]
  /\ bound = {} /\ shown = {}

Goto(p, l) == pc' = [pc EXCEPT ![p] = l] /\ UNCHANGED req
Finish(p) == pc' = [pc EXCEPT ![p] = "idle"] /\ req' = [req EXCEPT ![p] = NoRun]
Row(p) == jobs[req[p].id]

(* Something fails: one of finitely many times.                            *)
Fault == faults < MaxFaults /\ faults' = faults + 1

-----------------------------------------------------------------------------
Call(p, i, d) ==
  /\ pc[p] = "idle"
  /\ pc' = [pc EXCEPT ![p] = "acquire"]
  /\ req' = [req EXCEPT ![p] = [id |-> i, dest |-> d]]
  /\ UNCHANGED <<jobs, hosted, binding, lease, others, faults, history>>

LeaseFree(d) == lease[d] = NoLease \/ lease[d] \in [owner : Ids, expired : {TRUE}]

Acquire(p) ==
  /\ pc[p] = "acquire"
  /\ LeaseFree(req[p].dest)
  /\ lease' = [lease EXCEPT ![req[p].dest] = [owner |-> req[p].id, expired |-> FALSE]]
  /\ Goto(p, "getJob")
  /\ UNCHANGED <<jobs, hosted, binding, others, faults, history>>

LeaseHeld(p) ==
  /\ pc[p] = "acquire"
  /\ ~LeaseFree(req[p].dest)
  /\ Finish(p)
  /\ UNCHANGED <<jobs, hosted, binding, lease, others, faults, history>>

(* A mutant of GetJob: only a job without a row is worked on.              *)
GetJobFresh(p) ==
  /\ pc[p] = "getJob"
  /\ Goto(p, IF Row(p) = NoJob THEN "putJob" ELSE "release")
  /\ UNCHANGED <<jobs, hosted, binding, lease, others, faults, history>>

(* Only an open job of the same identity goes on: ATTACHED is the answer,  *)
(* FAILED and an identity conflict are errors.                             *)
GetJob(p) ==
  LET j == Row(p) IN
  /\ pc[p] = "getJob"
  /\ Goto(p, IF j = NoJob THEN "putJob"
             ELSE IF /\ j.dest = req[p].dest
                     /\ \/ j.state = "REMOTE_REQUESTED"
                        \/ j.state = "REMOTE_CREATED" /\ j.hosted
                  THEN "localURL" ELSE "release")
  /\ UNCHANGED <<jobs, hosted, binding, lease, others, faults, history>>

(* PutRemoteJob: insert, or overwrite the state of a row of the same       *)
(* identity; a set hosted identity is never cleared.                       *)
Put(p, state, setHosted) ==
  LET j == Row(p) IN
  /\ j # NoJob => j.dest = req[p].dest
  /\ jobs' = [jobs EXCEPT ![req[p].id] =
       [dest |-> req[p].dest, hosted |-> setHosted \/ (j # NoJob /\ j.hosted), state |-> state]]

(* A mutant of PutJob: the job is recorded only when it is done.           *)
PutJobLater(p) ==
  /\ pc[p] = "putJob"
  /\ Goto(p, "create")
  /\ UNCHANGED <<jobs, hosted, binding, lease, others, faults, history>>

PutJob(p) ==
  /\ pc[p] = "putJob"
  /\ Put(p, "REMOTE_REQUESTED", FALSE)
  /\ Goto(p, "localURL")
  /\ UNCHANGED <<hosted, binding, lease, others, faults, history>>

(* RemoteURL before anything is created: bound to the destination, bound   *)
(* to something else, or absent.                                           *)
LocalURL(p) ==
  /\ pc[p] = "localURL"
  /\ Goto(p, IF binding = NoRemote THEN "readJob"
             ELSE IF binding = req[p].dest THEN "confirmLocal" ELSE "markFailed")
  /\ UNCHANGED <<jobs, hosted, binding, lease, others, faults, history>>

(* A mutant of ConfirmLocal: the alias alone is taken for evidence.        *)
ConfirmLocalSkipped(p) ==
  /\ pc[p] = "confirmLocal"
  /\ Goto(p, "markAttached")
  /\ UNCHANGED <<jobs, hosted, binding, lease, others, faults, history>>

(* Any failure of this confirmation, a transient one too, ends in FAILED.  *)
ConfirmLocal(p) ==
  /\ pc[p] = "confirmLocal"
  /\ \/ hosted[req[p].dest] = "match" /\ Goto(p, "markAttached") /\ UNCHANGED faults
     \/ hosted[req[p].dest] # "match" /\ Goto(p, "markFailed") /\ UNCHANGED faults
     \/ Fault /\ Goto(p, "markFailed")
  /\ UNCHANGED <<jobs, hosted, binding, lease, others, history>>

ReadJob(p) ==
  /\ pc[p] = "readJob"
  /\ Row(p) # NoJob
  /\ Goto(p, CASE Row(p).state = "REMOTE_REQUESTED" /\ ~Row(p).hosted -> "confirmHosted"
               [] Row(p).state = "REMOTE_REQUESTED" /\ Row(p).hosted -> "confirmKnown"
               [] Row(p).state # "REMOTE_REQUESTED" /\ Row(p).hosted -> "addRemote"
               [] OTHER -> "create")
  /\ UNCHANGED <<jobs, hosted, binding, lease, others, faults, history>>

(* A mutant of ConfirmHosted: an open job is simply created again.         *)
ConfirmSkipped(p) ==
  /\ pc[p] \in {"confirmHosted", "confirmKnown"}
  /\ Goto(p, "create")
  /\ UNCHANGED <<jobs, hosted, binding, lease, others, faults, history>>

(* An open job may have created the repository before it died: confirm     *)
(* first, create only what is absent and has no recorded identity.         *)
ConfirmHosted(p) ==
  /\ pc[p] \in {"confirmHosted", "confirmKnown"}
  /\ \/ /\ Goto(p, CASE hosted[req[p].dest] = "match" -> "markCreated"
                     [] hosted[req[p].dest] = "mismatch" -> "release"
                     [] hosted[req[p].dest] = "absent" /\ pc[p] = "confirmKnown" -> "addRemote"
                     [] OTHER -> "create")
        /\ UNCHANGED faults
     \/ Fault /\ Goto(p, "release")
  /\ UNCHANGED <<jobs, hosted, binding, lease, others, history>>

(* GH.Create: `gh repo create` refuses an existing name; it or one of the  *)
(* reads after it may fail with or without effect.                         *)
HostedCreate(p) ==
  LET d == req[p].dest IN
  /\ pc[p] = "create"
  /\ \/ /\ hosted[d] = "absent"
        /\ hosted' = [hosted EXCEPT ![d] = "match"]
        /\ creates' = [creates EXCEPT ![d] = @ + 1]
        /\ shown' = shown \cup {d}
        /\ \/ Goto(p, "markCreated") /\ UNCHANGED faults
           \/ Fault /\ Goto(p, "markFailed")
     \/ /\ (hosted[d] # "absent" /\ UNCHANGED faults) \/ Fault
        /\ Goto(p, "markFailed")
        /\ UNCHANGED <<hosted, creates, shown>>
  /\ UNCHANGED <<jobs, binding, lease, others, bound>>

(* `git remote add` refuses an existing alias.                             *)
AddRemote(p) ==
  /\ pc[p] = "addRemote"
  /\ \/ /\ binding = NoRemote
        /\ binding' = req[p].dest
        /\ bound' = bound \cup {req[p].dest}
        /\ \/ Goto(p, "verifyRemote") /\ UNCHANGED faults
           \/ Fault /\ Goto(p, "release")
     \/ /\ (binding # NoRemote /\ UNCHANGED faults) \/ Fault
        /\ Goto(p, "release")
        /\ UNCHANGED <<binding, bound>>
  /\ UNCHANGED <<jobs, hosted, lease, others, creates, shown>>

VerifyRemote(p) ==
  /\ pc[p] = "verifyRemote"
  /\ Goto(p, IF binding = req[p].dest THEN "markAttached" ELSE "release")
  /\ UNCHANGED <<jobs, hosted, binding, lease, others, faults, history>>

MarkJob(p) ==
  /\ \/ pc[p] = "markCreated" /\ Put(p, "REMOTE_CREATED", TRUE) /\ Goto(p, "addRemote")
     \/ pc[p] = "markAttached" /\ Put(p, "REMOTE_ATTACHED", TRUE) /\ Goto(p, "release")
     \/ pc[p] = "markFailed" /\ Put(p, "REMOTE_FAILED", FALSE) /\ Goto(p, "release")
  /\ UNCHANGED <<hosted, binding, lease, others, faults, history>>

(* PutRemoteJob refuses another identity: the call ends.                   *)
PutRefused(p) ==
  /\ pc[p] \in MarkPcs \cup {"putJob"}
  /\ Row(p) # NoJob /\ Row(p).dest # req[p].dest
  /\ Goto(p, "release")
  /\ UNCHANGED <<jobs, hosted, binding, lease, others, faults, history>>

(* A store transaction or a git command fails without effect.              *)
StepFails(p) ==
  /\ pc[p] \in MarkPcs \cup {"getJob", "putJob", "localURL", "readJob", "verifyRemote"}
  /\ Fault
  /\ Goto(p, "release")
  /\ UNCHANGED <<jobs, hosted, binding, lease, others, history>>

Release(p) ==
  LET d == req[p].dest IN
  /\ pc[p] = "release"
  /\ lease' = IF lease[d] # NoLease /\ lease[d].owner = req[p].id
              THEN [lease EXCEPT ![d] = NoLease] ELSE lease
  /\ Finish(p)
  /\ UNCHANGED <<jobs, hosted, binding, others, faults, history>>

-----------------------------------------------------------------------------
(* The environment.                                                        *)

LeaseExpires(d) ==
  /\ lease[d] \in [owner : Ids, expired : {FALSE}]
  /\ MayOverstay \/ \A p \in Proc : ~(pc[p] \in LeasedPcs /\ req[p].dest = d)
  /\ lease' = [lease EXCEPT ![d].expired = TRUE]
  /\ UNCHANGED <<jobs, hosted, binding, pc, req, others, faults, history>>

(* Someone creates or deletes the repository or changes its visibility, or *)
(* the user sets or removes the alias.                                     *)
OthersAct ==
  /\ others < MaxOther
  /\ others' = others + 1
  /\ \/ \E d \in Dests : \E v \in {"absent", "match", "mismatch"} \ {hosted[d]} :
           /\ hosted' = [hosted EXCEPT ![d] = v]
           /\ creates' = [creates EXCEPT ![d] = IF v = "absent" THEN 0 ELSE @]
           /\ shown' = shown \cup {e \in {d} : v = "match"}
           /\ UNCHANGED <<binding, bound>>
     \/ /\ binding' \in (Dests \cup {NoRemote, Foreign}) \ {binding}
        /\ bound' = bound \cup ({binding'} \cap Dests)
        /\ UNCHANGED <<hosted, creates, shown>>
  /\ UNCHANGED <<jobs, lease, pc, req, faults>>

(* The process dies, or its Release fails: what is durable stays.          *)
Crash(p) ==
  /\ pc[p] # "idle"
  /\ Fault
  /\ Finish(p)
  /\ UNCHANGED <<jobs, hosted, binding, lease, others, history>>

-----------------------------------------------------------------------------
Step(p) ==
  \/ Acquire(p) \/ LeaseHeld(p) \/ GetJob(p) \/ PutJob(p) \/ LocalURL(p)
  \/ ConfirmLocal(p) \/ ReadJob(p) \/ ConfirmHosted(p) \/ HostedCreate(p)
  \/ AddRemote(p) \/ VerifyRemote(p) \/ MarkJob(p) \/ PutRefused(p) \/ StepFails(p) \/ Release(p)

Next ==
  \/ \E p \in Proc : Step(p) \/ Crash(p) \/ \E i \in Ids, d \in Dests : Call(p, i, d)
  \/ OthersAct
  \/ \E d \in Dests : LeaseExpires(d)

Spec == Init /\ [][Next]_vars

-----------------------------------------------------------------------------
(* REMOTE_ATTACHED is never a claim without evidence: for the destination  *)
(* of its durable row, the hosted repository has existed in the right      *)
(* visibility, its identity is recorded, and the alias has been bound to   *)
(* it.  No mix of calls with another destination under the same id, of     *)
(* overstayed leases, crashes and edits by others breaks it.  (That it     *)
(* still exists cannot be had: a rerun of a REMOTE_CREATED job attaches    *)
(* without looking again.)                                                 *)
AttachedIsReal ==
  \A i \in Ids : jobs[i] # NoJob /\ jobs[i].state = "REMOTE_ATTACHED" =>
    jobs[i].hosted /\ jobs[i].dest \in shown \cap bound

(* "Confirm the exact destination first so retry reconciles an             *)
(* already-created repository instead of issuing a second create           *)
(* operation" (repository_transaction.go): while leases outlast their      *)
(* live holders, no create is issued for a destination AutoGit created,    *)
(* unless the repository has been deleted since.                           *)
NoSecondCreate == \A p \in Proc : pc[p] = "create" => creates[req[p].dest] = 0

(* A hosted repository that AutoGit created is never lost from view: while *)
(* it exists, some job names its destination.                              *)
CreatedIsOnRecord ==
  \A d \in Dests : creates[d] > 0 => \E i \in Ids : jobs[i] # NoJob /\ jobs[i].dest = d

-----------------------------------------------------------------------------
(* Fairness: live processes go on, leases run out, and the command is      *)
(* rerun with the stored identity.  Faults end: MaxFaults bounds them.     *)
Recall(i) == \E p \in Proc : jobs[i] # NoJob /\ Call(p, i, jobs[i].dest)

Fairness ==
  /\ \A d \in Dests : WF_vars(LeaseExpires(d))
  /\ \A p \in Proc : WF_vars(Step(p))
  /\ \A i \in Ids : SF_vars(Recall(i))

FairSpec == Spec /\ Fairness

(* An interrupted creation does not stay open: reruns attach it or report  *)
(* it REMOTE_FAILED, unless the name belongs to a repository of another    *)
(* visibility, which leaves the job REMOTE_REQUESTED for good.             *)
RemoteSettles ==
  \A i \in Ids : (jobs[i] # NoJob)
    ~> (jobs[i] # NoJob /\ \/ jobs[i].state \in {"REMOTE_ATTACHED", "REMOTE_FAILED"}
                           \/ hosted[jobs[i].dest] = "mismatch")
=============================================================================
