------------------------------ MODULE TaskFlow ------------------------------
(***************************************************************************)
(* From what an agent reports to a commit: the session, task and prompt    *)
(* part of lifecycle.Reducer.apply, and the hook call of an ingress        *)
(* task.completed (App.hook, promoteCompletionCandidate,                   *)
(* completeLifecycle), which reads the projection, records the core's own  *)
(* facts and runs the verified workflow between separate transactions.     *)
(* One repository, one session.  Hook calls run concurrently, a claim may  *)
(* be delivered again, and a call may end anywhere: a policy that stops    *)
(* it, an error or a death.  The order of events is EventInbox, the commit *)
(* itself is GitCommit.  The domain events session.crashed/recovered,      *)
(* task.cancelled and prompt.requested/.../cancelled are left out: no code *)
(* of the repository emits them.                                           *)
(***************************************************************************)
EXTENDS Integers, FiniteSets

CONSTANTS Proc,        \* hook calls that carry a completion claim
          Tasks,       \* task ids
          Synthetic,   \* the task of events that name none
          Prompts,     \* prompt ids
          Claims,      \* event ids of ingress task.completed events
          TaskOf,      \* the task each claim is about
          Queues,      \* the queue_state capabilities to start from
          MaxTools,    \* bound on tools running for one task
          MaxWork,     \* bound on the edits of the worktree
          NoTask, NoPrompt, NoClaim

SessionStates == {"CREATED", "ACTIVE", "WAITING_PROMPT", "SETTLING",
                  "COMPLETION_CANDIDATE", "ENDED"}
TaskStates == {"ACTIVE", "WAITING_PROMPT", "COMPLETION_CANDIDATE", "COMPLETED", "FAILED"}
TaskRecords == [state : TaskStates, claim : BOOLEAN, candidate : BOOLEAN,
                tools : 0 .. MaxTools]
PromptRecords == [task : Tasks, state : {"QUEUED", "PRESENTED"}, blocking : BOOLEAN]
Works == 0 .. MaxWork
NoWork == 0            \* the baseline: nothing owned, nothing to commit
Rows == {"none", "accepted", "rejected"}

ASSUME TaskFlowAssumption ==
  /\ Synthetic \in Tasks /\ TaskOf \in [Claims -> Tasks]
  /\ Queues \subseteq {"native", "none", "unknown"}
  /\ MaxTools \in Nat /\ MaxWork \in Nat
  /\ NoTask \notin TaskRecords /\ NoPrompt \notin PromptRecords /\ NoClaim \notin Claims

VARIABLES
  queue,      \* the session's queue_state capability
  session,    \* Session.State and Session.ActiveTools
  tasks, prompts,
  work,       \* the version of the worktree
  claimRow,   \* event_receipts: the claims,
  candRow,    \* ... the task.completion_candidate event of each claim,
  factRow,    \* ... and the domain task.completed event of each task's job
  commits,    \* the version committed under each task's job id
  pc, claim, plan,   \* each hook call, its claim and the version it planned
  \* history, read by no guard:
  renewed,    \* calls whose task was promoted again since they planned
  reported,   \* the version at the last files.changed
  answered    \* tasks for which a call answered SESSION_COMMITTED

projection == <<session, tasks, prompts>>
receipts == <<claimRow, candRow, factRow>>
calls == <<pc, claim, plan, renewed>>
history == <<reported, answered>>
vars == <<queue, projection, work, receipts, commits, calls, history>>

Pcs == {"idle", "promote", "candidate", "completed", "plan", "commit", "fact"}

TypeOK ==
  /\ queue \in Queues
  /\ session \in [state : SessionStates, tools : Nat]
  /\ tasks \in [Tasks -> TaskRecords \cup {NoTask}]
  /\ prompts \in [Prompts -> PromptRecords \cup {NoPrompt}]
  /\ work \in Works
  /\ claimRow \in [Claims -> Rows] /\ candRow \in [Claims -> Rows]
  /\ factRow \in [Tasks -> [claim : Claims \cup {NoClaim}, disp : Rows]]
  /\ commits \in [Tasks -> Works]
  /\ pc \in [Proc -> Pcs] /\ claim \in [Proc -> Claims \cup {NoClaim}]
  /\ \A p \in Proc : claim[p] = NoClaim <=> pc[p] = "idle"
  /\ plan \in [Proc -> Works]
  /\ renewed \subseteq Proc /\ reported \in Works /\ answered \subseteq Tasks

Init ==
  /\ queue \in Queues
  /\ session = [state |-> "CREATED", tools |-> 0]
  /\ tasks = [t \in Tasks |-> NoTask] /\ prompts = [x \in Prompts |-> NoPrompt]
  /\ work = NoWork
  /\ claimRow = [c \in Claims |-> "none"] /\ candRow = [c \in Claims |-> "none"]
  /\ factRow = [t \in Tasks |-> [claim |-> NoClaim, disp |-> "none"]]
  /\ commits = [t \in Tasks |-> NoWork]
  /\ pc = [p \in Proc |-> "idle"] /\ claim = [p \in Proc |-> NoClaim]
  /\ plan = [p \in Proc |-> NoWork]
  /\ renewed = {} /\ reported = NoWork /\ answered = {}

-----------------------------------------------------------------------------
Exists(t) == tasks[t] # NoTask
NewTask == [state |-> "ACTIVE", claim |-> FALSE, candidate |-> FALSE, tools |-> 0]

\* hasBlockingPrompt and the prompts of completionConditions: they differ in
\* REQUESTED prompts only, and nothing requests one.
IsOpenBlocking(x) == prompts[x] # NoPrompt /\ prompts[x].blocking
Blocked(t) == \E x \in Prompts : IsOpenBlocking(x) /\ prompts[x].task = t
SessionBusy == session.tools > 0 \/ \E x \in Prompts : IsOpenBlocking(x)
Busy(t) == tasks[t].tools > 0 \/ Blocked(t)

CompletionConditions(t) == ~Busy(t) /\ queue \in {"native", "none"}

\* What the reports of an agent leave alone.
ReportKeeps == UNCHANGED <<queue, receipts, commits, calls, answered>>
KeepsWork == UNCHANGED <<work, reported>>

-----------------------------------------------------------------------------
\* Ingress events other than claims: one transaction each.  An event the
\* reducer rejects changes nothing here.

\* Mutant: a task that starts again gets a new record.
StartFresh(t) == [tasks EXCEPT ![t] = NewTask]

\* task.started, where an event without a task concerns the synthetic one.
\* A finished task starts again.
Start(t) ==
  [tasks EXCEPT ![t] = IF Exists(t) THEN [tasks[t] EXCEPT !.state = "ACTIVE"] ELSE NewTask]

TaskStarted(t) ==
  /\ session' = [session EXCEPT !.state = "ACTIVE"]
  /\ tasks' = Start(t)
  /\ UNCHANGED prompts /\ KeepsWork /\ ReportKeeps

\* session.started, which starts the task it names like task.started does,
\* if it names one.
SessionStarted ==
  \/ \E t \in Tasks : TaskStarted(t)
  \/ /\ session' = [session EXCEPT !.state = "ACTIVE"]
     /\ UNCHANGED <<tasks, prompts>> /\ KeepsWork /\ ReportKeeps

\* session.idle and model.stopped, rejected once the session has ended.
SessionIdle ==
  /\ session.state # "ENDED"
  /\ session' = [session EXCEPT !.state = IF SessionBusy THEN "WAITING_PROMPT" ELSE "SETTLING"]
  /\ UNCHANGED <<tasks, prompts>> /\ KeepsWork /\ ReportKeeps

SessionEnded ==
  /\ session' = [session EXCEPT !.state = "ENDED"]
  /\ UNCHANGED <<tasks, prompts>> /\ KeepsWork /\ ReportKeeps

TaskFailed(t) ==
  /\ Exists(t)
  /\ tasks' = [tasks EXCEPT ![t].state = "FAILED"]
  /\ UNCHANGED <<session, prompts>> /\ KeepsWork /\ ReportKeeps

ToolStarted(t) ==
  /\ Exists(t) /\ tasks[t].tools < MaxTools
  /\ tasks' = [tasks EXCEPT ![t].tools = @ + 1]
  /\ session' = [session EXCEPT !.tools = @ + 1]
  /\ UNCHANGED prompts /\ KeepsWork /\ ReportKeeps

ToolCompleted(t) ==
  /\ Exists(t) /\ tasks[t].tools > 0
  /\ tasks' = [tasks EXCEPT ![t].tools = @ - 1]
  /\ session' = [session EXCEPT !.tools = IF @ > 0 THEN @ - 1 ELSE @]
  /\ UNCHANGED prompts /\ KeepsWork /\ ReportKeeps

\* prompt.submitted.  A prompt keeps the task and the blocking flag it first
\* had; a blocking one takes readiness from its task, if that exists.
PromptSubmitted(x, t, named) ==
  LET state == IF queue = "none" THEN "PRESENTED" ELSE "QUEUED"
      known == IF named \/ Exists(t) THEN tasks ELSE [tasks EXCEPT ![t] = NewTask]
  IN /\ named \/ t = Synthetic
     /\ \E p \in IF prompts[x] = NoPrompt
                 THEN [task : {t}, state : {state}, blocking : BOOLEAN]
                 ELSE {[prompts[x] EXCEPT !.state = state]} :
          /\ prompts' = [prompts EXCEPT ![x] = p]
          /\ IF p.blocking /\ known[p.task] # NoTask
               THEN /\ tasks' = [known EXCEPT ![p.task].state = "WAITING_PROMPT",
                                              ![p.task].candidate = FALSE]
                    /\ session' = [session EXCEPT !.state = "WAITING_PROMPT"]
               ELSE tasks' = known /\ UNCHANGED session
     /\ KeepsWork /\ ReportKeeps

\* The agent edits the worktree, and reports it some time later.
Edit ==
  /\ work < MaxWork
  /\ work' = work + 1
  /\ UNCHANGED <<projection, reported>> /\ ReportKeeps

\* Mutant: the flag that completionEligible reads is forgotten.
UnreadyStateOnly(r) ==
  [r EXCEPT !.state = IF @ = "COMPLETION_CANDIDATE" THEN "ACTIVE" ELSE @]

Unready(r) ==
  [r EXCEPT !.candidate = FALSE, !.state = IF @ = "COMPLETION_CANDIDATE" THEN "ACTIVE" ELSE @]

FilesChanged ==
  /\ tasks' = [t \in Tasks |-> IF Exists(t) THEN Unready(tasks[t]) ELSE NoTask]
  /\ reported' = work
  /\ UNCHANGED <<session, prompts, work>> /\ ReportKeeps

-----------------------------------------------------------------------------
\* The hook call of a claim.

Goto(p, l) == pc' = [pc EXCEPT ![p] = l] /\ UNCHANGED <<claim, plan, renewed>>

Finish(p) ==
  /\ pc' = [pc EXCEPT ![p] = "idle"] /\ claim' = [claim EXCEPT ![p] = NoClaim]
  /\ plan' = [plan EXCEPT ![p] = NoWork] /\ renewed' = renewed \ {p}
CallKeeps == UNCHANGED <<queue, prompts, work, reported>>

\* The claim is accepted and recorded on the task; an event already on
\* record is a duplicate and goes on to promotion as well.
Claim(p, c) ==
  LET t == TaskOf[c] IN
  /\ pc[p] = "idle"
  /\ claimRow[c] # "none" \/ Exists(t)
  /\ claimRow' = [claimRow EXCEPT ![c] = IF @ = "none" THEN "accepted" ELSE @]
  /\ IF claimRow[c] = "none"
       THEN /\ tasks' = [tasks EXCEPT ![t].claim = TRUE,
                                      ![t].state = IF Busy(t) THEN "WAITING_PROMPT" ELSE @]
            /\ session' = [session EXCEPT !.state = IF Busy(t) THEN "WAITING_PROMPT" ELSE "SETTLING"]
       ELSE UNCHANGED <<tasks, session>>
  /\ pc' = [pc EXCEPT ![p] = "promote"] /\ claim' = [claim EXCEPT ![p] = c]
  /\ UNCHANGED <<plan, renewed, candRow, factRow, commits, answered>> /\ CallKeeps

\* A claim about an unknown task is rejected, and so on record.
ClaimRejected(p, c) ==
  /\ pc[p] = "idle" /\ claimRow[c] = "none" /\ ~Exists(TaskOf[c])
  /\ claimRow' = [claimRow EXCEPT ![c] = "rejected"]
  /\ UNCHANGED <<projection, candRow, factRow, commits, calls, answered>> /\ CallKeeps

\* promoteCompletionCandidate looks at the projection ...
Eligible(t) == Exists(t) /\ tasks[t].claim /\ CompletionConditions(t)
ReadEligible(p) ==
  /\ pc[p] = "promote"
  /\ IF Eligible(TaskOf[claim[p]]) THEN Goto(p, "candidate") ELSE Finish(p)
  /\ UNCHANGED <<projection, receipts, commits, answered>> /\ CallKeeps

\* ... and records the fact, under the claim's event id.  A duplicate counts
\* as promoted, whatever the first answer was.
Planned(t) == {q \in Proc : pc[q] \in {"commit", "fact"} /\ TaskOf[claim[q]] = t}
MayPromote(t) == Exists(t) /\ tasks[t].claim /\ ~Busy(t)
Candidate(p) ==
  LET c == claim[p]
      t == TaskOf[c]
  IN /\ pc[p] = "candidate" /\ candRow[c] = "none"
     /\ candRow' = [candRow EXCEPT ![c] = IF MayPromote(t) THEN "accepted" ELSE "rejected"]
     /\ IF MayPromote(t)
          THEN /\ tasks' = [tasks EXCEPT ![t].candidate = TRUE, ![t].state = "COMPLETION_CANDIDATE"]
               /\ session' = [session EXCEPT !.state = "COMPLETION_CANDIDATE"]
               /\ pc' = [pc EXCEPT ![p] = "completed"] /\ UNCHANGED <<claim, plan>>
               /\ renewed' = renewed \cup Planned(t)
          ELSE UNCHANGED <<tasks, session>> /\ Finish(p)
     /\ UNCHANGED <<claimRow, factRow, commits, answered>> /\ CallKeeps
CandidateDuplicate(p) ==
  /\ pc[p] = "candidate" /\ candRow[claim[p]] # "none"
  /\ Goto(p, "completed")
  /\ UNCHANGED <<projection, receipts, commits, answered>> /\ CallKeeps

\* completeLifecycle leaves a task alone that is recorded as completed.
ReadCompleted(p) ==
  /\ pc[p] = "completed"
  /\ IF tasks[TaskOf[claim[p]]].state = "COMPLETED" THEN Finish(p) ELSE Goto(p, "plan")
  /\ UNCHANGED <<projection, receipts, commits, answered>> /\ CallKeeps

\* Mutant: an empty plan goes on.
PlanEmpty(p) ==
  /\ pc[p] = "plan"
  /\ plan' = [plan EXCEPT ![p] = work] /\ pc' = [pc EXCEPT ![p] = "commit"]
  /\ UNCHANGED <<claim, renewed, projection, receipts, commits, answered>> /\ CallKeeps

\* The owned plan is read from the worktree; an empty one is an error.
Plan(p) ==
  /\ pc[p] = "plan" /\ work # NoWork
  /\ plan' = [plan EXCEPT ![p] = work] /\ pc' = [pc EXCEPT ![p] = "commit"]
  /\ UNCHANGED <<claim, renewed, projection, receipts, commits, answered>> /\ CallKeeps

\* RunPlan under the task's job id: a new commit, the one already there, or
\* an error when that one has other content.
CommitWork(p) ==
  LET t == TaskOf[claim[p]] IN
  /\ pc[p] = "commit"
  /\ commits' = [commits EXCEPT ![t] = IF @ = NoWork THEN plan[p] ELSE @]
  /\ IF commits[t] \in {NoWork, plan[p]} THEN Goto(p, "fact") ELSE Finish(p)
  /\ UNCHANGED <<projection, receipts, answered>> /\ CallKeeps

\* Mutant: readiness is not checked again.
MayCompleteReady(t) == tasks[t].candidate

\* The domain task.completed, one event per job: the first call to get here
\* decides, its own repetitions are duplicates, other claims are conflicts.
MayComplete(t) == tasks[t].candidate /\ CompletionConditions(t)
Fact(p) ==
  LET c == claim[p]
      t == TaskOf[c]
  IN /\ pc[p] = "fact" /\ factRow[t].disp = "none"
     /\ factRow' = [factRow EXCEPT ![t] =
          [claim |-> c, disp |-> IF MayComplete(t) THEN "accepted" ELSE "rejected"]]
     /\ IF MayComplete(t)
          THEN /\ tasks' = [tasks EXCEPT ![t].claim = TRUE, ![t].state = "COMPLETED"]
               /\ answered' = answered \cup {t}
          ELSE UNCHANGED <<tasks, answered>>
     /\ Finish(p)
     /\ UNCHANGED <<session, claimRow, candRow, commits>> /\ CallKeeps
FactAgain(p) ==
  LET c == claim[p]
      t == TaskOf[c]
  IN /\ pc[p] = "fact" /\ factRow[t].disp # "none"
     /\ answered' = IF factRow[t].claim = c THEN answered \cup {t} ELSE answered
     /\ Finish(p)
     /\ UNCHANGED <<projection, receipts, commits>> /\ CallKeeps

\* Tracking off, no completion profile, a failing guard, verifier or write,
\* a timeout, or the process dies.
CallEnds(p) ==
  /\ pc[p] # "idle"
  /\ Finish(p)
  /\ UNCHANGED <<projection, receipts, commits, answered>> /\ CallKeeps

-----------------------------------------------------------------------------
TaskReport(t) ==
  \/ TaskFailed(t) \/ ToolStarted(t) \/ ToolCompleted(t)
  \/ \E x \in Prompts, named \in BOOLEAN : PromptSubmitted(x, t, named)
Report ==
  \/ SessionStarted \/ SessionIdle \/ SessionEnded \/ Edit \/ FilesChanged
  \/ \E t \in Tasks : TaskReport(t)
Call(p) ==
  \/ \E c \in Claims : Claim(p, c) \/ ClaimRejected(p, c)
  \/ ReadEligible(p) \/ Candidate(p) \/ CandidateDuplicate(p) \/ ReadCompleted(p)
  \/ Plan(p) \/ CommitWork(p) \/ Fact(p) \/ FactAgain(p) \/ CallEnds(p)
Next == Report \/ \E p \in Proc : Call(p)
Spec == Init /\ [][Next]_vars

-----------------------------------------------------------------------------
\* The running tools of every task, numbered from 1.
RunningTools == {a \in Tasks \X (1 .. MaxTools) : Exists(a[1]) /\ a[2] <= tasks[a[1]].tools}

\* The session's count of running tools, which decides whether an idle
\* session waits, is the sum of the counts of its tasks.
ToolsAddUp == session.tools = Cardinality(RunningTools)

\* A task with a running tool or an open blocking prompt is never recorded
\* as completed, though the call that does so looked before it committed.
NoCompletionWhileBusy ==
  [][\A t \in Tasks :
        Exists(t) /\ Busy(t) /\ tasks[t].state # "COMPLETED"
        => tasks'[t].state # "COMPLETED"]_vars

\* Call p records the completion of its task.
Completes(p) ==
  LET t == TaskOf[claim[p]] IN
  /\ pc[p] = "fact" /\ pc'[p] = "idle"
  /\ factRow[t].disp = "none" /\ factRow'[t].disp = "accepted"

\* The commit of a task that call p completes holds all that is reported.
Covers(p) == commits[TaskOf[claim[p]]] >= reported

\* When a call completes a task that no other claim has promoted since the call
\* planned its commit, the commit holds every change that has been reported,
\* whatever was reported while it was made, by whichever call
\* (Reducer.apply: files.changed takes the flag completionEligible reads).
UnrenewedCompletionCovers ==
  [][\A p \in Proc : Completes(p) /\ p \notin renewed => Covers(p)]_vars

\* Without that condition: no completion rests on a plan from before the last
\* report ("A new event that changes the candidate tree MUST invalidate earlier
\* verification and commit-message evidence", FR-SES-007,
\* docs/product-requirements.md:117; "A new prompt or relevant file event
\* invalidates readiness immediately", docs/lifecycle.md:122).  The code does not
\* keep it: another claim makes the task ready again, and the call with the old
\* plan, which looks at the readiness only (app.go:285), completes it.
CompletionCoversReports == [][\A p \in Proc : Completes(p) => Covers(p)]_vars

\* SESSION_COMMITTED is answered only about work that is committed.
AnswerHasCommit == \A t \in answered : commits[t] # NoWork
=============================================================================
