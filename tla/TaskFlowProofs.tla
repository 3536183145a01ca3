--------------------------- MODULE TaskFlowProofs ---------------------------
(***************************************************************************)
(* Proofs about TaskFlow, for any number of hook calls, tasks, prompts and *)
(* claims.                                                                 *)
(*                                                                         *)
(* CallInv says what a hook call still knows of the projection and of the  *)
(* receipts it read some transactions ago.  TaskInv relates the receipts   *)
(* of a task, its commit and what was answered about it.  CoverInv says    *)
(* that the plan of a call whose task is ready, and has not been made      *)
(* ready again since, holds all that has been reported.                    *)
(***************************************************************************)
EXTENDS TaskFlow, FiniteSetTheorems, TLAPS

CallInv(p) ==
  /\ pc[p] \in {"candidate", "completed", "plan", "commit", "fact"} => Exists(TaskOf[claim[p]])
  /\ pc[p] \in {"completed", "plan", "commit", "fact"} => candRow[claim[p]] # "none"
  /\ pc[p] = "commit" => plan[p] # NoWork
  /\ pc[p] = "fact" => plan[p] # NoWork /\ commits[TaskOf[claim[p]]] = plan[p]

TaskInv(t) ==
  /\ commits[t] # NoWork => \E c \in Claims : TaskOf[c] = t /\ candRow[c] # "none"
  /\ t \in answered => commits[t] # NoWork
  /\ factRow[t].disp = "accepted" => commits[t] # NoWork

IInv ==
  /\ TypeOK
  /\ IsFiniteSet(RunningTools) /\ ToolsAddUp
  /\ \A p \in Proc : CallInv(p)
  /\ \A t \in Tasks : TaskInv(t)
  /\ reported <= work

CoverInv ==
  \A p \in Proc :
    pc[p] \in {"commit", "fact"} /\ p \notin renewed /\ tasks[TaskOf[claim[p]]].candidate =>
      plan[p] >= reported

(* Call p makes task t ready.                                              *)
Promotes(p, t) == Candidate(p) /\ TaskOf[claim[p]] = t /\ MayPromote(t)

-----------------------------------------------------------------------------
(* What a step may do to a task.  It stays, it becomes ready by a recorded *)
(* candidate only and remains ready only while nothing is reported, and it *)
(* is completed only under the conditions of completion.                   *)
Moves(t) ==
  /\ Exists(t) => tasks'[t] # NoTask
  /\ tasks'[t] # NoTask /\ tasks'[t].candidate =>
       \/ Exists(t) /\ tasks[t].candidate /\ reported' = reported
       \/ \E p \in Proc : Promotes(p, t)
  /\ Exists(t) /\ tasks'[t].state = "COMPLETED" =>
       tasks[t].state = "COMPLETED" \/ MayComplete(t)

ToolsOf(r) == IF r = NoTask THEN 0 ELSE r.tools

TaskStep ==
  /\ tasks' \in [Tasks -> TaskRecords \cup {NoTask}]
  /\ \A t \in Tasks : Moves(t)

SameTools == \A t \in Tasks : ToolsOf(tasks'[t]) = ToolsOf(tasks[t])

(* A record with another state, flag or count is a record.                 *)
LEMMA RecordUpdates ==
  ASSUME NEW r \in TaskRecords
  PROVE  /\ \A st \in TaskStates :
              LET s == [r EXCEPT !.state = st] IN
              s \in TaskRecords /\ s.state = st /\ s.candidate = r.candidate /\ s.tools = r.tools
         /\ \A n \in 0 .. MaxTools :
              LET s == [r EXCEPT !.tools = n] IN
              s \in TaskRecords /\ s.state = r.state /\ s.candidate = r.candidate /\ s.tools = n
         /\ \A st \in TaskStates :
              LET s == [r EXCEPT !.claim = TRUE, !.state = st] IN
              s \in TaskRecords /\ s.state = st /\ s.candidate = r.candidate /\ s.tools = r.tools
         /\ \A st \in TaskStates, b \in BOOLEAN :
              LET s == [r EXCEPT !.candidate = b, !.state = st] IN
              s \in TaskRecords /\ s.state = st /\ s.candidate = b /\ s.tools = r.tools
  BY DEF TaskRecords

(* So does a change of the state alone.                                    *)
LEMMA StateUpdates ==
  ASSUME NEW r \in TaskRecords, NEW st \in TaskStates
  PROVE  LET s == [r EXCEPT !.state = st] IN
         s \in TaskRecords /\ s.state = st /\ s.candidate = r.candidate /\ s.tools = r.tools
  BY DEF TaskRecords

(* And one that claims the task as well.                                   *)
LEMMA ClaimUpdates ==
  ASSUME NEW r \in TaskRecords, NEW st \in TaskStates
  PROVE  LET s == [r EXCEPT !.claim = TRUE, !.state = st] IN
         s \in TaskRecords /\ s.state = st /\ s.candidate = r.candidate /\ s.tools = r.tools
  BY DEF TaskRecords

(* What a new task starts with is a task.                                  *)
LEMMA NewTaskIsRecord ==
  /\ NewTask \in TaskRecords /\ NewTask.state = "ACTIVE"
  /\ NewTask.candidate = FALSE /\ NewTask.tools = 0
  BY TaskFlowAssumption DEF NewTask, TaskRecords, TaskStates

(* A step that writes the record of one task.                              *)
LEMMA OneTask ==
  ASSUME TypeOK, NEW t \in Tasks, NEW r \in TaskRecords, tasks' = [tasks EXCEPT ![t] = r],
         reported' = reported,
         r.candidate => \/ Exists(t) /\ tasks[t].candidate
                        \/ \E p \in Proc : Promotes(p, t),
         Exists(t) /\ r.state = "COMPLETED" => tasks[t].state = "COMPLETED" \/ MayComplete(t)
  PROVE  /\ TaskStep
         /\ tasks'[t] = r /\ \A u \in Tasks : u # t => tasks'[u] = tasks[u]
         /\ ToolsOf(r) = ToolsOf(tasks[t]) => SameTools
<1>1. tasks \in [Tasks -> TaskRecords \cup {NoTask}]
  BY DEF TypeOK
<1>2. /\ tasks' \in [Tasks -> TaskRecords \cup {NoTask}] /\ tasks'[t] = r
      /\ \A u \in Tasks : u # t => tasks'[u] = tasks[u]
  BY <1>1
<1>3. r # NoTask
  BY TaskFlowAssumption
<1>4. Moves(t)
  BY <1>2, <1>3, Zenon DEF Moves
<1>5. \A u \in Tasks : u # t => Moves(u)
  BY <1>2, Zenon DEF Moves, Exists
<1>6. TaskStep
  BY <1>2, <1>4, <1>5 DEF TaskStep
<1>7. ToolsOf(r) = ToolsOf(tasks[t]) => SameTools
  BY <1>2 DEF SameTools
<1> QED
  BY <1>2, <1>6, <1>7

(* A step that leaves the tasks alone.                                     *)
LEMMA NoTaskMoves ==
  ASSUME TypeOK, tasks' = tasks, reported' = reported
  PROVE  TaskStep /\ SameTools
<1>1. tasks' \in [Tasks -> TaskRecords \cup {NoTask}]
  BY DEF TypeOK
<1>2. \A t \in Tasks : Moves(t)
  BY Zenon DEF Moves, Exists
<1> QED
  BY <1>1, <1>2 DEF TaskStep, SameTools

(* What exists has a record.                                               *)
LEMMA ExistsIsRecord ==
  ASSUME TypeOK, NEW t \in Tasks
  PROVE  /\ Exists(t) => tasks[t] \in TaskRecords /\ ToolsOf(tasks[t]) = tasks[t].tools
         /\ ~Exists(t) => ToolsOf(tasks[t]) = 0
         /\ \A r \in TaskRecords : r # NoTask /\ ToolsOf(r) = r.tools
  BY TaskFlowAssumption DEF TypeOK, Exists, ToolsOf

(* The session goes to another state and keeps its count of tools.         *)
LEMMA SessionGoes ==
  ASSUME TypeOK, NEW st \in SessionStates, session' = [session EXCEPT !.state = st]
  PROVE  session' \in [state : SessionStates, tools : Nat] /\ session'.tools = session.tools
  BY DEF TypeOK

(* What all steps but the start and the end of a tool do.                  *)
Ordinary ==
  /\ TaskStep /\ SameTools
  /\ session' \in [state : SessionStates, tools : Nat] /\ session'.tools = session.tools

(* The reports about a session or a task.                                  *)
LEMMA ReportMoves ==
  ASSUME TypeOK
  PROVE  /\ SessionStarted \/ SessionIdle \/ SessionEnded \/ Edit => Ordinary
         /\ \A t \in Tasks : TaskFailed(t) => Ordinary
<1> USE DEF SessionStates, TaskStates
<1>0. session \in [state : SessionStates, tools : Nat]
  BY DEF TypeOK
<1>1. ASSUME NEW t \in Tasks, TaskStarted(t) PROVE Ordinary
  <2> DEFINE r == IF Exists(t) THEN [tasks[t] EXCEPT !.state = "ACTIVE"] ELSE NewTask
  <2>1. /\ r \in TaskRecords /\ r.state = "ACTIVE" /\ ToolsOf(r) = ToolsOf(tasks[t])
        /\ r.candidate => Exists(t) /\ tasks[t].candidate
    <3>1. CASE Exists(t)
      <4> DEFINE s == [tasks[t] EXCEPT !.state = "ACTIVE"]
      <4>1. tasks[t] \in TaskRecords /\ "ACTIVE" \in TaskStates
        BY <3>1, ExistsIsRecord
      <4>2. /\ s \in TaskRecords /\ s.state = "ACTIVE" /\ s.tools = tasks[t].tools
            /\ s.candidate = tasks[t].candidate
        BY <4>1, StateUpdates
      <4>3. r = s
        BY <3>1
      <4> HIDE DEF s, r
      <4> QED
        BY <3>1, <4>2, <4>3, ExistsIsRecord
    <3>2. CASE ~Exists(t)
      <4>1. r = NewTask
        BY <3>2
      <4> QED
        BY <3>2, <4>1, ExistsIsRecord, NewTaskIsRecord
    <3> QED
      BY <3>1, <3>2
  <2>2. tasks' = [tasks EXCEPT ![t] = r] /\ reported' = reported
    BY <1>1 DEF TaskStarted, Start, KeepsWork
  <2> HIDE DEF r
  <2>3. TaskStep /\ SameTools
    BY <2>1, <2>2, OneTask
  <2> QED
    BY <1>1, <2>3, SessionGoes DEF TaskStarted, Ordinary
<1>2. ASSUME tasks' = tasks, reported' = reported,
             session' = session \/ \E st \in SessionStates : session' = [session EXCEPT !.state = st]
      PROVE  Ordinary
  BY <1>0, <1>2, NoTaskMoves, SessionGoes DEF Ordinary
<1>3. CASE SessionStarted
  BY <1>1, <1>2, <1>3 DEF SessionStarted, KeepsWork
<1>4. CASE SessionIdle
  BY <1>2, <1>4 DEF SessionIdle, KeepsWork
<1>5. CASE SessionEnded \/ Edit
  BY <1>2, <1>5 DEF SessionEnded, Edit, KeepsWork, projection
<1>6. ASSUME NEW t \in Tasks, TaskFailed(t) PROVE Ordinary
  <2> DEFINE r == [tasks[t] EXCEPT !.state = "FAILED"]
  <2>1. Exists(t) /\ tasks[t] \in TaskRecords
    BY <1>6, ExistsIsRecord DEF TaskFailed
  <2>2. /\ r \in TaskRecords /\ r.state = "FAILED" /\ r.tools = tasks[t].tools
        /\ r.candidate = tasks[t].candidate
    <3>1. "FAILED" \in TaskStates
      OBVIOUS
    <3> HIDE DEF TaskStates
    <3> QED
      BY <2>1, <3>1, StateUpdates
  <2>3. tasks' = [tasks EXCEPT ![t] = r] /\ reported' = reported /\ session' = session
    BY <1>6 DEF TaskFailed, KeepsWork
  <2> HIDE DEF r
  <2>4. ToolsOf(r) = ToolsOf(tasks[t])
    BY <2>1, <2>2, ExistsIsRecord
  <2>5. TaskStep /\ SameTools
    BY <2>1, <2>2, <2>3, <2>4, OneTask
  <2> QED
    BY <1>0, <2>3, <2>5 DEF Ordinary
<1> QED
  BY <1>3, <1>4, <1>5, <1>6

(* A file event takes readiness from every task.                           *)
LEMMA FilesMoves ==
  ASSUME TypeOK, FilesChanged
  PROVE  Ordinary
<1>0. tasks \in [Tasks -> TaskRecords \cup {NoTask}]
  BY DEF TypeOK
<1>1. ASSUME NEW t \in Tasks
      PROVE  /\ tasks'[t] \in TaskRecords \cup {NoTask}
             /\ Moves(t) /\ ToolsOf(tasks'[t]) = ToolsOf(tasks[t])
  <2>1. CASE ~Exists(t)
    <3>1. tasks'[t] = NoTask /\ tasks[t] = NoTask
      BY <2>1 DEF FilesChanged, Exists
    <3> QED
      BY <2>1, <3>1 DEF Moves
  <2>2. CASE Exists(t)
    <3> DEFINE st == IF tasks[t].state = "COMPLETION_CANDIDATE" THEN "ACTIVE" ELSE tasks[t].state
               r == [tasks[t] EXCEPT !.candidate = FALSE, !.state = st]
    <3>1. tasks[t] \in TaskRecords /\ st \in TaskStates
      BY <2>2, ExistsIsRecord DEF TaskRecords, TaskStates
    <3>2. tasks'[t] = r
      BY <2>2, <3>1 DEF FilesChanged, Unready, TaskRecords
    <3>3. st = "COMPLETED" => tasks[t].state = "COMPLETED"
      OBVIOUS
    <3> HIDE DEF st
    <3>4. /\ r \in TaskRecords /\ r.state = st /\ r.candidate = FALSE /\ r.tools = tasks[t].tools
      BY <3>1, RecordUpdates
    <3> HIDE DEF r
    <3>5. r # NoTask
      BY <3>4, TaskFlowAssumption
    <3>6. Moves(t)
      BY <3>2, <3>3, <3>4, <3>5 DEF Moves
    <3> QED
      BY <2>2, <3>2, <3>4, <3>6, ExistsIsRecord
  <2> QED
    BY <2>1, <2>2
<1>2. tasks' \in [Tasks -> TaskRecords \cup {NoTask}]
  <2>1. tasks' = [t \in Tasks |-> tasks'[t]]
    BY DEF FilesChanged
  <2> QED
    BY <1>1, <2>1
<1> QED
  BY <1>1, <1>2 DEF Ordinary, TaskStep, SameTools, TypeOK, FilesChanged

(* A prompt takes readiness, and gives none.                               *)
LEMMA PromptMoves ==
  ASSUME TypeOK, NEW x \in Prompts, NEW t \in Tasks, NEW named \in BOOLEAN,
         PromptSubmitted(x, t, named)
  PROVE  Ordinary /\ prompts' \in [Prompts -> PromptRecords \cup {NoPrompt}]
<1> DEFINE state == IF queue = "none" THEN "PRESENTED" ELSE "QUEUED"
           known == IF named \/ Exists(t) THEN tasks ELSE [tasks EXCEPT ![t] = NewTask]
<1>0. /\ tasks \in [Tasks -> TaskRecords \cup {NoTask}] /\ reported' = reported
      /\ prompts \in [Prompts -> PromptRecords \cup {NoPrompt}]
      /\ session \in [state : SessionStates, tools : Nat]
  BY DEF TypeOK, PromptSubmitted, KeepsWork
<1>1. PICK p \in IF prompts[x] = NoPrompt
                 THEN [task : {t}, state : {state}, blocking : BOOLEAN]
                 ELSE {[prompts[x] EXCEPT !.state = state]} :
          /\ prompts' = [prompts EXCEPT ![x] = p]
          /\ IF p.blocking /\ known[p.task] # NoTask
               THEN /\ tasks' = [known EXCEPT ![p.task].state = "WAITING_PROMPT",
                                              ![p.task].candidate = FALSE]
                    /\ session' = [session EXCEPT !.state = "WAITING_PROMPT"]
               ELSE tasks' = known /\ UNCHANGED session
  BY DEF PromptSubmitted
<1>2. state \in {"QUEUED", "PRESENTED"}
  OBVIOUS
<1> HIDE DEF state
<1>3. p \in PromptRecords
  <2>1. CASE prompts[x] = NoPrompt
    BY <1>1, <1>2, <2>1 DEF PromptRecords
  <2>2. CASE prompts[x] # NoPrompt
    <3>1. prompts[x] \in PromptRecords /\ p = [prompts[x] EXCEPT !.state = state]
      BY <1>0, <1>1, <2>2
    <3> QED
      BY <1>2, <3>1 DEF PromptRecords
  <2> QED
    BY <2>1, <2>2
<1>4. p.task \in Tasks
  BY <1>3 DEF PromptRecords
<1>5. prompts' \in [Prompts -> PromptRecords \cup {NoPrompt}]
  BY <1>0, <1>1, <1>3
<1>6. /\ known \in [Tasks -> TaskRecords \cup {NoTask}]
      /\ \A u \in Tasks : known[u] = tasks[u] \/ (~Exists(u) /\ known[u] = NewTask)
  BY <1>0, NewTaskIsRecord
<1> HIDE DEF known
<1>7. ASSUME NEW u \in Tasks
      PROVE  /\ tasks'[u] \in TaskRecords \cup {NoTask}
             /\ \/ tasks'[u] = known[u]
                \/ /\ known[u] \in TaskRecords
                   /\ tasks'[u] = [known[u] EXCEPT !.candidate = FALSE, !.state = "WAITING_PROMPT"]
  <2>1. CASE tasks' = known
    BY <1>6, <2>1
  <2>2. CASE known[p.task] # NoTask /\ tasks' = [known EXCEPT ![p.task].state = "WAITING_PROMPT",
                                                              ![p.task].candidate = FALSE]
    <3> DEFINE r == [known[p.task] EXCEPT !.candidate = FALSE, !.state = "WAITING_PROMPT"]
               s == [known[p.task] EXCEPT !.state = "WAITING_PROMPT", !.candidate = FALSE]
    <3>1. known[p.task] \in TaskRecords
      BY <1>4, <1>6, <2>2
    <3>2. r \in TaskRecords
      BY <3>1, RecordUpdates DEF TaskStates
    <3>3. tasks' = [known EXCEPT ![p.task] = s]
      BY <2>2
    <3>4. s = r
      BY <3>1 DEF TaskRecords
    <3>5. tasks' = [known EXCEPT ![p.task] = r]
      BY <3>3, <3>4
    <3> HIDE DEF r, s
    <3>6. u = p.task => tasks'[u] = r
      BY <1>6, <3>5
    <3>7. u # p.task => tasks'[u] = known[u]
      BY <1>6, <3>5
    <3> QED
      BY <1>6, <3>1, <3>2, <3>6, <3>7 DEF r
  <2> QED
    BY <1>1, <2>1, <2>2
<1>8. DOMAIN tasks' = Tasks /\ tasks' = [u \in Tasks |-> tasks'[u]]
  BY <1>1, <1>6
<1>9. ASSUME NEW u \in Tasks
      PROVE  Moves(u) /\ ToolsOf(tasks'[u]) = ToolsOf(tasks[u])
  <2>1. CASE tasks'[u] = known[u]
    <3>1. CASE known[u] = tasks[u]
      BY <1>0, <2>1, <3>1, Zenon DEF Moves, Exists
    <3>2. CASE ~Exists(u) /\ known[u] = NewTask
      BY <2>1, <3>2, NewTaskIsRecord, ExistsIsRecord DEF Moves
    <3> QED
      BY <1>6, <3>1, <3>2
  <2>2. ASSUME known[u] \in TaskRecords,
               tasks'[u] = [known[u] EXCEPT !.candidate = FALSE, !.state = "WAITING_PROMPT"]
        PROVE  Moves(u) /\ ToolsOf(tasks'[u]) = ToolsOf(tasks[u])
    <3> DEFINE r == [known[u] EXCEPT !.candidate = FALSE, !.state = "WAITING_PROMPT"]
    <3>1. /\ r \in TaskRecords /\ r.state = "WAITING_PROMPT" /\ r.candidate = FALSE
          /\ r.tools = known[u].tools
      BY <2>2, RecordUpdates DEF TaskStates
    <3>2. tasks'[u] = r
      BY <2>2
    <3> HIDE DEF r
    <3>3. r # NoTask /\ known[u] # NoTask
      BY <2>2, <3>1, TaskFlowAssumption
    <3>4. Moves(u)
      BY <3>1, <3>2, <3>3 DEF Moves
    <3>5. ToolsOf(known[u]) = ToolsOf(tasks[u])
      BY <1>6, NewTaskIsRecord, ExistsIsRecord
    <3> QED
      BY <3>1, <3>2, <3>3, <3>4, <3>5 DEF ToolsOf
  <2> QED
    BY <1>7, <2>1, <2>2
<1>10. session' \in [state : SessionStates, tools : Nat] /\ session'.tools = session.tools
  BY <1>0, <1>1, SessionGoes DEF SessionStates
<1> QED
  BY <1>5, <1>7, <1>8, <1>9, <1>10 DEF Ordinary, TaskStep, SameTools

-----------------------------------------------------------------------------
(* The steps of a hook call, as far as they concern the tasks.             *)
LEMMA CallMoves ==
  ASSUME IInv, NEW p \in Proc, Call(p)
  PROVE  Ordinary /\ reported' = reported /\ work' = work /\ queue' = queue /\ prompts' = prompts
<1> USE DEF SessionStates, TaskStates
<1>0. /\ TypeOK /\ CallInv(p) /\ session \in [state : SessionStates, tools : Nat]
      /\ claim[p] \in Claims \cup {NoClaim} /\ (claim[p] = NoClaim <=> pc[p] = "idle")
  BY DEF IInv, TypeOK
<1>1. reported' = reported /\ work' = work /\ queue' = queue /\ prompts' = prompts
  BY DEF Call, Claim, ClaimRejected, ReadEligible, Candidate, CandidateDuplicate, ReadCompleted,
     Plan, CommitWork, Fact, FactAgain, CallEnds, CallKeeps, projection
<1>2. ASSUME tasks' = tasks, session' = session PROVE Ordinary
  BY <1>0, <1>1, <1>2, NoTaskMoves DEF Ordinary
<1>3. ASSUME NEW c \in Claims, Claim(p, c) PROVE Ordinary
  <2> DEFINE t == TaskOf[c]
  <2>1. CASE claimRow[c] # "none"
    BY <1>2, <1>3, <2>1 DEF Claim
  <2>2. CASE claimRow[c] = "none"
    <3>1. t \in Tasks /\ Exists(t) /\ tasks[t] \in TaskRecords
      BY <1>0, <1>3, <2>2, ExistsIsRecord, TaskFlowAssumption DEF Claim
    <3> HIDE DEF t
    <3> DEFINE st == IF Busy(t) THEN "WAITING_PROMPT" ELSE tasks[t].state
               r == [tasks[t] EXCEPT !.claim = TRUE, !.state = st]
    <3>2. st \in TaskStates /\ (st = "COMPLETED" => tasks[t].state = "COMPLETED")
      BY <3>1 DEF TaskRecords
    <3>3. tasks' = [tasks EXCEPT ![t] = r]
      BY <1>3, <2>2, <3>1 DEF Claim, t, TaskRecords
    <3> HIDE DEF st
    <3>4. /\ r \in TaskRecords /\ r.state = st /\ r.candidate = tasks[t].candidate
          /\ r.tools = tasks[t].tools
      BY <3>1, <3>2 DEF TaskRecords
    <3> HIDE DEF r
    <3>5. ToolsOf(r) = ToolsOf(tasks[t])
      BY <1>0, <3>1, <3>4, ExistsIsRecord
    <3>6. TaskStep /\ SameTools
      BY <1>0, <1>1, <3>1, <3>2, <3>3, <3>4, <3>5, OneTask
    <3>7. \E x \in SessionStates : session' = [session EXCEPT !.state = x]
      BY <1>3, <2>2 DEF Claim
    <3> QED
      BY <1>0, <3>6, <3>7, SessionGoes DEF Ordinary
  <2> QED
    BY <2>1, <2>2
<1>4. CASE Candidate(p)
  <2> DEFINE t == TaskOf[claim[p]]
             r == [tasks[t] EXCEPT !.candidate = TRUE, !.state = "COMPLETION_CANDIDATE"]
  <2>1. CASE ~MayPromote(t)
    BY <1>1, <1>2, <1>4, <2>1 DEF Candidate
  <2>2. CASE MayPromote(t)
    <3>1. claim[p] \in Claims
      BY <1>0, <1>4 DEF Candidate
    <3>2. t \in Tasks /\ Exists(t) /\ tasks[t] \in TaskRecords
      BY <1>0, <2>2, <3>1, ExistsIsRecord, TaskFlowAssumption DEF MayPromote
    <3>3. tasks' = [tasks EXCEPT ![t] = r]
      BY <1>4, <2>2 DEF Candidate
    <3>4. session' = [session EXCEPT !.state = "COMPLETION_CANDIDATE"]
      BY <1>4, <2>2 DEF Candidate
    <3>5. /\ r \in TaskRecords /\ r.state = "COMPLETION_CANDIDATE" /\ r.tools = tasks[t].tools
      BY <3>2, RecordUpdates
    <3>6. Promotes(p, t)
      BY <1>4, <2>2 DEF Promotes
    <3> HIDE DEF r, t
    <3>7. ToolsOf(r) = ToolsOf(tasks[t])
      BY <1>0, <3>2, <3>5, ExistsIsRecord
    <3>8. TaskStep /\ SameTools
      BY <1>0, <1>1, <3>2, <3>3, <3>5, <3>6, <3>7, OneTask
    <3> QED
      BY <1>1, <1>0, <3>4, <3>8, SessionGoes DEF Ordinary
  <2> QED
    BY <2>1, <2>2
<1>5. CASE Fact(p)
  <2> DEFINE t == TaskOf[claim[p]]
             r == [tasks[t] EXCEPT !.claim = TRUE, !.state = "COMPLETED"]
  <2>1. CASE ~MayComplete(t)
    BY <1>1, <1>2, <1>5, <2>1 DEF Fact
  <2>2. CASE MayComplete(t)
    <3>1. claim[p] \in Claims /\ Exists(t)
      BY <1>0, <1>5 DEF Fact, CallInv
    <3>2. t \in Tasks /\ tasks[t] \in TaskRecords
      BY <1>0, <3>1, ExistsIsRecord, TaskFlowAssumption
    <3>3. tasks' = [tasks EXCEPT ![t] = r] /\ session' = session
      BY <1>5, <2>2 DEF Fact
    <3>4. /\ r \in TaskRecords /\ r.state = "COMPLETED" /\ r.tools = tasks[t].tools
          /\ r.candidate = tasks[t].candidate
      <4>1. "COMPLETED" \in TaskStates
        BY DEF TaskStates
      <4> HIDE DEF TaskStates
      <4> QED
        BY <3>2, <4>1, ClaimUpdates
    <3>5. Exists(t) /\ MayComplete(t)
      BY <2>2, <3>1
    <3> HIDE DEF r, t
    <3>6. ToolsOf(r) = ToolsOf(tasks[t])
      BY <1>0, <3>2, <3>4, <3>5, ExistsIsRecord
    <3>7. TaskStep /\ SameTools
      BY <1>0, <1>1, <3>2, <3>3, <3>4, <3>5, <3>6, OneTask
    <3> QED
      BY <1>1, <1>0, <3>3, <3>7 DEF Ordinary
  <2> QED
    BY <2>1, <2>2
<1>6. ASSUME Call(p), ~(\E c \in Claims : Claim(p, c)), ~Candidate(p), ~Fact(p) PROVE Ordinary
  BY <1>2, <1>6 DEF Call, ClaimRejected, ReadEligible, CandidateDuplicate, ReadCompleted,
     Plan, CommitWork, FactAgain, CallEnds, projection
<1> QED
  BY <1>1, <1>3, <1>4, <1>5, <1>6

(* A tool starts or ends: one task's count and the session's move alike.   *)
LEMMA ToolMoves ==
  ASSUME IInv, NEW t \in Tasks, ToolStarted(t) \/ ToolCompleted(t)
  PROVE  /\ TaskStep /\ session' \in [state : SessionStates, tools : Nat]
         /\ IsFiniteSet(RunningTools)' /\ ToolsAddUp'
<1>0. TypeOK /\ session \in [state : SessionStates, tools : Nat]
      /\ IsFiniteSet(RunningTools) /\ session.tools = Cardinality(RunningTools)
  BY DEF IInv, TypeOK, ToolsAddUp
<1>1. Exists(t) /\ tasks[t] \in TaskRecords
  BY <1>0, ExistsIsRecord DEF ToolStarted, ToolCompleted
<1>2. tasks[t].tools \in 0 .. MaxTools /\ MaxTools \in Nat
  BY <1>1, TaskFlowAssumption DEF TaskRecords
<1>3. reported' = reported
  BY DEF ToolStarted, ToolCompleted, KeepsWork
<1>4. ASSUME NEW n \in 0 .. MaxTools, tasks' = [tasks EXCEPT ![t] = [tasks[t] EXCEPT !.tools = n]]
      PROVE  /\ TaskStep
             /\ \A u \in Tasks : u # t => tasks'[u] = tasks[u]
             /\ tasks'[t] # NoTask /\ tasks'[t].tools = n
  <2> DEFINE r == [tasks[t] EXCEPT !.tools = n]
  <2>1. /\ r \in TaskRecords /\ r.state = tasks[t].state /\ r.candidate = tasks[t].candidate
        /\ r.tools = n /\ tasks' = [tasks EXCEPT ![t] = r]
    BY <1>1, <1>4 DEF TaskRecords
  <2> HIDE DEF r
  <2>2. r # NoTask
    BY <2>1, TaskFlowAssumption
  <2>3. TaskStep /\ tasks'[t] = r /\ \A u \in Tasks : u # t => tasks'[u] = tasks[u]
    BY <1>0, <1>1, <1>3, <2>1, OneTask
  <2> QED
    BY <2>1, <2>2, <2>3
<1>5. CASE ToolStarted(t)
  <2> DEFINE n == tasks[t].tools + 1
  <2>1. n \in 0 .. MaxTools
    BY <1>2, <1>5 DEF ToolStarted
  <2>2. tasks' = [tasks EXCEPT ![t] = [tasks[t] EXCEPT !.tools = n]]
    BY <1>5 DEF ToolStarted
  <2>3. /\ session' \in [state : SessionStates, tools : Nat]
        /\ session'.tools = session.tools + 1
    BY <1>0, <1>5 DEF ToolStarted
  <2>4. /\ TaskStep
        /\ \A u \in Tasks : u # t => tasks'[u] = tasks[u]
        /\ tasks'[t] # NoTask /\ tasks'[t].tools = n
    BY <1>4, <2>1, <2>2
  <2>5. RunningTools' = RunningTools \cup {<<t, n>>} /\ <<t, n>> \notin RunningTools
    <3>1. ASSUME NEW a \in Tasks \X (1 .. MaxTools)
          PROVE  a \in RunningTools' <=> a \in RunningTools \/ a = <<t, n>>
      <4>1. a[1] \in Tasks /\ a[2] \in 1 .. MaxTools /\ a = <<a[1], a[2]>>
        OBVIOUS
      <4>2. CASE a[1] # t
        BY <2>4, <4>1, <4>2 DEF RunningTools, Exists
      <4>3. CASE a[1] = t
        <5>1. a \in RunningTools' <=> a[2] <= n
          BY <2>4, <4>3 DEF RunningTools, Exists
        <5>2. a \in RunningTools <=> a[2] <= tasks[t].tools
          BY <1>1, <4>3 DEF RunningTools
        <5>3. a[2] <= n <=> a[2] <= tasks[t].tools \/ a[2] = n
          BY <1>2, <4>1
        <5> QED
          BY <4>1, <4>3, <5>1, <5>2, <5>3
      <4> QED
        BY <4>2, <4>3
    <3>2. n \in 1 .. MaxTools /\ <<t, n>> \in Tasks \X (1 .. MaxTools)
      BY <1>2, <2>1
    <3>3. <<t, n>> \notin RunningTools
      BY <1>2 DEF RunningTools
    <3> QED
      BY <3>1, <3>2, <3>3 DEF RunningTools
  <2>6. IsFiniteSet(RunningTools') /\ Cardinality(RunningTools') = Cardinality(RunningTools) + 1
    BY <1>0, <2>5, FS_AddElement
  <2> QED
    BY <1>0, <2>3, <2>4, <2>6 DEF ToolsAddUp
<1>6. CASE ToolCompleted(t)
  <2> DEFINE n == tasks[t].tools - 1
             m == tasks[t].tools
  <2>1. n \in 0 .. MaxTools /\ m \in 1 .. MaxTools
    BY <1>2, <1>6 DEF ToolCompleted
  <2>2. tasks' = [tasks EXCEPT ![t] = [tasks[t] EXCEPT !.tools = n]]
    BY <1>6 DEF ToolCompleted
  <2>3. /\ session' \in [state : SessionStates, tools : Nat]
        /\ session.tools > 0 => session'.tools = session.tools - 1
    BY <1>0, <1>6 DEF ToolCompleted
  <2>4. /\ TaskStep
        /\ \A u \in Tasks : u # t => tasks'[u] = tasks[u]
        /\ tasks'[t] # NoTask /\ tasks'[t].tools = n
    BY <1>4, <2>1, <2>2
  <2>5. RunningTools' = RunningTools \ {<<t, m>>} /\ <<t, m>> \in RunningTools
    <3>1. ASSUME NEW a \in Tasks \X (1 .. MaxTools)
          PROVE  a \in RunningTools' <=> a \in RunningTools /\ a # <<t, m>>
      <4>1. a[1] \in Tasks /\ a[2] \in 1 .. MaxTools /\ a = <<a[1], a[2]>>
        OBVIOUS
      <4>2. CASE a[1] # t
        BY <2>4, <4>1, <4>2 DEF RunningTools, Exists
      <4>3. CASE a[1] = t
        <5>1. a \in RunningTools' <=> a[2] <= n
          BY <2>4, <4>3 DEF RunningTools, Exists
        <5>2. a \in RunningTools <=> a[2] <= m
          BY <1>1, <4>3 DEF RunningTools
        <5>3. a[2] <= n <=> a[2] <= m /\ a[2] # m
          BY <1>2, <4>1
        <5> QED
          BY <4>1, <4>3, <5>1, <5>2, <5>3
      <4> QED
        BY <4>2, <4>3
    <3>2. <<t, m>> \in Tasks \X (1 .. MaxTools)
      BY <2>1
    <3>3. <<t, m>> \in RunningTools
      BY <1>1, <2>1, <3>2 DEF RunningTools
    <3> QED
      BY <3>1, <3>2, <3>3 DEF RunningTools
  <2>6. IsFiniteSet(RunningTools') /\ Cardinality(RunningTools') = Cardinality(RunningTools) - 1
    BY <1>0, <2>5, FS_RemoveElement
  <2>7. Cardinality(RunningTools) > 0
    <3>1. Cardinality(RunningTools) \in Nat /\ (Cardinality(RunningTools) = 0 <=> RunningTools = {})
      BY <1>0, FS_CardinalityType, FS_EmptySet
    <3> QED
      BY <2>5, <3>1
  <2> QED
    BY <1>0, <2>3, <2>4, <2>6, <2>7 DEF ToolsAddUp
<1> QED
  BY <1>5, <1>6

(* Every step keeps the tasks in shape and the tools in sum.               *)
LEMMA StepMoves ==
  ASSUME IInv, [Next]_vars
  PROVE  /\ TaskStep /\ session' \in [state : SessionStates, tools : Nat]
         /\ IsFiniteSet(RunningTools)' /\ ToolsAddUp'
<1> DEFINE G == /\ TaskStep /\ session' \in [state : SessionStates, tools : Nat]
                /\ IsFiniteSet(RunningTools)' /\ ToolsAddUp'
<1>0. TypeOK /\ tasks \in [Tasks -> TaskRecords \cup {NoTask}] /\ MaxTools \in Nat
  BY TaskFlowAssumption DEF IInv, TypeOK
<1>1. ASSUME Ordinary PROVE G
  <2>1. RunningTools' = RunningTools
    <3>1. ASSUME NEW t \in Tasks, NEW n \in 1 .. MaxTools
          PROVE  (tasks'[t] # NoTask /\ n <= tasks'[t].tools)
                   <=> (tasks[t] # NoTask /\ n <= tasks[t].tools)
      <4>1. ToolsOf(tasks'[t]) = ToolsOf(tasks[t])
        BY <1>1 DEF Ordinary, SameTools
      <4>2. ~(n <= 0)
        BY <1>0
      <4> QED
        BY <4>1, <4>2 DEF ToolsOf
    <3>2. \A a \in Tasks \X (1 .. MaxTools) : a[1] \in Tasks /\ a[2] \in 1 .. MaxTools
      OBVIOUS
    <3> QED
      BY <3>1, <3>2 DEF RunningTools, Exists
  <2> QED
    BY <1>1, <2>1 DEF Ordinary, IInv, ToolsAddUp
<1>2. CASE UNCHANGED vars
  <2>1. tasks' = tasks /\ session' = session /\ reported' = reported
    BY <1>2 DEF vars, projection, history
  <2>2. Ordinary
    BY <1>0, <2>1, NoTaskMoves DEF Ordinary, TypeOK
  <2> QED
    BY <1>1, <2>2
<1>3. CASE \E p \in Proc : Call(p)
  BY <1>1, <1>3, CallMoves
<1>4. CASE Report
  <2>1. ASSUME NEW t \in Tasks, TaskReport(t) PROVE G
    BY <1>0, <1>1, <2>1, ReportMoves, PromptMoves, ToolMoves DEF TaskReport
  <2> QED
    BY <1>0, <1>1, <1>4, <2>1, ReportMoves, FilesMoves DEF Report
<1> QED
  BY <1>2, <1>3, <1>4 DEF Next

(* A report leaves the calls, their receipts and the commits alone.        *)
LEMMA ReportLeaves ==
  ASSUME IInv, Report \/ UNCHANGED vars
  PROVE  /\ UNCHANGED <<queue, claimRow, candRow, factRow, commits, pc, claim, plan, renewed, answered>>
         /\ prompts' \in [Prompts -> PromptRecords \cup {NoPrompt}]
         /\ work' \in Works /\ reported' \in Works /\ reported' <= work'
<1>0. /\ TypeOK /\ prompts \in [Prompts -> PromptRecords \cup {NoPrompt}]
      /\ work \in Works /\ reported \in Works /\ reported <= work /\ MaxWork \in Nat
  BY TaskFlowAssumption DEF IInv, TypeOK
<1>1. UNCHANGED <<queue, claimRow, candRow, factRow, commits, pc, claim, plan, renewed, answered>>
  BY DEF Report, SessionStarted, TaskStarted, SessionIdle, SessionEnded, Edit, FilesChanged,
     TaskReport, TaskFailed, ToolStarted, ToolCompleted, PromptSubmitted, ReportKeeps, vars,
     receipts, calls, history
<1>2. \/ prompts' = prompts
      \/ \E t \in Tasks, x \in Prompts, named \in BOOLEAN : PromptSubmitted(x, t, named)
  BY DEF Report, SessionStarted, TaskStarted, SessionIdle, SessionEnded, Edit, FilesChanged,
     TaskReport, TaskFailed, ToolStarted, ToolCompleted, projection, vars
<1>3. prompts' \in [Prompts -> PromptRecords \cup {NoPrompt}]
  BY <1>0, <1>2, PromptMoves
<1>4. \/ work' = work /\ reported' = reported
      \/ work' = work /\ reported' = work
      \/ work < MaxWork /\ work' = work + 1 /\ reported' = reported
  BY DEF Report, SessionStarted, TaskStarted, SessionIdle, SessionEnded, Edit, FilesChanged,
     TaskReport, TaskFailed, ToolStarted, ToolCompleted, PromptSubmitted, KeepsWork, vars, history
<1>5. work' \in Works /\ reported' \in Works /\ reported' <= work'
  BY <1>0, <1>4 DEF Works
<1> QED
  BY <1>1, <1>3, <1>5

(* A call moves itself only.                                               *)
LEMMA CallIsOwn ==
  ASSUME IInv, NEW p \in Proc, Call(p)
  PROVE  /\ \A q \in Proc : q # p => pc'[q] = pc[q] /\ claim'[q] = claim[q] /\ plan'[q] = plan[q]
         /\ renewed' \subseteq Proc
         /\ \A q \in renewed : q \notin renewed' => q = p /\ pc'[q] = "idle"
<1> DEFINE Own == \A q \in Proc : q # p =>
                    pc'[q] = pc[q] /\ claim'[q] = claim[q] /\ plan'[q] = plan[q]
           Old == /\ renewed' \subseteq Proc
                  /\ \A q \in renewed : q \notin renewed' => q = p /\ pc'[q] = "idle"
<1>0. /\ pc \in [Proc -> Pcs] /\ claim \in [Proc -> Claims \cup {NoClaim}]
      /\ plan \in [Proc -> Works] /\ renewed \subseteq Proc
  BY DEF IInv, TypeOK
<1>1. ASSUME NEW l, Goto(p, l)
      PROVE  Own /\ Old
  BY <1>0, <1>1 DEF Goto
<1>2. ASSUME Finish(p)
      PROVE  Own /\ Old
  BY <1>0, <1>2 DEF Finish
<1>3. CASE \E c \in Claims : Claim(p, c) \/ ClaimRejected(p, c)
  BY <1>0, <1>3 DEF Claim, ClaimRejected, calls
<1>4. CASE ReadEligible(p) \/ CandidateDuplicate(p) \/ ReadCompleted(p)
  BY <1>1, <1>2, <1>4 DEF ReadEligible, CandidateDuplicate, ReadCompleted
<1>7. CASE Candidate(p)
  BY <1>0, <1>2, <1>7 DEF Candidate, Planned
<1>5. CASE Plan(p)
  BY <1>0, <1>5 DEF Plan
<1>6. CASE CommitWork(p) \/ Fact(p) \/ FactAgain(p) \/ CallEnds(p)
  BY <1>1, <1>2, <1>6 DEF CommitWork, Fact, FactAgain, CallEnds
<1> QED
  BY <1>3, <1>4, <1>5, <1>6, <1>7 DEF Call

(* Where a call is after its step: it has ended, gone on, or planned.      *)
LEMMA CallGoes ==
  ASSUME IInv, NEW p \in Proc, Call(p)
  PROVE  /\ pc' \in [Proc -> Pcs] /\ claim' \in [Proc -> Claims \cup {NoClaim}]
         /\ plan' \in [Proc -> Works] /\ (claim'[p] = NoClaim <=> pc'[p] = "idle")
         /\ pc'[p] \in {"candidate", "completed", "plan", "commit", "fact"} =>
              claim'[p] = claim[p] /\ claim[p] \in Claims
         /\ pc'[p] = "candidate" => ReadEligible(p) /\ Eligible(TaskOf[claim[p]])
         /\ pc'[p] = "completed" =>
              (Candidate(p) /\ candRow'[claim[p]] # "none") \/ CandidateDuplicate(p)
         /\ pc'[p] = "plan" => ReadCompleted(p)
         /\ pc'[p] = "commit" => Plan(p) /\ plan'[p] = work
         /\ pc'[p] = "fact" => /\ CommitWork(p) /\ plan'[p] = plan[p]
                              /\ commits[TaskOf[claim[p]]] \in {NoWork, plan[p]}
<1>0. /\ pc \in [Proc -> Pcs] /\ claim \in [Proc -> Claims \cup {NoClaim}]
      /\ plan \in [Proc -> Works] /\ (claim[p] = NoClaim <=> pc[p] = "idle")
      /\ candRow \in [Claims -> Rows] /\ 0 \in Works /\ work \in Works /\ NoClaim \notin Claims
  BY TaskFlowAssumption DEF IInv, TypeOK, Works
<1> DEFINE T == /\ pc' \in [Proc -> Pcs] /\ claim' \in [Proc -> Claims \cup {NoClaim}]
                /\ plan' \in [Proc -> Works]
<1>1. ASSUME NEW l \in Pcs, Goto(p, l)
      PROVE  T /\ pc'[p] = l /\ claim'[p] = claim[p] /\ plan'[p] = plan[p]
  BY <1>0, <1>1 DEF Goto
<1>2. ASSUME Finish(p) PROVE T /\ pc'[p] = "idle" /\ claim'[p] = NoClaim
  BY <1>0, <1>2 DEF Finish, Pcs, NoWork
<1> USE DEF Pcs
<1>3. CASE \E c \in Claims : Claim(p, c)
  <2>1. T /\ pc'[p] = "promote" /\ claim'[p] \in Claims
    BY <1>0, <1>3 DEF Claim
  <2> QED
    BY <1>0, <2>1
<1>4. CASE \E c \in Claims : ClaimRejected(p, c)
  <2>1. T /\ pc'[p] = "idle" /\ claim'[p] = claim[p] /\ pc[p] = "idle"
    BY <1>0, <1>4 DEF ClaimRejected, calls
  <2> QED
    BY <1>0, <2>1
<1>5. CASE ReadEligible(p)
  <2>1. CASE Finish(p)
    BY <1>2, <2>1
  <2>2. CASE Goto(p, "candidate") /\ Eligible(TaskOf[claim[p]])
    <3>1. pc[p] = "promote"
      BY <1>5 DEF ReadEligible
    <3> QED
      BY <1>0, <1>1, <1>5, <2>2, <3>1
  <2> QED
    BY <1>5, <2>1, <2>2 DEF ReadEligible
<1>6. CASE Candidate(p)
  <2>1. CASE Finish(p)
    BY <1>2, <2>1
  <2>2. CASE pc' = [pc EXCEPT ![p] = "completed"] /\ UNCHANGED <<claim, plan>>
    <3>1. pc[p] = "candidate" /\ claim[p] \in Claims
      BY <1>0, <1>6 DEF Candidate
    <3>2. candRow'[claim[p]] # "none"
      BY <1>0, <1>6, <3>1 DEF Candidate
    <3>3. T /\ pc'[p] = "completed" /\ claim'[p] = claim[p]
      BY <1>0, <2>2
    <3> QED
      BY <1>0, <1>6, <3>1, <3>2, <3>3
  <2> QED
    BY <1>6, <2>1, <2>2 DEF Candidate
<1>7. CASE CandidateDuplicate(p)
  <2>1. pc[p] = "candidate" /\ Goto(p, "completed")
    BY <1>7 DEF CandidateDuplicate
  <2> QED
    BY <1>0, <1>1, <1>7, <2>1
<1>8. CASE ReadCompleted(p)
  <2>1. pc[p] = "completed" /\ (Finish(p) \/ Goto(p, "plan"))
    BY <1>8 DEF ReadCompleted
  <2>2. CASE Finish(p)
    BY <1>2, <2>2
  <2>3. CASE Goto(p, "plan")
    BY <1>0, <1>1, <1>8, <2>1, <2>3
  <2> QED
    BY <2>1, <2>2, <2>3
<1>9. CASE Plan(p)
  <2>1. /\ T /\ pc[p] = "plan" /\ pc'[p] = "commit" /\ claim'[p] = claim[p] /\ plan'[p] = work
    BY <1>0, <1>9 DEF Plan
  <2> QED
    BY <1>0, <1>9, <2>1
<1>10. CASE CommitWork(p)
  <2>1. pc[p] = "commit"
    BY <1>10 DEF CommitWork
  <2>2. CASE Finish(p)
    BY <1>2, <2>2
  <2>3. CASE Goto(p, "fact") /\ commits[TaskOf[claim[p]]] \in {NoWork, plan[p]}
    BY <1>0, <1>1, <1>10, <2>1, <2>3
  <2> QED
    BY <1>10, <2>2, <2>3 DEF CommitWork
<1>11. CASE Fact(p) \/ FactAgain(p) \/ CallEnds(p)
  <2>1. Finish(p)
    BY <1>11 DEF Fact, FactAgain, CallEnds
  <2> QED
    BY <1>2, <2>1
<1> QED
  BY <1>3, <1>4, <1>5, <1>6, <1>7, <1>8, <1>9, <1>10, <1>11 DEF Call

(* Receipts and commits are written once.                                  *)
LEMMA RowsGrow ==
  ASSUME IInv, NEW p \in Proc, Call(p)
  PROVE  /\ claimRow' \in [Claims -> Rows] /\ candRow' \in [Claims -> Rows]
         /\ commits' \in [Tasks -> Works]
         /\ \A c \in Claims : candRow[c] # "none" => candRow'[c] # "none"
         /\ \A c \in Claims : candRow'[c] # candRow[c] => Candidate(p) /\ c = claim[p]
         /\ \A t \in Tasks : commits[t] # NoWork => commits'[t] = commits[t]
         /\ \A t \in Tasks : commits'[t] # commits[t] =>
              CommitWork(p) /\ t = TaskOf[claim[p]] /\ commits'[t] = plan[p]
<1>0. /\ claimRow \in [Claims -> Rows] /\ candRow \in [Claims -> Rows]
      /\ commits \in [Tasks -> Works] /\ plan \in [Proc -> Works]
      /\ claim \in [Proc -> Claims \cup {NoClaim}] /\ (claim[p] = NoClaim <=> pc[p] = "idle")
  BY DEF IInv, TypeOK
<1>1. claimRow' \in [Claims -> Rows]
  <2>1. CASE UNCHANGED claimRow
    BY <1>0, <2>1
  <2>2. CASE \E c \in Claims : Claim(p, c) \/ ClaimRejected(p, c)
    BY <1>0, <2>2 DEF Rows, Claim, ClaimRejected
  <2> QED
    BY <2>1, <2>2 DEF Call, ReadEligible, Candidate, CandidateDuplicate,
       ReadCompleted, Plan, CommitWork, Fact, FactAgain, CallEnds, receipts
<1>2. CASE Candidate(p)
  <2>1. /\ candRow' \in [Claims -> Rows] /\ commits' = commits
        /\ candRow[claim[p]] = "none"
        /\ \A c \in Claims : c # claim[p] => candRow'[c] = candRow[c]
    BY <1>0, <1>2 DEF Candidate, Rows
  <2> QED
    BY <1>0, <1>1, <1>2, <2>1
<1>3. CASE CommitWork(p)
  <2>1. candRow' = candRow
    BY <1>3 DEF CommitWork, receipts
  <2>2. claim[p] \in Claims /\ TaskOf[claim[p]] \in Tasks
    BY <1>0, <1>3, TaskFlowAssumption DEF CommitWork
  <2>3. /\ commits' \in [Tasks -> Works]
        /\ \A t \in Tasks : t # TaskOf[claim[p]] => commits'[t] = commits[t]
        /\ commits'[TaskOf[claim[p]]] = IF commits[TaskOf[claim[p]]] = NoWork THEN plan[p]
                                        ELSE commits[TaskOf[claim[p]]]
    BY <1>0, <1>3, <2>2 DEF CommitWork
  <2> QED
    BY <1>0, <1>1, <1>3, <2>1, <2>3
<1>4. ASSUME ~Candidate(p), ~CommitWork(p) PROVE candRow' = candRow /\ commits' = commits
  BY <1>4 DEF Call, Claim, ClaimRejected, ReadEligible, CandidateDuplicate,
     ReadCompleted, Plan, Fact, FactAgain, CallEnds, receipts
<1> QED
  BY <1>0, <1>1, <1>2, <1>3, <1>4

(* The fact of a task is recorded once, by a call that has committed.      *)
LEMMA FactGrows ==
  ASSUME IInv, NEW p \in Proc, Call(p)
  PROVE  /\ factRow' \in [Tasks -> [claim : Claims \cup {NoClaim}, disp : Rows]]
         /\ answered' \subseteq Tasks
         /\ \A t \in Tasks : \/ factRow'[t] = factRow[t]
                             \/ factRow'[t].disp # "accepted"
                             \/ Fact(p) /\ t = TaskOf[claim[p]] /\ MayComplete(t)
         /\ \A t \in answered' : t \in answered \/ (pc[p] = "fact" /\ t = TaskOf[claim[p]])
<1>0. /\ factRow \in [Tasks -> [claim : Claims \cup {NoClaim}, disp : Rows]]
      /\ answered \subseteq Tasks
      /\ claim \in [Proc -> Claims \cup {NoClaim}] /\ (claim[p] = NoClaim <=> pc[p] = "idle")
  BY DEF IInv, TypeOK
<1>1. CASE Fact(p)
  <2> DEFINE t == TaskOf[claim[p]]
  <2>1. claim[p] \in Claims /\ t \in Tasks /\ pc[p] = "fact"
    BY <1>0, <1>1, TaskFlowAssumption DEF Fact
  <2>2. PICK d \in {"accepted", "rejected"} :
          /\ factRow' = [factRow EXCEPT ![t] = [claim |-> claim[p], disp |-> d]]
          /\ d = "accepted" => MayComplete(t)
          /\ d = "rejected" => ~MayComplete(t)
    BY <1>1 DEF Fact
  <2>3. IF MayComplete(t)
        THEN answered' = answered \cup {t}
        ELSE answered' = answered
    BY <1>1 DEF Fact
  <2> HIDE DEF t
  <2>4. /\ factRow' \in [Tasks -> [claim : Claims \cup {NoClaim}, disp : Rows]]
        /\ factRow'[t].disp = d
        /\ \A u \in Tasks : u # t => factRow'[u] = factRow[u]
    BY <1>0, <2>1, <2>2 DEF Rows
  <2>5. CASE MayComplete(t)
    <3>1. /\ answered' \subseteq Tasks
          /\ \A u \in answered' : u \in answered \/ u = t
      BY <1>0, <2>1, <2>3, <2>5
    <3> QED
      BY <1>1, <2>1, <2>4, <2>5, <3>1 DEF t
  <2>6. CASE ~MayComplete(t)
    <3>1. answered' = answered /\ d # "accepted"
      BY <2>2, <2>3, <2>6
    <3> QED
      BY <1>0, <2>4, <3>1
  <2> QED
    BY <2>5, <2>6
<1>2. CASE FactAgain(p)
  <2>1. claim[p] \in Claims /\ TaskOf[claim[p]] \in Tasks /\ pc[p] = "fact"
    BY <1>0, <1>2, TaskFlowAssumption DEF FactAgain
  <2>2. factRow' = factRow
        /\ (answered' = answered \/ answered' = answered \cup {TaskOf[claim[p]]})
    BY <1>2 DEF FactAgain, receipts
  <2> QED
    BY <1>0, <2>1, <2>2
<1>3. ASSUME ~Fact(p), ~FactAgain(p)
      PROVE  factRow' = factRow /\ answered' = answered
  BY <1>3 DEF Call, Claim, ClaimRejected, ReadEligible, Candidate, CandidateDuplicate,
     ReadCompleted, Plan, CommitWork, CallEnds, receipts
<1> QED
  BY <1>0, <1>1, <1>2, <1>3

-----------------------------------------------------------------------------
(* At first nothing has been reported, recorded or committed.              *)
LEMMA InitIInv == Init => IInv
<1> SUFFICES ASSUME Init PROVE IInv
  OBVIOUS
<1>1. 0 \in Works /\ MaxTools \in Nat
  BY TaskFlowAssumption DEF Works
<1>2. TypeOK
  BY <1>1, TaskFlowAssumption DEF Init, TypeOK, SessionStates, Rows, Pcs, NoWork
<1>3. RunningTools = {}
  BY DEF Init, RunningTools, Exists
<1>4. IsFiniteSet(RunningTools) /\ ToolsAddUp
  BY <1>3, FS_EmptySet DEF Init, ToolsAddUp
<1>5. \A p \in Proc : CallInv(p)
  BY DEF Init, CallInv
<1>6. \A t \in Tasks : TaskInv(t)
  BY DEF Init, TaskInv
<1> QED
  BY <1>2, <1>4, <1>5, <1>6 DEF Init, IInv, NoWork

(* Tasks stay, so what a call knows of them stays.                         *)
LEMMA TasksStay ==
  ASSUME IInv, [Next]_vars, NEW t \in Tasks, Exists(t)
  PROVE  tasks'[t] # NoTask
  BY StepMoves DEF TaskStep, Moves

(* A step of a call keeps what the calls know.                             *)
LEMMA CallInvNext ==
  ASSUME IInv, [Next]_vars, NEW p \in Proc, Call(p), NEW q \in Proc
  PROVE  CallInv(q)'
<1>0. /\ claim \in [Proc -> Claims \cup {NoClaim}] /\ (claim[q] = NoClaim <=> pc[q] = "idle")
      /\ TypeOK /\ CallInv(q) /\ \A c \in Claims : TaskOf[c] \in Tasks
  BY TaskFlowAssumption DEF IInv, TypeOK
<1>1. CASE q # p
  <2>1. pc'[q] = pc[q] /\ claim'[q] = claim[q] /\ plan'[q] = plan[q]
    BY <1>1, CallIsOwn
  <2>2. CASE pc[q] \notin {"candidate", "completed", "plan", "commit", "fact"}
    BY <2>1, <2>2 DEF CallInv
  <2>3. CASE pc[q] \in {"candidate", "completed", "plan", "commit", "fact"}
    <3>1. claim[q] \in Claims /\ TaskOf[claim[q]] \in Tasks /\ Exists(TaskOf[claim[q]])
      BY <1>0, <2>3 DEF CallInv
    <3>2. tasks'[TaskOf[claim[q]]] # NoTask
      BY <3>1, TasksStay
    <3>3. /\ candRow[claim[q]] # "none" => candRow'[claim[q]] # "none"
          /\ commits[TaskOf[claim[q]]] # NoWork =>
               commits'[TaskOf[claim[q]]] = commits[TaskOf[claim[q]]]
      BY <3>1, RowsGrow
    <3> QED
      BY <1>0, <2>1, <3>2, <3>3 DEF CallInv, Exists
  <2> QED
    BY <2>2, <2>3
<1>2. CASE q = p
  <2> DEFINE c == claim[p]
             t == TaskOf[c]
  <2>1. CASE pc'[p] \notin {"candidate", "completed", "plan", "commit", "fact"}
    BY <1>2, <2>1 DEF CallInv
  <2>2. CASE pc'[p] \in {"candidate", "completed", "plan", "commit", "fact"}
    <3>1. claim'[p] = c /\ c \in Claims /\ t \in Tasks
      BY <1>0, <2>2, CallGoes
    <3>2. Exists(t)
      <4>1. CASE pc'[p] = "candidate"
        BY <4>1, CallGoes DEF Eligible
      <4>2. CASE pc'[p] # "candidate"
        <5>1. pc[p] \in {"candidate", "completed", "plan", "commit", "fact"}
          BY <2>2, <4>2, CallGoes DEF Candidate, CandidateDuplicate, ReadCompleted, Plan, CommitWork
        <5> QED
          BY <1>0, <1>2, <5>1 DEF CallInv
      <4> QED
        BY <4>1, <4>2
    <3>3. tasks'[t] # NoTask
      BY <3>1, <3>2, TasksStay
    <3>4. pc'[p] # "candidate" => candRow'[c] # "none"
      <4>1. CASE pc'[p] = "completed"
        BY <3>1, <4>1, CallGoes, RowsGrow DEF CandidateDuplicate
      <4>2. CASE pc'[p] \in {"plan", "commit", "fact"}
        <5>1. pc[p] \in {"completed", "plan", "commit", "fact"}
          BY <4>2, CallGoes DEF ReadCompleted, Plan, CommitWork
        <5> QED
          BY <1>0, <1>2, <3>1, <5>1, RowsGrow DEF CallInv
      <4> QED
        BY <2>2, <4>1, <4>2
    <3>5. pc'[p] = "commit" => plan'[p] # NoWork
      BY CallGoes DEF Plan
    <3>6. pc'[p] = "fact" => plan'[p] # NoWork /\ commits'[t] = plan'[p]
      <4>1. SUFFICES ASSUME pc'[p] = "fact" PROVE plan'[p] # NoWork /\ commits'[t] = plan'[p]
        OBVIOUS
      <4>2. CommitWork(p) /\ commits[t] \in {NoWork, plan[p]} /\ plan[p] # NoWork /\ plan'[p] = plan[p]
        BY <1>0, <1>2, <4>1, CallGoes DEF CallInv, CommitWork
      <4>3. commits'[t] = IF commits[t] = NoWork THEN plan[p] ELSE commits[t]
        BY <3>1, <4>2, <1>0 DEF CommitWork, TypeOK
      <4> QED
        BY <4>2, <4>3
    <3> QED
      BY <1>2, <3>1, <3>3, <3>4, <3>5, <3>6 DEF CallInv, Exists
  <2> QED
    BY <2>1, <2>2
<1> QED
  BY <1>1, <1>2

(* A step of a call keeps what the receipts, the commit and the answer of  *)
(* a task say of each other.                                               *)
LEMMA TaskInvNext ==
  ASSUME IInv, NEW p \in Proc, Call(p), NEW t \in Tasks
  PROVE  TaskInv(t)'
<1>0. /\ claim \in [Proc -> Claims \cup {NoClaim}] /\ (claim[p] = NoClaim <=> pc[p] = "idle")
      /\ CallInv(p) /\ TaskInv(t)
  BY DEF IInv, TypeOK
<1>1. commits[t] # NoWork => commits'[t] # NoWork
  BY RowsGrow
<1>2. ASSUME commits'[t] # NoWork PROVE \E c \in Claims : TaskOf[c] = t /\ candRow'[c] # "none"
  <2>1. CASE commits'[t] = commits[t]
    BY <1>0, <1>2, <2>1, RowsGrow DEF TaskInv
  <2>2. CASE commits'[t] # commits[t]
    <3>1. CommitWork(p) /\ t = TaskOf[claim[p]]
      BY <2>2, RowsGrow
    <3>2. claim[p] \in Claims /\ candRow[claim[p]] # "none"
      BY <1>0, <3>1 DEF CommitWork, CallInv
    <3> QED
      BY <3>1, <3>2, RowsGrow
  <2> QED
    BY <2>1, <2>2
<1>3. pc[p] = "fact" /\ t = TaskOf[claim[p]] => commits[t] # NoWork
  BY <1>0 DEF CallInv
<1>4. t \in answered' => commits'[t] # NoWork
  BY <1>0, <1>1, <1>3, FactGrows DEF TaskInv
<1>5. factRow'[t].disp = "accepted" => commits'[t] # NoWork
  <2>1. CASE factRow'[t] = factRow[t]
    BY <1>0, <1>1, <2>1 DEF TaskInv
  <2>2. CASE factRow'[t] # factRow[t]
    BY <1>0, <1>1, <1>3, <2>2, FactGrows DEF Fact
  <2> QED
    BY <2>1, <2>2
<1> QED
  BY <1>2, <1>4, <1>5 DEF TaskInv

(* Every step keeps the invariant.                                         *)
LEMMA NextIInv == IInv /\ [Next]_vars => IInv'
<1> SUFFICES ASSUME IInv, [Next]_vars PROVE IInv'
  OBVIOUS
<1>1. /\ tasks' \in [Tasks -> TaskRecords \cup {NoTask}]
      /\ session' \in [state : SessionStates, tools : Nat]
      /\ IsFiniteSet(RunningTools)' /\ ToolsAddUp'
  BY StepMoves DEF TaskStep
<1>2. CASE Report \/ UNCHANGED vars
  <2>1. /\ UNCHANGED <<queue, claimRow, candRow, factRow, commits, pc, claim, plan, renewed, answered>>
        /\ prompts' \in [Prompts -> PromptRecords \cup {NoPrompt}]
        /\ work' \in Works /\ reported' \in Works /\ reported' <= work'
    BY <1>2, ReportLeaves
  <2>2. TypeOK'
    BY <1>1, <2>1 DEF IInv, TypeOK
  <2>3. ASSUME NEW q \in Proc PROVE CallInv(q)'
    <3>1. CallInv(q) /\ claim[q] \in Claims \cup {NoClaim} /\ (claim[q] = NoClaim <=> pc[q] = "idle")
      BY DEF IInv, TypeOK
    <3>2. ASSUME pc[q] \in {"candidate", "completed", "plan", "commit", "fact"}
          PROVE  tasks'[TaskOf[claim[q]]] # NoTask
      <4>1. claim[q] \in Claims /\ Exists(TaskOf[claim[q]])
        BY <3>1, <3>2 DEF CallInv
      <4> QED
        BY <4>1, TasksStay, TaskFlowAssumption
    <3> QED
      BY <2>1, <3>1, <3>2 DEF CallInv, Exists
  <2>4. ASSUME NEW t \in Tasks PROVE TaskInv(t)'
    BY <2>1 DEF IInv, TaskInv
  <2> QED
    BY <1>1, <2>1, <2>2, <2>3, <2>4 DEF IInv
<1>3. ASSUME NEW p \in Proc, Call(p) PROVE IInv'
  <2>1. /\ reported' = reported /\ work' = work /\ queue' = queue /\ prompts' = prompts
    BY <1>3, CallMoves
  <2>2. /\ pc' \in [Proc -> Pcs] /\ claim' \in [Proc -> Claims \cup {NoClaim}]
        /\ plan' \in [Proc -> Works]
    BY <1>3, CallGoes
  <2>3. \A q \in Proc : claim'[q] = NoClaim <=> pc'[q] = "idle"
    BY <1>3, CallGoes, CallIsOwn DEF IInv, TypeOK
  <2>4. TypeOK'
    BY <1>1, <1>3, <2>1, <2>2, <2>3, CallIsOwn, RowsGrow, FactGrows DEF IInv, TypeOK
  <2> QED
    BY <1>1, <1>3, <2>1, <2>4, CallInvNext, TaskInvNext DEF IInv
<1> QED
  BY <1>2, <1>3 DEF Next

(* The invariant: the shape of the state, what each hook call knows, and   *)
(* how the receipts, the commit and the answer of a task relate.           *)
THEOREM Invariance == Spec => []IInv
  BY InitIInv, NextIInv, PTL DEF Spec

(* The shape of the state.                                                 *)
THEOREM TypeCorrect == Spec => []TypeOK
<1>1. IInv => TypeOK
  BY DEF IInv
<1> QED
  BY <1>1, Invariance, PTL

(* The session's count of tools is the sum of its tasks' counts, for any   *)
(* number of tasks, so an idle session waits exactly while a tool runs.    *)
THEOREM ToolsAreCounted == Spec => []ToolsAddUp
<1>1. IInv => ToolsAddUp
  BY DEF IInv
<1> QED
  BY <1>1, Invariance, PTL

(* SESSION_COMMITTED is answered only about committed work, however many   *)
(* calls carry however many claims about the task.                         *)
THEOREM AnswersAreBacked == Spec => []AnswerHasCommit
<1>1. IInv => AnswerHasCommit
  BY DEF IInv, TypeOK, TaskInv, AnswerHasCommit
<1> QED
  BY <1>1, Invariance, PTL

(* A busy task is never recorded as completed, although the call looked at *)
(* it several transactions earlier: the reducer looks again.               *)
THEOREM BusyIsNotCompleted == Spec => NoCompletionWhileBusy
<1>1. IInv /\ [Next]_vars =>
        [\A t \in Tasks : Exists(t) /\ Busy(t) /\ tasks[t].state # "COMPLETED"
            => tasks'[t].state # "COMPLETED"]_vars
  <2> SUFFICES ASSUME IInv, [Next]_vars, NEW t \in Tasks, Exists(t), Busy(t),
                      tasks[t].state # "COMPLETED"
               PROVE  tasks'[t].state # "COMPLETED"
    OBVIOUS
  <2>1. ~MayComplete(t)
    BY DEF MayComplete, CompletionConditions
  <2>2. Moves(t)
    BY StepMoves DEF TaskStep
  <2> QED
    BY <2>1, <2>2 DEF Moves
<1> QED
  BY <1>1, Invariance, PTL DEF Spec, NoCompletionWhileBusy

-----------------------------------------------------------------------------
(* The plan of a call whose task is ready and has not been made ready      *)
(* again holds all that has been reported: a report takes the readiness    *)
(* away, and only a promotion, which renews the call, gives it back.       *)
LEMMA CoverNext ==
  ASSUME IInv, CoverInv, [Next]_vars
  PROVE  CoverInv'
<1> SUFFICES ASSUME NEW p \in Proc, pc'[p] \in {"commit", "fact"}, p \notin renewed',
                    tasks'[TaskOf[claim'[p]]].candidate
             PROVE  plan'[p] >= reported'
  BY DEF CoverInv
<1> DEFINE t == TaskOf[claim[p]]
<1>1. /\ claim \in [Proc -> Claims \cup {NoClaim}] /\ (claim[p] = NoClaim <=> pc[p] = "idle")
      /\ reported <= work /\ reported \in Int /\ work \in Int
      /\ \A c \in Claims : TaskOf[c] \in Tasks
  BY TaskFlowAssumption DEF IInv, TypeOK, Works
<1>2. CASE pc[p] = "plan"
  <2>1. CASE Report \/ UNCHANGED vars
    BY <1>2, <2>1, ReportLeaves
  <2>2. ASSUME NEW q \in Proc, Call(q) PROVE plan'[p] >= reported'
    <3>1. q = p
      BY <1>2, <2>2, CallIsOwn
    <3>2. plan'[p] = work /\ reported' = reported
      BY <1>2, <2>2, <3>1, CallGoes, CallMoves DEF CommitWork
    <3> QED
      BY <1>1, <3>2
  <2> QED
    BY <2>1, <2>2 DEF Next
<1>3. ASSUME pc[p] # "plan"
      PROVE  /\ pc[p] \in {"commit", "fact"} /\ claim'[p] = claim[p] /\ plan'[p] = plan[p]
             /\ p \notin renewed
  <2>1. CASE Report \/ UNCHANGED vars
    BY <2>1, ReportLeaves
  <2>2. ASSUME NEW q \in Proc, Call(q)
        PROVE  /\ pc[p] \in {"commit", "fact"} /\ claim'[p] = claim[p] /\ plan'[p] = plan[p]
               /\ p \notin renewed
    <3>1. p \notin renewed
      BY <2>2, CallIsOwn
    <3>2. CASE q # p
      BY <2>2, <3>1, <3>2, CallIsOwn
    <3>3. CASE q = p
      BY <1>3, <2>2, <3>1, <3>3, CallGoes DEF Plan, CommitWork
    <3> QED
      BY <3>2, <3>3
  <2> QED
    BY <2>1, <2>2 DEF Next
<1>4. CASE pc[p] # "plan"
  <2>1. t \in Tasks /\ Exists(t) /\ claim'[p] = claim[p]
    BY <1>1, <1>3, <1>4 DEF IInv, CallInv
  <2>2. tasks'[t] # NoTask /\ tasks'[t].candidate /\ Moves(t)
    BY <2>1, TasksStay, StepMoves DEF TaskStep
  <2>3. CASE tasks[t].candidate /\ reported' = reported
    <3>1. plan[p] >= reported
      BY <1>3, <1>4, <2>3, Zenon DEF CoverInv
    <3> QED
      BY <1>3, <1>4, <2>3, <3>1
  <2>4. ASSUME NEW q \in Proc, Promotes(q, t) PROVE FALSE
    <3>1. p \in Planned(t)
      BY <1>3, <1>4 DEF Planned
    <3>2. renewed' = renewed \cup Planned(t)
      BY <2>4 DEF Promotes, Candidate
    <3> QED
      BY <3>1, <3>2
  <2> HIDE DEF t
  <2> QED
    BY <2>2, <2>3, <2>4, Zenon DEF Moves
<1> QED
  BY <1>2, <1>4

(* The invariant of plans.                                                 *)
THEOREM CoverInvariance == Spec => []CoverInv
<1>1. Init => CoverInv
  BY DEF Init, CoverInv
<1>2. IInv /\ CoverInv /\ [Next]_vars => CoverInv'
  BY CoverNext
<1> QED
  BY <1>1, <1>2, Invariance, PTL DEF Spec

(* A call that completes a task which no other claim has promoted since    *)
(* its plan has committed all that is reported: for any number of calls,   *)
(* claims about one task, redeliveries and reports in between.             *)
THEOREM UnrenewedCovers == Spec => UnrenewedCompletionCovers
<1>1. IInv /\ CoverInv /\ [Next]_vars =>
        [\A p \in Proc : Completes(p) /\ p \notin renewed => Covers(p)]_vars
  <2> SUFFICES ASSUME IInv, CoverInv, [Next]_vars, NEW p \in Proc, Completes(p), p \notin renewed
               PROVE  Covers(p)
    OBVIOUS
  <2> DEFINE t == TaskOf[claim[p]]
  <2>1. /\ pc[p] = "fact" /\ pc'[p] = "idle"
        /\ factRow[t].disp = "none" /\ factRow'[t].disp = "accepted"
    BY DEF Completes
  <2>2. claim[p] \in Claims /\ t \in Tasks /\ commits[t] = plan[p]
    BY <2>1, TaskFlowAssumption DEF IInv, TypeOK, CallInv
  <2>3. tasks[t].candidate
    <3>1. CASE Report \/ UNCHANGED vars
      BY <2>1, <3>1, ReportLeaves
    <3>2. ASSUME NEW q \in Proc, Call(q) PROVE MayComplete(t)
      BY <2>1, <2>2, <3>2, FactGrows
    <3> QED
      BY <3>1, <3>2, Zenon DEF Next, MayComplete
  <2>4. plan[p] >= reported
    BY <2>1, <2>3, Zenon DEF CoverInv
  <2> QED
    BY <2>2, <2>4 DEF Covers
<1> QED
  BY <1>1, Invariance, CoverInvariance, PTL DEF Spec, UnrenewedCompletionCovers
=============================================================================
