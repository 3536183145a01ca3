--------------------------- MODULE OwnershipProofs ---------------------------
(***************************************************************************)
(* Proofs about Ownership, for any paths, contents, requests and number of *)
(* processes.                                                              *)
(*                                                                         *)
(* A capture reads HEAD, the index, the status and the files at different  *)
(* moments, and repeats the first three.  CaptureInv says how what it has  *)
(* read so far relates to what the paths have held since the status was    *)
(* read: HEAD only moves on, so one that is unmoved at the end was so at   *)
(* the status; and the index entry of a path that kept its content can     *)
(* only have become that content, so a status that is the same at the end  *)
(* means an index that never moved for it.  RowInv is the same of the      *)
(* recorded baseline, for good.                                            *)
(***************************************************************************)
EXTENDS Ownership, TLAPS

(* What a status says of the commit of HEAD and of the contents held since. *)
SawHead(status, held, tree) ==
  \A p \in Paths : \E v \in held[p] :
    /\ p \notin Dirty(status) => tree[p] = Seen(v)
    /\ p \in Dirty(status) /\ tree[p] = Seen(v) => status[p][2] # "same"

(* What it says of the index, for a path that has kept its content.        *)
SawIndex(status, held, ix) ==
  \A p \in Paths, v \in Holdings : held[p] = {v} =>
    /\ p \notin Dirty(status) => ix[p] = Seen(v)
    /\ status[p][2] # "same" => ix[p] # Seen(v)

Reading == {"files", "head2", "index2", "status2"}
Read == {"record", "accept", "plan", "run"}

(* HEAD, the files and the status as read.                                 *)
HeadInv(c) ==
  /\ c.pc # "head" => c.head \in 1 .. head
  /\ c.pc \in {"files", "head2"} => \E k \in c.head .. head : SawHead(c.status, c.held, log[k])
  /\ c.pc \in {"index2", "status2"} \cup Read => SawHead(c.status, c.held, log[c.head])

WasRead(c, p) == \E v \in c.held[p] : c.files[p] = Observed(v)

FilesInv(c) ==
  /\ c.pc \in Reading => \A p \in Paths : file[p] \in c.held[p]
  /\ c.pc \in Reading \cup Read =>
       \A p \in Captured(c) : p \in c.todo \/ WasRead(c, p)
  /\ c.pc \in (Reading \cup Read) \ {"files"} => c.todo = {}

IndexInv(c) ==
  /\ c.pc \in Reading =>
       \A p \in Paths, v \in Holdings :
         c.held[p] = {v} /\ p \notin Dirty(c.status) => idx[p] = Seen(v)
  /\ c.pc = "status2" =>
       \A p \in Paths, v \in Holdings : c.held[p] = {v} =>
         /\ idx[p] = Seen(v) \/ idx[p] = c.idx[p]
         /\ p \notin Dirty(c.status) => c.idx[p] = Seen(v)
  /\ c.pc \in Read => SawIndex(c.status, c.held, c.idx)

(* What a completion compares with, and the plan it has come to.           *)
FromInv(c) ==
  /\ c.kind = "complete" =>
       /\ row # None /\ c.from = row
       /\ c.req # {} => row.status = Clean /\ row.paths = c.req
  /\ c.pc \in {"plan", "run"} => c.kind = "complete"
  /\ c.pc \in {"record", "accept"} => c.kind # "complete"
  /\ c.pc = "accept" => row # None
  /\ c.pc = "run" => Plannable(c) /\ c.plan = [p \in Taken(c) |-> c.files[p]]

CaptureInv(c) == HeadInv(c) /\ FilesInv(c) /\ IndexInv(c) /\ FromInv(c)

RowInv ==
  row # None =>
    /\ row.head \in 1 .. head
    /\ SawHead(row.status, base, log[row.head]) /\ SawIndex(row.status, base, row.idx)
    /\ Dirty(row.status) \subseteq row.paths
    /\ \A p \in row.paths : \E v \in base[p] : row.files[p] = Fingerprint(Observed(v))

IInv ==
  /\ TypeOK
  /\ \A h \in Hooks : hook[h] # Idle => CaptureInv(hook[h])
  /\ RowInv
  /\ receipt => row # None

-----------------------------------------------------------------------------
Values == Contents \cup {Absent}

(* What git and what a capture make of a path of the worktree.             *)
LEMMA SeenAndObserved ==
  ASSUME NEW v \in Holdings
  PROVE  /\ Seen(v) \in Values /\ Observed(v) \in Values
         /\ v # Directory => v \in Values /\ Seen(v) = v /\ Observed(v) = v
         /\ Observed(v) = Absent => v = Absent /\ Seen(v) = Absent
  BY OwnershipAssumption DEF Holdings, Seen, Observed, Values

(* A content or nothing is seen and read as it is.                          *)
LEMMA ValuesAreSeen ==
  ASSUME NEW v \in Values
  PROVE  v \in Holdings /\ v # Directory /\ Seen(v) = v /\ Observed(v) = v
  BY OwnershipAssumption DEF Holdings, Seen, Observed, Values

(* A column of the status says whether the two sides are the same.         *)
LEMMA ColumnOfChange ==
  ASSUME NEW x \in Values, NEW y \in Values
  PROVE  Change(x, y) \in Columns /\ (Change(x, y) = "same" <=> x = y)
<1>1. CASE x = y
  BY <1>1 DEF Change, Columns
<1>2. CASE x = Absent /\ y # Absent
  BY <1>2 DEF Change, Columns
<1>3. CASE x # Absent /\ y = Absent
  BY <1>3 DEF Change, Columns
<1>4. CASE {x, y} \subseteq Contents /\ x # y
  BY <1>4, OwnershipAssumption DEF Change, Columns
<1> QED
  BY <1>1, <1>2, <1>3, <1>4 DEF Values

(* The status now.                                                         *)
LEMMA StatusNow ==
  ASSUME TypeOK
  PROVE  /\ Status \in Statuses
         /\ \A p \in Paths :
              /\ Status[p][1] = "same" <=> log[head][p] = idx[p]
              /\ Status[p][2] = "same" <=> idx[p] = Seen(file[p])
              /\ p \notin Dirty(Status) <=> Status[p][1] = "same" /\ Status[p][2] = "same"
<1>1. log[head] \in Tree /\ idx \in Tree /\ file \in [Paths -> Holdings]
  BY DEF TypeOK, head
<1>2. \A p \in Paths : log[head][p] \in Values /\ idx[p] \in Values /\ Seen(file[p]) \in Values
  BY <1>1, SeenAndObserved DEF Tree, Values
<1>3. ASSUME NEW p \in Paths
      PROVE  /\ Status[p] = <<Change(log[head][p], idx[p]), Change(idx[p], Seen(file[p]))>>
             /\ Change(log[head][p], idx[p]) \in Columns /\ Change(idx[p], Seen(file[p])) \in Columns
             /\ Change(log[head][p], idx[p]) = "same" <=> log[head][p] = idx[p]
             /\ Change(idx[p], Seen(file[p])) = "same" <=> idx[p] = Seen(file[p])
  BY <1>2, ColumnOfChange DEF Status
<1>4. Status \in Statuses
  BY <1>3 DEF Status, Statuses
<1> QED
  BY <1>3, <1>4 DEF Dirty

(* The repository under a step: HEAD goes on, an entry of the index becomes *)
(* what the file holds.                                                    *)
LEMMA RepositoryMoves ==
  ASSUME IInv, [Next]_vars
  PROVE  /\ log' \in Seq(Tree) /\ head' \in 1 .. MaxCommits /\ head <= head'
         /\ head \in Nat /\ head' \in Nat
         /\ \A k \in 1 .. head : log'[k] = log[k]
         /\ idx' \in Tree /\ file' \in [Paths -> Holdings] /\ edits' \in 0 .. MaxEdits
         /\ \A p \in Paths : idx'[p] = idx[p] \/ idx'[p] = Seen(file[p])
<1>0. /\ log \in Seq(Tree) /\ Len(log) \in 1 .. MaxCommits /\ idx \in Tree /\ file \in [Paths -> Holdings]
      /\ edits \in 0 .. MaxEdits /\ MaxEdits \in Nat /\ MaxCommits \in Nat
  BY OwnershipAssumption DEF IInv, TypeOK, head
<1> USE DEF head
<1>1. CASE UserCommit
  <2>1. log' = Append(log, idx) /\ idx' = idx /\ file' = file /\ Len(log) < MaxCommits
        /\ edits < MaxEdits /\ edits' = edits + 1
    BY <1>1 DEF UserCommit
  <2>2. log' \in Seq(Tree) /\ Len(log') = Len(log) + 1 /\ \A k \in 1 .. Len(log) : log'[k] = log[k]
    BY <1>0, <2>1
  <2> QED
    BY <1>0, <2>1, <2>2
<1>2. ASSUME NEW p \in Paths, Stage(p)
      PROVE  /\ log' = log /\ idx' \in Tree /\ file' = file /\ edits' \in 0 .. MaxEdits
             /\ \A q \in Paths : idx'[q] = idx[q] \/ idx'[q] = Seen(file[q])
  <2>1. Seen(file[p]) \in Contents \cup {Absent}
    BY <1>0, SeenAndObserved DEF Values
  <2>2. /\ log' = log /\ file' = file /\ idx' = [idx EXCEPT ![p] = Seen(file[p])]
        /\ edits < MaxEdits /\ edits' = edits + 1
    BY <1>2 DEF Stage
  <2> QED
    BY <1>0, <2>1, <2>2 DEF Tree
<1>3. ASSUME NEW p \in Paths, NEW v \in Holdings, Edit(p, v)
      PROVE  log' = log /\ idx' = idx /\ file' \in [Paths -> Holdings] /\ edits' \in 0 .. MaxEdits
  BY <1>0, <1>3 DEF Edit
<1>4. ASSUME NEW h \in Hooks, Process(h) PROVE UNCHANGED <<log, idx, file, edits>>
  BY <1>4 DEF Process, SessionStarted, RecordBaseline, AcceptStarted, Sync, SyncComplete, Verify,
     HookComplete, Resume, CaptureStep, ReadHead, ReadIndex, ReadStatus, ReadFile, FilesRead,
     RecheckHead, RecheckIndex, RecheckStatus, BuildPlan, End
<1>5. CASE UNCHANGED vars
  BY <1>0, <1>5 DEF vars
<1> QED
  BY <1>0, <1>1, <1>2, <1>3, <1>4, <1>5 DEF Next, User

(* A baseline is recorded once (RecordSessionBaseline).                    *)
LEMMA RowWritten ==
  ASSUME [Next]_vars
  PROVE  /\ row # None => row' = row /\ base' = base
         /\ row' # row \/ base' # base => \E h \in Hooks :
              RecordBaseline(h) /\ row' = Row(hook[h]) /\ base' = hook[h].held
         /\ receipt' = receipt \/ \E h \in Hooks : AcceptStarted(h) /\ receipt' = TRUE
<1>1. ASSUME NEW h \in Hooks, RecordBaseline(h)
      PROVE  /\ row # None => row' = row /\ base' = base
             /\ row = None => row' = Row(hook[h]) /\ base' = hook[h].held
             /\ receipt' = receipt
  BY <1>1 DEF RecordBaseline
<1>2. ASSUME NEW h \in Hooks, Process(h), ~RecordBaseline(h)
      PROVE  row' = row /\ base' = base /\ (receipt' = receipt \/ (AcceptStarted(h) /\ receipt' = TRUE))
  BY <1>2 DEF Process, SessionStarted, AcceptStarted, Sync, SyncComplete, Verify,
     HookComplete, Resume, CaptureStep, ReadHead, ReadIndex, ReadStatus, ReadFile, FilesRead,
     RecheckHead, RecheckIndex, RecheckStatus, BuildPlan, End
<1>3. User \/ UNCHANGED vars => row' = row /\ base' = base /\ receipt' = receipt
  BY DEF User, Stage, Edit, UserCommit, vars
<1> QED
  BY <1>1, <1>2, <1>3 DEF Next

(* No process is at a point of a capture without one.                      *)
LEMMA AtPoint ==
  ASSUME IInv, NEW h \in Hooks, hook[h].pc # "idle"
  PROVE  hook[h] \in Captures /\ CaptureInv(hook[h]) /\ hook[h] # Idle
<1>1. hook[h] # Idle
  BY DEF Idle
<1> QED
  BY <1>1 DEF IInv, TypeOK

(* What a process that does not move keeps: all it has read, and it goes   *)
(* on watching the files.                                                  *)
Kept(g) ==
  /\ hook'[g].pc = hook[g].pc /\ hook'[g].kind = hook[g].kind /\ hook'[g].req = hook[g].req
  /\ hook'[g].from = hook[g].from /\ hook'[g].head = hook[g].head /\ hook'[g].idx = hook[g].idx
  /\ hook'[g].status = hook[g].status /\ hook'[g].todo = hook[g].todo
  /\ hook'[g].files = hook[g].files /\ hook'[g].plan = hook[g].plan
  /\ \A p \in Paths : hook[g].held[p] \subseteq hook'[g].held[p]
  /\ hook[g].pc \notin Reading => hook'[g] = hook[g]
  /\ hook[g].pc \in Reading => \A p \in Paths : file'[p] \in hook'[g].held[p]

(* A user's step moves no process.                                         *)
LEMMA UserKeeps ==
  ASSUME IInv, User \/ UNCHANGED vars
  PROVE  /\ hook' \in [Hooks -> Captures \cup {Idle}]
         /\ \A g \in Hooks : hook[g] = Idle => hook'[g] = Idle
         /\ \A g \in Hooks : hook[g] # Idle => Kept(g)
<1>0. hook \in [Hooks -> Captures \cup {Idle}] /\ file \in [Paths -> Holdings]
  BY DEF IInv, TypeOK
<1>1. ASSUME NEW g \in Hooks, hook[g].pc \in Reading
      PROVE  \A p \in Paths : file[p] \in hook[g].held[p]
  BY <1>1, AtPoint DEF Reading, CaptureInv, FilesInv
<1>2. CASE hook' = hook /\ file' = file
  BY <1>0, <1>1, <1>2 DEF Kept
<1>3. ASSUME NEW p \in Paths, NEW v \in Holdings, Edit(p, v)
      PROVE  /\ hook' \in [Hooks -> Captures \cup {Idle}]
             /\ \A g \in Hooks : hook[g] = Idle => hook'[g] = Idle
             /\ \A g \in Hooks : hook[g] # Idle => Kept(g)
  <2>1. file' = [file EXCEPT ![p] = v]
    BY <1>3 DEF Edit
  <2>2. \A q \in Paths : file'[q] = file[q] \/ (q = p /\ file'[q] = v)
    BY <1>0, <2>1
  <2>3. ASSUME NEW g \in Hooks, ~Watching(g) PROVE hook'[g] = hook[g]
    BY <1>3, <2>3 DEF Edit
  <2>4. ASSUME NEW g \in Hooks, Watching(g)
        PROVE  hook'[g] \in Captures /\ Kept(g) /\ hook[g] # Idle
    <3> DEFINE hd == [hook[g].held EXCEPT ![p] = hook[g].held[p] \cup {v}]
               c == [hook[g] EXCEPT !.held = hd]
    <3>1. hook[g] \in Captures /\ hook[g] # Idle /\ hook[g].pc \in Reading
      BY <2>4, AtPoint DEF Watching, Reading
    <3>2. hook'[g] = c
      BY <1>3, <2>4 DEF Edit
    <3>3. hook[g].held \in Histories
      BY <3>1 DEF Captures
    <3>4. /\ hd \in Histories /\ \A q \in Paths : hook[g].held[q] \subseteq hd[q]
          /\ v \in hd[p]
      BY <3>3 DEF Histories
    <3> HIDE DEF hd
    <3>5. /\ c \in Captures
          /\ c.pc = hook[g].pc /\ c.kind = hook[g].kind /\ c.req = hook[g].req
          /\ c.from = hook[g].from /\ c.head = hook[g].head /\ c.idx = hook[g].idx
          /\ c.status = hook[g].status /\ c.todo = hook[g].todo
          /\ c.files = hook[g].files /\ c.plan = hook[g].plan /\ c.held = hd
      BY <3>1, <3>4 DEF Captures
    <3> HIDE DEF c
    <3>6. \A q \in Paths : file'[q] \in hd[q]
      BY <1>1, <2>2, <3>1, <3>4
    <3>7. Kept(g)
      BY <3>1, <3>2, <3>4, <3>5, <3>6 DEF Kept
    <3> QED
      BY <3>1, <3>2, <3>5, <3>7
  <2>5. ASSUME NEW g \in Hooks, hook[g] # Idle, ~Watching(g) PROVE Kept(g)
    BY <2>3, <2>5 DEF Kept, Watching, Reading
  <2>6. hook' = [g \in Hooks |-> hook'[g]]
    BY <1>3 DEF Edit
  <2>7. \A g \in Hooks : hook'[g] \in Captures \cup {Idle}
    BY <1>0, <2>3, <2>4
  <2>8. hook' \in [Hooks -> Captures \cup {Idle}]
    BY <2>6, <2>7
  <2> QED
    BY <2>3, <2>4, <2>5, <2>8
<1> QED
  BY <1>2, <1>3 DEF User, Stage, UserCommit, vars

(* What was read of HEAD and of the files stays true of more held contents. *)
LEMMA SawMore ==
  ASSUME NEW status, NEW tree, NEW h1, NEW h2, \A p \in Paths : h1[p] \subseteq h2[p],
         SawHead(status, h1, tree)
  PROVE  SawHead(status, h2, tree)
  BY DEF SawHead

(* What is known of HEAD stays known, for HEAD only goes on.               *)
LEMMA HeadStays ==
  ASSUME IInv, [Next]_vars, NEW g \in Hooks, hook[g] # Idle, Kept(g)
  PROVE  HeadInv(hook[g])'
<1>0. hook[g] \in Captures /\ HeadInv(hook[g])
  BY DEF IInv, TypeOK, CaptureInv
<1>1. ASSUME NEW k \in 1 .. head, SawHead(hook[g].status, hook[g].held, log[k])
      PROVE  SawHead(hook'[g].status, hook'[g].held, log'[k])
  <2>1. log'[k] = log[k] /\ hook'[g].status = hook[g].status
    BY RepositoryMoves DEF Kept
  <2>2. \A p \in Paths : hook[g].held[p] \subseteq hook'[g].held[p]
    BY DEF Kept
  <2> QED
    BY <1>1, <2>1, <2>2, SawMore
<1>2. hook[g].pc # "head" => hook[g].head \in 1 .. head
  BY <1>0 DEF HeadInv
<1>3. hook[g].pc # "head" => hook[g].head \in 1 .. head'
  BY <1>2, RepositoryMoves
<1>4. ASSUME hook[g].pc \in {"files", "head2"}
      PROVE  \E k \in hook[g].head .. head' : SawHead(hook'[g].status, hook'[g].held, log'[k])
  <2>1. PICK k \in hook[g].head .. head : SawHead(hook[g].status, hook[g].held, log[k])
    BY <1>0, <1>4 DEF HeadInv
  <2>2. k \in 1 .. head /\ k \in hook[g].head .. head'
    BY <1>2, <1>4, <2>1, RepositoryMoves
  <2> QED
    BY <1>1, <2>1, <2>2
<1>5. ASSUME hook[g].pc \in {"index2", "status2"} \cup Read
      PROVE  SawHead(hook'[g].status, hook'[g].held, log'[hook[g].head])
  BY <1>0, <1>1, <1>2, <1>5 DEF HeadInv, Read
<1>6. hook'[g].pc = hook[g].pc /\ hook'[g].head = hook[g].head
  BY DEF Kept
<1> QED
  BY <1>3, <1>4, <1>5, <1>6 DEF HeadInv

(* What was read of the files stays among what they have held.             *)
LEMMA FilesStay ==
  ASSUME IInv, NEW g \in Hooks, hook[g] # Idle, Kept(g)
  PROVE  FilesInv(hook[g])'
<1>1. FilesInv(hook[g])
  BY DEF IInv, CaptureInv
<1>2. Captured(hook'[g]) = Captured(hook[g])
  BY DEF Captured, Kept
<1>3. Captured(hook[g]) \subseteq Paths
  BY DEF Captured, Dirty, IInv, TypeOK, Captures
<1> QED
  BY <1>1, <1>2, <1>3 DEF FilesInv, Kept, Captured, WasRead

(* An entry of the index that moves becomes what the file holds: for a     *)
(* path with one content since the status, that one.                       *)
LEMMA IndexStays ==
  ASSUME IInv, [Next]_vars, NEW g \in Hooks, hook[g] # Idle, Kept(g)
  PROVE  IndexInv(hook[g])'
<1>0. hook[g] \in Captures /\ IndexInv(hook[g]) /\ FilesInv(hook[g])
  BY DEF IInv, TypeOK, CaptureInv
<1>1. CASE hook[g].pc \in Reading
  <2>1. ASSUME NEW p \in Paths, NEW v \in Holdings, hook'[g].held[p] = {v}
        PROVE  hook[g].held[p] = {v} /\ file[p] = v /\ (idx'[p] = idx[p] \/ idx'[p] = Seen(v))
    <3>1. file[p] \in hook[g].held[p]
      BY <1>0, <1>1 DEF FilesInv
    <3>2. hook[g].held[p] \subseteq {v}
      BY <2>1 DEF Kept
    <3> QED
      BY <3>1, <3>2, RepositoryMoves
  <2>2. /\ hook'[g].pc = hook[g].pc /\ hook'[g].status = hook[g].status
        /\ hook'[g].idx = hook[g].idx
    BY DEF Kept
  <2>3. hook[g].pc \notin Read
    BY <1>1 DEF Reading, Read
  <2>4. ASSUME NEW p \in Paths, NEW v \in Holdings, hook'[g].held[p] = {v},
               p \notin Dirty(hook[g].status)
        PROVE  idx'[p] = Seen(v)
    BY <1>0, <1>1, <2>1, <2>4 DEF IndexInv
  <2>5. ASSUME NEW p \in Paths, NEW v \in Holdings, hook'[g].held[p] = {v},
               hook[g].pc = "status2"
        PROVE  /\ idx'[p] = Seen(v) \/ idx'[p] = hook[g].idx[p]
               /\ p \notin Dirty(hook[g].status) => hook[g].idx[p] = Seen(v)
    BY <1>0, <2>1, <2>5 DEF IndexInv
  <2> QED
    BY <2>2, <2>3, <2>4, <2>5 DEF IndexInv
<1>2. CASE hook[g].pc \notin Reading
  <2>1. hook'[g] = hook[g]
    BY <1>2 DEF Kept
  <2> QED
    BY <1>0, <1>2, <2>1 DEF IndexInv, Reading, Read
<1> QED
  BY <1>1, <1>2

(* A plan stays the plan of what it was made from.                         *)
LEMMA PlanStays ==
  ASSUME IInv, [Next]_vars, NEW g \in Hooks, hook[g] # Idle, hook'[g] = hook[g],
         hook[g].from = row, row # None
  PROVE  (Plannable(hook[g])' <=> Plannable(hook[g])) /\ Taken(hook[g])' = Taken(hook[g])
<1>1. log'[row.head] = log[row.head]
  BY RepositoryMoves DEF IInv, RowInv
<1>2. \A p \in Paths : Verdict(hook[g], p)' = Verdict(hook[g], p)
  BY <1>1 DEF Verdict, Tracked
<1>3. Scope(hook[g])' = Scope(hook[g]) /\ Scope(hook[g]) \subseteq Paths
  BY DEF Scope, Dirty, IInv, TypeOK, Captures
<1>4. Taken(hook[g])' = Taken(hook[g])
  BY <1>2, <1>3 DEF Taken
<1>5. Readable(hook[g])' <=> Readable(hook[g])
  BY <1>1 DEF Readable
<1>6. Comparable(hook[g])' <=> Comparable(hook[g])
  BY DEF Comparable
<1> QED
  BY <1>2, <1>3, <1>4, <1>5, <1>6 DEF Plannable

(* A completion's baseline stays the recorded one, and its plan the plan.  *)
LEMMA FromStays ==
  ASSUME IInv, [Next]_vars, NEW g \in Hooks, hook[g] # Idle, Kept(g)
  PROVE  FromInv(hook[g])'
<1>0. FromInv(hook[g])
  BY DEF IInv, CaptureInv
<1>1. row # None => row' = row
  BY RowWritten
<1>2. /\ hook'[g].pc = hook[g].pc /\ hook'[g].kind = hook[g].kind /\ hook'[g].req = hook[g].req
      /\ hook'[g].from = hook[g].from
  BY DEF Kept
<1>3. ASSUME hook[g].pc = "run"
      PROVE  Plannable(hook[g])' /\ hook'[g].plan = [p \in Taken(hook[g])' |-> hook'[g].files[p]]
  <2>1. hook'[g] = hook[g] /\ hook[g].from = row /\ row # None
    BY <1>0, <1>3 DEF Kept, Reading, FromInv
  <2> QED
    BY <1>0, <1>3, <2>1, PlanStays DEF FromInv
<1> QED
  BY <1>0, <1>1, <1>2, <1>3 DEF FromInv

(* What a process knows stays true under the steps of the others.          *)
LEMMA KnowledgeStays ==
  ASSUME IInv, [Next]_vars, NEW g \in Hooks, hook[g] # Idle, Kept(g)
  PROVE  CaptureInv(hook[g])'
  BY HeadStays, FilesStay, IndexStays, FromStays DEF CaptureInv

-----------------------------------------------------------------------------
(* A process whose record is replaced.                                     *)
LEMMA Becomes ==
  ASSUME IInv, NEW h \in Hooks, NEW s \in Captures \cup {Idle}, hook' = [hook EXCEPT ![h] = s]
  PROVE  /\ hook'[h] = s /\ \A g \in Hooks : g # h => hook'[g] = hook[g]
         /\ hook' \in [Hooks -> Captures \cup {Idle}]
  BY DEF IInv, TypeOK

(* What the step of a process comes to: it has ended, or knows what it has *)
(* to at its next point.                                                   *)
GoesOn(h) ==
  /\ \A g \in Hooks : g # h => hook'[g] = hook[g]
  /\ hook' \in [Hooks -> Captures \cup {Idle}]
  /\ hook'[h] # Idle => CaptureInv(hook[h])'

(* A process ends, by its own checks or by an error.                       *)
LEMMA Ends ==
  ASSUME IInv, NEW h \in Hooks, hook' = [hook EXCEPT ![h] = Idle]
  PROVE  GoesOn(h)
  BY Becomes DEF GoesOn

(* A capture begins: nothing is read, and a completion has its baseline.   *)
LEMMA CaptureBegins ==
  ASSUME IInv, NEW h \in Hooks, NEW kind \in {"start", "sync", "complete"},
         NEW req \in SUBSET Paths, NEW from \in {row, None}, Capture(h, kind, req, from), row' = row,
         kind = "complete" =>
           row # None /\ from = row /\ (req # {} => row.status = Clean /\ row.paths = req)
  PROVE  GoesOn(h)
<1> DEFINE s == [pc |-> "head", kind |-> kind, req |-> req, from |-> from,
                 head |-> 0, idx |-> Empty, status |-> Clean, todo |-> {},
                 files |-> Empty, held |-> [p \in Paths |-> {}], plan |-> None]
<1>0. 0 \in 0 .. MaxCommits /\ Empty \in Tree /\ Clean \in Statuses /\ [p \in Paths |-> {}] \in Histories
  BY OwnershipAssumption DEF Empty, Tree, Clean, Statuses, Columns, Histories
<1>1. s \in Captures /\ s.pc = "head" /\ s.kind = kind /\ s.req = req /\ s.from = from
  BY <1>0 DEF Captures
<1>2. hook' = [hook EXCEPT ![h] = s]
  BY DEF Capture
<1> HIDE DEF s
<1>3. /\ hook'[h] = s /\ \A g \in Hooks : g # h => hook'[g] = hook[g]
      /\ hook' \in [Hooks -> Captures \cup {Idle}]
  BY <1>1, <1>2, Becomes
<1>4. HeadInv(hook[h])' /\ FilesInv(hook[h])' /\ IndexInv(hook[h])'
  BY <1>1, <1>3 DEF HeadInv, FilesInv, IndexInv, Reading, Read
<1>5. FromInv(hook[h])'
  BY <1>1, <1>3 DEF FromInv
<1> QED
  BY <1>3, <1>4, <1>5 DEF GoesOn, CaptureInv

(* HEAD is read.                                                           *)
LEMMA HeadRead ==
  ASSUME IInv, NEW h \in Hooks, ReadHead(h)
  PROVE  GoesOn(h)
<1> DEFINE s == [hook[h] EXCEPT !.head = head, !.pc = "index"]
<1>0. hook[h] \in Captures /\ CaptureInv(hook[h]) /\ hook[h].pc = "head"
  BY AtPoint DEF ReadHead
<1>1. head \in 1 .. head /\ head \in 0 .. MaxCommits
  BY OwnershipAssumption DEF IInv, TypeOK
<1>2. hook' = [hook EXCEPT ![h] = s] /\ row' = row /\ head' = head
  BY DEF ReadHead, head
<1>3. /\ s \in Captures /\ s.pc = "index" /\ s.head = head /\ s.kind = hook[h].kind
      /\ s.from = hook[h].from /\ s.req = hook[h].req
  BY <1>0, <1>1 DEF Captures
<1> HIDE DEF s
<1>4. /\ hook'[h] = s /\ \A g \in Hooks : g # h => hook'[g] = hook[g]
      /\ hook' \in [Hooks -> Captures \cup {Idle}]
  BY <1>2, <1>3, Becomes
<1>5. HeadInv(hook[h])' /\ FilesInv(hook[h])' /\ IndexInv(hook[h])'
  BY <1>1, <1>2, <1>3, <1>4 DEF HeadInv, FilesInv, IndexInv, Reading, Read
<1>6. FromInv(hook[h])'
  BY <1>0, <1>2, <1>3, <1>4 DEF FromInv, CaptureInv
<1> QED
  BY <1>4, <1>5, <1>6 DEF GoesOn, CaptureInv

(* The index is read.                                                      *)
LEMMA IndexRead ==
  ASSUME IInv, NEW h \in Hooks, ReadIndex(h)
  PROVE  GoesOn(h)
<1> DEFINE s == [hook[h] EXCEPT !.idx = idx, !.pc = "status"]
<1>0. hook[h] \in Captures /\ CaptureInv(hook[h]) /\ hook[h].pc = "index" /\ idx \in Tree
  BY AtPoint DEF ReadIndex, IInv, TypeOK
<1>1. hook' = [hook EXCEPT ![h] = s] /\ row' = row /\ head' = head
  BY DEF ReadIndex, head
<1>2. /\ s \in Captures /\ s.pc = "status" /\ s.head = hook[h].head /\ s.kind = hook[h].kind
      /\ s.from = hook[h].from /\ s.req = hook[h].req
  BY <1>0 DEF Captures
<1> HIDE DEF s
<1>3. /\ hook'[h] = s /\ \A g \in Hooks : g # h => hook'[g] = hook[g]
      /\ hook' \in [Hooks -> Captures \cup {Idle}]
  BY <1>1, <1>2, Becomes
<1>4. hook[h].head \in 1 .. head
  BY <1>0 DEF CaptureInv, HeadInv
<1>5. HeadInv(hook[h])' /\ FilesInv(hook[h])' /\ IndexInv(hook[h])'
  BY <1>1, <1>2, <1>3, <1>4 DEF HeadInv, FilesInv, IndexInv, Reading, Read
<1>6. FromInv(hook[h])'
  BY <1>0, <1>1, <1>2, <1>3 DEF FromInv, CaptureInv
<1> QED
  BY <1>3, <1>5, <1>6 DEF GoesOn, CaptureInv

(* The status is read at one moment: of HEAD, index and files then.        *)
LEMMA StatusRead ==
  ASSUME IInv, NEW h \in Hooks, ReadStatus(h)
  PROVE  GoesOn(h)
<1> DEFINE hd == [p \in Paths |-> {file[p]}]
           todo == Dirty(Status) \cup hook[h].req
           s == [hook[h] EXCEPT !.status = Status, !.todo = todo, !.held = hd, !.pc = "files"]
<1>0. /\ hook[h] \in Captures /\ CaptureInv(hook[h]) /\ hook[h].pc = "status" /\ TypeOK
      /\ file \in [Paths -> Holdings]
  BY AtPoint DEF ReadStatus, IInv, TypeOK
<1>1. Status \in Statuses /\ hd \in Histories /\ todo \in SUBSET Paths
  BY <1>0, StatusNow DEF Histories, Tree, Dirty, Captures
<1>2. /\ hook' = [hook EXCEPT ![h] = s] /\ row' = row /\ head' = head /\ log' = log /\ file' = file
      /\ idx' = idx
  BY DEF ReadStatus, head
<1>3. \A p \in Paths : hd[p] = {file[p]}
  OBVIOUS
<1>4. SawHead(Status, hd, log[head])
  BY <1>0, <1>3, StatusNow DEF SawHead
<1>5. \A p \in Paths : p \notin Dirty(Status) => idx[p] = Seen(file[p])
  BY <1>0, StatusNow
<1> HIDE DEF hd
<1>6. /\ s \in Captures /\ s.pc = "files" /\ s.head = hook[h].head /\ s.kind = hook[h].kind
      /\ s.from = hook[h].from /\ s.req = hook[h].req /\ s.status = Status /\ s.todo = todo
      /\ s.held = hd
  BY <1>0, <1>1 DEF Captures
<1> HIDE DEF s
<1>7. /\ hook'[h] = s /\ \A g \in Hooks : g # h => hook'[g] = hook[g]
      /\ hook' \in [Hooks -> Captures \cup {Idle}]
  BY <1>2, <1>6, Becomes
<1>8. hook[h].head \in 1 .. head /\ head \in hook[h].head .. head
  BY <1>0 DEF CaptureInv, HeadInv, TypeOK
<1>9. HeadInv(hook[h])'
  BY <1>2, <1>4, <1>6, <1>7, <1>8 DEF HeadInv, Read
<1>10. FilesInv(hook[h])'
  BY <1>2, <1>3, <1>6, <1>7 DEF FilesInv, Reading, Read, Captured, WasRead
<1>11. IndexInv(hook[h])'
  BY <1>2, <1>3, <1>5, <1>6, <1>7 DEF IndexInv, Read
<1>12. FromInv(hook[h])'
  BY <1>0, <1>2, <1>6, <1>7 DEF FromInv, CaptureInv
<1> QED
  BY <1>7, <1>9, <1>10, <1>11, <1>12 DEF GoesOn, CaptureInv

(* A file is read: it holds one of the contents held since the status.     *)
LEMMA FileRead ==
  ASSUME IInv, NEW h \in Hooks, NEW p \in Paths, ReadFile(h, p)
  PROVE  GoesOn(h)
<1> DEFINE fs == [hook[h].files EXCEPT ![p] = Observed(file[p])]
           todo == hook[h].todo \ {p}
           s == [hook[h] EXCEPT !.files = fs, !.todo = todo]
<1>0. /\ hook[h] \in Captures /\ CaptureInv(hook[h]) /\ hook[h].pc = "files"
      /\ file \in [Paths -> Holdings]
  BY AtPoint DEF ReadFile, IInv, TypeOK
<1>1. hook[h].files \in Tree /\ fs \in Tree /\ todo \in SUBSET Paths
  BY <1>0, SeenAndObserved DEF Tree, Captures, Values
<1>2. /\ hook' = [hook EXCEPT ![h] = s] /\ row' = row /\ head' = head /\ log' = log /\ file' = file
      /\ idx' = idx
  BY DEF ReadFile, head
<1>3. fs[p] = Observed(file[p]) /\ \A q \in Paths : q # p => fs[q] = hook[h].files[q]
  BY <1>1 DEF Tree
<1> HIDE DEF fs
<1>4. /\ s \in Captures /\ s.pc = "files" /\ s.head = hook[h].head /\ s.kind = hook[h].kind
      /\ s.from = hook[h].from /\ s.req = hook[h].req /\ s.status = hook[h].status
      /\ s.todo = todo /\ s.held = hook[h].held /\ s.files = fs
  BY <1>0, <1>1 DEF Captures
<1> HIDE DEF s
<1>5. /\ hook'[h] = s /\ \A g \in Hooks : g # h => hook'[g] = hook[g]
      /\ hook' \in [Hooks -> Captures \cup {Idle}]
  BY <1>2, <1>4, Becomes
<1>6. HeadInv(hook[h])'
  BY <1>0, <1>2, <1>4, <1>5 DEF HeadInv, Read, CaptureInv
<1>7. FilesInv(hook[h])'
  <2>1. Captured(hook[h]) \subseteq Paths /\ Captured(s) = Captured(hook[h])
    BY <1>0, <1>4 DEF Captured, Dirty, Captures
  <2>2. \A q \in Paths : file[q] \in hook[h].held[q]
    BY <1>0 DEF CaptureInv, FilesInv, Reading
  <2>3. \A q \in Captured(hook[h]) : q \in hook[h].todo \/ WasRead(hook[h], q)
    BY <1>0 DEF CaptureInv, FilesInv, Reading
  <2>4. ASSUME NEW q \in Captured(hook[h]) PROVE q \in todo \/ WasRead(s, q)
    <3>1. q \in Paths
      BY <2>1
    <3>2. CASE q = p
      <4>1. s.files[q] = Observed(file[q]) /\ file[q] \in s.held[q]
        BY <1>3, <1>4, <2>2, <3>1, <3>2
      <4> QED
        BY <4>1 DEF WasRead
    <3>3. CASE q # p
      <4>1. s.files[q] = hook[h].files[q] /\ s.held[q] = hook[h].held[q]
        BY <1>3, <1>4, <3>1, <3>3
      <4> QED
        BY <2>3, <3>3, <4>1 DEF WasRead
    <3> QED
      BY <3>2, <3>3
  <2>5. FilesInv(s)
    <3>1. \A q \in Paths : file[q] \in s.held[q]
      BY <1>4, <2>2
    <3>2. \A q \in Captured(s) : q \in s.todo \/ WasRead(s, q)
      BY <1>4, <2>1, <2>4
    <3>3. s.pc \in Reading /\ s.pc \notin (Reading \cup Read) \ {"files"}
      BY <1>4 DEF Reading, Read
    <3> QED
      BY <3>1, <3>2, <3>3 DEF FilesInv
  <2> QED
    BY <1>2, <1>5, <2>5 DEF FilesInv, Reading, Read, Captured, WasRead
<1>8. IndexInv(hook[h])'
  BY <1>0, <1>2, <1>4, <1>5 DEF IndexInv, Reading, Read, CaptureInv
<1>9. FromInv(hook[h])'
  BY <1>0, <1>2, <1>4, <1>5 DEF FromInv, CaptureInv
<1> QED
  BY <1>5, <1>6, <1>7, <1>8, <1>9 DEF GoesOn, CaptureInv

(* A capture is at l and has read nothing meanwhile.                       *)
GoneTo(h, l) ==
  /\ hook'[h] \in Captures /\ hook'[h].pc = l /\ hook'[h].head = hook[h].head
  /\ hook'[h].kind = hook[h].kind /\ hook'[h].from = hook[h].from
  /\ hook'[h].req = hook[h].req /\ hook'[h].status = hook[h].status
  /\ hook'[h].todo = hook[h].todo /\ hook'[h].held = hook[h].held
  /\ hook'[h].files = hook[h].files /\ hook'[h].idx = hook[h].idx
  /\ \A g \in Hooks : g # h => hook'[g] = hook[g]
  /\ hook' \in [Hooks -> Captures \cup {Idle}]
  /\ head' = head /\ log' = log /\ file' = file /\ idx' = idx

(* A capture that goes on and reads nothing.                               *)
LEMMA Passes ==
  ASSUME IInv, NEW h \in Hooks, hook[h] \in Captures,
         NEW l \in {"head2", "index2", "status2", "record", "accept", "plan"},
         hook' = [hook EXCEPT ![h] = [hook[h] EXCEPT !.pc = l]],
         log' = log /\ file' = file /\ idx' = idx
  PROVE  GoneTo(h, l)
<1> DEFINE s == [hook[h] EXCEPT !.pc = l]
<1>1. /\ s \in Captures /\ s.pc = l /\ s.head = hook[h].head /\ s.kind = hook[h].kind
      /\ s.from = hook[h].from /\ s.req = hook[h].req /\ s.status = hook[h].status
      /\ s.todo = hook[h].todo /\ s.held = hook[h].held /\ s.files = hook[h].files
      /\ s.idx = hook[h].idx
  BY DEF Captures
<1>2. hook' = [hook EXCEPT ![h] = s]
  OBVIOUS
<1> HIDE DEF s
<1> QED
  BY <1>1, <1>2, Becomes DEF head, GoneTo

(* All files are read.                                                     *)
LEMMA FilesDone ==
  ASSUME IInv, NEW h \in Hooks, FilesRead(h)
  PROVE  GoesOn(h)
<1>0. hook[h] \in Captures /\ CaptureInv(hook[h]) /\ hook[h].pc = "files" /\ hook[h].todo = {}
  BY AtPoint DEF FilesRead
<1>1. /\ hook' = [hook EXCEPT ![h] = [hook[h] EXCEPT !.pc = "head2"]]
      /\ log' = log /\ file' = file /\ idx' = idx /\ row' = row
  BY DEF FilesRead, Goto
<1>5. GoneTo(h, "head2") /\ row' = row
  BY <1>0, <1>1, Passes
<1>2. HeadInv(hook[h])'
  BY <1>0, <1>5 DEF GoneTo, HeadInv, CaptureInv, Read
<1>3. FilesInv(hook[h])'
  BY <1>0, <1>5 DEF GoneTo, FilesInv, CaptureInv, Reading, Captured, WasRead
<1>4. IndexInv(hook[h])' /\ FromInv(hook[h])'
  BY <1>0, <1>5 DEF GoneTo, IndexInv, FromInv, CaptureInv, Reading, Read
<1> QED
  BY <1>0, <1>2, <1>3, <1>4, <1>5 DEF GoneTo, GoesOn, CaptureInv

(* HEAD is unmoved: so it was when the status was read.                    *)
LEMMA HeadRechecked ==
  ASSUME IInv, NEW h \in Hooks, RecheckHead(h)
  PROVE  GoesOn(h)
<1>0. hook[h] \in Captures /\ CaptureInv(hook[h]) /\ hook[h].pc = "head2"
  BY AtPoint DEF RecheckHead
<1>1. CASE head # hook[h].head
  BY <1>1, Ends DEF RecheckHead
<1>2. CASE head = hook[h].head
  <2>1. /\ hook' = [hook EXCEPT ![h] = [hook[h] EXCEPT !.pc = "index2"]]
        /\ log' = log /\ file' = file /\ idx' = idx /\ row' = row
    BY <1>2 DEF RecheckHead
  <2>8. GoneTo(h, "index2") /\ row' = row
    BY <1>0, <2>1, Passes
  <2>2. PICK k \in hook[h].head .. head : SawHead(hook[h].status, hook[h].held, log[k])
    BY <1>0 DEF CaptureInv, HeadInv
  <2>3. k = hook[h].head /\ hook[h].head \in 1 .. head
    BY <1>0, <1>2, <2>2 DEF IInv, TypeOK, CaptureInv, HeadInv
  <2>4. HeadInv(hook[h])'
    BY <1>0, <2>2, <2>3, <2>8 DEF GoneTo, HeadInv
  <2>5. FilesInv(hook[h])'
    BY <1>0, <2>8 DEF GoneTo, FilesInv, CaptureInv, Reading, Captured, WasRead
  <2>6. IndexInv(hook[h])'
    BY <1>0, <2>8 DEF GoneTo, IndexInv, CaptureInv, Reading, Read
  <2>7. FromInv(hook[h])'
    BY <1>0, <2>8 DEF GoneTo, FromInv, CaptureInv
  <2> QED
    BY <1>0, <2>4, <2>5, <2>6, <2>7, <2>8 DEF GoneTo, GoesOn, CaptureInv
<1> QED
  BY <1>1, <1>2

(* The index is what it was before the status was read.                    *)
LEMMA IndexRechecked ==
  ASSUME IInv, NEW h \in Hooks, RecheckIndex(h)
  PROVE  GoesOn(h)
<1>0. hook[h] \in Captures /\ CaptureInv(hook[h]) /\ hook[h].pc = "index2"
  BY AtPoint DEF RecheckIndex
<1>1. CASE idx # hook[h].idx
  BY <1>1, Ends DEF RecheckIndex
<1>2. CASE idx = hook[h].idx
  <2>1. /\ hook' = [hook EXCEPT ![h] = [hook[h] EXCEPT !.pc = "status2"]]
        /\ log' = log /\ file' = file /\ idx' = idx /\ row' = row
    BY <1>2 DEF RecheckIndex
  <2>4. GoneTo(h, "status2") /\ row' = row
    BY <1>0, <2>1, Passes
  <2>2. HeadInv(hook[h])' /\ FilesInv(hook[h])' /\ FromInv(hook[h])'
    BY <1>0, <2>4 DEF GoneTo, HeadInv, FilesInv, FromInv, CaptureInv, Reading, Read, Captured, WasRead
  <2>3. IndexInv(hook[h])'
    BY <1>0, <1>2, <2>4 DEF GoneTo, IndexInv, CaptureInv, Reading, Read
  <2> QED
    BY <1>0, <2>2, <2>3, <2>4 DEF GoneTo, GoesOn, CaptureInv
<1> QED
  BY <1>1, <1>2

(* The status is what it was: then the index of a path that kept its       *)
(* content never moved.                                                    *)
LEMMA StatusRechecked ==
  ASSUME IInv, NEW h \in Hooks, RecheckStatus(h)
  PROVE  GoesOn(h)
<1>0. hook[h] \in Captures /\ CaptureInv(hook[h]) /\ hook[h].pc = "status2" /\ TypeOK
  BY AtPoint DEF RecheckStatus, IInv
<1>1. CASE ~SameStatus(h)
  BY <1>1, Ends DEF RecheckStatus
<1>2. CASE SameStatus(h)
  <2>1. PICK l \in {"record", "plan"} :
          /\ hook' = [hook EXCEPT ![h] = [hook[h] EXCEPT !.pc = l]]
          /\ l = "plan" <=> hook[h].kind = "complete"
    BY <1>2 DEF RecheckStatus
  <2>2. log' = log /\ file' = file /\ idx' = idx /\ row' = row
    BY DEF RecheckStatus
  <2>8. GoneTo(h, l) /\ row' = row
    BY <1>0, <2>1, <2>2, Passes
  <2>3. ASSUME NEW p \in Paths, NEW v \in Holdings, hook[h].held[p] = {v}
        PROVE  /\ p \notin Dirty(hook[h].status) => hook[h].idx[p] = Seen(v)
               /\ hook[h].status[p][2] # "same" => hook[h].idx[p] # Seen(v)
    <3>1. file[p] = v
      BY <1>0, <2>3 DEF CaptureInv, FilesInv, Reading
    <3>2. /\ idx[p] = Seen(v) \/ idx[p] = hook[h].idx[p]
          /\ p \notin Dirty(hook[h].status) => hook[h].idx[p] = Seen(v)
      BY <1>0, <2>3 DEF CaptureInv, IndexInv
    <3>3. hook[h].status[p][2] = "same" <=> idx[p] = Seen(file[p])
      BY <1>0, <1>2, StatusNow DEF SameStatus
    <3> QED
      BY <3>1, <3>2, <3>3
  <2>4. SawIndex(hook[h].status, hook[h].held, hook[h].idx)
    BY <2>3 DEF SawIndex
  <2>5. HeadInv(hook[h])' /\ FilesInv(hook[h])'
    BY <1>0, <2>1, <2>8 DEF GoneTo, HeadInv, FilesInv, CaptureInv, Reading, Read, Captured, WasRead
  <2>6. IndexInv(hook[h])'
    BY <1>0, <2>1, <2>4, <2>8 DEF GoneTo, IndexInv, Reading, Read
  <2>7. FromInv(hook[h])'
    BY <1>0, <2>1, <2>8 DEF GoneTo, FromInv, CaptureInv
  <2> QED
    BY <1>0, <2>1, <2>5, <2>6, <2>7, <2>8 DEF GoneTo, GoesOn, CaptureInv
<1> QED
  BY <1>1, <1>2

-----------------------------------------------------------------------------
(* The row of a capture that has passed its checks (EncodeDurableBaseline). *)
LEMMA RowOfCapture ==
  ASSUME IInv, NEW h \in Hooks, hook[h].pc = "record"
  PROVE  LET c == hook[h] IN
         /\ Row(c) \in Rows /\ Row(c) # None /\ c.held \in Histories /\ c.held # None
         /\ Row(c).head = c.head /\ Row(c).idx = c.idx /\ Row(c).status = c.status
         /\ Row(c).paths = Captured(c) /\ Captured(c) \subseteq Paths
         /\ \A p \in Captured(c) : WasRead(c, p) /\ Row(c).files[p] = Fingerprint(c.files[p])
<1> DEFINE c == hook[h]
<1>1. c \in Captures /\ CaptureInv(c)
  BY AtPoint
<1>2. Captured(c) \subseteq Paths /\ c.files \in Tree /\ c.held \in Histories
  BY <1>1 DEF Captured, Dirty, Captures
<1>3. Manifest(c) \in [Captured(c) -> {Fingerprint(v) : v \in Contents \cup {Absent}}]
  BY <1>2 DEF Manifest, Tree
<1>4. Manifest(c) \in Manifests
  BY <1>2, <1>3 DEF Manifests
<1>5. c.head \in 0 .. MaxCommits /\ c.idx \in Tree /\ c.status \in Statuses
  BY <1>1 DEF Captures
<1>6. Row(c) \in Rows
  BY <1>2, <1>4, <1>5 DEF Row, Rows
<1>7. Row(c) # None /\ c.held # None
  BY <1>2, <1>6, OwnershipNullAssumption
<1>8. \A p \in Captured(c) : WasRead(c, p)
  BY <1>1 DEF CaptureInv, FilesInv, Read, Reading
<1>9. \A p \in Captured(c) : Manifest(c)[p] = Fingerprint(c.files[p])
  BY DEF Manifest
<1>10. /\ Row(c).head = c.head /\ Row(c).idx = c.idx /\ Row(c).status = c.status
       /\ Row(c).paths = Captured(c) /\ Row(c).files = Manifest(c)
  BY DEF Row
<1> QED
  BY <1>2, <1>6, <1>7, <1>8, <1>9, <1>10

(* RecordSessionBaseline goes on to the event only with a row.             *)
LEMMA BaselineRecorded ==
  ASSUME IInv, NEW h \in Hooks, RecordBaseline(h)
  PROVE  GoesOn(h)
<1>0. hook[h] \in Captures /\ CaptureInv(hook[h]) /\ hook[h].pc = "record"
  BY AtPoint DEF RecordBaseline
<1>1. log' = log /\ file' = file /\ idx' = idx
  BY DEF RecordBaseline
<1>2. CASE ~(row' = Row(hook[h]) /\ hook[h].kind = "start")
  <2>1. hook' = [hook EXCEPT ![h] = Idle]
    BY <1>2 DEF RecordBaseline
  <2> QED
    BY <2>1, Ends
<1>3. CASE row' = Row(hook[h]) /\ hook[h].kind = "start"
  <2>1. hook' = [hook EXCEPT ![h] = [hook[h] EXCEPT !.pc = "accept"]]
    BY <1>3 DEF RecordBaseline
  <2>5. GoneTo(h, "accept")
    BY <1>0, <1>1, <2>1, Passes
  <2>2. row' # None
    BY <1>0, <1>3, RowOfCapture
  <2>3. HeadInv(hook[h])' /\ FilesInv(hook[h])' /\ IndexInv(hook[h])'
    BY <1>0, <2>5 DEF GoneTo, HeadInv, FilesInv, IndexInv, CaptureInv, Reading, Read, Captured, WasRead
  <2>4. FromInv(hook[h])'
    BY <1>0, <1>3, <2>2, <2>5 DEF GoneTo, FromInv
  <2> QED
    BY <1>0, <1>1, <2>3, <2>4, <2>5 DEF GoneTo, GoesOn, CaptureInv
<1> QED
  BY <1>2, <1>3

(* A plan is built of what was captured.                                   *)
LEMMA PlanBuilt ==
  ASSUME IInv, NEW h \in Hooks, BuildPlan(h)
  PROVE  GoesOn(h)
<1>0. hook[h] \in Captures /\ CaptureInv(hook[h]) /\ hook[h].pc = "plan"
  BY AtPoint DEF BuildPlan
<1>1. CASE ~Plannable(hook[h])
  <2>1. hook' = [hook EXCEPT ![h] = Idle]
    BY <1>1 DEF BuildPlan
  <2> QED
    BY <2>1, Ends
<1>2. CASE Plannable(hook[h])
  <2> DEFINE plan == [p \in Taken(hook[h]) |-> hook[h].files[p]]
             s == [hook[h] EXCEPT !.plan = plan, !.pc = "run"]
  <2>1. /\ hook' = [hook EXCEPT ![h] = s] /\ row' = row /\ head' = head /\ log' = log
        /\ file' = file /\ idx' = idx
    BY <1>2 DEF BuildPlan, PlannedContent, head
  <2>2. Taken(hook[h]) \subseteq Paths /\ hook[h].files \in Tree
    BY <1>0 DEF Taken, Scope, Dirty, Captures
  <2>3. plan \in [Taken(hook[h]) -> Contents \cup {Absent}]
    BY <2>2 DEF Tree
  <2>4. plan \in {None} \cup UNION {[S -> Contents \cup {Absent}] : S \in SUBSET Paths}
    BY <2>2, <2>3
  <2> HIDE DEF plan
  <2>5. /\ s \in Captures /\ s.pc = "run" /\ s.head = hook[h].head /\ s.kind = hook[h].kind
        /\ s.from = hook[h].from /\ s.req = hook[h].req /\ s.status = hook[h].status
        /\ s.todo = hook[h].todo /\ s.held = hook[h].held /\ s.files = hook[h].files
        /\ s.idx = hook[h].idx /\ s.plan = plan
    BY <1>0, <2>4 DEF Captures
  <2> HIDE DEF s
  <2>6. /\ hook'[h] = s /\ \A g \in Hooks : g # h => hook'[g] = hook[g]
        /\ hook' \in [Hooks -> Captures \cup {Idle}]
    BY <2>1, <2>5, Becomes
  <2>7. HeadInv(hook[h])' /\ FilesInv(hook[h])' /\ IndexInv(hook[h])'
    BY <1>0, <2>1, <2>5, <2>6 DEF HeadInv, FilesInv, IndexInv, CaptureInv, Reading, Read, Captured, WasRead
  <2>8. \A p \in Paths : Verdict(hook[h], p)' = Verdict(hook[h], p)
    BY <2>1, <2>5, <2>6 DEF Verdict, Tracked
  <2>9. Scope(hook[h])' = Scope(hook[h]) /\ Scope(hook[h]) \subseteq Paths
    <3>1. Scope(hook[h])' = Scope(hook[h])
      BY <2>5, <2>6 DEF Scope, Dirty
    <3>2. Scope(hook[h]) \subseteq Paths
      BY <1>0 DEF Scope, Dirty, Captures
    <3> QED
      BY <3>1, <3>2
  <2>10. Taken(hook[h])' = Taken(hook[h])
    BY <2>8, <2>9 DEF Taken
  <2>11. Readable(hook[h])' /\ Comparable(hook[h])'
    BY <1>2, <2>1, <2>5, <2>6 DEF Plannable, Readable, Comparable
  <2>12. Plannable(hook[h])'
    BY <1>2, <2>8, <2>9, <2>10, <2>11 DEF Plannable
  <2>13. hook'[h].plan = [p \in Taken(hook[h])' |-> hook'[h].files[p]]
    BY <2>5, <2>6, <2>10 DEF plan
  <2>14. FromInv(hook[h])'
    BY <1>0, <2>1, <2>5, <2>6, <2>12, <2>13 DEF FromInv, CaptureInv
  <2> QED
    BY <2>6, <2>7, <2>14 DEF GoesOn, CaptureInv
<1> QED
  BY <1>1, <1>2

(* Every step of a process.                                                *)
LEMMA ProcessGoesOn ==
  ASSUME IInv, NEW h \in Hooks, Process(h)
  PROVE  GoesOn(h)
<1>1. CASE SessionStarted(h)
  BY <1>1, CaptureBegins DEF SessionStarted
<1>2. CASE RecordBaseline(h)
  BY <1>2, BaselineRecorded
<1>3. CASE AcceptStarted(h)
  BY <1>3, Ends DEF AcceptStarted
<1>4. ASSUME NEW req \in Requests, Sync(h, req) PROVE GoesOn(h)
  BY <1>4, CaptureBegins, OwnershipAssumption DEF Sync
<1>5. ASSUME NEW req \in SUBSET Paths, Resume(h, req) PROVE GoesOn(h)
  BY <1>5, CaptureBegins DEF Resume, Resumable
<1>6. CASE CaptureStep(h)
  BY <1>6, HeadRead, IndexRead, StatusRead, FileRead, FilesDone, HeadRechecked, IndexRechecked,
     StatusRechecked DEF CaptureStep
<1>7. CASE BuildPlan(h)
  BY <1>7, PlanBuilt
<1>8. CASE End(h)
  BY <1>8, Ends DEF End
<1> QED
  BY <1>1, <1>2, <1>3, <1>4, <1>5, <1>6, <1>7, <1>8, OwnershipAssumption
     DEF Process, SyncComplete, Verify, HookComplete

-----------------------------------------------------------------------------
(* The recorded baseline keeps what its capture knew, for good: the commit *)
(* it names stays in the history.                                          *)
LEMMA RowStays ==
  ASSUME IInv, [Next]_vars
  PROVE  /\ RowInv' /\ row' \in Rows \cup {None} /\ base' \in Histories \cup {None}
         /\ row' = None <=> base' = None
<1>0. RowInv /\ row \in Rows \cup {None} /\ base \in Histories \cup {None} /\ (row = None <=> base = None)
  BY DEF IInv, TypeOK
<1>1. CASE row' = row /\ base' = base
  <2>1. ASSUME row # None PROVE row.head \in 1 .. head' /\ log'[row.head] = log[row.head]
    BY <1>0, <2>1, RepositoryMoves DEF RowInv
  <2> QED
    BY <1>0, <1>1, <2>1 DEF RowInv
<1>2. ASSUME NEW h \in Hooks, RecordBaseline(h), row' = Row(hook[h]), base' = hook[h].held
      PROVE  /\ RowInv' /\ row' \in Rows \cup {None} /\ base' \in Histories \cup {None}
             /\ row' = None <=> base' = None
  <2> DEFINE c == hook[h]
  <2>1. c.pc = "record" /\ CaptureInv(c) /\ c \in Captures
    BY <1>2, AtPoint DEF RecordBaseline
  <2>2. log' = log /\ head' = head
    BY <1>2 DEF RecordBaseline, head
  <2>3. c.head \in 1 .. head /\ SawHead(c.status, c.held, log[c.head]) /\ SawIndex(c.status, c.held, c.idx)
    BY <2>1 DEF CaptureInv, HeadInv, IndexInv, Read
  <2>4. /\ row' \in Rows /\ row' # None /\ base' \in Histories /\ base' # None
        /\ row'.head = c.head /\ row'.idx = c.idx /\ row'.status = c.status /\ row'.paths = Captured(c)
        /\ \A p \in Captured(c) : WasRead(c, p) /\ row'.files[p] = Fingerprint(c.files[p])
    BY <1>2, <2>1, RowOfCapture
  <2>5. Dirty(c.status) \subseteq Captured(c)
    BY DEF Captured
  <2> HIDE DEF c
  <2>6. base' = c.held
    BY <1>2 DEF c
  <2> QED
    BY <2>2, <2>3, <2>4, <2>5, <2>6 DEF RowInv, WasRead
<1> QED
  BY <1>1, <1>2, RowWritten

(* The types under a step; a completion's baseline stays the recorded one. *)
LEMMA TypesStay ==
  ASSUME IInv, [Next]_vars, hook' \in [Hooks -> Captures \cup {Idle}]
  PROVE  TypeOK'
<1>1. Captures \subseteq Captures'
  <2>1. {row, None} \subseteq {row', None}
    BY RowWritten
  <2> QED
    BY <2>1 DEF Captures
<1>2. hook' \in [Hooks -> Captures' \cup {Idle}]
  BY <1>1
<1>3. receipt' \in BOOLEAN
  BY RowWritten DEF IInv, TypeOK
<1>4. Idle' = Idle
  BY DEF Idle
<1> QED
  BY <1>2, <1>3, <1>4, RepositoryMoves, RowStays DEF TypeOK

(* What a process knows is inductive.                                      *)
LEMMA NextIInv == IInv /\ [Next]_vars => IInv'
<1> SUFFICES ASSUME IInv, [Next]_vars PROVE IInv'
  OBVIOUS
<1> DEFINE Known == \A h \in Hooks : hook'[h] # Idle => CaptureInv(hook[h])'
<1>2. ASSUME NEW h \in Hooks, Process(h)
      PROVE  hook' \in [Hooks -> Captures \cup {Idle}] /\ Known
  <2>1. GoesOn(h)
    BY <1>2, ProcessGoesOn
  <2>2. file' = file
    BY <1>2 DEF Process, SessionStarted, RecordBaseline, AcceptStarted, Sync, SyncComplete, Verify,
       HookComplete, Resume, CaptureStep, ReadHead, ReadIndex, ReadStatus, ReadFile, FilesRead,
       RecheckHead, RecheckIndex, RecheckStatus, BuildPlan, End
  <2>3. ASSUME NEW g \in Hooks, g # h, hook[g] # Idle PROVE CaptureInv(hook[g])'
    <3>1. hook'[g] = hook[g] /\ CaptureInv(hook[g])
      BY <2>1, <2>3 DEF GoesOn, IInv
    <3>2. Kept(g)
      BY <2>2, <3>1 DEF Kept, CaptureInv, FilesInv
    <3> QED
      BY <2>3, <3>2, KnowledgeStays
  <2> QED
    BY <2>1, <2>3 DEF GoesOn
<1>3. hook' \in [Hooks -> Captures \cup {Idle}] /\ Known
  <2>1. CASE User \/ UNCHANGED vars
    BY <2>1, UserKeeps, KnowledgeStays
  <2> QED
    BY <1>2, <2>1 DEF Next
<1>4. receipt' => row' # None
  <2>1. ASSUME NEW h \in Hooks, AcceptStarted(h) PROVE row # None
    BY <2>1, AtPoint DEF AcceptStarted, CaptureInv, FromInv
  <2> QED
    BY <2>1, RowWritten DEF IInv
<1>5. Idle' = Idle
  BY DEF Idle
<1> QED
  BY <1>3, <1>4, <1>5, TypesStay, RowStays DEF IInv

(* A repository before the first session.                                  *)
LEMMA InitIInv == Init => IInv
<1> SUFFICES ASSUME Init PROVE IInv
  OBVIOUS
<1>1. log \in Seq(Tree) /\ head = 1 /\ head \in 1 .. MaxCommits
  BY OwnershipAssumption DEF Init, head
<1>2. TypeOK
  <2>1. idx \in Tree /\ file \in [Paths -> Holdings] /\ edits \in 0 .. MaxEdits
    BY OwnershipAssumption DEF Init, Tree, Holdings
  <2>2. hook \in [Hooks -> Captures \cup {Idle}]
    BY DEF Init
  <2>3. row = None /\ base = None
    BY DEF Init
  <2>4. receipt \in BOOLEAN
    BY DEF Init
  <2> QED
    BY <1>1, <2>1, <2>2, <2>3, <2>4 DEF TypeOK
<1>3. \A h \in Hooks : hook[h] = Idle
  BY DEF Init
<1> QED
  BY <1>2, <1>3 DEF IInv, RowInv, Init

(* What processes, rows and the repository know of each other is invariant. *)
THEOREM Invariance == Spec => []IInv
<1>1. Init => IInv
  BY InitIInv
<1>2. IInv /\ [Next]_vars => IInv'
  BY NextIInv
<1> QED
  BY <1>1, <1>2, PTL DEF Spec

-----------------------------------------------------------------------------
(* captureBaselineFiles: what a plan would commit is what a read of the    *)
(* worktree gives at some moment of the completion's own capture.          *)
THEOREM PlansWhatWasRead == Spec => []PlannedContentWasRead
<1>1. IInv => PlannedContentWasRead
  <2> SUFFICES ASSUME IInv, NEW h \in Hooks, hook[h].pc = "run", NEW p \in DOMAIN hook[h].plan
               PROVE  hook[h].plan[p] \in {Observed(v) : v \in hook[h].held[p]}
    BY DEF PlannedContentWasRead
  <2>1. hook[h] \in Captures /\ CaptureInv(hook[h])
    BY AtPoint
  <2>2. hook[h].plan = [q \in Taken(hook[h]) |-> hook[h].files[q]]
    BY <2>1 DEF CaptureInv, FromInv
  <2>3. p \in Captured(hook[h]) /\ hook[h].plan[p] = hook[h].files[p]
    BY <2>2 DEF Taken, Scope, Captured
  <2>4. hook[h].todo = {} /\ \A q \in Captured(hook[h]) : q \in hook[h].todo \/ WasRead(hook[h], q)
    BY <2>1 DEF CaptureInv, FilesInv, Reading, Read
  <2> QED
    BY <2>3, <2>4 DEF WasRead
<1> QED
  BY <1>1, Invariance, PTL

(* App.hook: session.started is accepted only with a baseline that knows   *)
(* every path that was modified when it was taken.                         *)
THEOREM StartsHaveBaseline == Spec => []StartedHasBaseline
<1>1. IInv => StartedHasBaseline
  <2> SUFFICES ASSUME IInv, receipt
               PROVE  /\ row # None
                      /\ \A p \in Quiet(base), v \in Holdings :
                            base[p] = {v} /\ Seen(v) # BaseTree[p] =>
                              p \in row.paths /\ row.files[p] = Fingerprint(Observed(v))
    BY DEF StartedHasBaseline
  <2>1. row # None /\ RowInv
    BY DEF IInv
  <2>2. ASSUME NEW p \in Quiet(base), NEW v \in Holdings, base[p] = {v}, Seen(v) # BaseTree[p]
        PROVE  p \in Dirty(row.status)
    BY <2>1, <2>2 DEF RowInv, SawHead, BaseTree, Quiet
  <2>3. ASSUME NEW p \in row.paths, NEW v \in Holdings, base[p] = {v}
        PROVE  row.files[p] = Fingerprint(Observed(v))
    BY <2>1, <2>3 DEF RowInv
  <2> QED
    BY <2>1, <2>2, <2>3 DEF RowInv
<1> QED
  BY <1>1, Invariance, PTL

(* The verdict on a path of the status when no paths are asked for         *)
(* (BuildPlanFromFingerprints), for a path with one content in each        *)
(* capture: b in the baseline's, w in the completion's.                    *)
LEMMA OwnedWithoutPaths ==
  ASSUME IInv, NEW h \in Hooks, hook[h].pc = "run", hook[h].req = {}, NEW p \in Paths,
         NEW b \in Values, NEW w \in Values, base[p] = {b}, hook[h].held[p] = {w}
  PROVE  p \in Taken(hook[h]) <=> b = BaseTree[p] /\ Fingerprint(w) # Fingerprint(BaseTree[p])
<1> DEFINE c == hook[h]
           t == BaseTree[p]
<1>1. c \in Captures /\ CaptureInv(c) /\ RowInv
  BY AtPoint DEF IInv
<1>2. c.kind = "complete" /\ row # None /\ c.from = row /\ Plannable(c)
  BY <1>1 DEF CaptureInv, FromInv
<1>3. c.head = row.head /\ c.idx = row.idx /\ \A q \in Scope(c) : Verdict(c, q) # "refuse"
  BY <1>2 DEF Plannable, Comparable
<1>4. Scope(c) = Dirty(c.status)
  BY DEF Scope
<1>5. t \in Values
  BY <1>1, <1>2 DEF RowInv, BaseTree, IInv, TypeOK, Tree, Values, head
(* The baseline's capture. *)
<1>0. /\ b \in Holdings /\ Seen(b) = b /\ Observed(b) = b
      /\ w \in Holdings /\ Seen(w) = w /\ Observed(w) = w
  BY ValuesAreSeen
<1>6. /\ p \notin Dirty(row.status) => t = b /\ row.idx[p] = b
      /\ p \in Dirty(row.status) => p \in row.paths
      /\ p \in row.paths => row.files[p] = Fingerprint(b)
  <2>1. SawHead(row.status, base, log[row.head]) /\ SawIndex(row.status, base, row.idx)
    BY <1>1, <1>2 DEF RowInv
  <2>2. p \notin Dirty(row.status) => t = b /\ row.idx[p] = b
    BY <1>0, <2>1 DEF SawHead, SawIndex, BaseTree
  <2>3. p \in row.paths => row.files[p] = Fingerprint(b)
    BY <1>0, <1>1, <1>2 DEF RowInv
  <2> QED
    BY <1>1, <1>2, <2>2, <2>3 DEF RowInv
(* The completion's own. *)
<1>7. /\ p \notin Dirty(c.status) => t = w /\ c.idx[p] = w
      /\ p \in Dirty(c.status) /\ t = w => c.idx[p] # w
      /\ p \in Dirty(c.status) => c.files[p] = w
  <2>1. SawHead(c.status, c.held, log[c.head]) /\ SawIndex(c.status, c.held, c.idx)
    BY <1>1 DEF CaptureInv, HeadInv, IndexInv, Read
  <2>2. c.todo = {} /\ \A q \in Captured(c) : q \in c.todo \/ WasRead(c, q)
    BY <1>1 DEF CaptureInv, FilesInv, Reading, Read
  <2>3. log[c.head][p] = t
    BY <1>3 DEF BaseTree
  <2>4. p \in Dirty(c.status) => c.files[p] = w
    BY <1>0, <2>2 DEF Captured, WasRead
  <2> HIDE DEF t
  <2>5. p \notin Dirty(c.status) => t = w /\ c.idx[p] = w
    BY <1>0, <2>1, <2>3 DEF SawHead, SawIndex
  <2>6. p \in Dirty(c.status) /\ t = w => c.idx[p] # w
    BY <1>0, <2>1, <2>3 DEF SawHead, SawIndex
  <2> QED
    BY <2>4, <2>5, <2>6
<1>9. Verdict(c, p) = FingerprintVerdict(p \in row.paths, IF p \in row.paths THEN row.files[p] ELSE Absent,
                                         t # Absent, c.files[p])
  BY <1>2 DEF Verdict, Tracked, BaseTree
<1>10. Absent \notin Links /\ (\A v \in Values : Fingerprint(v) = Absent <=> v = Absent)
       /\ \A v \in Values : v \notin Links => Fingerprint(v) = v /\ \A u \in Links : Fingerprint(u) # v
  BY OwnershipAssumption, OwnershipNullAssumption DEF Fingerprint, Values
<1>11. p \in Taken(c) <=> p \in Dirty(c.status) /\ Verdict(c, p) = "take"
  BY <1>4 DEF Taken
<1> HIDE DEF c, t
<1>12. CASE p \notin Dirty(c.status)
  BY <1>7, <1>11, <1>12 DEF c, t
<1>13. CASE p \in Dirty(c.status) /\ p \notin row.paths
  <2>1. t = b /\ t # w
    BY <1>3, <1>6, <1>7, <1>13
  <2>2. Verdict(c, p) = FingerprintVerdict(FALSE, Absent, t # Absent, w)
    BY <1>7, <1>9, <1>13 DEF FingerprintVerdict
  <2>3. Verdict(c, p) # "refuse"
    BY <1>3, <1>4, <1>13
  <2>4. w \notin Links
    BY <1>10, <2>2, <2>3 DEF FingerprintVerdict
  <2>5. Verdict(c, p) = "take"
    BY <1>10, <2>1, <2>2, <2>4 DEF FingerprintVerdict
  <2>6. Fingerprint(w) # Fingerprint(t)
    BY <1>5, <1>10, <2>1, <2>4 DEF Fingerprint
  <2> QED
    BY <1>11, <1>13, <2>1, <2>5, <2>6 DEF c, t
<1>14. CASE p \in Dirty(c.status) /\ p \in row.paths
  <2>1. Verdict(c, p) = FingerprintVerdict(TRUE, Fingerprint(b), t # Absent, w)
    BY <1>6, <1>7, <1>9, <1>14
  <2>2. Verdict(c, p) # "refuse"
    BY <1>3, <1>4, <1>14
  <2>3. CASE t # Absent \/ Fingerprint(b) # Absent
    <3>1. Verdict(c, p) = "skip" /\ Fingerprint(w) = Fingerprint(b)
      BY <2>1, <2>2, <2>3 DEF FingerprintVerdict
    <3> QED
      BY <1>11, <3>1 DEF c, t
  <2>4. CASE t = Absent /\ Fingerprint(b) = Absent
    <3>1. b = Absent
      BY <1>10, <2>4
    <3>2. CASE w = Absent
      <4>1. Verdict(c, p) = "skip"
        BY <1>10, <2>1, <2>4, <3>2 DEF FingerprintVerdict
      <4> QED
        BY <1>11, <2>4, <3>2, <4>1 DEF c, t
    <3>3. CASE w # Absent
      <4>1. w \notin Links
        BY <2>1, <2>2, <2>4, <3>3 DEF FingerprintVerdict
      <4>2. Verdict(c, p) = "take"
        BY <2>1, <2>4, <3>3, <4>1 DEF FingerprintVerdict
      <4>3. Fingerprint(w) # Fingerprint(t)
        BY <1>10, <2>4, <3>3
      <4> QED
        BY <1>11, <1>14, <2>4, <3>1, <4>2, <4>3 DEF c, t
    <3> QED
      BY <3>2, <3>3
  <2> QED
    BY <2>3, <2>4
<1> QED
  BY <1>12, <1>13, <1>14

(* The same for the paths a sync asks for (BuildObservedPlan), where the   *)
(* baseline was clean.                                                     *)
LEMMA OwnedWithPaths ==
  ASSUME IInv, NEW h \in Hooks, hook[h].pc = "run", NEW p \in hook[h].req,
         NEW b \in Values, NEW w \in Values, base[p] = {b}, hook[h].held[p] = {w}
  PROVE  p \in Taken(hook[h]) <=> b = BaseTree[p] /\ Fingerprint(w) # Fingerprint(BaseTree[p])
<1> DEFINE c == hook[h]
           t == BaseTree[p]
<1>1. c \in Captures /\ CaptureInv(c) /\ RowInv /\ p \in Paths
  BY AtPoint DEF IInv, Captures
<1>2. c.kind = "complete" /\ row # None /\ c.from = row /\ Plannable(c) /\ row.status = Clean
  BY <1>1 DEF CaptureInv, FromInv
<1>3. t \notin Links /\ Verdict(c, p) # "refuse" /\ c.req # {} /\ Scope(c) = c.req
  BY <1>2 DEF Plannable, Readable, Scope, BaseTree
<1>4. t \in Values
  BY <1>1, <1>2 DEF RowInv, BaseTree, IInv, TypeOK, Tree, Values, head
<1>5. p \notin Dirty(row.status)
  BY <1>1, <1>2 DEF Dirty, Clean
<1>0. Seen(b) = b /\ Observed(w) = w
  BY ValuesAreSeen
<1>6. t = b
  BY <1>0, <1>1, <1>2, <1>5 DEF RowInv, SawHead, BaseTree
<1>7. c.files[p] = w
  <2>1. c.todo = {} /\ \A q \in Captured(c) : q \in c.todo \/ WasRead(c, q)
    BY <1>1 DEF CaptureInv, FilesInv, Reading, Read
  <2> QED
    BY <1>0, <2>1 DEF Captured, WasRead
<1>8. Verdict(c, p) = ObservedVerdict(t, w)
  BY <1>2, <1>3, <1>7 DEF Verdict, BaseTree
<1>9. p \in Taken(c) <=> Verdict(c, p) = "take"
  BY <1>3 DEF Taken
<1>10. Absent \notin Links /\ (\A v \in Values : Fingerprint(v) = Absent <=> v = Absent)
  BY OwnershipAssumption, OwnershipNullAssumption DEF Fingerprint, Values
<1> HIDE DEF c, t
<1>11. CASE t # Absent
  <2>1. w = t /\ Verdict(c, p) = "skip"
    BY <1>3, <1>8, <1>11 DEF ObservedVerdict
  <2> QED
    BY <1>9, <2>1 DEF c, t
<1>12. CASE t = Absent /\ w = Absent
  <2>1. Verdict(c, p) = "skip"
    BY <1>8, <1>10, <1>12 DEF ObservedVerdict
  <2> QED
    BY <1>9, <1>12, <2>1 DEF c, t
<1>13. CASE t = Absent /\ w # Absent
  <2>1. Verdict(c, p) = "take"
    BY <1>3, <1>8, <1>13 DEF ObservedVerdict
  <2>2. Fingerprint(w) # Fingerprint(t)
    BY <1>10, <1>13, <1>4
  <2> QED
    BY <1>6, <1>9, <2>1, <2>2 DEF c, t
<1> QED
  BY <1>11, <1>12, <1>13

(* No path is taken that git saw modified when the baseline was taken.     *)
LEMMA TakenWasUnmodified ==
  ASSUME IInv, NEW h \in Hooks, hook[h].pc = "run", NEW p \in Taken(hook[h]),
         NEW b \in Holdings, base[p] = {b}
  PROVE  Seen(b) = BaseTree[p]
<1> DEFINE c == hook[h]
           t == BaseTree[p]
<1>1. c \in Captures /\ CaptureInv(c) /\ RowInv
  BY AtPoint DEF IInv
<1>2. c.kind = "complete" /\ row # None /\ c.from = row /\ (c.req # {} => row.status = Clean)
  BY <1>1 DEF CaptureInv, FromInv
<1>3. p \in Paths
  BY <1>1 DEF Taken, Scope, Dirty, Captures
<1>4. p \notin Dirty(row.status) => Seen(b) = t
  BY <1>1, <1>2, <1>3 DEF RowInv, SawHead, BaseTree
<1>5. CASE c.req # {}
  <2>1. p \notin Dirty(row.status)
    BY <1>2, <1>3, <1>5 DEF Dirty, Clean
  <2> QED
    BY <1>4, <2>1
<1>6. CASE c.req = {} /\ p \in row.paths
  <2>1. row.files[p] = Fingerprint(Observed(b))
    BY <1>1, <1>2, <1>6 DEF RowInv
  <2>2. FingerprintVerdict(TRUE, row.files[p], t # Absent, c.files[p]) = "take"
    BY <1>2, <1>6 DEF Taken, Verdict, Tracked, BaseTree
  <2> HIDE DEF t
  <2>3. t = Absent /\ row.files[p] = Absent
    BY <2>2 DEF FingerprintVerdict
  <2>4. Observed(b) = Absent
    BY <2>1, <2>3, SeenAndObserved, OwnershipAssumption, OwnershipNullAssumption DEF Fingerprint
  <2>5. Seen(b) = Absent
    BY <2>4, SeenAndObserved
  <2> QED
    BY <2>3, <2>5 DEF t
<1>7. CASE p \notin row.paths
  BY <1>1, <1>2, <1>4, <1>7 DEF RowInv
<1> QED
  BY <1>5, <1>6, <1>7

(* BuildOwnedPlanAtCurrent: a plan holds only paths git saw unmodified when *)
(* the session's baseline was taken; directories apart, exactly those of   *)
(* them that are modified now.                                             *)
THEOREM PlansSessionWork == Spec => []PlanIsSessionWork
<1>1. IInv => PlanIsSessionWork
  <2> SUFFICES ASSUME IInv, NEW h \in Hooks, hook[h].pc = "run",
                      NEW p \in Quiet(base) \cap Quiet(hook[h].held),
                      hook[h].req = {} \/ p \in hook[h].req
               PROVE  /\ p \in DOMAIN hook[h].plan => \A v \in base[p] : Seen(v) = BaseTree[p]
                      /\ Directory \notin base[p] \cup hook[h].held[p] =>
                           (p \in DOMAIN hook[h].plan <=>
                             /\ base[p] = {BaseTree[p]}
                             /\ \A v \in hook[h].held[p] : Fingerprint(v) # Fingerprint(BaseTree[p]))
    BY DEF PlanIsSessionWork
  <2>1. PICK b \in Holdings : base[p] = {b}
    BY DEF Quiet
  <2>2. PICK w \in Holdings : hook[h].held[p] = {w}
    BY DEF Quiet
  <2>3. p \in Paths
    BY DEF Quiet
  <2>4. hook[h].plan = [q \in Taken(hook[h]) |-> hook[h].files[q]]
    BY AtPoint DEF CaptureInv, FromInv
  <2>5. DOMAIN hook[h].plan = Taken(hook[h])
    BY <2>4
  <2>6. p \in Taken(hook[h]) => Seen(b) = BaseTree[p]
    BY <2>1, TakenWasUnmodified
  <2>7. ASSUME Directory \notin base[p] \cup hook[h].held[p]
        PROVE  p \in Taken(hook[h]) <=> b = BaseTree[p] /\ Fingerprint(w) # Fingerprint(BaseTree[p])
    <3>1. b \in Values /\ w \in Values
      BY <2>1, <2>2, <2>7 DEF Holdings, Values
    <3> QED
      BY <2>1, <2>2, <2>3, <3>1, OwnedWithoutPaths, OwnedWithPaths
  <2> QED
    BY <2>1, <2>2, <2>5, <2>6, <2>7
<1> QED
  BY <1>1, Invariance, PTL
=============================================================================
