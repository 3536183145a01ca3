------------------------------ MODULE Ownership ------------------------------
(***************************************************************************)
(* Which worktree paths a session may commit.  A session starts with a     *)
(* baseline of the repository (internal/repository CaptureBaseline...),    *)
(* recorded once per session (state.RecordSessionBaseline) before the      *)
(* session.started event is accepted; its completion captures the          *)
(* repository again and turns the difference into a staging plan           *)
(* (session.BuildOwnedPlanAtCurrent, internal/staging).                    *)
(*                                                                         *)
(* The repository is three trees: that of the commit HEAD names, the       *)
(* index and the worktree.  A capture reads them one by one while the user *)
(* and the agent go on editing, staging and committing; its last three     *)
(* reads repeat the first three and refuse a difference.  Hooks and sync   *)
(* commands are processes that may run side by side, fail or die at any    *)
(* step and be delivered again.                                            *)
(*                                                                         *)
(* Contents stands for bytes and mode together.  A value of Links is a     *)
(* symbolic link: it is recorded by its kind only.  A path of the worktree *)
(* may also hold a directory, which no tree has and git status and git add *)
(* take for nothing; a read of it yields the observation of an empty file. *)
(***************************************************************************)
EXTENDS Naturals, Sequences

CONSTANTS
    Paths,          \* repository-relative paths git does not ignore
    Contents,       \* what a path may hold
    Links,          \* the contents that are symbolic links
    Blank,          \* the content of an empty executable file
    Absent,         \* a path that is not in a tree
    Directory,      \* a path of the worktree that is an (empty) directory
    Hooks,          \* processes: hook deliveries and sync commands
    Requests,       \* the path lists of sync; {} is --all-owned and the hook
    None,           \* no row, no plan
    MaxCommits,     \* bound on the commits of the user
    MaxEdits        \* bound on the edits, stagings and commits together

ASSUME OwnershipAssumption ==
    /\ Links \subseteq Contents /\ Blank \in Contents \ Links
    /\ Absent \notin Contents /\ Directory \notin Contents \cup {Absent}
    /\ None \notin [Paths -> Contents \cup {Absent}]
    /\ Requests \subseteq SUBSET Paths
    /\ MaxCommits \in Nat \ {0}
    /\ MaxEdits \in Nat

VARIABLES
    log,        \* the commits of the user, oldest first, each a tree
    idx,        \* the index
    file,       \* the worktree
    edits,      \* number of edits made, for the bound
    row,        \* the session's row of the sessions table, or None
    receipt,    \* session.started has been accepted
    hook,       \* the processes
    base        \* ghost: what each path held while the recorded baseline was captured

vars == <<log, idx, file, edits, row, receipt, hook, base>>

Tree == [Paths -> Contents \cup {Absent}]

\* What a path of the worktree may hold.
Holdings == Contents \cup {Absent, Directory}

\* What git compares with the index, and adds to it.
Seen(v) == IF v = Directory THEN Absent ELSE v

\* captureBaselineFile: a path that is neither regular nor a link is reported as
\* present, with no content and its mode, of which normalizedMode keeps the
\* executable bits.
Observed(v) == IF v = Directory THEN Blank ELSE v

Empty == [p \in Paths |-> Absent]

head == Len(log)

\* One column of git status: how y differs from x.
Change(x, y) ==
    CASE x = y -> "same"
      [] x = Absent /\ y # Absent -> "new"
      [] x # Absent /\ y = Absent -> "gone"
      [] {x, y} \subseteq Contents /\ x # y ->
             IF (x \in Links) = (y \in Links) THEN "changed" ELSE "kind"

\* git status --porcelain: HEAD against the index, the index against the worktree.
Status == [p \in Paths |-> <<Change(log[head][p], idx[p]), Change(idx[p], Seen(file[p]))>>]

Clean == [p \in Paths |-> <<"same", "same">>]

Dirty(status) == {p \in Paths : status[p] # <<"same", "same">>}

\* What the manifest of a baseline keeps of a file: presence, kind, digest and mode.
Fingerprint(v) == IF v \in Links THEN "link" ELSE v

\* The results of git status, the values each path may have held, and the rows
\* of the sessions table.
Columns == {"same", "new", "gone", "kind", "changed"}
Statuses == [Paths -> Columns \X Columns]
Histories == [Paths -> SUBSET Holdings]
Manifests == UNION {[S -> {Fingerprint(v) : v \in Contents \cup {Absent}}] : S \in SUBSET Paths}
Rows == [head : 0 .. MaxCommits, idx : Tree, status : Statuses, paths : SUBSET Paths,
         files : Manifests]

ASSUME OwnershipNullAssumption ==
    /\ None \notin Rows \cup Histories
    /\ "link" \notin Contents \cup {Absent}

Idle == [pc |-> "idle"]

Running(h) == hook[h].pc # "idle"

Init ==
    /\ file \in Tree
    /\ idx = file
    /\ log = <<file>>
    /\ edits = 0
    /\ row = None
    /\ receipt = FALSE
    /\ hook = [h \in Hooks |-> Idle]
    /\ base = None

-----------------------------------------------------------------------------
(* The user and the agent.  held follows what a path holds while a capture *)
(* is between its first and its last look at the status.                   *)

Watching(h) == hook[h].pc \in {"files", "head2", "index2", "status2"}

Edit(p, v) ==
    /\ edits < MaxEdits
    /\ file[p] # v
    /\ file' = [file EXCEPT ![p] = v]
    /\ edits' = edits + 1
    /\ hook' = [h \in Hooks |->
                  IF Watching(h) THEN [hook[h] EXCEPT !.held[p] = @ \cup {v}] ELSE hook[h]]
    /\ UNCHANGED <<log, idx, row, receipt, base>>

Stage(p) ==
    /\ edits < MaxEdits
    /\ idx[p] # Seen(file[p])
    /\ idx' = [idx EXCEPT ![p] = Seen(file[p])]
    /\ edits' = edits + 1
    /\ UNCHANGED <<log, file, row, receipt, hook, base>>

UserCommit ==
    /\ edits < MaxEdits
    /\ head < MaxCommits
    /\ idx # log[head]
    /\ log' = Append(log, idx)
    /\ edits' = edits + 1
    /\ UNCHANGED <<idx, file, row, receipt, hook, base>>

-----------------------------------------------------------------------------
(* CaptureBaselineWithOptions, the same for a baseline and for a           *)
(* completion.  req is the explicit path list.                             *)

Capture(h, kind, req, from) ==
    hook' = [hook EXCEPT ![h] =
        [pc |-> "head", kind |-> kind, req |-> req, from |-> from,
         head |-> 0, idx |-> Empty, status |-> Clean, todo |-> {},
         files |-> Empty, held |-> [p \in Paths |-> {}], plan |-> None]]

Goto(h, pc) == hook' = [hook EXCEPT ![h].pc = pc]

ReadHead(h) ==
    /\ hook[h].pc = "head"
    /\ hook' = [hook EXCEPT ![h].head = head, ![h].pc = "index"]
    /\ UNCHANGED <<log, idx, file, edits, row, receipt, base>>

ReadIndex(h) ==
    /\ hook[h].pc = "index"
    /\ hook' = [hook EXCEPT ![h].idx = idx, ![h].pc = "status"]
    /\ UNCHANGED <<log, idx, file, edits, row, receipt, base>>

\* The paths of a capture: those of the status and those asked for.
ReadStatus(h) ==
    /\ hook[h].pc = "status"
    /\ hook' = [hook EXCEPT ![h].status = Status,
                            ![h].todo = Dirty(Status) \cup hook[h].req,
                            ![h].held = [p \in Paths |-> {file[p]}],
                            ![h].pc = "files"]
    /\ UNCHANGED <<log, idx, file, edits, row, receipt, base>>

Captured(c) == Dirty(c.status) \cup c.req

\* A file that changes while it is read is refused (End), so a read is one step.
ReadFile(h, p) ==
    /\ hook[h].pc = "files"
    /\ p \in hook[h].todo
    /\ hook' = [hook EXCEPT ![h].files[p] = Observed(file[p]), ![h].todo = @ \ {p}]
    /\ UNCHANGED <<log, idx, file, edits, row, receipt, base>>

FilesRead(h) ==
    /\ hook[h].pc = "files"
    /\ hook[h].todo = {}
    /\ Goto(h, "head2")
    /\ UNCHANGED <<log, idx, file, edits, row, receipt, base>>

RecheckHead(h) ==
    /\ hook[h].pc = "head2"
    /\ hook' = [hook EXCEPT ![h] =
                  IF head = hook[h].head THEN [hook[h] EXCEPT !.pc = "index2"] ELSE Idle]
    /\ UNCHANGED <<log, idx, file, edits, row, receipt, base>>

RecheckIndex(h) ==
    /\ hook[h].pc = "index2"
    /\ hook' = [hook EXCEPT ![h] =
                  IF idx = hook[h].idx THEN [hook[h] EXCEPT !.pc = "status2"] ELSE Idle]
    /\ UNCHANGED <<log, idx, file, edits, row, receipt, base>>

SameStatus(h) == Status = hook[h].status

RecheckStatus(h) ==
    /\ hook[h].pc = "status2"
    /\ hook' = [hook EXCEPT ![h] =
                  IF ~SameStatus(h) THEN Idle
                  ELSE [hook[h] EXCEPT !.pc =
                          IF hook[h].kind = "complete" THEN "plan" ELSE "record"]]
    /\ UNCHANGED <<log, idx, file, edits, row, receipt, base>>

\* Any step may end in an error of git or of the file system, or with the
\* process; and the workflow that runs a plan (GitCommit) returns.
End(h) ==
    /\ Running(h)
    /\ hook' = [hook EXCEPT ![h] = Idle]
    /\ UNCHANGED <<log, idx, file, edits, row, receipt, base>>

-----------------------------------------------------------------------------
(* The start of a session: App.hook for session.started, and sync.         *)

\* A delivery whose receipt is known is answered DUPLICATE before any capture.
SessionStarted(h) ==
    /\ ~Running(h)
    /\ ~receipt
    /\ Capture(h, "start", {}, None)
    /\ UNCHANGED <<log, idx, file, edits, row, receipt, base>>

Sync(h, req) ==
    /\ ~Running(h)
    /\ req # {}
    /\ Capture(h, "sync", req, None)
    /\ UNCHANGED <<log, idx, file, edits, row, receipt, base>>

\* EncodeDurableBaseline, keyed by path id.
Manifest(c) == [p \in Captured(c) |-> Fingerprint(c.files[p])]

\* The row of a captured baseline.
Row(c) ==
    [head |-> c.head, idx |-> c.idx, status |-> c.status, paths |-> Captured(c),
     files |-> Manifest(c)]

\* A slip: the last baseline of a session replaces the first.
RecordBaselineLatest(h) ==
    /\ hook[h].pc = "record"
    /\ row' = Row(hook[h])
    /\ base' = IF row = None THEN hook[h].held ELSE base
    /\ hook' = [hook EXCEPT ![h] =
                  IF hook[h].kind = "start" THEN [hook[h] EXCEPT !.pc = "accept"] ELSE Idle]
    /\ UNCHANGED <<log, idx, file, edits, receipt>>

\* RecordSessionBaseline, one transaction: the first baseline of a session
\* stays; any other one is an identity conflict.  Every caller passes the
\* identity key, so no row is without evidence to be filled in later.
RecordBaseline(h) ==
    LET c == hook[h] IN
    /\ c.pc = "record"
    /\ row' = IF row = None THEN Row(c) ELSE row
    /\ base' = IF row = None THEN c.held ELSE base
    /\ hook' = [hook EXCEPT ![h] =
                  IF row' = Row(c) /\ c.kind = "start" THEN [c EXCEPT !.pc = "accept"] ELSE Idle]
    /\ UNCHANGED <<log, idx, file, edits, receipt>>

\* AcceptAndProject; a duplicate changes nothing.
AcceptStarted(h) ==
    /\ hook[h].pc = "accept"
    /\ receipt' = TRUE
    /\ hook' = [hook EXCEPT ![h] = Idle]
    /\ UNCHANGED <<log, idx, file, edits, row, base>>

-----------------------------------------------------------------------------
(* Completion: the hook, sync --complete and verify.                       *)

\* ResumeFromDurable.  With explicit paths the baseline must have been
\* clean and have been taken for the same paths.
Resumable(req) ==
    /\ row # None
    /\ req = {} \/ (row.status = Clean /\ row.paths = req)

Resume(h, req) ==
    /\ ~Running(h)
    /\ Resumable(req)
    /\ Capture(h, "complete", req, row)
    /\ UNCHANGED <<log, idx, file, edits, row, receipt, base>>

\* completeLifecycle: a claim of an accepted session; it names no paths.
HookComplete(h) == receipt /\ Resume(h, {})

\* sync --complete
SyncComplete(h, req) == Resume(h, req)

\* verify: the same plan, which VerifyPlan checks and does not commit.
Verify(h, req) == Resume(h, req)

\* A slip: a tracked path that was absent at the baseline is taken for a clean one.
FingerprintVerdictPresent(had, old, tracked, now) ==
    IF had /\ old # Absent
    THEN IF Fingerprint(now) = old THEN "skip" ELSE "refuse"
    ELSE CASE now = Absent -> IF tracked THEN "take" ELSE "skip"
           [] now \in Links -> "refuse"
           [] OTHER -> "take"

\* BuildPlanFromFingerprints for one path of the current status: had says
\* that the manifest has it, old is its fingerprint there, tracked that
\* the commit of the baseline has it.
FingerprintVerdict(had, old, tracked, now) ==
    IF had /\ (tracked \/ old # Absent)
    THEN IF Fingerprint(now) = old THEN "skip" ELSE "refuse"
    ELSE CASE now = Absent -> IF tracked THEN "take" ELSE "skip"
           [] now \in Links -> "refuse"
           [] OTHER -> "take"

\* BuildObservedPlan for one requested path: old is its content in the
\* commit of the baseline.
ObservedVerdict(old, now) ==
    IF old # Absent
    THEN IF now = old THEN "skip" ELSE "refuse"
    ELSE CASE now = Absent -> "skip"
           [] now \in Links -> "refuse"
           [] OTHER -> "take"

\* CaptureCommittedPathPresence: the commit of the baseline b has the path.
Tracked(b, p) == log[b.head][p] # Absent

Verdict(c, p) ==
    LET b == c.from  old == log[b.head][p]  had == p \in b.paths
    IN  IF c.req = {}
        THEN FingerprintVerdict(had, IF had THEN b.files[p] ELSE Absent,
                                Tracked(b, p), c.files[p])
        ELSE ObservedVerdict(old, c.files[p])

\* The paths ownership is decided for.
Scope(c) == IF c.req = {} THEN Dirty(c.status) ELSE c.req

Taken(c) == {p \in Scope(c) : Verdict(c, p) = "take"}

\* HEAD and the index must be those of the baseline.
Comparable(c) == c.head = c.from.head /\ c.idx = c.from.idx

\* CaptureCommittedFiles refuses a link in the tree of the baseline.
Readable(c) == c.req = {} \/ \A p \in c.req : log[c.from.head][p] \notin Links

Plannable(c) ==
    /\ Readable(c)
    /\ Comparable(c)
    /\ \A p \in Scope(c) : Verdict(c, p) # "refuse"
    /\ Taken(c) # {}

\* A slip: the plan reads the worktree again after the ownership decision.
PlannedContentNow(c, p) == Observed(file[p])

\* CandidateSnapshot: the captured observation itself.
PlannedContent(c, p) == c.files[p]

\* BuildOwnedPlanAtCurrent; the plan goes to the verified workflow.
BuildPlan(h) ==
    LET c == hook[h] IN
    /\ c.pc = "plan"
    /\ hook' = [hook EXCEPT ![h] =
                  IF Plannable(c)
                  THEN [c EXCEPT !.plan = [p \in Taken(c) |-> PlannedContent(c, p)], !.pc = "run"]
                  ELSE Idle]
    /\ UNCHANGED <<log, idx, file, edits, row, receipt, base>>

User ==
    \/ \E p \in Paths : Stage(p) \/ \E v \in Holdings : Edit(p, v)
    \/ UserCommit

CaptureStep(h) ==
    \/ ReadHead(h) \/ ReadIndex(h) \/ ReadStatus(h)
    \/ (\E p \in Paths : ReadFile(h, p)) \/ FilesRead(h)
    \/ RecheckHead(h) \/ RecheckIndex(h) \/ RecheckStatus(h)

Process(h) ==
    \/ SessionStarted(h) \/ RecordBaseline(h) \/ AcceptStarted(h)
    \/ (\E req \in Requests : Sync(h, req) \/ SyncComplete(h, req) \/ Verify(h, req))
    \/ HookComplete(h)
    \/ CaptureStep(h) \/ BuildPlan(h) \/ End(h)

Next == User \/ \E h \in Hooks : Process(h)

Spec == Init /\ [][Next]_vars

-----------------------------------------------------------------------------
Captures ==
    [pc : {"head", "index", "status", "files", "head2", "index2", "status2",
           "record", "accept", "plan", "run"},
     kind : {"start", "sync", "complete"}, req : SUBSET Paths,
     from : {row, None}, head : 0 .. MaxCommits, idx : Tree, status : Statuses,
     todo : SUBSET Paths, files : Tree, held : Histories,
     plan : {None} \cup UNION {[S -> Contents \cup {Absent}] : S \in SUBSET Paths}]

\* The types of the state.
TypeOK ==
    /\ log \in Seq(Tree) /\ head \in 1 .. MaxCommits
    /\ idx \in Tree /\ file \in [Paths -> Holdings] /\ edits \in 0 .. MaxEdits
    /\ receipt \in BOOLEAN
    /\ hook \in [Hooks -> Captures \cup {Idle}]
    /\ row \in Rows \cup {None} /\ base \in Histories \cup {None}
    /\ (row = None) <=> (base = None)

\* A path that kept one value while it was being captured.
Quiet(held) == {p \in Paths : \E v \in Holdings : held[p] = {v}}

BaseTree == log[row.head]

\* internal/session BuildOwnedPlanAtCurrent: whatever the user and the agent
\* do between and during the two captures, and however often the start of
\* the session is delivered, a plan holds only paths that git saw unmodified
\* when the session's baseline was taken, nothing the user had in hand before
\* the session; and, directories apart, exactly those of them that are modified
\* now, so that nothing is left out.
\* (A path that changes back and forth inside a capture is not covered, and a
\* link that has become another link is not told apart from the first.)
PlanIsSessionWork ==
    \A h \in Hooks : hook[h].pc = "run" =>
        \A p \in Quiet(base) \cap Quiet(hook[h].held) :
            (hook[h].req = {} \/ p \in hook[h].req) =>
                /\ p \in DOMAIN hook[h].plan => \A v \in base[p] : Seen(v) = BaseTree[p]
                /\ Directory \notin base[p] \cup hook[h].held[p] =>
                     (p \in DOMAIN hook[h].plan <=>
                         /\ base[p] = {BaseTree[p]}
                         /\ \A v \in hook[h].held[p] : Fingerprint(v) # Fingerprint(BaseTree[p]))

\* internal/repository captureBaselineFiles: what a plan would commit for a
\* path (a content, or its deletion) is what a read of the worktree could give
\* at some instant of the completion's own capture, never an older observation.
PlannedContentWasRead ==
    \A h \in Hooks : hook[h].pc = "run" =>
        \A p \in DOMAIN hook[h].plan : hook[h].plan[p] \in {Observed(v) : v \in hook[h].held[p]}

\* A plan represents what happened to a path: it commits a content the path held
\* while the completion was captured, or the deletion of one that git saw gone
\* ("Renames, deletions, file mode changes, symlinks, ... MUST be represented
\* correctly", FR-GIT-003, docs/product-requirements.md:129).  The code does not
\* keep it: a tracked file that became a directory is planned as an empty file
\* (observation.go:786, staging.go:215).
PlannedContentWasThere ==
    \A h \in Hooks : hook[h].pc = "run" =>
        \A p \in DOMAIN hook[h].plan : hook[h].plan[p] \in {Seen(v) : v \in hook[h].held[p]}

\* internal/app App.hook: session.started is accepted only with a recorded
\* baseline whose manifest knows every path git saw modified when it was
\* taken, by what was read of it; later deliveries do not replace it.
StartedHasBaseline ==
    receipt =>
        /\ row # None
        /\ \A p \in Quiet(base), v \in Holdings :
              base[p] = {v} /\ Seen(v) # BaseTree[p] =>
                  p \in row.paths /\ row.files[p] = Fingerprint(Observed(v))
=============================================================================
