------------------------- MODULE PublishGateProofs -------------------------
(***************************************************************************)
(* Proofs about PublishGate and HistoryScan, for any sets of commands,     *)
(* destinations, verifiers, configurations and executables, any histories  *)
(* and any limits of the scans.                                            *)
(*                                                                         *)
(* Two arguments meet.  CommandInv says what a command that reads policy,  *)
(* history, registry and executables one after the other still knows when  *)
(* it contacts the provider, all of them having changed meanwhile.         *)
(* RevListIsComplete and HistorySafeIsInnocent say what the evidence of a  *)
(* history scan means.  git rev-list is a recursion over the parents: that *)
(* it computes the closure is shown without induction over data, by the    *)
(* least commit on which two solutions of its equation differ.             *)
(***************************************************************************)
EXTENDS PublishGate, TLAPS, WellFoundedInduction

(* A set of commits with the parents of its members.                       *)
Closed(h, S) == \A x \in S : h.parents[x] \subseteq S

(* What a commit reaches, without recursion.                               *)
Reached(h, n) ==
    [c \in 1..n |-> {x \in 1..n : \A S \in SUBSET (1..n) : c \in S /\ Closed(h, S) => x \in S}]

(* The equation of the recursion in RevList.                               *)
IsReach(h, n, f) == f = [c \in 1..n |-> {c} \cup UNION {f[p] : p \in h.parents[c]}]

(* What commits reach solves the equation git rev-list is defined by       *)
(* (RevList), so that there is a solution.                                 *)
LEMMA ReachedIsReach ==
  ASSUME NEW n \in Nat, NEW h, h.parents \in [1..n -> SUBSET (1..n)]
  PROVE  IsReach(h, n, Reached(h, n))
<1> DEFINE f == Reached(h, n)
<1>1. ASSUME NEW c \in 1..n PROVE f[c] = {c} \cup UNION {f[p] : p \in h.parents[c]}
  <2> DEFINE T == {c} \cup UNION {f[p] : p \in h.parents[c]}
  <2>1. ASSUME NEW d \in 1..n
        PROVE f[d] = {x \in 1..n : \A S \in SUBSET (1..n) : d \in S /\ Closed(h, S) => x \in S}
    BY <2>1 DEF Reached
  <2>2. \A d \in 1..n : d \in f[d]
    BY <2>1
  <2>3. h.parents[c] \subseteq 1..n
    OBVIOUS
  <2>4. T \in SUBSET (1..n)
    BY <2>1, <2>3
  <2>5. Closed(h, T)
    <3> SUFFICES ASSUME NEW y \in T, NEW z \in h.parents[y] PROVE z \in T
      BY DEF Closed
    <3>1. CASE y = c
      BY <3>1, <2>2, <2>3
    <3>2. ASSUME NEW p \in h.parents[c], y \in f[p] PROVE z \in T
      <4>1. p \in 1..n /\ y \in 1..n /\ z \in 1..n
        BY <2>1, <2>3, <3>2
      <4>2. ASSUME NEW S \in SUBSET (1..n), p \in S, Closed(h, S) PROVE z \in S
        <5>1. y \in S
          BY <2>1, <3>2, <4>1, <4>2
        <5> QED
          BY <4>2, <5>1 DEF Closed
      <4>3. z \in f[p]
        BY <2>1, <4>1, <4>2
      <4> QED
        BY <4>3
    <3> QED
      BY <3>1, <3>2
  <2>6. f[c] \subseteq T
    BY <2>1, <2>4, <2>5
  <2>7. ASSUME NEW p \in h.parents[c], NEW x \in f[p] PROVE x \in f[c]
    <3>1. p \in 1..n /\ x \in 1..n
      BY <2>1, <2>3
    <3>2. ASSUME NEW S \in SUBSET (1..n), c \in S, Closed(h, S) PROVE x \in S
      <4>1. p \in S
        BY <3>2 DEF Closed
      <4> QED
        BY <2>1, <3>1, <3>2, <4>1
    <3> QED
      BY <2>1, <3>1, <3>2
  <2> HIDE DEF f
  <2>8. T \subseteq f[c]
    BY <2>2, <2>7
  <2> QED
    BY <2>6, <2>8
<1>2. f = [c \in 1..n |-> f[c]]
  BY DEF Reached
<1> HIDE DEF f
<1>3. [c \in 1..n |-> f[c]] = [c \in 1..n |-> {c} \cup UNION {f[p] : p \in h.parents[c]}]
  BY <1>1, Zenon
<1>4. f = [c \in 1..n |-> {c} \cup UNION {f[p] : p \in h.parents[c]}]
  BY <1>2, <1>3, Zenon
<1>5. IsReach(h, n, f)
  BY <1>4, Zenon DEF IsReach
<1> QED
  BY <1>5 DEF f

(* A set of numbers that is not empty has a least one.                     *)
LEMMA NatMin ==
  ASSUME NEW T \in SUBSET Nat, T # {}
  PROVE  \E x \in T : \A y \in T : x <= y
<1>1. \E x \in T : \A y \in T : ~ (<<y, x>> \in OpToRel(<, Nat))
  BY WFMin, NatLessThanWellFounded
<1>2. PICK x \in T : \A y \in T : ~ (<<y, x>> \in OpToRel(<, Nat))
  BY <1>1
<1>3. \A y \in T : ~ (y < x)
  BY <1>2 DEF OpToRel
<1> QED
  BY <1>3

(* RevList is the value at the tip of a solution of its equation.          *)
LEMMA RevListIsReach ==
  ASSUME NEW n \in Nat, NEW h, h.parents \in [1..n -> SUBSET (1..n)]
  PROVE  \E f : IsReach(h, n, f) /\ RevList(h, n) = f[n]
<1> DEFINE g == CHOOSE f : f = [c \in 1..n |-> {c} \cup UNION {f[p] : p \in h.parents[c]}]
<1>0. \E f : IsReach(h, n, f)
  BY ReachedIsReach
<1>1. \E f : f = [c \in 1..n |-> {c} \cup UNION {f[p] : p \in h.parents[c]}]
  BY <1>0 DEF IsReach
<1>2. g = [c \in 1..n |-> {c} \cup UNION {g[p] : p \in h.parents[c]}]
  BY <1>1
<1>3. RevList(h, n) = g[n]
  BY DEF RevList
<1> QED
  BY <1>2, <1>3 DEF IsReach

(* git rev-list of the tip lists every commit the branch publishes: what   *)
(* the recursion over the parents computes holds each commit that is in    *)
(* every closed set with the tip.                                          *)
LEMMA RevListIsComplete ==
  ASSUME NEW h \in Histories(Trees, Tip)
  PROVE  Published(h) \subseteq RevList(h, Tip) /\ RevList(h, Tip) \subseteq 1..Tip
<1>0. /\ Tip \in Nat /\ Tip \in 1..Tip
      /\ h.parents \in [1..Tip -> SUBSET (1..Tip)]
      /\ \A c \in 1..Tip : h.parents[c] \subseteq 1..(c - 1)
  BY GateAssumption DEF Histories
<1>1. PICK g : IsReach(h, Tip, g) /\ RevList(h, Tip) = g[Tip]
  BY <1>0, RevListIsReach
<1> DEFINE f == Reached(h, Tip)
<1>2. \A c \in 1..Tip : f[c] = {c} \cup UNION {f[p] : p \in h.parents[c]}
  BY <1>0, ReachedIsReach DEF IsReach
<1>3. \A c \in 1..Tip : g[c] = {c} \cup UNION {g[p] : p \in h.parents[c]}
  BY <1>1 DEF IsReach
<1>4. f[Tip] = Published(h)
  BY <1>0 DEF Reached, Published, Closed
<1>5. \A c \in 1..Tip : f[c] \subseteq 1..Tip
  BY DEF Reached
<1> HIDE DEF f
<1>6. f[Tip] = g[Tip]
  <2> DEFINE Bad == {c \in 1..Tip : f[c] # g[c]}
  <2>1. SUFFICES ASSUME Bad # {} PROVE FALSE
    BY <1>0
  <2>2. Bad \in SUBSET Nat
    BY <1>0
  <2>3. PICK c \in Bad : \A d \in Bad : c <= d
    BY <2>1, <2>2, NatMin
  <2>4. ASSUME NEW p \in h.parents[c] PROVE f[p] = g[p]
    <3>1. p \in 1..Tip /\ p < c
      BY <1>0
    <3> QED
      BY <1>0, <2>3, <3>1
  <2>5. {f[p] : p \in h.parents[c]} = {g[p] : p \in h.parents[c]}
    BY <2>4
  <2>6. f[c] = g[c]
    BY <1>2, <1>3, <2>5
  <2> QED
    BY <2>6
<1> QED
  BY <1>0, <1>1, <1>4, <1>5, <1>6

(* What the property asks of one entry of a tree.                          *)
Innocent(p, e) ==
  e # Absent => /\ e.mode \in {"file", "exec"}
                /\ p \notin Hot
                /\ e.blob \notin Tainted \cup Pointers
                /\ Size[e.blob] <= MaxBlobBytes

(* Each path of a tree has its record (parseTree).                         *)
LEMMA EntryOf ==
  ASSUME NEW tree, NEW p \in Paths, tree[p] # Absent
  PROVE  [path |-> p, blob |-> tree[p].blob, mode |-> tree[p].mode] \in EntriesOf(tree)
<1>1. p \in {q \in Paths : tree[q] # Absent}
  OBVIOUS
<1>2. \E q \in {q \in Paths : tree[q] # Absent} :
        [path |-> p, blob |-> tree[p].blob, mode |-> tree[p].mode]
          = [path |-> q, blob |-> tree[q].blob, mode |-> tree[q].mode]
  BY <1>1
<1> QED
  BY <1>2, Zenon DEF EntriesOf

(* A history scan without a finding has read every file of every commit on *)
(* the list (HistoryScanner.Scan), under each path it lies at.             *)
LEMMA HistorySafeIsInnocent ==
  ASSUME NEW h \in Histories(Trees, Tip), HistorySafe(h, Tip),
         NEW c \in RevList(h, Tip), NEW p \in Paths
  PROVE  Innocent(p, h.tree[c][p])
<1> SUFFICES ASSUME h.tree[c][p] # Absent
             PROVE  /\ h.tree[c][p].mode \in {"file", "exec"}
                    /\ p \notin Hot
                    /\ h.tree[c][p].blob \notin Tainted \cup Pointers
                    /\ Size[h.tree[c][p].blob] <= MaxBlobBytes
  BY DEF Innocent
<1> DEFINE b == h.tree[c][p].blob
           e == [path |-> p, blob |-> b, mode |-> h.tree[c][p].mode]
           items == Items(h, Tip)
<1>1. c \in 1..Tip
  BY RevListIsComplete
<1>2. h.tree[c][p] \in [blob : Blobs, mode : Modes]
  <2>1. h.tree \in [1..Tip -> Trees]
    BY DEF Histories
  <2>2. h.tree[c] \in [Paths -> [blob : Blobs, mode : Modes] \cup {Absent}]
    BY <1>1, <2>1 DEF Trees
  <2> QED
    BY <2>2
<1>3. e \in EntriesOf(h.tree[c])
  BY EntryOf
<1>4. e \in items
  BY <1>3 DEF Items
<1>5. b \in Blobs /\ Size[b] \in Nat /\ MaxBlobBytes \in Nat
  BY <1>2, ScanAssumption
<1>6. /\ \A i \in items : Regular(i)
      /\ Oversized(items) = {}
      /\ \A x \in Planned(items) : BlobSafe(items, x)
  BY DEF HistorySafe
<1> HIDE DEF items
<1>7. Regular(e)
  BY <1>4, <1>6
<1>8. e \in Kept(items, b)
  BY <1>4, <1>7 DEF Kept
<1>9. Size[b] <= MaxBlobBytes
  BY <1>5, <1>6, <1>8 DEF Oversized
<1>10. b \in Planned(items)
  BY <1>5, <1>8, <1>9 DEF Planned
<1>11. b \notin Pointers /\ ~ScanFile(e)
  BY <1>6, <1>8, <1>10 DEF BlobSafe
<1> QED
  BY <1>7, <1>9, <1>11 DEF ScanFile, Regular

-----------------------------------------------------------------------------
(* The commands, as records.                                               *)
Before == {"intent", "policy", "snapshot", "candidate", "history", "registry"}
Pcs == Before \cup {"verify", "open", "evaluate", "confirm", "push", "create"}

Registries == {<< >>} \cup UNION {[S -> [how : Listed, exe : Exes]] : S \in SUBSET Verifiers}

Cmds ==
  [pc : Pcs, kind : {"publish", "create"}, mode : {"private", "public"}, dest : Dests,
   ready : BOOLEAN, granted : BOOLEAN, registry : Registries,
   evidence : SUBSET {"candidate", "history"}, todo : SUBSET Verifiers,
   passed : SUBSET Verifiers, ran : SUBSET (Verifiers \X Exes), at : Verifiers \cup {None}]

(* What a public push rests on.                                            *)
Cleared ==
  HistorySafe(past, Tip) /\ Documented(Tree) /\ Selected(recorded) # {}

(* What a command knows at each point.                                     *)
CommandInv(r) ==
  /\ r.kind = "create" => r.pc \in {"policy", "create"}
  /\ r.kind = "publish" => r.pc # "create"
  /\ Grants(policy, r.mode, r.dest) => r.granted
  /\ r.pc \notin {"intent", "policy"} => r.granted
  /\ "history" \in r.evidence => HistorySafe(past, Tip)
  /\ r.pc \in Before => r.passed = {}
  /\ r.pc = "open" => r.at \in Verifiers
  /\ Bound => r.ran = {<<v, r.registry[v].exe>> : v \in r.passed}
  /\ r.kind = "publish" /\ r.mode = "public" /\ r.pc \in {"confirm", "push"} =>
       Cleared /\ r.registry = recorded /\ r.passed = Selected(recorded)

RunInv == \A c \in Commands : run[c] = Idle \/ (run[c] \in Cmds /\ CommandInv(run[c]))

(* What is on record of a contact, and in the job a retry works from.      *)
Reasons == [mode : {"private", "public"}, dest : Dests, kind : {"publish", "create", "retry"},
            granted : BOOLEAN, ran : SUBSET (Verifiers \X Exes)]

GroundsInv(k) ==
  /\ k \in Reasons
  /\ k.kind # "retry" => k.granted
  /\ k.kind # "create" /\ k.mode = "public" =>
       /\ Cleared
       /\ Bound => k.ran = {<<v, recorded[v].exe>> : v \in Selected(recorded)}

JobInv(j) ==
  j \in [state : Outcomes, why : Reasons] /\ GroundsInv(j.why) /\ j.why.kind = "publish"

IInv ==
  /\ TypeOK
  /\ run \in [Commands -> Cmds \cup {Idle}]
  /\ RunInv
  /\ job # None => JobInv(job)
  /\ contact # None => GroundsInv(contact)

(* A process without a command is at no point of one.                      *)
LEMMA IdleIsIdle == Idle.pc = "idle" /\ Idle \notin Cmds
  BY DEF Idle, Cmds, Pcs, Before

(* Who is at a point of a command has one, and knows what it has to there. *)
LEMMA AtPoint ==
  ASSUME IInv, NEW c \in Commands, run[c].pc \in Pcs
  PROVE  run[c] \in Cmds /\ CommandInv(run[c])
  BY IdleIsIdle DEF IInv, RunInv, Pcs, Before

(* The next state of one command: idle, or a command that knows what it    *)
(* has to.                                                                 *)
Moved(c) ==
  \E s \in Cmds \cup {Idle} :
    run' = [run EXCEPT ![c] = s] /\ (s = Idle \/ CommandInv(s))

(* Every refusal ends the command.                                         *)
LEMMA LeaveMoves ==
  ASSUME NEW c \in Commands, Leave(c)
  PROVE  Moved(c)
  BY DEF Leave, Moved

(* Going on leaves what a command carries.                                 *)
LEMMA MovePc ==
  ASSUME NEW r \in Cmds, NEW l \in Pcs
  PROVE  LET s == [r EXCEPT !.pc = l] IN
         /\ s \in Cmds /\ s.pc = l
         /\ s.kind = r.kind /\ s.mode = r.mode /\ s.dest = r.dest
         /\ s.granted = r.granted /\ s.registry = r.registry /\ s.evidence = r.evidence
         /\ s.passed = r.passed /\ s.ran = r.ran /\ s.at = r.at
  BY DEF Cmds

(* Going on to a point whose demands are met keeps CommandInv.             *)
LEMMA GotoMoves ==
  ASSUME NEW c \in Commands, run[c] \in Cmds, NEW l \in Pcs, Goto(c, l),
         CommandInv(run[c]),
         run[c].kind = "create" => l \in {"policy", "create"},
         run[c].kind = "publish" => l # "create",
         l \notin {"intent", "policy"} => run[c].granted,
         l \in Before => run[c].passed = {},
         l # "open",
         run[c].kind = "publish" /\ run[c].mode = "public" /\ l \in {"confirm", "push"} =>
           Cleared /\ run[c].registry = recorded /\ run[c].passed = Selected(recorded)
  PROVE  Moved(c)
<1> DEFINE s == [run[c] EXCEPT !.pc = l]
<1>1. run' = [run EXCEPT ![c] = s]
  BY DEF Goto
<1>2. /\ s \in Cmds /\ s.pc = l
      /\ s.kind = run[c].kind /\ s.mode = run[c].mode /\ s.dest = run[c].dest
      /\ s.granted = run[c].granted /\ s.registry = run[c].registry
      /\ s.evidence = run[c].evidence
      /\ s.passed = run[c].passed /\ s.ran = run[c].ran
  BY MovePc
<1> HIDE DEF s
<1>3. CommandInv(s)
  BY <1>2 DEF CommandInv
<1> QED
  BY <1>1, <1>2, <1>3 DEF Moved

(* A policy that passes the checks of publish and remote create grants     *)
(* exactly this visibility and this destination.                           *)
LEMMA PolicyIsGrant ==
  ASSUME NEW p \in Policies, NEW m \in {"private", "public"}, NEW d \in Dests,
         PolicyAllows(p, m, d)
  PROVE  p = RemotePolicy(m, d)
<1>1. p \in Remotes
  <2>1. NoPolicy.tracking = "" /\ Disabled.tracking = "no"
    BY DEF NoPolicy, Disabled
  <2>2. LocalPolicy.localOnly = TRUE
    BY DEF NoPolicy, LocalPolicy
  <2>3. p.tracking \in {"yes", "local"} /\ ~p.localOnly
    BY DEF PolicyAllows, TrackingEnabled
  <2>4. p # NoPolicy /\ p # Disabled /\ p # LocalPolicy
    BY <2>1, <2>2, <2>3
  <2> QED
    BY <2>4 DEF Policies
<1>2. PICK v \in {"private", "public"}, e \in Dests : p = RemotePolicy(v, e)
  BY <1>1 DEF Remotes
<1>3. p.visibility = v /\ p.dest = e
  BY <1>2 DEF RemotePolicy
<1>4. e # None
  BY GateAssumption
<1>5. v = m /\ e = d
  BY <1>3, <1>4 DEF PolicyAllows
<1> QED
  BY <1>2, <1>5

(* publish and remote create begin with nothing gathered.                  *)
LEMMA BeginMoves ==
  ASSUME NEW c \in Commands, NEW kind \in {"publish", "create"},
         NEW m \in {"private", "public"}, NEW d \in Dests, NEW ready \in BOOLEAN,
         run' = [run EXCEPT ![c] = Command(kind, m, d, ready)]
  PROVE  Moved(c)
<1> DEFINE s == Command(kind, m, d, ready)
<1>1. /\ s.pc = IF kind = "publish" THEN "intent" ELSE "policy"
      /\ s.kind = kind /\ s.mode = m /\ s.dest = d /\ s.evidence = {} /\ s.passed = {}
      /\ s.ran = {} /\ s.granted = Grants(policy, m, d)
  BY DEF Command
<1>2. Grants(policy, m, d) \in BOOLEAN /\ << >> \in Registries
  BY DEF Grants, Registries
<1>3. s \in Cmds
  BY <1>2 DEF Command, Cmds, Pcs, Before
<1> HIDE DEF s
<1>4. CommandInv(s)
  BY <1>1 DEF CommandInv
<1> QED
  BY <1>3, <1>4 DEF Moved, s

(* CheckPolicy goes on only with the grant.                                *)
LEMMA CheckPolicyMoves ==
  ASSUME IInv, NEW c \in Commands, CheckPolicy(c)
  PROVE  Moved(c)
<1> DEFINE r == run[c]
<1>0. r \in Cmds /\ CommandInv(r) /\ r.pc = "policy" /\ policy \in Policies
  BY AtPoint DEF CheckPolicy, Pcs, Before, IInv, TypeOK
<1>1. CASE ~PolicyAllows(policy, r.mode, r.dest)
  BY <1>1, LeaveMoves DEF CheckPolicy
<1>2. CASE PolicyAllows(policy, r.mode, r.dest)
  <2>1. r.mode \in {"private", "public"} /\ r.dest \in Dests /\ r.kind \in {"publish", "create"}
    BY <1>0 DEF Cmds
  <2>2. r.granted
    BY <1>0, <1>2, <2>1, PolicyIsGrant DEF CommandInv, Grants
  <2>3. PICK l \in {"create", "snapshot", "push"} :
          /\ Goto(c, l)
          /\ r.kind = "create" => l = "create"
          /\ r.kind = "publish" => l # "create"
          /\ r.kind = "publish" /\ r.mode = "public" => l = "snapshot"
    BY <1>2, <2>1 DEF CheckPolicy, Allowed
  <2>4. r.passed = {}
    BY <1>0 DEF CommandInv, Before
  <2> QED
    BY <1>0, <2>2, <2>3, <2>4, GotoMoves DEF Pcs, Before
<1> QED
  BY <1>1, <1>2

(* A scan leaves evidence only of what holds.                              *)
LEMMA GatherMoves ==
  ASSUME NEW c \in Commands, run[c] \in Cmds, CommandInv(run[c]),
         run[c].pc \in {"candidate", "history"},
         NEW kind \in {"candidate", "history"}, NEW holds,
         NEW l \in {"history", "registry"}, Gather(c, kind, holds, l),
         kind = "history" /\ holds => HistorySafe(past, Tip)
  PROVE  Moved(c)
<1> DEFINE r == run[c]
<1>1. PICK found \in {TRUE, FALSE} :
        /\ found => holds
        /\ run' = [run EXCEPT ![c].pc = l, ![c].evidence = IF found THEN @ \cup {kind} ELSE @]
  BY DEF Gather
<1> DEFINE e == IF found THEN r.evidence \cup {kind} ELSE r.evidence
<1>2. e \in SUBSET {"candidate", "history"}
  <2>1. r.evidence \in SUBSET {"candidate", "history"}
    BY DEF Cmds
  <2> QED
    BY <2>1
<1> DEFINE s == [r EXCEPT !.pc = l, !.evidence = e]
<1>3. /\ s \in Cmds /\ s.pc = l /\ s.evidence = e
      /\ s.kind = r.kind /\ s.mode = r.mode /\ s.dest = r.dest
      /\ s.registry = r.registry /\ s.granted = r.granted
      /\ s.passed = r.passed /\ s.ran = r.ran
  BY <1>2 DEF Cmds, Pcs, Before
<1>4. run' = [run EXCEPT ![c] = s]
  <2>1. CASE found
    BY <1>1, <1>2, <2>1
  <2>2. CASE ~found
    BY <1>1, <1>2, <2>2
  <2> QED
    BY <2>1, <2>2
<1> HIDE DEF s
<1>5. "history" \in e => HistorySafe(past, Tip)
  BY <1>1, <1>2 DEF CommandInv
<1>6. r.kind # "create" /\ r.passed = {} /\ r.granted
      /\ (Bound => r.ran = {<<v, r.registry[v].exe>> : v \in r.passed})
  BY DEF CommandInv, Before
<1>7. CommandInv(s)
  BY <1>3, <1>5, <1>6 DEF CommandInv
<1> QED
  BY <1>3, <1>4, <1>7 DEF Moved

(* LoadRegistry begins with nothing passed.                                *)
LEMMA LoadRegistryMoves ==
  ASSUME IInv, NEW c \in Commands, LoadRegistry(c)
  PROVE  Moved(c)
<1> DEFINE r == run[c]
           g == Registry(config)
<1>0. r \in Cmds /\ CommandInv(r) /\ r.pc = "registry"
  BY AtPoint DEF LoadRegistry, Pcs, Before
<1>1. /\ r.kind # "create" /\ r.passed = {} /\ r.granted
      /\ Bound => r.ran = {}
  BY <1>0 DEF CommandInv, Before
<1>2. CASE Goto(c, "evaluate")
  <2>1. "evaluate" \in Pcs \ Before
    BY DEF Pcs, Before
  <2> QED
    BY <1>0, <1>1, <1>2, <2>1, GotoMoves
<1>3. CASE run' = [run EXCEPT ![c].registry = g, ![c].todo = Selected(g), ![c].pc = "verify"]
  <2>1. g \in [ListedIn(config) -> [how : Listed, exe : Exes]]
    BY GateAssumption DEF IInv, TypeOK, Registry, ListedIn
  <2>2. ListedIn(config) \in SUBSET Verifiers
    BY DEF ListedIn
  <2>3. g \in Registries
    BY <2>1, <2>2, Zenon DEF Registries
  <2>4. Selected(g) \in SUBSET Verifiers
    BY <2>1, <2>2 DEF Selected
  <2> HIDE DEF g
  <2> DEFINE s == [r EXCEPT !.registry = g, !.todo = Selected(g), !.pc = "verify"]
  <2>5. run' = [run EXCEPT ![c] = s]
    BY <1>3
  <2>6. /\ s \in Cmds /\ s.pc = "verify" /\ s.evidence = r.evidence
        /\ s.kind = r.kind /\ s.mode = r.mode /\ s.dest = r.dest
        /\ s.granted = r.granted /\ s.passed = r.passed /\ s.ran = r.ran
    BY <1>0, <2>3, <2>4 DEF Cmds, Pcs, Before
  <2> HIDE DEF s
  <2>7. CommandInv(s)
    BY <1>0, <1>1, <2>6 DEF CommandInv, Before
  <2> QED
    BY <2>5, <2>6, <2>7 DEF Moved
<1> QED
  BY <1>2, <1>3 DEF LoadRegistry

(* Recheck gathers nothing.                                                *)
LEMMA RecheckMoves ==
  ASSUME IInv, NEW c \in Commands, NEW v \in Verifiers, Recheck(c, v)
  PROVE  Moved(c)
<1> DEFINE r == run[c]
<1>0. r \in Cmds /\ CommandInv(r) /\ r.pc = "verify"
  BY AtPoint DEF Recheck, Pcs
<1>1. r.kind # "create" /\ r.granted
  BY <1>0 DEF CommandInv
<1>2. CASE run' = [run EXCEPT ![c].at = v, ![c].pc = "open"]
  <2> DEFINE s == [r EXCEPT !.at = v, !.pc = "open"]
  <2>1. run' = [run EXCEPT ![c] = s]
    BY <1>2
  <2>2. /\ s \in Cmds /\ s.pc = "open" /\ s.at = v /\ s.evidence = r.evidence
        /\ s.kind = r.kind /\ s.mode = r.mode /\ s.dest = r.dest /\ s.registry = r.registry
        /\ s.granted = r.granted /\ s.passed = r.passed /\ s.ran = r.ran
    BY <1>0 DEF Cmds, Pcs
  <2> HIDE DEF s
  <2>3. CommandInv(s)
    BY <1>0, <1>1, <2>2 DEF CommandInv, Before
  <2> QED
    BY <2>1, <2>2, <2>3 DEF Moved
<1>3. CASE run' = [run EXCEPT ![c].todo = @ \ {v}]
  <2> DEFINE t == r.todo \ {v}
             s == [r EXCEPT !.todo = t]
  <2>1. run' = [run EXCEPT ![c] = s]
    BY <1>3
  <2>2. t \in SUBSET Verifiers
    BY <1>0 DEF Cmds
  <2> HIDE DEF t
  <2>3. /\ s \in Cmds /\ s.pc = r.pc /\ s.at = r.at /\ s.evidence = r.evidence
        /\ s.kind = r.kind /\ s.mode = r.mode /\ s.dest = r.dest /\ s.registry = r.registry
        /\ s.granted = r.granted /\ s.passed = r.passed /\ s.ran = r.ran
    BY <1>0, <2>2 DEF Cmds
  <2> HIDE DEF s
  <2>4. CommandInv(s)
    BY <1>0, <1>1, <2>3 DEF CommandInv
  <2> QED
    BY <2>1, <2>3, <2>4 DEF Moved
<1> QED
  BY <1>2, <1>3 DEF Recheck

(* A verifier that passed was run from the executable of the registry,     *)
(* where descriptors can be run (runTrustedOne).                           *)
LEMMA RunVerifierMoves ==
  ASSUME IInv, NEW c \in Commands, RunVerifier(c)
  PROVE  Moved(c)
<1> DEFINE r == run[c]
           v == r.at
           t == r.todo \ {v}
           left == [r EXCEPT !.pc = "verify", !.todo = t, !.at = None]
<1>0. r \in Cmds /\ CommandInv(r) /\ r.pc = "open"
  BY AtPoint DEF RunVerifier, Pcs
<1>1. v \in Verifiers /\ r.kind # "create" /\ r.granted
  BY <1>0 DEF CommandInv
<1>2. t \in SUBSET Verifiers
  BY <1>0 DEF Cmds
<1>3. /\ left \in Cmds /\ left.pc = "verify" /\ left.evidence = r.evidence
      /\ left.kind = r.kind /\ left.mode = r.mode /\ left.dest = r.dest
      /\ left.registry = r.registry /\ left.granted = r.granted
      /\ left.passed = r.passed /\ left.ran = r.ran
  <2> HIDE DEF t
  <2> QED
    BY <1>0, <1>2 DEF Cmds, Pcs
<1>4. \/ run' = [run EXCEPT ![c] = left]
      \/ /\ OpenedMatches(c)
         /\ run' = [run EXCEPT ![c] = [left EXCEPT !.passed = left.passed \cup {v},
                                                   !.ran = left.ran \cup {<<v, exe[v]>>}]]
  BY DEF RunVerifier
<1> HIDE DEF left
<1>5. CASE run' = [run EXCEPT ![c] = left]
  <2>1. CommandInv(left)
    BY <1>0, <1>1, <1>3 DEF CommandInv, Before
  <2> QED
    BY <1>3, <1>5, <2>1 DEF Moved
<1>6. CASE /\ OpenedMatches(c)
           /\ run' = [run EXCEPT ![c] = [left EXCEPT !.passed = left.passed \cup {v},
                                                     !.ran = left.ran \cup {<<v, exe[v]>>}]]
  <2> DEFINE p == left.passed \cup {v}
             n == left.ran \cup {<<v, exe[v]>>}
             s == [left EXCEPT !.passed = p, !.ran = n]
  <2>1. p \in SUBSET Verifiers
    BY <1>1, <1>3 DEF Cmds
  <2>2. n \in SUBSET (Verifiers \X Exes)
    BY <1>1, <1>3 DEF Cmds, IInv, TypeOK
  <2>3. Bound => n = {<<w, r.registry[w].exe>> : w \in p}
    <3>1. Bound => /\ exe[v] = r.registry[v].exe
                   /\ left.ran = {<<w, r.registry[w].exe>> : w \in left.passed}
      BY <1>0, <1>3, <1>6 DEF CommandInv, OpenedMatches
    <3>2. \A S : {<<w, r.registry[w].exe>> : w \in S \cup {v}}
                  = {<<w, r.registry[w].exe>> : w \in S} \cup {<<v, r.registry[v].exe>>}
      OBVIOUS
    <3> QED
      BY <3>1, <3>2
  <2>4. run' = [run EXCEPT ![c] = s]
    BY <1>6
  <2> HIDE DEF p, n
  <2>5. /\ s \in Cmds /\ s.pc = left.pc /\ s.evidence = left.evidence
        /\ s.kind = left.kind /\ s.mode = left.mode /\ s.dest = left.dest
        /\ s.registry = left.registry /\ s.granted = left.granted
        /\ s.passed = p /\ s.ran = n
    BY <1>3, <2>1, <2>2 DEF Cmds
  <2> HIDE DEF s
  <2>6. CommandInv(s)
    BY <1>0, <1>1, <1>3, <2>3, <2>5 DEF CommandInv, Before
  <2> QED
    BY <2>4, <2>5, <2>6 DEF Moved
<1> QED
  BY <1>4, <1>5, <1>6

(* Evaluate goes on only with all of its reasons.                          *)
LEMMA EvaluateMoves ==
  ASSUME IInv, NEW c \in Commands, Evaluate(c)
  PROVE  Moved(c)
<1>0. run[c] \in Cmds /\ CommandInv(run[c]) /\ run[c].pc = "evaluate"
  BY AtPoint DEF Evaluate, Pcs
<1>1. CASE ~PublicAuthorized(run[c])
  BY <1>1, LeaveMoves DEF Evaluate
<1>2. CASE PublicAuthorized(run[c])
  <2>1. Goto(c, "confirm") /\ "confirm" \in Pcs \ Before
    BY <1>2 DEF Evaluate, Pcs, Before
  <2>2. Cleared /\ run[c].registry = recorded /\ run[c].passed = Selected(recorded)
    BY <1>0, <1>2 DEF PublicAuthorized, VerificationHolds, Cleared, CommandInv
  <2>3. run[c].kind # "create" /\ run[c].granted
    BY <1>0 DEF CommandInv
  <2> QED
    BY <1>0, <2>1, <2>2, <2>3, GotoMoves
<1> QED
  BY <1>1, <1>2

(* The steps that only move on or leave.                                   *)
LEMMA PlainMoves ==
  ASSUME IInv, NEW c \in Commands,
         VerifyStoredCommit(c) \/ ReadSnapshot(c) \/ Verified(c) \/ ConfirmRepository(c)
  PROVE  Moved(c)
<1>1. CASE Leave(c)
  BY <1>1, LeaveMoves
<1>2. CASE VerifyStoredCommit(c) /\ Goto(c, "policy")
  <2>1. run[c] \in Cmds /\ CommandInv(run[c]) /\ run[c].pc = "intent" /\ "policy" \in Pcs
    BY <1>2, AtPoint DEF VerifyStoredCommit, Pcs, Before
  <2>2. run[c].kind # "create" /\ run[c].passed = {}
    BY <2>1 DEF CommandInv, Before
  <2> QED
    BY <1>2, <2>1, <2>2, GotoMoves
<1>3. CASE ReadSnapshot(c) /\ Goto(c, "candidate")
  <2>1. run[c] \in Cmds /\ CommandInv(run[c]) /\ run[c].pc = "snapshot" /\ "candidate" \in Pcs
    BY <1>3, AtPoint DEF ReadSnapshot, Pcs, Before
  <2>2. /\ run[c].kind # "create" /\ run[c].passed = {}
        /\ run[c].granted
    BY <2>1 DEF CommandInv, Before
  <2> QED
    BY <1>3, <2>1, <2>2, GotoMoves
<1>4. CASE Verified(c)
  <2>1. /\ run[c] \in Cmds /\ CommandInv(run[c]) /\ run[c].pc = "verify"
        /\ "evaluate" \in Pcs \ Before /\ Goto(c, "evaluate")
    BY <1>4, AtPoint DEF Verified, Pcs, Before
  <2>2. run[c].kind # "create" /\ run[c].granted
    BY <2>1 DEF CommandInv
  <2> QED
    BY <2>1, <2>2, GotoMoves
<1>5. CASE ConfirmRepository(c) /\ Goto(c, "push")
  <2>1. /\ run[c] \in Cmds /\ CommandInv(run[c]) /\ run[c].pc = "confirm"
        /\ "push" \in Pcs \ Before
    BY <1>5, AtPoint DEF ConfirmRepository, Pcs, Before
  <2>2. /\ run[c].kind # "create" /\ run[c].granted
        /\ run[c].kind = "publish" /\ run[c].mode = "public" =>
             Cleared /\ run[c].registry = recorded /\ run[c].passed = Selected(recorded)
    BY <2>1 DEF CommandInv
  <2> QED
    BY <1>5, <2>1, <2>2, GotoMoves
<1> QED
  BY <1>1, <1>2, <1>3, <1>4, <1>5 DEF VerifyStoredCommit, ReadSnapshot, ConfirmRepository

(* Every step of a command moves it so, or leaves it alone (Retry).        *)
LEMMA StepMoves ==
  ASSUME IInv, NEW c \in Commands, Step(c)
  PROVE  Moved(c) \/ UNCHANGED run
<1>1. ASSUME NEW m \in {"private", "public"}, NEW d \in Dests, NEW ready \in BOOLEAN,
             CreateRemote(c, m, d) \/ Publish(c, m, d, ready)
      PROVE  Moved(c)
  <2>1. CASE CreateRemote(c, m, d)
    BY <2>1, BeginMoves DEF CreateRemote
  <2>2. CASE Publish(c, m, d, ready)
    BY <2>2, BeginMoves DEF Publish
  <2> QED
    BY <1>1, <2>1, <2>2
<1>2. CASE ScanCandidate(c)
  <2>1. run[c] \in Cmds /\ CommandInv(run[c])
    BY <1>2, AtPoint DEF ScanCandidate, Pcs, Before
  <2> QED
    BY <1>2, <2>1, GatherMoves DEF ScanCandidate
<1>3. CASE ScanHistory(c)
  <2>1. run[c] \in Cmds /\ CommandInv(run[c])
    BY <1>3, AtPoint DEF ScanHistory, Pcs, Before
  <2> QED
    BY <1>3, <2>1, GatherMoves DEF ScanHistory
<1>4. CASE Push(c) \/ Create(c) \/ Stop(c)
  BY <1>4, LeaveMoves DEF Push, Create, Stop
<1>5. CASE Retry(c)
  BY <1>5 DEF Retry
<1> QED
  BY <1>1, <1>2, <1>3, <1>4, <1>5, CheckPolicyMoves, LoadRegistryMoves, RecheckMoves,
     RunVerifierMoves, EvaluateMoves, PlainMoves DEF Step

(* The history and the recorded verifier set stay what they are.           *)
LEMMA Fixed ==
  ASSUME [Next]_vars
  PROVE  past' = past /\ recorded' = recorded
<1>1. ASSUME NEW c \in Commands, Step(c) PROVE past' = past /\ recorded' = recorded
  BY <1>1 DEF Step, Publish, CreateRemote, VerifyStoredCommit, CheckPolicy, ReadSnapshot,
     ScanCandidate, ScanHistory, LoadRegistry, RunVerifier, Verified, Recheck, Evaluate,
     ConfirmRepository, Push, Retry, Create, Stop
<1> QED
  BY <1>1 DEF Next, SetPolicy, InstallConfig, ReplaceExecutable, Undo, vars

(* No command writes the policy.                                           *)
LEMMA StepKeeps ==
  ASSUME NEW c \in Commands, Step(c)
  PROVE  UNCHANGED <<past, policy, config, exe, changes, intact>>
  BY DEF Step, Publish, CreateRemote, VerifyStoredCommit, CheckPolicy, ReadSnapshot,
     ScanCandidate, ScanHistory, LoadRegistry, RunVerifier, Verified, Recheck, Evaluate,
     ConfirmRepository, Push, Retry, Create, Stop

(* Only commands contact the provider, and only they move on.              *)
LEMMA OthersKeep ==
  ASSUME [Next]_vars, \A c \in Commands : ~Step(c)
  PROVE  /\ UNCHANGED <<job, contact>>
         /\ UNCHANGED <<run, policy>> \/ \E p \in Policies : SetPolicy(p)
  BY DEF Next, SetPolicy, InstallConfig, ReplaceExecutable, Undo, vars

(* A grant a command sees coming into force is one it has from then on.    *)
LEMMA SetPolicyKeeps ==
  ASSUME IInv, NEW p \in Policies, SetPolicy(p), past' = past, recorded' = recorded
  PROVE  RunInv' /\ run' \in [Commands -> Cmds \cup {Idle}]
<1>1. ASSUME NEW c \in Commands
      PROVE  run'[c] = Idle \/ (run'[c] \in Cmds /\ CommandInv(run[c])')
  <2>1. CASE run[c] = Idle
    BY <2>1 DEF SetPolicy
  <2>2. CASE run[c] # Idle
    <3> DEFINE r == run[c]
               g == r.granted \/ Grants(p, r.mode, r.dest)
               s == [r EXCEPT !.granted = g]
    <3>1. r \in Cmds /\ CommandInv(r) /\ g \in BOOLEAN
      BY <2>2 DEF IInv, RunInv
    <3>2. run'[c] = s /\ policy' = p
      BY <2>2 DEF SetPolicy
    <3> HIDE DEF g
    <3>3. /\ s \in Cmds /\ s.pc = r.pc /\ s.granted = g
          /\ s.kind = r.kind /\ s.mode = r.mode /\ s.dest = r.dest
          /\ s.registry = r.registry /\ s.evidence = r.evidence
          /\ s.passed = r.passed /\ s.ran = r.ran /\ s.at = r.at
      BY <3>1 DEF Cmds
    <3>4. (r.granted => g) /\ (Grants(p, r.mode, r.dest) => g)
      BY DEF g
    <3> HIDE DEF s
    <3> QED
      BY <3>1, <3>2, <3>3, <3>4 DEF CommandInv, Cleared, Tree
  <2> QED
    BY <2>1, <2>2
<1>2. run' \in [Commands -> Cmds \cup {Idle}]
  BY <1>1 DEF SetPolicy
<1> QED
  BY <1>1, <1>2 DEF RunInv

(* The commands know what they have to after every step of anyone.         *)
LEMMA RunInductive ==
  ASSUME IInv, [Next]_vars
  PROVE  RunInv' /\ run' \in [Commands -> Cmds \cup {Idle}]
<1>0. past' = past /\ recorded' = recorded
  BY Fixed
<1>1. CASE \E p \in Policies : SetPolicy(p)
  BY <1>0, <1>1, SetPolicyKeeps
<1>2. CASE UNCHANGED <<run, policy>>
  BY <1>0, <1>2 DEF IInv, RunInv, CommandInv, Cleared, Tree
<1>3. ASSUME NEW c \in Commands, Moved(c), policy' = policy
      PROVE  RunInv' /\ run' \in [Commands -> Cmds \cup {Idle}]
  <2>1. PICK s \in Cmds \cup {Idle} :
          run' = [run EXCEPT ![c] = s] /\ (s = Idle \/ CommandInv(s))
    BY <1>3 DEF Moved
  <2>2. run' \in [Commands -> Cmds \cup {Idle}]
    BY <2>1 DEF IInv
  <2>3. ASSUME NEW d \in Commands
        PROVE  run'[d] = Idle \/ (run'[d] \in Cmds /\ CommandInv(run'[d]))
    BY <2>1 DEF IInv, RunInv
  <2>4. ASSUME NEW d \in Commands
        PROVE  run'[d] = Idle \/ (run'[d] \in Cmds /\ CommandInv(run[d])')
    BY <1>0, <1>3, <2>3 DEF CommandInv, Cleared, Tree
  <2> QED
    BY <2>2, <2>4 DEF RunInv
<1> QED
  BY <1>1, <1>2, <1>3, StepMoves, StepKeeps, OthersKeep

(* A command at its contact has its grounds.                               *)
LEMMA GroundsHold ==
  ASSUME NEW r \in Cmds, CommandInv(r), r.pc \in {"push", "create"}
  PROVE  /\ GroundsInv(Grounds(r)) /\ Grounds(r) \in Reasons
         /\ r.pc = "push" => Grounds(r).kind = "publish"
<1> DEFINE k == Grounds(r)
<1>1. /\ k.mode = r.mode /\ k.dest = r.dest /\ k.kind = r.kind /\ k.granted = r.granted
      /\ k.ran = r.ran
  BY DEF Grounds
<1>2. k \in Reasons
  BY DEF Grounds, Cmds, Reasons
<1> HIDE DEF k
<1>3. GroundsInv(k) /\ (r.pc = "push" => k.kind = "publish")
  <2>1. r.kind \in {"publish", "create"}
    BY DEF Cmds
  <2> QED
    BY <1>1, <1>2, <2>1 DEF GroundsInv, CommandInv
<1> QED
  BY <1>2, <1>3 DEF k

(* What is asked of the provider, and what its job keeps for a retry, has  *)
(* the grounds of the command that began it.                               *)
LEMMA ContactInductive ==
  ASSUME IInv, [Next]_vars
  PROVE  /\ job' # None => JobInv(job')
         /\ contact' # None => GroundsInv(contact')
<1>1. CASE UNCHANGED <<job, contact>>
  BY <1>1 DEF IInv
<1>2. ASSUME NEW c \in Commands, Push(c), ~UNCHANGED <<job, contact>>
      PROVE  /\ job' # None => JobInv(job')
             /\ contact' # None => GroundsInv(contact')
  <2>1. PICK o \in Outcomes :
          job' = [state |-> o, why |-> Grounds(run[c])] /\ contact' = Grounds(run[c])
    BY <1>2 DEF Push
  <2>2. /\ GroundsInv(Grounds(run[c])) /\ Grounds(run[c]) \in Reasons
        /\ Grounds(run[c]).kind = "publish"
    BY <1>2, AtPoint, GroundsHold DEF Push, Pcs
  <2>3. job'.why = Grounds(run[c]) /\ job' \in [state : Outcomes, why : Reasons]
    BY <2>1, <2>2
  <2> QED
    BY <2>1, <2>2, <2>3 DEF JobInv
<1>3. ASSUME NEW c \in Commands, Retry(c)
      PROVE  /\ job' # None => JobInv(job')
             /\ contact' # None => GroundsInv(contact')
  <2>1. JobInv(job)
    BY <1>3 DEF Retry, IInv
  <2>2. PICK o \in Outcomes : job' = [job EXCEPT !.state = o]
    BY <1>3 DEF Retry
  <2>3. job'.why = job.why /\ job' \in [state : Outcomes, why : Reasons]
    BY <2>1, <2>2 DEF JobInv
  <2> DEFINE w == job.why
             g == Grants(policy, w.mode, w.dest)
             k == [w EXCEPT !.kind = "retry", !.granted = g]
  <2>4. g \in BOOLEAN /\ w \in Reasons
    BY <2>1 DEF Grants, JobInv
  <2>5. contact' = k
    BY <1>3 DEF Retry
  <2> HIDE DEF g, w
  <2>6. k \in Reasons /\ k.kind = "retry" /\ k.mode = w.mode /\ k.ran = w.ran
    BY <2>4 DEF Reasons
  <2> HIDE DEF k
  <2>7. GroundsInv(k)
    <3>1. w.kind # "create" /\ GroundsInv(w)
      BY <2>1 DEF w, JobInv
    <3> QED
      BY <2>6, <3>1 DEF GroundsInv
  <2> QED
    BY <2>1, <2>3, <2>5, <2>7 DEF JobInv
<1>4. ASSUME NEW c \in Commands, Create(c)
      PROVE  job' = job /\ contact' = Grounds(run[c]) /\ GroundsInv(Grounds(run[c]))
  BY <1>4, AtPoint, GroundsHold DEF Create, Pcs
<1>5. ASSUME NEW c \in Commands, Step(c), ~Push(c), ~Retry(c), ~Create(c)
      PROVE  UNCHANGED <<job, contact>>
  BY <1>5 DEF Step, Publish, CreateRemote, VerifyStoredCommit, CheckPolicy, ReadSnapshot,
     ScanCandidate, ScanHistory, LoadRegistry, RunVerifier, Verified, Recheck, Evaluate,
     ConfirmRepository, Stop
<1>6. ASSUME NEW c \in Commands, Create(c)
      PROVE  /\ job' # None => JobInv(job')
             /\ contact' # None => GroundsInv(contact')
  BY <1>4, <1>6 DEF IInv
<1> QED
  BY <1>1, <1>2, <1>3, <1>5, <1>6, OthersKeep

(* The types are kept by every step.                                       *)
LEMMA TypeInductive ==
  ASSUME IInv, [Next]_vars
  PROVE  TypeOK'
<1> USE DEF IInv, TypeOK
<1>1. ASSUME NEW c \in Commands, Step(c)
      PROVE  UNCHANGED <<past, policy, config, exe, changes, intact>>
  BY <1>1, StepKeeps
<1>2. job' = None \/ job'.state \in Outcomes
  BY ContactInductive DEF JobInv
<1>3. ASSUME NEW p \in Policies, SetPolicy(p) PROVE TypeOK'
  BY <1>2, <1>3, GateAssumption DEF SetPolicy, Change
<1>4. ASSUME NEW k \in Configs, InstallConfig(k) PROVE TypeOK'
  BY <1>2, <1>4, GateAssumption DEF InstallConfig, Change
<1>5. ASSUME NEW v \in Verifiers, NEW x \in Exes, ReplaceExecutable(v, x) PROVE TypeOK'
  BY <1>2, <1>5, GateAssumption DEF ReplaceExecutable, Change
<1>6. CASE Undo
  <2>1. changes' \in 0..MaxChanges
    BY <1>6, GateAssumption DEF Undo, Change
  <2>2. intact' = FALSE /\ UNCHANGED <<past, policy, config, exe>>
    BY <1>6, Zenon DEF Undo
  <2>3. intact' \in BOOLEAN
    BY <2>2, Zenon
  <2> QED
    BY <1>2, <2>1, <2>2, <2>3, Zenon
<1>7. CASE UNCHANGED vars
  BY <1>7 DEF vars
<1> QED
  BY <1>1, <1>2, <1>3, <1>4, <1>5, <1>6, <1>7 DEF Next

-----------------------------------------------------------------------------
(* IInv holds in every reachable state: what each command knows at each    *)
(* point, and the grounds of the job and of the last contact.              *)
THEOREM Invariance == Spec => []IInv
<1>1. Init => IInv
  <2> SUFFICES ASSUME Init PROVE IInv
    OBVIOUS
  <2>1. policy \in Policies
    BY DEF Init, Policies
  <2>2. TypeOK
    BY <2>1, GateAssumption DEF Init, TypeOK
  <2> QED
    BY <2>2 DEF Init, IInv, RunInv
<1>2. IInv /\ [Next]_vars => IInv'
  <2> SUFFICES ASSUME IInv, [Next]_vars PROVE IInv'
    OBVIOUS
  <2>0. past' = past /\ recorded' = recorded
    BY Fixed
  <2>1. TypeOK' /\ RunInv' /\ run' \in [Commands -> Cmds \cup {Idle}]
    BY TypeInductive, RunInductive
  <2>2. /\ job' # None => JobInv(job')
        /\ contact' # None => GroundsInv(contact')
    BY ContactInductive
  <2>3. /\ job' # None => JobInv(job)'
        /\ contact' # None => GroundsInv(contact)'
    BY <2>0, <2>2 DEF JobInv, GroundsInv, Cleared, Tree
  <2> QED
    BY <2>1, <2>3 DEF IInv
<1> QED
  BY <1>1, <1>2, PTL DEF Spec

(* Withdrawn consent stops every new command: publish and remote create    *)
(* contact the provider only for what a policy in force since they began   *)
(* has granted (runPublishContext, runRemoteContext), for any number of    *)
(* commands, whatever job waits and however the policy changes meanwhile.  *)
(* A retry is left out, as the code leaves it out.                         *)
THEOREM NewCommandsAreConsented == Spec => []NewCommandsNeedConsent
<1>1. IInv => NewCommandsNeedConsent
  BY DEF IInv, GroundsInv, NewCommandsNeedConsent
<1> QED
  BY <1>1, Invariance, PTL

(* Where verifiers are run from the descriptor that was fingerprinted, a   *)
(* public push was verified by the executables on record (runTrustedOne,   *)
(* checkVerification), however configuration and executables changed.      *)
THEOREM RecordedSetVerified ==
  ASSUME Bound
  PROVE  Spec => []VerifiedByRecordedSet
<1>1. IInv => VerifiedByRecordedSet
  BY DEF IInv, GroundsInv, Cleared, VerifiedByRecordedSet, IsPublicPush
<1> QED
  BY <1>1, Invariance, PTL

(* Nothing a public push uncovers was left unread: every file of every     *)
(* commit the tip reaches, for every history, although rev-list, duplicate *)
(* entries and the skipping of objects stand between the scan and the      *)
(* trees, and although a retry does not scan again.                        *)
THEOREM PublicIsCleared == Spec => []PublicContactWasCleared
<1>1. IInv => PublicContactWasCleared
  <2> SUFFICES ASSUME IInv, IsPublicPush(contact) PROVE PublicContactWasCleared
    BY DEF PublicContactWasCleared
  <2>1. HistorySafe(past, Tip) /\ Documented(Tree)
    BY DEF IInv, GroundsInv, Cleared, IsPublicPush
  <2>2. past \in Histories(Trees, Tip)
    BY GateAssumption DEF IInv, TypeOK
  <2>3. \A c \in Published(past), p \in Paths : Innocent(p, past.tree[c][p])
    BY <2>1, <2>2, RevListIsComplete, HistorySafeIsInnocent
  <2>4. Tree[Readme] # Absent /\ Tree[License] # Absent
    BY <2>1 DEF Documented
  <2> QED
    BY <2>3, <2>4 DEF PublicContactWasCleared, Innocent
<1> QED
  BY <1>1, Invariance, PTL
============================================================================
