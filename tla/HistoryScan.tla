----------------------------- MODULE HistoryScan -----------------------------
(***************************************************************************)
(* What the publication gate reads of a commit: its tree                   *)
(* (gittransaction.SnapshotAtCommit), the offline secret scan of that tree *)
(* (internal/security) and of everything its history reaches               *)
(* (internal/historyscan).                                                 *)
(*                                                                         *)
(* A history is immutable, its objects being named by their content, so a  *)
(* scan is a function of the history and of failure; the commands that     *)
(* call it are the actions of PublishGate.  A blob stands for its bytes:   *)
(* what a scan tells apart is whether its patterns match (Tainted: a       *)
(* credential, a conflict marker, binary content), whether it is an LFS    *)
(* pointer, its size, and whether a README of these bytes is a stub.       *)
(***************************************************************************)
EXTENDS Naturals, FiniteSets, FiniteSetsExt

CONSTANTS
    Paths,          \* paths of a tree
    Hot,            \* the secret-bearing names among them
    Blobs,          \* file contents
    Tainted,        \* contents with a finding
    Pointers,       \* LFS pointers
    Stubs,          \* contents that do as a README for nobody
    Size,           \* size of each content
    Absent,         \* a path that a tree does not have
    MaxCommits, MaxEntries, MaxObjects, MaxBlobBytes, MaxTotalBytes

\* git's entry types: regular file, executable, symbolic link, submodule, other.
Modes == {"file", "exec", "link", "sub", "odd"}

ASSUME ScanAssumption ==
    /\ Hot \subseteq Paths
    /\ Tainted \subseteq Blobs /\ Pointers \subseteq Blobs /\ Stubs \subseteq Blobs
    /\ Size \in [Blobs -> Nat]
    /\ Absent \notin [blob : Blobs, mode : Modes]
    /\ {MaxCommits, MaxEntries, MaxObjects, MaxBlobBytes, MaxTotalBytes} \subseteq Nat

Trees == [Paths -> [blob : Blobs, mode : Modes] \cup {Absent}]

\* parseTree: the records of ls-tree.
EntriesOf(tree) ==
    {[path |-> p, blob |-> tree[p].blob, mode |-> tree[p].mode] :
        p \in {q \in Paths : tree[q] # Absent}}

Regular(e) == e.mode \in {"file", "exec"}

\* scanFile, after the binary test: the name alone is enough, else the patterns.
ScanFile(e) == e.path \in Hot \/ e.blob \in Tainted

-----------------------------------------------------------------------------
\* SnapshotAtCommit: the whole tree, or an error.
Snapshot(tree) ==
    /\ EntriesOf(tree) # {}
    /\ \A e \in EntriesOf(tree) : e.mode \notin {"sub", "odd"}
    /\ MapThenSumSet(LAMBDA e : Size[e.blob], EntriesOf(tree)) <= MaxTotalBytes

\* Scanner.Scan of the candidate: every reason blocks, so what counts is that no
\* file has one.
CandidateSafe(tree) ==
    \A e \in EntriesOf(tree) :
        /\ Regular(e)
        /\ Size[e.blob] <= MaxBlobBytes
        /\ ~ScanFile(e)

-----------------------------------------------------------------------------
(* A history: its commits are numbered from 1, parents before children.     *)

Histories(trees, n) ==
    {h \in [tree : [1..n -> trees], parents : [1..n -> SUBSET (1..n)]] :
        \A c \in 1..n : h.parents[c] \subseteq 1..(c - 1)}

\* git rev-list of the candidate.
RevList(h, tip) ==
    LET reach[c \in 1..tip] == {c} \cup UNION {reach[p] : p \in h.parents[c]}
    IN reach[tip]

\* The entries of every commit; the same blob may lie under several paths.
Items(h, tip) == UNION {EntriesOf(h.tree[c]) : c \in RevList(h, tip)}

\* Mutant: a blob seen before is not looked at under another path.
KeptByObject(items, blob) ==
    LET found == {e \in items : Regular(e) /\ e.blob = blob}
    IN IF found = {} THEN {} ELSE {CHOOSE e \in found : TRUE}

\* entries[oid]: every path and mode a regular blob was found under.
Kept(items, blob) == {e \in items : Regular(e) /\ e.blob = blob}

\* The counts that end a scan.
WithinLimits(h, tip) ==
    LET commits == RevList(h, tip) IN
    /\ Cardinality(commits) <= MaxCommits
    /\ MapThenSumSet(LAMBDA c : Cardinality(EntriesOf(h.tree[c])), commits) <= MaxEntries
    /\ Cardinality({e.blob : e \in {i \in Items(h, tip) : i.mode # "sub"}})
         + Cardinality({h.tree[c] : c \in commits}) + Cardinality(commits) <= MaxObjects

\* Sizes are asked for before anything is read.  A blob that is too large is a
\* finding and is not read; a total that is too large ends the scan.
Planned(items) == {b \in Blobs : Kept(items, b) # {} /\ Size[b] <= MaxBlobBytes}

Oversized(items) == {b \in Blobs : Kept(items, b) # {} /\ Size[b] > MaxBlobBytes}

\* Each blob is read once and scanned under each of its paths.
BlobSafe(items, blob) ==
    \A e \in Kept(items, blob) : blob \notin Pointers /\ ~ScanFile(e)

\* HistoryScanner.Scan: evidence without a finding and without a reason.
HistorySafe(h, tip) ==
    LET items == Items(h, tip) IN
    /\ WithinLimits(h, tip)
    /\ \A e \in items : Regular(e)
    /\ Oversized(items) = {}
    /\ MapThenSumSet(LAMBDA b : Size[b], Planned(items)) <= MaxTotalBytes
    /\ \A b \in Planned(items) : BlobSafe(items, b)
=============================================================================
