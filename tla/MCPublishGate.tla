---------------------------- MODULE MCPublishGate ----------------------------
(* Three commits in each shape of history, at most one of them with a defect. *)
EXTENDS PublishGate, TLC

MCPaths == {"readme", "license", "src", "key"}
MCHot == {"key"}
MCBlobs == {"text", "code", "secret", "pointer", "stub", "huge"}
MCTainted == {"secret"}
MCPointers == {"pointer"}
MCStubs == {"stub"}
MCSize == [b \in MCBlobs |-> IF b = "huge" THEN 3 ELSE 1]

File(b) == [blob |-> b, mode |-> "file"]
Base == [p \in MCPaths |-> IF p \in {"readme", "license"} THEN File("text") ELSE Absent]
With(p, e) == [Base EXCEPT ![p] = e]
Good == With("src", File("code"))
MCTrees ==
    {Good, With("key", File("code")), With("src", File("secret")),
     With("src", File("pointer")), With("src", File("huge")),
     With("src", [blob |-> "code", mode |-> "link"]), With("src", [blob |-> "code", mode |-> "sub"]),
     With("readme", File("stub"))}

\* A merge of two roots, and a commit the tip does not reach.
MCShapes == {<<{}, {}, {1, 2}>>, <<{}, {}, {1}>>}
MCPasts ==
    {[tree |-> [c \in 1..3 |-> IF c = i THEN t ELSE Good], parents |-> s] :
        i \in 1..3, t \in MCTrees, s \in MCShapes}

\* The second verifier beside the first: applicable or not.
MCConfigs == {[v \in Verifiers |-> IF v = "v1" THEN "on" ELSE how] : how \in {"on", "off"}}

Symmetry == Permutations(Exes) \cup Permutations(Dests)
=============================================================================
