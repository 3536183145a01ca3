----------------------------- MODULE MCOwnership -----------------------------
(* Ownership for TLC: two paths, a content and a link, every single path  *)
(* as a request of sync.                                                  *)
EXTENDS Ownership, TLC

SomeRequests == {{}} \cup {{p} : p \in Paths}
Interchangeable == Permutations(Hooks) \cup Permutations(Paths)
=============================================================================
