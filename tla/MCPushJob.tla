----------------------------- MODULE MCPushJob -----------------------------
(* PushJob with two commits, the second a descendant of the first, which   *)
(* are published to one destination; the first is also asked for elsewhere *)
(* and as a local-only push.                                               *)
EXTENDS PushJob

CONSTANTS i1, i2, d1, s1, s2

ShaOfId == [i \in Ids |-> IF i = i1 THEN s1 ELSE s2]
SecondDescends == {<<s1, s2>>}
FirstAnywhere ==
  {r \in Requests : /\ r.id = i1 \/ (r.dest = d1 /\ ~r.local)
                    /\ r.local => r.dest = d1}
=============================================================================
