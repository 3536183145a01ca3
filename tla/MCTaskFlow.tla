----------------------------- MODULE MCTaskFlow -----------------------------
(* TaskFlow for TLC: every claim is about the one task t1.  A second claim *)
(* is followed up only where t1 is the only task and has no prompt and no  *)
(* running tool; prompts, tools and another task go with one claim.        *)
EXTENDS TaskFlow, TLC

CONSTANT t1

AllOfT1 == [c \in Claims |-> t1]
Calls == Permutations(Proc) \cup Permutations(Claims)

Delivered == {c \in Claims : claimRow[c] # "none"}
Alone ==
  /\ \A t \in Tasks \ {t1} : ~Exists(t)
  /\ \A x \in Prompts : prompts[x] = NoPrompt
  /\ session.tools = 0
SecondClaimAlone == Cardinality(Delivered) <= 1 \/ Alone
=============================================================================
