---------------------------- MODULE CommitLedger ----------------------------
(***************************************************************************)
(* What the local commit transaction promises to its readers (publish,     *)
(* undo, operation status), with processes, leases, HEAD, crashes and git  *)
(* failures left out: per operation id, one durable intent with a fixed    *)
(* candidate, one ref that only names commits of that candidate, and one   *)
(* recorded SHA that is set once, to a commit the ref has named.           *)
(***************************************************************************)
CONSTANTS Ids, Cand, Sha, CandOf, NoIntent, NoSha

VARIABLES intents, refs, named

vars == <<intents, refs, named>>

Init ==
  /\ intents = [i \in Ids |-> NoIntent]
  /\ refs = [i \in Ids |-> NoSha]
  /\ named = [i \in Ids |-> {}]

(* The intent becomes durable, once and for all.                           *)
Request(i, c) ==
  /\ intents[i] = NoIntent
  /\ intents' = [intents EXCEPT ![i] = [cand |-> c, sha |-> NoSha, state |-> "COMMIT_REQUESTED"]]
  /\ UNCHANGED <<refs, named>>

(* The ref comes to name a commit of the intent's candidate.               *)
CreateRef(i, s) ==
  /\ intents[i] # NoIntent
  /\ CandOf[s] = intents[i].cand
  /\ refs[i] = NoSha
  /\ refs' = [refs EXCEPT ![i] = s]
  /\ named' = [named EXCEPT ![i] = @ \cup {s}]
  /\ UNCHANGED intents

(* The result is recorded; a recorded SHA only repeats.                    *)
Confirm(i, s) ==
  /\ intents[i] # NoIntent
  /\ s \in named[i]
  /\ intents[i].sha \in {NoSha, s}
  /\ intents' = [intents EXCEPT ![i].sha = s, ![i].state = "CREATED"]
  /\ UNCHANGED <<refs, named>>

(* The outcome is unknown and shown as such.                               *)
Flag(i) ==
  /\ intents[i] # NoIntent
  /\ intents' = [intents EXCEPT ![i].state = "RECONCILE_REQUIRED"]
  /\ UNCHANGED <<refs, named>>

(* Cancelled before a result was recorded.                                 *)
Cancel(i) ==
  /\ intents[i] # NoIntent
  /\ intents[i].sha = NoSha
  /\ intents' = [intents EXCEPT ![i].state = "CANCELLED"]
  /\ UNCHANGED <<refs, named>>

(* The ref is deleted, only while it names the recorded commit ...         *)
DeleteRef(i) ==
  /\ intents[i] # NoIntent
  /\ refs[i] # NoSha
  /\ refs[i] = intents[i].sha
  /\ refs' = [refs EXCEPT ![i] = NoSha]
  /\ UNCHANGED <<intents, named>>

(* ... and the deletion is recorded.                                       *)
MarkUndone(i) ==
  /\ intents[i] # NoIntent
  /\ intents[i].sha # NoSha
  /\ intents' = [intents EXCEPT ![i].state = "UNDONE"]
  /\ UNCHANGED <<refs, named>>

Next ==
  \E i \in Ids :
    \/ \E c \in Cand : Request(i, c)
    \/ \E s \in Sha : CreateRef(i, s) \/ Confirm(i, s)
    \/ Flag(i) \/ Cancel(i) \/ DeleteRef(i) \/ MarkUndone(i)

Spec == Init /\ [][Next]_vars
=============================================================================
