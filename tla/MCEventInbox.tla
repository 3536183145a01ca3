---------------------------- MODULE MCEventInbox ----------------------------
(* EventInbox for TLC: each event as its producer sends it, the first one  *)
(* also with changed content, and one that reuses another event's key.  A  *)
(* monotonic sequence is declared by all events, by one of them or by none.*)
EXTENDS EventInbox

Own == {[id |-> i, key |-> i, body |-> "own"] : i \in Ids}
Impostors == {[id |-> 1, key |-> 1, body |-> "other"],
              [id |-> 2, key |-> 1, body |-> "own"]}
AllEnvelopes == Own \cup Impostors
MCSeqs == {-1, 1, 2, 3}
OneAllOrNone == {{}, Ids} \cup {{i} : i \in Ids}
=============================================================================
