----------------------------- MODULE EventInbox -----------------------------
(***************************************************************************)
(* How the events of one repository are received: the identity gate and    *)
(* the transaction of events.Store.AcceptAndProject, the adapter           *)
(* App.project, and the ordering layer of lifecycle.Reducer.Reduce with    *)
(* its causal buffer.  What apply does to sessions, tasks and evidence is  *)
(* left out; only whether it rejects the event is kept.  Events arrive in  *)
(* any order and any number of times; a reported event may disagree with   *)
(* an earlier one about its content or reuse its idempotency key.  One     *)
(* SQLite transaction is one step, so a crash or a failing statement       *)
(* leaves everything unchanged and the event is delivered again.           *)
(***************************************************************************)
EXTENDS Integers, Sequences, FiniteSets, Functions

CONSTANTS N,             \* event ids are 1..N, in the order sort.Strings gives
          Envelopes,     \* what producers send: event id, idempotency key, content
          Seqs,          \* producer sequence numbers, and -1 for "none"
          Declarations,  \* the sets of events that may declare a monotonic sequence
          MaxRefused,    \* bound on the events apply rejects
          NoEnv

Ids == 1 .. N
NoCause == 0
NoSeq == -1

ASSUME InboxAssumption ==
  /\ N \in Nat \ {0} /\ MaxRefused \in Nat
  /\ Declarations \subseteq SUBSET Ids
  /\ Seqs \subseteq Int /\ \A n \in Seqs : n >= NoSeq
  /\ Envelopes \subseteq [id : Ids, key : Ids, body : {"own", "other"}]
  /\ NoEnv \notin Envelopes

VARIABLES
  \* the events of this run, fixed by Init:
  cause,      \* causation_id of each event
  seq,        \* producer_seq of each event; all are of one stream
  refused,    \* the events apply rejects; each is applied once at most
  monotonic,  \* the events whose capabilities declare a monotonic sequence
  \* the database:
  proj,       \* the lifecycle_projections row
  rows,       \* event_receipts
  tombstones, \* event_receipt_tombstones
  buffer      \* ids in pending_events

world == <<cause, seq, refused, monotonic>>
vars == <<world, proj, rows, tombstones, buffer>>

Dispositions == {"accepted", "pending", "rejected"}
NoProj == [receipts |-> [i \in Ids |-> NoEnv], idem |-> [k \in Ids |-> NoEnv],
           pending |-> [i \in Ids |-> NoEnv], quarantine |-> {}, last |-> 0, log |-> <<>>]

Projections ==
  [receipts : [Ids -> Envelopes \cup {NoEnv}], idem : [Ids -> Envelopes \cup {NoEnv}],
   pending : [Ids -> Envelopes \cup {NoEnv}], quarantine : SUBSET Ids,
   last : (Seqs \ {NoSeq}) \cup {0}, log : Seq(Ids)]

TypeOK ==
  /\ cause \in [Ids -> Ids \cup {NoCause}] /\ seq \in [Ids -> Seqs]
  /\ refused \subseteq Ids /\ monotonic \subseteq Ids
  /\ proj \in Projections
  /\ rows \cup tombstones \subseteq [env : Envelopes, disp : Dispositions]
  /\ buffer \subseteq Ids

Init ==
  /\ cause \in [Ids -> Ids \cup {NoCause}]
  /\ seq \in [Ids -> Seqs]
  /\ refused \in {S \in SUBSET Ids : Cardinality(S) <= MaxRefused}
  /\ monotonic \in Declarations
  /\ proj = NoProj /\ rows = {} /\ tombstones = {} /\ buffer = {}

-----------------------------------------------------------------------------
\* lifecycle.Reducer.Reduce

Received(p, i) == p.receipts[i] # NoEnv
IsPending(p, i) == p.pending[i] # NoEnv
CauseMissing(p, i) == cause[i] # NoCause /\ ~Received(p, cause[i])

\* The session keeps the capabilities of the first event apply sees, which is the
\* first of the log: nothing is late or in conflict before it, and adapters send no
\* event without capabilities.
SessionMonotonic(p) == p.log # <<>> /\ p.log[1] \in monotonic

Sequenced(p, i) == seq[i] # NoSeq /\ (i \in monotonic \/ SessionMonotonic(p))

\* Mutant: only a repeated sequence number is late.
LateRepeatOnly(p, i) == Sequenced(p, i) /\ p.last > 0 /\ seq[i] = p.last

Late(p, i) == Sequenced(p, i) /\ p.last > 0 /\ seq[i] <= p.last

Gap(p, i) ==
  Sequenced(p, i) /\ IF p.last = 0 THEN seq[i] > 1 ELSE seq[i] > p.last + 1

\* A buffered event is not held back while nothing of the stream was seen.
ReplayGap(p, i) == Sequenced(p, i) /\ p.last > 0 /\ seq[i] > p.last + 1

\* An event leaves a receipt whether apply took it or not.
Accept(p, e) ==
  [p EXCEPT !.receipts[e.id] = e, !.idem[e.key] = e,
            !.last = IF seq[e.id] > @ THEN seq[e.id] ELSE @,
            !.log = Append(@, e.id)]
Quarantine(p, e) ==
  [p EXCEPT !.receipts[e.id] = e, !.idem[e.key] = IF @ = NoEnv THEN e ELSE @,
            !.quarantine = @ \cup {e.id}, !.log = Append(@, e.id)]
Apply(p, e) == IF e.id \in refused THEN Quarantine(p, e) ELSE Accept(p, e)

\* Mutant: the buffer is searched by sequence number alone.
ReplayableBySeq(p, d) ==
  {i \in Ids : IsPending(p, i) /\ seq[i] # NoSeq /\ seq[i] <= p.last + 1}

\* The buffered events one pass looks at after the delivered event d.
Replayable(p, d) ==
  {i \in Ids : /\ IsPending(p, i)
               /\ cause[i] = d \/ (seq[i] # NoSeq /\ seq[i] <= p.last + 1)}

\* Mutant: a buffered event is replayed without looking at its cause again.
ReplayOneUnchecked(p, i) ==
  IF ReplayGap(p, i) THEN p ELSE Apply([p EXCEPT !.pending[i] = NoEnv], p.pending[i])

ReplayOne(p, i) ==
  IF CauseMissing(p, i) \/ ReplayGap(p, i)
    THEN p
    ELSE Apply([p EXCEPT !.pending[i] = NoEnv], p.pending[i])
ReplayPass(p, d) ==
  LET upTo[i \in 0 .. N] ==
        IF i = 0 THEN p
        ELSE IF i \in Replayable(p, d) THEN ReplayOne(upTo[i - 1], i) ELSE upTo[i - 1]
  IN upTo[N]

\* A pass without progress ends the loop; each other one removes an event, so
\* that N passes are enough.
Replay(p, d) ==
  LET after[k \in 0 .. N] == IF k = 0 THEN p ELSE ReplayPass(after[k - 1], d)
  IN after[N]

Result(p, d) == [state |-> p, disp |-> d]
Conflicting(p, e) ==
  \/ Received(p, e.id) /\ p.receipts[e.id] # e
  \/ ~Received(p, e.id) /\ p.idem[e.key] \notin {NoEnv, e}
  \/ ~Received(p, e.id) /\ p.idem[e.key] = NoEnv
     /\ IsPending(p, e.id) /\ p.pending[e.id] # e

\* The order of the early returns counts, so this is no CASE.
Reduce(p, e) ==
  IF Conflicting(p, e) THEN Result(Quarantine(p, e), "rejected")
  ELSE IF e \in {p.receipts[e.id], p.idem[e.key]} THEN Result(p, "duplicate")
  ELSE IF p.pending[e.id] = e THEN Result(p, "pending")
  ELSE IF CauseMissing(p, e.id) THEN Result([p EXCEPT !.pending[e.id] = e], "pending")
  ELSE IF Late(p, e.id) THEN Result(Quarantine(p, e), "rejected")
  ELSE IF Gap(p, e.id) THEN Result([p EXCEPT !.pending[e.id] = e], "pending")
  ELSE IF e.id \in refused THEN Result(Quarantine(p, e), "rejected")
  ELSE Result(Replay(Accept(p, e), e.id), "accepted")

-----------------------------------------------------------------------------
\* App.project and events.Store.AcceptAndProject

\* Buffered events the reducer has answered, with the answer each row gets.
Promoted(p, q) == {i \in Ids : IsPending(p, i) /\ Received(q, i)}

\* Mutant: the quarantine is not consulted.
PromotedToAccepted(q, i) == "accepted"

PromotedTo(q, i) == IF i \in q.quarantine THEN "rejected" ELSE "accepted"

\* The checks on affected rows: the row is pending and the buffer holds it.
Diverges(p, q) ==
  \E i \in Promoted(p, q) :
     i \notin buffer \/ [env |-> p.pending[i], disp |-> "pending"] \notin rows

\* Mutant: only the hot table is searched.
KnownHot(e) == \E r \in rows : r.env.id = e.id \/ r.env.key = e.key

\* The identity gate: either identifier on record, in the hot table or among
\* the tombstones, makes the event known.
Known(e) == \E r \in rows \cup tombstones : r.env.id = e.id \/ r.env.key = e.key

RowsAfter(p, q) ==
  {IF r.disp = "pending" /\ r.env.id \in Promoted(p, q)
     THEN [r EXCEPT !.disp = PromotedTo(q, r.env.id)] ELSE r : r \in rows}

BufferAfter(p, out, e) ==
  (buffer \ Promoted(p, out.state)) \cup (IF out.disp = "pending" THEN {e.id} ELSE {})

Deliver(e) ==
  LET out == Reduce(proj, e)
  IN /\ ~Known(e)
     /\ out.disp \in Dispositions /\ ~Diverges(proj, out.state)
     /\ proj' = out.state
     /\ rows' = RowsAfter(proj, out.state) \cup {[env |-> e, disp |-> out.disp]}
     /\ buffer' = BufferAfter(proj, out, e)
     /\ UNCHANGED <<world, tombstones>>

\* Mutant: a rejected event delivered again is forgotten, to be tried anew.
RedeliverReopens(e) ==
  /\ [env |-> e, disp |-> "rejected"] \in rows
  /\ rows' = rows \ {[env |-> e, disp |-> "rejected"]}
  /\ proj' = [proj EXCEPT !.receipts[e.id] = NoEnv, !.idem[e.key] = NoEnv,
                           !.quarantine = @ \ {e.id},
                           !.log = SelectSeq(@, LAMBDA i : i # e.id)]
  /\ UNCHANGED <<world, tombstones, buffer>>

\* A known event is answered duplicate, or conflict when anything differs.
Redeliver(e) == Known(e) /\ UNCHANGED vars

-----------------------------------------------------------------------------
\* db.Retain

\* receiptRetentionPredicate: what is pending in either table is kept.
Retainable == {r \in rows : r.disp # "pending" /\ r.env.id \notin buffer}

\* The receipts older than the cutoff move to the tombstones in one
\* transaction; ages are left out, so any of them may be old enough.
Retain ==
  \E old \in SUBSET Retainable \ {{}} :
    /\ tombstones' = tombstones \cup old
    /\ rows' = rows \ old
    /\ UNCHANGED <<world, proj, buffer>>

Next == Retain \/ \E e \in Envelopes : Deliver(e) \/ Redeliver(e)
Spec == Init /\ [][Next]_vars

-----------------------------------------------------------------------------
\* The tables and the projection are written by different packages from
\* different bookkeeping, and they agree: a row is pending exactly when its
\* event is in the reducer's buffer and in pending_events, rejected exactly
\* when it is quarantined, and the projection knows no event without a row.
StoreMatchesProjection ==
  /\ \A i \in Ids : Received(proj, i) \/ IsPending(proj, i) => Known([id |-> i, key |-> i])
  /\ \A r \in rows \cup tombstones : LET i == r.env.id IN
       /\ r.disp = "pending" <=> proj.pending[i] = r.env /\ ~Received(proj, i)
       /\ r.disp = "pending" <=> i \in buffer
       /\ r.disp = "rejected" <=> i \in proj.quarantine
       /\ r.disp # "pending" <=> proj.receipts[i] = r.env

\* No event can wedge the inbox: whatever is delivered next, the transaction
\* is not rolled back by a diverged buffer or an answer project cannot map.
NeverWedged ==
  \A e \in Envelopes : ~Known(e) =>
     LET out == Reduce(proj, e)
     IN out.disp \in Dispositions /\ ~Diverges(proj, out.state)

\* However events arrive and whatever is replayed in one transaction, each
\* event is applied at most once, and after the event that caused it.
OnceAndAfterItsCause ==
  /\ IsInjective(proj.log)
  /\ \A n \in DOMAIN proj.log :
       cause[proj.log[n]] \in {NoCause} \cup {proj.log[m] : m \in 1 .. n - 1}

\* Once the first event of a session has declared a monotonic stream, accepted
\* events that name no cause are applied in the order of their sequence numbers,
\* those of the buffer and those that declare nothing themselves too.
StreamOrder ==
  SessionMonotonic(proj) /\ (\A i \in Ids : cause[i] = NoCause) =>
    \A m, n \in DOMAIN proj.log :
      LET i == proj.log[m]
          j == proj.log[n]
      IN m < n /\ NoSeq \notin {seq[i], seq[j]} /\ {i, j} \cap proj.quarantine = {}
           => seq[i] <= seq[j]

\* An answer given for an event is final unless it was "pending", and the
\* record of an event is never dropped or handed to different content.
AnswerIsFinal ==
  [][\A r \in rows \cup tombstones : \E s \in (rows \cup tombstones)' :
        s.env = r.env /\ (s = r \/ r.disp = "pending")]_vars

\* Accepting an event answers the buffered events that name it as their
\* cause and are not sequenced, in the same transaction.
DependantsReplayed ==
  [][\A i, d \in Ids :
        /\ IsPending(proj, i) /\ cause[i] = d /\ ~Sequenced(proj', i)
        /\ ~Received(proj, d) /\ ~IsPending(proj, d)
        /\ Received(proj', d) /\ d \notin proj'.quarantine
        => Received(proj', i)]_vars

\* "It is replayed after the gap closes" (docs/event-contract.md:215): no
\* event stays buffered once its cause is received and, in a monotonic
\* stream, every smaller sequence number was received too.
BufferDrains ==
  \A i \in Ids : IsPending(proj, i) =>
     \/ CauseMissing(proj, i)
     \/ Sequenced(proj, i) /\ \E n \in 1 .. seq[i] - 1 :
                           ~ \E j \in Ids : seq[j] = n /\ Received(proj, j)
=============================================================================
