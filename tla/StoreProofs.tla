---------------------------- MODULE StoreProofs ----------------------------
(***************************************************************************)
(* Proofs about the two components that are rows of the database: Lease,   *)
(* for any set of processes, any TTL and any clock bound, and EventInbox,  *)
(* for any number of events, any causes and sequence numbers and any set   *)
(* of envelopes.                                                           *)
(*                                                                         *)
(* LeaseExclusion alone is not inductive: a release could delete another   *)
(* holder's row.  The invariant that is says that a holder whose lease has *)
(* not run out is the one the stored row names, with its deadline, and     *)
(* that a clock reading is never ahead of the clock.                       *)
(*                                                                         *)
(* The properties of the inbox rest on what the reducer keeps of its       *)
(* projection (ProjInv), on the order of a plain stream (OrderInv) and on  *)
(* the agreement of the tables with the projection (StoreInv).  A replay   *)
(* is two nested loops, written as recursive functions: that their         *)
(* equations have solutions, and that what one step keeps the loop keeps,  *)
(* is shown by the least number at which it could fail (StepByStep).       *)
(***************************************************************************)
EXTENDS Lease, EventInbox, FiniteSetTheorems, WellFoundedInduction, TLAPS


HolderOwnsRow ==
  \A p \in Proc :
    HoldsUnexpired(p) => row = [owner |-> OwnerOf[p], expiresAt |-> deadline[p]]

ReadingsArePast == \A p \in Proc : readAt[p] <= now

LeaseInv == LeaseTypeOK /\ ReadingsArePast /\ HolderOwnsRow

-----------------------------------------------------------------------------
(* LeaseTypeOK holds in every reachable state.                             *)
THEOREM LeaseTypeCorrect == LeaseSpec => []LeaseTypeOK
<1>1. LeaseInit => LeaseTypeOK
  BY LeaseAssumption DEF LeaseInit, LeaseTypeOK
<1>2. LeaseTypeOK /\ [LeaseNext]_leaseVars => LeaseTypeOK'
  <2> SUFFICES ASSUME LeaseTypeOK, [LeaseNext]_leaseVars PROVE LeaseTypeOK'
    OBVIOUS
  <2> USE LeaseAssumption DEF LeaseTypeOK, Rows
  <2>1. ASSUME NEW p \in Proc, ReadClock(p) PROVE LeaseTypeOK'
    BY <2>1 DEF ReadClock
  <2>2. ASSUME NEW p \in Proc, AcquireLease(p) PROVE LeaseTypeOK'
    BY <2>2 DEF AcquireLease
  <2>3. ASSUME NEW p \in Proc, LeaseHeld(p) PROVE LeaseTypeOK'
    BY <2>3 DEF LeaseHeld, Leave
  <2>4. ASSUME NEW p \in Proc, ReleaseLease(p) PROVE LeaseTypeOK'
    BY <2>4 DEF ReleaseLease, Leave, RowReleasedBy
  <2>5. ASSUME NEW p \in Proc, Abandon(p) PROVE LeaseTypeOK'
    BY <2>5 DEF Abandon, Leave
  <2>6. CASE Tick
    BY <2>6 DEF Tick
  <2>7. CASE UNCHANGED leaseVars
    BY <2>7 DEF leaseVars
  <2> QED
    BY <2>1, <2>2, <2>3, <2>4, <2>5, <2>6, <2>7 DEF LeaseNext
<1> QED
  BY <1>1, <1>2, PTL DEF LeaseSpec

-----------------------------------------------------------------------------
(* The strengthened invariant is kept by every step when no two processes  *)
(* pass the same owner string.                                             *)
LEMMA LeaseInvInductive ==
  ASSUME OwnersDistinct, LeaseTypeOK, LeaseTypeOK', LeaseInv, [LeaseNext]_leaseVars
  PROVE  LeaseInv'
<1> USE LeaseAssumption DEF LeaseInv, LeaseTypeOK, Rows, ReadingsArePast, HolderOwnsRow, HoldsUnexpired
<1>1. ASSUME NEW p \in Proc, ReadClock(p) PROVE LeaseInv'
  BY <1>1 DEF ReadClock
<1>2. ASSUME NEW p \in Proc, AcquireLease(p) PROVE LeaseInv'
  <2>1. ReadingsArePast'
    BY <1>2 DEF AcquireLease
  <2>2. ASSUME NEW q \in Proc, q # p PROVE ~HoldsUnexpired(q)'
    BY <1>2, <2>2 DEF AcquireLease, HeldAt
  <2>3. HolderOwnsRow'
    BY <1>2, <2>2 DEF AcquireLease
  <2> QED
    BY <2>1, <2>3
<1>3. ASSUME NEW p \in Proc, LeaseHeld(p) PROVE LeaseInv'
  BY <1>3 DEF LeaseHeld, Leave
<1>4. ASSUME NEW p \in Proc, ReleaseLease(p) PROVE LeaseInv'
  <2>1. ReadingsArePast'
    BY <1>4 DEF ReleaseLease, Leave
  <2>2. ASSUME NEW q \in Proc, HoldsUnexpired(q)'
        PROVE  row' = [owner |-> OwnerOf[q], expiresAt |-> deadline'[q]]
    <3>1. q # p /\ HoldsUnexpired(q) /\ deadline'[q] = deadline[q]
      BY <1>4, <2>2 DEF ReleaseLease, Leave
    <3>2. row = [owner |-> OwnerOf[q], expiresAt |-> deadline[q]]
      BY <3>1
    <3>3. row.owner # OwnerOf[p]
      BY <3>1, <3>2 DEF OwnersDistinct
    <3> QED
      BY <1>4, <3>1, <3>2, <3>3 DEF ReleaseLease, RowReleasedBy
  <2> QED
    BY <2>1, <2>2
<1>5. ASSUME NEW p \in Proc, Abandon(p) PROVE LeaseInv'
  BY <1>5 DEF Abandon, Leave
<1>6. CASE Tick
  BY <1>6 DEF Tick
<1>7. CASE UNCHANGED leaseVars
  BY <1>7 DEF leaseVars
<1> QED
  BY <1>1, <1>2, <1>3, <1>4, <1>5, <1>6, <1>7 DEF LeaseNext

(* With one owner string per process, unexpired holders exclude each other *)
(* (Store.AcquireLease and Store.ReleaseLeaseContext), whatever the TTL,   *)
(* the number of processes and the delay between clock and transaction.    *)
THEOREM ExclusionWithDistinctOwners ==
  ASSUME OwnersDistinct
  PROVE  LeaseSpec => []LeaseExclusion
<1>1. LeaseInit => LeaseInv
  BY LeaseAssumption DEF LeaseInit, LeaseInv, LeaseTypeOK, ReadingsArePast, HolderOwnsRow, HoldsUnexpired
<1>2. LeaseTypeOK /\ LeaseTypeOK' /\ LeaseInv /\ [LeaseNext]_leaseVars => LeaseInv'
  BY LeaseInvInductive
<1>3. LeaseInv => LeaseExclusion
  <2> SUFFICES ASSUME LeaseInv, NEW p \in Proc, NEW q \in Proc,
                      HoldsUnexpired(p), HoldsUnexpired(q)
               PROVE  p = q
    BY DEF LeaseExclusion
  <2>1. [owner |-> OwnerOf[p], expiresAt |-> deadline[p]]
          = [owner |-> OwnerOf[q], expiresAt |-> deadline[q]]
    BY DEF LeaseInv, HolderOwnsRow
  <2>2. OwnerOf[p] = OwnerOf[q]
    BY <2>1
  <2> QED
    BY <2>2 DEF OwnersDistinct
<1> QED
  BY <1>1, <1>2, <1>3, LeaseTypeCorrect, PTL DEF LeaseSpec

-----------------------------------------------------------------------------
(* A clock reading is judged later than it was taken, and by then the      *)
(* clock has only moved on; this needs no assumption on owners.            *)
LEMMA ReadingsInductive ==
  ASSUME LeaseTypeOK, ReadingsArePast, [LeaseNext]_leaseVars
  PROVE  ReadingsArePast'
<1> USE DEF LeaseTypeOK, ReadingsArePast
<1>1. ASSUME NEW p \in Proc, ReadClock(p) PROVE ReadingsArePast'
  BY <1>1 DEF ReadClock
<1>2. ASSUME NEW p \in Proc,
             AcquireLease(p) \/ LeaseHeld(p) \/ ReleaseLease(p) \/ Abandon(p)
      PROVE  ReadingsArePast'
  <2>1. readAt' = [readAt EXCEPT ![p] = 0] /\ now' = now
    BY <1>2 DEF AcquireLease, LeaseHeld, ReleaseLease, Abandon, Leave
  <2> QED
    BY <2>1
<1>3. CASE Tick
  BY <1>3 DEF Tick
<1>4. CASE UNCHANGED leaseVars
  BY <1>4 DEF leaseVars
<1> QED
  BY <1>1, <1>2, <1>3, <1>4 DEF LeaseNext

(* Store.AcquireLease never takes over a row that has not run out, and     *)
(* nobody but an owner inside the section removes one, whatever owner      *)
(* strings the processes pass and however old their clock readings are.    *)
THEOREM UnexpiredRowStays == LeaseSpec => RowTakenOnlyWhenExpired
<1>1. LeaseInit => ReadingsArePast
  <2>1. ASSUME LeaseInit, NEW p \in Proc PROVE readAt[p] = 0 /\ now = 0
    BY <2>1 DEF LeaseInit
  <2>2. ASSUME LeaseInit, NEW p \in Proc PROVE readAt[p] <= now
    BY <2>1, <2>2
  <2> QED
    BY <2>2 DEF ReadingsArePast
<1>2. LeaseTypeOK /\ ReadingsArePast /\ [LeaseNext]_leaseVars => ReadingsArePast'
  BY ReadingsInductive
<1>3. ASSUME LeaseTypeOK, ReadingsArePast, [LeaseNext]_leaseVars
      PROVE  [(row # NoRow /\ row' # row /\ row.expiresAt > now)
                => \E p \in Proc : /\ pc[p] = "held" /\ pc'[p] = "idle"
                                   /\ row.owner = OwnerOf[p]
                                   /\ row' = NoRow]_leaseVars
  <2> SUFFICES ASSUME row # NoRow, row' # row, row.expiresAt > now
               PROVE  \E p \in Proc : /\ pc[p] = "held" /\ pc'[p] = "idle"
                                      /\ row.owner = OwnerOf[p]
                                      /\ row' = NoRow
    OBVIOUS
  <2>1. ASSUME NEW p \in Proc, AcquireLease(p) PROVE FALSE
    <3>1. row.expiresAt \in Nat /\ readAt[p] \in Nat /\ now \in Nat /\ readAt[p] <= now
      BY <1>3 DEF LeaseTypeOK, Rows, ReadingsArePast
    <3>2. ~(row.expiresAt > readAt[p])
      BY <2>1 DEF AcquireLease, HeldAt
    <3> QED
      BY <3>1, <3>2
  <2>2. ASSUME NEW p \in Proc, ReleaseLease(p)
        PROVE  pc[p] = "held" /\ pc'[p] = "idle" /\ row.owner = OwnerOf[p] /\ row' = NoRow
    BY <1>3, <2>2 DEF ReleaseLease, RowReleasedBy, Leave, LeaseTypeOK
  <2>3. \E p \in Proc : AcquireLease(p) \/ ReleaseLease(p)
    BY <1>3 DEF LeaseNext, ReadClock, LeaseHeld, Abandon, Tick, leaseVars
  <2> QED
    BY <2>1, <2>2, <2>3
<1> QED
  BY <1>1, <1>2, <1>3, LeaseTypeCorrect, PTL DEF LeaseSpec, RowTakenOnlyWhenExpired

-----------------------------------------------------------------------------
(* What a number of steps from 0 keeps holds after all of them.            *)
LEMMA StepByStep ==
  ASSUME NEW m \in Nat, NEW S, 0 \in S, \A i \in 1 .. m : i - 1 \in S => i \in S
  PROVE  \A i \in 0 .. m : i \in S
<1> DEFINE T == {i \in 0 .. m : i \notin S}
<1> SUFFICES ASSUME T # {} PROVE FALSE
  OBVIOUS
<1>1. T \subseteq Nat
  OBVIOUS
<1>2. PICK x \in T : \A y \in T : ~ (<<y, x>> \in OpToRel(<, Nat))
  BY <1>1, WFMin, NatLessThanWellFounded
<1>3. x \in 0 .. m /\ x \notin S /\ x # 0
  BY <1>2
<1>4. x - 1 \in 0 .. m /\ x - 1 < x /\ x - 1 \in Nat /\ x \in Nat
  BY <1>3
<1>5. x - 1 \notin T
  BY <1>2, <1>4 DEF OpToRel
<1>6. x - 1 \in S /\ x \in 1 .. m
  BY <1>3, <1>4, <1>5
<1> QED
  BY <1>3, <1>6

(* The equations of the two loops of the replay: a pass over the ids, and  *)
(* the passes.                                                             *)
IsPass(f, p, R, n) ==
  f = [i \in 0 .. n |-> IF i = 0 THEN p
                        ELSE IF i \in R THEN ReplayOne(f[i - 1], i) ELSE f[i - 1]]
IsReplay(f, p, d, n) ==
  f = [k \in 0 .. n |-> IF k = 0 THEN p ELSE ReplayPass(f[k - 1], d)]

(* The equation of a pass has a solution, built up id by id.               *)
LEMMA PassExists ==
  ASSUME NEW p, NEW R, NEW m \in Nat
  PROVE  \E f : IsPass(f, p, R, m)
<1> DEFINE S == {n \in 0 .. m : \E f : IsPass(f, p, R, n)}
<1>1. 0 \in S
  <2> DEFINE f == [i \in 0 .. 0 |-> p]
  <2>1. IsPass(f, p, R, 0)
    BY DEF IsPass
  <2> QED
    BY <2>1
<1>2. ASSUME NEW n \in 1 .. m, n - 1 \in S PROVE n \in S
  <2>1. PICK f : IsPass(f, p, R, n - 1)
    BY <1>2
  <2> DEFINE v == IF n \in R THEN ReplayOne(f[n - 1], n) ELSE f[n - 1]
             g == [i \in 0 .. n |-> IF i = n THEN v ELSE f[i]]
             w(i) == IF i = 0 THEN p ELSE IF i \in R THEN ReplayOne(g[i - 1], i) ELSE g[i - 1]
  <2>2. ASSUME NEW i \in 0 .. n PROVE g[i] = w(i)
    <3>1. CASE i = n
      BY <3>1
    <3>2. CASE i # n
      <4>1. i \in 0 .. n - 1 /\ g[i] = f[i]
        BY <3>2
      <4>2. i # 0 => g[i - 1] = f[i - 1]
        BY <4>1
      <4> QED
        BY <2>1, <4>1, <4>2 DEF IsPass
    <3> QED
      BY <3>1, <3>2
  <2>3. g = [i \in 0 .. n |-> w(i)]
    <3> HIDE DEF v, w
    <3> QED
      BY <2>2
  <2>4. IsPass(g, p, R, n)
    BY <2>3 DEF IsPass
  <2> QED
    BY <2>4
<1>3. \A i \in 0 .. m : i \in S
  <2> HIDE DEF S
  <2> QED
    BY <1>1, <1>2, StepByStep
<1> QED
  BY <1>3

(* Likewise the equation of the passes.                                    *)
LEMMA ReplayExists ==
  ASSUME NEW p, NEW d, NEW m \in Nat
  PROVE  \E f : IsReplay(f, p, d, m)
<1> DEFINE S == {n \in 0 .. m : \E f : IsReplay(f, p, d, n)}
<1>1. 0 \in S
  <2> DEFINE f == [i \in 0 .. 0 |-> p]
  <2>1. IsReplay(f, p, d, 0)
    BY DEF IsReplay
  <2> QED
    BY <2>1
<1>2. ASSUME NEW n \in 1 .. m, n - 1 \in S PROVE n \in S
  <2>1. PICK f : IsReplay(f, p, d, n - 1)
    BY <1>2
  <2> DEFINE g == [i \in 0 .. n |-> IF i = n THEN ReplayPass(f[n - 1], d) ELSE f[i]]
             w(i) == IF i = 0 THEN p ELSE ReplayPass(g[i - 1], d)
  <2>2. ASSUME NEW i \in 0 .. n PROVE g[i] = w(i)
    <3>1. CASE i = n
      BY <3>1
    <3>2. CASE i # n
      <4>1. i \in 0 .. n - 1 /\ g[i] = f[i]
        BY <3>2
      <4>2. i # 0 => g[i - 1] = f[i - 1]
        BY <4>1
      <4> QED
        BY <2>1, <4>1, <4>2 DEF IsReplay
    <3> QED
      BY <3>1, <3>2
  <2>3. g = [i \in 0 .. n |-> w(i)]
    <3> HIDE DEF w
    <3> QED
      BY <2>2
  <2>4. IsReplay(g, p, d, n)
    BY <2>3 DEF IsReplay
  <2> QED
    BY <2>4
<1>3. \A i \in 0 .. m : i \in S
  <2> HIDE DEF S
  <2> QED
    BY <1>1, <1>2, StepByStep
<1> QED
  BY <1>3

(* So a pass is what its ids do one after the other ...                    *)
LEMMA PassIsStepwise ==
  ASSUME NEW p, NEW d
  PROVE  \E f : /\ f[0] = p /\ ReplayPass(p, d) = f[N]
                /\ \A i \in Ids : f[i] = IF i \in Replayable(p, d) THEN ReplayOne(f[i - 1], i)
                                         ELSE f[i - 1]
<1> DEFINE R == Replayable(p, d)
           g == CHOOSE f : f = [i \in 0 .. N |-> IF i = 0 THEN p
                  ELSE IF i \in R THEN ReplayOne(f[i - 1], i) ELSE f[i - 1]]
<1>0. N \in Nat \ {0}
  BY InboxAssumption
<1>1. IsPass(g, p, R, N)
  <2>1. \E f : IsPass(f, p, R, N)
    BY <1>0, PassExists
  <2> QED
    BY <2>1 DEF IsPass
<1>2. ReplayPass(p, d) = g[N]
  BY DEF ReplayPass
<1> HIDE DEF g, R
<1>3. ASSUME NEW i \in 0 .. N
      PROVE  g[i] = IF i = 0 THEN p ELSE IF i \in R THEN ReplayOne(g[i - 1], i) ELSE g[i - 1]
  BY <1>1 DEF IsPass
<1>4. g[0] = p
  BY <1>0, <1>3
<1>5. ASSUME NEW i \in Ids PROVE g[i] = IF i \in R THEN ReplayOne(g[i - 1], i) ELSE g[i - 1]
  BY <1>0, <1>3 DEF Ids
<1> QED
  BY <1>2, <1>4, <1>5 DEF R

(* ... and a replay what its passes do.                                    *)
LEMMA ReplayIsStepwise ==
  ASSUME NEW p, NEW d
  PROVE  \E f : /\ f[0] = p /\ Replay(p, d) = f[N]
                /\ \A k \in 1 .. N : f[k] = ReplayPass(f[k - 1], d)
<1> DEFINE g == CHOOSE f : f = [k \in 0 .. N |-> IF k = 0 THEN p ELSE ReplayPass(f[k - 1], d)]
<1>0. N \in Nat \ {0}
  BY InboxAssumption
<1>1. IsReplay(g, p, d, N)
  <2>1. \E f : IsReplay(f, p, d, N)
    BY <1>0, ReplayExists
  <2> QED
    BY <2>1 DEF IsReplay
<1>2. Replay(p, d) = g[N]
  BY DEF Replay
<1> HIDE DEF g
<1>3. ASSUME NEW k \in 0 .. N PROVE g[k] = IF k = 0 THEN p ELSE ReplayPass(g[k - 1], d)
  BY <1>1 DEF IsReplay
<1>4. g[0] = p
  BY <1>0, <1>3
<1>5. ASSUME NEW k \in 1 .. N PROVE g[k] = ReplayPass(g[k - 1], d)
  BY <1>0, <1>3
<1> QED
  BY <1>2, <1>4, <1>5

-----------------------------------------------------------------------------
(* What the reducer knows of a projection: receipts and buffer are filed   *)
(* under the ids of their envelopes, no event is both answered and         *)
(* buffered, a key is taken by an answered event, the log holds exactly    *)
(* the answered events, each once and after its cause.                     *)
FiledInv(p) ==
  /\ \A i \in Ids : Received(p, i) => p.receipts[i].id = i
  /\ \A i \in Ids : IsPending(p, i) => p.pending[i].id = i /\ ~Received(p, i)
  /\ \A i \in p.quarantine : Received(p, i)

KeyInv(p) ==
  \A k \in Ids : p.idem[k] # NoEnv =>
     /\ p.idem[k] \in Envelopes /\ p.idem[k].key = k
     /\ p.receipts[p.idem[k].id] = p.idem[k]

LogInv(p) ==
  /\ \A i \in Ids : Received(p, i) <=> \E n \in 1 .. Len(p.log) : p.log[n] = i
  /\ \A m, n \in 1 .. Len(p.log) : p.log[m] = p.log[n] => m = n
  /\ \A n \in 1 .. Len(p.log) :
       \/ cause[p.log[n]] = NoCause
       \/ \E m \in 1 .. n - 1 : p.log[m] = cause[p.log[n]]

ProjInv(p) == p \in Projections /\ FiledInv(p) /\ KeyInv(p) /\ LogInv(p)

WorldOK ==
  /\ cause \in [Ids -> Ids \cup {NoCause}] /\ seq \in [Ids -> Seqs]
  /\ refused \subseteq Ids /\ monotonic \subseteq Ids

(* What an answer to e does to a projection, whatever the answer.          *)
Answers(p, e, q) ==
  /\ q \in Projections
  /\ q.receipts = [p.receipts EXCEPT ![e.id] = e]
  /\ q.pending = p.pending
  /\ \A k \in Ids : q.idem[k] = p.idem[k] \/ (k = e.key /\ q.idem[k] = e)
  /\ q.log = Append(p.log, e.id)

(* An envelope names ids and is not the null value.                        *)
LEMMA EnvelopeShape ==
  ASSUME NEW e \in Envelopes
  PROVE  e.id \in Ids /\ e.key \in Ids /\ e # NoEnv
  BY InboxAssumption

(* Sequence numbers are integers from -1 on, those of a stream from 0 on.  *)
LEMMA SeqShape ==
  /\ \A n \in Seqs : n \in Int /\ n >= NoSeq
  /\ \A n \in (Seqs \ {NoSeq}) \cup {0} : n \in Nat
<1>1. \A n \in Seqs : n \in Int /\ n >= NoSeq
  BY InboxAssumption
<1> QED
  BY <1>1 DEF NoSeq

(* A projection of which one field changes, for the five that may.         *)
LEMMA ReceiptsUpdate ==
  ASSUME NEW p \in Projections, NEW x \in [Ids -> Envelopes \cup {NoEnv}]
  PROVE  LET q == [p EXCEPT !.receipts = x] IN
         /\ q \in Projections /\ q.receipts = x /\ q.idem = p.idem /\ q.pending = p.pending
         /\ q.quarantine = p.quarantine /\ q.last = p.last /\ q.log = p.log
  BY DEF Projections

(* The same of idem.                                                        *)
LEMMA IdemUpdate ==
  ASSUME NEW p \in Projections, NEW x \in [Ids -> Envelopes \cup {NoEnv}]
  PROVE  LET q == [p EXCEPT !.idem = x] IN
         /\ q \in Projections /\ q.receipts = p.receipts /\ q.idem = x /\ q.pending = p.pending
         /\ q.quarantine = p.quarantine /\ q.last = p.last /\ q.log = p.log
  BY DEF Projections

(* The same of quarantine.                                                  *)
LEMMA QuarantineUpdate ==
  ASSUME NEW p \in Projections, NEW x \in SUBSET Ids
  PROVE  LET q == [p EXCEPT !.quarantine = x] IN
         /\ q \in Projections /\ q.receipts = p.receipts /\ q.idem = p.idem /\ q.pending = p.pending
         /\ q.quarantine = x /\ q.last = p.last /\ q.log = p.log
  BY DEF Projections

(* The same of last.                                                        *)
LEMMA LastUpdate ==
  ASSUME NEW p \in Projections, NEW x \in (Seqs \ {NoSeq}) \cup {0}
  PROVE  LET q == [p EXCEPT !.last = x] IN
         /\ q \in Projections /\ q.receipts = p.receipts /\ q.idem = p.idem /\ q.pending = p.pending
         /\ q.quarantine = p.quarantine /\ q.last = x /\ q.log = p.log
  BY DEF Projections

(* The same of log.                                                         *)
LEMMA LogUpdate ==
  ASSUME NEW p \in Projections, NEW x \in Seq(Ids)
  PROVE  LET q == [p EXCEPT !.log = x] IN
         /\ q \in Projections /\ q.receipts = p.receipts /\ q.idem = p.idem /\ q.pending = p.pending
         /\ q.quarantine = p.quarantine /\ q.last = p.last /\ q.log = x
  BY DEF Projections

(* Accept and Quarantine, field by field.                                  *)
LEMMA AcceptShape ==
  ASSUME WorldOK, NEW p \in Projections, NEW e \in Envelopes
  PROVE  /\ Answers(p, e, Accept(p, e))
         /\ Accept(p, e).quarantine = p.quarantine
         /\ Accept(p, e).last = IF seq[e.id] > p.last THEN seq[e.id] ELSE p.last
<1> DEFINE l == IF seq[e.id] > p.last THEN seq[e.id] ELSE p.last
           r == [p.receipts EXCEPT ![e.id] = e]
           k == [p.idem EXCEPT ![e.key] = e]
           g == Append(p.log, e.id)
           p1 == [p EXCEPT !.receipts = r]
           p2 == [p1 EXCEPT !.idem = k]
           p3 == [p2 EXCEPT !.last = l]
           q == [p3 EXCEPT !.log = g]
<1>0. e.id \in Ids /\ e.key \in Ids
  BY EnvelopeShape
<1>1. /\ p.receipts \in [Ids -> Envelopes \cup {NoEnv}] /\ p.idem \in [Ids -> Envelopes \cup {NoEnv}]
      /\ p.last \in (Seqs \ {NoSeq}) \cup {0} /\ p.log \in Seq(Ids)
  BY DEF Projections
<1>2. /\ r \in [Ids -> Envelopes \cup {NoEnv}] /\ k \in [Ids -> Envelopes \cup {NoEnv}]
      /\ g \in Seq(Ids)
  BY <1>0, <1>1
<1>3. l \in (Seqs \ {NoSeq}) \cup {0}
  <2>1. seq[e.id] \in Seqs /\ seq[e.id] \in Int /\ p.last \in Nat
    BY <1>0, <1>1, SeqShape DEF WorldOK
  <2> QED
    BY <1>1, <2>1 DEF NoSeq
<1>4. Accept(p, e) = q
  <2>1. p1.idem = p.idem /\ p2.last = p.last /\ p3.log = p.log
    BY DEF Projections
  <2> QED
    BY <2>1 DEF Accept
<1>5. \A j \in Ids : k[j] = p.idem[j] \/ (j = e.key /\ k[j] = e)
  BY <1>0, <1>1
<1> HIDE DEF l, r, k, g
<1>6. /\ p1 \in Projections /\ p1.receipts = r /\ p1.idem = p.idem /\ p1.pending = p.pending
      /\ p1.quarantine = p.quarantine
  BY <1>2, ReceiptsUpdate
<1> HIDE DEF p1
<1>7. /\ p2 \in Projections /\ p2.receipts = r /\ p2.idem = k /\ p2.pending = p.pending
      /\ p2.quarantine = p.quarantine
  BY <1>2, <1>6, IdemUpdate
<1> HIDE DEF p2
<1>8. /\ p3 \in Projections /\ p3.receipts = r /\ p3.idem = k /\ p3.pending = p.pending
      /\ p3.quarantine = p.quarantine /\ p3.last = l
  BY <1>3, <1>7, LastUpdate
<1> HIDE DEF p3
<1>9. /\ q \in Projections /\ q.receipts = r /\ q.idem = k /\ q.pending = p.pending
      /\ q.quarantine = p.quarantine /\ q.last = l /\ q.log = g
  BY <1>2, <1>8, LogUpdate
<1> HIDE DEF q
<1> QED
  BY <1>4, <1>5, <1>9 DEF Answers, r, g, l

(* The same for a quarantined event; the stream does not move.             *)
LEMMA QuarantineShape ==
  ASSUME NEW p \in Projections, NEW e \in Envelopes
  PROVE  /\ Answers(p, e, Quarantine(p, e))
         /\ Quarantine(p, e).quarantine = p.quarantine \cup {e.id}
         /\ Quarantine(p, e).last = p.last
<1> DEFINE r == [p.receipts EXCEPT ![e.id] = e]
           k == [p.idem EXCEPT ![e.key] = IF p.idem[e.key] = NoEnv THEN e ELSE p.idem[e.key]]
           b == p.quarantine \cup {e.id}
           g == Append(p.log, e.id)
           p1 == [p EXCEPT !.receipts = r]
           p2 == [p1 EXCEPT !.idem = k]
           p3 == [p2 EXCEPT !.quarantine = b]
           q == [p3 EXCEPT !.log = g]
<1>0. e.id \in Ids /\ e.key \in Ids
  BY EnvelopeShape
<1>1. /\ p.receipts \in [Ids -> Envelopes \cup {NoEnv}] /\ p.idem \in [Ids -> Envelopes \cup {NoEnv}]
      /\ p.quarantine \in SUBSET Ids /\ p.log \in Seq(Ids)
  BY DEF Projections
<1>2. /\ r \in [Ids -> Envelopes \cup {NoEnv}] /\ k \in [Ids -> Envelopes \cup {NoEnv}]
      /\ g \in Seq(Ids) /\ b \in SUBSET Ids
  BY <1>0, <1>1
<1>4. Quarantine(p, e) = q
  <2>1. p1.idem = p.idem /\ p2.quarantine = p.quarantine /\ p3.log = p.log
    BY DEF Projections
  <2> QED
    BY <2>1 DEF Quarantine
<1>5. \A j \in Ids : k[j] = p.idem[j] \/ (j = e.key /\ k[j] = e)
  BY <1>0, <1>1
<1> HIDE DEF b, r, k, g
<1>6. /\ p1 \in Projections /\ p1.receipts = r /\ p1.pending = p.pending /\ p1.last = p.last
  BY <1>2, ReceiptsUpdate
<1> HIDE DEF p1
<1>7. /\ p2 \in Projections /\ p2.receipts = r /\ p2.idem = k /\ p2.pending = p.pending
      /\ p2.last = p.last
  BY <1>2, <1>6, IdemUpdate
<1> HIDE DEF p2
<1>8. /\ p3 \in Projections /\ p3.receipts = r /\ p3.idem = k /\ p3.pending = p.pending
      /\ p3.last = p.last /\ p3.quarantine = b
  BY <1>2, <1>7, QuarantineUpdate
<1> HIDE DEF p3
<1>9. /\ q \in Projections /\ q.receipts = r /\ q.idem = k /\ q.pending = p.pending
      /\ q.quarantine = b /\ q.last = p.last /\ q.log = g
  BY <1>2, <1>8, LogUpdate
<1> HIDE DEF q
<1> QED
  BY <1>4, <1>5, <1>9 DEF Answers, r, g, b

(* An event leaves the buffer before it is applied.                        *)
LEMMA ForgetShape ==
  ASSUME NEW p \in Projections, NEW i \in Ids
  PROVE  LET q == [p EXCEPT !.pending[i] = NoEnv] IN
         /\ q \in Projections /\ q.pending = [p.pending EXCEPT ![i] = NoEnv]
         /\ q.receipts = p.receipts /\ q.idem = p.idem /\ q.quarantine = p.quarantine
         /\ q.last = p.last /\ q.log = p.log
  BY DEF Projections

(* An event enters the buffer.                                             *)
LEMMA BufferShape ==
  ASSUME NEW p \in Projections, NEW e \in Envelopes
  PROVE  LET q == [p EXCEPT !.pending[e.id] = e] IN
         /\ q \in Projections /\ q.pending = [p.pending EXCEPT ![e.id] = e]
         /\ q.receipts = p.receipts /\ q.idem = p.idem /\ q.quarantine = p.quarantine
         /\ q.last = p.last /\ q.log = p.log
<1>1. e.id \in Ids
  BY EnvelopeShape
<1> QED
  BY <1>1 DEF Projections

(* The log with one event more.                                            *)
LEMMA LogShape ==
  ASSUME NEW p \in Projections, NEW q \in Projections, NEW i \in Ids, q.log = Append(p.log, i)
  PROVE  /\ Len(p.log) \in Nat /\ Len(q.log) = Len(p.log) + 1
         /\ q.log[Len(q.log)] = i
         /\ \A n \in 1 .. Len(p.log) : p.log[n] \in Ids /\ q.log[n] = p.log[n]
  BY DEF Projections

(* Any answer keeps what the reducer knows, if the event is new and its    *)
(* cause was answered before.                                              *)
LEMMA AnswerKeeps ==
  ASSUME WorldOK, NEW p, ProjInv(p), NEW e \in Envelopes, NEW q, Answers(p, e, q),
         ~Received(p, e.id), ~IsPending(p, e.id), ~CauseMissing(p, e.id),
         q.quarantine \in {p.quarantine, p.quarantine \cup {e.id}}
  PROVE  ProjInv(q)
<1>0. e.id \in Ids /\ e.key \in Ids /\ e # NoEnv
  BY EnvelopeShape
<1>1. /\ p \in Projections /\ q \in Projections /\ q.pending = p.pending
      /\ q.receipts[e.id] = e /\ \A i \in Ids : i # e.id => q.receipts[i] = p.receipts[i]
      /\ \A k \in Ids : q.idem[k] = p.idem[k] \/ (k = e.key /\ q.idem[k] = e)
  BY <1>0 DEF Answers, ProjInv, Projections
<1>2. FiledInv(q)
  <2>1. ASSUME NEW i \in Ids, Received(q, i) PROVE q.receipts[i].id = i
    BY <1>0, <1>1, <2>1 DEF FiledInv, ProjInv, Received
  <2>2. ASSUME NEW i \in Ids, IsPending(q, i) PROVE q.pending[i].id = i /\ ~Received(q, i)
    BY <1>0, <1>1, <2>2 DEF FiledInv, ProjInv, Received, IsPending
  <2>3. ASSUME NEW i \in q.quarantine PROVE Received(q, i)
    <3>1. i \in Ids /\ (i = e.id \/ i \in p.quarantine)
      BY <1>0, <1>1 DEF Projections
    <3> QED
      BY <1>0, <1>1, <3>1 DEF FiledInv, ProjInv, Received
  <2> QED
    BY <2>1, <2>2, <2>3 DEF FiledInv
<1>3. KeyInv(q)
  <2> SUFFICES ASSUME NEW k \in Ids, q.idem[k] # NoEnv
               PROVE  /\ q.idem[k] \in Envelopes /\ q.idem[k].key = k
                      /\ q.receipts[q.idem[k].id] = q.idem[k]
    BY DEF KeyInv
  <2>1. CASE k = e.key /\ q.idem[k] = e
    BY <1>0, <1>1, <2>1
  <2>2. CASE q.idem[k] = p.idem[k]
    <3>1. /\ q.idem[k] \in Envelopes /\ q.idem[k].key = k
          /\ p.receipts[q.idem[k].id] = q.idem[k]
      BY <2>2 DEF ProjInv, KeyInv
    <3>2. q.idem[k].id \in Ids /\ q.idem[k].id # e.id
      BY <3>1, EnvelopeShape DEF Received
    <3> QED
      BY <1>1, <3>1, <3>2
  <2> QED
    BY <1>1, <2>1, <2>2
<1>4. LogInv(q)
  <2> DEFINE L == Len(p.log)
  <2>1. /\ L \in Nat /\ Len(q.log) = L + 1 /\ q.log[L + 1] = e.id
        /\ \A n \in 1 .. L : p.log[n] \in Ids /\ q.log[n] = p.log[n]
    BY <1>0, <1>1, LogShape DEF Answers
  <2>2. /\ \A i \in Ids : Received(p, i) <=> \E n \in 1 .. L : p.log[n] = i
        /\ \A m, n \in 1 .. L : p.log[m] = p.log[n] => m = n
        /\ \A n \in 1 .. L : \/ cause[p.log[n]] = NoCause
                             \/ \E m \in 1 .. n - 1 : p.log[m] = cause[p.log[n]]
    BY DEF ProjInv, LogInv
  <2> HIDE DEF L
  <2>3. \A n \in 1 .. L : p.log[n] # e.id
    BY <1>0, <2>2
  <2>4. ASSUME NEW i \in Ids PROVE Received(q, i) <=> \E n \in 1 .. L + 1 : q.log[n] = i
    <3>1. CASE i = e.id
      BY <1>0, <1>1, <2>1, <3>1 DEF Received
    <3>2. CASE i # e.id
      <4>1. Received(q, i) <=> Received(p, i)
        BY <1>1, <3>2 DEF Received
      <4>2. (\E n \in 1 .. L + 1 : q.log[n] = i) <=> (\E n \in 1 .. L : p.log[n] = i)
        BY <2>1, <3>2
      <4> QED
        BY <2>2, <4>1, <4>2
    <3> QED
      BY <3>1, <3>2
  <2>5. ASSUME NEW m \in 1 .. L + 1, NEW n \in 1 .. L + 1, q.log[m] = q.log[n] PROVE m = n
    BY <2>1, <2>2, <2>3, <2>5
  <2>6. ASSUME NEW n \in 1 .. L + 1
        PROVE  \/ cause[q.log[n]] = NoCause
               \/ \E m \in 1 .. n - 1 : q.log[m] = cause[q.log[n]]
    <3>1. CASE n = L + 1
      <4>1. cause[e.id] # NoCause => cause[e.id] \in Ids /\ Received(p, cause[e.id])
        BY <1>0 DEF CauseMissing, WorldOK
      <4>2. cause[e.id] # NoCause => \E m \in 1 .. L : p.log[m] = cause[e.id]
        BY <2>2, <4>1
      <4> QED
        BY <2>1, <3>1, <4>2
    <3>2. CASE n # L + 1
      BY <2>1, <2>2, <3>2
    <3> QED
      BY <3>1, <3>2
  <2> QED
    BY <2>1, <2>4, <2>5, <2>6 DEF LogInv
<1> QED
  BY <1>1, <1>2, <1>3, <1>4 DEF ProjInv

-----------------------------------------------------------------------------
(* What any part of a replay may do: buffered events are answered, nothing *)
(* else changes.                                                           *)
OnlyPromotes(p, q) ==
  \A i \in Ids :
    \/ /\ q.receipts[i] = p.receipts[i] /\ q.pending[i] = p.pending[i]
       /\ i \in q.quarantine <=> i \in p.quarantine
    \/ IsPending(p, i) /\ q.receipts[i] = p.pending[i] /\ q.pending[i] = NoEnv

(* One buffered event is applied.                                          *)
Applies(p, i, q) ==
  /\ ~CauseMissing(p, i) /\ ~ReplayGap(p, i)
  /\ q.receipts = [p.receipts EXCEPT ![i] = p.pending[i]]
  /\ q.pending = [p.pending EXCEPT ![i] = NoEnv]
  /\ q.log = Append(p.log, i)
  /\ \/ q.quarantine = p.quarantine \cup {i} /\ q.last = p.last
     \/ /\ q.quarantine = p.quarantine
        /\ q.last = IF seq[i] > p.last THEN seq[i] ELSE p.last

(* The loop over the buffer applies a buffered event or passes it by.      *)
LEMMA ReplayOneShape ==
  ASSUME WorldOK, NEW p, ProjInv(p), NEW i \in Ids, IsPending(p, i)
  PROVE  /\ ProjInv(ReplayOne(p, i))
         /\ \/ ReplayOne(p, i) = p /\ (CauseMissing(p, i) \/ ReplayGap(p, i))
            \/ Applies(p, i, ReplayOne(p, i))
<1>0. p \in Projections /\ FiledInv(p) /\ KeyInv(p) /\ LogInv(p)
  BY DEF ProjInv
<1>1. CASE CauseMissing(p, i) \/ ReplayGap(p, i)
  BY <1>1 DEF ReplayOne
<1>2. CASE ~(CauseMissing(p, i) \/ ReplayGap(p, i))
  <2> DEFINE b == [p EXCEPT !.pending[i] = NoEnv]
             e == p.pending[i]
             q == Apply(b, e)
  <2>1. /\ b \in Projections /\ b.pending = [p.pending EXCEPT ![i] = NoEnv]
        /\ b.receipts = p.receipts /\ b.idem = p.idem /\ b.quarantine = p.quarantine
        /\ b.last = p.last /\ b.log = p.log
    BY <1>0, ForgetShape
  <2>2. e \in Envelopes /\ e.id = i /\ ~Received(p, i)
    BY <1>0 DEF IsPending, FiledInv, Projections
  <2>3. ReplayOne(p, i) = q
    BY <1>2 DEF ReplayOne
  <2> HIDE DEF b, e, q
  <2>4. /\ b.pending[i] = NoEnv
        /\ \A j \in Ids : j # i => b.pending[j] = p.pending[j]
    BY <1>0, <2>1 DEF Projections
  <2>5. ProjInv(b)
    <3>1. FiledInv(b)
      BY <1>0, <2>1, <2>4 DEF FiledInv, Received, IsPending
    <3>2. KeyInv(b) /\ LogInv(b)
      BY <1>0, <2>1 DEF KeyInv, LogInv, Received
    <3> QED
      BY <2>1, <3>1, <3>2 DEF ProjInv
  <2>6. /\ Answers(b, e, q)
        /\ \/ q.quarantine = b.quarantine \cup {i} /\ q.last = b.last
           \/ /\ q.quarantine = b.quarantine
              /\ q.last = IF seq[i] > b.last THEN seq[i] ELSE b.last
    <3>1. CASE i \in refused
      <4>1. q = Quarantine(b, e)
        BY <2>2, <3>1 DEF Apply, q
      <4> QED
        BY <2>1, <2>2, <4>1, QuarantineShape
    <3>2. CASE i \notin refused
      <4>1. q = Accept(b, e)
        BY <2>2, <3>2 DEF Apply, q
      <4> QED
        BY <2>1, <2>2, <4>1, AcceptShape
    <3> QED
      BY <3>1, <3>2
  <2>7. ~Received(b, i) /\ ~IsPending(b, i) /\ ~CauseMissing(b, i)
    BY <1>2, <2>1, <2>2, <2>4 DEF Received, IsPending, CauseMissing
  <2>8. q.quarantine \in {b.quarantine, b.quarantine \cup {i}}
    BY <2>6
  <2>9. ProjInv(q)
    BY <2>2, <2>5, <2>6, <2>7, <2>8, AnswerKeeps
  <2>10. Applies(p, i, q)
    BY <1>2, <2>1, <2>2, <2>6 DEF Applies, Answers, e
  <2> QED
    BY <2>3, <2>9, <2>10
<1> QED
  BY <1>1, <1>2

-----------------------------------------------------------------------------
(* A stream without causes whose session is monotonic or has not begun:    *)
(* the accepted events of the log are in order, none beyond the stream's   *)
(* last number, and the buffered ones are ahead of it.                     *)
Plain(p) ==
  /\ \A i \in Ids : cause[i] = NoCause
  /\ p.log # <<>> => p.log[1] \in monotonic

(* The session of p goes on in q: the event that opened it is the same.    *)
Headed(p, q) == q.log # <<>> /\ q.log[1] = p.log[1]

(* An answer appends to the log and leaves its first event alone.          *)
LEMMA HeadKeeps ==
  ASSUME NEW p \in Projections, p.log # <<>>, NEW i \in Ids, NEW q, q.log = Append(p.log, i)
  PROVE  Headed(p, q)
<1>1. p.log \in Seq(Ids) /\ Len(p.log) \in Nat \ {0}
  BY DEF Projections
<1>2. Len(q.log) = Len(p.log) + 1 /\ q.log[1] = p.log[1] /\ q.log \in Seq(Ids)
  BY <1>1
<1> QED
  BY <1>1, <1>2 DEF Headed

(* That event decides which numbers count.                                 *)
LEMMA HeadDecides ==
  ASSUME NEW p, p.log # <<>>, NEW q, Headed(p, q)
  PROVE  /\ \A j \in Ids : Sequenced(q, j) <=> Sequenced(p, j)
         /\ Plain(q) <=> Plain(p)
  BY DEF Headed, Sequenced, SessionMonotonic, Plain

Counts(p, n) == seq[p.log[n]] # NoSeq /\ p.log[n] \notin p.quarantine

Sorted(p) ==
  /\ \A n \in 1 .. Len(p.log) : Counts(p, n) => seq[p.log[n]] <= p.last
  /\ \A m, n \in 1 .. Len(p.log) :
       m < n /\ Counts(p, m) /\ Counts(p, n) => seq[p.log[m]] <= seq[p.log[n]]

Ahead(p) == \A i \in Ids : IsPending(p, i) => seq[i] > p.last

(* An answer keeps the order if an accepted event is not behind its stream. *)
LEMMA SortedKeeps ==
  ASSUME WorldOK, NEW p, ProjInv(p), Sorted(p), NEW q \in Projections, NEW i \in Ids,
         ~Received(p, i), q.log = Append(p.log, i),
         \/ q.quarantine = p.quarantine \cup {i} /\ q.last = p.last
         \/ /\ q.quarantine = p.quarantine /\ (seq[i] # NoSeq => seq[i] >= p.last)
            /\ q.last = IF seq[i] > p.last THEN seq[i] ELSE p.last
  PROVE  Sorted(q)
<1> DEFINE L == Len(p.log)
<1>0. p \in Projections /\ LogInv(p)
  BY DEF ProjInv
<1>1. /\ L \in Nat /\ Len(q.log) = L + 1 /\ q.log[L + 1] = i
      /\ \A n \in 1 .. L : p.log[n] \in Ids /\ q.log[n] = p.log[n]
  BY <1>0, LogShape
<1>2. \A n \in 1 .. L : p.log[n] # i
  BY <1>0 DEF LogInv
<1>3. /\ p.last \in Int /\ q.last \in Int /\ seq[i] \in Int /\ q.last >= p.last
      /\ \A j \in Ids : seq[j] \in Int
  <2>1. p.last \in Nat /\ q.last \in Nat
    BY <1>0, SeqShape DEF Projections
  <2>2. \A j \in Ids : seq[j] \in Int
    BY SeqShape DEF WorldOK
  <2> QED
    BY <2>1, <2>2
<1> HIDE DEF L
<1>4. \A n \in 1 .. L : Counts(q, n) <=> Counts(p, n)
  BY <1>1, <1>2 DEF Counts
<1>5. Counts(q, L + 1) => seq[i] >= p.last /\ seq[i] <= q.last
  BY <1>1, <1>3 DEF Counts
<1>6. /\ \A n \in 1 .. L : Counts(p, n) => seq[p.log[n]] <= p.last
      /\ \A m, n \in 1 .. L :
           m < n /\ Counts(p, m) /\ Counts(p, n) => seq[p.log[m]] <= seq[p.log[n]]
  BY DEF Sorted, L
<1>7. ASSUME NEW n \in 1 .. L + 1, Counts(q, n) PROVE seq[q.log[n]] <= q.last
  <2>1. CASE n = L + 1
    BY <1>1, <1>5, <1>7, <2>1
  <2>2. CASE n \in 1 .. L
    <3>1. q.log[n] = p.log[n] /\ p.log[n] \in Ids /\ seq[p.log[n]] <= p.last
      BY <1>1, <1>4, <1>6, <1>7, <2>2
    <3> QED
      BY <1>3, <3>1
  <2> QED
    BY <1>1, <2>1, <2>2
<1>8. ASSUME NEW m \in 1 .. L + 1, NEW n \in 1 .. L + 1, m < n, Counts(q, m), Counts(q, n)
      PROVE  seq[q.log[m]] <= seq[q.log[n]]
  <2>1. m \in 1 .. L /\ q.log[m] = p.log[m] /\ Counts(p, m) /\ p.log[m] \in Ids
    BY <1>1, <1>4, <1>8
  <2>2. CASE n = L + 1
    <3>1. seq[p.log[m]] <= p.last /\ p.last <= seq[i] /\ q.log[n] = i
      BY <1>1, <1>3, <1>5, <1>6, <1>8, <2>1, <2>2
    <3> QED
      BY <1>3, <2>1, <3>1
  <2>3. CASE n \in 1 .. L
    BY <1>1, <1>4, <1>6, <1>8, <2>1, <2>3
  <2> QED
    BY <1>1, <2>2, <2>3
<1> QED
  BY <1>1, <1>7, <1>8 DEF Sorted

-----------------------------------------------------------------------------
(* An event the replay after d looks at but cannot apply.                  *)
Blocked(p, i) == CauseMissing(p, i) \/ ReplayGap(p, i)
Settled(p, d) == \A i \in Replayable(p, d) : Blocked(p, i)

(* A pass from p, the ids up to i done: q differs from p only if something *)
(* could be applied, and then the buffer has shrunk; the dependants of d   *)
(* that need no order are answered; an ordered stream stays ordered.       *)
PassInv(p, d, i, q) ==
  /\ ProjInv(q) /\ OnlyPromotes(p, q) /\ Headed(p, q)
  /\ \A j \in Ids : j > i => q.pending[j] = p.pending[j]
  /\ q # p => /\ \E j \in Ids : IsPending(p, j) /\ ~IsPending(q, j)
              /\ ~Settled(p, d)
  /\ q = p => \A j \in Replayable(p, d) : j <= i => Blocked(p, j)
  /\ \A j \in Replayable(p, d) :
       j <= i /\ ~CauseMissing(p, j) /\ ~Sequenced(p, j) => Received(q, j)

PassSorted(p, i, q) ==
  /\ Sorted(q) /\ q.last \in {p.last, p.last + 1}
  /\ \A j \in Ids : IsPending(q, j) =>
       seq[j] > p.last /\ (j <= i => seq[j] > p.last + 1)

(* What was answered stays answered, what left the buffer stays out.       *)
LEMMA PromotesMonotone ==
  ASSUME NEW p, NEW q, OnlyPromotes(p, q)
  PROVE  /\ \A i \in Ids : Received(p, i) => Received(q, i)
         /\ \A i \in Ids : IsPending(q, i) => IsPending(p, i) /\ q.pending[i] = p.pending[i]
  BY DEF OnlyPromotes, Received, IsPending

(* A replayed event is a promotion.                                        *)
LEMMA AppliesPromotes ==
  ASSUME NEW p \in Projections, NEW q \in Projections, NEW i \in Ids, IsPending(p, i),
         Applies(p, i, q)
  PROVE  /\ OnlyPromotes(p, q)
         /\ q.pending[i] = NoEnv /\ Received(q, i)
         /\ \A j \in Ids : j # i => q.pending[j] = p.pending[j]
<1>1. /\ p.receipts \in [Ids -> Envelopes \cup {NoEnv}]
      /\ p.pending \in [Ids -> Envelopes \cup {NoEnv}]
  BY DEF Projections
<1>2. /\ q.receipts[i] = p.pending[i] /\ q.pending[i] = NoEnv
      /\ \A j \in Ids : j # i => q.receipts[j] = p.receipts[j] /\ q.pending[j] = p.pending[j]
  BY <1>1 DEF Applies
<1>3. \A j \in Ids : j # i => (j \in q.quarantine <=> j \in p.quarantine)
  BY DEF Applies
<1> QED
  BY <1>2, <1>3 DEF OnlyPromotes, IsPending, Received

(* Two replays in a row are a replay.                                      *)
LEMMA PromotesTransitive ==
  ASSUME NEW p, NEW q, NEW r, OnlyPromotes(p, q), OnlyPromotes(q, r)
  PROVE  OnlyPromotes(p, r)
  BY DEF OnlyPromotes, IsPending

(* One id of a pass.                                                       *)
LEMMA PassStep ==
  ASSUME WorldOK, NEW p, ProjInv(p), p.log # <<>>, NEW d \in Ids, NEW i \in Ids, NEW q,
         PassInv(p, d, i - 1, q), NEW r, r = IF i \in Replayable(p, d) THEN ReplayOne(q, i) ELSE q
  PROVE  PassInv(p, d, i, r)
<1>0. /\ ProjInv(q) /\ OnlyPromotes(p, q) /\ Headed(p, q) /\ i \in Int
      /\ \A j \in Ids : j > i - 1 => q.pending[j] = p.pending[j]
      /\ q # p => (\E j \in Ids : IsPending(p, j) /\ ~IsPending(q, j)) /\ ~Settled(p, d)
      /\ q = p => \A j \in Replayable(p, d) : j <= i - 1 => Blocked(p, j)
      /\ \A j \in Replayable(p, d) :
           j <= i - 1 /\ ~CauseMissing(p, j) /\ ~Sequenced(p, j) => Received(q, j)
      /\ \A j \in Ids : j \in Int
      /\ \A j \in Replayable(p, d) : j \in Ids
  BY DEF PassInv, Ids, Replayable
<1>1. \A j \in Ids : /\ j > i => j > i - 1 /\ j # i
                     /\ j <= i => j <= i - 1 \/ j = i
  BY DEF Ids
<1>2. CASE i \notin Replayable(p, d)
  <2>1. r = q
    BY <1>2
  <2> QED
    BY <1>0, <1>1, <1>2, <2>1 DEF PassInv
<1>3. CASE i \in Replayable(p, d)
  <2>0. r = ReplayOne(q, i) /\ IsPending(p, i) /\ IsPending(q, i)
    BY <1>0, <1>3 DEF Replayable, IsPending
  <2>1. /\ ProjInv(r)
        /\ (r = q /\ Blocked(q, i)) \/ Applies(q, i, r)
    BY <1>0, <2>0, ReplayOneShape DEF Blocked
  <2>2. CASE r = q /\ Blocked(q, i)
    <3>1. q = p => Blocked(p, i)
      BY <2>2
    <3>2. ~(~CauseMissing(p, i) /\ ~Sequenced(p, i))
      <4>1. CauseMissing(q, i) => CauseMissing(p, i)
        BY <1>0, PromotesMonotone DEF CauseMissing, WorldOK
      <4>2. Sequenced(q, i) <=> Sequenced(p, i)
        BY <1>0, HeadDecides
      <4> QED
        BY <2>2, <4>1, <4>2 DEF Blocked, ReplayGap
    <3> QED
      BY <1>0, <1>1, <2>2, <3>1, <3>2 DEF PassInv
  <2>3. CASE Applies(q, i, r)
    <3>1. q \in Projections /\ r \in Projections
      BY <1>0, <2>1 DEF ProjInv
    <3>2. /\ OnlyPromotes(q, r) /\ r.pending[i] = NoEnv /\ Received(r, i)
          /\ \A j \in Ids : j # i => r.pending[j] = q.pending[j]
      BY <2>0, <2>3, <3>1, AppliesPromotes
    <3>3. OnlyPromotes(p, r)
      BY <1>0, <3>2, PromotesTransitive
    <3>4. \A j \in Ids : j > i => r.pending[j] = p.pending[j]
      BY <1>0, <1>1, <3>2
    <3>5. \E j \in Ids : IsPending(p, j) /\ ~IsPending(r, j)
      BY <2>0, <3>2 DEF IsPending
    <3>6. ~Settled(p, d)
      <4>1. CASE q = p
        BY <1>3, <2>3, <4>1 DEF Settled, Blocked, Applies
      <4>2. CASE q # p
        BY <1>0, <4>2
      <4> QED
        BY <4>1, <4>2
    <3>7. r # p
      BY <3>5
    <3>8. \A j \in Replayable(p, d) :
            j <= i /\ ~CauseMissing(p, j) /\ ~Sequenced(p, j) => Received(r, j)
      BY <1>0, <1>1, <3>2, PromotesMonotone
    <3>9. Headed(p, r)
      <4>1. q.log # <<>> /\ r.log = Append(q.log, i)
        BY <1>0, <2>3 DEF Headed, Applies
      <4>2. Headed(q, r)
        BY <3>1, <4>1, HeadKeeps
      <4> QED
        BY <1>0, <4>2 DEF Headed
    <3> QED
      BY <2>1, <3>3, <3>4, <3>5, <3>6, <3>7, <3>8, <3>9 DEF PassInv
  <2> QED
    BY <2>1, <2>2, <2>3
<1> QED
  BY <1>2, <1>3

(* One id of a pass over an ordered stream: what is looked at is next.     *)
LEMMA PassStepSorted ==
  ASSUME WorldOK, NEW p, ProjInv(p), Plain(p), NEW d \in Ids, NEW i \in Ids, NEW q,
         PassInv(p, d, i - 1, q), PassSorted(p, i - 1, q),
         NEW r, r = IF i \in Replayable(p, d) THEN ReplayOne(q, i) ELSE q
  PROVE  PassSorted(p, i, r)
<1>0. /\ p \in Projections /\ q \in Projections /\ ProjInv(q) /\ OnlyPromotes(p, q)
      /\ Sorted(q) /\ q.last \in {p.last, p.last + 1}
      /\ \A j \in Ids : IsPending(q, j) =>
           seq[j] > p.last /\ (j <= i - 1 => seq[j] > p.last + 1)
  BY DEF PassInv, PassSorted, ProjInv
<1>1. /\ p.last \in Nat /\ q.last \in Nat /\ i \in Int /\ NoSeq = -1
      /\ \A j \in Ids : seq[j] \in Int /\ j \in Int
  <2>1. p.last \in Nat /\ q.last \in Nat
    BY <1>0, SeqShape DEF Projections
  <2>2. \A j \in Ids : seq[j] \in Int
    BY SeqShape DEF WorldOK
  <2> QED
    BY <2>1, <2>2 DEF Ids, NoSeq
<1>2. i \in Ids /\ q.pending[i] = p.pending[i]
  BY <1>1 DEF PassInv
<1>3. i \in Replayable(p, d) <=> IsPending(p, i) /\ seq[i] # NoSeq /\ seq[i] <= p.last + 1
  <2>1. cause[i] = 0 /\ d # 0
    BY InboxAssumption DEF Plain, NoCause, Ids
  <2> QED
    BY <2>1 DEF Replayable
<1>4. CASE i \notin Replayable(p, d)
  <2>1. r = q
    BY <1>4
  <2>2. IsPending(q, i) => seq[i] > p.last + 1
    BY <1>0, <1>1, <1>2, <1>3, <1>4 DEF IsPending
  <2>3. ASSUME NEW j \in Ids, IsPending(q, j)
        PROVE  seq[j] > p.last /\ (j <= i => seq[j] > p.last + 1)
    BY <1>0, <1>1, <2>2, <2>3
  <2> QED
    BY <1>0, <2>1, <2>3 DEF PassSorted
<1>5. CASE i \in Replayable(p, d)
  <2>1. r = ReplayOne(q, i) /\ IsPending(q, i) /\ seq[i] = p.last + 1
    BY <1>0, <1>1, <1>2, <1>3, <1>5 DEF IsPending
  <2>2. ~CauseMissing(q, i) /\ ~ReplayGap(q, i)
    BY <1>0, <1>1, <2>1 DEF CauseMissing, ReplayGap, Plain
  <2>3. ProjInv(r) /\ Applies(q, i, r)
    BY <1>0, <2>1, <2>2, ReplayOneShape
  <2>4. r \in Projections /\ ~Received(q, i)
    BY <1>0, <2>1, <2>3 DEF ProjInv, FiledInv
  <2>5. r.pending[i] = NoEnv /\ \A j \in Ids : j # i => r.pending[j] = q.pending[j]
    BY <1>0, <2>1, <2>3, <2>4, AppliesPromotes
  <2>6. Sorted(r)
    <3>1. seq[i] >= q.last
      BY <1>0, <1>1, <2>1
    <3> QED
      BY <1>0, <2>3, <2>4, <3>1, SortedKeeps DEF Applies
  <2>7. r.last \in {p.last, p.last + 1}
    BY <1>0, <1>1, <2>1, <2>3 DEF Applies
  <2>8. ASSUME NEW j \in Ids, IsPending(r, j)
        PROVE  seq[j] > p.last /\ (j <= i => seq[j] > p.last + 1)
    <3>1. j # i /\ IsPending(q, j)
      BY <2>5, <2>8 DEF IsPending
    <3> QED
      BY <1>0, <1>1, <3>1
  <2> QED
    BY <2>6, <2>7, <2>8 DEF PassSorted
<1> QED
  BY <1>4, <1>5

(* A whole pass.  It changes nothing exactly when nothing can be applied,  *)
(* and otherwise takes an event off the buffer.                            *)
LEMMA PassResult ==
  ASSUME WorldOK, NEW p, ProjInv(p), p.log # <<>>, NEW d \in Ids
  PROVE  LET q == ReplayPass(p, d) IN
         /\ ProjInv(q) /\ OnlyPromotes(p, q) /\ Headed(p, q)
         /\ Settled(p, d) => q = p
         /\ ~Settled(p, d) => \E j \in Ids : IsPending(p, j) /\ ~IsPending(q, j)
         /\ \A j \in Replayable(p, d) : ~CauseMissing(p, j) /\ ~Sequenced(p, j) => Received(q, j)
         /\ Plain(p) /\ Sorted(p) /\ Ahead(p) => Sorted(q) /\ Ahead(q)
<1>0. N \in Nat \ {0}
  BY InboxAssumption
<1>1. PICK f : /\ f[0] = p /\ ReplayPass(p, d) = f[N]
               /\ \A i \in Ids : f[i] = IF i \in Replayable(p, d) THEN ReplayOne(f[i - 1], i)
                                        ELSE f[i - 1]
  BY PassIsStepwise
<1> DEFINE S == {i \in 0 .. N : PassInv(p, d, i, f[i])}
           T == {i \in 0 .. N : PassSorted(p, i, f[i])}
<1>2. PassInv(p, d, 0, p)
  <2>1. OnlyPromotes(p, p) /\ Headed(p, p)
    BY DEF OnlyPromotes, Headed
  <2>2. \A j \in Replayable(p, d) : ~(j <= 0)
    BY <1>0 DEF Replayable, Ids
  <2> QED
    BY <2>1, <2>2 DEF PassInv
<1>3. \A i \in 0 .. N : i \in S
  <2>1. 0 \in S
    BY <1>0, <1>1, <1>2
  <2>2. ASSUME NEW i \in 1 .. N, i - 1 \in S PROVE i \in S
    <3>1. i \in Ids /\ PassInv(p, d, i - 1, f[i - 1])
      BY <2>2 DEF Ids
    <3>2. PassInv(p, d, i, f[i])
      BY <1>1, <3>1, PassStep
    <3> QED
      BY <3>2
  <2> HIDE DEF S
  <2> QED
    BY <1>0, <2>1, <2>2, StepByStep
<1>4. PassInv(p, d, N, f[N])
  BY <1>0, <1>3
<1>5. ASSUME Plain(p), Sorted(p), Ahead(p) PROVE Sorted(f[N]) /\ Ahead(f[N])
  <2>0. p.last \in Nat /\ \A j \in Ids : seq[j] \in Int
    BY SeqShape DEF ProjInv, Projections, WorldOK
  <2>1. PassSorted(p, 0, p)
    <3>1. \A j \in Ids : ~(j <= 0)
      BY <1>0 DEF Ids
    <3> QED
      BY <1>5, <3>1 DEF PassSorted, Ahead
  <2>2. 0 \in T
    BY <1>0, <1>1, <2>1
  <2>3. ASSUME NEW i \in 1 .. N, i - 1 \in T PROVE i \in T
    <3>1. i \in Ids /\ i - 1 \in 0 .. N /\ PassSorted(p, i - 1, f[i - 1])
      BY <2>3 DEF Ids
    <3>2. PassInv(p, d, i - 1, f[i - 1])
      BY <1>3, <3>1
    <3>3. PassSorted(p, i, f[i])
      BY <1>1, <1>5, <3>1, <3>2, PassStepSorted
    <3> QED
      BY <3>3
  <2>4. \A i \in 0 .. N : i \in T
    <3> HIDE DEF T
    <3> QED
      BY <1>0, <2>2, <2>3, StepByStep
  <2>5. PassSorted(p, N, f[N])
    BY <1>0, <2>4
  <2>6. Ahead(f[N])
    <3> SUFFICES ASSUME NEW j \in Ids, IsPending(f[N], j) PROVE seq[j] > f[N].last
      BY DEF Ahead
    <3>1. j <= N
      BY <1>0 DEF Ids
    <3>2. seq[j] > p.last + 1 /\ f[N].last \in {p.last, p.last + 1}
      BY <2>5, <3>1 DEF PassSorted
    <3> QED
      BY <2>0, <3>2
  <2> QED
    BY <2>5, <2>6 DEF PassSorted
<1>6. \A j \in Replayable(p, d) : j <= N
  BY <1>0 DEF Replayable, Ids
<1>7. f[N] = p => Settled(p, d)
  BY <1>4, <1>6 DEF PassInv, Settled
<1> HIDE DEF S, T
<1> QED
  BY <1>1, <1>4, <1>5, <1>6, <1>7 DEF PassInv

-----------------------------------------------------------------------------
Buffered(p) == {i \in Ids : IsPending(p, i)}

(* After k passes from p: either nothing is left to apply, or each pass    *)
(* took an event off the buffer.                                           *)
ReplayInv(p, d, k, q) ==
  /\ ProjInv(q) /\ OnlyPromotes(p, q) /\ Headed(p, q)
  /\ Settled(q, d) \/ Cardinality(Buffered(q)) + k <= Cardinality(Buffered(p))
  /\ k > 0 => \A j \in Replayable(p, d) :
                ~CauseMissing(p, j) /\ ~Sequenced(p, j) => Received(q, j)
  /\ Plain(p) /\ Sorted(p) /\ Ahead(p) => Sorted(q) /\ Ahead(q)

(* Buffers are finite, and one that lost an event is smaller.              *)
LEMMA BufferShrinks ==
  /\ \A p : IsFiniteSet(Buffered(p)) /\ Cardinality(Buffered(p)) \in Nat
  /\ \A p, q : OnlyPromotes(p, q) /\ (\E j \in Ids : IsPending(p, j) /\ ~IsPending(q, j))
       => Cardinality(Buffered(q)) + 1 <= Cardinality(Buffered(p))
  /\ \A p : \A d \in Ids : ~IsPending(p, d) => Cardinality(Buffered(p)) < N
<1>0. N \in Nat /\ IsFiniteSet(Ids) /\ Cardinality(Ids) = N
  BY InboxAssumption, FS_Interval DEF Ids
<1>1. ASSUME NEW p PROVE IsFiniteSet(Buffered(p)) /\ Cardinality(Buffered(p)) \in Nat
  <2>1. Buffered(p) \in SUBSET Ids
    BY DEF Buffered
  <2>2. IsFiniteSet(Buffered(p))
    BY <1>0, <2>1, FS_Subset
  <2> QED
    BY <2>2, FS_CardinalityType
<1>2. ASSUME NEW p, NEW q, OnlyPromotes(p, q), \E j \in Ids : IsPending(p, j) /\ ~IsPending(q, j)
      PROVE  Cardinality(Buffered(q)) + 1 <= Cardinality(Buffered(p))
  <2>1. Buffered(q) \in SUBSET Buffered(p) /\ Buffered(p) # Buffered(q)
    BY <1>2, PromotesMonotone DEF Buffered
  <2>2. /\ Cardinality(Buffered(q)) <= Cardinality(Buffered(p))
        /\ Cardinality(Buffered(q)) # Cardinality(Buffered(p))
    BY <1>1, <2>1, FS_Subset
  <2> QED
    BY <1>1, <2>2
<1>3. ASSUME NEW p, NEW d \in Ids, ~IsPending(p, d) PROVE Cardinality(Buffered(p)) < N
  <2>1. Buffered(p) \in SUBSET Ids /\ Ids # Buffered(p)
    BY <1>3 DEF Buffered
  <2>2. Cardinality(Buffered(p)) <= N /\ Cardinality(Buffered(p)) # N
    BY <1>0, <2>1, FS_Subset
  <2> QED
    BY <1>0, <1>1, <2>2
<1> QED
  BY <1>1, <1>2, <1>3

(* One pass more.                                                          *)
LEMMA ReplayStep ==
  ASSUME WorldOK, NEW p, ProjInv(p), p.log # <<>>, NEW d \in Ids, NEW k \in 1 .. N, NEW q,
         ReplayInv(p, d, k - 1, q), k = 1 => q = p
  PROVE  ReplayInv(p, d, k, ReplayPass(q, d))
<1> DEFINE r == ReplayPass(q, d)
<1>0. /\ ProjInv(q) /\ OnlyPromotes(p, q) /\ Headed(p, q) /\ q.log # <<>> /\ k \in Nat
      /\ Settled(q, d) \/ Cardinality(Buffered(q)) + (k - 1) <= Cardinality(Buffered(p))
      /\ k - 1 > 0 => \A j \in Replayable(p, d) :
                        ~CauseMissing(p, j) /\ ~Sequenced(p, j) => Received(q, j)
      /\ Plain(p) /\ Sorted(p) /\ Ahead(p) => Sorted(q) /\ Ahead(q)
  BY DEF ReplayInv, Headed
<1>1. /\ ProjInv(r) /\ OnlyPromotes(q, r) /\ Headed(q, r)
      /\ Settled(q, d) => r = q
      /\ ~Settled(q, d) => \E j \in Ids : IsPending(q, j) /\ ~IsPending(r, j)
      /\ \A j \in Replayable(q, d) : ~CauseMissing(q, j) /\ ~Sequenced(q, j) => Received(r, j)
      /\ Plain(q) /\ Sorted(q) /\ Ahead(q) => Sorted(r) /\ Ahead(r)
  BY <1>0, PassResult
<1> HIDE DEF r
<1>2. OnlyPromotes(p, r) /\ Headed(p, r) /\ (Plain(q) <=> Plain(p))
  <2>1. OnlyPromotes(p, r)
    BY <1>0, <1>1, PromotesTransitive
  <2>2. Headed(p, r)
    BY <1>0, <1>1 DEF Headed
  <2>3. Plain(q) <=> Plain(p)
    BY <1>0, HeadDecides
  <2> QED
    BY <2>1, <2>2, <2>3
<1>3. Settled(r, d) \/ Cardinality(Buffered(r)) + k <= Cardinality(Buffered(p))
  <2>1. CASE Settled(q, d)
    BY <1>1, <2>1
  <2>2. CASE ~Settled(q, d)
    <3>1. Cardinality(Buffered(r)) + 1 <= Cardinality(Buffered(q))
      BY <1>1, <2>2, BufferShrinks
    <3>2. /\ Cardinality(Buffered(p)) \in Nat /\ Cardinality(Buffered(q)) \in Nat
          /\ Cardinality(Buffered(r)) \in Nat
      BY BufferShrinks
    <3>3. Cardinality(Buffered(q)) + (k - 1) <= Cardinality(Buffered(p))
      BY <1>0, <2>2
    <3> QED
      BY <1>0, <3>1, <3>2, <3>3
  <2> QED
    BY <2>1, <2>2
<1>4. ASSUME NEW j \in Replayable(p, d), ~CauseMissing(p, j), ~Sequenced(p, j) PROVE Received(r, j)
  <2>1. CASE k = 1
    BY <1>1, <1>4, <2>1
  <2>2. CASE k # 1
    <3>1. Received(q, j) /\ j \in Ids
      BY <1>0, <1>4, <2>2 DEF Replayable
    <3> QED
      BY <1>1, <3>1, PromotesMonotone
  <2> QED
    BY <2>1, <2>2
<1> QED
  BY <1>0, <1>1, <1>2, <1>3, <1>4 DEF ReplayInv, r

(* The whole loop after an event d that is not itself buffered.  N passes  *)
(* are enough: at the end nothing it looks for can be applied.             *)
LEMMA ReplayResult ==
  ASSUME WorldOK, NEW p, ProjInv(p), p.log # <<>>, NEW d \in Ids, ~IsPending(p, d)
  PROVE  LET q == Replay(p, d) IN
         /\ ProjInv(q) /\ OnlyPromotes(p, q) /\ Headed(p, q) /\ Settled(q, d)
         /\ \A j \in Replayable(p, d) : ~CauseMissing(p, j) /\ ~Sequenced(p, j) => Received(q, j)
         /\ Plain(p) /\ Sorted(p) /\ Ahead(p) => Sorted(q) /\ Ahead(q)
<1>0. N \in Nat \ {0}
  BY InboxAssumption
<1>1. PICK f : /\ f[0] = p /\ Replay(p, d) = f[N]
               /\ \A k \in 1 .. N : f[k] = ReplayPass(f[k - 1], d)
  BY ReplayIsStepwise
<1> DEFINE S == {k \in 0 .. N : ReplayInv(p, d, k, f[k])}
<1>2. 0 \in S
  <2>1. OnlyPromotes(p, p) /\ Headed(p, p)
    BY DEF OnlyPromotes, Headed
  <2>2. Cardinality(Buffered(p)) + 0 <= Cardinality(Buffered(p))
    BY BufferShrinks
  <2>3. ReplayInv(p, d, 0, p)
    BY <2>1, <2>2 DEF ReplayInv
  <2> QED
    BY <1>0, <1>1, <2>3
<1>3. ASSUME NEW k \in 1 .. N, k - 1 \in S PROVE k \in S
  <2>1. ReplayInv(p, d, k - 1, f[k - 1]) /\ (k = 1 => f[k - 1] = p)
    BY <1>1, <1>3
  <2>2. ReplayInv(p, d, k, f[k])
    BY <1>1, <2>1, ReplayStep
  <2> QED
    BY <2>2
<1>4. \A k \in 0 .. N : k \in S
  <2> HIDE DEF S
  <2> QED
    BY <1>0, <1>2, <1>3, StepByStep
<1>5. ReplayInv(p, d, N, f[N])
  BY <1>0, <1>4
<1>6. Settled(f[N], d)
  <2>1. Cardinality(Buffered(p)) < N /\ Cardinality(Buffered(p)) \in Nat
        /\ Cardinality(Buffered(f[N])) \in Nat
    BY BufferShrinks
  <2>2. ~(Cardinality(Buffered(f[N])) + N <= Cardinality(Buffered(p)))
    BY <1>0, <2>1
  <2> QED
    BY <1>5, <2>2 DEF ReplayInv
<1> HIDE DEF S
<1> QED
  BY <1>0, <1>1, <1>5, <1>6 DEF ReplayInv

-----------------------------------------------------------------------------
(* Between deliveries nothing buffered is next in an ordered stream.       *)
OrderInv(p) ==
  Plain(p) => Sorted(p) /\ \A i \in Ids : IsPending(p, i) => seq[i] > p.last + 1

(* An event the projection has nothing of.                                 *)
Fresh(p, e) == ~Received(p, e.id) /\ ~IsPending(p, e.id) /\ p.idem[e.key] = NoEnv

(* What the answer to e does to a projection, itself and the replay.       *)
Moves(p, e, q, disp) ==
  /\ \A i \in Ids : i # e.id =>
       \/ /\ q.receipts[i] = p.receipts[i] /\ q.pending[i] = p.pending[i]
          /\ i \in q.quarantine <=> i \in p.quarantine
       \/ IsPending(p, i) /\ q.receipts[i] = p.pending[i] /\ q.pending[i] = NoEnv
  /\ q.receipts[e.id] = IF disp = "pending" THEN NoEnv ELSE e
  /\ q.pending[e.id] = IF disp = "pending" THEN e ELSE NoEnv
  /\ e.id \in q.quarantine <=> disp = "rejected"

(* Reduce of a fresh event is decided by its cause, its number and apply.  *)
LEMMA ReduceCases ==
  ASSUME NEW p, NEW e \in Envelopes, Fresh(p, e)
  PROVE  \/ CauseMissing(p, e.id) /\ Reduce(p, e) = Result([p EXCEPT !.pending[e.id] = e], "pending")
         \/ ~CauseMissing(p, e.id) /\ Reduce(p, e) = Result(Quarantine(p, e), "rejected")
         \/ Gap(p, e.id) /\ Reduce(p, e) = Result([p EXCEPT !.pending[e.id] = e], "pending")
         \/ /\ ~CauseMissing(p, e.id) /\ ~Late(p, e.id) /\ ~Gap(p, e.id)
            /\ Reduce(p, e) = Result(Replay(Accept(p, e), e.id), "accepted")
<1>1. e # NoEnv
  BY EnvelopeShape
<1>2. ~Conflicting(p, e) /\ e \notin {p.receipts[e.id], p.idem[e.key]} /\ p.pending[e.id] # e
  BY <1>1 DEF Fresh, Conflicting, Received, IsPending
<1> QED
  BY <1>2 DEF Reduce

(* A fresh event that goes to the buffer.                                  *)
LEMMA BufferKeeps ==
  ASSUME WorldOK, NEW p, ProjInv(p), NEW e \in Envelopes, Fresh(p, e),
         NEW q, q = [p EXCEPT !.pending[e.id] = e]
  PROVE  /\ ProjInv(q) /\ Moves(p, e, q, "pending")
         /\ OrderInv(p) /\ (Plain(p) => Gap(p, e.id)) => OrderInv(q)
<1>0. e.id \in Ids /\ e # NoEnv /\ p \in Projections
  BY EnvelopeShape DEF ProjInv
<1>1. /\ q \in Projections /\ q.pending = [p.pending EXCEPT ![e.id] = e]
      /\ q.receipts = p.receipts /\ q.idem = p.idem /\ q.quarantine = p.quarantine
      /\ q.last = p.last /\ q.log = p.log
  BY <1>0, BufferShape
<1>2. q.pending[e.id] = e /\ \A j \in Ids : j # e.id => q.pending[j] = p.pending[j]
  BY <1>0, <1>1 DEF Projections
<1>3. ~Received(p, e.id) /\ p.receipts[e.id] = NoEnv
  BY DEF Fresh, Received
<1>4. FiledInv(q)
  BY <1>1, <1>2, <1>3 DEF ProjInv, FiledInv, Received, IsPending
<1>5. KeyInv(q) /\ LogInv(q)
  BY <1>1 DEF ProjInv, KeyInv, LogInv, Received
<1>6. e.id \notin q.quarantine
  BY <1>1, <1>3 DEF ProjInv, FiledInv
<1>7. Moves(p, e, q, "pending")
  BY <1>1, <1>2, <1>3, <1>6 DEF Moves
<1>8. ASSUME OrderInv(p), Plain(p), Gap(p, e.id)
      PROVE  Sorted(q) /\ \A i \in Ids : IsPending(q, i) => seq[i] > q.last + 1
  <2>1. Sorted(q)
    BY <1>1, <1>8 DEF OrderInv, Sorted, Counts
  <2>2. p.last \in Nat /\ seq[e.id] \in Int
    BY <1>0, SeqShape DEF Projections, WorldOK
  <2>3. seq[e.id] > p.last + 1
    BY <1>8, <2>2 DEF Gap
  <2> QED
    BY <1>1, <1>2, <1>8, <2>1, <2>3 DEF OrderInv, IsPending
<1>9. Plain(q) <=> Plain(p)
  BY <1>1 DEF Plain
<1> QED
  BY <1>1, <1>4, <1>5, <1>7, <1>8, <1>9 DEF ProjInv, OrderInv

(* A fresh event that is answered, before any replay.                      *)
LEMMA AnswerMoves ==
  ASSUME WorldOK, NEW p, ProjInv(p), NEW e \in Envelopes, Fresh(p, e), NEW q, Answers(p, e, q),
         NEW disp \in {"accepted", "rejected"},
         q.quarantine = IF disp = "rejected" THEN p.quarantine \cup {e.id} ELSE p.quarantine
  PROVE  Moves(p, e, q, disp)
<1>0. e.id \in Ids /\ p \in Projections /\ ~Received(p, e.id) /\ p.pending[e.id] = NoEnv
  BY EnvelopeShape DEF ProjInv, Fresh, IsPending
<1>1. /\ q.receipts[e.id] = e /\ \A i \in Ids : i # e.id => q.receipts[i] = p.receipts[i]
      /\ q.pending = p.pending
  BY <1>0 DEF Answers, Projections
<1>2. e.id \notin p.quarantine
  BY <1>0 DEF ProjInv, FiledInv
<1> QED
  BY <1>0, <1>1, <1>2 DEF Moves

(* A plain stream was one before its latest event, which is numbered in it. *)
LEMMA PlainBefore ==
  ASSUME NEW p \in Projections, NEW i \in Ids, NEW q, q.log = Append(p.log, i), Plain(q)
  PROVE  Plain(p) /\ (Sequenced(p, i) <=> seq[i] # NoSeq) /\ q.log # <<>>
<1>1. p.log \in Seq(Ids)
  BY DEF Projections
<1>2. q.log # <<>> /\ q.log[1] \in monotonic
  BY <1>1 DEF Plain
<1>3. CASE p.log = <<>>
  <2>1. q.log[1] = i
    BY <1>3
  <2> QED
    BY <1>2, <1>3, <2>1 DEF Plain, Sequenced
<1>4. CASE p.log # <<>>
  <2>1. q.log[1] = p.log[1]
    BY <1>4, HeadKeeps DEF Headed
  <2> QED
    BY <1>2, <1>4, <2>1 DEF Plain, Sequenced, SessionMonotonic
<1> QED
  BY <1>2, <1>3, <1>4

(* A rejected event.                                                       *)
LEMMA RejectKeeps ==
  ASSUME WorldOK, NEW p, ProjInv(p), NEW e \in Envelopes, Fresh(p, e), ~CauseMissing(p, e.id),
         NEW q, q = Quarantine(p, e)
  PROVE  ProjInv(q) /\ Moves(p, e, q, "rejected") /\ (OrderInv(p) => OrderInv(q))
<1>0. e.id \in Ids /\ p \in Projections /\ ~Received(p, e.id) /\ ~IsPending(p, e.id)
  BY EnvelopeShape DEF ProjInv, Fresh
<1>1. Answers(p, e, q) /\ q.quarantine = p.quarantine \cup {e.id} /\ q.last = p.last
  BY <1>0, QuarantineShape
<1>2. ProjInv(q)
  BY <1>0, <1>1, AnswerKeeps
<1>3. Moves(p, e, q, "rejected")
  BY <1>1, AnswerMoves
<1>4. ASSUME OrderInv(p), Plain(q)
      PROVE  Sorted(q) /\ \A i \in Ids : IsPending(q, i) => seq[i] > q.last + 1
  <2>1. q \in Projections /\ q.log = Append(p.log, e.id) /\ q.pending = p.pending
    BY <1>1 DEF Answers
  <2>2. Sorted(p) /\ \A i \in Ids : IsPending(p, i) => seq[i] > p.last + 1
    BY <1>0, <1>4, <2>1, PlainBefore DEF OrderInv
  <2>3. Sorted(q)
    BY <1>0, <1>1, <2>1, <2>2, SortedKeeps
  <2> QED
    BY <1>1, <2>1, <2>2, <2>3 DEF IsPending
<1> QED
  BY <1>2, <1>3, <1>4 DEF OrderInv

(* An accepted event and the replay it sets off.                           *)
LEMMA AcceptKeeps ==
  ASSUME WorldOK, NEW p, ProjInv(p), NEW e \in Envelopes, Fresh(p, e), ~CauseMissing(p, e.id),
         ~Late(p, e.id), ~Gap(p, e.id), NEW q, q = Replay(Accept(p, e), e.id)
  PROVE  /\ ProjInv(q) /\ Moves(p, e, q, "accepted")
         /\ OrderInv(p) => OrderInv(q)
         /\ \A i \in Ids : IsPending(p, i) /\ cause[i] = e.id /\ ~Sequenced(q, i) => Received(q, i)
<1> DEFINE a == Accept(p, e)
<1>0. /\ e.id \in Ids /\ p \in Projections /\ ~Received(p, e.id) /\ ~IsPending(p, e.id)
      /\ e # NoEnv
  BY EnvelopeShape DEF ProjInv, Fresh
<1>1. /\ Answers(p, e, a) /\ a.quarantine = p.quarantine
      /\ a.last = IF seq[e.id] > p.last THEN seq[e.id] ELSE p.last
  BY <1>0, AcceptShape
<1>2. q = Replay(a, e.id)
  OBVIOUS
<1> HIDE DEF a
<1>3. ProjInv(a)
  BY <1>0, <1>1, AnswerKeeps
<1>4. Moves(p, e, a, "accepted")
  BY <1>1, AnswerMoves
<1>5. /\ a \in Projections /\ a.log = Append(p.log, e.id) /\ a.pending = p.pending
      /\ ~IsPending(a, e.id) /\ Received(a, e.id) /\ a.log # <<>>
  <2>1. /\ a \in Projections /\ a.log = Append(p.log, e.id) /\ a.pending = p.pending
        /\ ~IsPending(a, e.id) /\ Received(a, e.id)
    BY <1>0, <1>1, <1>4 DEF Answers, Moves, IsPending, Received
  <2>2. p.log \in Seq(Ids)
    BY <1>0 DEF Projections
  <2> QED
    BY <1>0, <2>1, <2>2
<1>6. /\ ProjInv(q) /\ OnlyPromotes(a, q) /\ Headed(a, q) /\ Settled(q, e.id)
      /\ \A j \in Replayable(a, e.id) : ~CauseMissing(a, j) /\ ~Sequenced(a, j) => Received(q, j)
      /\ Plain(a) /\ Sorted(a) /\ Ahead(a) => Sorted(q) /\ Ahead(q)
  BY <1>0, <1>2, <1>3, <1>5, ReplayResult
<1>7. Moves(p, e, q, "accepted")
  <2>1. /\ q.receipts[e.id] = e /\ q.pending[e.id] = NoEnv /\ e.id \notin q.quarantine
    BY <1>0, <1>4, <1>5, <1>6 DEF OnlyPromotes, Moves
  <2>2. ASSUME NEW i \in Ids, i # e.id
        PROVE  \/ /\ q.receipts[i] = p.receipts[i] /\ q.pending[i] = p.pending[i]
                  /\ i \in q.quarantine <=> i \in p.quarantine
               \/ IsPending(p, i) /\ q.receipts[i] = p.pending[i] /\ q.pending[i] = NoEnv
    <3>1. /\ a.receipts[i] = p.receipts[i] /\ a.pending[i] = p.pending[i]
          /\ i \in a.quarantine <=> i \in p.quarantine
      BY <1>0, <1>1, <1>5, <2>2 DEF Answers, Projections
    <3> QED
      BY <1>6, <3>1 DEF OnlyPromotes, IsPending
  <2> QED
    BY <2>1, <2>2 DEF Moves
<1>8. ASSUME NEW i \in Ids, IsPending(p, i), cause[i] = e.id, ~Sequenced(q, i) PROVE Received(q, i)
  <2>1. i \in Replayable(a, e.id)
    BY <1>5, <1>8 DEF Replayable, IsPending
  <2>2. ~CauseMissing(a, i) /\ ~Sequenced(a, i)
    BY <1>5, <1>6, <1>8, HeadDecides DEF CauseMissing
  <2> QED
    BY <1>6, <1>8, <2>1, <2>2
<1>9. ASSUME OrderInv(p), Plain(q)
      PROVE  Sorted(q) /\ \A i \in Ids : IsPending(q, i) => seq[i] > q.last + 1
  <2>0. /\ p.last \in Nat /\ q.last \in Nat /\ NoSeq = -1
        /\ \A i \in Ids : seq[i] \in Int /\ seq[i] >= NoSeq
    <3>1. p.last \in Nat /\ q.last \in Nat
      BY <1>0, <1>6, SeqShape DEF Projections, ProjInv
    <3>2. \A i \in Ids : seq[i] \in Int /\ seq[i] >= NoSeq
      BY SeqShape DEF WorldOK
    <3> QED
      BY <3>1, <3>2 DEF NoSeq
  <2>p. Plain(a) /\ Plain(p) /\ (Sequenced(p, e.id) <=> seq[e.id] # NoSeq)
    <3>1. Plain(a)
      BY <1>5, <1>6, <1>9, HeadDecides
    <3> QED
      BY <1>0, <1>5, <3>1, PlainBefore
  <2>1. Sorted(p) /\ \A i \in Ids : IsPending(p, i) => seq[i] > p.last + 1
    BY <1>9, <2>p DEF OrderInv
  <2>2. /\ seq[e.id] # NoSeq => seq[e.id] >= p.last
        /\ seq[e.id] <= p.last + 1
    BY <1>0, <2>0, <2>p DEF Late, Gap
  <2>3. Sorted(a)
    BY <1>0, <1>1, <1>5, <2>1, <2>2, SortedKeeps
  <2>4. Ahead(a)
    <3>1. a.last <= p.last + 1 /\ a.last \in Int
      BY <1>0, <1>1, <2>0, <2>2
    <3>2. \A i \in Ids : IsPending(a, i) => seq[i] > p.last + 1
      BY <1>5, <2>1 DEF IsPending
    <3> QED
      BY <2>0, <3>1, <3>2 DEF Ahead
  <2>5. Sorted(q) /\ Ahead(q)
    BY <1>6, <2>3, <2>4, <2>p
  <2>6. ASSUME NEW i \in Ids, IsPending(q, i), seq[i] <= q.last + 1 PROVE FALSE
    <3>1. seq[i] # NoSeq
      BY <2>0, <2>5, <2>6 DEF Ahead
    <3>2. i \in Replayable(q, e.id)
      BY <2>6, <3>1 DEF Replayable
    <3>3. CauseMissing(q, i) \/ ReplayGap(q, i)
      BY <1>6, <3>2 DEF Settled, Blocked
    <3> QED
      BY <1>9, <2>0, <2>6, <3>3 DEF CauseMissing, ReplayGap, Plain
  <2> QED
    BY <2>0, <2>5, <2>6
<1> QED
  BY <1>6, <1>7, <1>8, <1>9 DEF OrderInv

(* Reducer.Reduce of a fresh event, in one place.                          *)
LEMMA ReduceFresh ==
  ASSUME WorldOK, NEW p, ProjInv(p), NEW e \in Envelopes, Fresh(p, e)
  PROVE  LET q == Reduce(p, e).state
             disp == Reduce(p, e).disp
         IN /\ disp \in Dispositions /\ ProjInv(q) /\ Moves(p, e, q, disp)
            /\ OrderInv(p) => OrderInv(q)
            /\ disp = "accepted" =>
                 \A i \in Ids : IsPending(p, i) /\ cause[i] = e.id /\ ~Sequenced(q, i) => Received(q, i)
<1> DEFINE out == Reduce(p, e)
<1>1. CASE out = Result([p EXCEPT !.pending[e.id] = e], "pending")
           /\ (CauseMissing(p, e.id) \/ Gap(p, e.id))
  <2>1. out.state = [p EXCEPT !.pending[e.id] = e] /\ out.disp = "pending"
    BY <1>1 DEF Result
  <2>2. Plain(p) => Gap(p, e.id)
    BY <1>1, EnvelopeShape DEF Plain, CauseMissing
  <2> HIDE DEF out
  <2>3. ProjInv(out.state) /\ Moves(p, e, out.state, "pending") /\ (OrderInv(p) => OrderInv(out.state))
    BY <2>1, <2>2, BufferKeeps
  <2> QED
    BY <2>1, <2>3 DEF Dispositions, out
<1>2. CASE out = Result(Quarantine(p, e), "rejected") /\ ~CauseMissing(p, e.id)
  <2>1. out.state = Quarantine(p, e) /\ out.disp = "rejected"
    BY <1>2 DEF Result
  <2> HIDE DEF out
  <2>2. ProjInv(out.state) /\ Moves(p, e, out.state, "rejected") /\ (OrderInv(p) => OrderInv(out.state))
    BY <1>2, <2>1, RejectKeeps
  <2> QED
    BY <2>1, <2>2 DEF Dispositions, out
<1>3. CASE /\ out = Result(Replay(Accept(p, e), e.id), "accepted")
           /\ ~CauseMissing(p, e.id) /\ ~Late(p, e.id) /\ ~Gap(p, e.id)
  <2>1. out.state = Replay(Accept(p, e), e.id) /\ out.disp = "accepted"
    BY <1>3 DEF Result
  <2> HIDE DEF out
  <2>2. /\ ProjInv(out.state) /\ Moves(p, e, out.state, "accepted")
        /\ OrderInv(p) => OrderInv(out.state)
        /\ \A i \in Ids : IsPending(p, i) /\ cause[i] = e.id /\ ~Sequenced(out.state, i)
             => Received(out.state, i)
    BY <1>3, <2>1, AcceptKeeps
  <2> QED
    BY <2>1, <2>2 DEF Dispositions, out
<1> QED
  BY <1>1, <1>2, <1>3, ReduceCases

-----------------------------------------------------------------------------
(* What the tables B (pending_events), R and T (receipts and tombstones)   *)
(* know of a projection: RowInv is one row, StoreInv all of them, and that *)
(* no pending row is among the tombstones.                                 *)
RowInv(p, B, r) ==
  LET i == r.env.id IN
  /\ r.disp = "pending" <=> p.pending[i] = r.env /\ ~Received(p, i)
  /\ r.disp = "pending" <=> i \in B
  /\ r.disp = "rejected" <=> i \in p.quarantine
  /\ r.disp # "pending" <=> p.receipts[i] = r.env

RowTypes == [env : Envelopes, disp : Dispositions]

StoreInv(p, R, T, B) ==
  /\ R \cup T \subseteq RowTypes /\ B \subseteq Ids
  /\ \A i \in Ids : Received(p, i) \/ IsPending(p, i) => \E r \in R \cup T : r.env.id = i
  /\ \A r \in R \cup T : RowInv(p, B, r)
  /\ \A r \in T : r.disp # "pending"
  /\ \A i \in B : IsPending(p, i)

InboxInv ==
  /\ WorldOK /\ ProjInv(proj) /\ OrderInv(proj)
  /\ StoreInv(proj, rows, tombstones, buffer)

(* An event neither of whose identifiers is on record is new to the        *)
(* projection: the gate of the store covers what the reducer would refuse. *)
LEMMA FreshWhenUnknown ==
  ASSUME InboxInv, NEW e \in Envelopes, ~Known(e)
  PROVE  Fresh(proj, e)
<1>0. /\ e.id \in Ids /\ e.key \in Ids /\ FiledInv(proj) /\ KeyInv(proj)
      /\ StoreInv(proj, rows, tombstones, buffer)
  BY EnvelopeShape DEF InboxInv, ProjInv
<1>1. ~Received(proj, e.id) /\ ~IsPending(proj, e.id)
  BY <1>0 DEF StoreInv, Known
<1>2. ASSUME proj.idem[e.key] # NoEnv PROVE FALSE
  <2> DEFINE x == proj.idem[e.key]
  <2>1. x \in Envelopes /\ x.key = e.key /\ proj.receipts[x.id] = x
    BY <1>0, <1>2 DEF KeyInv
  <2> HIDE DEF x
  <2>2. x.id \in Ids /\ Received(proj, x.id)
    BY <2>1, EnvelopeShape DEF Received
  <2>3. PICK r \in rows \cup tombstones : r.env.id = x.id
    BY <1>0, <2>2 DEF StoreInv
  <2>4. RowInv(proj, buffer, r)
    BY <1>0, <2>3 DEF StoreInv
  <2>5. r.env = x
    BY <2>1, <2>2, <2>3, <2>4 DEF RowInv
  <2> QED
    BY <2>1, <2>5 DEF Known
<1> QED
  BY <1>1, <1>2 DEF Fresh

(* So whatever is delivered is answered, and what the answer promotes is   *)
(* pending in both tables.                                                 *)
LEMMA NotWedged ==
  ASSUME InboxInv, NEW e \in Envelopes, ~Known(e)
  PROVE  LET out == Reduce(proj, e)
         IN out.disp \in Dispositions /\ ~Diverges(proj, out.state)
<1>1. Fresh(proj, e)
  BY FreshWhenUnknown
<1>2. /\ WorldOK /\ ProjInv(proj) /\ FiledInv(proj)
      /\ StoreInv(proj, rows, tombstones, buffer)
  BY DEF InboxInv, ProjInv
<1> DEFINE q == Reduce(proj, e).state
<1>3. Reduce(proj, e).disp \in Dispositions
  BY <1>1, <1>2, ReduceFresh
<1> HIDE DEF q
<1>4. ASSUME NEW i \in Promoted(proj, q)
      PROVE  i \in buffer /\ [env |-> proj.pending[i], disp |-> "pending"] \in rows
  <2>1. i \in Ids /\ IsPending(proj, i) /\ ~Received(proj, i)
    BY <1>2, <1>4 DEF Promoted, FiledInv
  <2>2. PICK r \in rows \cup tombstones : r.env.id = i
    BY <1>2, <2>1 DEF StoreInv
  <2>3. r \in RowTypes /\ RowInv(proj, buffer, r)
    BY <1>2, <2>2 DEF StoreInv
  <2>4. r.env # NoEnv
    BY <2>3, InboxAssumption DEF RowTypes
  <2>5. r.disp = "pending" /\ proj.pending[i] = r.env /\ i \in buffer
    BY <2>1, <2>2, <2>3, <2>4 DEF RowInv, Received
  <2>6. r \in rows
    BY <1>2, <2>2, <2>5 DEF StoreInv
  <2>7. r = [env |-> proj.pending[i], disp |-> "pending"]
    BY <2>3, <2>5 DEF RowTypes
  <2> QED
    BY <2>5, <2>6, <2>7
<1>5. ~Diverges(proj, q)
  BY <1>4 DEF Diverges
<1> QED
  BY <1>3, <1>5 DEF q

(* The row of an event other than the delivered one follows its event:     *)
(* when the replay answers it, the row gets that answer.                   *)
LEMMA RowFollows ==
  ASSUME InboxInv, NEW e \in Envelopes, NEW q, NEW disp, Moves(proj, e, q, disp),
         NEW B, NEW r \in rows \cup tombstones, r.env.id # e.id,
         B \cup {e.id} = (buffer \ Promoted(proj, q)) \cup {e.id}
  PROVE  LET s == IF r.disp = "pending" /\ r.env.id \in Promoted(proj, q)
                    THEN [r EXCEPT !.disp = PromotedTo(q, r.env.id)] ELSE r
         IN /\ s \in RowTypes /\ s.env = r.env /\ RowInv(q, B, s)
            /\ s = r \/ r.disp = "pending"
            /\ r \in tombstones => s = r
<1> DEFINE i == r.env.id
           moved == i \in Promoted(proj, q)
<1>0. /\ FiledInv(proj) /\ r \in RowTypes /\ RowInv(proj, buffer, r)
      /\ r \in tombstones => r.disp # "pending"
  BY DEF InboxInv, ProjInv, StoreInv
<1>1. r.env \in Envelopes /\ r.env # NoEnv /\ i \in Ids
  BY <1>0, EnvelopeShape DEF RowTypes
<1>2. i \in B <=> i \in buffer /\ ~moved
  OBVIOUS
<1>3. CASE ~IsPending(proj, i) \/ q.receipts[i] = proj.receipts[i]
  <2>1. /\ q.receipts[i] = proj.receipts[i] /\ q.pending[i] = proj.pending[i]
        /\ i \in q.quarantine <=> i \in proj.quarantine
    <3>1. q.receipts[i] = proj.pending[i] => ~IsPending(proj, i)
      BY <1>0, <1>1, <1>3 DEF FiledInv, IsPending, Received
    <3> QED
      BY <1>1, <3>1 DEF Moves
  <2>2. ~moved
    BY <1>0, <1>1, <2>1 DEF Promoted, FiledInv, Received
  <2>3. RowInv(q, B, r)
    BY <1>0, <1>2, <2>1, <2>2 DEF RowInv, Received
  <2> QED
    BY <1>0, <2>2, <2>3
<1>4. CASE IsPending(proj, i) /\ q.receipts[i] # proj.receipts[i]
  <2>1. q.receipts[i] = proj.pending[i] /\ q.pending[i] = NoEnv
    BY <1>1, <1>4 DEF Moves
  <2>2. moved /\ Received(q, i)
    BY <1>1, <1>4, <2>1 DEF Promoted, IsPending, Received
  <2>3. ~Received(proj, i)
    BY <1>0, <1>1, <1>4 DEF FiledInv
  <2>4. r.disp = "pending" /\ proj.pending[i] = r.env
    BY <1>0, <1>1, <2>3 DEF RowInv, Received
  <2> DEFINE s == [r EXCEPT !.disp = PromotedTo(q, i)]
  <2>5. /\ s \in RowTypes /\ s.env = r.env /\ s.disp = PromotedTo(q, i)
    BY <1>0 DEF RowTypes, PromotedTo, Dispositions
  <2>6. /\ s.disp # "pending"
        /\ s.disp = "rejected" <=> i \in q.quarantine
    BY <2>5 DEF PromotedTo
  <2> HIDE DEF s
  <2>7. RowInv(q, B, s)
    BY <1>1, <1>2, <2>1, <2>2, <2>4, <2>5, <2>6 DEF RowInv
  <2> QED
    BY <1>0, <2>2, <2>4, <2>5, <2>7 DEF s
<1> QED
  BY <1>3, <1>4

(* A delivery keeps the tables and the projection together.                *)
LEMMA DeliverKeeps ==
  ASSUME InboxInv, NEW e \in Envelopes, Deliver(e)
  PROVE  InboxInv'
<1> DEFINE q == Reduce(proj, e).state
           disp == Reduce(proj, e).disp
           B == BufferAfter(proj, Reduce(proj, e), e)
           P == Promoted(proj, q)
           new == [env |-> e, disp |-> disp]
           After(r) == IF r.disp = "pending" /\ r.env.id \in P
                         THEN [r EXCEPT !.disp = PromotedTo(q, r.env.id)] ELSE r
<1>0. /\ WorldOK /\ ProjInv(proj) /\ FiledInv(proj) /\ OrderInv(proj)
      /\ StoreInv(proj, rows, tombstones, buffer)
      /\ e.id \in Ids /\ e # NoEnv
  BY EnvelopeShape DEF InboxInv, ProjInv
<1>1. /\ ~Known(e) /\ proj' = q /\ rows' = RowsAfter(proj, q) \cup {new} /\ buffer' = B
      /\ tombstones' = tombstones /\ cause' = cause /\ seq' = seq /\ refused' = refused
      /\ monotonic' = monotonic
  BY DEF Deliver, world
<1>2. Fresh(proj, e)
  BY <1>1, FreshWhenUnknown
<1>3. disp \in Dispositions /\ ProjInv(q) /\ Moves(proj, e, q, disp) /\ OrderInv(q)
  BY <1>0, <1>2, ReduceFresh
<1>4. B = (buffer \ P) \cup (IF disp = "pending" THEN {e.id} ELSE {})
  BY DEF BufferAfter
<1>5. RowsAfter(proj, q) = {After(r) : r \in rows}
  BY DEF RowsAfter
<1> HIDE DEF q, disp, B
<1>6. ~Received(proj, e.id) /\ ~IsPending(proj, e.id) /\ e.id \notin buffer
  BY <1>0, <1>2 DEF Fresh, StoreInv
<1>7. \A r \in rows \cup tombstones : r.env.id # e.id
  BY <1>1 DEF Known
<1>8. ASSUME NEW r \in rows \cup tombstones
      PROVE  /\ After(r) \in RowTypes /\ After(r).env = r.env /\ RowInv(q, B, After(r))
             /\ r \in tombstones => After(r) = r
  <2>1. B \cup {e.id} = (buffer \ P) \cup {e.id}
    BY <1>4
  <2> QED
    BY <1>3, <1>7, <2>1, RowFollows
<1> HIDE DEF After, P
<1>9. new \in RowTypes /\ RowInv(q, B, new)
  <2>1. new \in RowTypes /\ new.env = e /\ new.disp = disp
    BY <1>3 DEF RowTypes
  <2>2. e.id \in B <=> disp = "pending"
    BY <1>4, <1>6
  <2>3. /\ q.receipts[e.id] = IF disp = "pending" THEN NoEnv ELSE e
        /\ q.pending[e.id] = IF disp = "pending" THEN e ELSE NoEnv
        /\ e.id \in q.quarantine <=> disp = "rejected"
    BY <1>3 DEF Moves
  <2> HIDE DEF new
  <2> QED
    BY <1>0, <2>1, <2>2, <2>3 DEF RowInv, Received
<1> DEFINE R == RowsAfter(proj, q) \cup {new}
<1>10. \A s \in R \cup tombstones : s \in RowTypes /\ RowInv(q, B, s)
  <2> HIDE DEF new
  <2> QED
    BY <1>5, <1>8, <1>9
<1>11. ASSUME NEW i \in Ids, Received(q, i) \/ IsPending(q, i)
       PROVE  \E s \in R \cup tombstones : s.env.id = i
  <2>1. CASE i = e.id
    <3>1. new \in R /\ new.env.id = i
      BY <2>1
    <3> QED
      BY <3>1
  <2>2. CASE i # e.id
    <3>1. Received(proj, i) \/ IsPending(proj, i)
      BY <1>3, <1>11, <2>2 DEF Moves, Received, IsPending
    <3>2. PICK r \in rows \cup tombstones : r.env.id = i
      BY <1>0, <3>1 DEF StoreInv
    <3>3. After(r) \in R \cup tombstones /\ After(r).env.id = i
      BY <1>5, <1>8, <3>2
    <3> QED
      BY <3>3
  <2> QED
    BY <2>1, <2>2
<1>12. ASSUME NEW i \in B PROVE i \in Ids /\ IsPending(q, i)
  <2>1. CASE i \in buffer /\ i \notin P
    <3>1. i \in Ids /\ IsPending(proj, i) /\ i # e.id
      BY <1>0, <1>6, <2>1 DEF StoreInv
    <3>2. ~Received(q, i)
      BY <2>1, <3>1 DEF P, Promoted
    <3> QED
      BY <1>3, <3>1, <3>2 DEF Moves, IsPending, Received
  <2>2. CASE i = e.id /\ disp = "pending"
    BY <1>0, <1>3, <2>2 DEF Moves, IsPending
  <2> QED
    BY <1>4, <2>1, <2>2
<1>13. \A r \in tombstones : r.disp # "pending"
  BY <1>0 DEF StoreInv
<1> HIDE DEF R
<1>14. StoreInv(q, R, tombstones, B)
  BY <1>10, <1>11, <1>12, <1>13 DEF StoreInv
<1>15. StoreInv(proj, rows, tombstones, buffer)'
  BY <1>1, <1>14 DEF StoreInv, RowInv, Received, IsPending, R
<1>16. WorldOK'
  BY <1>0, <1>1 DEF WorldOK
<1>17. ProjInv(proj)'
  BY <1>1, <1>3 DEF ProjInv, FiledInv, KeyInv, LogInv, Received, IsPending
<1>18. OrderInv(proj)'
  BY <1>1, <1>3 DEF OrderInv, Plain, Sorted, Counts, IsPending
<1> QED
  BY <1>15, <1>16, <1>17, <1>18 DEF InboxInv

(* Retention moves rows; it keeps every row, and the pending ones in place. *)
LEMMA RetainKeeps ==
  ASSUME InboxInv, Retain
  PROVE  InboxInv' /\ (rows \cup tombstones)' = rows \cup tombstones
<1>1. PICK old \in SUBSET Retainable \ {{}} :
        /\ tombstones' = tombstones \cup old /\ rows' = rows \ old
        /\ UNCHANGED <<world, proj, buffer>>
  BY DEF Retain
<1>2. /\ cause' = cause /\ seq' = seq /\ refused' = refused /\ monotonic' = monotonic
      /\ proj' = proj /\ buffer' = buffer
  BY <1>1 DEF world
<1>3. \A r \in old : r \in rows /\ r.disp # "pending"
  BY <1>1 DEF Retainable
<1>4. rows' \cup tombstones' = rows \cup tombstones
  BY <1>1, <1>3
<1>5. StoreInv(proj, rows, tombstones, buffer)
  BY DEF InboxInv
<1>6. \A r \in tombstones' : r.disp # "pending"
  BY <1>1, <1>3, <1>5 DEF StoreInv
<1>7. StoreInv(proj, rows', tombstones', buffer)
  BY <1>4, <1>5, <1>6 DEF StoreInv
<1>8. StoreInv(proj, rows, tombstones, buffer)'
  BY <1>2, <1>7 DEF StoreInv, RowInv, Received, IsPending
<1>9. WorldOK'
  BY <1>2 DEF InboxInv, WorldOK
<1>10. ProjInv(proj)'
  BY <1>2 DEF InboxInv, ProjInv, FiledInv, KeyInv, LogInv, Received, IsPending
<1>11. OrderInv(proj)'
  BY <1>2 DEF InboxInv, OrderInv, Plain, Sorted, Counts, IsPending
<1> QED
  BY <1>4, <1>8, <1>9, <1>10, <1>11 DEF InboxInv

(* The empty store.                                                        *)
LEMMA InboxInit ==
  ASSUME Init PROVE InboxInv
<1>1. /\ WorldOK /\ proj = NoProj /\ rows = {} /\ tombstones = {} /\ buffer = {}
  BY InboxAssumption DEF Init, WorldOK
<1>2. /\ proj \in Projections
      /\ \A i \in Ids : ~Received(proj, i) /\ ~IsPending(proj, i) /\ proj.idem[i] = NoEnv
      /\ proj.quarantine = {} /\ proj.last = 0 /\ proj.log = <<>>
  BY <1>1 DEF NoProj, Projections, Received, IsPending
<1>3. ProjInv(proj)
  BY <1>2 DEF ProjInv, FiledInv, KeyInv, LogInv
<1>4. OrderInv(proj)
  BY <1>2 DEF OrderInv, Sorted
<1>5. StoreInv(proj, rows, tombstones, buffer)
  BY <1>1, <1>2 DEF StoreInv
<1> QED
  BY <1>1, <1>3, <1>4, <1>5 DEF InboxInv

(* Every step keeps the invariant.                                         *)
LEMMA InboxStep ==
  ASSUME InboxInv, [Next]_vars PROVE InboxInv'
<1>1. CASE Retain
  BY <1>1, RetainKeeps
<1>2. CASE \E e \in Envelopes : Deliver(e)
  BY <1>2, DeliverKeeps
<1>3. CASE UNCHANGED vars
  <2>1. /\ cause' = cause /\ seq' = seq /\ refused' = refused /\ monotonic' = monotonic
        /\ proj' = proj /\ rows' = rows /\ tombstones' = tombstones /\ buffer' = buffer
    BY <1>3 DEF vars, world
  <2>2. StoreInv(proj, rows, tombstones, buffer)'
    BY <2>1 DEF InboxInv, StoreInv, RowInv, Received, IsPending
  <2>3. WorldOK'
    BY <2>1 DEF InboxInv, WorldOK
  <2>4. ProjInv(proj)'
    BY <2>1 DEF InboxInv, ProjInv, FiledInv, KeyInv, LogInv, Received, IsPending
  <2>5. OrderInv(proj)'
    BY <2>1 DEF InboxInv, OrderInv, Plain, Sorted, Counts, IsPending
  <2> QED
    BY <2>2, <2>3, <2>4, <2>5 DEF InboxInv
<1> QED
  BY <1>1, <1>2, <1>3 DEF Next, Redeliver

(* The invariant holds throughout.                                         *)
LEMMA InboxInvariant == Spec => []InboxInv
<1>1. Init => InboxInv
  BY InboxInit
<1>2. InboxInv /\ [Next]_vars => InboxInv'
  BY InboxStep
<1> QED
  BY <1>1, <1>2, PTL DEF Spec

-----------------------------------------------------------------------------
(* The tables and the stored projection have their types, in particular    *)
(* whatever a replay builds is a projection again.                         *)
THEOREM InboxTypeCorrect == Spec => []TypeOK
<1>1. InboxInv => TypeOK
  BY DEF InboxInv, WorldOK, ProjInv, StoreInv, RowTypes, TypeOK
<1> QED
  BY <1>1, InboxInvariant, PTL

(* After every transaction of AcceptAndProject and of Retain the receipts, *)
(* the tombstones and pending_events say of every event what the reducer's *)
(* projection says of it.                                                  *)
THEOREM TablesMatchProjection == Spec => []StoreMatchesProjection
<1>1. ASSUME InboxInv PROVE StoreMatchesProjection
  <2>0. StoreInv(proj, rows, tombstones, buffer)
    BY <1>1 DEF InboxInv
  <2>1. ASSUME NEW i \in Ids, Received(proj, i) \/ IsPending(proj, i)
        PROVE  Known([id |-> i, key |-> i])
    <3>1. PICK r \in rows \cup tombstones : r.env.id = i
      BY <2>0, <2>1 DEF StoreInv
    <3> QED
      BY <3>1 DEF Known
  <2>2. ASSUME NEW r \in rows \cup tombstones PROVE RowInv(proj, buffer, r)
    BY <2>0 DEF StoreInv
  <2> QED
    BY <2>1, <2>2 DEF StoreMatchesProjection, RowInv
<1> QED
  BY <1>1, InboxInvariant, PTL

(* Whatever event is delivered next, AcceptAndProject does not roll back   *)
(* over a row it cannot promote or an answer App.project cannot map.       *)
THEOREM InboxNeverWedged == Spec => []NeverWedged
<1>1. InboxInv => NeverWedged
  BY NotWedged DEF NeverWedged
<1> QED
  BY <1>1, InboxInvariant, PTL

(* Reduce and its replay loop apply each event once, after its cause.      *)
THEOREM AppliedOnceAfterCause == Spec => []OnceAndAfterItsCause
<1>1. ASSUME InboxInv PROVE OnceAndAfterItsCause
  <2>0. /\ LogInv(proj) /\ proj.log \in Seq(Ids)
    BY <1>1 DEF InboxInv, ProjInv, Projections
  <2>1. DOMAIN proj.log = 1 .. Len(proj.log)
    BY <2>0
  <2>2. IsInjective(proj.log)
    BY <2>0, <2>1 DEF LogInv, IsInjective
  <2>3. ASSUME NEW n \in DOMAIN proj.log
        PROVE  cause[proj.log[n]] \in {NoCause} \cup {proj.log[m] : m \in 1 .. n - 1}
    BY <2>0, <2>1 DEF LogInv
  <2> QED
    BY <2>2, <2>3 DEF OnceAndAfterItsCause
<1> QED
  BY <1>1, InboxInvariant, PTL

(* In a monotonic session without causes Late, Gap and the replay keep the *)
(* accepted events in the order of their numbers.                          *)
THEOREM StreamInOrder == Spec => []StreamOrder
<1>1. ASSUME InboxInv PROVE StreamOrder
  <2>0. OrderInv(proj) /\ proj.log \in Seq(Ids)
    BY <1>1 DEF InboxInv, ProjInv, Projections
  <2>1. DOMAIN proj.log = 1 .. Len(proj.log)
    BY <2>0
  <2> SUFFICES ASSUME Plain(proj), NEW m \in DOMAIN proj.log, NEW n \in DOMAIN proj.log, m < n,
                      NoSeq \notin {seq[proj.log[m]], seq[proj.log[n]]},
                      {proj.log[m], proj.log[n]} \cap proj.quarantine = {}
               PROVE  seq[proj.log[m]] <= seq[proj.log[n]]
    BY DEF StreamOrder, SessionMonotonic, Plain
  <2>2. Counts(proj, m) /\ Counts(proj, n)
    BY DEF Counts
  <2> QED
    BY <2>0, <2>1, <2>2 DEF OrderInv, Sorted
<1> QED
  BY <1>1, InboxInvariant, PTL

(* The loop of Reduce has ended by itself whenever an event was accepted:  *)
(* one more pass over the buffer would change nothing.  N passes are       *)
(* therefore the loop of the code, which stops at a pass without progress. *)
THEOREM ReplayRunsToItsEnd ==
  Spec => [](\A e \in Envelopes : ~Known(e) =>
               LET out == Reduce(proj, e)
               IN out.disp = "accepted" => ReplayPass(out.state, e.id) = out.state)
<1> DEFINE Done(e) == LET out == Reduce(proj, e)
                      IN out.disp = "accepted" => ReplayPass(out.state, e.id) = out.state
<1>1. ASSUME InboxInv, NEW e \in Envelopes, ~Known(e) PROVE Done(e)
  <2>0. WorldOK /\ ProjInv(proj) /\ proj \in Projections /\ e.id \in Ids /\ e # NoEnv
    BY <1>1, EnvelopeShape DEF InboxInv, ProjInv
  <2>1. Fresh(proj, e)
    BY <1>1, FreshWhenUnknown
  <2> SUFFICES ASSUME Reduce(proj, e).disp = "accepted"
               PROVE  ReplayPass(Reduce(proj, e).state, e.id) = Reduce(proj, e).state
    OBVIOUS
  <2>2. Reduce(proj, e) = Result(Replay(Accept(proj, e), e.id), "accepted")
        /\ ~CauseMissing(proj, e.id)
    BY <2>1, ReduceCases DEF Result
  <2> DEFINE a == Accept(proj, e)
             q == Replay(a, e.id)
  <2>3. Answers(proj, e, a) /\ a.quarantine = proj.quarantine
    BY <2>0, AcceptShape
  <2> HIDE DEF a
  <2>4. ProjInv(a) /\ ~IsPending(a, e.id) /\ a.log # <<>>
    <3>1. ~Received(proj, e.id) /\ ~IsPending(proj, e.id)
      BY <2>1 DEF Fresh
    <3>2. a.pending = proj.pending /\ a.log = Append(proj.log, e.id) /\ proj.log \in Seq(Ids)
      BY <2>0, <2>3 DEF Answers, Projections
    <3>3. a.log # <<>>
      BY <2>0, <3>2
    <3> QED
      BY <2>0, <2>2, <2>3, <3>1, <3>2, <3>3, AnswerKeeps DEF IsPending
  <2>5. ProjInv(q) /\ Settled(q, e.id) /\ q.log # <<>>
    BY <2>0, <2>4, ReplayResult DEF Headed
  <2>6. Reduce(proj, e).state = q
    BY <2>2 DEF Result, a
  <2> HIDE DEF q
  <2>7. ReplayPass(q, e.id) = q
    BY <2>0, <2>5, PassResult
  <2> QED
    BY <2>6, <2>7
<1>2. InboxInv => \A e \in Envelopes : ~Known(e) => Done(e)
  BY <1>1
<1> QED
  BY <1>2, InboxInvariant, PTL

(* Neither a later delivery nor retention drops the record of an event or  *)
(* changes an answer other than "pending".                                 *)
THEOREM AnswersAreFinal == Spec => AnswerIsFinal
<1> DEFINE Kept == \A r \in rows \cup tombstones : \E s \in (rows \cup tombstones)' :
                      s.env = r.env /\ (s = r \/ r.disp = "pending")
<1>1. ASSUME InboxInv, [Next]_vars PROVE [Kept]_vars
  <2>1. CASE Retain
    <3>1. (rows \cup tombstones)' = rows \cup tombstones
      BY <1>1, <2>1, RetainKeeps
    <3> QED
      BY <3>1
  <2>2. ASSUME NEW e \in Envelopes, Deliver(e) PROVE Kept
    <3> DEFINE q == Reduce(proj, e).state
    <3>1. /\ rows' = RowsAfter(proj, q) \cup {[env |-> e, disp |-> Reduce(proj, e).disp]}
          /\ tombstones' = tombstones
      BY <2>2 DEF Deliver
    <3> HIDE DEF q
    <3>2. rows \subseteq RowTypes
      BY <1>1 DEF InboxInv, StoreInv
    <3>3. ASSUME NEW r \in rows
          PROVE  \E s \in RowsAfter(proj, q) : s.env = r.env /\ (s = r \/ r.disp = "pending")
      <4> DEFINE t == IF r.disp = "pending" /\ r.env.id \in Promoted(proj, q)
                        THEN [r EXCEPT !.disp = PromotedTo(q, r.env.id)] ELSE r
      <4>1. t \in RowsAfter(proj, q)
        BY DEF RowsAfter
      <4>2. t.env = r.env /\ (t = r \/ r.disp = "pending")
        BY <3>2 DEF RowTypes
      <4> QED
        BY <4>1, <4>2
    <3> QED
      BY <3>1, <3>3
  <2>3. CASE UNCHANGED vars
    BY <2>3
  <2> QED
    BY <1>1, <2>1, <2>2, <2>3 DEF Next, Redeliver
<1> QED
  BY <1>1, InboxInvariant, PTL DEF Spec, AnswerIsFinal

(* An accepted event takes the buffered events it caused with it.          *)
THEOREM DependantsFollowTheirCause == Spec => DependantsReplayed
<1> DEFINE Follow == \A i, d \in Ids :
             /\ IsPending(proj, i) /\ cause[i] = d /\ ~Sequenced(proj', i)
             /\ ~Received(proj, d) /\ ~IsPending(proj, d)
             /\ Received(proj', d) /\ d \notin proj'.quarantine
             => Received(proj', i)
<1>1. ASSUME InboxInv, [Next]_vars PROVE [Follow]_vars
  <2>1. CASE proj' = proj
    BY <2>1
  <2>2. ASSUME NEW e \in Envelopes, Deliver(e) PROVE Follow
    <3> DEFINE q == Reduce(proj, e).state
               disp == Reduce(proj, e).disp
    <3>0. WorldOK /\ ProjInv(proj) /\ Fresh(proj, e) /\ proj' = q
      BY <1>1, <2>2, FreshWhenUnknown DEF InboxInv, Deliver
    <3>1. /\ disp \in Dispositions /\ Moves(proj, e, q, disp)
          /\ disp = "accepted" =>
               \A i \in Ids : IsPending(proj, i) /\ cause[i] = e.id /\ ~Sequenced(q, i)
                 => Received(q, i)
      BY <3>0, ReduceFresh
    <3> HIDE DEF q, disp
    <3>2. ASSUME NEW i \in Ids, NEW d \in Ids,
                 IsPending(proj, i), cause[i] = d, ~Sequenced(q, i),
                 ~Received(proj, d), ~IsPending(proj, d), Received(q, d), d \notin q.quarantine
          PROVE  Received(q, i)
      <4>1. d = e.id
        BY <3>1, <3>2 DEF Moves, Received
      <4>2. disp = "accepted"
        BY <3>1, <3>2, <4>1 DEF Moves, Received, Dispositions
      <4> QED
        BY <3>1, <3>2, <4>1, <4>2
    <3> QED
      BY <3>0, <3>2
  <2> QED
    BY <1>1, <2>1, <2>2 DEF Next, Redeliver, Retain, vars
<1> QED
  BY <1>1, InboxInvariant, PTL DEF Spec, DependantsReplayed
=============================================================================
