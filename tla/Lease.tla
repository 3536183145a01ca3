------------------------------- MODULE Lease -------------------------------
(***************************************************************************)
(* The durable writer lease: one row of the `leases` table                 *)
(* (internal/state/state.go) behind coordinator.StateLease.                *)
(*                                                                         *)
(* A process reads the wall clock, then runs one immediate SQLite          *)
(* transaction that refuses an unexpired row, whoever owns it, and         *)
(* otherwise overwrites it.  Nothing renews a row.  Release deletes the    *)
(* row only when its owner column still holds the caller's owner string.   *)
(* The owner string is not the process: production passes the operation    *)
(* id, so OwnerOf may map two processes to one owner.                      *)
(***************************************************************************)
EXTENDS Integers

CONSTANTS Proc,     \* processes that contend for the lease key
          Owner,    \* owner strings
          OwnerOf,  \* the owner string each process passes
          NoRow,    \* the lease row is absent
          TTL,      \* lifetime of a granted lease, in clock ticks
          MaxTime   \* bound on the clock

ASSUME LeaseAssumption ==
  /\ OwnerOf \in [Proc -> Owner]
  /\ TTL \in Nat \ {0}
  /\ MaxTime \in Nat
  /\ NoRow \notin [owner : Owner, expiresAt : Nat]

VARIABLES now,      \* the wall clock all processes read
          row,      \* the leases row of the key
          pc,       \* where each process is
          readAt,   \* the clock value a process read before its transaction
          deadline  \* expires_at of the lease the process was granted

leaseVars == <<now, row, pc, readAt, deadline>>

Rows == [owner : Owner, expiresAt : Nat]

LeaseTypeOK ==
  /\ now \in Nat
  /\ row \in Rows \cup {NoRow}
  /\ pc \in [Proc -> {"idle", "acquire", "held"}]
  /\ readAt \in [Proc -> Nat]
  /\ deadline \in [Proc -> Nat]

LeaseInit ==
  /\ now = 0
  /\ row = NoRow
  /\ pc = [p \in Proc |-> "idle"]
  /\ readAt = [p \in Proc |-> 0]
  /\ deadline = [p \in Proc |-> 0]

-----------------------------------------------------------------------------
(* StateLease.Acquire samples the clock before it enters the store.        *)
ReadClock(p) ==
  /\ pc[p] = "idle"
  /\ pc' = [pc EXCEPT ![p] = "acquire"]
  /\ readAt' = [readAt EXCEPT ![p] = now]
  /\ UNCHANGED <<now, row, deadline>>

(* A mutant of HeldAt: the row is taken for expired one tick too early.    *)
HeldAtTooShort(t) == row # NoRow /\ row.expiresAt > t + 1

(* The stored row refuses an acquisition judged at clock value t.          *)
HeldAt(t) == row # NoRow /\ row.expiresAt > t

(* Store.AcquireLease: one immediate transaction.                          *)
AcquireLease(p) ==
  /\ pc[p] = "acquire"
  /\ ~HeldAt(readAt[p])
  /\ row' = [owner |-> OwnerOf[p], expiresAt |-> readAt[p] + TTL]
  /\ deadline' = [deadline EXCEPT ![p] = readAt[p] + TTL]
  /\ pc' = [pc EXCEPT ![p] = "held"]
  /\ readAt' = [readAt EXCEPT ![p] = 0]
  /\ UNCHANGED now

(* The process is back outside; its clock reading and deadline are gone.   *)
Leave(p) ==
  /\ pc' = [pc EXCEPT ![p] = "idle"]
  /\ readAt' = [readAt EXCEPT ![p] = 0]
  /\ deadline' = [deadline EXCEPT ![p] = 0]

(* "lease held": the caller gets an error and leaves.                      *)
LeaseHeld(p) ==
  /\ pc[p] = "acquire"
  /\ HeldAt(readAt[p])
  /\ Leave(p)
  /\ UNCHANGED <<now, row>>

(* A mutant of RowReleasedBy: DELETE without the owner condition.          *)
RowDeletedBy(o) == NoRow

(* The row that a release by owner o leaves behind.                        *)
RowReleasedBy(o) == IF row # NoRow /\ row.owner = o THEN NoRow ELSE row

(* Store.ReleaseLeaseContext, deferred to the end of the critical section. *)
ReleaseLease(p) ==
  /\ pc[p] = "held"
  /\ row' = RowReleasedBy(OwnerOf[p])
  /\ Leave(p)
  /\ UNCHANGED now

(* The process dies, or its release fails (a cancelled context): the row   *)
(* stays until it expires.                                                 *)
Abandon(p) ==
  /\ pc[p] # "idle"
  /\ Leave(p)
  /\ UNCHANGED <<now, row>>

Tick ==
  /\ now < MaxTime
  /\ now' = now + 1
  /\ UNCHANGED <<row, pc, readAt, deadline>>

LeaseNext ==
  \/ \E p \in Proc :
       ReadClock(p) \/ AcquireLease(p) \/ LeaseHeld(p) \/ ReleaseLease(p) \/ Abandon(p)
  \/ Tick

LeaseSpec == LeaseInit /\ [][LeaseNext]_leaseVars

-----------------------------------------------------------------------------
(* p is inside the section and its own lease has not run out.              *)
HoldsUnexpired(p) == pc[p] = "held" /\ deadline[p] > now

(* Every process passes an owner string of its own.                        *)
OwnersDistinct == \A p, q \in Proc : OwnerOf[p] = OwnerOf[q] => p = q

(* Two processes are never inside the section with unexpired leases: what  *)
(* docs/lifecycle.md promises ("Git mutations serialize ... under a        *)
(* durable lease") for holders that finish within their TTL.  It needs     *)
(* AcquireLease's expiry test and ReleaseLease's owner test together.      *)
LeaseExclusion ==
  \A p, q \in Proc : HoldsUnexpired(p) /\ HoldsUnexpired(q) => p = q

(* No step removes or replaces a row that has not expired, except the      *)
(* release by a process inside the section that is the row's owner.        *)
RowTakenOnlyWhenExpired ==
  [][ (row # NoRow /\ row' # row /\ row.expiresAt > now)
        => \E p \in Proc : /\ pc[p] = "held" /\ pc'[p] = "idle"
                           /\ row.owner = OwnerOf[p]
                           /\ row' = NoRow ]_leaseVars
=============================================================================
