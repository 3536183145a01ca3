------------------------------ MODULE MCLease ------------------------------
(* Lease for TLC: three processes with owner strings of their own contend   *)
(* for one lease key.                                                       *)
EXTENDS Lease, TLC

CONSTANTS p1, p2, p3, o1, o2, o3

OwnOwner == p1 :> o1 @@ p2 :> o2 @@ p3 :> o3
=============================================================================
