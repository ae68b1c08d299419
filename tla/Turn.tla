-------------------------------- MODULE Turn --------------------------------
(***************************************************************************)
(* What a serialized accept promises: of the processes that share a lock   *)
(* one at a time has the turn.  A turn ends before the next one begins.    *)
(***************************************************************************)
CONSTANTS Procs, Locks
VARIABLE owner   \* per lock: the set of processes that have the turn

Init == owner = [l \in Locks |-> {}]

Take(l) ==
  /\ owner[l] = {}
  /\ \E p \in Procs : owner' = [owner EXCEPT ![l] = {p}]

Give(l) ==
  /\ owner[l] # {}
  /\ owner' = [owner EXCEPT ![l] = {}]

Next == \E l \in Locks : Take(l) \/ Give(l)

Spec == Init /\ [][Next]_owner
=============================================================================
