-------------------------- MODULE AcceptLockProofs --------------------------
(***************************************************************************)
(* Proofs about AcceptLock, for every set of children, each of the three   *)
(* ways to serialize, and any number of restarts.  A step of a child is    *)
(* seen from the locks: it takes the turn of one (Taken), gives it back or *)
(* drops it (Left), or leaves all of them alone (Quiet).                   *)
(***************************************************************************)
EXTENDS AcceptLock, TLAPS

\* Per lock the turn is in one place at most: to be had, or with one child.
TurnOnce ==
  \A l \in Locks : /\ free[l] \in {0, 1}
                   /\ free[l] = 1 => Holders(l) = {}
                   /\ \A p, q \in Holders(l) : p = q

IInv == TypeOK /\ TurnOnce /\ TurnNotLost

HoldersNow == [l \in Locks |-> Holders(l)]

\* What a step does to the holders and to the turns.
Quiet == free' = free /\ \A l \in Locks : Holders(l)' = Holders(l)

Taken(p, k) ==
  /\ free[k] > 0 /\ free' = [free EXCEPT ![k] = @ - 1]
  /\ \A l \in Locks : Holders(l)' = IF l = k THEN Holders(l) \cup {p} ELSE Holders(l)

Left(p, k) ==
  /\ p \in Holders(k)
  /\ free' = [free EXCEPT ![k] = @ + 1] \/ (Serialize = "pipe" /\ free' = free)
  /\ \A l \in Locks : Holders(l)' = IF l = k THEN Holders(l) \ {p} ELSE Holders(l)

\* The lock of every incarnation is one of Locks.
LEMMA LockType == ASSUME NEW a \in Ages PROVE Lock(a) \in Locks
<1>1. 0 \in Locks
  BY RestartsAssumption DEF Locks, Ages
<1> QED
  BY <1>1 DEF Lock, Locks

\* Steps that leave the locks alone keep the invariant.
LEMMA QuietKeeps == IInv /\ TypeOK' /\ Quiet => IInv'
BY DEF IInv, TurnOnce, TurnNotLost, Quiet

\* A turn that was to be had is taken by one child.
LEMMA TakenKeeps ==
  ASSUME IInv, TypeOK', NEW p \in Pids, NEW k \in Locks, Taken(p, k)
  PROVE  IInv'
<1>1. /\ free[k] = 1 /\ Holders(k) = {} /\ free'[k] = 0 /\ Holders(k)' = {p}
  BY DEF IInv, TurnOnce, TypeOK, Taken
<1>2. \A l \in Locks : l # k => free'[l] = free[l] /\ Holders(l)' = Holders(l)
  BY DEF IInv, TypeOK, Taken
<1>3. TurnOnce'
  BY <1>1, <1>2 DEF IInv, TurnOnce
<1>4. TurnNotLost'
  BY <1>1, <1>2 DEF IInv, TurnNotLost
<1> QED
  BY <1>3, <1>4 DEF IInv

\* A child that gives its turn back, or ends with it, leaves nobody at the lock,
\* and the turn is to be had again, unless it was a line in a pipe.
LEMMA LeftKeeps ==
  ASSUME IInv, TypeOK', NEW p \in Pids, NEW k \in Locks, Left(p, k)
  PROVE  IInv'
<1>1. free[k] = 0 /\ Holders(k) = {p} /\ Holders(k)' = {}
  BY DEF IInv, TurnOnce, Left
<1>2. free'[k] = 1 \/ (Serialize = "pipe" /\ free'[k] = 0)
  BY <1>1 DEF IInv, TypeOK, Left
<1>3. \A l \in Locks : l # k => free'[l] = free[l] /\ Holders(l)' = Holders(l)
  BY DEF IInv, TypeOK, Left
<1>4. TurnOnce'
  BY <1>1, <1>2, <1>3 DEF IInv, TurnOnce
<1>5. TurnNotLost'
  BY <1>1, <1>2, <1>3 DEF IInv, TurnNotLost
<1> QED
  BY <1>4, <1>5 DEF IInv

\* Each step keeps the types.
LEMMA TypeStep == TypeOK /\ [Next]_vars => TypeOK'
<1> SUFFICES ASSUME TypeOK, [Next]_vars PROVE TypeOK'
  OBVIOUS
<1> USE RestartsAssumption DEF TypeOK, Ages, Children, Selecting
<1>1. CASE Restart
  BY <1>1 DEF Restart, Send
<1>2. CASE Close
  BY <1>2 DEF Close, Send
<1>3. ASSUME NEW p \in Pids, Fork(p) PROVE TypeOK'
  BY <1>3 DEF Fork
<1>4. ASSUME NEW p \in Pids, Child(p) PROVE TypeOK'
  <2> DEFINE k == Lock(born[p])
  <2>0. k \in Locks
    BY LockType
  <2> HIDE DEF k
  <2>1. CASE RunChild(p)
    BY <2>1 DEF RunChild
  <2>2. CASE CannotOpen(p)
    BY <2>2 DEF CannotOpen
  <2>3. CASE TakeTurn(p)
    BY <2>0, <2>3 DEF TakeTurn, k
  <2>4. CASE Accepted(p)
    BY <2>4 DEF Accepted
  <2>5. CASE AcceptFails(p)
    BY <2>5 DEF AcceptFails
  <2>6. CASE GiveTurn(p)
    BY <2>0, <2>6 DEF GiveTurn, k
  <2>7. CASE NextClient(p)
    BY <2>7 DEF NextClient
  <2>8. CASE Dies(p)
    BY <2>0, <2>8 DEF Dies, Relinquished, k
  <2> QED
    BY <1>4, <2>1, <2>2, <2>3, <2>4, <2>5, <2>6, <2>7, <2>8 DEF Child
<1>5. CASE UNCHANGED vars
  BY <1>5 DEF vars
<1> QED
  BY <1>1, <1>2, <1>3, <1>4, <1>5 DEF Next, Terminated

\* Steps of the parent do not touch the locks: it forks under a pid that nobody has.
LEMMA ParentIsQuiet ==
  ASSUME TypeOK, Restart \/ Close \/ UNCHANGED vars \/ \E p \in Pids : Fork(p)
  PROVE  Quiet
<1>1. CASE Restart \/ Close \/ UNCHANGED vars
  BY <1>1 DEF Restart, Close, vars, Quiet, Holders
<1>2. ASSUME NEW p \in Pids, Fork(p) PROVE Quiet
  BY <1>2 DEF Fork, Quiet, Holders, TypeOK, Selecting
<1> QED
  BY <1>1, <1>2

\* Each step of a child concerns the turn of its own lock at most.
LEMMA ChildMoves ==
  ASSUME TypeOK, NEW p \in Pids, Child(p)
  PROVE  Quiet \/ Taken(p, Lock(born[p])) \/ Left(p, Lock(born[p]))
<1> DEFINE k == Lock(born[p])
<1>0. k \in Locks
  BY LockType DEF TypeOK
<1>1. CASE RunChild(p) \/ CannotOpen(p) \/ Accepted(p) \/ AcceptFails(p) \/ NextClient(p)
  <2>1. /\ free' = free /\ born' = born
        /\ \A q \in Pids : pc'[q] \in Selecting <=> pc[q] \in Selecting
    BY <1>1 DEF RunChild, CannotOpen, Accepted, AcceptFails, NextClient, TypeOK, Selecting
  <2>2. \A l \in Locks : Holders(l)' = Holders(l)
    BY <2>1 DEF Holders
  <2> QED
    BY <2>1, <2>2 DEF Quiet
<1>2. CASE TakeTurn(p)
  <2>1. born' = born /\ pc'[p] \in Selecting /\ \A q \in Pids : q # p => pc'[q] = pc[q]
    BY <1>2 DEF TakeTurn, TypeOK, Selecting
  <2>2. \A l \in Locks : Holders(l)' = IF l = k THEN Holders(l) \cup {p} ELSE Holders(l)
    BY <2>1, <1>2 DEF Holders, TakeTurn, Selecting
  <2> QED
    BY <1>2, <2>2 DEF TakeTurn, Taken
<1>3. CASE GiveTurn(p)
  <2>1. born' = born /\ pc'[p] \notin Selecting /\ \A q \in Pids : q # p => pc'[q] = pc[q]
    BY <1>3 DEF GiveTurn, TypeOK, Selecting
  <2>2. \A l \in Locks : Holders(l)' = IF l = k THEN Holders(l) \ {p} ELSE Holders(l)
    BY <2>1 DEF Holders
  <2>3. p \in Holders(k)
    BY <1>3 DEF Holders, GiveTurn, Selecting
  <2> QED
    BY <1>3, <2>2, <2>3 DEF GiveTurn, Left
<1>4. CASE Dies(p)
  <2>1. born' = born /\ pc'[p] \notin Selecting /\ \A q \in Pids : q # p => pc'[q] = pc[q]
    BY <1>4 DEF Dies, TypeOK, Selecting
  <2>2. \A l \in Locks : Holders(l)' = IF l = k THEN Holders(l) \ {p} ELSE Holders(l)
    BY <2>1 DEF Holders
  <2>3. CASE pc[p] \in Selecting
    <3>1. p \in Holders(k)
      BY <2>3 DEF Holders
    <3> QED
      BY <1>4, <2>2, <2>3, <3>1 DEF Dies, Relinquished, Left
  <2>4. CASE pc[p] \notin Selecting
    <3>1. \A l \in Locks : p \notin Holders(l)
      BY <2>4 DEF Holders
    <3> QED
      BY <1>4, <2>2, <2>4, <3>1 DEF Dies, Relinquished, Quiet
  <2> QED
    BY <2>3, <2>4
<1> QED
  BY <1>1, <1>2, <1>3, <1>4 DEF Child

\* The invariant holds when post_bind has set the lock up.
LEMMA InitInv == Init => IInv
<1> SUFFICES ASSUME Init PROVE IInv
  OBVIOUS
<1>1. TypeOK
  BY RestartsAssumption DEF Init, TypeOK, Ages, Locks
<1>2. \A l \in Locks : free[l] = 1 /\ Holders(l) = {}
  BY DEF Init, Holders, Selecting
<1> QED
  BY <1>1, <1>2 DEF IInv, TurnOnce, TurnNotLost

\* Every step keeps the invariant.
LEMMA StepInv == IInv /\ [Next]_vars => IInv'
<1> SUFFICES ASSUME IInv, [Next]_vars PROVE IInv'
  OBVIOUS
<1>1. TypeOK /\ TypeOK'
  BY TypeStep DEF IInv
<1>2. CASE Restart \/ Close \/ UNCHANGED vars \/ \E p \in Pids : Fork(p)
  BY <1>1, <1>2, ParentIsQuiet, QuietKeeps
<1>3. ASSUME NEW p \in Pids, Child(p) PROVE IInv'
  <2>1. Lock(born[p]) \in Locks
    BY <1>1, LockType DEF TypeOK
  <2> QED
    BY <1>1, <1>3, <2>1, ChildMoves, QuietKeeps, TakenKeeps, LeftKeeps
<1> QED
  BY <1>2, <1>3 DEF Next, Terminated

\* The inductive invariant: types, one place for the turn of each lock, and no
\* turn lost.
THEOREM Invariant == Spec => []IInv
BY InitInv, StepInv, PTL DEF Spec

\* Every variable keeps its type.
THEOREM TypeCorrect == Spec => []TypeOK
<1>1. IInv => TypeOK
  BY DEF IInv
<1> QED
  BY <1>1, Invariant, PTL

\* Mutual exclusion per lock (PreForkSimple::accept): of the children that share
\* a lock one at a time is in SUPER::accept.
THEOREM MutualExclusion == Spec => []OnePerLock
<1>1. IInv => OnePerLock
  BY DEF IInv, TurnOnce, OnePerLock
<1> QED
  BY <1>1, Invariant, PTL

\* With flock and SEM_UNDO the turn outlives every death and every failed accept.
THEOREM TurnSurvives == Spec => []TurnNotLost
<1>1. IInv => TurnNotLost
  BY DEF IInv
<1> QED
  BY <1>1, Invariant, PTL

\* With a configured lock file one process selects at a time across restarts, too,
\* as the comment on accept has it.
THEOREM OneSelectsWithLockFile ==
  ASSUME Serialize = "flock", LockFile
  PROVE  Spec => []OneSelects
<1>1. IInv => OneSelects
  <2> SUFFICES ASSUME IInv, NEW p \in Pids, NEW q \in Pids,
                      pc[p] \in Selecting, pc[q] \in Selecting
               PROVE  p = q
    BY DEF OneSelects
  <2>1. 0 \in Locks
    BY RestartsAssumption DEF Locks, Ages
  <2>2. p \in Holders(0) /\ q \in Holders(0)
    BY DEF Holders, Lock
  <2> QED
    BY <2>1, <2>2 DEF IInv, TurnOnce
<1> QED
  BY <1>1, Invariant, PTL

\* The locks implement the abstract turn: each step takes or gives the turn of one
\* lock, or leaves all turns where they are.
THEOREM Implements == Spec => ImplementsTurn
<1>1. Init => T!Init
  BY DEF Init, T!Init, Holders, Selecting
<1>2. IInv /\ [Next]_vars => [T!Next]_HoldersNow
  <2> SUFFICES ASSUME IInv, [Next]_vars PROVE T!Next \/ UNCHANGED HoldersNow
    OBVIOUS
  <2>0. TypeOK
    BY DEF IInv
  <2>1. Quiet => UNCHANGED HoldersNow
    BY DEF Quiet, HoldersNow
  <2>2. CASE Restart \/ Close \/ UNCHANGED vars \/ \E p \in Pids : Fork(p)
    BY <2>0, <2>1, <2>2, ParentIsQuiet
  <2>3. ASSUME NEW p \in Pids, Child(p) PROVE T!Next \/ UNCHANGED HoldersNow
    <3>1. PICK k \in Locks : k = Lock(born[p])
      BY <2>0, LockType DEF TypeOK
    <3>2. CASE Taken(p, k)
      <4>1. Holders(k) = {} /\ Holders(k)' = {p}
        BY <3>1, <3>2 DEF IInv, TypeOK, TurnOnce, Taken
      <4>2. HoldersNow' = [HoldersNow EXCEPT ![k] = {p}]
        BY <3>1, <3>2, <4>1 DEF Taken, HoldersNow
      <4>3. T!Take(k)
        BY <3>1, <4>1, <4>2 DEF T!Take, HoldersNow
      <4> QED
        BY <3>1, <4>3 DEF T!Next
    <3>3. CASE Left(p, k)
      <4>1. Holders(k) = {p} /\ Holders(k)' = {}
        BY <3>1, <3>3 DEF IInv, TurnOnce, Left
      <4>2. HoldersNow' = [HoldersNow EXCEPT ![k] = {}]
        BY <3>1, <3>3, <4>1 DEF Left, HoldersNow
      <4>3. T!Give(k)
        BY <3>1, <4>1, <4>2 DEF T!Give, HoldersNow
      <4> QED
        BY <3>1, <4>3 DEF T!Next
    <3> QED
      BY <2>0, <2>1, <2>3, <3>1, <3>2, <3>3, ChildMoves
  <2> QED
    BY <2>2, <2>3 DEF Next, Terminated
<1> QED
  BY <1>1, <1>2, Invariant, PTL DEF Spec, ImplementsTurn, T!Spec, HoldersNow
=============================================================================
