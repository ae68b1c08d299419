------------------------- MODULE PreForkSimpleProofs -------------------------
(***************************************************************************)
(* Proofs about PreForkSimple, for every set of pids and every setting.    *)
(* What the parent of one life forks is in its table (OursTracked), hence  *)
(* what its table shows bounds what it has running (OursBounded).  Where a *)
(* restart leaves the children and nobody is sent TERM, every child that   *)
(* takes clients is in the table of the life that is on (AllTracked).      *)
(***************************************************************************)
EXTENDS PreForkSimple, FiniteSetTheorems, TLAPS

OurServers == {p \in Ours : pc[p] \in Servers}
OurDequeue == {p \in Ours : pc[p] = "dequeue"}

\* Counting the initial children that are still to come.
Counted ==
  /\ Cardinality(OurServers) + left <= Max
  /\ Cardinality(OurDequeue) <= MaxDequeue

\* Initial children are forked before the loop only.
LeftInStart == phase # "start" => left = 0

\* After an exec all children are those of the former life.
BootIsClean == phase = "boot" => OurServers = {} /\ OurDequeue = {}

IInv == TypeOK /\ OursTracked /\ Counted /\ LeftInStart /\ BootIsClean

-----------------------------------------------------------------------------
\* Sets of pids are finite, and the numbers of the invariant are numbers.
LEMMA Finite ==
  ASSUME NEW S \in SUBSET Pids
  PROVE  IsFiniteSet(S) /\ Cardinality(S) \in Nat
BY PidsAssumption, FS_Subset, FS_CardinalityType

\* A smaller set of pids has no more elements.
LEMMA Fewer ==
  ASSUME NEW S \in SUBSET Pids, NEW R \in SUBSET S
  PROVE  Cardinality(R) <= Cardinality(S)
BY Finite, FS_Subset

\* Adding pids adds at most their number.
LEMMA Added ==
  ASSUME NEW S \in SUBSET Pids, NEW R \in SUBSET Pids
  PROVE  Cardinality(S \cup R) <= Cardinality(S) + Cardinality(R)
<1>1. Cardinality(S \cup R) = Cardinality(S) + Cardinality(R) - Cardinality(S \cap R)
  BY Finite, FS_Union
<1>2. /\ Cardinality(S) \in Nat /\ Cardinality(R) \in Nat /\ Cardinality(S \cap R) \in Nat
      /\ Cardinality(S \cup R) \in Nat
  BY Finite
<1> QED
  BY <1>1, <1>2

\* Our children are pids.
LEMMA OursArePids == OurServers \in SUBSET Pids /\ OurDequeue \in SUBSET Pids
BY DEF OurServers, OurDequeue, Ours

\* A step after which no child is ours that was not before keeps the count.
LEMMA ShrinkCounted ==
  ASSUME TypeOK, Counted, OurServers' \subseteq OurServers, OurDequeue' \subseteq OurDequeue,
         left' <= left, left' \in Nat
  PROVE  Counted'
<1>1. /\ Cardinality(OurServers') <= Cardinality(OurServers)
      /\ Cardinality(OurDequeue') <= Cardinality(OurDequeue)
  BY Fewer, OursArePids
<1>2. /\ Cardinality(OurServers) \in Nat /\ Cardinality(OurDequeue) \in Nat
      /\ Cardinality(OurServers') \in Nat /\ Cardinality(OurDequeue') \in Nat
  <2>1. OurServers' \in SUBSET Pids /\ OurDequeue' \in SUBSET Pids
    BY OursArePids
  <2> QED
    BY <2>1, Finite, OursArePids
<1> QED
  BY <1>1, <1>2, NumbersAssumption DEF Counted, TypeOK

-----------------------------------------------------------------------------
(* Types.                                                                  *)

\* What a close makes of the variables has their types.
LEMMA CloseTypes ==
  ASSUME TypeOK, NEW ch, NEW procs \in [Pids -> ChildPCs], ServerClose(ch, procs),
         leave' \in [Pids -> BOOLEAN]
  PROVE  TypeOK'
<1>1. Reaped(procs) \in [Pids -> ChildPCs]
  BY DEF Reaped, ChildPCs
<1>2. \A S \in SUBSET Pids, sig \in {"HUP", "TERM"} :
        Sent(S, sig, procs) \in [Pids -> SUBSET {"HUP", "TERM"}]
  BY DEF Sent, TypeOK
<1>3. NoTable \in [Pids -> {"none", "processing", "dequeue"}]
  BY DEF NoTable
<1>4. pending' \in [Pids -> SUBSET {"HUP", "TERM"}] /\ pc' \in [Pids -> ChildPCs]
  BY <1>1, <1>2 DEF ServerClose, CloseChildren
<1>5. phase' \in Phases /\ left' = 0 /\ flags' = {} /\ hup' \in BOOLEAN
  <2>1. Exec(procs) \/ (phase' = "down" /\ left' = 0 /\ flags' = {} /\ hup' = hup)
    BY Zenon DEF ServerClose, CloseChildren
  <2>2. phase' \in {"boot", "down"} /\ left' = 0 /\ flags' = {} /\ hup' \in BOOLEAN
    BY <2>1, Zenon DEF Exec, TypeOK
  <2> QED
    BY <2>2 DEF Phases, Up, Gone
<1>6. children' = NoTable /\ old' \in SUBSET Pids /\ age' = age /\ env' = env
  BY DEF ServerClose, CloseChildren, Exec, TypeOK
<1>7. left' \in 0 .. Max /\ flags' \in SUBSET {"CHLD", "HUP", "TERM"}
  BY <1>5, NumbersAssumption
<1> QED
  BY <1>3, <1>4, <1>5, <1>6, <1>7 DEF TypeOK

\* The steps of the parent keep the types.
LEMMA ParentTypes ==
  ASSUME TypeOK, Starts \/ Handles \/ Coordinate \/ ForkFails \/ \E sig \in Signals : Signal(sig)
  PROVE  TypeOK'
<1> USE NumbersAssumption DEF TypeOK, Phases, Up, Gone
<1>1. Reaped(pc) \in [Pids -> ChildPCs]
  BY DEF Reaped, ChildPCs
<1>2. CASE Loop
  BY <1>2 DEF Loop
<1>3. CASE ForkInitial
  BY <1>3 DEF ForkInitial, Forked, Free, ChildPCs, Running, Servers
<1>4. CASE SigChld \/ RunParent \/ CheckChld
  BY <1>1, <1>4 DEF SigChld, RunParent, CheckChld
<1>5. CASE SigHup
  BY <1>5 DEF SigHup, Inherited
<1>6. CASE Terminate \/ Leave
  BY <1>6, CloseTypes DEF Terminate, Leave
<1>7. ASSUME NEW due \in SUBSET Timers, Pass(due) PROVE TypeOK'
  <2>1. Alive(due) \in [Pids -> {"none", "processing", "dequeue"}]
    BY DEF Alive
  <2>2. "born" \in ChildPCs /\ "dequeue" \in ChildPCs
    BY DEF ChildPCs, Running, Servers
  <2> HIDE DEF Phases, Up, Gone
  <2> QED
    BY <1>7, <2>1, <2>2 DEF Pass
<1>10. ASSUME NEW due \in SUBSET Timers, Stub(due) PROVE TypeOK'
  <2>1. PICK F \in SUBSET Free :
          /\ pc' = Reaped([p \in Pids |-> IF p \in F THEN "born" ELSE pc[p]])
          /\ leave' = [p \in Pids |-> IF p \in F THEN hup ELSE leave[p]]
          /\ old' = old \ F
    BY <1>10 DEF Stub
  <2>2. [p \in Pids |-> IF p \in F THEN "born" ELSE pc[p]] \in [Pids -> ChildPCs]
    BY DEF ChildPCs, Running, Servers
  <2>3. pc' \in [Pids -> ChildPCs]
    BY <2>1, <2>2 DEF Reaped, ChildPCs
  <2>4. leave' \in [Pids -> BOOLEAN]
    BY <2>1
  <2>5. old' \in SUBSET Pids
    BY <2>1
  <2> QED
    BY <1>10, <2>3, <2>4, <2>5 DEF Stub
<1>8. ASSUME NEW due \in SUBSET Timers, BadFork(due) PROVE TypeOK'
  <2>1. CASE ServerClose(children, pc) /\ leave' = leave
    BY <2>1, CloseTypes
  <2>2. ASSUME NEW F \in SUBSET Free,
               ServerClose([p \in Pids |-> IF p \in F THEN "processing" ELSE Alive(due)[p]],
                           [p \in Pids |-> IF p \in F THEN "born" ELSE pc[p]]),
               leave' = [p \in Pids |-> IF p \in F THEN hup ELSE leave[p]]
        PROVE  TypeOK'
    <3>1. [p \in Pids |-> IF p \in F THEN "born" ELSE pc[p]] \in [Pids -> ChildPCs]
      BY DEF ChildPCs, Running, Servers
    <3>2. leave' \in [Pids -> BOOLEAN]
      BY <2>2
    <3> QED
      BY <2>2, <3>1, <3>2, CloseTypes
  <2> QED
    BY <1>8, <2>1, <2>2 DEF BadFork
<1>9. ASSUME NEW sig \in Signals, Signal(sig) PROVE TypeOK'
  <2>1. sig \in {"HUP", "TERM"}
    BY SetsAssumption
  <2>2. age' \in 0 .. MaxRestarts
    BY <1>9, <2>1 DEF Signal
  <2>3. flags' \in SUBSET {"CHLD", "HUP", "TERM"} /\ phase' \in Phases
    BY <1>9, <2>1 DEF Signal
  <2>4. pc' \in [Pids -> ChildPCs]
    BY <1>1, <1>9 DEF Signal
  <2> QED
    BY <1>9, <2>2, <2>3, <2>4 DEF Signal
<1> QED
  BY <1>2, <1>3, <1>4, <1>5, <1>6, <1>7, <1>8, <1>9, <1>10 DEF Starts, Handles, Coordinate, ForkFails

\* The steps of a child keep the types.
LEMMA ChildTypes ==
  ASSUME TypeOK, NEW p \in Pids,
         \/ ChildStep(p) \/ Accept(p) \/ AcceptFails(p)
         \/ NextClient(p) \/ LastClient(p) \/ Crash(p)
  PROVE  TypeOK'
<1>1. CASE \E from, to : to \in ChildPCs /\ Goto(p, from, to)
  BY <1>1 DEF Goto, TypeOK
<1>2. {"leaving", "waiting", "serving", "zombie", "none"} \subseteq ChildPCs
  BY DEF ChildPCs, Running, Servers
<1>3. CASE RunChild(p) \/ Accept(p) \/ AcceptFails(p) \/ NextClient(p) \/ LastClient(p)
  BY <1>1, <1>2, <1>3 DEF RunChild, Accept, AcceptFails, NextClient, LastClient
<1>4. ASSUME Exits(p), Told({"CHLD"}), UNCHANGED <<phase, left, hup, age, children, env, old>>
      PROVE  TypeOK'
  BY <1>2, <1>4 DEF Exits, Forgets, Remains, Told, TypeOK
<1>5. CASE Exit(p) \/ Crash(p)
  BY <1>4, <1>5 DEF Exit, Crash
<1>6. CASE CloseParent(p)
  <2>1. Reaped([pc EXCEPT ![p] = "zombie"]) \in [Pids -> ChildPCs]
    BY <1>2 DEF Reaped, TypeOK
  <2>4. [pc EXCEPT ![p] = Remains] \in [Pids -> ChildPCs]
    BY <1>2 DEF Remains, TypeOK
  <2>5. /\ pc' = Reaped([pc EXCEPT ![p] = "zombie"]) \/ pc' = [pc EXCEPT ![p] = Remains]
        /\ phase' = "dead" \/ phase' = phase
    BY <1>6, Zenon DEF CloseParent
  <2>2. pc' \in [Pids -> ChildPCs] /\ phase' \in Phases
    <3>1. pc' \in [Pids -> ChildPCs]
      BY <2>1, <2>4, <2>5, Zenon
    <3>2. phase' \in Phases
      BY <2>5 DEF TypeOK, Phases, Gone
    <3> QED
      BY <3>1, <3>2
  <2>3. /\ pending' \in [Pids -> SUBSET {"HUP", "TERM"}] /\ leave' \in [Pids -> BOOLEAN]
        /\ flags' \in SUBSET {"CHLD", "HUP", "TERM"}
    BY <1>6 DEF CloseParent, Forgets, Told, TypeOK
  <2> QED
    BY <1>6, <2>2, <2>3 DEF CloseParent, TypeOK
<1>7. CASE HandleSignal(p)
  <2>1. ASSUME NEW sig \in pending[p],
               pending' = [pending EXCEPT ![p] = @ \ {sig}],
               leave' = [leave EXCEPT ![p] = @ \/ pc[p] \in {"fresh", "serving"}],
               UNCHANGED <<phase, left, flags, hup, age, children, env, pc, old>>
        PROVE  TypeOK'
    <3>1. leave' \in [Pids -> BOOLEAN]
      BY <2>1 DEF TypeOK
    <3>2. pending' \in [Pids -> SUBSET {"HUP", "TERM"}]
      BY <2>1 DEF TypeOK
    <3> QED
      BY <2>1, <3>1, <3>2 DEF TypeOK
  <2> QED
    BY <1>4, <1>7, <2>1 DEF HandleSignal
<1> QED
  BY <1>3, <1>5, <1>6, <1>7 DEF ChildStep

-----------------------------------------------------------------------------
(* The invariant.                                                          *)

\* What a step of a child, of the operator, or of the parent when it collects
\* children, does to the invariant's variables: running children may end, and
\* only the entries of children that had ended go.
Ending ==
  /\ \A p \in Pids : pc'[p] \in Servers => pc[p] \in Servers
  /\ \A p \in Pids : pc'[p] = "dequeue" => pc[p] = "dequeue"
  /\ \A p \in Pids : pc'[p] \in Running => children'[p] = children[p]
  /\ old' = old /\ left' = left
  /\ phase' \in Up => phase \in Up
  /\ phase' = "boot" => phase = "boot"
  /\ phase' # "start" => (phase # "start" \/ left = 0)

\* Such steps keep the invariant.
LEMMA EndingKeeps == IInv /\ TypeOK' /\ Ending => IInv'
<1> SUFFICES ASSUME IInv, TypeOK', Ending PROVE IInv'
  OBVIOUS
<1>1. OurServers' \subseteq OurServers /\ OurDequeue' \subseteq OurDequeue
  BY DEF Ending, OurServers, OurDequeue, Ours
<1>2. left' <= left /\ left' \in Nat
  BY NumbersAssumption DEF Ending, IInv, TypeOK
<1>3. Counted'
  BY <1>1, <1>2, ShrinkCounted DEF IInv
<1>4. OursTracked'
  <2> SUFFICES ASSUME phase' \in Up, NEW p \in Ours
               PROVE  /\ pc'[p] \in Servers => children'[p] = "processing"
                      /\ pc'[p] = "dequeue" => children'[p] = "dequeue"
    BY DEF OursTracked, Ours, Ending
  <2> QED
    BY DEF Ending, IInv, OursTracked, Ours, Running
<1>5. LeftInStart'
  BY DEF Ending, IInv, LeftInStart
<1>6. BootIsClean'
  BY <1>1 DEF Ending, IInv, BootIsClean
<1> QED
  BY <1>3, <1>4, <1>5, <1>6 DEF IInv

\* Every step of a child is such a step.
LEMMA ChildEnds ==
  ASSUME TypeOK, LeftInStart, NEW p \in Pids,
         \/ ChildStep(p) \/ Accept(p) \/ AcceptFails(p)
         \/ NextClient(p) \/ LastClient(p) \/ Crash(p)
  PROVE  Ending
<1> USE DEF Up, Servers, Running
<1>1. ASSUME NEW from \in SUBSET Servers, NEW to \in Servers, Goto(p, from, to) PROVE Ending
  BY <1>1 DEF Goto, Ending, TypeOK
<1>2. CASE RunChild(p) \/ Accept(p) \/ AcceptFails(p) \/ NextClient(p) \/ LastClient(p)
  BY <1>1, <1>2 DEF RunChild, Accept, AcceptFails, NextClient, LastClient
<1>3. ASSUME Exits(p), UNCHANGED <<phase, left, children, old>> PROVE Ending
  BY <1>3 DEF Exits, Remains, Ending, TypeOK
<1>4. CASE Exit(p) \/ Crash(p) \/ HandleSignal(p)
  <2>1. CASE UNCHANGED <<phase, left, children, pc, old>>
    BY <2>1 DEF Ending
  <2> QED
    BY <1>3, <1>4, <2>1 DEF Exit, Crash, HandleSignal
<1>5. CASE CloseParent(p)
  <2>1. /\ \A q \in Pids : pc'[q] \in Servers => pc[q] \in Servers
        /\ \A q \in Pids : pc'[q] = "dequeue" => pc[q] = "dequeue"
    BY <1>5 DEF CloseParent, Reaped, Remains, TypeOK
  <2>2. phase' = phase \/ (phase = "boot" /\ phase' = "dead")
    BY <1>5 DEF CloseParent
  <2> QED
    BY <1>5, <2>1, <2>2 DEF CloseParent, Ending
<1> QED
  BY <1>2, <1>4, <1>5 DEF ChildStep

\* So are the steps of the parent that only handle a signal, and the operator's.
LEMMA HandlingEnds ==
  ASSUME TypeOK, LeftInStart,
         SigChld \/ RunParent \/ CheckChld \/ SigHup \/ \E sig \in Signals : Signal(sig)
  PROVE  Ending
<1> USE DEF Up, Servers, Running
<1>1. \A p \in Pids : /\ Reaped(pc)[p] \in Running => Reaped(pc)[p] = pc[p] /\ pc[p] # "zombie"
  BY DEF Reaped
<1>2. CASE SigChld
  BY <1>1, <1>2 DEF SigChld, Ending
<1>3. CASE RunParent
  BY <1>3 DEF RunParent, Ending
<1>4. CASE CheckChld
  BY <1>1, <1>4 DEF CheckChld, Ending, TypeOK
<1>5. CASE SigHup
  BY <1>5 DEF SigHup, Ending, LeftInStart
<1>6. ASSUME NEW sig \in Signals, Signal(sig) PROVE Ending
  BY <1>1, <1>6 DEF Signal, Ending
<1> QED
  BY <1>2, <1>3, <1>4, <1>5, <1>6

\* A step after which the children of F are ours, too, and none is still to come, keeps
\* the count.
LEMMA GrownCounted ==
  ASSUME IInv, NEW F \in SUBSET Pids, Cardinality(OurServers) + Cardinality(F) <= Max,
         OurServers' \subseteq OurServers \cup F, OurDequeue' \subseteq OurDequeue, left' = 0
  PROVE  Counted'
<1>1. Cardinality(OurServers') <= Cardinality(OurServers \cup F)
  BY OursArePids, Fewer
<1>2. Cardinality(OurServers \cup F) <= Cardinality(OurServers) + Cardinality(F)
  BY OursArePids, Added
<1>3. Cardinality(OurDequeue') <= Cardinality(OurDequeue)
  BY OursArePids, Fewer
<1>4. OurServers' \in SUBSET Pids /\ OurDequeue' \in SUBSET Pids /\ OurServers \cup F \in SUBSET Pids
  BY DEF OurServers, OurDequeue, Ours
<1>5. /\ Cardinality(OurServers') \in Nat /\ Cardinality(OurServers \cup F) \in Nat
      /\ Cardinality(OurServers) \in Nat /\ Cardinality(F) \in Nat
      /\ Cardinality(OurDequeue') \in Nat /\ Cardinality(OurDequeue) \in Nat
  BY <1>4, OursArePids, Finite
<1> QED
  BY <1>1, <1>2, <1>3, <1>5, NumbersAssumption DEF Counted, IInv

\* A close, and an exec, leave nothing to be kept but the count, given that the
\* count includes the children just forked.
LEMMA CloseKeeps ==
  ASSUME IInv, TypeOK', NEW F \in SUBSET Free, NEW ch,
         Cardinality(OurServers) + Cardinality(F) <= Max,
         ServerClose(ch, [p \in Pids |-> IF p \in F THEN "born" ELSE pc[p]])
  PROVE  IInv'
<1> DEFINE procs == [p \in Pids |-> IF p \in F THEN "born" ELSE pc[p]]
<1>1. \A p \in Pids : pc'[p] \in Running => procs[p] = pc'[p]
  BY DEF ServerClose, CloseChildren, Reaped, Running, Servers
<1>2. left' = 0 /\ phase' \in {"boot", "down"}
  BY DEF ServerClose, CloseChildren, Exec
<1>3. phase' = "boot" => old' = {p \in Pids : procs[p] # "none"}
  BY DEF ServerClose, CloseChildren, Exec
<1>4. phase' = "down" => old' = old \ Free
  BY DEF ServerClose, CloseChildren, Exec
<1>5. CASE phase' = "boot"
  <2>1. OurServers' = {} /\ OurDequeue' = {}
    BY <1>1, <1>3, <1>5 DEF OurServers, OurDequeue, Ours, Running, Servers
  <2> QED
    BY <1>2, <1>5, <2>1, FS_EmptySet, NumbersAssumption
       DEF IInv, OursTracked, Counted, LeftInStart, BootIsClean, Up
<1>6. CASE phase' = "down"
  <2>1. F \in SUBSET Pids
    BY DEF Free
  <2>2. OurServers' \subseteq OurServers \cup F
    BY <1>1, <1>4, <1>6 DEF OurServers, Ours, Free, Running, Servers
  <2>3. OurDequeue' \subseteq OurDequeue
    BY <1>1, <1>4, <1>6 DEF OurDequeue, Ours, Free, Running, Servers
  <2>4. Counted'
    BY <1>2, <2>1, <2>2, <2>3, GrownCounted
  <2> QED
    BY <1>2, <1>6, <2>4 DEF IInv, OursTracked, LeftInStart, BootIsClean, Up
<1> QED
  BY <1>2, <1>5, <1>6

\* A close without forks before it.
LEMMA PlainCloseKeeps ==
  ASSUME IInv, TypeOK', ServerClose(children, pc)
  PROVE  IInv'
<1>1. pc = [p \in Pids |-> IF p \in {} THEN "born" ELSE pc[p]]
  BY DEF IInv, TypeOK
<1>2. Cardinality(OurServers) + Cardinality({}) <= Max
  <2>1. Cardinality(OurServers) \in Nat /\ left \in Nat
    BY OursArePids, Finite, NumbersAssumption DEF IInv, TypeOK
  <2> QED
    BY <2>1, FS_EmptySet, NumbersAssumption DEF IInv, Counted
<1>3. ServerClose(children, [p \in Pids |-> IF p \in {} THEN "born" ELSE pc[p]])
  BY <1>1
<1> QED
  BY <1>2, <1>3, CloseKeeps

\* In the loop the servers that are ours are among the entries that the probe keeps.
LEMMA OursAreListed ==
  ASSUME IInv, phase = "loop", NEW due
  PROVE  /\ OurServers \subseteq Having(Alive(due), "processing")
         /\ OurDequeue \subseteq Having(Alive(due), "dequeue")
BY DEF IInv, OursTracked, OurServers, OurDequeue, Ours, Having, Alive, Up, Servers, TypeOK

\* Filling up the table keeps what the table bounds.
LEMMA MissingBounds ==
  ASSUME IInv, phase = "loop", NEW due, NEW F \in SUBSET Pids, Cardinality(F) <= Missing(Alive(due))
  PROVE  Cardinality(OurServers) + Cardinality(F) <= Max
<1> DEFINE H == Having(Alive(due), "processing")
<1>1. H \in SUBSET Pids /\ OurServers \subseteq H
  BY OursAreListed DEF Having
<1>2. Cardinality(OurServers) <= Cardinality(H)
  BY <1>1, Fewer
<1>3. Cardinality(H) \in Nat /\ Cardinality(OurServers) \in Nat /\ Cardinality(F) \in Nat
  BY <1>1, OursArePids, Finite
<1>4. Cardinality(F) <= Max - Cardinality(H) \/ Cardinality(F) <= 0
  BY DEF Missing
<1>5. Cardinality(OurServers) <= Max
  <2>1. left \in Nat
    BY NumbersAssumption DEF IInv, TypeOK
  <2> QED
    BY <1>3, <2>1, NumbersAssumption DEF IInv, Counted
<1> HIDE DEF H
<1> QED
  BY <1>2, <1>3, <1>4, <1>5, NumbersAssumption

-----------------------------------------------------------------------------
(* The steps that fork or close.                                           *)

\* It holds at the first start.
LEMMA InitInv == Init => IInv
<1> SUFFICES ASSUME Init PROVE IInv
  OBVIOUS
<1>1. TypeOK
  <2>1. phase \in Phases /\ left \in 0 .. Max /\ age \in 0 .. MaxRestarts
    BY NumbersAssumption DEF Init, Phases
  <2>7. hup \in BOOLEAN
    BY DEF Init
  <2>2. /\ children \in [Pids -> {"none", "processing", "dequeue"}]
        /\ env \in [Pids -> {"none", "processing", "dequeue"}]
    BY DEF Init, NoTable
  <2>3. pc \in [Pids -> ChildPCs] /\ old \in SUBSET Pids
    BY DEF Init, ChildPCs
  <2>4. leave \in [Pids -> BOOLEAN]
    BY DEF Init
  <2>5. pending \in [Pids -> SUBSET {"HUP", "TERM"}]
    BY DEF Init
  <2>6. flags \in SUBSET {"CHLD", "HUP", "TERM"}
    BY DEF Init
  <2> QED
    BY <2>1, <2>2, <2>3, <2>4, <2>5, <2>6, <2>7 DEF TypeOK
<1>2. OurServers = {} /\ OurDequeue = {}
  BY DEF Init, OurServers, OurDequeue, Ours, Servers
<1>3. Counted
  BY <1>2, FS_EmptySet, NumbersAssumption DEF Init, Counted
<1> QED
  BY <1>1, <1>2, <1>3 DEF Init, IInv, OursTracked, LeftInStart, BootIsClean, Up

\* Taking over the table of a former life adds no child of this one.
LEMMA LoopKeeps == IInv /\ TypeOK' /\ Loop => IInv'
<1> SUFFICES ASSUME IInv, TypeOK', Loop PROVE IInv'
  OBVIOUS
<1>1. OurServers = {} /\ OurDequeue = {}
  BY DEF Loop, IInv, BootIsClean
<1>2. OurServers' = {} /\ OurDequeue' = {}
  BY <1>1 DEF Loop, OurServers, OurDequeue, Ours
<1>3. Counted'
  BY <1>2, FS_EmptySet, NumbersAssumption DEF Loop, Counted
<1>4. OursTracked'
  BY <1>2 DEF OursTracked, OurServers, OurDequeue, Ours
<1> QED
  BY <1>2, <1>3, <1>4 DEF Loop, IInv, LeftInStart, BootIsClean

\* An initial child is one that was still to come.
LEMMA ForkInitialKeeps == IInv /\ TypeOK' /\ ForkInitial => IInv'
<1> SUFFICES ASSUME IInv, TypeOK', ForkInitial PROVE IInv'
  OBVIOUS
<1>1. PICK p \in Free : Forked({p}, "fresh") /\ children' = [children EXCEPT ![p] = "processing"]
  BY DEF ForkInitial
<1>2. p \in Pids /\ phase = "start" /\ phase' = phase /\ left' = left - 1
  BY DEF Free, ForkInitial
<1>3. OurServers' \subseteq OurServers \cup {p} /\ OurDequeue' \subseteq OurDequeue
  BY <1>1, <1>2 DEF Forked, OurServers, OurDequeue, Ours
<1>4. OursTracked'
  BY <1>1, <1>2 DEF Forked, IInv, TypeOK, OursTracked, Ours
<1>5. Counted'
  <2>1. Cardinality(OurServers') <= Cardinality(OurServers \cup {p})
    BY <1>2, <1>3, OursArePids, Fewer
  <2>2. Cardinality(OurServers \cup {p}) <= Cardinality(OurServers) + Cardinality({p})
    BY <1>2, OursArePids, Added
  <2>3. Cardinality({p}) = 1
    BY FS_Singleton
  <2>4. Cardinality(OurDequeue') <= Cardinality(OurDequeue)
    BY <1>3, OursArePids, Fewer
  <2>5. OurServers' \in SUBSET Pids /\ OurDequeue' \in SUBSET Pids /\ OurServers \cup {p} \in SUBSET Pids
    BY <1>2 DEF OurServers, OurDequeue, Ours
  <2>6. /\ Cardinality(OurServers') \in Nat /\ Cardinality(OurServers \cup {p}) \in Nat
        /\ Cardinality(OurServers) \in Nat
        /\ Cardinality(OurDequeue') \in Nat /\ Cardinality(OurDequeue) \in Nat
    BY <2>5, OursArePids, Finite
  <2>7. left \in Nat
    BY NumbersAssumption DEF IInv, TypeOK
  <2> QED
    BY <1>2, <2>1, <2>2, <2>3, <2>4, <2>6, <2>7, NumbersAssumption DEF Counted, IInv
<1> QED
  BY <1>2, <1>4, <1>5 DEF IInv, LeftInStart, BootIsClean

\* A pass of the loop forks only what its table lacks.
LEMMA PassKeeps ==
  ASSUME IInv, TypeOK', NEW due \in SUBSET Timers, Pass(due)
  PROVE  IInv'
<1> DEFINE ch == Alive(due)
<1>1. PICK F \in SUBSET Free, D \in SUBSET Free :
        /\ Cardinality(F) = Missing(ch) /\ Cardinality(D) = Dequeues(due, ch) /\ F \cap D = {}
        /\ children' = [p \in Pids |-> IF p \in F THEN "processing"
                                       ELSE IF p \in D THEN "dequeue" ELSE ch[p]]
        /\ pc' = [p \in Pids |-> IF p \in F THEN "born" ELSE IF p \in D THEN "dequeue" ELSE pc[p]]
        /\ old' = old \ (F \cup D)
  BY DEF Pass
<1>2. phase = "loop" /\ phase' = phase /\ left' = left
  BY DEF Pass
<1>3. F \in SUBSET Pids /\ D \in SUBSET Pids
  BY DEF Free
<1>4. OurServers' \subseteq OurServers \cup F /\ OurDequeue' \subseteq OurDequeue \cup D
  BY <1>1 DEF OurServers, OurDequeue, Ours, Servers
<1>5. Cardinality(OurServers) \in Nat /\ Cardinality(OurDequeue) \in Nat
  BY OursArePids, Finite
<1>6. Cardinality(OurServers) + Cardinality(F) <= Max
  <2>1. Cardinality(F) <= Missing(ch)
    BY <1>1, <1>3, Finite
  <2> QED
    BY <1>2, <1>3, <2>1, MissingBounds
<1>7. Cardinality(OurDequeue) + Cardinality(D) <= MaxDequeue
  <2>1. CASE "dequeue" \in due /\ MayDequeue(ch)
    <3>1. Cardinality(D) = 1
      BY <1>1, <2>1 DEF Dequeues
    <3>2. Having(ch, "dequeue") \in SUBSET Pids /\ OurDequeue \subseteq Having(ch, "dequeue")
      BY <1>2, OursAreListed DEF Having
    <3>3. /\ Cardinality(OurDequeue) <= Cardinality(Having(ch, "dequeue"))
          /\ Cardinality(Having(ch, "dequeue")) \in Nat
      BY <3>2, Fewer, Finite
    <3>4. Cardinality(Having(ch, "dequeue")) < MaxDequeue
      BY <2>1 DEF MayDequeue
    <3> HIDE DEF ch
    <3> QED
      BY <1>5, <3>1, <3>3, <3>4, NumbersAssumption
  <2>2. CASE ~("dequeue" \in due /\ MayDequeue(ch))
    <3>1. Cardinality(D) = 0
      BY <1>1, <2>2 DEF Dequeues
    <3> QED
      BY <1>5, <3>1, NumbersAssumption DEF IInv, Counted
  <2> QED
    BY <2>1, <2>2
<1>8. Counted'
  <2>1. /\ Cardinality(OurServers') <= Cardinality(OurServers \cup F)
        /\ Cardinality(OurDequeue') <= Cardinality(OurDequeue \cup D)
    BY <1>3, <1>4, OursArePids, Fewer
  <2>2. /\ Cardinality(OurServers \cup F) <= Cardinality(OurServers) + Cardinality(F)
        /\ Cardinality(OurDequeue \cup D) <= Cardinality(OurDequeue) + Cardinality(D)
    BY <1>3, OursArePids, Added
  <2>3. /\ OurServers' \in SUBSET Pids /\ OurDequeue' \in SUBSET Pids
        /\ OurServers \cup F \in SUBSET Pids /\ OurDequeue \cup D \in SUBSET Pids
    BY <1>3 DEF OurServers, OurDequeue, Ours
  <2>4. /\ Cardinality(OurServers') \in Nat /\ Cardinality(OurDequeue') \in Nat
        /\ Cardinality(OurServers \cup F) \in Nat /\ Cardinality(OurDequeue \cup D) \in Nat
        /\ Cardinality(F) \in Nat /\ Cardinality(D) \in Nat
    BY <1>3, <2>3, Finite
  <2>5. left' = 0
    BY <1>2 DEF IInv, LeftInStart
  <2> HIDE DEF ch
  <2> QED
    BY <1>5, <1>6, <1>7, <2>1, <2>2, <2>4, <2>5, NumbersAssumption DEF Counted
<1>9. OursTracked'
  <2> SUFFICES ASSUME NEW p \in Pids, p \notin old'
               PROVE  /\ pc'[p] \in Servers => children'[p] = "processing"
                      /\ pc'[p] = "dequeue" => children'[p] = "dequeue"
    BY DEF OursTracked, Ours
  <2>1. CASE p \in F \cup D
    BY <1>1, <2>1 DEF Servers
  <2>2. CASE p \notin F \cup D
    <3>1. pc'[p] = pc[p] /\ children'[p] = ch[p] /\ p \in Ours
      BY <1>1, <2>2 DEF Ours
    <3>2. /\ pc[p] \in Servers => children[p] = "processing"
          /\ pc[p] = "dequeue" => children[p] = "dequeue"
      BY <1>2, <3>1 DEF IInv, OursTracked, Up
    <3> QED
      BY <3>1, <3>2 DEF Alive, Servers
  <2> QED
    BY <2>1, <2>2
<1> QED
  BY <1>2, <1>8, <1>9 DEF IInv, LeftInStart, BootIsClean

\* The parent that dies of the stub leaves as many children as its table asked for.
LEMMA StubKeeps ==
  ASSUME IInv, TypeOK', NEW due \in SUBSET Timers, Stub(due)
  PROVE  IInv'
<1>1. PICK F \in SUBSET Free :
        /\ Cardinality(F) = Missing(Alive(due))
        /\ pc' = Reaped([p \in Pids |-> IF p \in F THEN "born" ELSE pc[p]])
        /\ old' = old \ F
  BY DEF Stub
<1>2. phase = "loop" /\ phase' = "dead" /\ left' = 0
  BY DEF Stub, IInv, LeftInStart
<1>3. F \in SUBSET Pids
  BY DEF Free
<1>4. Cardinality(OurServers) + Cardinality(F) <= Max
  <2>1. Cardinality(F) <= Missing(Alive(due))
    BY <1>1, <1>3, Finite
  <2> QED
    BY <1>2, <1>3, <2>1, MissingBounds
<1>5. OurServers' \subseteq OurServers \cup F /\ OurDequeue' \subseteq OurDequeue
  BY <1>1 DEF OurServers, OurDequeue, Ours, Reaped, Servers
<1>6. Counted'
  BY <1>2, <1>3, <1>4, <1>5, GrownCounted
<1> QED
  BY <1>2, <1>6 DEF IInv, OursTracked, LeftInStart, BootIsClean, Up

\* A failed fork closes the server with the children just forked.
LEMMA BadForkKeeps ==
  ASSUME IInv, TypeOK', NEW due \in SUBSET Timers, BadFork(due)
  PROVE  IInv'
<1>1. CASE ServerClose(children, pc)
  BY <1>1, PlainCloseKeeps
<1>2. ASSUME NEW F \in SUBSET Free, phase = "loop", Cardinality(F) <= Missing(Alive(due)),
             ServerClose([p \in Pids |-> IF p \in F THEN "processing" ELSE Alive(due)[p]],
                         [p \in Pids |-> IF p \in F THEN "born" ELSE pc[p]])
      PROVE  IInv'
  <2>1. F \in SUBSET Pids
    BY DEF Free
  <2>2. Cardinality(OurServers) + Cardinality(F) <= Max
    BY <1>2, <2>1, MissingBounds
  <2> QED
    BY <1>2, <2>2, CloseKeeps
<1> QED
  BY <1>1, <1>2 DEF BadFork

-----------------------------------------------------------------------------
(* What a restart that leaves the children hands over.                     *)

\* The operator sends HUP only, the children are left, and no fork fails: a close that is
\* turned into a restart sends TERM, which a child without handlers loses.
LeavesChildren == LeaveOpen /\ ~ForkMayFail /\ "TERM" \notin Signals

\* Nobody is sent TERM.
NoTerm == "TERM" \notin flags /\ \A p \in Pids : "TERM" \notin pending[p]

\* Every child that takes clients, and is not about to stop, is in the table.
ListedIn(table) == \A p \in Pids : pc[p] \in Servers => table[p] # "none" \/ leave[p]

\* From the HUP until the next life HUP_CHILDREN is as good as the table: who is forked
\* after it was written has inherited _HUP.
HandedOver ==
  /\ phase # "down"
  /\ phase = "leaving" => hup
  /\ phase \in Up => ListedIn(children)
  /\ hup \/ phase = "boot" => ListedIn(env)

OverInv == TypeOK /\ NoTerm /\ HandedOver

\* Where children only end or learn that they are to leave, the tables stay good.
LEMMA EndingListed ==
  ASSUME OverInv, NoTerm', hup' = hup, env' = env,
         \A p \in Pids : pc'[p] \in Servers =>
           pc[p] \in Servers /\ (leave[p] => leave'[p]) /\ (phase \in Up => children'[p] = children[p]),
         phase' = phase \/ (phase' = "dead" /\ ~hup) \/ (phase = "start" /\ phase' = "loop")
           \/ (phase \in Up /\ phase' = "leaving" /\ hup)
  PROVE  NoTerm' /\ HandedOver'
<1>1. phase' # "down" /\ (phase' = "leaving" => hup')
  BY DEF OverInv, HandedOver
<1>2. phase' \in Up => phase \in Up
  BY DEF Up
<1>3. phase' \in Up => ListedIn(children)'
  BY <1>2 DEF OverInv, HandedOver, ListedIn
<1>4. hup' \/ phase' = "boot" => hup \/ phase = "boot"
  OBVIOUS
<1>5. hup' \/ phase' = "boot" => ListedIn(env)'
  BY <1>4 DEF OverInv, HandedOver, ListedIn
<1> QED
  BY <1>1, <1>3, <1>5 DEF HandedOver

\* A child that takes no TERM does nothing else.
LEMMA ChildListed ==
  ASSUME OverInv, NEW p \in Pids,
         \/ ChildStep(p) \/ Accept(p) \/ AcceptFails(p)
         \/ NextClient(p) \/ LastClient(p) \/ Crash(p)
  PROVE  NoTerm' /\ HandedOver'
<1> TypeOK /\ NoTerm
  BY DEF OverInv
<1>1. ASSUME NEW from \in SUBSET Servers, NEW to, Goto(p, from, to) PROVE NoTerm' /\ HandedOver'
  <2>1. UNCHANGED <<phase, flags, pending, hup, children, env, leave>>
    BY <1>1 DEF Goto
  <2>2. NoTerm'
    BY <2>1 DEF NoTerm
  <2>3. \A q \in Pids : pc'[q] \in Servers => pc[q] \in Servers
    BY <1>1 DEF Goto, TypeOK
  <2> QED
    BY <2>1, <2>2, <2>3, EndingListed
<1>2. CASE RunChild(p) \/ Accept(p) \/ AcceptFails(p) \/ NextClient(p) \/ LastClient(p)
  BY <1>1, <1>2 DEF RunChild, Accept, AcceptFails, NextClient, LastClient, Servers
<1>3. ASSUME Exits(p), Told({"CHLD"}), UNCHANGED <<phase, hup, children, env>>
      PROVE  NoTerm' /\ HandedOver'
  <2>1. NoTerm'
    BY <1>3 DEF NoTerm, Told, Exits, Forgets, TypeOK
  <2>2. \A q \in Pids : pc'[q] \in Servers => pc[q] \in Servers /\ leave'[q] = leave[q]
    BY <1>3 DEF Exits, Forgets, Remains, Servers, TypeOK
  <2> QED
    BY <1>3, <2>1, <2>2, EndingListed
<1>4. CASE Exit(p) \/ Crash(p)
  BY <1>3, <1>4 DEF Exit, Crash
<1>5. CASE CloseParent(p)
  BY <1>5 DEF CloseParent, NoTerm
<1>6. CASE HandleSignal(p)
  <2>1. ASSUME NEW sig \in pending[p],
               pending' = [pending EXCEPT ![p] = @ \ {sig}],
               leave' = [leave EXCEPT ![p] = @ \/ pc[p] \in {"fresh", "serving"}],
               UNCHANGED <<phase, left, flags, hup, age, children, env, pc, old>>
        PROVE  NoTerm' /\ HandedOver'
    <3>1. NoTerm'
      BY <2>1 DEF NoTerm, TypeOK
    <3>2. \A q \in Pids : leave[q] => leave'[q]
      BY <2>1 DEF TypeOK
    <3> QED
      BY <2>1, <3>1, <3>2, EndingListed
  <2> QED
    BY <1>3, <1>6, <2>1 DEF HandleSignal
<1> QED
  BY <1>2, <1>4, <1>5, <1>6 DEF ChildStep

\* Collecting children and waiting for signals leaves the table of the living alone.
LEMMA HandlingListed ==
  ASSUME OverInv, LeavesChildren,
         SigChld \/ RunParent \/ CheckChld \/ \E sig \in Signals : Signal(sig)
  PROVE  NoTerm' /\ HandedOver'
<1> TypeOK /\ NoTerm
  BY DEF OverInv
<1>1. \A p \in Pids : Reaped(pc)[p] \in Servers => Reaped(pc)[p] = pc[p] /\ pc[p] # "zombie"
  BY DEF Reaped, Servers
<1>2. CASE SigChld
  <2>1. NoTerm' /\ UNCHANGED <<phase, hup, children, env, leave>>
    BY <1>2 DEF SigChld, NoTerm
  <2>2. \A p \in Pids : pc'[p] \in Servers => pc[p] \in Servers
    BY <1>1, <1>2 DEF SigChld
  <2> QED
    BY <2>1, <2>2, EndingListed
<1>3. CASE RunParent
  <2>1. NoTerm' /\ phase = "start" /\ phase' = "loop" /\ UNCHANGED <<hup, children, env, pc, leave>>
    BY <1>3 DEF RunParent, NoTerm
  <2> QED
    BY <2>1, EndingListed
<1>4. CASE CheckChld
  <2>1. NoTerm' /\ UNCHANGED <<hup, env, leave>>
    BY <1>4 DEF CheckChld, NoTerm
  <2>2. \A p \in Pids : pc'[p] \in Servers => pc[p] \in Servers /\ children'[p] = children[p]
    BY <1>1, <1>4 DEF CheckChld, TypeOK
  <2>3. phase' = phase \/ (phase \in Up /\ phase' = "leaving" /\ hup)
    BY <1>4 DEF CheckChld, Up
  <2> QED
    BY <2>1, <2>2, <2>3, EndingListed
<1>5. ASSUME NEW sig \in Signals, Signal(sig) PROVE NoTerm' /\ HandedOver'
  <2>1. NoTerm'
    BY <1>5 DEF Signal, NoTerm, LeavesChildren
  <2>2. \A p \in Pids : pc'[p] \in Servers => pc[p] \in Servers
    BY <1>1, <1>5 DEF Signal
  <2>3. UNCHANGED <<hup, children, env, leave>> /\ (phase' = phase \/ (phase = "boot" /\ phase' = "dead"))
    BY <1>5 DEF Signal
  <2>4. CASE phase' = phase
    BY <2>1, <2>2, <2>3, <2>4, EndingListed
  <2>5. CASE phase = "boot" /\ phase' = "dead"
    <3>1. ListedIn(env)'
      BY <2>2, <2>3, <2>5 DEF OverInv, HandedOver, ListedIn
    <3> QED
      BY <2>1, <2>5, <3>1 DEF HandedOver, Up
  <2> QED
    BY <2>3, <2>4, <2>5
<1> QED
  BY <1>2, <1>3, <1>4, <1>5

\* sig_hup writes a good table, or finds nobody to write down.
LEMMA SigHupListed ==
  ASSUME OverInv, LeavesChildren, SigHup
  PROVE  NoTerm' /\ HandedOver'
<1>1. /\ phase \in Up /\ hup' = TRUE /\ env' = Inherited
      /\ phase' = IF phase = "loop" THEN "leaving" ELSE phase
      /\ UNCHANGED <<children, pc, pending, leave>> /\ flags' \subseteq flags
  BY DEF SigHup
<1>2. ListedIn(children)
  BY <1>1 DEF OverInv, HandedOver
<1>3. ListedIn(env')
  <2>1. CASE Entries # {}
    BY <1>1, <1>2, <2>1 DEF Inherited, LeavesChildren
  <2>2. CASE Entries = {}
    BY <1>2, <2>2 DEF ListedIn, Entries
  <2> QED
    BY <2>1, <2>2
<1>4. ListedIn(children)' /\ ListedIn(env)'
  BY <1>1, <1>2, <1>3 DEF ListedIn
<1>5. NoTerm'
  BY <1>1 DEF OverInv, NoTerm
<1>6. phase' \in Up
  BY <1>1 DEF Up
<1> QED
  BY <1>1, <1>4, <1>5, <1>6 DEF HandedOver, Up

\* A fork makes an entry, and after a HUP a child that is to leave.
LEMMA ForkListed ==
  ASSUME OverInv, NEW F \in SUBSET Pids,
         UNCHANGED <<flags, hup, env, pending>>, phase' # "down", phase' = "leaving" => hup,
         phase \in Up, phase' # "boot",
         \A p \in F : leave'[p] = hup,
         \A p \in Pids \ F : pc'[p] \in Servers => pc[p] \in Servers /\ leave'[p] = leave[p],
         phase' \in Up => /\ \A p \in F : children'[p] # "none"
                          /\ \A p \in Pids \ F : pc'[p] \in Servers => children'[p] = children[p]
  PROVE  NoTerm' /\ HandedOver'
<1>1. NoTerm'
  BY DEF OverInv, NoTerm
<1>2. phase' \in Up => ListedIn(children)'
  BY DEF OverInv, HandedOver, ListedIn
<1>3. hup' => ListedIn(env)'
  BY DEF OverInv, HandedOver, ListedIn
<1> QED
  BY <1>1, <1>2, <1>3 DEF HandedOver

\* The forks of loop and of the parent's loop.
LEMMA ForksListed ==
  ASSUME OverInv, ForkInitial \/ Coordinate
  PROVE  NoTerm' /\ HandedOver'
<1> TypeOK
  BY DEF OverInv
<1>1. CASE ForkInitial
  <2>1. PICK p \in Free : Forked({p}, "fresh") /\ children' = [children EXCEPT ![p] = "processing"]
    BY <1>1 DEF ForkInitial
  <2>2. {p} \in SUBSET Pids /\ leave'[p] = hup /\ children'[p] = "processing"
    BY <2>1 DEF Free, Forked, TypeOK
  <2>3. \A q \in Pids \ {p} : pc'[q] = pc[q] /\ leave'[q] = leave[q] /\ children'[q] = children[q]
    BY <2>1 DEF Forked, TypeOK
  <2>4. phase = "start" /\ phase' = "start" /\ UNCHANGED <<flags, hup, env, pending>>
    BY <1>1 DEF ForkInitial
  <2> QED
    BY <2>2, <2>3, <2>4, ForkListed DEF Up
<1>2. ASSUME NEW due, Pass(due) PROVE NoTerm' /\ HandedOver'
  <2>1. PICK F \in SUBSET Free, D \in SUBSET Free :
          /\ children' = [p \in Pids |-> IF p \in F THEN "processing"
                                         ELSE IF p \in D THEN "dequeue" ELSE Alive(due)[p]]
          /\ pc' = [p \in Pids |-> IF p \in F THEN "born" ELSE IF p \in D THEN "dequeue" ELSE pc[p]]
          /\ leave' = [p \in Pids |-> IF p \in F THEN hup ELSE leave[p]]
    BY <1>2 DEF Pass
  <2>2. phase = "loop" /\ phase' = "loop" /\ UNCHANGED <<flags, hup, env, pending>>
    BY <1>2 DEF Pass
  <2>3. F \in SUBSET Pids /\ \A p \in F : leave'[p] = hup /\ children'[p] # "none"
    BY <2>1 DEF Free
  <2>4. \A p \in Pids \ F : pc'[p] \in Servers =>
          pc[p] \in Servers /\ leave'[p] = leave[p] /\ children'[p] = children[p]
    BY <2>1 DEF Servers, Alive
  <2> QED
    BY <2>2, <2>3, <2>4, ForkListed DEF Up
<1>3. ASSUME NEW due, Stub(due) PROVE NoTerm' /\ HandedOver'
  <2>1. PICK F \in SUBSET Free :
          /\ pc' = Reaped([p \in Pids |-> IF p \in F THEN "born" ELSE pc[p]])
          /\ leave' = [p \in Pids |-> IF p \in F THEN hup ELSE leave[p]]
    BY <1>3 DEF Stub
  <2>2. phase = "loop" /\ phase' = "dead" /\ UNCHANGED <<flags, hup, env, pending>>
    BY <1>3 DEF Stub
  <2>3. F \in SUBSET Pids /\ \A p \in F : leave'[p] = hup
    BY <2>1 DEF Free
  <2>4. \A p \in Pids \ F : pc'[p] \in Servers => pc[p] \in Servers /\ leave'[p] = leave[p]
    BY <2>1 DEF Servers, Reaped
  <2> QED
    BY <2>2, <2>3, <2>4, ForkListed DEF Up
<1> QED
  BY <1>1, <1>2, <1>3 DEF Coordinate

\* The restart itself: the table is forgotten, HUP_CHILDREN is not, and the next life
\* begins with it.
LEMMA RestartListed ==
  ASSUME OverInv, LeavesChildren, Terminate \/ Leave \/ ForkFails \/ Loop
  PROVE  NoTerm' /\ HandedOver'
<1>1. CASE Leave
  <2>1. hup /\ LeaveOpen
    BY <1>1 DEF Leave, OverInv, HandedOver, LeavesChildren
  <2>2. /\ pending' = Sent({p \in Pids : children[p] # "none"}, "HUP", pc)
        /\ pc' = pc /\ phase' = "boot" /\ flags' = {} /\ hup' = FALSE /\ env' = env /\ leave' = leave
    BY <1>1, <2>1 DEF Leave, ServerClose, Exec
  <2>3. NoTerm'
    BY <2>2 DEF OverInv, NoTerm, Sent
  <2>4. ListedIn(env)'
    BY <2>1, <2>2 DEF OverInv, HandedOver, ListedIn
  <2> QED
    BY <2>2, <2>3, <2>4 DEF HandedOver, Up
<1>2. CASE Loop
  BY <1>2 DEF Loop, OverInv, HandedOver, NoTerm, ListedIn, Up
<1>3. CASE Terminate \/ ForkFails
  BY <1>3 DEF Terminate, ForkFails, BadFork, OverInv, NoTerm, LeavesChildren
<1> QED
  BY <1>1, <1>2, <1>3

\* Every step keeps it.
LEMMA StepListed == LeavesChildren /\ OverInv /\ [Next]_vars => OverInv'
<1> SUFFICES ASSUME LeavesChildren, OverInv, [Next]_vars PROVE OverInv'
  OBVIOUS
<1>1. CASE Starts \/ Handles \/ Coordinate \/ ForkFails \/ \E sig \in Signals : Signal(sig)
  <2>1. TypeOK'
    BY <1>1, ParentTypes DEF OverInv
  <2>2. NoTerm' /\ HandedOver'
    BY <1>1, HandlingListed, SigHupListed, ForksListed, RestartListed DEF Starts, Handles
  <2> QED
    BY <2>1, <2>2 DEF OverInv
<1>2. ASSUME NEW p \in Pids,
             \/ ChildStep(p) \/ Accept(p) \/ AcceptFails(p)
             \/ NextClient(p) \/ LastClient(p) \/ Crash(p)
      PROVE  OverInv'
  BY <1>2, ChildTypes, ChildListed DEF OverInv
<1>3. CASE UNCHANGED vars
  BY <1>3 DEF vars, OverInv, TypeOK, NoTerm, HandedOver, ListedIn
<1>4. CASE Terminated
  BY <1>3, <1>4 DEF Terminated
<1> QED
  BY <1>1, <1>2, <1>3, <1>4 DEF Next

-----------------------------------------------------------------------------
(* The theorems.                                                           *)

\* Every step keeps the invariant.
LEMMA StepInv == IInv /\ [Next]_vars => IInv'
<1> SUFFICES ASSUME IInv, [Next]_vars PROVE IInv'
  OBVIOUS
<1> TypeOK /\ LeftInStart
  BY DEF IInv
<1>1. CASE SigChld \/ RunParent \/ CheckChld \/ SigHup \/ \E sig \in Signals : Signal(sig)
  <2>1. TypeOK'
    BY <1>1, ParentTypes DEF Starts, Handles
  <2> QED
    BY <1>1, <2>1, HandlingEnds, EndingKeeps
<1>2. CASE Loop
  BY <1>2, ParentTypes, LoopKeeps DEF Starts
<1>3. CASE ForkInitial
  BY <1>3, ParentTypes, ForkInitialKeeps DEF Starts
<1>4. CASE Terminate \/ Leave
  BY <1>4, ParentTypes, PlainCloseKeeps DEF Handles, Terminate, Leave
<1>5. CASE Coordinate
  BY <1>5, ParentTypes, PassKeeps, StubKeeps DEF Coordinate
<1>6. CASE ForkFails
  BY <1>6, ParentTypes, BadForkKeeps DEF ForkFails
<1>7. ASSUME NEW p \in Pids,
             \/ ChildStep(p) \/ Accept(p) \/ AcceptFails(p)
             \/ NextClient(p) \/ LastClient(p) \/ Crash(p)
      PROVE  IInv'
  BY <1>7, ChildTypes, ChildEnds, EndingKeeps
<1>8. CASE UNCHANGED vars
  BY <1>8 DEF vars, IInv, TypeOK, OursTracked, Counted, LeftInStart, BootIsClean,
              OurServers, OurDequeue, Ours
<1>9. CASE Terminated
  BY <1>8, <1>9 DEF Terminated
<1> QED
  BY <1>1, <1>2, <1>3, <1>4, <1>5, <1>6, <1>7, <1>8, <1>9 DEF Next, Starts, Handles

\* The invariant holds throughout.
THEOREM Invariant == Spec => []IInv
BY InitInv, StepInv, PTL DEF Spec

\* Every variable keeps its type.
THEOREM TypeCorrect == Spec => []TypeOK
<1>1. IInv => TypeOK
  BY DEF IInv
<1> QED
  BY <1>1, Invariant, PTL

\* A child forked in this life of the parent has an entry of its kind until it has
\* ended, through failed forks, closes and restarts.
THEOREM OursAlwaysTracked == Spec => []OursTracked
<1>1. IInv => OursTracked
  BY DEF IInv
<1> QED
  BY <1>1, Invariant, PTL

\* One life of the parent has at most max_servers children and max_dequeue dequeue
\* processes at once.
THEOREM OursAlwaysBounded == Spec => []OursBounded
<1>1. IInv => OursBounded
  <2> SUFFICES ASSUME IInv PROVE OursBounded
    OBVIOUS
  <2>1. Cardinality(OurServers) \in Nat /\ left \in Nat
    BY OursArePids, Finite, NumbersAssumption DEF IInv, TypeOK
  <2>2. Cardinality(OurServers) <= Max /\ Cardinality(OurDequeue) <= MaxDequeue
    BY <2>1, NumbersAssumption DEF IInv, Counted
  <2> QED
    BY <2>2 DEF OursBounded, OurServers, OurDequeue
<1> QED
  BY <1>1, Invariant, PTL

\* With restarts by HUP that leave the children open, every child that takes clients and
\* is not about to stop is in the table of the parent, through any number of restarts,
\* deaths and signals in between: what sig_hup writes and loop reads misses nobody.
THEOREM AlwaysTracked == LeavesChildren => (Spec => []AllTracked)
<1>1. Init => OverInv
  BY InitInv DEF Init, IInv, OverInv, NoTerm, HandedOver, ListedIn, Servers, Up
<1>2. LeavesChildren /\ OverInv /\ [Next]_vars => OverInv'
  BY StepListed
<1>3. OverInv => AllTracked
  BY DEF OverInv, HandedOver, ListedIn, AllTracked
<1> SUFFICES ASSUME LeavesChildren PROVE Spec => []AllTracked
  OBVIOUS
<1>4. OverInv /\ [Next]_vars => OverInv'
  BY <1>2
<1> QED
  BY <1>1, <1>3, <1>4, PTL DEF Spec
=============================================================================
