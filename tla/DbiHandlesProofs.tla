-------------------------- MODULE DbiHandlesProofs --------------------------
(***************************************************************************)
(* Proofs about DbiHandles, for any finite set of statement handles.       *)
(*                                                                         *)
(* The inductive invariant has four parts: the counts of each process, the *)
(* inheritance of AutoInactiveDestroy, and, as long as the child cannot    *)
(* meddle, what the session holds for the handles of the parent.           *)
(***************************************************************************)
EXTENDS DbiHandles, FiniteSetTheorems, TLAPS

ActiveSths(c) == {h \in c.set \cap Sths : "ACTIVE" \in c.flags[h]}

\* The handles c of a process, and the counts the database handle keeps of them.
Counted(c) ==
  /\ c \in ProcType
  /\ ~c.up => c.set = {}
  /\ c.up /\ ~c.dirty => /\ c.kids = Cardinality(c.set \cap Sths)
                         /\ c.active_kids = Cardinality(ActiveSths(c))

\* AutoInactiveDestroy is on every handle once it was given to connect.
Marked(a, c) == "AIADESTROY" \in a => \A h \in c.set : "AIADESTROY" \in c.flags[h]

\* What the session holds for the parent's handles.
Backed ==
  /\ ~session.stray /\ ~session.implicit
  /\ ACTIVE(Mine, "dbh") =>
       /\ session.open
       /\ session.pending => "AutoCommit" \notin Mine.flags["dbh"]
       /\ \A h \in Sths \cap Mine.set : ACTIVE(Mine, h) => h \in session.cursors

-----------------------------------------------------------------------------
(***************************************************************************)
(* The operators of DBIXS.h on the handles of one process.                 *)
(***************************************************************************)

\* The sets that are counted are finite.
LEMMA Finite ==
  ASSUME NEW c \in ProcType
  PROVE  /\ IsFiniteSet(c.set \cap Sths)
         /\ IsFiniteSet(ActiveSths(c))
<1>1. IsFiniteSet(c.set \cap Sths)
  BY SthsAssumption, FS_Subset
<1>2. ActiveSths(c) \subseteq c.set \cap Sths
  BY DEF ActiveSths
<1> QED
  BY <1>1, <1>2, FS_Subset

\* A change of flags that leaves ACTIVE alone on every handle leaves the counts exact.
LEMMA Reflagged ==
  ASSUME NEW c, Counted(c), NEW f \in [Handles -> SUBSET Flags],
         \A h \in c.set : "ACTIVE" \in f[h] <=> "ACTIVE" \in c.flags[h]
  PROVE  Counted([c EXCEPT !.flags = f])
<1> DEFINE d == [c EXCEPT !.flags = f]
<1>1. /\ d \in ProcType /\ d.flags = f /\ d.set = c.set /\ d.up = c.up
      /\ d.dirty = c.dirty /\ d.kids = c.kids /\ d.active_kids = c.active_kids
  BY DEF Counted, ProcType
<1>2. ActiveSths(d) = ActiveSths(c)
  BY <1>1 DEF ActiveSths
<1> QED
  BY <1>1, <1>2 DEF Counted

\* ACTIVE_on of a statement handle that is set up, active already or not.
LEMMA CountedOn ==
  ASSUME NEW c, Counted(c), NEW h \in Sths \cap c.set
  PROVE  Counted(ACTIVE_on(c, h))
<1> DEFINE d == ACTIVE_on(c, h)
           g == [c.flags EXCEPT ![h] = @ \cup {"ACTIVE"}]
<1>0. h \in Handles /\ h # "dbh" /\ c \in ProcType /\ c.up
  BY SthsAssumption DEF Handles, Counted
<1>1. g \in [Handles -> SUBSET Flags]
  BY <1>0 DEF Flags, ProcType
<1>2. c.active_kids \in Nat /\ c.active_kids + 1 \in Nat
  BY <1>0 DEF ProcType
<1>3. /\ d \in ProcType /\ d.flags = g /\ d.set = c.set /\ d.up = c.up
      /\ d.dirty = c.dirty /\ d.kids = c.kids
      /\ d.active_kids = IF ~ACTIVE(c, h) /\ ~c.dirty THEN c.active_kids + 1
                                                      ELSE c.active_kids
  BY <1>0, <1>1, <1>2 DEF ACTIVE_on, DBIc_on, ProcType
<1>4. ActiveSths(d) = ActiveSths(c) \cup {h}
  BY <1>0, <1>3 DEF ActiveSths, ProcType
<1>5. h \in ActiveSths(c) <=> ACTIVE(c, h)
  BY DEF ActiveSths, ACTIVE
<1>6. Cardinality(ActiveSths(d)) = IF ACTIVE(c, h) THEN Cardinality(ActiveSths(c))
                                                  ELSE Cardinality(ActiveSths(c)) + 1
  BY <1>0, <1>4, <1>5, Finite, FS_AddElement
<1> QED
  BY <1>0, <1>3, <1>6 DEF Counted

\* ACTIVE_off of a statement handle that is set up, active or not.
LEMMA CountedOff ==
  ASSUME NEW c, Counted(c), NEW h \in Sths \cap c.set
  PROVE  /\ Counted(ACTIVE_off(c, h))
         /\ ACTIVE_off(c, h).set = c.set /\ ACTIVE_off(c, h).dirty = c.dirty
         /\ ACTIVE_off(c, h).up /\ ACTIVE_off(c, h).kids = c.kids
         /\ ACTIVE_off(c, h).flags = [c.flags EXCEPT ![h] = @ \ {"ACTIVE"}]
<1> DEFINE d == ACTIVE_off(c, h)
           g == [c.flags EXCEPT ![h] = @ \ {"ACTIVE"}]
<1>0. h \in Handles /\ h # "dbh" /\ c \in ProcType /\ c.up
  BY SthsAssumption DEF Handles, Counted
<1>1. g \in [Handles -> SUBSET Flags]
  BY <1>0 DEF Flags, ProcType
<1>2. h \in ActiveSths(c) <=> ACTIVE(c, h)
  BY DEF ActiveSths, ACTIVE
<1>3. Cardinality(ActiveSths(c)) \in Nat
  BY <1>0, Finite, FS_CardinalityType
<1>4. ACTIVE(c, h) => Cardinality(ActiveSths(c)) # 0
  BY <1>0, <1>2, Finite, FS_EmptySet
<1>5. ACTIVE(c, h) /\ ~c.dirty => c.active_kids - 1 \in Nat
  BY <1>0, <1>3, <1>4 DEF Counted
<1>6. /\ d \in ProcType /\ d.flags = g /\ d.set = c.set /\ d.up = c.up
      /\ d.dirty = c.dirty /\ d.kids = c.kids
      /\ d.active_kids = IF ACTIVE(c, h) /\ ~c.dirty THEN c.active_kids - 1
                                                     ELSE c.active_kids
  BY <1>0, <1>1, <1>5 DEF ACTIVE_off, DBIc_off, ProcType
<1>7. ActiveSths(d) = ActiveSths(c) \ {h}
  BY <1>0, <1>6 DEF ActiveSths, ProcType
<1>8. Cardinality(ActiveSths(d)) = IF ACTIVE(c, h) THEN Cardinality(ActiveSths(c)) - 1
                                                  ELSE Cardinality(ActiveSths(c))
  BY <1>0, <1>2, <1>7, Finite, FS_RemoveElement
<1>9. Counted(d)
  BY <1>0, <1>6, <1>8 DEF Counted
<1> QED
  BY <1>0, <1>6, <1>9

\* The set-up of a new statement handle, and the flags it inherits.
LEMMA CountedSetUp ==
  ASSUME NEW c, Counted(c), c.up, NEW h \in Sths \ c.set
  PROVE  /\ Counted(SetUp(c, h))
         /\ SetUp(c, h).set = c.set \cup {h}
         /\ SetUp(c, h).up = c.up
         /\ SetUp(c, h).flags = [c.flags EXCEPT ![h] = c.flags["dbh"] \ INHERITMASK]
<1> DEFINE d == SetUp(c, h)
           g == [c.flags EXCEPT ![h] = c.flags["dbh"] \ INHERITMASK]
<1>0. h \in Handles /\ h # "dbh" /\ "dbh" \in Handles /\ c \in ProcType
  BY SthsAssumption DEF Handles, Counted
<1>1. g \in [Handles -> SUBSET Flags]
  BY <1>0 DEF Flags, ProcType
<1>2. c.kids \in Nat /\ c.kids + 1 \in Nat /\ c.set \cup {h} \in SUBSET Handles
  BY <1>0 DEF ProcType
<1>3. /\ d \in ProcType /\ d.flags = g /\ d.set = c.set \cup {h} /\ d.up = c.up
      /\ d.dirty = c.dirty /\ d.kids = c.kids + 1 /\ d.active_kids = c.active_kids
  BY <1>0, <1>1, <1>2 DEF SetUp, ProcType
<1>4. ActiveSths(d) = ActiveSths(c)
  <2>1. "ACTIVE" \notin d.flags[h]
    BY <1>0, <1>3 DEF INHERITMASK, ProcType
  <2>2. \A k \in Handles \ {h} : d.flags[k] = c.flags[k]
    BY <1>0, <1>3 DEF ProcType
  <2>3. ActiveSths(d) \subseteq ActiveSths(c)
    BY <1>3, <2>1, <2>2 DEF ActiveSths, Handles
  <2>4. ActiveSths(c) \subseteq ActiveSths(d)
    BY <1>3, <2>2 DEF ActiveSths, Handles
  <2> QED
    BY <2>3, <2>4
<1>5. Cardinality(d.set \cap Sths) = Cardinality(c.set \cap Sths) + 1
  <2>1. d.set \cap Sths = (c.set \cap Sths) \cup {h}
    BY <1>3
  <2> QED
    BY <1>0, <2>1, Finite, FS_AddElement
<1> QED
  BY <1>3, <1>4, <1>5 DEF Counted

\* The dispatcher adds InactiveDestroy at most.
LEMMA CountedDispatched ==
  ASSUME NEW c, Counted(c), NEW h \in c.set, NEW p \in Procs
  PROVE  /\ Counted(Dispatched(c, h, p))
         /\ Dispatched(c, h, p).set = c.set /\ Dispatched(c, h, p).up
         /\ Dispatched(c, h, p).dirty = c.dirty
         /\ \A k \in Handles : /\ c.flags[k] \subseteq Dispatched(c, h, p).flags[k]
                               /\ Dispatched(c, h, p).flags[k] \subseteq c.flags[k] \cup {"IADESTROY"}
         /\ (p = "child" /\ "AIADESTROY" \in c.flags[h])
               => "IADESTROY" \in Dispatched(c, h, p).flags[h]
<1> DEFINE g == [c.flags EXCEPT ![h] = @ \cup {"IADESTROY"}]
           d == [c EXCEPT !.flags = g]
<1>0. h \in Handles /\ c \in ProcType /\ c.up
  BY DEF Handles, Counted, ProcType
<1>1. CASE "AIADESTROY" \in c.flags[h] /\ p # "parent"
  <2>1. g \in [Handles -> SUBSET Flags]
    BY <1>0 DEF Flags, ProcType
  <2>2. d = DBIc_on(c, h, "IADESTROY")
    BY <1>0 DEF DBIc_on, ProcType
  <2>3. \A k \in c.set : "ACTIVE" \in g[k] <=> "ACTIVE" \in c.flags[k]
    BY <1>0 DEF ProcType
  <2>4. Counted(d)
    BY <2>1, <2>3, Reflagged
  <2>5. d = Dispatched(c, h, p)
    BY <1>1, <2>2 DEF Dispatched
  <2>6. d.set = c.set /\ d.up /\ d.dirty = c.dirty /\ d.flags = g
    BY <1>0 DEF ProcType
  <2>7. /\ \A k \in Handles : c.flags[k] \subseteq g[k] /\ g[k] \subseteq c.flags[k] \cup {"IADESTROY"}
        /\ "IADESTROY" \in g[h]
    BY <1>0 DEF ProcType
  <2> HIDE DEF g, d
  <2> QED
    BY <2>4, <2>5, <2>6, <2>7
<1>2. CASE ~("AIADESTROY" \in c.flags[h] /\ p # "parent")
  BY <1>0, <1>2 DEF Dispatched, Procs
<1> QED
  BY <1>1, <1>2

\* A handle is cleared: the database handle, or a statement handle with its counts.
LEMMA CountedCleared ==
  ASSUME NEW c, Counted(c), NEW h \in c.set
  PROVE  /\ Counted(ClearCom(c, h))
         /\ ClearCom(c, h).set = c.set \ {h}
         /\ ClearCom(c, h).up
         /\ ClearCom(c, h).flags[h] = {}
         /\ \A k \in Handles \ {h} : ClearCom(c, h).flags[k] = c.flags[k]
<1> DEFINE off == ACTIVE_off(c, h)
           d == ClearCom(c, h)
           g == [off.flags EXCEPT ![h] = {}]
<1>0. h \in Handles /\ c \in ProcType /\ c.up
  BY DEF Handles, Counted, ProcType
<1>1. CASE h = "dbh"
  <2>1. /\ off \in ProcType /\ off.set = c.set /\ off.dirty = c.dirty /\ off.up
        /\ off.kids = c.kids /\ off.active_kids = c.active_kids
        /\ off.flags = [c.flags EXCEPT !["dbh"] = @ \ {"ACTIVE"}]
    BY <1>0, <1>1 DEF ACTIVE_off, DBIc_off, ProcType
  <2>2. /\ g \in [Handles -> SUBSET Flags]
        /\ \A k \in Handles \ {h} : g[k] = c.flags[k]
        /\ g[h] = {}
    BY <1>0, <1>1, <2>1 DEF ProcType
  <2> HIDE DEF off
  <2>3. /\ d \in ProcType /\ d.set = c.set \ {h} /\ d.dirty = c.dirty /\ d.up
        /\ d.kids = c.kids /\ d.active_kids = c.active_kids /\ d.flags = g
    BY <1>0, <1>1, <2>1, <2>2, ZenonT(30) DEF ClearCom, ProcType, off
  <2>4. d.set \cap Sths = c.set \cap Sths
    BY <1>1, <2>3, SthsAssumption
  <2>5. \A k \in Sths : d.flags[k] = c.flags[k]
    BY <1>1, <2>2, <2>3, SthsAssumption DEF Handles
  <2>6. ActiveSths(d) = ActiveSths(c)
    BY <2>4, <2>5 DEF ActiveSths
  <2> QED
    BY <2>2, <2>3, <2>4, <2>6 DEF Counted
<1>2. CASE h # "dbh"
  <2>0. h \in Sths \cap c.set
    BY <1>0, <1>2 DEF Handles
  <2>1. /\ Counted(off) /\ off.set = c.set /\ off.dirty = c.dirty /\ off.up /\ off.kids = c.kids
        /\ off.flags = [c.flags EXCEPT ![h] = @ \ {"ACTIVE"}]
    BY <2>0, CountedOff
  <2>2. off \in ProcType
    BY <2>1 DEF Counted
  <2>3. /\ g \in [Handles -> SUBSET Flags]
        /\ \A k \in Handles \ {h} : g[k] = c.flags[k] /\ off.flags[k] = c.flags[k]
        /\ "ACTIVE" \notin off.flags[h] /\ g[h] = {}
    BY <1>0, <2>1, <2>2 DEF ProcType
  <2>4. IsFiniteSet(c.set \cap Sths) /\ Cardinality(c.set \cap Sths) \in Nat
    BY <1>0, Finite, FS_CardinalityType
  <2>5. Cardinality(c.set \cap Sths) # 0
    BY <2>0, <2>4, FS_EmptySet
  <2>6. ~c.dirty => c.kids - 1 \in Nat
    BY <1>0, <2>4, <2>5 DEF Counted
  <2> HIDE DEF off
  <2>7. /\ d \in ProcType /\ d.set = c.set \ {h} /\ d.dirty = c.dirty /\ d.up
        /\ d.kids = IF ~c.dirty THEN c.kids - 1 ELSE c.kids
        /\ d.active_kids = off.active_kids /\ d.flags = g
    BY <1>0, <1>2, <2>1, <2>2, <2>3, <2>6 DEF ClearCom, ProcType, off
  <2>8. ActiveSths(d) = ActiveSths(off)
    BY <1>0, <2>1, <2>3, <2>7 DEF ActiveSths, Handles
  <2>9. Cardinality(d.set \cap Sths) = Cardinality(c.set \cap Sths) - 1
    <3>1. d.set \cap Sths = (c.set \cap Sths) \ {h}
      BY <2>7
    <3> QED
      BY <2>0, <2>4, <3>1, FS_RemoveElement
  <2> QED
    BY <1>0, <2>1, <2>3, <2>7, <2>8, <2>9 DEF Counted
<1> QED
  BY <1>1, <1>2

-----------------------------------------------------------------------------
(***************************************************************************)
(* The steps, seen from the handles.                                       *)
(***************************************************************************)

HandlesInv ==
  /\ attrs \subseteq {"AIADESTROY", "AutoCommit"}
  /\ DOMAIN proc = Procs /\ proc = [p \in Procs |-> proc[p]]
  /\ \A p \in Procs : Counted(proc[p]) /\ Marked(attrs, proc[p])

\* A step that gives one process the handles c.
LEMMA Placed ==
  ASSUME HandlesInv, attrs' = attrs, NEW q \in Procs, NEW c, Counted(c), Marked(attrs, c),
         proc' = [proc EXCEPT ![q] = c]
  PROVE  HandlesInv'
<1>1. DOMAIN proc' = Procs /\ proc' = [p \in Procs |-> proc'[p]]
  BY DEF HandlesInv
<1>2. \A p \in Procs : proc'[p] = IF p = q THEN c ELSE proc[p]
  BY DEF HandlesInv
<1>3. ASSUME NEW p \in Procs
      PROVE  Counted(proc'[p]) /\ Marked(attrs', proc'[p])
  <2>1. CASE p = q
    BY <1>2, <2>1
  <2>2. CASE p # q
    BY <1>2, <2>2 DEF HandlesInv
  <2> QED
    BY <2>1, <2>2
<1> QED
  BY <1>1, <1>3 DEF HandlesInv

\* connect makes the database handle and no statement handle.
LEMMA HandlesInit == Init => HandlesInv
<1> SUFFICES ASSUME Init PROVE HandlesInv
  OBVIOUS
<1>1. \A p \in Procs :
        /\ proc[p] \in ProcType
        /\ proc[p].set \cap Sths = {} /\ proc[p].up = (p = "parent")
        /\ proc[p].set = IF p = "parent" THEN {"dbh"} ELSE {}
        /\ proc[p].kids = 0 /\ proc[p].active_kids = 0
        /\ "AIADESTROY" \in attrs => \A h \in proc[p].set : "AIADESTROY" \in proc[p].flags[h]
  BY SthsAssumption DEF Init, ProcType, Procs, Handles, Flags
<1>2. \A p \in Procs : ActiveSths(proc[p]) = {}
  BY <1>1 DEF ActiveSths
<1>3. Cardinality({}) = 0
  BY FS_EmptySet
<1>4. \A p \in Procs : Counted(proc[p]) /\ Marked(attrs, proc[p])
  BY <1>1, <1>2, <1>3 DEF Counted, Marked
<1> QED
  BY <1>4 DEF Init, HandlesInv

\* Every step of either process keeps both copies of the counts and marks.
LEMMA HandlesStep == HandlesInv /\ [Next]_vars => HandlesInv'
<1> SUFFICES ASSUME HandlesInv, [Next]_vars PROVE HandlesInv'
  OBVIOUS
<1>0. "parent" \in Procs /\ "child" \in Procs /\ "dbh" \in Handles
  BY DEF Procs, Handles
<1>a. Counted(Mine) /\ Marked(attrs, Mine) /\ Mine \in ProcType
  BY <1>0 DEF HandlesInv, Mine, Counted
<1>b. Works => Mine.up
  BY DEF Works, Mine
<1>1. ASSUME NEW h \in Sths, Prepare(h) PROVE HandlesInv'
  <2>1. Mine.up /\ h \in Sths \ Mine.set /\ "dbh" \in Mine.set
    BY <1>1 DEF Prepare, Usable, Works, Mine
  <2>2. Counted(SetUp(Mine, h)) /\ SetUp(Mine, h).set = Mine.set \cup {h}
        /\ SetUp(Mine, h).flags = [Mine.flags EXCEPT ![h] = Mine.flags["dbh"] \ INHERITMASK]
    BY <1>a, <2>1, CountedSetUp
  <2>3. Marked(attrs, SetUp(Mine, h))
    <3>1. \A k \in Mine.set : SetUp(Mine, h).flags[k] = Mine.flags[k]
      BY <1>a, <2>1, <2>2 DEF ProcType
    <3>2. SetUp(Mine, h).flags[h] = Mine.flags["dbh"] \ INHERITMASK
      BY <1>a, <2>2 DEF ProcType, Handles
    <3>3. "AIADESTROY" \notin INHERITMASK
      BY DEF INHERITMASK
    <3> QED
      BY <1>a, <2>1, <2>2, <3>1, <3>2, <3>3 DEF Marked
  <2> QED
    BY <1>0, <1>1, <2>2, <2>3, Placed DEF Prepare, Mine
<1>2. ASSUME NEW h \in Sths, Execute(h) PROVE HandlesInv'
  <2>1. h \in Sths \cap Mine.set
    BY <1>2 DEF Execute
  <2>2. Counted(ACTIVE_on(Mine, h))
    BY <1>a, <2>1, CountedOn
  <2>3. Marked(attrs, ACTIVE_on(Mine, h))
    BY <1>a, <2>1 DEF Marked, ACTIVE_on, DBIc_on, ProcType, Handles
  <2> QED
    BY <1>0, <1>2, <2>2, <2>3, Placed DEF Execute, Mine
<1>3. ASSUME NEW h \in Sths, FetchLast(h) \/ Finish(h) PROVE HandlesInv'
  <2>1. h \in Sths \cap Mine.set
    BY <1>3 DEF FetchLast, Finish
  <2>2. Counted(ACTIVE_off(Mine, h)) /\ ACTIVE_off(Mine, h).set = Mine.set
        /\ ACTIVE_off(Mine, h).flags = [Mine.flags EXCEPT ![h] = @ \ {"ACTIVE"}]
    BY <1>a, <2>1, CountedOff
  <2>3. Marked(attrs, ACTIVE_off(Mine, h))
    BY <1>a, <2>1, <2>2 DEF Marked, ProcType, Handles
  <2> QED
    BY <1>0, <1>3, <2>2, <2>3, Placed DEF FetchLast, Finish, Mine
<1>4. ASSUME Do \/ UNCHANGED vars PROVE HandlesInv'
  <2>1. proc' = proc /\ attrs' = attrs
    BY <1>4 DEF Do, vars
  <2> QED
    BY <2>1 DEF HandlesInv
<1>5. ASSUME NEW f \in SUBSET Flags,
             proc' = [proc EXCEPT !["parent"].flags["dbh"] = f], attrs' = attrs,
             "ACTIVE" \in f <=> "ACTIVE" \in Mine.flags["dbh"],
             "AIADESTROY" \in Mine.flags["dbh"] => "AIADESTROY" \in f
      PROVE  HandlesInv'
  <2> DEFINE g == [Mine.flags EXCEPT !["dbh"] = f]
             d == [Mine EXCEPT !.flags = g]
  <2>1. g \in [Handles -> SUBSET Flags] /\ \A k \in Mine.set : "ACTIVE" \in g[k] <=> "ACTIVE" \in Mine.flags[k]
    BY <1>0, <1>a, <1>5 DEF ProcType
  <2>2. Counted(d)
    BY <1>a, <2>1, Reflagged
  <2>3. Marked(attrs, d)
    BY <1>0, <1>a, <1>5 DEF Marked, ProcType
  <2>4. proc' = [proc EXCEPT !["parent"] = d]
    BY <1>0, <1>5 DEF HandlesInv, Mine
  <2> HIDE DEF d
  <2> QED
    BY <1>0, <1>5, <2>2, <2>3, <2>4, Placed
<1>6. ASSUME BeginWork \/ Commit \/ Rollback PROVE HandlesInv'
  <2>0. DOMAIN proc = Procs /\ Mine.flags["dbh"] \in SUBSET Flags
    BY <1>0, <1>a DEF HandlesInv, ProcType
  <2>1. CASE BeginWork
    <3> DEFINE f == (Mine.flags["dbh"] \ {"AutoCommit"}) \cup {"BegunWork"}
    <3>1. proc' = [proc EXCEPT !["parent"].flags["dbh"] = f] /\ attrs' = attrs
      BY <2>1 DEF BeginWork, Mine
    <3>2. f \in SUBSET Flags
      BY <2>0 DEF Flags
    <3> QED
      BY <1>5, <3>1, <3>2
  <2>2. CASE Commit \/ Rollback
    <3> DEFINE f == WorkDone(Mine.flags["dbh"])
    <3>1. proc' = [proc EXCEPT !["parent"].flags["dbh"] = f] /\ attrs' = attrs
      BY <2>2 DEF Commit, Rollback, Mine
    <3>2. f \in SUBSET Flags
      BY <2>0 DEF Flags, WorkDone
    <3>3. /\ "ACTIVE" \in f <=> "ACTIVE" \in Mine.flags["dbh"]
          /\ "AIADESTROY" \in Mine.flags["dbh"] => "AIADESTROY" \in f
      BY DEF WorkDone
    <3> HIDE DEF f
    <3> QED
      BY <1>5, <3>1, <3>2, <3>3
  <2> QED
    BY <1>6, <2>1, <2>2
<1>7. ASSUME Disconnect PROVE HandlesInv'
  <2> DEFINE f == Mine.flags["dbh"] \ {"ACTIVE"}
             d == [Mine EXCEPT !.flags = [Mine.flags EXCEPT !["dbh"] = f]]
  <2>1. ACTIVE_off(Mine, "dbh") = d
    BY <1>0, <1>a DEF ACTIVE_off, DBIc_off, ProcType
  <2>2. d \in ProcType /\ d.set = Mine.set /\ d.up = Mine.up /\ d.dirty = Mine.dirty
        /\ d.kids = Mine.kids /\ d.active_kids = Mine.active_kids
        /\ d.flags = [Mine.flags EXCEPT !["dbh"] = f]
    BY <1>0, <1>a DEF ProcType
  <2>3. ActiveSths(d) = ActiveSths(Mine)
    <3>1. \A k \in Sths : d.flags[k] = Mine.flags[k]
      BY <1>a, <2>2, SthsAssumption DEF ProcType, Handles
    <3> HIDE DEF d
    <3> QED
      BY <2>2, <3>1 DEF ActiveSths
  <2>4. Counted(d)
    BY <1>a, <2>2, <2>3 DEF Counted
  <2>5. Marked(attrs, d)
    BY <1>0, <1>a, <2>2 DEF Marked, ProcType
  <2> HIDE DEF d
  <2> QED
    BY <1>0, <1>7, <2>1, <2>4, <2>5, Placed DEF Disconnect, Mine
<1>8. ASSUME NEW p \in Procs, NEW h \in proc[p].set,
             proc' = [proc EXCEPT ![p] = ClearCom(Dispatched(proc[p], h, p), h)], attrs' = attrs
      PROVE  HandlesInv'
  <2> DEFINE c == Dispatched(proc[p], h, p)
  <2>1. Counted(proc[p]) /\ Marked(attrs, proc[p]) /\ proc[p] \in ProcType
    BY DEF HandlesInv, Counted
  <2>2. /\ Counted(c) /\ c.set = proc[p].set /\ c.up
        /\ \A k \in Handles : proc[p].flags[k] \subseteq c.flags[k]
    BY <2>1, CountedDispatched
  <2> HIDE DEF c
  <2>3. /\ Counted(ClearCom(c, h)) /\ ClearCom(c, h).set = c.set \ {h}
        /\ \A k \in Handles \ {h} : ClearCom(c, h).flags[k] = c.flags[k]
    BY <2>2, CountedCleared
  <2>4. Marked(attrs, ClearCom(c, h))
    BY <2>1, <2>2, <2>3 DEF Marked, ProcType
  <2> QED
    BY <1>8, <2>3, <2>4, Placed DEF c
<1>9. ASSUME NEW p \in Procs,
             \/ \E h \in Sths : DestroySth(p, h)
             \/ DestroyDbh(p)
      PROVE  HandlesInv'
  BY <1>8, <1>9 DEF DestroySth, DestroyDbh
<1>10. ASSUME NEW p \in Procs, GlobalDestruction(p) PROVE HandlesInv'
  <2> DEFINE d == [proc[p] EXCEPT !.dirty = TRUE]
  <2>1. Counted(proc[p]) /\ Marked(attrs, proc[p]) /\ proc[p] \in ProcType
    BY DEF HandlesInv, Counted
  <2>2. Counted(d) /\ Marked(attrs, d)
    BY <2>1 DEF Counted, Marked, ProcType
  <2>3. proc' = [proc EXCEPT ![p] = d] /\ attrs' = attrs
    BY <1>10 DEF GlobalDestruction, HandlesInv
  <2> HIDE DEF d
  <2> QED
    BY <2>2, <2>3, Placed
<1>11. ASSUME InactiveDestroy PROVE HandlesInv'
  <2> DEFINE c == proc["child"]
             g == [h \in Handles |-> IF h \in c.set THEN c.flags[h] \cup {"IADESTROY"} ELSE {}]
             d == [c EXCEPT !.flags = g]
  <2>1. Counted(c) /\ Marked(attrs, c) /\ c \in ProcType
    BY <1>0 DEF HandlesInv, Counted
  <2>2. g \in [Handles -> SUBSET Flags] /\ \A h \in c.set : c.flags[h] \subseteq g[h]
        /\ ("ACTIVE" \in g[h] <=> "ACTIVE" \in c.flags[h])
    BY <2>1 DEF ProcType, Flags
  <2>3. Counted(d)
    BY <2>1, <2>2, Reflagged
  <2>4. d.set = c.set /\ d.flags = g
    BY <2>1 DEF ProcType
  <2>5. Marked(attrs, d)
    BY <2>1, <2>2, <2>4 DEF Marked
  <2>6. proc' = [proc EXCEPT !["child"] = d] /\ attrs' = attrs
    BY <1>0, <1>11 DEF InactiveDestroy, HandlesInv
  <2> HIDE DEF d
  <2> QED
    BY <1>0, <2>3, <2>5, <2>6, Placed
<1>12. ASSUME Fork PROVE HandlesInv'
  BY <1>0, <1>12, <1>a, Placed DEF Fork, Mine
<1> QED
  BY <1>1, <1>2, <1>3, <1>4, <1>6, <1>7, <1>9, <1>10, <1>11, <1>12 DEF Next

-----------------------------------------------------------------------------
(***************************************************************************)
(* The steps, seen from the session.                                       *)
(***************************************************************************)

IInv == HandlesInv /\ session \in SessionType /\ (Sheltered => Backed)

\* What the child destroys is spared when it was shielded.
LEMMA Spared ==
  ASSUME HandlesInv, Shielded, NEW h \in proc["child"].set
  PROVE  "IADESTROY" \in Dispatched(proc["child"], h, "child").flags[h]
<1>0. "child" \in Procs /\ h \in Handles
  BY DEF HandlesInv, Counted, ProcType, Procs
<1>1. Counted(proc["child"]) /\ Marked(attrs, proc["child"])
  BY <1>0 DEF HandlesInv
<1>2. CASE "AIADESTROY" \in attrs
  BY <1>0, <1>1, <1>2, CountedDispatched DEF Marked
<1>3. CASE \A k \in proc["child"].set : "IADESTROY" \in proc["child"].flags[k]
  BY <1>0, <1>1, <1>3, CountedDispatched
<1> QED
  BY <1>2, <1>3 DEF Shielded

\* The child, once shielded, does nothing to the session.
LEMMA ChildStep ==
  ASSUME HandlesInv, Shielded,
         \/ \E h \in Sths : DestroySth("child", h)
         \/ DestroyDbh("child")
  PROVE  UNCHANGED session
<1>1. CASE \E h \in Sths : DestroySth("child", h)
  <2>1. PICK h \in Sths : DestroySth("child", h)
    BY <1>1
  <2>2. h \in proc["child"].set
    BY <2>1 DEF DestroySth
  <2>3. "IADESTROY" \in Dispatched(proc["child"], h, "child").flags[h]
    BY <2>2, Spared
  <2> QED
    BY <2>1, <2>3 DEF DestroySth
<1>2. CASE DestroyDbh("child")
  <2>1. "dbh" \in proc["child"].set
    BY <1>2 DEF DestroyDbh
  <2>2. "IADESTROY" \in Dispatched(proc["child"], "dbh", "child").flags["dbh"]
    BY <2>1, Spared
  <2> QED
    BY <1>2, <2>2 DEF DestroyDbh
<1> QED
  BY <1>1, <1>2

\* What the parent clears is not active, and its other handles are as they were.
LEMMA ParentClears ==
  ASSUME HandlesInv, NEW h \in Mine.set,
         proc' = [proc EXCEPT !["parent"] = ClearCom(Dispatched(Mine, h, "parent"), h)]
  PROVE  /\ Dispatched(Mine, h, "parent") = Mine
         /\ Mine'.set = Mine.set \ {h}
         /\ Mine'.flags[h] = {}
         /\ \A k \in Handles \ {h} : Mine'.flags[k] = Mine.flags[k]
<1>1. "parent" \in Procs /\ Counted(Mine)
  BY DEF Procs, HandlesInv, Mine
<1>2. Dispatched(Mine, h, "parent") = Mine
  BY DEF Dispatched
<1>3. Mine' = ClearCom(Mine, h)
  BY <1>1, <1>2 DEF HandlesInv, Mine
<1> QED
  BY <1>1, <1>2, <1>3, CountedCleared

\* The session is open and has no cursor.
LEMMA SessionInit == Init => session \in SessionType /\ Backed
<1> SUFFICES ASSUME Init PROVE session \in SessionType /\ Backed
  OBVIOUS
<1>1. session \in SessionType /\ session.open /\ ~session.pending
      /\ ~session.stray /\ ~session.implicit
  BY DEF Init, SessionType
<1>2. Mine.set = {"dbh"}
  BY DEF Init, Mine, Procs
<1> QED
  BY <1>1, <1>2, SthsAssumption DEF Backed

\* No step of a driver leaves a session that is none.
LEMMA SessionTyped ==
  ASSUME session \in SessionType, HandlesInv, [Next]_vars
  PROVE  session' \in SessionType
<1>1. ASSUME NEW h \in Sths, NEW s \in SessionType
      PROVE  dbd_st_finish(s, h) \in SessionType
  BY <1>1 DEF dbd_st_finish, Sent, SessionType
<1>2. ASSUME NEW s \in SessionType
      PROVE  /\ dbd_db_rollback(s) \in SessionType
             /\ dbd_db_commit(s) \in SessionType
             /\ dbd_db_disconnect(s) \in SessionType
  BY <1>2 DEF dbd_db_rollback, dbd_db_commit, dbd_db_disconnect, Sent, SessionType
<1>3. ASSUME NEW h \in Sths, Execute(h) PROVE session' \in SessionType
  BY <1>3 DEF Execute, Sent, SessionType
<1>4. ASSUME Do PROVE session' \in SessionType
  BY <1>4 DEF Do, Sent, SessionType
<1>5. ASSUME NEW h \in Sths, Prepare(h) \/ FetchLast(h) \/ Finish(h)
      PROVE  session' \in SessionType
  BY <1>1, <1>5 DEF Prepare, FetchLast, Finish
<1>6. ASSUME BeginWork \/ Commit \/ Rollback \/ Disconnect PROVE session' \in SessionType
  BY <1>2, <1>6 DEF BeginWork, Commit, Rollback, Disconnect
<1>7. ASSUME NEW p \in Procs, NEW h \in Sths, DestroySth(p, h) PROVE session' \in SessionType
  BY <1>1, <1>7 DEF DestroySth
<1>8. ASSUME NEW p \in Procs, DestroyDbh(p) PROVE session' \in SessionType
  BY <1>2, <1>8 DEF DestroyDbh
<1>9. ASSUME NEW p \in Procs, GlobalDestruction(p) PROVE session' \in SessionType
  BY <1>9 DEF GlobalDestruction
<1>10. ASSUME InactiveDestroy \/ Fork \/ UNCHANGED vars PROVE session' \in SessionType
  BY <1>10 DEF InactiveDestroy, Fork, vars
<1> QED
  BY <1>3, <1>4, <1>5, <1>6, <1>7, <1>8, <1>9, <1>10 DEF Next

\* Where the child does not touch the session, every step keeps a cursor behind each active handle.
LEMMA BackedStep ==
  ASSUME HandlesInv, session \in SessionType, Sheltered => Backed, [Next]_vars, Sheltered'
  PROVE  Backed'
<1>0. "parent" \in Procs /\ "child" \in Procs /\ "dbh" \in Handles /\ Sths \subseteq Handles
  BY DEF Procs, Handles
<1>a. Counted(Mine) /\ Mine \in ProcType /\ DOMAIN proc = Procs
  BY <1>0 DEF HandlesInv, Mine, Counted
<1>b. Usable => "dbh" \in Mine.set /\ ACTIVE(Mine, "dbh")
  BY DEF Usable, Works, Mine
<1>1. ASSUME NEW h \in Sths, Prepare(h) PROVE Backed'
  <2>1. Mine.up /\ h \in Sths \ Mine.set /\ h # "dbh"
    BY <1>1, SthsAssumption DEF Prepare, Usable, Works, Mine
  <2>2. /\ Mine'.set = Mine.set \cup {h}
        /\ Mine'.flags = [Mine.flags EXCEPT ![h] = Mine.flags["dbh"] \ INHERITMASK]
    BY <1>0, <1>1, <1>a, <2>1, CountedSetUp DEF Prepare, Mine
  <2>3. /\ \A k \in Handles \ {h} : Mine'.flags[k] = Mine.flags[k]
        /\ "ACTIVE" \notin Mine'.flags[h]
    BY <1>0, <1>a, <2>2 DEF ProcType, INHERITMASK
  <2>4. session' = session /\ proc'["child"] = proc["child"] /\ attrs' = attrs
    BY <1>0, <1>1 DEF Prepare, HandlesInv
  <2>5. Backed
    BY <2>4 DEF Sheltered
  <2> QED
    BY <1>0, <2>1, <2>2, <2>3, <2>4, <2>5 DEF Backed, ACTIVE
<1>2. ASSUME NEW h \in Sths, Execute(h) PROVE Backed'
  <2>1. Usable /\ h \in Sths \cap Mine.set /\ h # "dbh"
    BY <1>2, SthsAssumption DEF Execute
  <2>2. proc'["child"] = proc["child"] /\ attrs' = attrs /\ Mine' = ACTIVE_on(Mine, h)
    BY <1>0, <1>2 DEF Execute, HandlesInv, Mine
  <2>3. Mine'.set = Mine.set /\ \A k \in Handles \ {h} : Mine'.flags[k] = Mine.flags[k]
    BY <1>0, <1>a, <2>2 DEF ACTIVE_on, DBIc_on, ProcType
  <2>4. Backed
    BY <2>2 DEF Sheltered
  <2>5. session.open
    BY <1>b, <2>1, <2>4 DEF Backed
  <2>6. session' = [session EXCEPT !.cursors = @ \cup {h}]
    BY <1>2, <2>5 DEF Execute, Sent
  <2>7. /\ session'.open /\ session'.pending = session.pending
        /\ session'.cursors = session.cursors \cup {h}
        /\ session'.stray = session.stray /\ session'.implicit = session.implicit
    BY <2>5, <2>6 DEF SessionType
  <2> QED
    BY <1>0, <1>b, <2>1, <2>3, <2>4, <2>7 DEF Backed, ACTIVE
<1>3. ASSUME NEW h \in Sths, FetchLast(h) \/ Finish(h) PROVE Backed'
  <2>1. h \in Sths \cap Mine.set /\ h # "dbh"
    BY <1>3, SthsAssumption DEF FetchLast, Finish
  <2>2. proc'["child"] = proc["child"] /\ attrs' = attrs /\ Mine' = ACTIVE_off(Mine, h)
    BY <1>0, <1>3 DEF FetchLast, Finish, HandlesInv, Mine
  <2>3. Mine'.set = Mine.set /\ Mine'.flags = [Mine.flags EXCEPT ![h] = @ \ {"ACTIVE"}]
    BY <1>a, <2>1, <2>2, CountedOff
  <2>4. /\ \A k \in Handles \ {h} : Mine'.flags[k] = Mine.flags[k]
        /\ "ACTIVE" \notin Mine'.flags[h]
    BY <1>0, <1>a, <2>3 DEF ProcType
  <2>5. Backed
    BY <2>2 DEF Sheltered
  <2>6. \/ session' = dbd_st_finish(session, h) /\ ACTIVE(Mine, "dbh")
        \/ session' = session
    BY <1>3, <1>b DEF FetchLast, Finish
  <2>7. CASE session' = dbd_st_finish(session, h) /\ ACTIVE(Mine, "dbh")
    <3>1. session.open
      BY <2>5, <2>7 DEF Backed
    <3>2. session' = [session EXCEPT !.cursors = @ \ {h}]
      BY <2>7, <3>1 DEF dbd_st_finish, Sent
    <3>3. /\ session'.open /\ session'.pending = session.pending
          /\ session'.cursors = session.cursors \ {h}
          /\ session'.stray = session.stray /\ session'.implicit = session.implicit
      BY <3>1, <3>2 DEF SessionType
    <3> QED
      BY <1>0, <2>1, <2>3, <2>4, <2>5, <2>7, <3>3 DEF Backed, ACTIVE
  <2>8. CASE session' = session
    BY <1>0, <2>1, <2>3, <2>4, <2>5, <2>8 DEF Backed, ACTIVE
  <2> QED
    BY <2>6, <2>7, <2>8
<1>4. ASSUME Do PROVE Backed'
  <2>1. proc' = proc /\ attrs' = attrs /\ Mine' = Mine /\ Usable
    BY <1>4 DEF Do, Mine
  <2>2. Backed /\ session.open
    BY <1>b, <2>1 DEF Sheltered, Backed
  <2> DEFINE p == "AutoCommit" \notin Mine.flags["dbh"]
  <2>3. session' = [session EXCEPT !.pending = p]
    BY <1>4, <2>2 DEF Do, Sent
  <2>4. /\ session'.open /\ session'.pending = p /\ session'.cursors = session.cursors
        /\ session'.stray = session.stray /\ session'.implicit = session.implicit
    BY <2>2, <2>3 DEF SessionType
  <2> QED
    BY <1>b, <2>1, <2>2, <2>4 DEF Backed
<1>5. ASSUME BeginWork PROVE Backed'
  <2>1. /\ Usable /\ "AutoCommit" \in Mine.flags["dbh"] /\ session' = session
        /\ attrs' = attrs /\ proc'["child"] = proc["child"]
        /\ Mine'.set = Mine.set
        /\ Mine'.flags = [Mine.flags EXCEPT !["dbh"] = (@ \ {"AutoCommit"}) \cup {"BegunWork"}]
    BY <1>0, <1>5, <1>a DEF BeginWork, Mine, ProcType, HandlesInv
  <2>2. Backed /\ ~session.pending
    BY <1>b, <2>1 DEF Sheltered, Backed
  <2>3. \A k \in Sths : Mine'.flags[k] = Mine.flags[k]
    BY <1>0, <1>a, <2>1, SthsAssumption DEF ProcType
  <2> QED
    BY <1>b, <2>1, <2>2, <2>3 DEF Backed, ACTIVE
<1>6. ASSUME Commit \/ Rollback PROVE Backed'
  <2>1. /\ Usable /\ attrs' = attrs /\ proc'["child"] = proc["child"]
        /\ Mine'.set = Mine.set
        /\ Mine'.flags = [Mine.flags EXCEPT !["dbh"] = WorkDone(@)]
    BY <1>0, <1>6, <1>a DEF Commit, Rollback, Mine, ProcType, HandlesInv
  <2>2. Backed /\ session.open
    BY <1>b, <2>1 DEF Sheltered, Backed
  <2>3. session' = [session EXCEPT !.pending = FALSE]
    BY <1>6, <2>2 DEF Commit, Rollback, dbd_db_commit, dbd_db_rollback, Sent
  <2>4. /\ session'.open /\ ~session'.pending /\ session'.cursors = session.cursors
        /\ session'.stray = session.stray /\ session'.implicit = session.implicit
    BY <2>2, <2>3 DEF SessionType
  <2>5. \A k \in Sths : Mine'.flags[k] = Mine.flags[k]
    BY <1>0, <1>a, <2>1, SthsAssumption DEF ProcType
  <2> QED
    BY <1>b, <2>1, <2>2, <2>4, <2>5 DEF Backed, ACTIVE
<1>7. ASSUME Disconnect PROVE Backed'
  <2>1. /\ Usable /\ ~session.pending /\ attrs' = attrs /\ proc'["child"] = proc["child"]
        /\ session' = dbd_db_disconnect(session)
        /\ Mine' = ACTIVE_off(Mine, "dbh")
    BY <1>0, <1>7 DEF Disconnect, Mine, HandlesInv
  <2>2. "ACTIVE" \notin Mine'.flags["dbh"]
    BY <1>0, <1>a, <2>1 DEF ACTIVE_off, DBIc_off, ProcType
  <2>3. Backed /\ session.open
    BY <1>b, <2>1 DEF Sheltered, Backed
  <2>4. ~session'.stray /\ ~session'.implicit
    BY <2>1, <2>3 DEF dbd_db_disconnect, Sent, SessionType, Backed
  <2> QED
    BY <2>2, <2>4 DEF Backed, ACTIVE
<1>8. ASSUME NEW h \in Sths, DestroySth("parent", h) PROVE Backed'
  <2>1. h \in Mine.set /\ h # "dbh"
    BY <1>8, SthsAssumption DEF DestroySth, Mine
  <2>2. proc' = [proc EXCEPT !["parent"] = ClearCom(Dispatched(Mine, h, "parent"), h)]
        /\ attrs' = attrs /\ proc'["child"] = proc["child"]
    BY <1>0, <1>8 DEF DestroySth, Mine, HandlesInv
  <2>3. /\ Dispatched(Mine, h, "parent") = Mine
        /\ Mine'.set = Mine.set \ {h}
        /\ \A k \in Handles \ {h} : Mine'.flags[k] = Mine.flags[k]
    BY <2>1, <2>2, ParentClears
  <2>4. Backed
    BY <2>2 DEF Sheltered
  <2>5. \/ session' = session
        \/ session' = dbd_st_finish(session, h) /\ ACTIVE(Mine, "dbh")
    <3>1. CASE ACTIVE(Mine, "dbh")
      BY <1>8, <2>3, <3>1 DEF DestroySth, Mine
    <3>2. CASE ~ACTIVE(Mine, "dbh")
      BY <1>8, <2>3, <3>2 DEF DestroySth, Mine
    <3> QED
      BY <3>1, <3>2
  <2>6. CASE session' = session
    BY <1>0, <2>1, <2>3, <2>4, <2>6 DEF Backed, ACTIVE
  <2>7. CASE session' = dbd_st_finish(session, h) /\ ACTIVE(Mine, "dbh")
    <3>1. session.open
      BY <2>4, <2>7 DEF Backed
    <3>2. session' = [session EXCEPT !.cursors = @ \ {h}]
      BY <2>7, <3>1 DEF dbd_st_finish, Sent
    <3>3. /\ session'.open /\ session'.pending = session.pending
          /\ session'.cursors = session.cursors \ {h}
          /\ session'.stray = session.stray /\ session'.implicit = session.implicit
      BY <3>1, <3>2 DEF SessionType
    <3> QED
      BY <1>0, <2>1, <2>3, <2>4, <2>7, <3>3 DEF Backed, ACTIVE
  <2> QED
    BY <2>5, <2>6, <2>7
<1>9. ASSUME DestroyDbh("parent") PROVE Backed'
  <2>1. "dbh" \in Mine.set
    BY <1>9 DEF DestroyDbh, Mine
  <2>2. proc' = [proc EXCEPT !["parent"] = ClearCom(Dispatched(Mine, "dbh", "parent"), "dbh")]
        /\ attrs' = attrs /\ proc'["child"] = proc["child"]
    BY <1>0, <1>9 DEF DestroyDbh, Mine, HandlesInv
  <2>3. Dispatched(Mine, "dbh", "parent") = Mine /\ Mine'.flags["dbh"] = {}
    BY <2>1, <2>2, ParentClears
  <2>4. Backed
    BY <2>2 DEF Sheltered
  <2> DEFINE rolled == IF "AutoCommit" \in Mine.flags["dbh"] THEN session
                                                            ELSE dbd_db_rollback(session)
  <2>5. \/ session' = session
        \/ session' = dbd_db_disconnect(rolled) /\ ACTIVE(Mine, "dbh")
    <3>1. CASE ACTIVE(Mine, "dbh")
      BY <1>9, <2>3, <3>1 DEF DestroyDbh, Mine
    <3>2. CASE ~ACTIVE(Mine, "dbh")
      BY <1>9, <2>3, <3>2 DEF DestroyDbh, Mine
    <3> QED
      BY <3>1, <3>2
  <2>6. ACTIVE(Mine, "dbh") => /\ rolled \in SessionType /\ rolled.open /\ ~rolled.pending
                               /\ ~rolled.stray /\ ~rolled.implicit
    BY <2>1, <2>4 DEF Backed, dbd_db_rollback, Sent, SessionType
  <2> HIDE DEF rolled
  <2>7. CASE session' = session
    BY <2>3, <2>4, <2>7 DEF Backed, ACTIVE
  <2>8. CASE session' = dbd_db_disconnect(rolled) /\ ACTIVE(Mine, "dbh")
    <3>0. PICK r \in SessionType : /\ r.open /\ ~r.pending /\ ~r.stray /\ ~r.implicit
                                    /\ session' = dbd_db_disconnect(r)
      BY <2>6, <2>8
    <3>1. ~session'.stray /\ ~session'.implicit
      BY <3>0 DEF dbd_db_disconnect, Sent, SessionType
    <3> QED
      BY <2>3, <3>1 DEF Backed, ACTIVE
  <2> QED
    BY <2>5, <2>7, <2>8
<1>10. ASSUME (\E h \in Sths : DestroySth("child", h)) \/ DestroyDbh("child") PROVE Backed'
  <2>1. PICK h \in proc["child"].set :
               /\ attrs' = attrs
               /\ proc' = [proc EXCEPT !["child"] =
                             ClearCom(Dispatched(proc["child"], h, "child"), h)]
    BY <1>10 DEF DestroySth, DestroyDbh
  <2>2. Counted(proc["child"]) /\ proc["child"].up
    BY <1>0, <2>1 DEF HandlesInv, Counted
  <2>3. proc'["child"].up
    BY <1>0, <2>1, <2>2, CountedDispatched, CountedCleared DEF HandlesInv
  <2>4. "AIADESTROY" \in attrs
    BY <2>1, <2>3 DEF Sheltered
  <2>5. UNCHANGED session
    BY <1>10, <2>4, ChildStep DEF Shielded
  <2>6. Mine' = Mine
    BY <1>0, <2>1 DEF HandlesInv, Mine
  <2> QED
    BY <2>4, <2>5, <2>6 DEF Sheltered, Backed
<1>11. ASSUME NEW p \in Procs, GlobalDestruction(p) PROVE Backed'
  <2>1. /\ Mine'.set = Mine.set /\ Mine'.flags = Mine.flags
        /\ proc'["child"].up = proc["child"].up /\ attrs' = attrs /\ session' = session
    <3>1. \A q \in Procs : proc[q] \in ProcType
      BY DEF HandlesInv, Counted
    <3> QED
      BY <1>0, <1>11, <3>1 DEF GlobalDestruction, Mine, ProcType, HandlesInv
  <2> QED
    BY <2>1 DEF Sheltered, Backed, ACTIVE
<1>12. ASSUME InactiveDestroy \/ Fork \/ UNCHANGED vars PROVE Backed'
  <2>1. Mine' = Mine /\ attrs' = attrs /\ session' = session
    BY <1>0, <1>12 DEF InactiveDestroy, Fork, vars, Mine, HandlesInv
  <2>2. Sheltered
    <3>1. proc["child"].up => proc'["child"].up
      <4>1. CASE InactiveDestroy
        BY <1>0, <4>1, ZenonT(30) DEF InactiveDestroy, HandlesInv, Counted, ProcType
      <4>2. CASE Fork
        BY <1>0, <4>2, <1>a, ZenonT(30) DEF Fork, Works, HandlesInv
      <4>3. CASE UNCHANGED vars
        BY <4>3 DEF vars
      <4> QED
        BY <1>12, <4>1, <4>2, <4>3
    <3> QED
      BY <2>1, <3>1 DEF Sheltered
  <2> QED
    BY <2>1, <2>2 DEF Backed
<1> QED
  BY <1>1, <1>2, <1>3, <1>4, <1>5, <1>6, <1>7, <1>8, <1>9, <1>10, <1>11, <1>12
     DEF Next, Procs

-----------------------------------------------------------------------------
(***************************************************************************)
(* The invariant, and what it gives.                                       *)
(***************************************************************************)
LEMMA Invariant == Spec => []IInv
<1>1. Init => IInv
  BY HandlesInit, SessionInit DEF IInv
<1>2. IInv /\ [Next]_vars => IInv'
  <2> SUFFICES ASSUME IInv, [Next]_vars PROVE IInv'
    OBVIOUS
  <2>1. HandlesInv'
    BY HandlesStep DEF IInv
  <2>2. session' \in SessionType
    BY SessionTyped DEF IInv
  <2>3. Sheltered' => Backed'
    BY BackedStep DEF IInv
  <2> QED
    BY <2>1, <2>2, <2>3 DEF IInv
<1> QED
  BY <1>1, <1>2, PTL DEF Spec

\* DBIXS.h: the handles, the flags and the counts keep their types, the counts
\* staying natural numbers.
THEOREM TypeCorrect == Spec => []TypeOK
<1>1. IInv => TypeOK
  BY DEF IInv, HandlesInv, Counted, TypeOK
<1> QED
  BY <1>1, Invariant, PTL

\* DBIXS.h: the database handle's counts of kids and of active kids are exact until
\* perl is torn down, for any number of statement handles.
THEOREM CountsAreExact == Spec => []KidsExact
<1>1. IInv => KidsExact
  BY DEF IInv, HandlesInv, Counted, KidsExact, ActiveSths, ACTIVE
<1> QED
  BY <1>1, Invariant, PTL

\* Driver.xst: an active handle has an open session, and an active statement handle
\* its cursor, as long as no child can end them.
THEOREM ActiveIsBacked == Spec => []ActiveIsOpen
<1>1. IInv => ActiveIsOpen
  BY DEF IInv, Backed, ActiveIsOpen
<1> QED
  BY <1>1, Invariant, PTL

\* Driver.xst: nothing is sent over a connection that is closed.
THEOREM NeverAstray == Spec => []NothingAstray
<1>1. IInv => NothingAstray
  BY DEF IInv, Backed, NothingAstray
<1> QED
  BY <1>1, Invariant, PTL

\* Driver.xst: no disconnect leaves the database to commit what was not committed.
THEOREM NeverImplicit == Spec => []NoImplicitCommit
<1>1. IInv => NoImplicitCommit
  BY DEF IInv, Backed, NoImplicitCommit
<1> QED
  BY <1>1, Invariant, PTL

\* DBI.pm: what a shielded child destroys, in whatever order, leaves the session alone.
THEOREM ChildIsHarmless == Spec => ChildLeavesSession
<1> DEFINE Left == (Shielded /\ proc["child"].up /\ proc'["child"] # proc["child"])
                     => UNCHANGED session
<1>1. IInv /\ [Next]_vars => [Left]_vars
  <2> SUFFICES ASSUME IInv, Next, Shielded, proc["child"].up,
                      proc'["child"] # proc["child"]
               PROVE  UNCHANGED session
    BY DEF vars
  <2>0. HandlesInv /\ DOMAIN proc = Procs
    BY DEF IInv, HandlesInv
  <2>1. ASSUME NEW h \in Sths, Prepare(h) \/ Execute(h) \/ FetchLast(h) \/ Finish(h)
        PROVE  FALSE
    BY <2>0, <2>1 DEF Prepare, Execute, FetchLast, Finish, Procs
  <2>2. ~(Do \/ BeginWork \/ Commit \/ Rollback \/ Disconnect)
    BY <2>0 DEF Do, BeginWork, Commit, Rollback, Disconnect, Procs
  <2>3. ASSUME (\E h \in Sths : DestroySth("parent", h)) \/ DestroyDbh("parent")
        PROVE  FALSE
    BY <2>0, <2>3 DEF DestroySth, DestroyDbh, Procs
  <2>4. ASSUME (\E h \in Sths : DestroySth("child", h)) \/ DestroyDbh("child")
        PROVE  UNCHANGED session
    BY <2>0, <2>4, ChildStep
  <2>5. ASSUME \E p \in Procs : GlobalDestruction(p) PROVE UNCHANGED session
    BY <2>5 DEF GlobalDestruction
  <2>6. ASSUME InactiveDestroy \/ Fork PROVE UNCHANGED session
    BY <2>6 DEF InactiveDestroy, Fork
  <2> QED
    BY <2>1, <2>2, <2>3, <2>4, <2>5, <2>6 DEF Next, Procs
<1> QED
  BY <1>1, Invariant, PTL DEF Spec, ChildLeavesSession
=============================================================================
