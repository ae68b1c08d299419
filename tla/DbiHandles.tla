----------------------------- MODULE DbiHandles -----------------------------
(***************************************************************************)
(* DBI handles as DBIXS.h and Driver.xst keep them: a database handle, its *)
(* statement handles, the flags they inherit, and the counts that a parent *)
(* handle keeps of its kids.  A fork gives the child a copy of every       *)
(* handle, and both processes talk to one session.  Handles are destroyed  *)
(* as their last reference goes, or in any order when the interpreter is   *)
(* torn down.                                                              *)
(***************************************************************************)
EXTENDS Integers, FiniteSets

CONSTANTS
  Sths       \* statement handles

ASSUME SthsAssumption == IsFiniteSet(Sths) /\ "dbh" \notin Sths

VARIABLES
  attrs,   \* the attributes that connect was given
  proc,    \* per process: its copy of the handles
  session  \* what the server holds for the connection

vars == <<attrs, proc, session>>

Procs   == {"parent", "child"}
Handles == {"dbh"} \cup Sths

\* The flags that the methods below act on.
Flags == {"ACTIVE", "IADESTROY", "AIADESTROY", "AutoCommit", "BegunWork"}

\* Mutant: the automatic form of InactiveDestroy is not passed on either.
INHERITMASK_auto == {"ACTIVE", "IADESTROY", "AIADESTROY", "AutoCommit", "BegunWork"}

\* What NOT to pass on to children.
INHERITMASK == {"ACTIVE", "IADESTROY", "AutoCommit", "BegunWork"}

-----------------------------------------------------------------------------
(***************************************************************************)
(* DBIXS.h: operators on the handles c of a process.                       *)
(***************************************************************************)
ACTIVE(c, h) == "ACTIVE" \in c.flags[h]

DBIc_on(c, h, f)  == [c EXCEPT !.flags[h] = @ \cup {f}]
DBIc_off(c, h, f) == [c EXCEPT !.flags[h] = @ \ {f}]

\* The parent handle counts its active kids, but not while perl is torn down.
\* (The dbh is counted by the driver handle, which is not modelled.)
ACTIVE_on(c, h) ==
  LET counted == h # "dbh" /\ ~ACTIVE(c, h) /\ ~c.dirty
  IN  [DBIc_on(c, h, "ACTIVE") EXCEPT !.active_kids = IF counted THEN @ + 1 ELSE @]

\* Mutant: counted whether or not the handle was active.
ACTIVE_off_always(c, h) ==
  LET counted == h # "dbh" /\ ~c.dirty
  IN  [DBIc_off(c, h, "ACTIVE") EXCEPT !.active_kids = IF counted THEN @ - 1 ELSE @]

ACTIVE_off(c, h) ==
  LET counted == h # "dbh" /\ ACTIVE(c, h) /\ ~c.dirty
  IN  [DBIc_off(c, h, "ACTIVE") EXCEPT !.active_kids = IF counted THEN @ - 1 ELSE @]

\* The handle is set up as a kid of the database handle, or cleared.
SetUp(c, h) ==
  [c EXCEPT !.set = @ \cup {h}, !.flags[h] = c.flags["dbh"] \ INHERITMASK, !.kids = @ + 1]

ClearCom(c, h) ==
  LET off == ACTIVE_off(c, h)
  IN  [off EXCEPT !.set = @ \ {h}, !.flags[h] = {},
                  !.kids = IF h # "dbh" /\ ~c.dirty THEN @ - 1 ELSE @]

\* The dispatcher, before any DESTROY: a handle of another process is spared.
Dispatched(c, h, p) ==
  IF "AIADESTROY" \in c.flags[h] /\ p # "parent" THEN DBIc_on(c, h, "IADESTROY") ELSE c

-----------------------------------------------------------------------------
(***************************************************************************)
(* The driver, with which Driver.xst is compiled: what is sent goes to the *)
(* session, or astray when that is closed.                                 *)
(***************************************************************************)
Sent(s, answered) == IF s.open THEN answered ELSE [s EXCEPT !.stray = TRUE]

dbd_db_rollback(s) == Sent(s, [s EXCEPT !.pending = FALSE])

dbd_db_commit(s) == Sent(s, [s EXCEPT !.pending = FALSE])

\* Some databases commit on a graceful disconnect.
dbd_db_disconnect(s) ==
  Sent(s, [s EXCEPT !.open = FALSE, !.cursors = {}, !.pending = FALSE,
                    !.implicit = @ \/ s.pending])

dbd_st_finish(s, h) == Sent(s, [s EXCEPT !.cursors = @ \ {h}])

-----------------------------------------------------------------------------
(***************************************************************************)
(* Driver.xst: the methods.  The application works in the parent; what the *)
(* child does with the handles is to get rid of them.                      *)
(***************************************************************************)
Works == proc["parent"].up /\ ~proc["parent"].dirty /\ "dbh" \in proc["parent"].set
Mine  == proc["parent"]
Usable == Works /\ ACTIVE(Mine, "dbh")

Prepare(h) ==
  /\ Usable /\ h \in Sths \ Mine.set
  /\ proc' = [proc EXCEPT !["parent"] = SetUp(@, h)]
  /\ UNCHANGED <<attrs, session>>

\* execute: a statement with rows to fetch is active from here to the last row.
Execute(h) ==
  /\ Usable /\ h \in Sths \cap Mine.set
  /\ proc' = [proc EXCEPT !["parent"] = ACTIVE_on(@, h)]
  /\ session' = Sent(session, [session EXCEPT !.cursors = @ \cup {h}])
  /\ UNCHANGED attrs

\* do: a change, pending until commit unless AutoCommit is on.
Do ==
  /\ Usable
  /\ session' = Sent(session, [session EXCEPT !.pending = "AutoCommit" \notin Mine.flags["dbh"]])
  /\ UNCHANGED <<attrs, proc>>

FetchLast(h) ==
  /\ Usable /\ h \in Sths \cap Mine.set /\ ACTIVE(Mine, h)
  /\ proc' = [proc EXCEPT !["parent"] = ACTIVE_off(@, h)]
  /\ session' = dbd_st_finish(session, h)
  /\ UNCHANGED attrs

\* Mutant: whether the database handle is still connected is not asked.
Finish_unasked(h) ==
  /\ Works /\ h \in Sths \cap Mine.set /\ ACTIVE(Mine, h)
  /\ proc' = [proc EXCEPT !["parent"] = ACTIVE_off(@, h)]
  /\ session' = dbd_st_finish(session, h)
  /\ UNCHANGED attrs

Finish(h) ==
  /\ Works /\ h \in Sths \cap Mine.set /\ ACTIVE(Mine, h)
  /\ proc' = [proc EXCEPT !["parent"] = ACTIVE_off(@, h)]
  /\ session' = IF ACTIVE(Mine, "dbh") THEN dbd_st_finish(session, h) ELSE session
  /\ UNCHANGED attrs

BeginWork ==
  /\ Usable /\ "AutoCommit" \in Mine.flags["dbh"]
  /\ proc' = [proc EXCEPT !["parent"].flags["dbh"] = (@ \ {"AutoCommit"}) \cup {"BegunWork"}]
  /\ UNCHANGED <<attrs, session>>

\* After commit and rollback AutoCommit is what it was before begin_work.
WorkDone(flags) ==
  IF "BegunWork" \in flags THEN (flags \ {"BegunWork"}) \cup {"AutoCommit"} ELSE flags

Commit ==
  /\ Usable
  /\ proc' = [proc EXCEPT !["parent"].flags["dbh"] = WorkDone(@)]
  /\ session' = dbd_db_commit(session)
  /\ UNCHANGED attrs

Rollback ==
  /\ Usable
  /\ proc' = [proc EXCEPT !["parent"].flags["dbh"] = WorkDone(@)]
  /\ session' = dbd_db_rollback(session)
  /\ UNCHANGED attrs

\* Mutant: the handle stays active.
Disconnect_active ==
  /\ Usable /\ ~session.pending
  /\ session' = dbd_db_disconnect(session)
  /\ UNCHANGED <<attrs, proc>>

\* disconnect, by an application that has finished its work one way or the other.
Disconnect ==
  /\ Usable /\ ~session.pending
  /\ proc' = [proc EXCEPT !["parent"] = ACTIVE_off(@, "dbh")]
  /\ session' = dbd_db_disconnect(session)
  /\ UNCHANGED attrs

\* DESTROY of a statement handle, the rest of its data cleared with it.
DestroySth(p, h) ==
  /\ h \in Sths \cap proc[p].set
  /\ LET c == Dispatched(proc[p], h, p)
         spared == "IADESTROY" \in c.flags[h]
     IN  /\ proc' = [proc EXCEPT ![p] = ClearCom(c, h)]
         /\ session' = IF ~spared /\ ACTIVE(c, h) /\ ~c.dirty /\ ACTIVE(c, "dbh")
                       THEN dbd_st_finish(session, h) ELSE session
  /\ UNCHANGED attrs

\* Mutant: disconnects without the rollback.
DestroyDbh_kept(p) ==
  /\ "dbh" \in proc[p].set
  /\ proc[p].dirty \/ proc[p].set = {"dbh"}
  /\ LET c == Dispatched(proc[p], "dbh", p)
         spared == "IADESTROY" \in c.flags["dbh"]
     IN  /\ proc' = [proc EXCEPT ![p] = ClearCom(c, "dbh")]
         /\ session' = IF spared \/ ~ACTIVE(c, "dbh") THEN session ELSE dbd_db_disconnect(session)
  /\ UNCHANGED attrs

\* DESTROY of the database handle: statement handles hold a reference to it, so that
\* they go first, unless perl is torn down.  What is not committed is rolled back.
DestroyDbh(p) ==
  /\ "dbh" \in proc[p].set
  /\ proc[p].dirty \/ proc[p].set = {"dbh"}
  /\ LET c == Dispatched(proc[p], "dbh", p)
         spared == "IADESTROY" \in c.flags["dbh"]
         rolled == IF "AutoCommit" \in c.flags["dbh"] THEN session ELSE dbd_db_rollback(session)
     IN  /\ proc' = [proc EXCEPT ![p] = ClearCom(c, "dbh")]
         /\ session' = IF spared \/ ~ACTIVE(c, "dbh") THEN session ELSE dbd_db_disconnect(rolled)
  /\ UNCHANGED attrs

-----------------------------------------------------------------------------
\* The application sets InactiveDestroy in the child on all the handles it shares.
InactiveDestroy ==
  /\ proc["child"].up
  /\ proc' = [proc EXCEPT !["child"].flags =
                [h \in Handles |-> IF h \in proc["child"].set THEN @[h] \cup {"IADESTROY"} ELSE {}]]
  /\ UNCHANGED <<attrs, session>>

Fork ==
  /\ Works /\ ~proc["child"].up
  /\ proc' = [proc EXCEPT !["child"] = proc["parent"]]
  /\ UNCHANGED <<attrs, session>>

\* PL_dirty: what handles are left are destroyed in any order.
GlobalDestruction(p) ==
  /\ proc[p].up /\ ~proc[p].dirty
  /\ proc' = [proc EXCEPT ![p].dirty = TRUE]
  /\ UNCHANGED <<attrs, session>>

\* connect, with AutoInactiveDestroy and AutoCommit or without.
Init ==
  /\ attrs \in SUBSET {"AIADESTROY", "AutoCommit"}
  /\ proc = [p \in Procs |->
               [up |-> p = "parent", dirty |-> FALSE, kids |-> 0, active_kids |-> 0,
                set |-> IF p = "parent" THEN {"dbh"} ELSE {},
                flags |-> [h \in Handles |->
                            IF p = "parent" /\ h = "dbh" THEN attrs \cup {"ACTIVE"} ELSE {}]]]
  /\ session = [open |-> TRUE, cursors |-> {}, pending |-> FALSE,
                implicit |-> FALSE, stray |-> FALSE]

Next ==
  \/ \E h \in Sths : Prepare(h) \/ Execute(h) \/ FetchLast(h) \/ Finish(h)
  \/ Do \/ BeginWork \/ Commit \/ Rollback \/ Disconnect
  \/ \E p \in Procs : \/ \E h \in Sths : DestroySth(p, h)
                      \/ DestroyDbh(p) \/ GlobalDestruction(p)
  \/ InactiveDestroy \/ Fork

Spec == Init /\ [][Next]_vars

-----------------------------------------------------------------------------
ProcType ==
  [up : BOOLEAN, dirty : BOOLEAN, kids : Nat, active_kids : Nat,
   set : SUBSET Handles, flags : [Handles -> SUBSET Flags]]

SessionType ==
  [open : BOOLEAN, cursors : SUBSET Sths, pending : BOOLEAN,
   implicit : BOOLEAN, stray : BOOLEAN]

\* Every variable keeps its type: the counts of kids of a handle stay above zero, while
\* perl is torn down, too, when nothing is counted any more.
TypeOK ==
  /\ attrs \subseteq {"AIADESTROY", "AutoCommit"}
  /\ proc \in [Procs -> ProcType]
  /\ session \in SessionType

\* DBIXS.h: until perl is torn down the counts of the database handle are exact,
\* through re-execution, finish after disconnect, and DESTROY of active handles: the
\* panics of ACTIVE_on and ACTIVE_off, "active kids < 0 or > kids", cannot be.
KidsExact ==
  \A p \in Procs : proc[p].up /\ ~proc[p].dirty =>
    /\ proc[p].kids = Cardinality(proc[p].set \cap Sths)
    /\ proc[p].active_kids = Cardinality({h \in proc[p].set \cap Sths : ACTIVE(proc[p], h)})

\* No other process has a say in the session: there is none, or AutoInactiveDestroy
\* was given to connect.
Sheltered == ~proc["child"].up \/ "AIADESTROY" \in attrs

\* Driver.xst: what an active handle stands for is there: the session is open, and
\* has the cursor of every active statement handle, whatever the child gets rid of.
ActiveIsOpen ==
  (Sheltered /\ "dbh" \in Mine.set /\ ACTIVE(Mine, "dbh")) =>
    /\ session.open
    /\ \A h \in Sths \cap Mine.set : ACTIVE(Mine, h) => h \in session.cursors

\* Driver.xst: finish and the DESTROY methods send nothing over a closed connection,
\* after disconnect and in the random order of global destruction.
NothingAstray == Sheltered => ~session.stray

\* Driver.xst: no DESTROY disconnects with work pending, that some databases would
\* then commit: it is rolled back first.
NoImplicitCommit == Sheltered => ~session.implicit

\* DBI.pm: a child that has set InactiveDestroy on all the handles it shares, or whose
\* parent gave AutoInactiveDestroy to connect, may lose them in any order: the session stays.
Shielded ==
  "AIADESTROY" \in attrs \/ \A h \in proc["child"].set : "IADESTROY" \in proc["child"].flags[h]

ChildLeavesSession ==
  [][(Shielded /\ proc["child"].up /\ proc'["child"] # proc["child"]) => UNCHANGED session]_vars
=============================================================================
