----------------------------- MODULE TxnStorage -----------------------------
(***************************************************************************)
(* The transactions of DBIx::Class::Storage and Storage::DBI: one process  *)
(* runs code in nested txn_do blocks and scope guards over one database    *)
(* connection, which may be lost between two statements and at COMMIT, and *)
(* the process may be forked: then the model follows the child, to which   *)
(* the handle of the parent is only lent.  AutoCommit is on.               *)
(*                                                                         *)
(* A storage method is an operator from the state it starts in to what it  *)
(* returns or throws; an action is what the code of the application does   *)
(* next.  What is between two actions may raise an exception.              *)
(***************************************************************************)
EXTENDS Integers, Sequences, FiniteSets, SequencesExt

CONSTANTS
  CommitAnswers, \* what COMMIT may bring: "ok", "refused", "lost", "lost after"
  MaxFrames,     \* bound of the exploration: nesting of blocks and guards
  MaxRows,       \* bound of the exploration: rows written
  MaxSavepoints, \* bound of the exploration: no block opens on a longer stack
  MaxFaults      \* bound of the exploration: losses, forks and explicit calls

ASSUME AnswersAssumption == CommitAnswers \subseteq {"ok", "refused", "lost", "lost after"}
ASSUME BoundsAssumption == /\ MaxFrames \in Nat /\ MaxRows \in Nat
                           /\ MaxSavepoints \in Nat /\ MaxFaults \in Nat

VARIABLES
  db,             \* the storage object, the sessions it can reach, and the table
  frames,         \* the open txn_do blocks and guards, outermost first
  raised,         \* an exception is on its way up
  auto_savepoint, \* the connect option
  undone,         \* the rows of blocks that have thrown
  units,          \* the rows of the outermost blocks and writes that are over
  faults          \* how much of MaxFaults is used

vars == <<db, frames, raised, auto_savepoint, undone, units, faults>>

Rows == 1 .. MaxRows

-----------------------------------------------------------------------------
(***************************************************************************)
(* The database, at the other end of a handle.  A session remembers by     *)
(* savepoint what had been written when it was set.                        *)
(***************************************************************************)
Session(open) == [alive |-> open, begun |-> FALSE, work |-> {}, marks |-> <<>>]

Returns(d) == [d |-> d, ok |-> TRUE]
Throws(d)  == [d |-> d, ok |-> FALSE]

Then(r, Op(_)) == IF r.ok THEN Op(r.d) ELSE r

Connected(d) == d.dbh # "none" /\ d.sessions[d.dbh].alive

\* A statement is an error without a live session.
Statement(d, possible, session) ==
  IF Connected(d) /\ possible THEN Returns([d EXCEPT !.sessions[d.dbh] = session])
  ELSE Throws(d)

Here(d) == d.sessions[d.dbh]

BEGIN(d) == Statement(d, ~Here(d).begun, [Here(d) EXCEPT !.begun = TRUE])

ROLLBACK(d) == Statement(d, TRUE, Session(TRUE))

\* The answer may be lost when the work is already committed.
COMMIT(d, answer) ==
  IF ~Connected(d) \/ answer = "refused" THEN Throws(d)
  ELSE LET over == [d EXCEPT !.sessions[d.dbh] = Session(answer = "ok"),
                             !.table = @ \cup IF answer = "lost" THEN {} ELSE Here(d).work]
       IN  IF answer = "ok" THEN Returns(over) ELSE Throws(over)

INSERT(d, row) ==
  IF ~Connected(d) THEN Throws(d)
  ELSE Returns(IF Here(d).begun THEN [d EXCEPT !.sessions[d.dbh].work = @ \cup {row}]
               ELSE [d EXCEPT !.table = @ \cup {row}])

SAVEPOINT(d, name) ==
  Statement(d, Here(d).begun,
    [Here(d) EXCEPT !.marks = Append(@, [name |-> name, kept |-> Here(d).work])])

Named(d, name) == {i \in DOMAIN Here(d).marks : Here(d).marks[i].name = name}
LastNamed(d, name) == CHOOSE i \in Named(d, name) : \A j \in Named(d, name) : j <= i

RELEASE(d, name) ==
  Statement(d, Named(d, name) # {},
    [Here(d) EXCEPT !.marks = SubSeq(@, 1, LastNamed(d, name) - 1)])

ROLLBACK_TO(d, name) ==
  Statement(d, Named(d, name) # {},
    [Here(d) EXCEPT !.marks = SubSeq(@, 1, LastNamed(d, name)),
                    !.work = Here(d).marks[LastNamed(d, name)].kept])

-----------------------------------------------------------------------------
(***************************************************************************)
(* Storage::DBI: the handle.                                               *)
(***************************************************************************)
\* The guards hold weak references to the handle: gen tells one from the next.
Dropped(d) == [d EXCEPT !.dbh = "none", !.gen = @ + 1]

verify_pid(d) ==
  IF d.dbh = "inherited" THEN [Dropped(d) EXCEPT !.depth = 0, !.savepoints = <<>>] ELSE d

\* savepoints keeps what it had.
populate_dbh(d) ==
  [Dropped(d) EXCEPT !.dbh = "own", !.sessions["own"] = Session(TRUE), !.depth = 0]

get_dbh(d) ==
  LET v == verify_pid(d) IN IF v.dbh = "none" THEN populate_dbh(v) ELSE v

\* dbh, with ensure_connected and connected.
dbh(d) ==
  LET v == verify_pid(d) IN IF Connected(v) THEN v ELSE populate_dbh(v)

\* dbh_do: outside of a transaction a statement that fails on a dead handle is
\* sent again on a new one.
SentAgain(h, r, inBlock) == ~r.ok /\ ~inBlock /\ h.depth = 0 /\ ~Connected(r.d)

dbh_do(d, inBlock, Op(_)) ==
  LET h == get_dbh(d)
      r == Op(h)
  IN  IF SentAgain(h, r, inBlock) THEN Op(populate_dbh(r.d)) ELSE r

-----------------------------------------------------------------------------
(***************************************************************************)
(* Storage: transactions and savepoints.                                   *)
(***************************************************************************)
Usable(d, Op(_)) ==
  LET v == verify_pid(d) IN IF v.dbh = "none" THEN Throws(v) ELSE Op(v)

svp_begin(d) ==
  Usable(d, LAMBDA v :
    IF v.depth = 0 THEN Throws(v)
    ELSE SAVEPOINT([v EXCEPT !.savepoints = Append(@, Len(@))], Len(v.savepoints)))

\* Mutant: the name is read and not popped.
svp_release_peeks(d) ==
  Usable(d, LAMBDA v :
    IF v.depth = 0 \/ v.savepoints = <<>> THEN Throws(v) ELSE RELEASE(v, Last(v.savepoints)))

svp_release(d) ==
  Usable(d, LAMBDA v :
    IF v.depth = 0 \/ v.savepoints = <<>> THEN Throws(v)
    ELSE RELEASE([v EXCEPT !.savepoints = Front(@)], Last(v.savepoints)))

svp_rollback(d) ==
  Usable(d, LAMBDA v :
    IF v.depth = 0 \/ v.savepoints = <<>> THEN Throws(v)
    ELSE ROLLBACK_TO(v, Last(v.savepoints)))

Deeper(d, n) == [d EXCEPT !.depth = @ + n]

txn_begin(d, inBlock) ==
  LET h == get_dbh(d)
  IN  Then(IF h.depth = 0 THEN dbh_do(h, inBlock, BEGIN)
           ELSE IF auto_savepoint THEN svp_begin(h) ELSE Returns(h),
           LAMBDA b : Returns(Deeper(b, 1)))

\* The depth goes down after COMMIT, and before RELEASE.
txn_commit(d, answer) ==
  Usable(d, LAMBDA v :
    CASE v.depth = 1 -> Then(COMMIT(v, answer), LAMBDA c : Returns(Deeper(c, -1)))
      [] v.depth > 1 -> IF auto_savepoint THEN svp_release(Deeper(v, -1))
                        ELSE Returns(Deeper(v, -1))
      [] v.depth = 0 -> Throws(v))

\* Mutant: the savepoint is released, what was written since stays.
txn_rollback_keeps(d) ==
  Usable(d, LAMBDA v :
    CASE v.depth = 1 -> Then(ROLLBACK(v), LAMBDA c : Returns(Deeper(c, -1)))
      [] v.depth > 1 -> IF auto_savepoint THEN svp_release(Deeper(v, -1))
                        ELSE Throws(Deeper(v, -1))
      [] v.depth = 0 -> Throws(v))

\* Mutant: a nested rollback throws before it counts.
txn_rollback_uncounted(d) ==
  Usable(d, LAMBDA v :
    CASE v.depth = 1 -> Then(ROLLBACK(v), LAMBDA c : Returns(Deeper(c, -1)))
      [] v.depth > 1 -> IF auto_savepoint THEN Then(svp_rollback(Deeper(v, -1)), svp_release)
                        ELSE Throws(v)
      [] v.depth = 0 -> Throws(v))

\* Mutant: a rollback outside of a transaction is counted too.
txn_rollback_unrefused(d) ==
  Usable(d, LAMBDA v :
    IF v.depth > 1
    THEN IF auto_savepoint THEN Then(svp_rollback(Deeper(v, -1)), svp_release)
         ELSE Throws(Deeper(v, -1))
    ELSE Then(ROLLBACK(v), LAMBDA c : Returns(Deeper(c, -1))))

\* Mutant: the handle is not checked for being the parent's.
txn_rollback_unverified(d) ==
  IF d.dbh = "none" THEN Throws(d)
  ELSE CASE d.depth = 1 -> Then(ROLLBACK(d), LAMBDA c : Returns(Deeper(c, -1)))
         [] d.depth > 1 -> IF auto_savepoint
                           THEN Then(svp_rollback(Deeper(d, -1)), svp_release)
                           ELSE Throws(Deeper(d, -1))
         [] d.depth = 0 -> Throws(d)

\* A nested rollback without savepoints throws NESTED_ROLLBACK_EXCEPTION.
txn_rollback(d) ==
  Usable(d, LAMBDA v :
    CASE v.depth = 1 -> Then(ROLLBACK(v), LAMBDA c : Returns(Deeper(c, -1)))
      [] v.depth > 1 -> IF auto_savepoint THEN Then(svp_rollback(Deeper(v, -1)), svp_release)
                        ELSE Throws(Deeper(v, -1))
      [] v.depth = 0 -> Throws(v))

-----------------------------------------------------------------------------
(***************************************************************************)
(* Blocks and guards.                                                      *)
(***************************************************************************)
Running == ~raised
Inner   == frames # <<>>
Block   == Inner /\ Last(frames).kind = "txn_do"
Guard   == Inner /\ Last(frames).kind = "guard"

MayOpen == Running /\ Len(frames) < MaxFrames /\ Len(db.savepoints) <= MaxSavepoints

Fault == faults < MaxFaults /\ faults' = faults + 1

Answered(answer) == IF answer = "ok" THEN UNCHANGED faults ELSE Fault

inDoBlock == \E i \in DOMAIN frames : frames[i].kind = "txn_do"

\* plain: nothing but writes, blocks, guards and losses has happened in it.
NewFrame(kind, init, gen) ==
  [kind |-> kind, init |-> init, gen |-> gen, retried |-> FALSE, asked |-> FALSE,
   rows |-> {}, plain |-> \A i \in DOMAIN frames : frames[i].plain]

Marred(fs) == [i \in DOMAIN fs |-> [fs[i] EXCEPT !.plain = FALSE]]

\* The innermost frame is over.  Its rows are the outer frame's from now on, or
\* those of a unit, or undone if it threw and something was there to undo them.
Close(threw) ==
  LET f == Last(frames)
      below == Front(frames)
      undoes == threw /\ (auto_savepoint \/ below = <<>>) /\ ~f.asked
  IN  /\ frames' = IF below = <<>> \/ undoes THEN below
                   ELSE Append(Front(below), [Last(below) EXCEPT !.rows = @ \cup f.rows])
      /\ undone' = IF undoes /\ f.plain THEN undone \cup f.rows ELSE undone
      /\ units' = IF below = <<>> /\ f.plain /\ ~undoes /\ f.rows # {}
                  THEN units \cup {[rows |-> f.rows, returned |-> ~threw]} ELSE units

\* Mutant: retried in a nested block as well.
Caught_nested(d, f) ==
  LET v == verify_pid(d)
  IN  IF f.retried \/ Connected(v) THEN [d |-> txn_rollback(d).d, again |-> FALSE]
      ELSE [d |-> txn_begin(populate_dbh(v), TRUE).d, again |-> TRUE]

\* The catch block of txn_do: rolls back and throws, or reconnects and runs the
\* code once more.
Caught(d, f) ==
  LET v == verify_pid(d)
  IN  IF f.retried \/ f.init > 0 \/ Connected(v)
      THEN [d |-> txn_rollback(d).d, again |-> FALSE]
      ELSE [d |-> txn_begin(populate_dbh(v), TRUE).d, again |-> TRUE]

TxnDo ==
  /\ MayOpen
  /\ LET h == get_dbh(db)
         f == NewFrame("txn_do", h.depth, h.gen)
         r == txn_begin(h, TRUE)
         c == Caught(r.d, f)
     IN  /\ db' = IF r.ok THEN r.d ELSE c.d
         /\ frames' = IF r.ok THEN Append(frames, f)
                      ELSE IF c.again THEN Append(frames, [f EXCEPT !.retried = TRUE])
                      ELSE frames
         /\ raised' = (~r.ok /\ ~c.again)
  /\ UNCHANGED <<auto_savepoint, undone, units, faults>>

\* The code of a txn_do is through.  The commit is in a finally block, from where
\* no exception gets out.
TxnDoReturn(answer) ==
  /\ Running /\ Block
  /\ db' = IF db.depth = Last(frames).init + 1 THEN txn_commit(db, answer).d ELSE db
  /\ Close(FALSE)
  /\ Answered(answer)
  /\ UNCHANGED <<raised, auto_savepoint>>

TxnDoCatch ==
  /\ raised /\ Block
  /\ LET f == Last(frames)
         c == Caught(db, f)
     IN  /\ db' = c.d
         /\ \/ /\ c.again
               /\ raised' = FALSE
               /\ frames' = Append(Front(frames), [f EXCEPT !.retried = TRUE, !.rows = {}])
               /\ undone' = IF f.plain THEN undone \cup f.rows ELSE undone
               /\ UNCHANGED units
            \/ ~c.again /\ Close(TRUE) /\ UNCHANGED raised
  /\ UNCHANGED <<auto_savepoint, faults>>

GuardNew ==
  /\ MayOpen
  /\ LET r == txn_begin(db, inDoBlock)
     IN  /\ db' = r.d
         /\ frames' = IF r.ok THEN Append(frames, NewFrame("guard", 0, r.d.gen)) ELSE frames
         /\ raised' = ~r.ok
  /\ UNCHANGED <<auto_savepoint, undone, units, faults>>

\* A guard whose commit throws is not dismissed.
GuardCommit(answer) ==
  /\ Running /\ Guard
  /\ LET r == txn_commit(db, answer)
     IN  /\ db' = r.d
         /\ raised' = ~r.ok
         /\ \/ r.ok /\ Close(FALSE)
            \/ /\ ~r.ok
               /\ frames' = Append(Front(frames), [Last(frames) EXCEPT !.asked = TRUE])
               /\ UNCHANGED <<undone, units>>
  /\ Answered(answer)
  /\ UNCHANGED auto_savepoint

\* The guard goes out of scope, with an exception or for want of a commit.  Its
\* rollback is tried on the handle it was made with and on no other.
GuardDestroy ==
  /\ Guard
  /\ LET v == verify_pid(db)
     IN  db' = IF v.dbh # "none" /\ v.gen = Last(frames).gen THEN txn_rollback(v).d ELSE v
  /\ Close(TRUE)
  /\ UNCHANGED <<raised, auto_savepoint, faults>>

-----------------------------------------------------------------------------
(***************************************************************************)
(* What the application does between them.                                 *)
(***************************************************************************)
Die == Running /\ Inner /\ raised' = TRUE
       /\ UNCHANGED <<db, frames, auto_savepoint, undone, units, faults>>

Eval == raised /\ raised' = FALSE
        /\ UNCHANGED <<db, frames, auto_savepoint, undone, units, faults>>

Written == db.table \cup undone \cup (UNION {u.rows : u \in units})
             \cup (UNION {frames[i].rows : i \in DOMAIN frames})
             \cup (UNION {db.sessions[s].work : s \in DOMAIN db.sessions})

\* An insert, through dbh_do.
Write ==
  /\ Running /\ Rows \ Written # {}
  /\ LET row == CHOOSE i \in Rows \ Written : \A j \in Rows \ Written : i <= j
         r == dbh_do(db, inDoBlock, LAMBDA h : INSERT(h, row))
     IN  /\ db' = r.d
         /\ raised' = ~r.ok
         /\ frames' = IF ~Inner \/ ~r.ok THEN frames
                      ELSE Append(Front(frames), [Last(frames) EXCEPT !.rows = @ \cup {row}])
         /\ units' = IF Inner \/ ~r.ok THEN units
                     ELSE units \cup {[rows |-> {row}, returned |-> TRUE]}
  /\ UNCHANGED <<auto_savepoint, undone, faults>>

\* An explicit call of the storage in the midst of blocks and guards.
Call(r) ==
  /\ Running /\ Fault
  /\ db' = r.d
  /\ raised' = ~r.ok
  /\ frames' = Marred(frames)
  /\ UNCHANGED <<auto_savepoint, undone, units>>

Dbh        == Inner /\ Call(Returns(dbh(db)))
Rollback   == Inner /\ Call(txn_rollback(db))
Savepoint  == Inner /\ Call(svp_begin(db))
Release    == Inner /\ Call(svp_release(db))
RollbackTo == Inner /\ Call(svp_rollback(db))

\* disconnect does not ask whose the handle is, nor what the depth was.
Disconnect ==
  /\ db.dbh # "none"
  /\ Call(Returns([Dropped(db) EXCEPT !.sessions[db.dbh] = Session(FALSE)]))

Lose ==
  /\ db.dbh = "own" /\ Connected(db) /\ Fault
  /\ db' = [db EXCEPT !.sessions["own"] = Session(FALSE)]
  /\ UNCHANGED <<frames, raised, auto_savepoint, undone, units>>

Fork ==
  /\ db.dbh = "own" /\ Running /\ Fault
  /\ db.sessions["inherited"] = Session(FALSE)
  /\ db' = [db EXCEPT !.dbh = "inherited",
                      !.sessions = [own |-> Session(FALSE), inherited |-> db.sessions["own"]]]
  /\ frames' = Marred(frames)
  /\ UNCHANGED <<raised, auto_savepoint, undone, units>>

Init ==
  /\ db = [dbh |-> "none", gen |-> 0, depth |-> 0, savepoints |-> <<>>, table |-> {},
           sessions |-> [s \in {"own", "inherited"} |-> Session(FALSE)]]
  /\ frames = <<>> /\ raised = FALSE /\ auto_savepoint \in BOOLEAN
  /\ undone = {} /\ units = {} /\ faults = 0

Next ==
  \/ TxnDo \/ TxnDoCatch \/ GuardNew \/ GuardDestroy
  \/ \E answer \in CommitAnswers : TxnDoReturn(answer) \/ GuardCommit(answer)
  \/ Die \/ Eval \/ Write
  \/ Dbh \/ Rollback \/ Savepoint \/ Release \/ RollbackTo \/ Disconnect
  \/ Lose \/ Fork

Spec == Init /\ [][Next]_vars

-----------------------------------------------------------------------------
SessionType ==
  [alive : BOOLEAN, begun : BOOLEAN, work : SUBSET Rows,
   marks : Seq([name : Nat, kept : SUBSET Rows])]

\* Every variable keeps its type: the depth of the storage does not fall below zero by a
\* rollback or a release outside of a transaction, after a reconnect or in a child.
TypeOK ==
  /\ db \in [dbh : {"none", "own", "inherited"}, gen : Nat, depth : Nat,
             savepoints : Seq(Nat), table : SUBSET Rows,
             sessions : [{"own", "inherited"} -> SessionType]]
  /\ frames \in Seq([kind : {"txn_do", "guard"}, init : Nat, gen : Nat, retried : BOOLEAN,
                     asked : BOOLEAN, rows : SUBSET Rows, plain : BOOLEAN])
  /\ raised \in BOOLEAN /\ auto_savepoint \in BOOLEAN
  /\ undone \subseteq Rows
  /\ units \subseteq [rows : SUBSET Rows, returned : BOOLEAN]
  /\ faults \in 0 .. MaxFaults

\* txn_do and the guard: of the rows written in an outermost block, nested blocks
\* that returned included, all are in the table when it is over or none is,
\* whatever was lost or retried.
NeverAPart == \A u \in units : u.rows \subseteq db.table \/ u.rows \cap db.table = {}

\* txn_do and the guard: what was written in a block that threw, in an attempt that
\* was retried, or in a nested block that threw under auto_savepoint, never gets
\* into the table, although the blocks around it return.
UndoneStaysOut == undone \cap db.table = {}

\* Storage: on a live connection of its own the depth of the storage is the number
\* of open blocks and guards, also while an exception passes through them.
DepthIsNesting ==
  (Connected(db) /\ db.dbh = "own" /\ \A i \in DOMAIN frames : frames[i].plain)
    => db.depth = Len(frames)

\* Storage: the savepoints set at the server are the last of the storage's stack, so
\* that each is released or rolled back to by its own name.
SavepointsMatch ==
  (Connected(db) /\ db.dbh = "own") =>
    IsSuffix([i \in DOMAIN Here(db).marks |-> Here(db).marks[i].name], db.savepoints)

\* Storage::DBI: a child that was forked with the handle leaves the session of its
\* parent as it is, in the midst of whatever blocks and guards; disconnect is the
\* one method that does not look.
ParentUntouched ==
  [][Fork \/ Disconnect \/ db'.sessions["inherited"] = db.sessions["inherited"]]_vars

\* Storage: what was written in an outermost block that returned is in the table.
ReturnedIsKept == \A u \in units : u.returned => u.rows \subseteq db.table
=============================================================================
