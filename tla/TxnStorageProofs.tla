-------------------------- MODULE TxnStorageProofs --------------------------
(***************************************************************************)
(* Proofs about TxnStorage, for any nesting, any number of rows, of        *)
(* savepoints and of faults.  Each operator is shown to keep the type of   *)
(* the storage and the session that was the parent's; the actions follow.  *)
(***************************************************************************)
EXTENDS TxnStorage, WellFoundedInduction, SequenceTheorems, TLAPS

Handles  == {"none", "own", "inherited"}
Marks    == [name : Nat, kept : SUBSET Rows]
Storages == [dbh : Handles, gen : Nat, depth : Nat, savepoints : Seq(Nat), table : SUBSET Rows,
             sessions : [{"own", "inherited"} -> SessionType]]
Frames   == [kind : {"txn_do", "guard"}, init : Nat, gen : Nat, retried : BOOLEAN,
             asked : BOOLEAN, rows : SUBSET Rows, plain : BOOLEAN]

\* The session of the parent, as a storage of the child has it.
Parents(d) == d.sessions["inherited"]

\* What a method that has looked whose the handle is makes of the storage d.
Keeps(d, e) == e \in Storages /\ e.dbh # "inherited" /\ Parents(e) = Parents(d)

\* What such a method returns or throws.
Good(d, r) == r.ok \in BOOLEAN /\ Keeps(d, r.d)

-----------------------------------------------------------------------------
(* The fields of a storage.                                                *)

\* An update of one field keeps the others.
LEMMA SetHandle ==
  ASSUME NEW d \in Storages, NEW h \in Handles
  PROVE  LET e == [d EXCEPT !.dbh = h]
         IN  /\ e \in Storages /\ e.dbh = h /\ e.gen = d.gen /\ e.depth = d.depth
             /\ e.savepoints = d.savepoints /\ e.table = d.table /\ e.sessions = d.sessions
BY DEF Storages

\* The same of the generation.
LEMMA SetGen ==
  ASSUME NEW d \in Storages, NEW n \in Nat
  PROVE  LET e == [d EXCEPT !.gen = n]
         IN  /\ e \in Storages /\ e.dbh = d.dbh /\ e.depth = d.depth
             /\ e.savepoints = d.savepoints /\ e.table = d.table /\ e.sessions = d.sessions
BY DEF Storages

\* Of the depth.
LEMMA SetDepth ==
  ASSUME NEW d \in Storages, NEW n \in Nat
  PROVE  LET e == [d EXCEPT !.depth = n]
         IN  /\ e \in Storages /\ e.dbh = d.dbh /\ e.gen = d.gen /\ e.depth = n
             /\ e.savepoints = d.savepoints /\ e.table = d.table /\ e.sessions = d.sessions
BY DEF Storages

\* Of the stack of savepoints.
LEMMA SetSavepoints ==
  ASSUME NEW d \in Storages, NEW p \in Seq(Nat)
  PROVE  LET e == [d EXCEPT !.savepoints = p]
         IN  /\ e \in Storages /\ e.dbh = d.dbh /\ e.gen = d.gen /\ e.depth = d.depth
             /\ e.savepoints = p /\ e.table = d.table /\ e.sessions = d.sessions
BY DEF Storages

\* Of the table.
LEMMA SetTable ==
  ASSUME NEW d \in Storages, NEW t \in SUBSET Rows
  PROVE  LET e == [d EXCEPT !.table = t]
         IN  /\ e \in Storages /\ e.dbh = d.dbh /\ e.gen = d.gen /\ e.depth = d.depth
             /\ e.savepoints = d.savepoints /\ e.table = t /\ e.sessions = d.sessions
BY DEF Storages

\* Of a session; one of the storage's own is not the parent's.
LEMMA SetSession ==
  ASSUME NEW d \in Storages, NEW x \in {"own", "inherited"}, NEW s \in SessionType
  PROVE  LET e == [d EXCEPT !.sessions[x] = s]
         IN  /\ e \in Storages /\ e.dbh = d.dbh /\ e.gen = d.gen /\ e.depth = d.depth
             /\ e.savepoints = d.savepoints /\ e.table = d.table
             /\ x = "own" => e.sessions["inherited"] = d.sessions["inherited"]
BY DEF Storages

\* A new or a closed session is a session.
LEMMA SessionIsOne ==
  ASSUME NEW b \in BOOLEAN
  PROVE  Session(b) \in SessionType
BY DEF Session, SessionType

\* What a connected storage finds at the other end.
LEMMA HereType ==
  ASSUME NEW d \in Storages, d.dbh # "none"
  PROVE  /\ d.dbh \in {"own", "inherited"} /\ Here(d) \in SessionType
         /\ Here(d).work \in SUBSET Rows /\ Here(d).marks \in Seq(Marks)
<1>1. d.dbh \in {"own", "inherited"} /\ Here(d) \in SessionType
  BY DEF Storages, Handles, Here
<1> QED  BY <1>1 DEF SessionType, Marks

-----------------------------------------------------------------------------
(* The handle.                                                             *)

\* Without its handle the storage is still one.
LEMMA DroppedType ==
  ASSUME NEW d \in Storages
  PROVE  LET e == Dropped(d)
         IN  /\ e \in Storages /\ e.dbh = "none" /\ e.depth = d.depth
             /\ e.savepoints = d.savepoints /\ e.table = d.table /\ e.sessions = d.sessions
<1> DEFINE e == [d EXCEPT !.dbh = "none"]
           n == d.gen + 1
<1>1. Dropped(d) = [e EXCEPT !.gen = n]
  BY DEF Dropped
<1>2. n \in Nat /\ "none" \in Handles
  BY DEF Storages, Handles
<1>3. /\ e \in Storages /\ e.dbh = "none" /\ e.depth = d.depth
      /\ e.savepoints = d.savepoints /\ e.table = d.table /\ e.sessions = d.sessions
  BY <1>2, SetHandle
<1> HIDE DEF e, n
<1> QED  BY <1>1, <1>2, <1>3, SetGen

\* A handle that is the parent's is given up, and left alone.
LEMMA VerifyKeeps ==
  ASSUME NEW d \in Storages
  PROVE  Keeps(d, verify_pid(d))
<1>1. CASE d.dbh # "inherited"
  BY <1>1 DEF verify_pid, Keeps
<1>2. CASE d.dbh = "inherited"
  <2> DEFINE e == [Dropped(d) EXCEPT !.depth = 0]
             p == <<>>
  <2>1. verify_pid(d) = [e EXCEPT !.savepoints = p]
    BY <1>2 DEF verify_pid
  <2>2. p \in Seq(Nat)
    OBVIOUS
  <2>3. e \in Storages /\ e.dbh = "none" /\ e.sessions = d.sessions
    BY DroppedType, SetDepth
  <2> HIDE DEF e, p
  <2>4. /\ verify_pid(d) \in Storages /\ verify_pid(d).dbh = "none"
        /\ verify_pid(d).sessions = d.sessions
    BY <2>1, <2>2, <2>3, SetSavepoints
  <2> QED  BY <2>4 DEF Keeps, Parents
<1> QED  BY <1>1, <1>2

\* A new connection has a session of its own.
LEMMA PopulateKeeps ==
  ASSUME NEW d \in Storages
  PROVE  Keeps(d, populate_dbh(d)) /\ populate_dbh(d).dbh = "own"
<1> DEFINE a == Dropped(d)
           b == [a EXCEPT !.dbh = "own"]
           s == Session(TRUE)
           c == [b EXCEPT !.sessions["own"] = s]
<1>1. populate_dbh(d) = [c EXCEPT !.depth = 0]
  BY DEF populate_dbh
<1>2. a \in Storages /\ a.sessions = d.sessions
  BY DroppedType
<1> HIDE DEF a
<1>3. b \in Storages /\ b.dbh = "own" /\ b.sessions = d.sessions
  BY <1>2, SetHandle DEF Handles
<1> HIDE DEF b
<1>4. s \in SessionType
  BY SessionIsOne
<1> HIDE DEF s
<1>5. c \in Storages /\ c.dbh = "own" /\ Parents(c) = Parents(d)
  BY <1>3, <1>4, SetSession DEF Parents
<1> HIDE DEF c
<1>6. /\ [c EXCEPT !.depth = 0] \in Storages /\ [c EXCEPT !.depth = 0].dbh = "own"
      /\ [c EXCEPT !.depth = 0].sessions = c.sessions
  BY <1>5, SetDepth
<1> QED  BY <1>1, <1>5, <1>6 DEF Keeps, Parents

\* One method after another keeps what each keeps.
LEMMA KeepsBoth ==
  ASSUME NEW d, NEW e, NEW f, Keeps(d, e), Keeps(e, f)
  PROVE  Keeps(d, f)
BY DEF Keeps

\* _get_dbh returns a handle of the storage's own.
LEMMA GetDbhKeeps ==
  ASSUME NEW d \in Storages
  PROVE  Keeps(d, get_dbh(d)) /\ get_dbh(d).dbh = "own"
<1>1. Keeps(d, verify_pid(d))
  BY VerifyKeeps
<1>2. /\ Keeps(verify_pid(d), populate_dbh(verify_pid(d)))
      /\ populate_dbh(verify_pid(d)).dbh = "own"
  BY <1>1, PopulateKeeps DEF Keeps
<1>3. verify_pid(d).dbh \in Handles \ {"inherited"}
  BY <1>1 DEF Keeps, Storages
<1> QED  BY <1>1, <1>2, <1>3, KeepsBoth DEF get_dbh, Handles

\* So does dbh, where it does not find one that works.
LEMMA DbhKeeps ==
  ASSUME NEW d \in Storages
  PROVE  Keeps(d, dbh(d))
<1>1. Keeps(d, verify_pid(d))
  BY VerifyKeeps
<1>2. Keeps(verify_pid(d), populate_dbh(verify_pid(d)))
  BY <1>1, PopulateKeeps DEF Keeps
<1> QED  BY <1>1, <1>2, KeepsBoth DEF dbh

-----------------------------------------------------------------------------
(* The statements, sent by a storage that has looked whose the handle is.  *)

\* A statement keeps the storage's own fields too.
Sent(d, r) == Good(d, r) /\ r.d.depth = d.depth /\ r.d.dbh = d.dbh /\ r.d.savepoints = d.savepoints

\* One that fails has done nothing.
LEMMA ThrownSent ==
  ASSUME NEW d \in Storages, d.dbh # "inherited"
  PROVE  Sent(d, Throws(d)) /\ Sent(d, Returns(d))
BY DEF Sent, Good, Keeps, Throws, Returns

\* A statement changes the session of the handle it is sent on.
LEMMA StatementSent ==
  ASSUME NEW d \in Storages, d.dbh # "inherited", NEW possible, NEW s,
         Connected(d) /\ possible => s \in SessionType
  PROVE  Sent(d, Statement(d, possible, s))
<1>1. CASE Connected(d) /\ possible
  <2>1. d.dbh = "own"
    BY <1>1 DEF Connected, Storages, Handles
  <2> DEFINE e == [d EXCEPT !.sessions[d.dbh] = s]
  <2>2. Statement(d, possible, s) = Returns(e)
    BY <1>1 DEF Statement
  <2>3. /\ e \in Storages /\ e.dbh = d.dbh /\ e.depth = d.depth /\ e.savepoints = d.savepoints
        /\ Parents(e) = Parents(d)
    BY <1>1, <2>1, SetSession DEF Parents
  <2> HIDE DEF e
  <2> QED  BY <2>1, <2>2, <2>3 DEF Sent, Good, Keeps, Returns
<1>2. CASE ~(Connected(d) /\ possible)
  BY <1>2, ThrownSent DEF Statement
<1> QED  BY <1>1, <1>2

\* BEGIN.
LEMMA BeginSent ==
  ASSUME NEW d \in Storages, d.dbh # "inherited"
  PROVE  Sent(d, BEGIN(d))
<1>1. Connected(d) => [Here(d) EXCEPT !.begun = TRUE] \in SessionType
  BY HereType DEF Connected, SessionType
<1> QED  BY <1>1, StatementSent DEF BEGIN

\* ROLLBACK.
LEMMA RollbackSent ==
  ASSUME NEW d \in Storages, d.dbh # "inherited"
  PROVE  Sent(d, ROLLBACK(d))
BY SessionIsOne, StatementSent DEF ROLLBACK

\* COMMIT, whatever its answer.
LEMMA CommitSent ==
  ASSUME NEW d \in Storages, d.dbh # "inherited", NEW answer
  PROVE  Sent(d, COMMIT(d, answer))
<1>1. CASE ~Connected(d) \/ answer = "refused"
  BY <1>1, ThrownSent DEF COMMIT
<1>2. CASE ~(~Connected(d) \/ answer = "refused")
  <2>1. d.dbh = "own"
    BY <1>2 DEF Connected, Storages, Handles
  <2> DEFINE s == Session(answer = "ok")
             e == [d EXCEPT !.sessions[d.dbh] = s]
             t == d.table \cup IF answer = "lost" THEN {} ELSE Here(d).work
             over == [e EXCEPT !.table = t]
  <2>2. COMMIT(d, answer) = IF answer = "ok" THEN Returns(over) ELSE Throws(over)
    BY <1>2 DEF COMMIT
  <2>3. s \in SessionType
    BY SessionIsOne
  <2>4. t \in SUBSET Rows
    BY <2>1, HereType DEF Storages
  <2> HIDE DEF s, t
  <2>5. /\ e \in Storages /\ e.dbh = d.dbh /\ e.depth = d.depth /\ e.savepoints = d.savepoints
        /\ Parents(e) = Parents(d)
    BY <2>1, <2>3, SetSession DEF Parents
  <2> HIDE DEF e
  <2>6. /\ over \in Storages /\ over.dbh = d.dbh /\ over.depth = d.depth
        /\ over.savepoints = d.savepoints /\ over.sessions = e.sessions
    BY <2>4, <2>5, SetTable
  <2> HIDE DEF over
  <2> QED  BY <2>1, <2>2, <2>5, <2>6 DEF Sent, Good, Keeps, Returns, Throws, Parents
<1> QED  BY <1>1, <1>2

\* INSERT, in a transaction or outside.
LEMMA InsertSent ==
  ASSUME NEW d \in Storages, d.dbh # "inherited", NEW row \in Rows
  PROVE  Sent(d, INSERT(d, row))
<1>1. CASE ~Connected(d)
  BY <1>1, ThrownSent DEF INSERT
<1>2. CASE Connected(d)
  <2>1. d.dbh = "own" /\ Here(d) \in SessionType
    BY <1>2, HereType DEF Connected, Storages, Handles
  <2>2. CASE Here(d).begun
    <3> DEFINE s == [Here(d) EXCEPT !.work = @ \cup {row}]
               e == [d EXCEPT !.sessions[d.dbh] = s]
    <3>1. INSERT(d, row) = Returns(e)
      BY <1>2, <2>2 DEF INSERT, Here
    <3>2. s \in SessionType
      BY <2>1 DEF SessionType
    <3> HIDE DEF s
    <3>3. /\ e \in Storages /\ e.dbh = d.dbh /\ e.depth = d.depth /\ e.savepoints = d.savepoints
          /\ Parents(e) = Parents(d)
      BY <2>1, <3>2, SetSession DEF Parents
    <3> HIDE DEF e
    <3> QED  BY <2>1, <3>1, <3>3 DEF Sent, Good, Keeps, Returns
  <2>3. CASE ~Here(d).begun
    <3> DEFINE t == d.table \cup {row}
               e == [d EXCEPT !.table = t]
    <3>1. INSERT(d, row) = Returns(e)
      BY <1>2, <2>3 DEF INSERT
    <3>2. t \in SUBSET Rows
      BY DEF Storages
    <3> HIDE DEF t
    <3>3. /\ e \in Storages /\ e.dbh = d.dbh /\ e.depth = d.depth /\ e.savepoints = d.savepoints
          /\ e.sessions = d.sessions
      BY <3>2, SetTable
    <3> HIDE DEF e
    <3> QED  BY <2>1, <3>1, <3>3 DEF Sent, Good, Keeps, Returns, Parents
  <2> QED  BY <2>2, <2>3
<1> QED  BY <1>1, <1>2

\* A set of numbers has a smallest one.
LEMMA Smallest ==
  ASSUME NEW T \in SUBSET Nat, T # {}
  PROVE  \E x \in T : \A y \in T : x <= y
<1> DEFINE R == OpToRel(<, Nat)
<1>1. \A x, y \in Nat : x < y => <<x, y>> \in R
  BY DEF OpToRel
<1>2. IsWellFoundedOn(R, Nat)
  BY NatLessThanWellFounded
<1> HIDE DEF R
<1>3. PICK x \in T : \A y \in T : ~(<<y, x>> \in R)
  BY <1>2, WFMin
<1>4. \A y \in T : ~(y < x)
  BY <1>1, <1>3
<1> QED  BY <1>4

\* A set of numbers with a bound has a largest one.
LEMMA Largest ==
  ASSUME NEW n \in Nat, NEW N \in SUBSET (1 .. n), N # {}
  PROVE  \E i \in N : \A j \in N : j <= i
<1> DEFINE Back == {n - i : i \in N}
<1>1. Back \in SUBSET Nat /\ Back # {}
  <2>1. \A i \in N : n - i \in Nat
    OBVIOUS
  <2>2. PICK i \in N : TRUE
    OBVIOUS
  <2>3. n - i \in Back
    BY <2>2
  <2> QED  BY <2>1, <2>3
<1>2. PICK b \in Back : \A c \in Back : b <= c
  <2> HIDE DEF Back
  <2> QED  BY <1>1, Smallest
<1>3. PICK i \in N : b = n - i
  OBVIOUS
<1>4. ASSUME NEW j \in N
      PROVE  j <= i
  <2>1. n - j \in Back
    OBVIOUS
  <2>2. n - i <= n - j
    BY <1>2, <1>3, <2>1
  <2>3. i \in Nat /\ j \in Nat
    OBVIOUS
  <2> QED  BY <2>2, <2>3
<1> QED  BY <1>4

\* Of the savepoints of one name there is a last one.
LEMMA LastNamedIs ==
  ASSUME NEW d \in Storages, d.dbh # "none", NEW name, Named(d, name) # {}
  PROVE  LastNamed(d, name) \in 1 .. Len(Here(d).marks)
<1> DEFINE m == Here(d).marks
           N == Named(d, name)
           n == Len(m)
<1>1. m \in Seq(Marks) /\ n \in Nat /\ DOMAIN m = 1 .. n
  BY HereType, LenProperties
<1>2. N \in SUBSET (1 .. n)
  BY <1>1 DEF Named
<1>3. PICK i \in N : \A j \in N : j <= i
  <2> HIDE DEF n, N
  <2> QED  BY <1>1, <1>2, Largest DEF N
<1>4. LastNamed(d, name) \in N
  BY <1>3 DEF LastNamed
<1> QED  BY <1>2, <1>4

\* What a sequence begins with is a sequence of the same.
LEMMA PrefixType ==
  ASSUME NEW S, NEW q \in Seq(S), NEW n \in 0 .. Len(q)
  PROVE  SubSeq(q, 1, n) \in Seq(S)
<1>1. Len(q) \in Nat /\ \A i \in 1 .. n : q[i] \in S
  BY ElementOfSeq, LenProperties, SMT
<1> DEFINE one == 1
<1>2. one \in Int /\ n \in Int /\ \A i \in one .. n : q[i] \in S
  BY <1>1
<1> HIDE DEF one
<1>3. SubSeq(q, one, n) \in Seq(S)
  BY <1>2, SubSeqProperties, Zenon
<1> QED  BY <1>3 DEF one

\* SAVEPOINT.
LEMMA SavepointSent ==
  ASSUME NEW d \in Storages, d.dbh # "inherited", NEW name \in Nat
  PROVE  Sent(d, SAVEPOINT(d, name))
<1> DEFINE mark == [name |-> name, kept |-> Here(d).work]
           marks == Append(Here(d).marks, mark)
           s == [Here(d) EXCEPT !.marks = marks]
<1>1. ASSUME Connected(d)
      PROVE  s \in SessionType
  <2>1. Here(d) \in SessionType /\ Here(d).work \in SUBSET Rows /\ Here(d).marks \in Seq(Marks)
    BY <1>1, HereType DEF Connected
  <2>2. mark \in Marks
    BY <2>1 DEF Marks
  <2> HIDE DEF mark
  <2>3. marks \in Seq(Marks)
    BY <2>1, <2>2, AppendProperties
  <2> HIDE DEF marks
  <2> QED  BY <2>1, <2>3 DEF SessionType, Marks
<1>2. SAVEPOINT(d, name) = Statement(d, Here(d).begun, s)
  BY DEF SAVEPOINT
<1> HIDE DEF s
<1> QED  BY <1>1, <1>2, StatementSent

\* RELEASE SAVEPOINT.
LEMMA ReleaseSent ==
  ASSUME NEW d \in Storages, d.dbh # "inherited", NEW name
  PROVE  Sent(d, RELEASE(d, name))
<1> DEFINE k == LastNamed(d, name) - 1
           marks == SubSeq(Here(d).marks, 1, k)
           s == [Here(d) EXCEPT !.marks = marks]
           possible == Named(d, name) # {}
<1>1. ASSUME Connected(d), possible
      PROVE  s \in SessionType
  <2>1. Here(d) \in SessionType /\ Here(d).marks \in Seq(Marks)
    BY <1>1, HereType DEF Connected
  <2>2. LastNamed(d, name) \in 1 .. Len(Here(d).marks)
    BY <1>1, LastNamedIs DEF Connected
  <2>3. k \in 0 .. Len(Here(d).marks)
    BY <2>1, <2>2, LenProperties
  <2> HIDE DEF k
  <2>4. marks \in Seq(Marks)
    BY <2>1, <2>3, PrefixType
  <2> HIDE DEF marks
  <2> QED  BY <2>1, <2>4 DEF SessionType, Marks
<1>2. RELEASE(d, name) = Statement(d, possible, s)
  BY DEF RELEASE
<1> HIDE DEF s, possible
<1> QED  BY <1>1, <1>2, StatementSent

\* ROLLBACK TO SAVEPOINT.
LEMMA RollbackToSent ==
  ASSUME NEW d \in Storages, d.dbh # "inherited", NEW name
  PROVE  Sent(d, ROLLBACK_TO(d, name))
<1> DEFINE k == LastNamed(d, name)
           marks == SubSeq(Here(d).marks, 1, k)
           work == Here(d).marks[k].kept
           e == [Here(d) EXCEPT !.marks = marks]
           s == [e EXCEPT !.work = work]
           possible == Named(d, name) # {}
<1>1. ASSUME Connected(d), possible
      PROVE  s \in SessionType
  <2>1. Here(d) \in SessionType /\ Here(d).marks \in Seq(Marks)
    BY <1>1, HereType DEF Connected
  <2>2. k \in 1 .. Len(Here(d).marks)
    BY <1>1, LastNamedIs DEF Connected
  <2>3. k \in 0 .. Len(Here(d).marks)
    BY <2>1, <2>2, LenProperties
  <2>4. Here(d).marks[k] \in Marks
    BY <2>1, <2>2, ElementOfSeq
  <2>5. work \in SUBSET Rows
    BY <2>4 DEF Marks
  <2> HIDE DEF k
  <2>6. marks \in Seq(Marks)
    BY <2>1, <2>3, PrefixType
  <2> HIDE DEF marks, work
  <2>7. e \in SessionType
    BY <2>1, <2>6 DEF SessionType, Marks
  <2> HIDE DEF e
  <2> QED  BY <2>5, <2>7 DEF SessionType
<1>2. ROLLBACK_TO(d, name) = Statement(d, possible, s)
  BY DEF ROLLBACK_TO
<1> HIDE DEF s, possible
<1> QED  BY <1>1, <1>2, StatementSent

-----------------------------------------------------------------------------
(* Savepoints and transactions.                                            *)

\* The last of a sequence and the rest.
LEMMA LastAndFront ==
  ASSUME NEW S, NEW q \in Seq(S), q # <<>>
  PROVE  Last(q) \in S /\ Front(q) \in Seq(S)
<1>1. Len(q) \in Nat /\ Len(q) # 0
  BY EmptySeq, LenProperties
<1>2. Len(q) \in 1 .. Len(q) /\ Len(q) - 1 \in 0 .. Len(q)
  BY <1>1
<1>3. q[Len(q)] \in S
  BY <1>2, ElementOfSeq
<1>4. SubSeq(q, 1, Len(q) - 1) \in Seq(S)
  BY <1>2, PrefixType, Zenon
<1> QED  BY <1>3, <1>4 DEF Last, Front

\* A method that does nothing without a handle, and works on the verified storage.
LEMMA GoodAfter ==
  ASSUME NEW d, NEW e, NEW r, Keeps(d, e), Good(e, r)
  PROVE  Good(d, r)
BY KeepsBoth DEF Good

\* What only throws, or only returns, does nothing.
LEMMA ThrownGood ==
  ASSUME NEW d, NEW e, Keeps(d, e)
  PROVE  Good(d, Throws(e)) /\ Good(d, Returns(e))
BY DEF Good, Throws, Returns

\* svp_begin: the new name is on the stack before it is sent.
LEMMA SvpBeginGood ==
  ASSUME NEW d \in Storages
  PROVE  Good(d, svp_begin(d))
<1> DEFINE v == verify_pid(d)
           n == Len(v.savepoints)
           p == Append(v.savepoints, n)
           e == [v EXCEPT !.savepoints = p]
<1>1. svp_begin(d) = IF v.dbh = "none" \/ v.depth = 0 THEN Throws(v) ELSE SAVEPOINT(e, n)
  BY DEF svp_begin, Usable
<1>2. Keeps(d, v)
  BY VerifyKeeps
<1> HIDE DEF v
<1>3. v.savepoints \in Seq(Nat)
  BY <1>2 DEF Keeps, Storages
<1>4. n \in Nat
  BY <1>3, LenProperties
<1> HIDE DEF n
<1>5. p \in Seq(Nat)
  BY <1>3, <1>4, AppendProperties
<1> HIDE DEF p
<1>6. Keeps(v, e)
  BY <1>2, <1>5, SetSavepoints DEF Keeps, Parents
<1> HIDE DEF e
<1>7. Good(e, SAVEPOINT(e, n))
  BY <1>4, <1>6, SavepointSent DEF Keeps, Sent
<1>8. Good(d, SAVEPOINT(e, n))
  BY <1>2, <1>6, <1>7, KeepsBoth, GoodAfter
<1> QED  BY <1>1, <1>2, <1>8, ThrownGood

\* svp_release: the name is off the stack before it is sent.
LEMMA SvpReleaseGood ==
  ASSUME NEW d \in Storages
  PROVE  Good(d, svp_release(d))
<1> DEFINE v == verify_pid(d)
           p == Front(v.savepoints)
           n == Last(v.savepoints)
           e == [v EXCEPT !.savepoints = p]
<1>1. svp_release(d) = IF v.dbh = "none" \/ v.depth = 0 \/ v.savepoints = <<>>
                       THEN Throws(v) ELSE RELEASE(e, n)
  BY DEF svp_release, Usable
<1>2. Keeps(d, v)
  BY VerifyKeeps
<1> HIDE DEF v
<1>3. ASSUME v.savepoints # <<>>
      PROVE  Good(d, RELEASE(e, n))
  <2>1. v.savepoints \in Seq(Nat)
    BY <1>2 DEF Keeps, Storages
  <2>2. p \in Seq(Nat)
    BY <1>3, <2>1, LastAndFront
  <2> HIDE DEF p, n
  <2>3. Keeps(v, e)
    BY <1>2, <2>2, SetSavepoints DEF Keeps, Parents
  <2> HIDE DEF e
  <2>4. Good(e, RELEASE(e, n))
    BY <2>3, ReleaseSent DEF Keeps, Sent
  <2> QED  BY <1>2, <2>3, <2>4, KeepsBoth, GoodAfter
<1> HIDE DEF e, n
<1> QED  BY <1>1, <1>2, <1>3, ThrownGood

\* svp_rollback: the name stays.
LEMMA SvpRollbackGood ==
  ASSUME NEW d \in Storages
  PROVE  Good(d, svp_rollback(d))
<1> DEFINE v == verify_pid(d)
           n == Last(v.savepoints)
<1>1. svp_rollback(d) = IF v.dbh = "none" \/ v.depth = 0 \/ v.savepoints = <<>>
                        THEN Throws(v) ELSE ROLLBACK_TO(v, n)
  BY DEF svp_rollback, Usable
<1>2. Keeps(d, v)
  BY VerifyKeeps
<1> HIDE DEF v, n
<1>3. Good(v, ROLLBACK_TO(v, n))
  BY <1>2, RollbackToSent DEF Keeps, Sent
<1> QED  BY <1>1, <1>2, <1>3, ThrownGood, GoodAfter

\* The depth may be changed to another number.
LEMMA DeeperKeeps ==
  ASSUME NEW d \in Storages, NEW e, Keeps(d, e), NEW n \in {-1, 1}, e.depth + n \in Nat
  PROVE  Keeps(d, Deeper(e, n)) /\ Deeper(e, n).depth = e.depth + n
<1> DEFINE m == e.depth + n
<1>1. Deeper(e, n) = [e EXCEPT !.depth = m]
  BY DEF Deeper
<1> HIDE DEF m
<1>2. m \in Nat /\ e \in Storages
  BY DEF m, Keeps
<1>3. Deeper(e, n) \in Storages /\ Deeper(e, n).dbh = e.dbh /\ Deeper(e, n).sessions = e.sessions
      /\ Deeper(e, n).depth = m
  BY <1>1, <1>2, SetDepth
<1> QED  BY <1>3 DEF Keeps, Parents, m

\* dbh_do sends the statement once, or once more on a new connection.
LEMMA DoBeginGood ==
  ASSUME NEW d \in Storages, NEW inBlock \in BOOLEAN
  PROVE  Good(d, dbh_do(d, inBlock, BEGIN))
<1> DEFINE h == get_dbh(d)
           r == BEGIN(h)
           n == populate_dbh(r.d)
<1>1. dbh_do(d, inBlock, BEGIN) = IF SentAgain(h, r, inBlock) THEN BEGIN(n) ELSE r
  BY DEF dbh_do
<1>2. Keeps(d, h)
  BY GetDbhKeeps
<1> HIDE DEF h
<1>3. Good(d, r)
  BY <1>2, BeginSent, GoodAfter DEF Keeps, Sent
<1> HIDE DEF r
<1>4. Keeps(d, n)
  BY <1>3, PopulateKeeps, KeepsBoth DEF Good, Keeps
<1> HIDE DEF n
<1>5. Good(d, BEGIN(n))
  BY <1>4, BeginSent, GoodAfter DEF Keeps, Sent
<1> QED  BY <1>1, <1>3, <1>5

\* The same for an insert.
LEMMA DoInsertGood ==
  ASSUME NEW d \in Storages, NEW inBlock \in BOOLEAN, NEW row \in Rows
  PROVE  Good(d, dbh_do(d, inBlock, LAMBDA h : INSERT(h, row)))
<1> DEFINE h == get_dbh(d)
           r == INSERT(h, row)
           n == populate_dbh(r.d)
<1>1. dbh_do(d, inBlock, LAMBDA x : INSERT(x, row))
        = IF SentAgain(h, r, inBlock) THEN INSERT(n, row) ELSE r
  BY DEF dbh_do
<1>2. Keeps(d, h)
  BY GetDbhKeeps
<1> HIDE DEF h
<1>3. Good(d, r)
  BY <1>2, InsertSent, GoodAfter DEF Keeps, Sent
<1> HIDE DEF r
<1>4. Keeps(d, n)
  BY <1>3, PopulateKeeps, KeepsBoth DEF Good, Keeps
<1> HIDE DEF n
<1>5. Good(d, INSERT(n, row))
  BY <1>4, InsertSent, GoodAfter DEF Keeps, Sent
<1> QED  BY <1>1, <1>3, <1>5

\* txn_begin: the depth goes up when the begin or the savepoint was good.
LEMMA TxnBeginGood ==
  ASSUME NEW d \in Storages, NEW inBlock \in BOOLEAN
  PROVE  Good(d, txn_begin(d, inBlock))
<1> DEFINE h == get_dbh(d)
           a == dbh_do(h, inBlock, BEGIN)
           s == svp_begin(h)
           c == Returns(h)
           r == IF h.depth = 0 THEN a ELSE IF auto_savepoint THEN s ELSE c
           e == r.d
<1>1. txn_begin(d, inBlock) = IF r.ok THEN Returns(Deeper(e, 1)) ELSE r
  BY DEF txn_begin, Then
<1>2. Keeps(d, h)
  BY GetDbhKeeps
<1> HIDE DEF h
<1>3. Good(d, a) /\ Good(d, s) /\ Good(d, c)
  BY <1>2, DoBeginGood, SvpBeginGood, ThrownGood, GoodAfter DEF Keeps
<1> HIDE DEF a, s, c
<1>4. Good(d, r)
  BY <1>3
<1> HIDE DEF r
<1>5. Keeps(d, e) /\ e.depth + 1 \in Nat
  BY <1>4 DEF Good, Keeps, Storages
<1> HIDE DEF e
<1>6. Keeps(d, Deeper(e, 1))
  BY <1>5, DeeperKeeps
<1> QED  BY <1>1, <1>4, <1>6, ThrownGood

\* What is said to the server at depth 1 takes the storage out of its transaction.
LEMMA LastLevelGood ==
  ASSUME NEW v \in Storages, NEW r, Sent(v, r), v.depth = 1
  PROVE  Good(v, IF r.ok THEN Returns(Deeper(r.d, -1)) ELSE r)
<1>1. Keeps(v, r.d) /\ r.d.depth + (-1) \in Nat
  BY DEF Sent, Good
<1>2. Keeps(v, Deeper(r.d, -1))
  BY <1>1, DeeperKeeps
<1> QED  BY <1>2, ThrownGood DEF Sent

\* A level less, with what is done to the savepoint of the level.
LEMMA LevelLess ==
  ASSUME NEW v \in Storages, v.dbh # "inherited", v.depth > 1
  PROVE  Keeps(v, Deeper(v, -1)) /\ Deeper(v, -1) \in Storages
<1>1. Keeps(v, v) /\ v.depth + (-1) \in Nat
  BY DEF Keeps, Storages
<1> QED  BY <1>1, DeeperKeeps DEF Keeps

\* txn_commit never takes the depth below zero.
LEMMA TxnCommitGood ==
  ASSUME NEW d \in Storages, NEW answer
  PROVE  Good(d, txn_commit(d, answer))
<1> DEFINE v == verify_pid(d)
           c == COMMIT(v, answer)
           w == Deeper(v, -1)
<1>1. Keeps(d, v)
  BY VerifyKeeps
<1>2. txn_commit(d, answer) =
        IF v.dbh = "none" THEN Throws(v)
        ELSE CASE v.depth = 1 -> IF c.ok THEN Returns(Deeper(c.d, -1)) ELSE c
               [] v.depth > 1 -> IF auto_savepoint THEN svp_release(w) ELSE Returns(w)
               [] v.depth = 0 -> Throws(v)
  BY DEF txn_commit, Usable, Then
<1> HIDE DEF v
<1>3. v \in Storages /\ v.dbh # "inherited" /\ v.depth \in Nat
  BY <1>1 DEF Keeps, Storages
<1>4. CASE v.dbh = "none" \/ v.depth = 0
  <2>1. txn_commit(d, answer) = Throws(v)
    BY <1>2, <1>4
  <2> QED  BY <1>1, <2>1, ThrownGood
<1>5. CASE v.dbh # "none" /\ v.depth = 1
  <2>1. Sent(v, c)
    BY <1>3, CommitSent
  <2>2. txn_commit(d, answer) = IF c.ok THEN Returns(Deeper(c.d, -1)) ELSE c
    BY <1>2, <1>5
  <2> HIDE DEF c
  <2>3. Good(v, IF c.ok THEN Returns(Deeper(c.d, -1)) ELSE c)
    BY <1>3, <1>5, <2>1, LastLevelGood
  <2> QED  BY <1>1, <2>2, <2>3, GoodAfter
<1>6. CASE v.dbh # "none" /\ v.depth > 1
  <2>1. txn_commit(d, answer) = IF auto_savepoint THEN svp_release(w) ELSE Returns(w)
    BY <1>2, <1>6
  <2>2. Keeps(v, w) /\ w \in Storages
    BY <1>3, <1>6, LevelLess
  <2> HIDE DEF w
  <2>3. Keeps(d, w)
    BY <1>1, <2>2, KeepsBoth
  <2> QED  BY <2>1, <2>2, <2>3, SvpReleaseGood, ThrownGood, GoodAfter
<1> QED  BY <1>3, <1>4, <1>5, <1>6

\* Nor does txn_rollback.
LEMMA TxnRollbackGood ==
  ASSUME NEW d \in Storages
  PROVE  Good(d, txn_rollback(d))
<1> DEFINE v == verify_pid(d)
           c == ROLLBACK(v)
           w == Deeper(v, -1)
           b == svp_rollback(w)
           s == svp_release(b.d)
<1>1. Keeps(d, v)
  BY VerifyKeeps
<1>2. txn_rollback(d) =
        IF v.dbh = "none" THEN Throws(v)
        ELSE CASE v.depth = 1 -> IF c.ok THEN Returns(Deeper(c.d, -1)) ELSE c
               [] v.depth > 1 -> IF auto_savepoint THEN IF b.ok THEN s ELSE b ELSE Throws(w)
               [] v.depth = 0 -> Throws(v)
  BY DEF txn_rollback, Usable, Then
<1> HIDE DEF v
<1>3. v \in Storages /\ v.dbh # "inherited" /\ v.depth \in Nat
  BY <1>1 DEF Keeps, Storages
<1>4. CASE v.dbh = "none" \/ v.depth = 0
  <2>1. txn_rollback(d) = Throws(v)
    BY <1>2, <1>4
  <2> QED  BY <1>1, <2>1, ThrownGood
<1>5. CASE v.dbh # "none" /\ v.depth = 1
  <2>1. Sent(v, c)
    BY <1>3, RollbackSent
  <2>2. txn_rollback(d) = IF c.ok THEN Returns(Deeper(c.d, -1)) ELSE c
    BY <1>2, <1>5
  <2> HIDE DEF c
  <2>3. Good(v, IF c.ok THEN Returns(Deeper(c.d, -1)) ELSE c)
    BY <1>3, <1>5, <2>1, LastLevelGood
  <2> QED  BY <1>1, <2>2, <2>3, GoodAfter
<1>6. CASE v.dbh # "none" /\ v.depth > 1
  <2>1. txn_rollback(d) = IF auto_savepoint THEN IF b.ok THEN s ELSE b ELSE Throws(w)
    BY <1>2, <1>6
  <2>2. Keeps(v, w) /\ w \in Storages
    BY <1>3, <1>6, LevelLess
  <2> HIDE DEF w
  <2>3. Keeps(d, w)
    BY <1>1, <2>2, KeepsBoth
  <2>4. Good(d, b)
    BY <2>2, <2>3, SvpRollbackGood, GoodAfter
  <2> HIDE DEF b
  <2>5. Keeps(d, b.d) /\ b.d \in Storages
    BY <2>4 DEF Good, Keeps
  <2>6. Good(d, s)
    BY <2>5, SvpReleaseGood, GoodAfter
  <2> HIDE DEF s
  <2> QED  BY <2>1, <2>3, <2>4, <2>6, ThrownGood
<1> QED  BY <1>3, <1>4, <1>5, <1>6

-----------------------------------------------------------------------------
(* Blocks and guards.                                                      *)

\* TypeOK in the words of this module.
LEMMA TypeIs ==
  TypeOK <=> /\ db \in Storages /\ frames \in Seq(Frames)
             /\ raised \in BOOLEAN /\ auto_savepoint \in BOOLEAN
             /\ undone \subseteq Rows
             /\ units \subseteq [rows : SUBSET Rows, returned : BOOLEAN]
             /\ faults \in 0 .. MaxFaults
BY DEF TypeOK, Storages, Handles, Frames

\* The parent's session is kept, and the storage is one.
DbKept == db' \in Storages /\ Parents(db') = Parents(db)

\* The catch block of txn_do, with a second attempt or without.
LEMMA CaughtKeeps ==
  ASSUME NEW d \in Storages, NEW f \in Frames
  PROVE  Keeps(d, Caught(d, f).d) /\ Caught(d, f).again \in BOOLEAN
<1> DEFINE v == verify_pid(d)
           p == populate_dbh(v)
           b == txn_begin(p, TRUE)
           r == txn_rollback(d)
           over == f.retried \/ f.init > 0 \/ Connected(v)
<1>1. Caught(d, f) = IF over THEN [d |-> r.d, again |-> FALSE] ELSE [d |-> b.d, again |-> TRUE]
  BY DEF Caught
<1>2. Keeps(d, v)
  BY VerifyKeeps
<1> HIDE DEF v
<1>3. Keeps(d, p) /\ p \in Storages
  BY <1>2, PopulateKeeps, KeepsBoth DEF Keeps
<1> HIDE DEF p
<1>4. Good(d, b)
  BY <1>3, TxnBeginGood, GoodAfter
<1> HIDE DEF b
<1>5. Good(d, r)
  BY TxnRollbackGood
<1> HIDE DEF r, over
<1> QED  BY <1>1, <1>4, <1>5 DEF Good

\* A new block or guard.
LEMMA NewFrameType ==
  ASSUME NEW kind \in {"txn_do", "guard"}, NEW init \in Nat, NEW gen \in Nat
  PROVE  NewFrame(kind, init, gen) \in Frames
<1> DEFINE b == \A i \in DOMAIN frames : frames[i].plain
<1>1. b \in BOOLEAN
  OBVIOUS
<1>2. NewFrame(kind, init, gen) =
        [kind |-> kind, init |-> init, gen |-> gen, retried |-> FALSE, asked |-> FALSE,
         rows |-> {}, plain |-> b]
  BY DEF NewFrame
<1> HIDE DEF b
<1> QED  BY <1>1, <1>2 DEF Frames

\* The frames when the last one is changed.
LEMMA ReplaceLast ==
  ASSUME NEW q \in Seq(Frames), q # <<>>, NEW f \in Frames
  PROVE  Append(Front(q), f) \in Seq(Frames)
<1>1. Front(q) \in Seq(Frames)
  BY LastAndFront
<1> QED  BY <1>1, AppendProperties

\* A frame with one field changed.
LEMMA FrameWith ==
  ASSUME NEW f \in Frames, NEW r \in SUBSET Rows
  PROVE  /\ [f EXCEPT !.rows = r] \in Frames
         /\ [f EXCEPT !.retried = TRUE] \in Frames
         /\ [f EXCEPT !.asked = TRUE] \in Frames
         /\ [f EXCEPT !.plain = FALSE] \in Frames
         /\ f.rows \in SUBSET Rows /\ f.init \in Nat
BY DEF Frames

\* The frame of a second attempt.
LEMMA FrameRetried ==
  ASSUME NEW f \in Frames
  PROVE  [f EXCEPT !.retried = TRUE, !.rows = {}] \in Frames
<1> DEFINE g == [f EXCEPT !.retried = TRUE]
           r == {}
<1>1. [f EXCEPT !.retried = TRUE, !.rows = {}] = [g EXCEPT !.rows = r]
  OBVIOUS
<1>2. g \in Frames /\ r \in SUBSET Rows
  BY FrameWith
<1> HIDE DEF g, r
<1> QED  BY <1>1, <1>2, FrameWith

\* Frames that are no longer plain.
LEMMA MarredType ==
  ASSUME NEW q \in Seq(Frames)
  PROVE  Marred(q) \in Seq(Frames)
<1> DEFINE n == Len(q)
<1>1. n \in Nat /\ DOMAIN q = 1 .. n /\ \A i \in 1 .. n : q[i] \in Frames
  BY LenProperties, ElementOfSeq
<1>2. \A i \in 1 .. n : [q[i] EXCEPT !.plain = FALSE] \in Frames
  BY <1>1, FrameWith
<1>3. Marred(q) = [i \in 1 .. n |-> [q[i] EXCEPT !.plain = FALSE]]
  BY <1>1 DEF Marred
<1> HIDE DEF n
<1>4. Marred(q) \in [1 .. n -> Frames]
  BY <1>2, <1>3
<1> QED  BY <1>1, <1>4, SeqDef

UnitSets == SUBSET [rows : SUBSET Rows, returned : BOOLEAN]

\* The end of a frame.
LEMMA CloseType ==
  ASSUME TypeOK, frames # <<>>, NEW threw \in BOOLEAN, Close(threw)
  PROVE  frames' \in Seq(Frames) /\ undone' \subseteq Rows /\ units' \in UnitSets
<1> DEFINE f == Last(frames)
           below == Front(frames)
           undoes == threw /\ (auto_savepoint \/ below = <<>>) /\ ~f.asked
           r == Last(below).rows \cup f.rows
           g == [Last(below) EXCEPT !.rows = r]
           u == [rows |-> f.rows, returned |-> ~threw]
<1>1. /\ frames' = IF below = <<>> \/ undoes THEN below ELSE Append(Front(below), g)
      /\ undone' = IF undoes /\ f.plain THEN undone \cup f.rows ELSE undone
      /\ units' = IF below = <<>> /\ f.plain /\ ~undoes /\ f.rows # {}
                  THEN units \cup {u} ELSE units
  BY DEF Close
<1>2. /\ frames \in Seq(Frames) /\ undone \subseteq Rows /\ units \in UnitSets
  BY TypeIs DEF UnitSets
<1>3. f \in Frames /\ below \in Seq(Frames)
  BY <1>2, LastAndFront
<1>4. f.rows \in SUBSET Rows
  BY <1>3, FrameWith
<1>5. u \in [rows : SUBSET Rows, returned : BOOLEAN]
  BY <1>4
<1> HIDE DEF f, below, undoes, u
<1>6. ASSUME below # <<>>
      PROVE  Append(Front(below), g) \in Seq(Frames)
  <2>1. Last(below) \in Frames
    BY <1>3, <1>6, LastAndFront
  <2>2. r \in SUBSET Rows
    BY <1>4, <2>1, FrameWith
  <2> HIDE DEF r
  <2>3. g \in Frames
    BY <2>1, <2>2, FrameWith
  <2> HIDE DEF g
  <2> QED  BY <1>3, <1>6, <2>3, ReplaceLast
<1> HIDE DEF g
<1>7. frames' \in Seq(Frames)
  BY <1>1, <1>3, <1>6
<1>8. undone' \subseteq Rows
  BY <1>1, <1>2, <1>4
<1>9. units' \in UnitSets
  BY <1>1, <1>2, <1>5 DEF UnitSets
<1> QED  BY <1>7, <1>8, <1>9

\* What a step keeps that leaves the parent's session alone.
Kept == TypeOK' /\ DbKept

\* The type of the next state, from its parts.
LEMMA KeptIs ==
  ASSUME TypeOK, DbKept, frames' \in Seq(Frames), raised' \in BOOLEAN,
         UNCHANGED auto_savepoint, undone' \subseteq Rows, units' \in UnitSets,
         faults' \in 0 .. MaxFaults
  PROVE  Kept
BY TypeIs DEF Kept, DbKept, TypeOK, Storages, Handles, Frames, UnitSets

\* No more than the faults allowed.
LEMMA FaultCounted ==
  ASSUME TypeOK
  PROVE  /\ UNCHANGED faults => faults' \in 0 .. MaxFaults
         /\ Fault => faults' \in 0 .. MaxFaults
         /\ \A answer : Answered(answer) => faults' \in 0 .. MaxFaults
BY TypeIs, BoundsAssumption DEF Fault, Answered

\* txn_do begins, or fails to.
LEMMA TxnDoKeeps ==
  ASSUME TypeOK, TxnDo
  PROVE  Kept
<1> DEFINE h == get_dbh(db)
           f == NewFrame("txn_do", h.depth, h.gen)
           r == txn_begin(h, TRUE)
           c == Caught(r.d, f)
           g == [f EXCEPT !.retried = TRUE]
<1>1. /\ db' = IF r.ok THEN r.d ELSE c.d
      /\ frames' = IF r.ok THEN Append(frames, f)
                   ELSE IF c.again THEN Append(frames, g) ELSE frames
      /\ raised' = (~r.ok /\ ~c.again)
      /\ UNCHANGED <<auto_savepoint, undone, units, faults>>
  BY DEF TxnDo
<1>2. /\ db \in Storages /\ frames \in Seq(Frames) /\ undone \subseteq Rows /\ units \in UnitSets
      /\ raised \in BOOLEAN
  BY TypeIs DEF UnitSets
<1>3. Keeps(db, h)
  BY <1>2, GetDbhKeeps
<1>4. h \in Storages /\ h.depth \in Nat /\ h.gen \in Nat
  BY <1>3 DEF Keeps, Storages
<1> HIDE DEF h
<1>5. f \in Frames
  BY <1>4, NewFrameType
<1> HIDE DEF f
<1>6. g \in Frames
  BY <1>5, FrameWith
<1> HIDE DEF g
<1>7. Good(db, r)
  BY <1>3, <1>4, TxnBeginGood, GoodAfter
<1> HIDE DEF r
<1>8. Keeps(db, r.d) /\ r.d \in Storages /\ r.ok \in BOOLEAN
  BY <1>7 DEF Good, Keeps
<1>9. Keeps(db, c.d) /\ c.again \in BOOLEAN
  BY <1>5, <1>8, CaughtKeeps, KeepsBoth
<1> HIDE DEF c
<1>10. DbKept
  BY <1>1, <1>8, <1>9 DEF DbKept, Keeps
<1>11. frames' \in Seq(Frames)
  BY <1>1, <1>2, <1>5, <1>6, AppendProperties
<1> QED  BY <1>1, <1>2, <1>10, <1>11, KeptIs, FaultCounted

\* The code of a txn_do is through.
LEMMA TxnDoReturnKeeps ==
  ASSUME TypeOK, NEW answer, TxnDoReturn(answer)
  PROVE  Kept
<1> DEFINE r == txn_commit(db, answer)
<1>1. /\ frames # <<>> /\ Close(FALSE) /\ Answered(answer)
      /\ UNCHANGED <<raised, auto_savepoint>>
      /\ db' = r.d \/ db' = db
      /\ db' = IF db.depth = Last(frames).init + 1 THEN r.d ELSE db
  BY DEF TxnDoReturn, Block, Inner
<1>2. db \in Storages /\ raised \in BOOLEAN
  BY TypeIs
<1>3. Good(db, r)
  BY <1>2, TxnCommitGood
<1>4. Keeps(db, r.d)
  BY <1>3 DEF Good
<1> HIDE DEF r
<1>5. CASE db' = r.d
  BY <1>1, <1>2, <1>4, <1>5, CloseType, KeptIs, FaultCounted DEF DbKept, Keeps
<1>6. CASE db' = db
  BY <1>1, <1>2, <1>6, CloseType, KeptIs, FaultCounted DEF DbKept
<1> QED  BY <1>1, <1>5, <1>6

\* An exception reaches a txn_do.
LEMMA TxnDoCatchKeeps ==
  ASSUME TypeOK, TxnDoCatch
  PROVE  Kept
<1> DEFINE f == Last(frames)
           c == Caught(db, f)
           g == [f EXCEPT !.retried = TRUE, !.rows = {}]
<1>1. /\ frames # <<>> /\ raised = TRUE /\ db' = c.d /\ UNCHANGED <<auto_savepoint, faults>>
      /\ \/ /\ raised' = FALSE /\ frames' = Append(Front(frames), g)
            /\ undone' = IF f.plain THEN undone \cup f.rows ELSE undone
            /\ UNCHANGED units
         \/ Close(TRUE) /\ UNCHANGED raised
  BY TypeIs DEF TxnDoCatch, Block, Inner
<1>2. db \in Storages /\ frames \in Seq(Frames) /\ undone \subseteq Rows /\ units \in UnitSets
  BY TypeIs DEF UnitSets
<1>3. f \in Frames
  BY <1>1, <1>2, LastAndFront
<1> HIDE DEF f
<1>4. Keeps(db, c.d)
  BY <1>2, <1>3, CaughtKeeps
<1> HIDE DEF c
<1>5. g \in Frames /\ f.rows \in SUBSET Rows
  BY <1>3, FrameRetried, FrameWith
<1> HIDE DEF g
<1>6. Append(Front(frames), g) \in Seq(Frames)
  BY <1>1, <1>2, <1>5, ReplaceLast
<1>7. DbKept /\ faults' \in 0 .. MaxFaults
  BY <1>1, <1>4, FaultCounted DEF DbKept, Keeps
<1>8. CASE Close(TRUE) /\ UNCHANGED raised
  BY <1>1, <1>7, <1>8, CloseType, KeptIs
<1>9. CASE /\ raised' = FALSE /\ frames' = Append(Front(frames), g)
           /\ undone' = IF f.plain THEN undone \cup f.rows ELSE undone
           /\ UNCHANGED units
  BY <1>1, <1>2, <1>5, <1>6, <1>7, <1>9, KeptIs
<1> QED  BY <1>1, <1>8, <1>9

\* A guard is made.
LEMMA GuardNewKeeps ==
  ASSUME TypeOK, GuardNew
  PROVE  Kept
<1> DEFINE r == txn_begin(db, inDoBlock)
           f == NewFrame("guard", 0, r.d.gen)
<1>1. /\ db' = r.d /\ frames' = IF r.ok THEN Append(frames, f) ELSE frames
      /\ raised' = ~r.ok /\ UNCHANGED <<auto_savepoint, undone, units, faults>>
  BY DEF GuardNew
<1>2. /\ db \in Storages /\ frames \in Seq(Frames) /\ undone \subseteq Rows /\ units \in UnitSets
  BY TypeIs DEF UnitSets
<1>3. inDoBlock \in BOOLEAN
  BY DEF inDoBlock
<1>4. Good(db, r)
  BY <1>2, <1>3, TxnBeginGood
<1> HIDE DEF r
<1>5. r.d \in Storages /\ r.ok \in BOOLEAN /\ Parents(r.d) = Parents(db)
  BY <1>4 DEF Good, Keeps
<1>6. r.d.gen \in Nat
  BY <1>5 DEF Storages
<1>7. f \in Frames
  BY <1>6, NewFrameType
<1> HIDE DEF f
<1>8. frames' \in Seq(Frames)
  BY <1>1, <1>2, <1>7, AppendProperties
<1> QED  BY <1>1, <1>2, <1>5, <1>8, KeptIs, FaultCounted DEF DbKept

\* A guard is asked to commit.
LEMMA GuardCommitKeeps ==
  ASSUME TypeOK, NEW answer, GuardCommit(answer)
  PROVE  Kept
<1> DEFINE r == txn_commit(db, answer)
           g == [Last(frames) EXCEPT !.asked = TRUE]
<1>1. /\ frames # <<>> /\ db' = r.d /\ raised' = ~r.ok /\ Answered(answer)
      /\ UNCHANGED auto_savepoint
      /\ \/ Close(FALSE)
         \/ frames' = Append(Front(frames), g) /\ UNCHANGED <<undone, units>>
  BY DEF GuardCommit, Guard, Inner
<1>2. db \in Storages /\ frames \in Seq(Frames) /\ undone \subseteq Rows /\ units \in UnitSets
  BY TypeIs DEF UnitSets
<1>3. Good(db, r)
  BY <1>2, TxnCommitGood
<1> HIDE DEF r
<1>4. DbKept /\ raised' \in BOOLEAN /\ faults' \in 0 .. MaxFaults
  BY <1>1, <1>3, FaultCounted DEF Good, Keeps, DbKept
<1>5. Last(frames) \in Frames
  BY <1>1, <1>2, LastAndFront
<1>6. g \in Frames
  BY <1>5, FrameWith
<1> HIDE DEF g
<1>7. Append(Front(frames), g) \in Seq(Frames)
  BY <1>1, <1>2, <1>6, ReplaceLast
<1>8. CASE Close(FALSE)
  BY <1>1, <1>4, <1>8, CloseType, KeptIs
<1>9. CASE frames' = Append(Front(frames), g) /\ UNCHANGED <<undone, units>>
  BY <1>1, <1>2, <1>4, <1>7, <1>9, KeptIs
<1> QED  BY <1>1, <1>8, <1>9

\* A guard goes out of scope.
LEMMA GuardDestroyKeeps ==
  ASSUME TypeOK, GuardDestroy
  PROVE  Kept
<1> DEFINE v == verify_pid(db)
           r == txn_rollback(v)
<1>1. /\ frames # <<>> /\ Close(TRUE) /\ UNCHANGED <<raised, auto_savepoint, faults>>
      /\ db' = r.d \/ db' = v
  BY DEF GuardDestroy, Guard, Inner
<1>2. db \in Storages /\ raised \in BOOLEAN
  BY TypeIs
<1>3. Keeps(db, v) /\ v \in Storages
  BY <1>2, VerifyKeeps DEF Keeps
<1> HIDE DEF v
<1>4. Good(db, r)
  BY <1>3, TxnRollbackGood, GoodAfter
<1> HIDE DEF r
<1>5. DbKept
  BY <1>1, <1>3, <1>4 DEF Good, Keeps, DbKept
<1> QED  BY <1>1, <1>2, <1>5, CloseType, KeptIs, FaultCounted

-----------------------------------------------------------------------------
(* What the application does between them.                                 *)

\* A row is written: the first that is not in use.
LEMMA WriteKeeps ==
  ASSUME TypeOK, Write
  PROVE  Kept
<1> DEFINE row == CHOOSE i \in Rows \ Written : \A j \in Rows \ Written : i <= j
           r == dbh_do(db, inDoBlock, LAMBDA h : INSERT(h, row))
           g == [Last(frames) EXCEPT !.rows = @ \cup {row}]
           u == [rows |-> {row}, returned |-> TRUE]
<1>1. /\ Rows \ Written # {} /\ db' = r.d /\ raised' = ~r.ok
      /\ frames' = IF ~Inner \/ ~r.ok THEN frames ELSE Append(Front(frames), g)
      /\ units' = IF Inner \/ ~r.ok THEN units ELSE units \cup {u}
      /\ UNCHANGED <<auto_savepoint, undone, faults>>
  BY DEF Write
<1>2. db \in Storages /\ frames \in Seq(Frames) /\ undone \subseteq Rows /\ units \in UnitSets
  BY TypeIs DEF UnitSets
<1>3. row \in Rows
  <2> DEFINE Free == Rows \ Written
  <2>1. Free \in SUBSET Nat /\ Free # {}
    BY <1>1 DEF Rows
  <2> HIDE DEF Free
  <2>2. \E i \in Free : \A j \in Free : i <= j
    BY <2>1, Smallest
  <2>3. (CHOOSE i \in Free : \A j \in Free : i <= j) \in Free
    BY <2>2
  <2> QED  BY <2>3 DEF Free
<1> HIDE DEF row
<1>4. inDoBlock \in BOOLEAN
  BY DEF inDoBlock
<1>5. Good(db, r)
  BY <1>2, <1>3, <1>4, DoInsertGood
<1> HIDE DEF r
<1>6. DbKept /\ raised' \in BOOLEAN
  BY <1>1, <1>5 DEF Good, Keeps, DbKept
<1>7. ASSUME Inner
      PROVE  Append(Front(frames), g) \in Seq(Frames)
  <2>1. frames # <<>> /\ Last(frames) \in Frames
    BY <1>2, <1>7, LastAndFront DEF Inner
  <2>2. Last(frames).rows \cup {row} \in SUBSET Rows
    BY <1>3, <2>1, FrameWith
  <2>3. g \in Frames
    BY <2>1, <2>2, FrameWith
  <2> HIDE DEF g
  <2> QED  BY <1>2, <2>1, <2>3, ReplaceLast
<1>8. u \in [rows : SUBSET Rows, returned : BOOLEAN]
  BY <1>3
<1> HIDE DEF g, u
<1>9. frames' \in Seq(Frames) /\ units' \in UnitSets
  BY <1>1, <1>2, <1>7, <1>8 DEF UnitSets
<1> QED  BY <1>1, <1>2, <1>6, <1>9, KeptIs, FaultCounted

\* An explicit call, of a method that is typed.
LEMMA CallType ==
  ASSUME TypeOK, NEW r, r.ok \in BOOLEAN, r.d \in Storages, Call(r)
  PROVE  TypeOK' /\ db' = r.d
<1>1. /\ db' = r.d /\ raised' = ~r.ok /\ Fault /\ frames' = Marred(frames)
      /\ UNCHANGED <<auto_savepoint, undone, units>>
  BY DEF Call
<1>2. frames' \in Seq(Frames)
  BY <1>1, MarredType, TypeIs
<1>3. faults' \in 0 .. MaxFaults
  BY <1>1, FaultCounted
<1> QED  BY <1>1, <1>2, <1>3, TypeIs DEF TypeOK, Storages, Handles, Frames

\* A call of a method that looks whose the handle is.
LEMMA CallKeeps ==
  ASSUME TypeOK, NEW r, Good(db, r), Call(r)
  PROVE  Kept
BY CallType DEF Good, Keeps, Kept, DbKept

\* All explicit calls but disconnect are of this kind.
LEMMA CallsKeep ==
  ASSUME TypeOK, Dbh \/ Rollback \/ Savepoint \/ Release \/ RollbackTo
  PROVE  Kept
<1>1. db \in Storages
  BY TypeIs
<1>2. Good(db, Returns(dbh(db)))
  BY <1>1, DbhKeeps, ThrownGood
<1>3. /\ Good(db, txn_rollback(db)) /\ Good(db, svp_begin(db))
      /\ Good(db, svp_release(db)) /\ Good(db, svp_rollback(db))
  BY <1>1, TxnRollbackGood, SvpBeginGood, SvpReleaseGood, SvpRollbackGood
<1> QED
  BY <1>2, <1>3, CallKeeps DEF Dbh, Rollback, Savepoint, Release, RollbackTo

\* disconnect keeps the type, and may close a session that is the parent's.
LEMMA DisconnectType ==
  ASSUME TypeOK, Disconnect
  PROVE  TypeOK'
<1> DEFINE e == Dropped(db)
           s == Session(FALSE)
           x == db.dbh
           r == Returns([e EXCEPT !.sessions[x] = s])
<1>1. db.dbh # "none" /\ Call(r)
  BY DEF Disconnect
<1>2. db \in Storages
  BY TypeIs
<1>3. e \in Storages /\ s \in SessionType /\ x \in {"own", "inherited"}
  BY <1>1, <1>2, DroppedType, SessionIsOne DEF Storages, Handles
<1> HIDE DEF e, s, x
<1>4. [e EXCEPT !.sessions[x] = s] \in Storages
  BY <1>3, SetSession
<1>5. r.ok \in BOOLEAN /\ r.d \in Storages
  BY <1>4 DEF Returns
<1> HIDE DEF r
<1> QED  BY <1>1, <1>5, CallType

\* Only a session of the storage's own is lost.
LEMMA LoseKeeps ==
  ASSUME TypeOK, Lose
  PROVE  Kept
<1> DEFINE s == Session(FALSE)
           e == [db EXCEPT !.sessions["own"] = s]
<1>1. db' = e /\ Fault /\ UNCHANGED <<frames, raised, auto_savepoint, undone, units>>
  BY DEF Lose
<1>2. db \in Storages /\ s \in SessionType
  BY TypeIs, SessionIsOne
<1> HIDE DEF s
<1>3. e \in Storages /\ Parents(e) = Parents(db)
  BY <1>2, SetSession DEF Parents
<1> HIDE DEF e
<1> QED  BY <1>1, <1>3, KeptIs, FaultCounted, TypeIs DEF DbKept, UnitSets

\* A fork makes the session of the parent what was the storage's own.
LEMMA ForkType ==
  ASSUME TypeOK, Fork
  PROVE  TypeOK'
<1> DEFINE e == [db EXCEPT !.dbh = "inherited"]
           ss == [own |-> Session(FALSE), inherited |-> db.sessions["own"]]
           g == [e EXCEPT !.sessions = ss]
<1>1. /\ db' = g /\ Fault /\ frames' = Marred(frames)
      /\ UNCHANGED <<raised, auto_savepoint, undone, units>>
  BY DEF Fork
<1>2. db \in Storages
  BY TypeIs
<1>3. e \in Storages
  BY <1>2, SetHandle DEF Handles
<1>4. ss \in [{"own", "inherited"} -> SessionType]
  <2> DEFINE a == Session(FALSE)
             b == db.sessions["own"]
  <2>1. a \in SessionType /\ b \in SessionType
    BY <1>2, SessionIsOne DEF Storages
  <2> HIDE DEF a, b
  <2>2. [own |-> a, inherited |-> b] \in [{"own", "inherited"} -> SessionType]
    BY <2>1
  <2> QED  BY <2>2 DEF a, b
<1> HIDE DEF e, ss
<1>5. g \in Storages
  BY <1>3, <1>4 DEF Storages
<1> HIDE DEF g
<1>6. frames' \in Seq(Frames) /\ faults' \in 0 .. MaxFaults
  BY <1>1, MarredType, FaultCounted, TypeIs
<1> QED  BY <1>1, <1>5, <1>6, TypeIs DEF TypeOK, Storages, Handles, Frames

\* Exceptions come and go without the storage.
LEMMA IdleKeeps ==
  ASSUME TypeOK, Die \/ Eval \/ UNCHANGED vars
  PROVE  Kept
<1>1. UNCHANGED <<db, frames, auto_savepoint, undone, units, faults>> /\ raised' \in BOOLEAN
  BY TypeIs DEF Die, Eval, vars
<1> QED  BY <1>1, KeptIs, FaultCounted, TypeIs DEF DbKept, UnitSets

-----------------------------------------------------------------------------
(* The theorems.                                                           *)

\* The storage is made without a handle.
LEMMA InitType == Init => TypeOK
<1> SUFFICES ASSUME Init PROVE TypeOK
  OBVIOUS
<1>1. db \in Storages
  <2>1. [s \in {"own", "inherited"} |-> Session(FALSE)] \in [{"own", "inherited"} -> SessionType]
    BY SessionIsOne
  <2>2. <<>> \in Seq(Nat)
    OBVIOUS
  <2> QED  BY <2>1, <2>2 DEF Init, Storages, Handles
<1>2. frames \in Seq(Frames)
  BY DEF Init
<1>3. undone \subseteq Rows /\ units \subseteq [rows : SUBSET Rows, returned : BOOLEAN]
      /\ faults \in 0 .. MaxFaults
  BY BoundsAssumption DEF Init
<1>4. raised \in BOOLEAN /\ auto_savepoint \in BOOLEAN
  BY DEF Init
<1> QED  BY <1>1, <1>2, <1>3, <1>4, TypeIs

\* Every step keeps the type, and all but two the parent's session.
LEMMA NextKeeps ==
  ASSUME TypeOK, [Next]_vars
  PROVE  TypeOK' /\ (Fork \/ Disconnect \/ Parents(db') = Parents(db))
<1>1. CASE TxnDo \/ TxnDoCatch \/ GuardNew \/ GuardDestroy \/ Write
  BY <1>1, TxnDoKeeps, TxnDoCatchKeeps, GuardNewKeeps, GuardDestroyKeeps, WriteKeeps
     DEF Kept, DbKept
<1>2. ASSUME NEW answer \in CommitAnswers, TxnDoReturn(answer) \/ GuardCommit(answer)
      PROVE  TypeOK' /\ Parents(db') = Parents(db)
  BY <1>2, TxnDoReturnKeeps, GuardCommitKeeps DEF Kept, DbKept
<1>3. CASE Dbh \/ Rollback \/ Savepoint \/ Release \/ RollbackTo
  BY <1>3, CallsKeep DEF Kept, DbKept
<1>4. CASE Lose \/ Die \/ Eval \/ UNCHANGED vars
  BY <1>4, LoseKeeps, IdleKeeps DEF Kept, DbKept
<1>5. CASE Fork \/ Disconnect
  BY <1>5, ForkType, DisconnectType
<1> QED  BY <1>1, <1>2, <1>3, <1>4, <1>5 DEF Next

\* Every variable keeps its type; above all, no order of rollbacks, reconnects, forks
\* and lost answers takes the depth below zero.
THEOREM TypeCorrect == Spec => []TypeOK
<1>1. Init => TypeOK
  BY InitType
<1>2. TypeOK /\ [Next]_vars => TypeOK'
  BY NextKeeps
<1> QED  BY <1>1, <1>2, PTL DEF Spec

\* A forked child leaves the session of its parent as it is, whatever its blocks,
\* guards and statements do: every method but disconnect looks whose the handle is.
THEOREM ParentSafe == Spec => ParentUntouched
<1>1. TypeOK /\ [Next]_vars
        => [Fork \/ Disconnect \/ db'.sessions["inherited"] = db.sessions["inherited"]]_vars
  BY NextKeeps DEF Parents
<1> QED  BY <1>1, TypeCorrect, PTL DEF Spec, ParentUntouched
=============================================================================
