-------------------------- MODULE TxnAtomicityProofs --------------------------
(***************************************************************************)
(* Proofs about TxnStorage: what is written in a block gets into the table *)
(* as a whole or not at all, for any nesting, any number of rows, of       *)
(* savepoints and of faults, where the server does not refuse a COMMIT and *)
(* keep the transaction (the run of txn_refused shows what happens then).  *)
(*                                                                         *)
(* The argument is an invariant in three parts.  Sane is about the storage *)
(* alone: its depth and its stack of savepoints are those of its session;  *)
(* this part needs nothing of the answers to a COMMIT.  Balanced relates   *)
(* the depth to the open frames, whatever has been called in them.  Whole  *)
(* relates the work of the session to the rows of frames in which nothing  *)
(* but writes, blocks and guards has happened.                             *)
(***************************************************************************)
EXTENDS TxnStorageProofs

Own(d)  == d.sessions["own"]
Live(d) == d.dbh = "own" /\ Own(d).alive

\* The names on the stack of savepoints are its positions.
Numbered(p) == \A i \in DOMAIN p : p[i] = i - 1

\* The names of the marks are the last k of them.
NamesMatch(m, k) == \A i \in DOMAIN m : m[i].name = k - Len(m) + i - 1

\* What a mark keeps is in the work and in every later mark.
KeptGrows(m, work) ==
  \A i \in DOMAIN m : /\ m[i].kept \subseteq work
                      /\ \A j \in 1 .. i : m[j].kept \subseteq m[i].kept

\* A live session is in a transaction exactly while the storage has a depth.
InTxn(d) ==
  /\ Own(d).begun = (d.depth > 0)
  /\ ~Own(d).begun => Own(d).work = {} /\ Own(d).marks = <<>>
  /\ Len(Own(d).marks) <= Len(d.savepoints)
  /\ NamesMatch(Own(d).marks, Len(d.savepoints))
  /\ KeptGrows(Own(d).marks, Own(d).work)

Sane(d) ==
  /\ d \in Storages /\ Numbered(d.savepoints)
  /\ IF Live(d) THEN InTxn(d) ELSE Own(d) = Session(FALSE)

\* A level may be had from each frame: from a block at the depth it was opened at, from a
\* guard that was made with this handle.  The depth is no more than that.
Levels(L, d, fs) ==
  /\ L[0] = 0 /\ d.depth <= L[Len(fs)]
  /\ \A i \in 1 .. Len(fs) :
       /\ L[i] <= L[i - 1] + 1
       /\ \/ L[i] <= L[i - 1]
          \/ IF fs[i].kind = "txn_do" THEN L[i] = fs[i].init + 1 ELSE fs[i].gen = d.gen

Balanced(d, fs) == Live(d) => \E L \in [0 .. Len(fs) -> Nat] : Levels(L, d, fs)

\* The rows of the first k frames.
Upto(fs, k) == {x \in Rows : \E i \in 1 .. k : x \in fs[i].rows}

\* All frames are marred at once, and only a guard is asked to commit before it is over.
Alike(fs) ==
  /\ \A i, j \in 1 .. Len(fs) : fs[i].plain = fs[j].plain
  /\ \A i \in 1 .. Len(fs) : fs[i].asked => fs[i].kind = "guard"

\* Plain frames were opened with this handle, the outermost block perhaps with the last.
Opened(d, fs) ==
  /\ d.dbh = "own" /\ d.depth > 0
  /\ \A i \in 1 .. Len(fs) : /\ fs[i].kind = "guard" => fs[i].gen = d.gen
                             /\ fs[i].kind = "txn_do" /\ i > 1 => fs[i].init > 0

\* On a live session they are its levels, and their rows its work: a mark keeps what was
\* written before its frame was opened, and nothing of it is in the table.
AtWork(d, fs) ==
  /\ d.depth = Len(fs)
  /\ \A i \in 1 .. Len(fs) : /\ ~fs[i].asked
                             /\ fs[i].kind = "txn_do" => fs[i].init = i - 1
                             /\ \A j \in 1 .. Len(fs) : i # j => fs[i].rows \cap fs[j].rows = {}
  /\ Own(d).work = Upto(fs, Len(fs)) /\ Own(d).work \cap d.table = {}
  /\ Len(Own(d).marks) = IF auto_savepoint THEN Len(fs) - 1 ELSE 0
  /\ \A i \in 1 .. Len(Own(d).marks) : Own(d).marks[i].kept = Upto(fs, i)

\* Without the session their rows are lost, but for those of a guard whose COMMIT was
\* done and not answered.
CutOff(d, fs) ==
  \/ \A i \in 1 .. Len(fs) : fs[i].rows \cap d.table = {}
  \/ /\ fs[1].asked /\ fs[1].rows \subseteq d.table
     /\ \A i \in 2 .. Len(fs) : fs[i].rows = {}

Plain(fs) == \A i \in 1 .. Len(fs) : fs[i].plain

Whole(d, fs) ==
  fs # <<>> /\ Plain(fs) => /\ Opened(d, fs)
                            /\ Live(d) => AtWork(d, fs)
                            /\ ~Live(d) => CutOff(d, fs)

\* What is over is in the table or can not get there any more.
Settled(d, us, un) ==
  /\ \A u \in us : u.rows \subseteq d.table \/ u.rows \cap (d.table \cup Own(d).work) = {}
  /\ un \cap (d.table \cup Own(d).work) = {}

IInv ==
  /\ TypeOK /\ Sane(db)
  /\ Alike(frames) /\ Balanced(db, frames) /\ Whole(db, frames)
  /\ Settled(db, units, undone)

-----------------------------------------------------------------------------
(* Sequences and fields.                                                   *)

\* A storage's fields.
LEMMA FieldTypes ==
  ASSUME NEW d \in Storages
  PROVE  /\ d.dbh \in Handles /\ d.gen \in Nat /\ d.depth \in Nat /\ d.savepoints \in Seq(Nat)
         /\ d.table \in SUBSET Rows /\ Own(d) \in SessionType
         /\ Own(d).alive \in BOOLEAN /\ Own(d).begun \in BOOLEAN
         /\ Own(d).work \in SUBSET Rows /\ Own(d).marks \in Seq(Marks)
<1>1. /\ d.dbh \in Handles /\ d.gen \in Nat /\ d.depth \in Nat /\ d.savepoints \in Seq(Nat)
      /\ d.table \in SUBSET Rows /\ Own(d) \in SessionType
  BY DEF Storages, Own
<1> QED  BY <1>1 DEF SessionType, Marks

\* What a sequence begins with.
LEMMA PrefixAt ==
  ASSUME NEW S, NEW q \in Seq(S), NEW n \in Nat, n <= Len(q)
  PROVE  /\ SubSeq(q, 1, n) \in Seq(S) /\ Len(SubSeq(q, 1, n)) = n
         /\ \A i \in 1 .. n : SubSeq(q, 1, n)[i] = q[i]
<1>1. Len(q) \in Nat /\ \A i \in 1 .. n : q[i] \in S
  BY ElementOfSeq, LenProperties, SMT
<1> DEFINE one == 1
           start == SubSeq(q, one, n)
<1>2. one \in Int /\ n \in Int /\ \A i \in one .. n : q[i] \in S
  BY <1>1
<1> HIDE DEF one
<1>3. start \in Seq(S) /\ Len(start) = IF one <= n THEN n - one + 1 ELSE 0
  BY <1>2, SubSeqProperties, ZenonT(30)
<1> HIDE DEF start
<1>5. Len(start) = n
  BY <1>3 DEF one
<1>6. \A i \in 1 .. n : SubSeq(q, 1, n)[i] = q[i]
  <2>1. n \in 0 .. Len(q)
    BY <1>1
  <2>2. SubSeq(q, 1, n) = Restrict(q, 1 .. n)
    BY <2>1, SubSeqRestrict, Zenon
  <2> QED  BY <2>2 DEF Restrict
<1> QED  BY <1>3, <1>5, <1>6, Zenon DEF start, one

\* The elements of a sequence without its last.
LEMMA FrontAt ==
  ASSUME NEW S, NEW q \in Seq(S), q # <<>>
  PROVE  /\ Front(q) \in Seq(S) /\ Len(q) \in Nat \ {0} /\ Len(Front(q)) = Len(q) - 1
         /\ \A i \in 1 .. Len(q) - 1 : Front(q)[i] = q[i]
         /\ Last(q) = q[Len(q)] /\ Last(q) \in S
<1> DEFINE m == Len(q) - 1
<1>1. Len(q) \in Nat /\ Len(q) # 0
  BY EmptySeq, LenProperties
<1>2. m \in Nat /\ m <= Len(q)
  BY <1>1
<1>3. Front(q) = SubSeq(q, 1, m)
  BY DEF Front
<1> HIDE DEF m
<1>4. Front(q) \in Seq(S) /\ Len(Front(q)) = m /\ \A i \in 1 .. m : Front(q)[i] = q[i]
  BY <1>2, <1>3, PrefixAt, ZenonT(60)
<1>5. q[Len(q)] \in S
  BY <1>1, ElementOfSeq
<1> QED  BY <1>1, <1>4, <1>5 DEF Last, m

\* The same with one more.
LEMMA AppendAt ==
  ASSUME NEW S, NEW q \in Seq(S), NEW x \in S
  PROVE  /\ Append(q, x) \in Seq(S) /\ Len(q) \in Nat /\ Len(Append(q, x)) = Len(q) + 1
         /\ \A i \in 1 .. Len(q) : Append(q, x)[i] = q[i]
         /\ Append(q, x)[Len(q) + 1] = x /\ Append(q, x) # <<>>
BY AppendProperties, LenProperties, SMT

\* A session with its marks changed.
LEMMA SessionMarks ==
  ASSUME NEW s \in SessionType, NEW m \in Seq(Marks)
  PROVE  LET e == [s EXCEPT !.marks = m]
         IN  e \in SessionType /\ e.begun = s.begun /\ e.alive = s.alive /\ e.work = s.work
             /\ e.marks = m
BY DEF SessionType, Marks

\* With its work changed.
LEMMA SessionWork ==
  ASSUME NEW s \in SessionType, NEW w \in SUBSET Rows
  PROVE  LET e == [s EXCEPT !.work = w]
         IN  e \in SessionType /\ e.begun = s.begun /\ e.alive = s.alive /\ e.work = w
             /\ e.marks = s.marks
BY DEF SessionType

\* In a transaction.
LEMMA SessionBegun ==
  ASSUME NEW s \in SessionType
  PROVE  LET e == [s EXCEPT !.begun = TRUE]
         IN  e \in SessionType /\ e.begun = TRUE /\ e.alive = s.alive /\ e.work = s.work
             /\ e.marks = s.marks
BY DEF SessionType

\* A storage whose other fields are those of d.
Like(d, e) == /\ e \in Storages /\ e.dbh = d.dbh /\ e.gen = d.gen
              /\ e.depth = d.depth /\ e.savepoints = d.savepoints

\* The storage's own session is changed.
LEMMA OwnSet ==
  ASSUME NEW d \in Storages, NEW s \in SessionType
  PROVE  LET e == [d EXCEPT !.sessions["own"] = s]
         IN  Like(d, e) /\ e.table = d.table /\ Own(e) = s
BY DEF Storages, Own, Like

\* A session that is new, or closed, has no work.
LEMMA SessionFields ==
  ASSUME NEW b \in BOOLEAN
  PROVE  /\ Session(b) \in SessionType /\ Session(b).alive = b /\ ~Session(b).begun
         /\ Session(b).work = {} /\ Session(b).marks = <<>>
BY SessionIsOne DEF Session

-----------------------------------------------------------------------------
(* The statements, on a live session of the storage's own.                 *)

\* The statement was executed, and the session is s.
Became(d, r, s) == r.ok = TRUE /\ Like(d, r.d) /\ r.d.table = d.table /\ Own(r.d) = s

\* A live storage is connected, and no other that has its own handle.
LEMMA LiveIsConnected ==
  ASSUME NEW d \in Storages
  PROVE  /\ Live(d) => Connected(d) /\ Here(d) = Own(d)
         /\ d.dbh # "inherited" /\ ~Live(d) => ~Connected(d)
BY DEF Live, Connected, Here, Own, Storages, Handles

\* A statement that is possible.
LEMMA StatementLive ==
  ASSUME NEW d \in Storages, Live(d), NEW possible, possible, NEW s \in SessionType
  PROVE  Became(d, Statement(d, possible, s), s)
<1> DEFINE e == [d EXCEPT !.sessions["own"] = s]
<1>1. Statement(d, possible, s) = Returns(e)
  BY LiveIsConnected DEF Statement, Live
<1>2. Like(d, e) /\ e.table = d.table /\ Own(e) = s
  BY OwnSet
<1> HIDE DEF e
<1>3. Returns(e).ok = TRUE /\ Returns(e).d = e
  BY DEF Returns
<1>4. Became(d, Returns(e), s)
  BY <1>2, <1>3 DEF Became
<1> QED  BY <1>1, <1>4, Zenon

\* One that is not, or has no connection.
LEMMA StatementCut ==
  ASSUME NEW d \in Storages, NEW possible, NEW s, ~Connected(d) \/ ~possible
  PROVE  Statement(d, possible, s) = Throws(d)
BY DEF Statement

\* BEGIN.
LEMMA BeginLive ==
  ASSUME NEW d \in Storages, Live(d), ~Own(d).begun
  PROVE  Became(d, BEGIN(d), [Own(d) EXCEPT !.begun = TRUE])
<1> DEFINE s == [Own(d) EXCEPT !.begun = TRUE]
<1>1. s \in SessionType
  BY FieldTypes, SessionBegun
<1>2. BEGIN(d) = Statement(d, ~Own(d).begun, s)
  BY LiveIsConnected DEF BEGIN
<1> HIDE DEF s
<1>3. Became(d, BEGIN(d), s)
  BY <1>1, <1>2, StatementLive
<1> QED  BY <1>3 DEF s

\* ROLLBACK.
LEMMA RollbackLive ==
  ASSUME NEW d \in Storages, Live(d)
  PROVE  Became(d, ROLLBACK(d), Session(TRUE))
BY SessionFields, StatementLive DEF ROLLBACK

\* SAVEPOINT: a mark more.
LEMMA SavepointLive ==
  ASSUME NEW d \in Storages, Live(d), Own(d).begun, NEW name \in Nat
  PROVE  /\ [name |-> name, kept |-> Own(d).work] \in Marks
         /\ Became(d, SAVEPOINT(d, name),
              [Own(d) EXCEPT !.marks = Append(@, [name |-> name, kept |-> Own(d).work])])
<1> DEFINE mark == [name |-> name, kept |-> Own(d).work]
           m == Append(Own(d).marks, mark)
           s == [Own(d) EXCEPT !.marks = m]
<1>1. mark \in Marks
  BY FieldTypes DEF Marks
<1> HIDE DEF mark
<1>2. m \in Seq(Marks)
  BY <1>1, FieldTypes, AppendAt
<1> HIDE DEF m
<1>3. s \in SessionType
  BY <1>2, FieldTypes, SessionMarks
<1>4. SAVEPOINT(d, name) = Statement(d, Own(d).begun, s)
  BY LiveIsConnected DEF SAVEPOINT, m, mark
<1> HIDE DEF s
<1>5. Became(d, SAVEPOINT(d, name), s)
  BY <1>3, <1>4, StatementLive
<1> QED  BY <1>1, <1>5 DEF s, m, mark

\* The last mark is the one of its name, when the names are consecutive.
LEMMA NamedLast ==
  ASSUME NEW d \in Storages, Live(d), NEW k \in Nat, NamesMatch(Own(d).marks, k)
  PROVE  /\ Own(d).marks = <<>> => Named(d, k - 1) = {}
         /\ Own(d).marks # <<>> => /\ Named(d, k - 1) = {Len(Own(d).marks)}
                                   /\ LastNamed(d, k - 1) = Len(Own(d).marks)
<1> DEFINE m == Own(d).marks
           n == Len(m)
<1>1. m \in Seq(Marks) /\ n \in Nat /\ DOMAIN m = 1 .. n
  BY FieldTypes, LenProperties
<1>2. Named(d, k - 1) = {i \in 1 .. n : m[i].name = k - 1}
  BY <1>1, LiveIsConnected DEF Named
<1>3. \A i \in 1 .. n : m[i].name = k - n + i - 1
  BY <1>1 DEF NamesMatch
<1>4. CASE m = <<>>
  BY <1>2, <1>4
<1>5. CASE m # <<>>
  <2>1. n # 0
    BY <1>1, <1>5, EmptySeq
  <2> HIDE DEF n, m
  <2>2. Named(d, k - 1) = {n}
    BY <1>1, <1>2, <1>3, <2>1
  <2>3. LastNamed(d, k - 1) = n
    BY <1>1, <2>2 DEF LastNamed
  <2> QED  BY <1>5, <2>2, <2>3 DEF n, m
<1> QED  BY <1>4, <1>5

\* RELEASE of the last mark.
LEMMA ReleaseLive ==
  ASSUME NEW d \in Storages, Live(d), NEW k \in Nat, NamesMatch(Own(d).marks, k)
  PROVE  /\ Own(d).marks # <<>> => Became(d, RELEASE(d, k - 1), [Own(d) EXCEPT !.marks = Front(@)])
         /\ Own(d).marks = <<>> => RELEASE(d, k - 1) = Throws(d)
<1> DEFINE m == Own(d).marks
           f == Front(m)
           s == [Own(d) EXCEPT !.marks = f]
<1>1. RELEASE(d, k - 1) = Statement(d, Named(d, k - 1) # {},
        [Own(d) EXCEPT !.marks = SubSeq(@, 1, LastNamed(d, k - 1) - 1)])
  BY LiveIsConnected DEF RELEASE
<1>2. CASE m = <<>>
  BY <1>1, <1>2, NamedLast, StatementCut
<1>3. CASE m # <<>>
  <2>1. Named(d, k - 1) # {} /\ LastNamed(d, k - 1) = Len(m)
    BY <1>3, NamedLast
  <2>2. RELEASE(d, k - 1) = Statement(d, Named(d, k - 1) # {}, s)
    BY <1>1, <2>1 DEF Front
  <2>3. f \in Seq(Marks)
    BY <1>3, FieldTypes, FrontAt
  <2> HIDE DEF f
  <2>4. s \in SessionType
    BY <2>3, FieldTypes, SessionMarks
  <2> HIDE DEF s
  <2>5. Became(d, RELEASE(d, k - 1), s)
    BY <2>1, <2>2, <2>4, StatementLive
  <2> QED  BY <1>3, <2>5 DEF s, f
<1> QED  BY <1>2, <1>3

\* ROLLBACK TO the last mark, which stays.
LEMMA RollbackToLive ==
  ASSUME NEW d \in Storages, Live(d), NEW k \in Nat, NamesMatch(Own(d).marks, k)
  PROVE  /\ Own(d).marks # <<>> =>
              Became(d, ROLLBACK_TO(d, k - 1), [Own(d) EXCEPT !.work = Last(Own(d).marks).kept])
         /\ Own(d).marks = <<>> => ROLLBACK_TO(d, k - 1) = Throws(d)
<1> DEFINE m == Own(d).marks
           n == LastNamed(d, k - 1)
           w == Last(m).kept
           s == [Own(d) EXCEPT !.work = w]
<1>1. ROLLBACK_TO(d, k - 1) = Statement(d, Named(d, k - 1) # {},
        [Own(d) EXCEPT !.marks = SubSeq(@, 1, n), !.work = m[n].kept])
  BY LiveIsConnected DEF ROLLBACK_TO
<1>2. CASE m = <<>>
  BY <1>1, <1>2, NamedLast, StatementCut
<1>3. CASE m # <<>>
  <2>1. Named(d, k - 1) # {} /\ n = Len(m)
    BY <1>3, NamedLast
  <2>2. m \in Seq(Marks) /\ Last(m) \in Marks /\ Last(m) = m[n]
    BY <1>3, <2>1, FieldTypes, FrontAt
  <2>3. w \in SUBSET Rows /\ w = m[n].kept
    BY <2>2 DEF Marks
  <2>4. SubSeq(m, 1, n) = m
    BY <2>1, <2>2, SubSeqFull
  <2> HIDE DEF w, n
  <2>5. [Own(d) EXCEPT !.marks = SubSeq(@, 1, n), !.work = m[n].kept] = s
    <3>1. Own(d) \in SessionType
      BY FieldTypes
    <3> QED  BY <2>3, <2>4, <3>1 DEF SessionType
  <2>6. s \in SessionType
    BY <2>3, FieldTypes, SessionWork
  <2> HIDE DEF s
  <2>7. Became(d, ROLLBACK_TO(d, k - 1), s)
    BY <1>1, <2>1, <2>5, <2>6, StatementLive
  <2> QED  BY <1>3, <2>7 DEF s, w
<1> QED  BY <1>2, <1>3

-----------------------------------------------------------------------------
(* Savepoints, in a sane storage.                                          *)

\* Nothing but work of the session comes into the table, and none into the session.
Settles(d, e) == /\ d.table \subseteq e.table /\ e.table \subseteq d.table \cup Own(d).work
                 /\ Own(e).work \subseteq Own(d).work

\* The same handle, with its session and the transaction in it.
SameHandle(d, e) == Sane(e) /\ e.dbh = d.dbh /\ e.gen = d.gen

\* On a live session a method returns with a storage of depth n that is as it was but for
\* the marks and the work.
Goes(d, r, n) == /\ r.ok = TRUE /\ SameHandle(d, r.d) /\ Live(r.d)
                 /\ r.d.depth = n /\ r.d.table = d.table

\* A method fails, or does nothing, without the session.
StaysCut(d, e) == SameHandle(d, e) /\ ~Live(e) /\ e.table = d.table /\ (d.depth > 0 => e.depth > 0)

\* A live sane storage's parts.
LEMMA SaneLive ==
  ASSUME NEW d, Sane(d), Live(d)
  PROVE  /\ d \in Storages /\ InTxn(d) /\ Numbered(d.savepoints) /\ d.depth \in Nat
         /\ Own(d).alive = TRUE /\ Len(Own(d).marks) \in Nat /\ Len(d.savepoints) \in Nat
<1>1. d \in Storages /\ InTxn(d) /\ Numbered(d.savepoints)
  BY DEF Sane
<1> QED  BY <1>1, FieldTypes, LenProperties DEF Live

\* Only the depth of a storage changes, and stays above zero.
LEMMA SaneDepth ==
  ASSUME NEW d, Sane(d), NEW n \in Nat, Live(d) => (d.depth > 0) = (n > 0)
  PROVE  LET e == [d EXCEPT !.depth = n]
         IN  /\ Sane(e) /\ e.dbh = d.dbh /\ e.gen = d.gen /\ e.depth = n /\ Live(e) = Live(d)
             /\ e.savepoints = d.savepoints /\ e.table = d.table /\ Own(e) = Own(d)
<1> DEFINE e == [d EXCEPT !.depth = n]
<1>1. d \in Storages
  BY DEF Sane
<1>2. /\ e \in Storages /\ e.dbh = d.dbh /\ e.gen = d.gen /\ e.depth = n
      /\ e.savepoints = d.savepoints /\ e.table = d.table /\ e.sessions = d.sessions
  BY <1>1, SetDepth
<1> HIDE DEF e
<1>3. Own(e) = Own(d) /\ Live(e) = Live(d)
  BY <1>2 DEF Own, Live
<1>4. Sane(e)
  BY <1>2, <1>3 DEF Sane, InTxn
<1> QED  BY <1>2, <1>3, <1>4 DEF e

\* A storage that has its own handle needs no verification; another one gives it up.
LEMMA Verified ==
  ASSUME NEW d, Sane(d)
  PROVE  /\ d.dbh # "inherited" => verify_pid(d) = d
         /\ d.dbh # "own" => /\ Sane(verify_pid(d)) /\ verify_pid(d).dbh = "none"
                             /\ verify_pid(d).table = d.table /\ ~Live(verify_pid(d))
                             /\ Own(verify_pid(d)) = Own(d)
<1>1. d \in Storages
  BY DEF Sane
<1>2. CASE d.dbh # "inherited"
  BY <1>1, <1>2 DEF verify_pid, Live, Storages, Handles
<1>3. CASE d.dbh = "inherited"
  <2> DEFINE a == Dropped(d)
             b == [a EXCEPT !.depth = 0]
             p == <<>>
             e == [b EXCEPT !.savepoints = p]
  <2>1. verify_pid(d) = e
    BY <1>3 DEF verify_pid
  <2>2. /\ a \in Storages /\ a.dbh = "none" /\ a.table = d.table /\ a.sessions = d.sessions
    BY <1>1, DroppedType
  <2> HIDE DEF a
  <2>3. /\ b \in Storages /\ b.dbh = "none" /\ b.table = d.table /\ b.sessions = d.sessions
    BY <2>2, SetDepth
  <2> HIDE DEF b
  <2>4. p \in Seq(Nat) /\ Numbered(p)
    BY DEF Numbered
  <2> HIDE DEF p
  <2>5. /\ e \in Storages /\ e.dbh = "none" /\ e.table = d.table /\ e.sessions = d.sessions
        /\ e.savepoints = p
    BY <2>3, <2>4, SetSavepoints
  <2> HIDE DEF e
  <2>6. Own(d) = Session(FALSE)
    BY <1>3 DEF Sane, Live
  <2>7. Own(e) = Own(d) /\ ~Live(e)
    BY <2>5 DEF Own, Live
  <2> QED  BY <1>3, <2>1, <2>4, <2>5, <2>6, <2>7 DEF Sane
<1> QED  BY <1>2, <1>3

\* svp_begin sets a mark that keeps the work.
LEMMA SvpBeginLive ==
  ASSUME NEW d, Sane(d), Live(d), d.depth > 0
  PROVE  LET r == svp_begin(d)
         IN  /\ Goes(d, r, d.depth) /\ Own(r.d).work = Own(d).work
             /\ Len(Own(r.d).marks) = Len(Own(d).marks) + 1
             /\ \A i \in 1 .. Len(Own(d).marks) : Own(r.d).marks[i] = Own(d).marks[i]
             /\ Own(r.d).marks[Len(Own(d).marks) + 1].kept = Own(d).work
<1> DEFINE n == Len(d.savepoints)
           p == Append(d.savepoints, n)
           e == [d EXCEPT !.savepoints = p]
           m == Own(d).marks
           mark == [name |-> n, kept |-> Own(d).work]
           q == Append(m, mark)
           s == [Own(d) EXCEPT !.marks = q]
           r == SAVEPOINT(e, n)
<1>1. /\ d \in Storages /\ InTxn(d) /\ Numbered(d.savepoints) /\ d.dbh = "own" /\ n \in Nat
  BY SaneLive DEF Live
<1>2. svp_begin(d) = r
  BY <1>1, Verified DEF svp_begin, Usable
<1>3. /\ d.savepoints \in Seq(Nat) /\ m \in Seq(Marks) /\ Own(d) \in SessionType
      /\ Len(m) \in Nat /\ Own(d).work \in SUBSET Rows
  BY <1>1, FieldTypes, LenProperties
<1>4. /\ p \in Seq(Nat) /\ Len(p) = n + 1 /\ Numbered(p)
  <2>1. /\ p \in Seq(Nat) /\ Len(p) = n + 1 /\ p[n + 1] = n
        /\ \A i \in 1 .. n : p[i] = d.savepoints[i]
    BY <1>1, <1>3, AppendAt
  <2>2. DOMAIN p = 1 .. n + 1 /\ DOMAIN d.savepoints = 1 .. n
    BY <1>3, <2>1, LenProperties
  <2> HIDE DEF n, p
  <2>3. \A i \in 1 .. n + 1 : i \in 1 .. n \/ i = n + 1
    BY <1>1
  <2> QED  BY <1>1, <2>1, <2>2, <2>3 DEF Numbered
<1> HIDE DEF p
<1>5. /\ e \in Storages /\ e.dbh = "own" /\ e.gen = d.gen /\ e.depth = d.depth
      /\ e.savepoints = p /\ e.table = d.table /\ e.sessions = d.sessions
  BY <1>1, <1>4, SetSavepoints
<1> HIDE DEF e
<1>6. Live(e) /\ Own(e) = Own(d) /\ Own(e).begun
  BY <1>1, <1>5 DEF Own, Live, InTxn
<1>7. mark \in Marks /\ Became(e, r, s)
  BY <1>1, <1>5, <1>6, SavepointLive
<1>8. /\ q \in Seq(Marks) /\ Len(q) = Len(m) + 1 /\ q[Len(m) + 1] = mark
      /\ \A i \in 1 .. Len(m) : q[i] = m[i]
  BY <1>3, <1>7, AppendAt
<1>9. /\ s.begun = Own(d).begun /\ s.alive = TRUE /\ s.work = Own(d).work /\ s.marks = q
  <2> HIDE DEF q
  <2>1. s.begun = Own(d).begun /\ s.alive = Own(d).alive /\ s.work = Own(d).work /\ s.marks = q
    BY <1>3, <1>8, SessionMarks
  <2> QED  BY <2>1, SaneLive
<1> HIDE DEF s, r, mark, q, n, m
<1>10. NamesMatch(q, n + 1)
  <2>1. \A i \in 1 .. Len(m) : m[i].name = n - Len(m) + i - 1
    BY <1>1, <1>3, LenProperties DEF InTxn, NamesMatch, n, m
  <2>2. mark.name = n
    BY DEF mark
  <2>3. DOMAIN q = 1 .. Len(m) + 1
    BY <1>8, LenProperties
  <2>4. \A i \in 1 .. Len(m) + 1 : i \in 1 .. Len(m) \/ i = Len(m) + 1
    BY <1>3
  <2>5. \A i \in 1 .. Len(m) : q[i].name = (n + 1) - Len(q) + i - 1
    BY <1>1, <1>3, <1>8, <2>1
  <2>6. q[Len(m) + 1].name = (n + 1) - Len(q) + (Len(m) + 1) - 1
    BY <1>1, <1>3, <1>8, <2>2
  <2> QED  BY <2>3, <2>4, <2>5, <2>6 DEF NamesMatch
<1>11. KeptGrows(q, Own(d).work)
  <2>1. \A i \in 1 .. Len(m) : /\ m[i].kept \subseteq Own(d).work
                               /\ \A j \in 1 .. i : m[j].kept \subseteq m[i].kept
    <3>1. KeptGrows(m, Own(d).work)
      BY <1>1 DEF InTxn, m
    <3>2. DOMAIN m = 1 .. Len(m)
      BY <1>3, LenProperties
    <3> QED  BY <3>1, <3>2 DEF KeptGrows
  <2>2. mark.kept = Own(d).work
    BY DEF mark
  <2>3. DOMAIN q = 1 .. Len(m) + 1
    BY <1>8, LenProperties
  <2>4. \A i \in 1 .. Len(m) : /\ q[i].kept \subseteq Own(d).work
                               /\ \A j \in 1 .. i : q[j].kept \subseteq q[i].kept
    BY <1>3, <1>8, <2>1, SMTT(30)
  <2>5. \A i \in 1 .. Len(m) + 1 : i \in 1 .. Len(m) \/ i = Len(m) + 1
    BY <1>3
  <2>6. \A j \in 1 .. Len(m) + 1 : q[j].kept \subseteq q[Len(m) + 1].kept
    BY <1>8, <2>2, <2>4, <2>5
  <2> QED  BY <1>8, <2>2, <2>3, <2>4, <2>5, <2>6 DEF KeptGrows
<1>12. /\ r.ok = TRUE /\ r.d \in Storages /\ r.d.dbh = "own" /\ r.d.gen = d.gen
       /\ r.d.depth = d.depth /\ r.d.savepoints = p /\ r.d.table = d.table /\ Own(r.d) = s
  BY <1>5, <1>7 DEF Became, Like
<1>13. Live(r.d)
  BY <1>9, <1>12 DEF Live
<1>14. InTxn(r.d)
  <2>1. Len(m) <= n /\ Own(d).begun = (d.depth > 0) /\ Own(d).begun
    BY <1>1 DEF InTxn, m, n
  <2> QED  BY <1>1, <1>3, <1>4, <1>8, <1>9, <1>10, <1>11, <1>12, <2>1 DEF InTxn
<1>15. Goes(d, r, d.depth)
  BY <1>1, <1>4, <1>12, <1>13, <1>14 DEF Goes, SameHandle, Sane
<1> QED  BY <1>2, <1>8, <1>9, <1>12, <1>15 DEF m, mark

\* Without their last, marks are named and grow as before.
LEMMA FewerMarks ==
  ASSUME NEW m \in Seq(Marks), m # <<>>, NEW k \in Nat, NEW w,
         Len(m) <= k, NamesMatch(m, k), KeptGrows(m, w)
  PROVE  /\ Front(m) \in Seq(Marks) /\ Len(Front(m)) <= k - 1
         /\ NamesMatch(Front(m), k - 1) /\ KeptGrows(Front(m), w)
<1> DEFINE f == Front(m)
           n == Len(m)
<1>1. /\ f \in Seq(Marks) /\ n \in Nat \ {0} /\ Len(f) = n - 1
      /\ \A i \in 1 .. n - 1 : f[i] = m[i]
  BY FrontAt
<1>2. DOMAIN m = 1 .. n /\ DOMAIN f = 1 .. n - 1
  BY <1>1, LenProperties
<1> HIDE DEF f, n
<1>3. \A i \in 1 .. n - 1 : i \in 1 .. n /\ \A j \in 1 .. i : j \in 1 .. n - 1
  BY <1>1
<1>4. NamesMatch(f, k - 1)
  <2>1. \A i \in 1 .. n : m[i].name = k - n + i - 1
    BY <1>2 DEF NamesMatch, n
  <2> QED  BY <1>1, <1>2, <1>3, <2>1 DEF NamesMatch
<1>5. KeptGrows(f, w)
  BY <1>1, <1>2, <1>3 DEF KeptGrows
<1>6. Len(f) <= k - 1
  BY <1>1 DEF n
<1> QED  BY <1>1, <1>4, <1>5, <1>6 DEF f

\* The last name on the stack, and the stack without it.
LEMMA LastNumber ==
  ASSUME NEW p \in Seq(Nat), Numbered(p), p # <<>>
  PROVE  /\ Len(p) \in Nat \ {0} /\ Last(p) = Len(p) - 1
         /\ Front(p) \in Seq(Nat) /\ Len(Front(p)) = Len(p) - 1 /\ Numbered(Front(p))
<1> DEFINE f == Front(p)
           n == Len(p)
<1>1. /\ f \in Seq(Nat) /\ n \in Nat \ {0} /\ Len(f) = n - 1 /\ Last(p) = p[n]
      /\ \A i \in 1 .. n - 1 : f[i] = p[i]
  BY FrontAt
<1>2. DOMAIN p = 1 .. n /\ DOMAIN f = 1 .. n - 1
  BY <1>1, LenProperties
<1> HIDE DEF f, n
<1>3. \A i \in 1 .. n : p[i] = i - 1
  BY <1>2 DEF Numbered
<1>4. Last(p) = n - 1
  BY <1>1, <1>3
<1>5. Numbered(f)
  BY <1>1, <1>2, <1>3 DEF Numbered
<1> QED  BY <1>1, <1>4, <1>5 DEF f, n

\* The marks of a live session, for the stack of savepoints.
LEMMA MarksLive ==
  ASSUME NEW d, Sane(d), Live(d)
  PROVE  /\ Own(d).marks \in Seq(Marks) /\ d.savepoints \in Seq(Nat)
         /\ Len(Own(d).marks) <= Len(d.savepoints)
         /\ NamesMatch(Own(d).marks, Len(d.savepoints)) /\ KeptGrows(Own(d).marks, Own(d).work)
         /\ d.savepoints = <<>> => Own(d).marks = <<>>
<1>1. d \in Storages /\ InTxn(d)
  BY DEF Sane
<1>2. /\ Own(d).marks \in Seq(Marks) /\ d.savepoints \in Seq(Nat)
      /\ Len(Own(d).marks) \in Nat /\ Len(d.savepoints) \in Nat
  BY <1>1, FieldTypes, LenProperties
<1>3. d.savepoints = <<>> => Own(d).marks = <<>>
  BY <1>1, <1>2, EmptySeq DEF InTxn
<1> QED  BY <1>1, <1>2, <1>3 DEF InTxn

\* svp_release takes the last mark away; without one it fails.
LEMMA SvpReleaseLive ==
  ASSUME NEW d, Sane(d), Live(d), d.depth > 0
  PROVE  LET r == svp_release(d)
         IN  /\ Own(d).marks # <<>> => Goes(d, r, d.depth) /\ Own(r.d).work = Own(d).work
                                       /\ Own(r.d).marks = Front(Own(d).marks)
             /\ Own(d).marks = <<>> => /\ r.ok = FALSE /\ SameHandle(d, r.d) /\ Own(r.d) = Own(d)
                                       /\ r.d.depth = d.depth /\ r.d.table = d.table
<1> DEFINE k == Len(d.savepoints)
           p == Front(d.savepoints)
           e == [d EXCEPT !.savepoints = p]
           m == Own(d).marks
           f == Front(m)
           s == [Own(d) EXCEPT !.marks = f]
           r == RELEASE(e, k - 1)
<1>1. /\ d \in Storages /\ InTxn(d) /\ Numbered(d.savepoints) /\ d.dbh = "own"
  BY SaneLive DEF Live
<1>2. svp_release(d) = IF d.savepoints = <<>> THEN Throws(d) ELSE RELEASE(e, Last(d.savepoints))
  BY <1>1, Verified DEF svp_release, Usable
<1>3. CASE d.savepoints = <<>>
  <2>1. svp_release(d) = Throws(d)
    BY <1>2, <1>3
  <2>2. m = <<>>
    BY <1>3, MarksLive
  <2> QED  BY <2>1, <2>2 DEF Throws, SameHandle
<1>4. CASE d.savepoints # <<>>
  <2>1. /\ k \in Nat \ {0} /\ Last(d.savepoints) = k - 1
        /\ p \in Seq(Nat) /\ Len(p) = k - 1 /\ Numbered(p)
    BY <1>1, <1>4, MarksLive, LastNumber
  <2>2. svp_release(d) = r
    BY <1>2, <1>4, <2>1
  <2> HIDE DEF p
  <2>3. /\ e \in Storages /\ e.dbh = "own" /\ e.gen = d.gen /\ e.depth = d.depth
        /\ e.savepoints = p /\ e.table = d.table /\ e.sessions = d.sessions
    BY <1>1, <2>1, SetSavepoints
  <2> HIDE DEF e
  <2>4. Live(e) /\ Own(e) = Own(d)
    BY <1>1, <2>3 DEF Own, Live
  <2>5. /\ m \in Seq(Marks) /\ Len(m) <= k /\ NamesMatch(m, k) /\ KeptGrows(m, Own(d).work)
    BY MarksLive
  <2>6. CASE m = <<>>
    <3>1. r = Throws(e)
      BY <2>1, <2>3, <2>4, <2>5, <2>6, ReleaseLive
    <3>2. /\ NamesMatch(<<>>, k - 1) /\ KeptGrows(<<>>, Own(d).work) /\ Len(<<>>) <= k - 1
      BY <2>1 DEF NamesMatch, KeptGrows
    <3>3. InTxn(e)
      BY <1>1, <2>1, <2>3, <2>4, <2>6, <3>2 DEF InTxn
    <3>4. SameHandle(d, e)
      BY <1>1, <2>1, <2>3, <2>4, <3>3 DEF SameHandle, Sane
    <3> QED  BY <2>2, <2>3, <2>4, <2>6, <3>1, <3>4 DEF Throws
  <2>7. CASE m # <<>>
    <3>1. Became(e, r, s)
      BY <2>1, <2>3, <2>4, <2>5, <2>7, ReleaseLive
    <3>2. /\ f \in Seq(Marks) /\ Len(f) <= k - 1 /\ NamesMatch(f, k - 1)
          /\ KeptGrows(f, Own(d).work)
      BY <2>1, <2>5, <2>7, FewerMarks
    <3> HIDE DEF f
    <3>3. /\ s.begun = Own(d).begun /\ s.alive = Own(d).alive /\ s.work = Own(d).work
          /\ s.marks = f
      BY <1>1, <3>2, FieldTypes, SessionMarks
    <3> HIDE DEF s, r
    <3>4. /\ r.ok = TRUE /\ r.d \in Storages /\ r.d.dbh = "own" /\ r.d.gen = d.gen
          /\ r.d.depth = d.depth /\ r.d.savepoints = p /\ r.d.table = d.table /\ Own(r.d) = s
      BY <2>3, <3>1 DEF Became, Like
    <3>5. Live(r.d)
      BY <3>3, <3>4 DEF Live
    <3>6. Own(d).begun
      BY <1>1 DEF InTxn
    <3>7. InTxn(r.d)
      BY <1>1, <2>1, <3>2, <3>3, <3>4, <3>6 DEF InTxn
    <3>8. Goes(d, r, d.depth)
      BY <1>1, <2>1, <3>4, <3>5, <3>7 DEF Goes, SameHandle, Sane
    <3> QED  BY <2>2, <2>7, <3>3, <3>4, <3>8 DEF f
  <2> QED  BY <2>6, <2>7
<1> QED  BY <1>3, <1>4

\* svp_rollback takes the work back to what the last mark keeps; without one it fails.
LEMMA SvpRollbackLive ==
  ASSUME NEW d, Sane(d), Live(d), d.depth > 0
  PROVE  LET r == svp_rollback(d)
         IN  /\ Own(d).marks # <<>> => /\ Goes(d, r, d.depth) /\ Own(r.d).marks = Own(d).marks
                                       /\ Own(r.d).work = Last(Own(d).marks).kept
             /\ Own(d).marks = <<>> => r = Throws(d)
<1> DEFINE k == Len(d.savepoints)
           m == Own(d).marks
           n == Len(m)
           w == m[n].kept
           s == [Own(d) EXCEPT !.work = Last(m).kept]
           r == ROLLBACK_TO(d, k - 1)
<1>1. /\ d \in Storages /\ InTxn(d) /\ Numbered(d.savepoints) /\ d.dbh = "own"
  BY SaneLive DEF Live
<1>2. svp_rollback(d) = IF d.savepoints = <<>> THEN Throws(d)
                        ELSE ROLLBACK_TO(d, Last(d.savepoints))
  BY <1>1, Verified DEF svp_rollback, Usable
<1>3. CASE d.savepoints = <<>>
  BY <1>2, <1>3, MarksLive
<1>4. CASE d.savepoints # <<>>
  <2>1. /\ k \in Nat \ {0} /\ Last(d.savepoints) = k - 1
    BY <1>1, <1>4, MarksLive, LastNumber
  <2>2. svp_rollback(d) = r
    BY <1>2, <1>4, <2>1
  <2>3. /\ m \in Seq(Marks) /\ Len(m) <= k /\ NamesMatch(m, k) /\ KeptGrows(m, Own(d).work)
    BY MarksLive
  <2>4. CASE m = <<>>
    BY <1>1, <2>1, <2>2, <2>3, <2>4, RollbackToLive
  <2>5. CASE m # <<>>
    <3>1. Became(d, r, s)
      BY <1>1, <2>1, <2>3, <2>5, RollbackToLive
    <3>2. n \in Nat \ {0} /\ Last(m) = m[n] /\ Last(m) \in Marks /\ DOMAIN m = 1 .. n
      BY <2>3, <2>5, FrontAt, LenProperties
    <3>3. w \in SUBSET Rows /\ w = Last(m).kept
      BY <3>2 DEF Marks
    <3> HIDE DEF m, n
    <3>4. /\ s.begun = Own(d).begun /\ s.alive = Own(d).alive /\ s.work = w /\ s.marks = m
      BY <1>1, <3>3, FieldTypes, SessionWork DEF m
    <3>5. KeptGrows(m, w)
      <4>1. \A i \in 1 .. n : \A j \in 1 .. i : m[j].kept \subseteq m[i].kept
        BY <2>3, <3>2 DEF KeptGrows
      <4>2. \A j \in 1 .. n : m[j].kept \subseteq w
        BY <3>2, <4>1
      <4> QED  BY <3>2, <4>1, <4>2 DEF KeptGrows
    <3> HIDE DEF s, r, w
    <3>6. /\ r.ok = TRUE /\ r.d \in Storages /\ r.d.dbh = "own" /\ r.d.gen = d.gen
          /\ r.d.depth = d.depth /\ r.d.savepoints = d.savepoints /\ r.d.table = d.table
          /\ Own(r.d) = s
      BY <1>1, <3>1 DEF Became, Like
    <3>7. Live(r.d)
      BY <3>4, <3>6 DEF Live
    <3>8. Own(d).begun
      BY <1>1 DEF InTxn
    <3>9. InTxn(r.d)
      BY <1>1, <2>3, <3>4, <3>5, <3>6, <3>8 DEF InTxn, k
    <3>10. Goes(d, r, d.depth)
      BY <1>1, <3>6, <3>7, <3>9 DEF Goes, SameHandle, Sane
    <3> QED  BY <2>2, <2>5, <3>3, <3>4, <3>6, <3>10 DEF m
  <2> QED  BY <2>4, <2>5
<1> QED  BY <1>3, <1>4

\* Without a live session a storage's own methods fail, and change no more than the stack.
LEMMA StackCut ==
  ASSUME NEW d, Sane(d), d.dbh = "own", ~Live(d), NEW p \in Seq(Nat), Numbered(p)
  PROVE  LET e == [d EXCEPT !.savepoints = p]
         IN  StaysCut(d, e) /\ e.depth = d.depth /\ ~Connected(e) /\ e \in Storages
<1> DEFINE e == [d EXCEPT !.savepoints = p]
<1>1. d \in Storages /\ Own(d) = Session(FALSE)
  BY DEF Sane
<1>2. /\ e \in Storages /\ e.dbh = d.dbh /\ e.gen = d.gen /\ e.depth = d.depth
      /\ e.savepoints = p /\ e.table = d.table /\ e.sessions = d.sessions
  BY <1>1, SetSavepoints
<1> HIDE DEF e
<1>3. Own(e) = Own(d) /\ ~Live(e)
  BY <1>2 DEF Own, Live
<1>4. Sane(e)
  BY <1>1, <1>2, <1>3 DEF Sane
<1>5. ~Connected(e)
  BY <1>2, <1>3, LiveIsConnected
<1> QED  BY <1>2, <1>3, <1>4, <1>5 DEF StaysCut, SameHandle, e

\* It is so of the storage itself.
LEMMA CutIsCut ==
  ASSUME NEW d, Sane(d), d.dbh = "own", ~Live(d)
  PROVE  StaysCut(d, d) /\ ~Connected(d) /\ d \in Storages /\ d.depth \in Nat
<1>1. d \in Storages
  BY DEF Sane
<1> QED  BY <1>1, LiveIsConnected, FieldTypes DEF StaysCut, SameHandle

\* svp_begin, svp_release and svp_rollback.
LEMMA SvpCut ==
  ASSUME NEW d, Sane(d), d.dbh = "own", ~Live(d), NEW r \in {svp_begin(d), svp_release(d), svp_rollback(d)}
  PROVE  r.ok = FALSE /\ StaysCut(d, r.d) /\ r.d.depth = d.depth
<1> DEFINE n == Len(d.savepoints)
           p == Append(d.savepoints, n)
           a == [d EXCEPT !.savepoints = p]
           f == Front(d.savepoints)
           b == [d EXCEPT !.savepoints = f]
<1>1. /\ d \in Storages /\ d.savepoints \in Seq(Nat) /\ n \in Nat /\ Numbered(d.savepoints)
  BY FieldTypes, LenProperties DEF Sane
<1>2. StaysCut(d, d) /\ ~Connected(d)
  BY CutIsCut
<1>3. r = Throws(d) \/ r = SAVEPOINT(a, n) \/ (d.savepoints # <<>> /\ r = RELEASE(b, Last(d.savepoints)))
      \/ r = ROLLBACK_TO(d, Last(d.savepoints))
  BY Verified DEF svp_begin, svp_release, svp_rollback, Usable
<1>4. CASE r = Throws(d)
  BY <1>2, <1>4 DEF Throws
<1>5. CASE r = ROLLBACK_TO(d, Last(d.savepoints))
  BY <1>1, <1>2, <1>5, StatementCut DEF ROLLBACK_TO, Throws
<1>6. CASE r = SAVEPOINT(a, n)
  <2>1. p \in Seq(Nat) /\ Numbered(p)
    <3>1. /\ p \in Seq(Nat) /\ Len(p) = n + 1 /\ p[n + 1] = n
          /\ \A i \in 1 .. n : p[i] = d.savepoints[i]
      BY <1>1, AppendAt
    <3>2. DOMAIN p = 1 .. n + 1 /\ DOMAIN d.savepoints = 1 .. n
      BY <1>1, <3>1, LenProperties
    <3> HIDE DEF n, p
    <3>3. \A i \in 1 .. n + 1 : i \in 1 .. n \/ i = n + 1
      BY <1>1
    <3> QED  BY <1>1, <3>1, <3>2, <3>3, SMTT(30) DEF Numbered
  <2> HIDE DEF p
  <2>2. StaysCut(d, a) /\ a.depth = d.depth /\ ~Connected(a) /\ a \in Storages
    BY <2>1, StackCut
  <2> HIDE DEF a
  <2>3. SAVEPOINT(a, n) = Throws(a)
    BY <2>2, StatementCut DEF SAVEPOINT
  <2> QED  BY <1>6, <2>2, <2>3 DEF Throws
<1>7. CASE d.savepoints # <<>> /\ r = RELEASE(b, Last(d.savepoints))
  <2>1. f \in Seq(Nat) /\ Numbered(f)
    BY <1>1, <1>7, LastNumber
  <2> HIDE DEF f
  <2>2. StaysCut(d, b) /\ b.depth = d.depth /\ ~Connected(b) /\ b \in Storages
    BY <2>1, StackCut
  <2> HIDE DEF b
  <2>3. RELEASE(b, Last(d.savepoints)) = Throws(b)
    BY <2>2, StatementCut DEF RELEASE
  <2> QED  BY <1>7, <2>2, <2>3 DEF Throws
<1> QED  BY <1>3, <1>4, <1>5, <1>6, <1>7

-----------------------------------------------------------------------------
(* Transactions, in a sane storage.                                        *)

\* COMMIT on a live session: its work is in the table, or lost, or both.
LEMMA CommitLive ==
  ASSUME NEW d \in Storages, Live(d), NEW answer, answer # "refused"
  PROVE  LET r == COMMIT(d, answer)
         IN  /\ Like(d, r.d) /\ r.ok = (answer = "ok") /\ Own(r.d) = Session(r.ok)
             /\ answer = "ok" => r.d.table = d.table \cup Own(d).work
             /\ r.d.table = d.table \/ r.d.table = d.table \cup Own(d).work
<1> DEFINE s == Session(answer = "ok")
           e == [d EXCEPT !.sessions["own"] = s]
           w == IF answer = "lost" THEN {} ELSE Own(d).work
           t == d.table \cup w
           over == [e EXCEPT !.table = t]
           r == COMMIT(d, answer)
<1>1. answer # "refused"
  OBVIOUS
<1>2. r = IF answer = "ok" THEN Returns(over) ELSE Throws(over)
  BY <1>1, LiveIsConnected DEF COMMIT, Live
<1>3. s \in SessionType
  BY SessionFields
<1> HIDE DEF s
<1>4. Like(d, e) /\ e.table = d.table /\ Own(e) = s
  BY <1>3, OwnSet
<1> HIDE DEF e
<1>5. t \in SUBSET Rows
  BY FieldTypes
<1> HIDE DEF t
<1>6. /\ over \in Storages /\ over.dbh = e.dbh /\ over.gen = e.gen /\ over.depth = e.depth
      /\ over.savepoints = e.savepoints /\ over.table = t /\ over.sessions = e.sessions
  BY <1>4, <1>5, SetTable DEF Like
<1> HIDE DEF over
<1>7. Like(d, over) /\ Own(over) = s
  BY <1>4, <1>6 DEF Like, Own
<1> HIDE DEF r
<1>8. r.d = over /\ r.ok = (answer = "ok")
  <2>1. /\ Returns(over).d = over /\ Returns(over).ok = TRUE
        /\ Throws(over).d = over /\ Throws(over).ok = FALSE
    BY DEF Returns, Throws
  <2>2. CASE answer = "ok"
    <3>1. r.d = over /\ r.ok = TRUE
      BY <1>2, <2>1, <2>2
    <3> QED  BY <2>2, <3>1, Zenon
  <2>3. CASE answer # "ok"
    <3>1. r.d = over /\ r.ok = FALSE
      BY <1>2, <2>1, <2>3
    <3> QED  BY <2>3, <3>1, Zenon
  <2> QED  BY <2>2, <2>3, Zenon
<1>9. answer = "ok" => t = d.table \cup Own(d).work
  BY DEF t
<1>10. t = d.table \/ t = d.table \cup Own(d).work
  BY DEF t
<1> QED  BY <1>6, <1>7, <1>8, <1>9, <1>10 DEF s, r

\* A sane storage at the end of its transaction.
LEMMA SaneOver ==
  ASSUME NEW d, Sane(d), Live(d), NEW e, Like(d, e), Own(e) = Session(TRUE)
  PROVE  LET f == Deeper(e, -1)
         IN  d.depth = 1 => /\ SameHandle(d, f) /\ Live(f) /\ f.depth = 0 /\ f.table = e.table
                            /\ Own(f).work = {} /\ Own(f).marks = <<>>
<1> SUFFICES ASSUME d.depth = 1
             PROVE  LET f == Deeper(e, -1)
                    IN  /\ SameHandle(d, f) /\ Live(f) /\ f.depth = 0 /\ f.table = e.table
                        /\ Own(f).work = {} /\ Own(f).marks = <<>>
  OBVIOUS
<1> DEFINE n == 0
           f == [e EXCEPT !.depth = n]
<1>1. e \in Storages /\ e.depth = 1 /\ e.dbh = d.dbh /\ e.gen = d.gen /\ e.savepoints = d.savepoints
  BY DEF Like
<1>2. Deeper(e, -1) = f
  BY <1>1 DEF Deeper
<1>3. n \in Nat /\ n = 0
  OBVIOUS
<1> HIDE DEF n
<1>4. /\ f \in Storages /\ f.dbh = d.dbh /\ f.gen = d.gen /\ f.depth = 0
      /\ f.savepoints = d.savepoints /\ f.table = e.table /\ f.sessions = e.sessions
  BY <1>1, <1>3, SetDepth
<1> HIDE DEF f
<1>5. /\ Own(f) = Session(TRUE) /\ Own(f).alive = TRUE /\ Own(f).begun = FALSE
      /\ Own(f).work = {} /\ Own(f).marks = <<>>
  <2>1. Session(TRUE).begun \in BOOLEAN
    BY SessionFields DEF SessionType
  <2> QED  BY <1>4, <2>1, SessionFields DEF Own
<1>6. Live(f)
  BY <1>4, <1>5 DEF Live
<1>7. Len(d.savepoints) \in Nat /\ Numbered(d.savepoints)
  BY SaneLive
<1>8. /\ NamesMatch(<<>>, Len(d.savepoints)) /\ KeptGrows(<<>>, {}) /\ Len(<<>>) <= Len(d.savepoints)
  BY <1>7 DEF NamesMatch, KeptGrows
<1>9. InTxn(f)
  <2>1. /\ Len(Own(f).marks) <= Len(f.savepoints)
        /\ NamesMatch(Own(f).marks, Len(f.savepoints)) /\ KeptGrows(Own(f).marks, Own(f).work)
    BY <1>4, <1>5, <1>8
  <2>2. (f.depth > 0) = FALSE
    BY <1>4
  <2> QED  BY <1>5, <2>1, <2>2 DEF InTxn
<1>10. Sane(f)
  BY <1>4, <1>6, <1>7, <1>9 DEF Sane
<1> QED  BY <1>2, <1>4, <1>5, <1>6, <1>10 DEF SameHandle

\* A transaction that ends well or with its session.
Ended(d, e) == /\ SameHandle(d, e) /\ Own(e).work = {} /\ Own(e).marks = <<>>
               /\ e.depth = IF Live(e) THEN 0 ELSE 1

\* txn_commit of the outermost level: an answer that is not "ok" means that the session
\* is gone.
LEMMA TxnCommitLast ==
  ASSUME NEW d, Sane(d), Live(d), d.depth = 1, NEW answer, answer # "refused"
  PROVE  LET r == txn_commit(d, answer)
         IN  /\ Ended(d, r.d) /\ r.ok = Live(r.d)
             /\ r.ok => r.d.table = d.table \cup Own(d).work
             /\ r.d.table = d.table \/ r.d.table = d.table \cup Own(d).work
<1> DEFINE c == COMMIT(d, answer)
           f == Deeper(c.d, -1)
           r == txn_commit(d, answer)
<1>1. d \in Storages /\ d.dbh = "own"
  BY SaneLive DEF Live
<1>2. r = Then(c, LAMBDA x : Returns(Deeper(x, -1)))
  BY <1>1, Verified DEF txn_commit, Usable
<1>3. /\ Like(d, c.d) /\ c.ok = (answer = "ok") /\ Own(c.d) = Session(c.ok)
      /\ answer = "ok" => c.d.table = d.table \cup Own(d).work
      /\ c.d.table = d.table \/ c.d.table = d.table \cup Own(d).work
  BY <1>1, CommitLive
<1> HIDE DEF c, r
<1>4. CASE answer = "ok"
  <2>1. c.ok = TRUE
    BY <1>3, <1>4
  <2>2. r = Returns(f)
    BY <1>2, <2>1 DEF Then
  <2>3. /\ SameHandle(d, f) /\ Live(f) /\ f.depth = 0 /\ f.table = c.d.table
        /\ Own(f).work = {} /\ Own(f).marks = <<>>
    <3>1. Like(d, c.d) /\ Own(c.d) = Session(TRUE)
      BY <1>3, <2>1, Zenon
    <3> HIDE DEF f
    <3> QED  BY <3>1, SaneOver DEF f
  <2> HIDE DEF f
  <2>4. r.ok = TRUE /\ r.d = f
    BY <2>2 DEF Returns
  <2>5. Live(f) = TRUE
    BY <2>3 DEF Live
  <2> QED  BY <1>3, <1>4, <2>3, <2>4, <2>5 DEF Ended, r
<1>5. CASE answer # "ok"
  <2>1. c.ok = FALSE /\ r = c
    BY <1>2, <1>3, <1>5 DEF Then
  <2>2. /\ Own(c.d) = Session(FALSE) /\ Own(c.d).alive = FALSE /\ Own(c.d).work = {}
        /\ Own(c.d).marks = <<>>
    BY <1>3, <2>1, SessionFields
  <2>3. Live(c.d) = FALSE
    BY <2>2 DEF Live
  <2>4. Sane(c.d)
    BY <1>3, <2>2, <2>3, SaneLive DEF Sane, Like
  <2>5. Ended(d, c.d)
    BY <1>3, <2>2, <2>3, <2>4 DEF Ended, Like, SameHandle
  <2> QED  BY <1>3, <2>1, <2>3, <2>5 DEF r
<1> QED  BY <1>4, <1>5

\* The next level out.
Outwards(d, e) == /\ SameHandle(d, e) /\ Live(e) /\ e.depth = d.depth - 1 /\ e.table = d.table

\* The storage one level up, before its savepoint is released or rolled back to.
LEMMA OneUp ==
  ASSUME NEW d, Sane(d), d.depth > 1
  PROVE  LET e == Deeper(d, -1)
         IN  /\ SameHandle(d, e) /\ e.depth = d.depth - 1 /\ e.depth > 0 /\ Live(e) = Live(d)
             /\ Own(e) = Own(d) /\ e.table = d.table /\ e.savepoints = d.savepoints
<1> DEFINE n == d.depth - 1
           e == [d EXCEPT !.depth = n]
<1>1. d \in Storages /\ d.depth \in Nat
  BY FieldTypes DEF Sane
<1>2. n \in Nat /\ n > 0 /\ d.depth + (-1) = n
  BY <1>1
<1>3. Deeper(d, -1) = e
  BY <1>2 DEF Deeper
<1>4. (d.depth > 0) = (n > 0)
  BY <1>1, <1>2
<1> HIDE DEF n
<1>5. /\ Sane(e) /\ e.dbh = d.dbh /\ e.gen = d.gen /\ e.depth = n /\ Live(e) = Live(d)
      /\ e.savepoints = d.savepoints /\ e.table = d.table /\ Own(e) = Own(d)
  BY <1>2, <1>4, SaneDepth
<1> HIDE DEF e
<1> QED  BY <1>2, <1>3, <1>5 DEF SameHandle, n

\* txn_commit of an inner level: with savepoints it releases the last mark, without them
\* it counts.
LEMMA TxnCommitLevel ==
  ASSUME NEW d, Sane(d), Live(d), d.depth > 1, NEW answer
  PROVE  LET r == txn_commit(d, answer)
         IN  /\ Outwards(d, r.d) /\ Own(r.d).work = Own(d).work
             /\ auto_savepoint /\ Own(d).marks # <<>> =>
                  r.ok = TRUE /\ Own(r.d).marks = Front(Own(d).marks)
             /\ ~auto_savepoint => r.ok = TRUE /\ Own(r.d).marks = Own(d).marks
<1> DEFINE e == Deeper(d, -1)
           r == txn_commit(d, answer)
<1>1. d \in Storages /\ d.dbh = "own" /\ d.depth \in Nat
  BY SaneLive DEF Live
<1>2. r = IF auto_savepoint THEN svp_release(e) ELSE Returns(e)
  BY <1>1, Verified DEF txn_commit, Usable
<1>3. /\ SameHandle(d, e) /\ e.depth = d.depth - 1 /\ e.depth > 0 /\ Live(e)
      /\ Own(e) = Own(d) /\ e.table = d.table
  BY <1>1, OneUp
<1> HIDE DEF e, r
<1>4. CASE ~auto_savepoint
  <2>1. r.ok = TRUE /\ r.d = e
    BY <1>2, <1>4 DEF Returns
  <2> QED  BY <1>3, <1>4, <2>1 DEF Outwards, r
<1>5. CASE auto_savepoint
  <2>1. /\ Own(e).marks # <<>> => Goes(e, r, e.depth) /\ Own(r.d).work = Own(e).work
                                  /\ Own(r.d).marks = Front(Own(e).marks)
        /\ Own(e).marks = <<>> => /\ r.ok = FALSE /\ SameHandle(e, r.d) /\ Own(r.d) = Own(e)
                                  /\ r.d.depth = e.depth /\ r.d.table = e.table
    BY <1>2, <1>3, <1>5, SvpReleaseLive DEF SameHandle
  <2>2. CASE Own(d).marks # <<>>
    BY <1>3, <1>5, <2>1, <2>2 DEF Goes, Outwards, SameHandle, r
  <2>3. CASE Own(d).marks = <<>>
    <3>1. Live(r.d)
      BY <1>1, <1>3, <2>1, <2>3 DEF Live, SameHandle
    <3> QED  BY <1>3, <1>5, <2>1, <2>3, <3>1 DEF Outwards, SameHandle, r
  <2> QED  BY <2>2, <2>3
<1> QED  BY <1>4, <1>5

\* txn_rollback of the outermost level.
LEMMA TxnRollbackLast ==
  ASSUME NEW d, Sane(d), Live(d), d.depth = 1
  PROVE  LET r == txn_rollback(d)
         IN  r.ok = TRUE /\ Ended(d, r.d) /\ Live(r.d) /\ r.d.table = d.table
<1> DEFINE c == ROLLBACK(d)
           f == Deeper(c.d, -1)
           r == txn_rollback(d)
<1>1. d \in Storages /\ d.dbh = "own"
  BY SaneLive DEF Live
<1>2. r = Then(c, LAMBDA x : Returns(Deeper(x, -1)))
  BY <1>1, Verified DEF txn_rollback, Usable
<1>3. c.ok = TRUE /\ Like(d, c.d) /\ c.d.table = d.table /\ Own(c.d) = Session(TRUE)
  BY <1>1, RollbackLive DEF Became
<1> HIDE DEF c, r
<1>4. r = Returns(f)
  BY <1>2, <1>3 DEF Then
<1> HIDE DEF f
<1>5. /\ SameHandle(d, f) /\ Live(f) /\ f.depth = 0 /\ f.table = c.d.table
      /\ Own(f).work = {} /\ Own(f).marks = <<>>
  BY <1>3, SaneOver DEF f
<1>6. r.ok = TRUE /\ r.d = f
  BY <1>4 DEF Returns
<1> QED  BY <1>3, <1>5, <1>6 DEF Ended, r

\* txn_rollback of an inner level: with savepoints it goes back to the last mark and
\* releases it, without them it throws, and has counted.
LEMMA TxnRollbackLevel ==
  ASSUME NEW d, Sane(d), Live(d), d.depth > 1
  PROVE  LET r == txn_rollback(d)
         IN  /\ Outwards(d, r.d) /\ Own(r.d).work \subseteq Own(d).work
             /\ auto_savepoint /\ Own(d).marks # <<>> =>
                  /\ Own(r.d).marks = Front(Own(d).marks)
                  /\ Own(r.d).work = Last(Own(d).marks).kept
             /\ ~auto_savepoint => Own(r.d) = Own(d)
<1> DEFINE e == Deeper(d, -1)
           b == svp_rollback(e)
           r == txn_rollback(d)
<1>1. d \in Storages /\ d.dbh = "own" /\ d.depth \in Nat
  BY SaneLive DEF Live
<1>2. r = IF auto_savepoint THEN Then(b, svp_release) ELSE Throws(e)
  BY <1>1, Verified DEF txn_rollback, Usable
<1>3. /\ SameHandle(d, e) /\ e.depth = d.depth - 1 /\ e.depth > 0 /\ Live(e)
      /\ Own(e) = Own(d) /\ e.table = d.table
  BY <1>1, OneUp
<1>4. /\ Own(e).marks # <<>> => /\ Goes(e, b, e.depth) /\ Own(b.d).marks = Own(e).marks
                                /\ Own(b.d).work = Last(Own(e).marks).kept
      /\ Own(e).marks = <<>> => b = Throws(e)
  BY <1>3, SvpRollbackLive DEF SameHandle
<1> HIDE DEF e, r, b
<1>5. CASE ~auto_savepoint
  <2>1. r.d = e
    BY <1>2, <1>5 DEF Throws
  <2> QED  BY <1>3, <1>5, <2>1 DEF Outwards, r
<1>6. CASE auto_savepoint /\ Own(d).marks = <<>>
  <2>1. b.ok = FALSE /\ b.d = e
    BY <1>3, <1>4, <1>6 DEF Throws
  <2>2. r.d = e
    BY <1>2, <1>6, <2>1 DEF Then
  <2> QED  BY <1>3, <1>6, <2>2 DEF Outwards, r
<1>7. CASE auto_savepoint /\ Own(d).marks # <<>>
  <2>1. Goes(e, b, e.depth) /\ Own(b.d).marks = Own(d).marks /\ Own(b.d).work = Last(Own(d).marks).kept
    BY <1>3, <1>4, <1>7
  <2>2. r = svp_release(b.d)
    BY <1>2, <1>7, <2>1 DEF Then, Goes
  <2>3. /\ Goes(b.d, r, b.d.depth) /\ Own(r.d).work = Own(b.d).work
        /\ Own(r.d).marks = Front(Own(b.d).marks)
    <3>1. Sane(b.d) /\ Live(b.d) /\ b.d.depth > 0 /\ Own(b.d).marks # <<>>
      BY <1>3, <1>7, <2>1 DEF Goes, SameHandle
    <3> QED  BY <2>2, <3>1, SvpReleaseLive
  <2>4. Outwards(d, r.d)
    BY <1>3, <2>1, <2>3 DEF Goes, SameHandle, Outwards
  <2>5. Last(Own(d).marks).kept \subseteq Own(d).work
    <3> DEFINE m == Own(d).marks
    <3>1. m \in Seq(Marks) /\ KeptGrows(m, Own(d).work)
      BY MarksLive
    <3>2. Last(m) = m[Len(m)] /\ Len(m) \in Nat \ {0} /\ DOMAIN m = 1 .. Len(m)
      BY <1>7, <3>1, FrontAt, LenProperties
    <3> HIDE DEF m
    <3> QED  BY <3>1, <3>2 DEF KeptGrows, m
  <2> QED  BY <1>7, <2>1, <2>3, <2>4, <2>5 DEF r
<1> QED  BY <1>5, <1>6, <1>7

\* What txn_commit and txn_rollback make of a storage in whatever state: a live session is
\* at its end or one level up, and a lost one stays lost.
Lowered(d, e) ==
  /\ Sane(e) /\ Settles(d, e)
  /\ Live(e) => \/ e.depth = 0
                \/ Live(d) /\ e.gen = d.gen /\ e.depth = d.depth - 1
  /\ d.dbh = "own" /\ ~Live(d) => StaysCut(d, e)

\* Lost is lost.
LEMMA CutOn ==
  ASSUME NEW d, NEW e, NEW f, StaysCut(d, e), StaysCut(e, f)
  PROVE  StaysCut(d, f)
BY DEF StaysCut, SameHandle

\* Without the session nothing but the table is left of the work.
LEMMA CutSettles ==
  ASSUME NEW d, Sane(d), NEW e, Sane(e), ~Live(e), d.table \subseteq e.table,
         e.table \subseteq d.table \cup Own(d).work
  PROVE  Settles(d, e)
<1>1. Own(e).work = {}
  BY SessionFields DEF Sane
<1> QED  BY <1>1 DEF Settles

\* A storage without a handle fails.
LEMMA UnusableLowers ==
  ASSUME NEW d, Sane(d), d.dbh # "own"
  PROVE  Lowered(d, verify_pid(d)) /\ verify_pid(d).dbh = "none"
<1> DEFINE v == verify_pid(d)
<1>1. Sane(v) /\ v.dbh = "none" /\ v.table = d.table /\ ~Live(v)
  BY Verified
<1> HIDE DEF v
<1>2. Settles(d, v)
  BY <1>1, CutSettles
<1> QED  BY <1>1, <1>2 DEF Lowered, v

\* One whose session is lost fails too, or counts.
LEMMA CutLowers ==
  ASSUME NEW d, Sane(d), d.dbh = "own", ~Live(d), NEW e, StaysCut(d, e)
  PROVE  Lowered(d, e)
<1>1. Sane(e) /\ ~Live(e) /\ e.table = d.table
  BY DEF StaysCut, SameHandle
<1>2. Settles(d, e)
  BY <1>1, CutSettles
<1> QED  BY <1>1, <1>2 DEF Lowered

\* What txn_commit and txn_rollback do without a session.
LEMMA EndsCut ==
  ASSUME NEW d, Sane(d), d.dbh = "own", ~Live(d), NEW answer
  PROVE  StaysCut(d, txn_commit(d, answer).d) /\ StaysCut(d, txn_rollback(d).d)
<1> DEFINE e == Deeper(d, -1)
           c == txn_commit(d, answer)
           r == txn_rollback(d)
<1>1. StaysCut(d, d) /\ ~Connected(d) /\ d \in Storages /\ d.depth \in Nat
  BY CutIsCut
<1>2. Throws(d).d = d /\ Throws(d).ok = FALSE
  BY DEF Throws
<1>3. verify_pid(d) = d
  BY Verified
<1>4. CASE d.depth = 0
  <2>1. c = Throws(d) /\ r = Throws(d)
    BY <1>3, <1>4 DEF txn_commit, txn_rollback, Usable
  <2> QED  BY <1>1, <1>2, <2>1
<1>5. CASE d.depth = 1
  <2>1. COMMIT(d, answer) = Throws(d) /\ ROLLBACK(d) = Throws(d)
    BY <1>1, StatementCut DEF COMMIT, ROLLBACK
  <2>2. c = Throws(d) /\ r = Throws(d)
    BY <1>2, <1>3, <1>5, <2>1 DEF txn_commit, txn_rollback, Usable, Then
  <2> QED  BY <1>1, <1>2, <2>2
<1>6. CASE d.depth > 1
  <2>1. /\ SameHandle(d, e) /\ e.depth > 0 /\ Live(e) = Live(d) /\ e.table = d.table
    BY <1>6, OneUp
  <2>2. c = (IF auto_savepoint THEN svp_release(e) ELSE Returns(e))
        /\ r = (IF auto_savepoint THEN Then(svp_rollback(e), svp_release) ELSE Throws(e))
    <3>1. d.depth # 1 /\ d.dbh # "none"
      BY <1>6
    <3>2. c = IF auto_savepoint THEN svp_release(e) ELSE Returns(e)
      BY <1>3, <1>6, <3>1 DEF txn_commit, Usable
    <3>3. r = IF auto_savepoint THEN Then(svp_rollback(e), svp_release) ELSE Throws(e)
      BY <1>3, <1>6, <3>1 DEF txn_rollback, Usable
    <3> QED  BY <3>2, <3>3
  <2> HIDE DEF e, c, r
  <2>3. StaysCut(d, e) /\ Sane(e) /\ e.dbh = "own" /\ ~Live(e)
    BY <2>1 DEF StaysCut, SameHandle
  <2>4. Returns(e).d = e /\ Throws(e).d = e
    BY DEF Returns, Throws
  <2>5. /\ StaysCut(e, svp_release(e).d)
        /\ svp_rollback(e).ok = FALSE /\ StaysCut(e, svp_rollback(e).d)
    BY <2>3, SvpCut
  <2>6. c.d = svp_release(e).d \/ c.d = e
    BY <2>2, <2>4
  <2>7. r.d = svp_rollback(e).d \/ r.d = e
    BY <2>2, <2>4, <2>5 DEF Then
  <2> QED  BY <2>3, <2>5, <2>6, <2>7, CutOn DEF c, r
<1> QED  BY <1>1, <1>4, <1>5, <1>6

\* One level less settles nothing but what a rollback takes out of the work.
LEMMA OutwardsLowers ==
  ASSUME NEW d, Sane(d), Live(d), NEW e, Outwards(d, e), Own(e).work \subseteq Own(d).work
  PROVE  Lowered(d, e)
BY DEF Outwards, SameHandle, Settles, Lowered

\* So does an end.
LEMMA EndedLowers ==
  ASSUME NEW d, Sane(d), Live(d), NEW e, Ended(d, e),
         e.table = d.table \/ e.table = d.table \cup Own(d).work
  PROVE  Lowered(d, e)
BY DEF Ended, SameHandle, Settles, Lowered

\* txn_commit, from whatever state.
LEMMA TxnCommitLowers ==
  ASSUME NEW d, Sane(d), NEW answer, answer # "refused"
  PROVE  Lowered(d, txn_commit(d, answer).d)
<1>1. CASE d.dbh # "own"
  <2>1. txn_commit(d, answer).d = verify_pid(d)
    BY <1>1, UnusableLowers DEF txn_commit, Usable, Throws
  <2> QED  BY <1>1, <2>1, UnusableLowers
<1>2. CASE d.dbh = "own" /\ ~Live(d)
  BY <1>2, EndsCut, CutLowers
<1>3. CASE Live(d)
  <2>1. d \in Storages /\ d.depth \in Nat /\ d.dbh = "own"
    BY <1>3, SaneLive DEF Live
  <2>2. CASE d.depth = 0
    <3>1. txn_commit(d, answer).d = d
      BY <2>1, <2>2, Verified DEF txn_commit, Usable, Throws
    <3> QED  BY <1>3, <2>2, <3>1 DEF Lowered, Settles
  <2>3. CASE d.depth = 1
    BY <1>3, <2>3, TxnCommitLast, EndedLowers
  <2>4. CASE d.depth > 1
    BY <1>3, <2>4, TxnCommitLevel, OutwardsLowers
  <2> QED  BY <2>1, <2>2, <2>3, <2>4
<1> QED  BY <1>1, <1>2, <1>3 DEF Live

\* txn_rollback, from whatever state.
LEMMA TxnRollbackLowers ==
  ASSUME NEW d, Sane(d)
  PROVE  Lowered(d, txn_rollback(d).d)
<1>1. CASE d.dbh # "own"
  <2>1. txn_rollback(d).d = verify_pid(d)
    BY <1>1, UnusableLowers DEF txn_rollback, Usable, Throws
  <2> QED  BY <1>1, <2>1, UnusableLowers
<1>2. CASE d.dbh = "own" /\ ~Live(d)
  BY <1>2, EndsCut, CutLowers
<1>3. CASE Live(d)
  <2>1. d \in Storages /\ d.depth \in Nat /\ d.dbh = "own"
    BY <1>3, SaneLive DEF Live
  <2>2. CASE d.depth = 0
    <3>1. txn_rollback(d).d = d
      BY <2>1, <2>2, Verified DEF txn_rollback, Usable, Throws
    <3> QED  BY <1>3, <2>2, <3>1 DEF Lowered, Settles
  <2>3. CASE d.depth = 1
    BY <1>3, <2>3, TxnRollbackLast, EndedLowers
  <2>4. CASE d.depth > 1
    BY <1>3, <2>4, TxnRollbackLevel, OutwardsLowers
  <2> QED  BY <2>1, <2>2, <2>3, <2>4
<1> QED  BY <1>1, <1>2, <1>3 DEF Live

-----------------------------------------------------------------------------
(* A new handle, and a new transaction.                                    *)

\* A handle on which nothing has been done.
Fresh(d, e) == /\ Sane(e) /\ Live(e) /\ e.depth = 0 /\ e.table = d.table
               /\ Own(e).work = {} /\ Own(e).marks = <<>>

\* Marks and work of a session that has none.
LEMMA NoMarks ==
  ASSUME NEW k \in Nat
  PROVE  NamesMatch(<<>>, k) /\ KeptGrows(<<>>, {}) /\ Len(<<>>) <= k
BY DEF NamesMatch, KeptGrows

\* populate_dbh.
LEMMA PopulateFresh ==
  ASSUME NEW d \in Storages, Numbered(d.savepoints)
  PROVE  Fresh(d, populate_dbh(d))
<1> DEFINE a == Dropped(d)
           b == [a EXCEPT !.dbh = "own"]
           s == Session(TRUE)
           c == [b EXCEPT !.sessions["own"] = s]
           n == 0
           e == [c EXCEPT !.depth = n]
<1>1. populate_dbh(d) = e
  BY DEF populate_dbh
<1>2. a \in Storages /\ a.savepoints = d.savepoints /\ a.table = d.table
  BY DroppedType
<1> HIDE DEF a
<1>3. b \in Storages /\ b.dbh = "own" /\ b.savepoints = d.savepoints /\ b.table = d.table
  BY <1>2, SetHandle DEF Handles
<1> HIDE DEF b
<1>4. s \in SessionType /\ s.alive = TRUE /\ s.begun = FALSE /\ s.work = {} /\ s.marks = <<>>
  BY SessionFields DEF SessionType
<1> HIDE DEF s
<1>5. Like(b, c) /\ c.table = b.table /\ Own(c) = s
  BY <1>3, <1>4, OwnSet
<1> HIDE DEF c
<1>6. n \in Nat /\ (n > 0) = FALSE
  OBVIOUS
<1> HIDE DEF n
<1>7. /\ e \in Storages /\ e.dbh = "own" /\ e.depth = n /\ e.savepoints = d.savepoints
      /\ e.table = d.table /\ e.sessions = c.sessions
  BY <1>3, <1>5, <1>6, SetDepth DEF Like
<1> HIDE DEF e
<1>8. Own(e) = s
  BY <1>5, <1>7 DEF Own
<1>9. Live(e)
  BY <1>4, <1>7, <1>8 DEF Live
<1>10. Len(d.savepoints) \in Nat
  BY FieldTypes, LenProperties
<1>11. InTxn(e)
  BY <1>4, <1>6, <1>7, <1>8, <1>10, NoMarks DEF InTxn
<1>12. Sane(e)
  BY <1>7, <1>9, <1>11 DEF Sane
<1> QED  BY <1>1, <1>4, <1>7, <1>8, <1>9, <1>12 DEF Fresh, n

\* _get_dbh: a storage that has its own handle keeps it.
LEMMA GetDbhFresh ==
  ASSUME NEW d, Sane(d)
  PROVE  /\ d.dbh = "own" => get_dbh(d) = d
         /\ d.dbh # "own" => Fresh(d, get_dbh(d))
<1>1. CASE d.dbh = "own"
  BY <1>1, Verified DEF get_dbh
<1>2. CASE d.dbh # "own"
  <2> DEFINE v == verify_pid(d)
  <2>1. Sane(v) /\ v.dbh = "none" /\ v.table = d.table
    BY <1>2, Verified
  <2>2. get_dbh(d) = populate_dbh(v)
    BY <2>1 DEF get_dbh
  <2> HIDE DEF v
  <2>3. Fresh(v, populate_dbh(v))
    BY <2>1, PopulateFresh DEF Sane
  <2> QED  BY <1>2, <2>1, <2>2, <2>3 DEF Fresh
<1> QED  BY <1>1, <1>2

\* dbh: so does one whose handle works.
LEMMA DbhFresh ==
  ASSUME NEW d, Sane(d)
  PROVE  /\ Live(d) => dbh(d) = d
         /\ ~Live(d) => Fresh(d, dbh(d))
<1> DEFINE v == verify_pid(d)
<1>1. CASE Live(d)
  BY <1>1, Verified, LiveIsConnected DEF dbh, Sane, Live
<1>2. CASE ~Live(d)
  <2>1. Sane(v) /\ v.table = d.table /\ ~Live(v) /\ v.dbh # "inherited"
    <3>1. CASE d.dbh = "own"
      BY <1>2, <3>1, Verified
    <3>2. CASE d.dbh # "own"
      BY <3>2, Verified
    <3> QED  BY <3>1, <3>2
  <2> HIDE DEF v
  <2>2. ~Connected(v)
    BY <2>1, LiveIsConnected DEF Sane
  <2>3. dbh(d) = populate_dbh(v)
    BY <2>2 DEF dbh, v
  <2>4. Fresh(v, populate_dbh(v))
    BY <2>1, PopulateFresh DEF Sane
  <2> QED  BY <1>2, <2>1, <2>3, <2>4 DEF Fresh
<1> QED  BY <1>1, <1>2

\* A transaction in which nothing has been done.
Begins(d, e) == /\ Sane(e) /\ Live(e) /\ e.depth = 1 /\ e.table = d.table
                /\ Own(e).work = {} /\ Own(e).marks = <<>>
Begun(d, r)  == r.ok = TRUE /\ Begins(d, r.d)

\* What txn_begin does with the storage that BEGIN or SAVEPOINT has left.
Counted(b) == Then(b, LAMBDA c : Returns(Deeper(c, 1)))

\* BEGIN, on a session without a transaction.
LEMMA BeginCounted ==
  ASSUME NEW d, Sane(d), Live(d), d.depth = 0
  PROVE  LET r == Counted(BEGIN(d))
         IN  Begun(d, r) /\ r.d.dbh = d.dbh /\ r.d.gen = d.gen /\ BEGIN(d).ok = TRUE
<1> DEFINE b == BEGIN(d)
           s == [Own(d) EXCEPT !.begun = TRUE]
           n == 1
           f == [b.d EXCEPT !.depth = n]
           r == Counted(b)
<1>1. /\ d \in Storages /\ InTxn(d) /\ Numbered(d.savepoints) /\ Own(d).alive = TRUE
      /\ Len(d.savepoints) \in Nat
  BY SaneLive
<1>2. ~Own(d).begun /\ Own(d).work = {} /\ Own(d).marks = <<>>
  <2>1. (d.depth > 0) = FALSE
    OBVIOUS
  <2>2. Own(d).begun = FALSE
    BY <1>1, <2>1, Zenon DEF InTxn
  <2> QED  BY <1>1, <2>2, Zenon DEF InTxn
<1>3. Became(d, b, s)
  BY <1>1, <1>2, BeginLive
<1>4. s.begun = TRUE /\ s.alive = TRUE /\ s.work = {} /\ s.marks = <<>>
  BY <1>1, <1>2, FieldTypes, SessionBegun
<1> HIDE DEF b, s
<1>5. /\ b.ok = TRUE /\ b.d \in Storages /\ b.d.dbh = d.dbh /\ b.d.gen = d.gen /\ b.d.depth = 0
      /\ b.d.savepoints = d.savepoints /\ b.d.table = d.table /\ Own(b.d) = s
  BY <1>3 DEF Became, Like
<1>6. r = Returns(f)
  BY <1>5 DEF Counted, Then, Deeper
<1>7. n \in Nat /\ (n > 0) = TRUE
  OBVIOUS
<1> HIDE DEF n
<1>8. /\ f \in Storages /\ f.dbh = d.dbh /\ f.gen = d.gen /\ f.depth = n
      /\ f.savepoints = d.savepoints /\ f.table = d.table /\ f.sessions = b.d.sessions
  BY <1>5, <1>7, SetDepth
<1> HIDE DEF f, r
<1>9. Own(f) = s
  BY <1>5, <1>8 DEF Own
<1>10. Live(f)
  BY <1>4, <1>8, <1>9 DEF Live
<1>11. InTxn(f)
  BY <1>1, <1>4, <1>7, <1>8, <1>9, NoMarks DEF InTxn
<1>12. Sane(f)
  BY <1>1, <1>8, <1>10, <1>11 DEF Sane
<1>13. r.ok = TRUE /\ r.d = f
  BY <1>6 DEF Returns
<1> QED  BY <1>4, <1>5, <1>8, <1>9, <1>10, <1>12, <1>13 DEF Begun, Begins, n, r, b

\* The storage one level down, after SAVEPOINT.
LEMMA OneDown ==
  ASSUME NEW d, Sane(d), d.depth > 0
  PROVE  LET e == Deeper(d, 1)
         IN  /\ SameHandle(d, e) /\ e.depth = d.depth + 1 /\ e.depth > 0 /\ Live(e) = Live(d)
             /\ Own(e) = Own(d) /\ e.table = d.table
<1> DEFINE n == d.depth + 1
           e == [d EXCEPT !.depth = n]
<1>1. d \in Storages /\ d.depth \in Nat
  BY FieldTypes DEF Sane
<1>2. n \in Nat /\ n > 0 /\ (d.depth > 0) = (n > 0)
  BY <1>1
<1>3. Deeper(d, 1) = e
  BY DEF Deeper
<1> HIDE DEF n
<1>4. /\ Sane(e) /\ e.dbh = d.dbh /\ e.gen = d.gen /\ e.depth = n /\ Live(e) = Live(d)
      /\ e.table = d.table /\ Own(e) = Own(d)
  BY <1>2, SaneDepth
<1> HIDE DEF e
<1> QED  BY <1>2, <1>3, <1>4 DEF SameHandle, n

\* txn_begin, after it has looked for the handle.
LEMMA TxnBeginIs ==
  ASSUME NEW d, Sane(d), NEW inBlock
  PROVE  LET h == get_dbh(d)
         IN  /\ h.dbh = "own" /\ get_dbh(h) = h
             /\ txn_begin(d, inBlock) = txn_begin(h, inBlock)
             /\ h.depth = 0 => txn_begin(h, inBlock) = Counted(dbh_do(h, inBlock, BEGIN))
             /\ h.depth # 0 /\ auto_savepoint => txn_begin(h, inBlock) = Counted(svp_begin(h))
             /\ h.depth # 0 /\ ~auto_savepoint => txn_begin(h, inBlock) = Returns(Deeper(h, 1))
<1> DEFINE h == get_dbh(d)
<1>1. h.dbh = "own" /\ Sane(h)
  BY GetDbhFresh DEF Fresh, Live
<1> HIDE DEF h
<1>2. get_dbh(h) = h
  BY <1>1, GetDbhFresh
<1>3. txn_begin(d, inBlock) = txn_begin(h, inBlock)
  BY <1>2 DEF txn_begin, h
<1>4. h.depth = 0 => txn_begin(h, inBlock) = Counted(dbh_do(h, inBlock, BEGIN))
  BY <1>2 DEF txn_begin, Counted
<1>5. h.depth # 0 /\ auto_savepoint => txn_begin(h, inBlock) = Counted(svp_begin(h))
  BY <1>2 DEF txn_begin, Counted
<1>6. Then(Returns(h), LAMBDA c : Returns(Deeper(c, 1))) = Returns(Deeper(h, 1))
  BY DEF Then, Returns
<1>7. h.depth # 0 /\ ~auto_savepoint => txn_begin(h, inBlock) = Returns(Deeper(h, 1))
  BY <1>2, <1>6 DEF txn_begin
<1> QED  BY <1>1, <1>2, <1>3, <1>4, <1>5, <1>7 DEF h

\* dbh_do with BEGIN, on a handle that is there.
LEMMA DoBeginIs ==
  ASSUME NEW d, Sane(d), d.dbh = "own", NEW inBlock
  PROVE  dbh_do(d, inBlock, BEGIN) = IF SentAgain(d, BEGIN(d), inBlock)
                                     THEN BEGIN(populate_dbh(BEGIN(d).d)) ELSE BEGIN(d)
BY GetDbhFresh DEF dbh_do

\* txn_begin on a live session: a level more, and a mark where there was a level and
\* savepoints are used.
LEMMA TxnBeginLive ==
  ASSUME NEW d, Sane(d), Live(d), NEW inBlock
  PROVE  LET r == txn_begin(d, inBlock)
         IN  /\ Goes(d, r, d.depth + 1) /\ Own(r.d).work = Own(d).work
             /\ ~auto_savepoint \/ d.depth = 0 => Own(r.d).marks = Own(d).marks
             /\ auto_savepoint /\ d.depth > 0 =>
                  /\ Len(Own(r.d).marks) = Len(Own(d).marks) + 1
                  /\ \A i \in 1 .. Len(Own(d).marks) : Own(r.d).marks[i] = Own(d).marks[i]
                  /\ Own(r.d).marks[Len(Own(d).marks) + 1].kept = Own(d).work
<1> DEFINE r == txn_begin(d, inBlock)
<1>1. /\ d \in Storages /\ InTxn(d) /\ d.depth \in Nat /\ d.dbh = "own" /\ get_dbh(d) = d
  BY SaneLive, GetDbhFresh DEF Live
<1>2. /\ d.depth = 0 => r = Counted(dbh_do(d, inBlock, BEGIN))
      /\ d.depth # 0 /\ auto_savepoint => r = Counted(svp_begin(d))
      /\ d.depth # 0 /\ ~auto_savepoint => r = Returns(Deeper(d, 1))
  BY <1>1, TxnBeginIs
<1> HIDE DEF r
<1>3. CASE d.depth = 0
  <2>1. /\ Begun(d, Counted(BEGIN(d))) /\ Counted(BEGIN(d)).d.dbh = d.dbh
        /\ Counted(BEGIN(d)).d.gen = d.gen /\ BEGIN(d).ok = TRUE
    BY <1>3, BeginCounted
  <2>2. ~SentAgain(d, BEGIN(d), inBlock)
    BY <2>1 DEF SentAgain
  <2>3. dbh_do(d, inBlock, BEGIN) = BEGIN(d)
    BY <1>1, <2>2, DoBeginIs
  <2>4. r = Counted(BEGIN(d))
    BY <1>2, <1>3, <2>3
  <2>5. Own(d).work = {} /\ Own(d).marks = <<>>
    <3>1. (d.depth > 0) = FALSE
      BY <1>3
    <3>2. Own(d).begun = FALSE
      BY <1>1, <3>1, Zenon DEF InTxn
    <3> QED  BY <1>1, <3>2, Zenon DEF InTxn
  <2> QED  BY <1>3, <2>1, <2>4, <2>5 DEF Begun, Begins, Goes, SameHandle, r
<1>4. CASE d.depth # 0 /\ ~auto_savepoint
  <2> DEFINE e == Deeper(d, 1)
  <2>1. /\ SameHandle(d, e) /\ e.depth = d.depth + 1 /\ Live(e) /\ Own(e) = Own(d)
        /\ e.table = d.table
    BY <1>1, <1>4, OneDown
  <2> HIDE DEF e
  <2>2. r.ok = TRUE /\ r.d = e
    BY <1>2, <1>4 DEF Returns, e
  <2> QED  BY <1>4, <2>1, <2>2 DEF Goes, r
<1>5. CASE d.depth # 0 /\ auto_savepoint
  <2> DEFINE b == svp_begin(d)
             e == Deeper(b.d, 1)
  <2>1. /\ Goes(d, b, d.depth) /\ Own(b.d).work = Own(d).work
        /\ Len(Own(b.d).marks) = Len(Own(d).marks) + 1
        /\ \A i \in 1 .. Len(Own(d).marks) : Own(b.d).marks[i] = Own(d).marks[i]
        /\ Own(b.d).marks[Len(Own(d).marks) + 1].kept = Own(d).work
    BY <1>1, <1>5, SvpBeginLive
  <2> HIDE DEF b
  <2>2. /\ SameHandle(b.d, e) /\ e.depth = b.d.depth + 1 /\ Live(e) /\ Own(e) = Own(b.d)
        /\ e.table = b.d.table
    BY <1>1, <1>5, <2>1, OneDown DEF Goes, SameHandle
  <2>3. r = Returns(e)
    BY <1>2, <1>5, <2>1 DEF Counted, Then, Goes, b
  <2> HIDE DEF e
  <2>4. r.ok = TRUE /\ r.d = e
    BY <2>3 DEF Returns
  <2>5. Goes(d, r, d.depth + 1)
    BY <2>1, <2>2, <2>4 DEF Goes, SameHandle
  <2> QED  BY <1>5, <2>1, <2>2, <2>4, <2>5 DEF r
<1> QED  BY <1>3, <1>4, <1>5

\* txn_begin on a new handle.
LEMMA TxnBeginFresh ==
  ASSUME NEW d, NEW e, Fresh(d, e), NEW inBlock
  PROVE  Begun(d, txn_begin(e, inBlock)) /\ txn_begin(e, inBlock).d.dbh = "own"
<1>1. Sane(e) /\ Live(e) /\ e.depth = 0 /\ e.table = d.table /\ Own(e).work = {} /\ Own(e).marks = <<>>
  BY DEF Fresh
<1> DEFINE r == txn_begin(e, inBlock)
<1>2. Goes(e, r, e.depth + 1) /\ Own(r.d).work = Own(e).work /\ Own(r.d).marks = Own(e).marks
  BY <1>1, TxnBeginLive
<1> HIDE DEF r
<1>3. r.d.depth = 1
  BY <1>1, <1>2 DEF Goes
<1> QED  BY <1>1, <1>2, <1>3 DEF Goes, SameHandle, Begun, Begins, Live, r

\* txn_begin where there is no handle.
LEMMA TxnBeginGone ==
  ASSUME NEW d, Sane(d), d.dbh # "own", NEW inBlock
  PROVE  Begun(d, txn_begin(d, inBlock)) /\ txn_begin(d, inBlock).d.dbh = "own"
<1>1. Fresh(d, get_dbh(d))
  BY GetDbhFresh
<1>2. txn_begin(d, inBlock) = txn_begin(get_dbh(d), inBlock)
  BY TxnBeginIs
<1>3. Begun(d, txn_begin(get_dbh(d), inBlock)) /\ txn_begin(get_dbh(d), inBlock).d.dbh = "own"
  BY <1>1, TxnBeginFresh
<1> QED  BY <1>2, <1>3, Zenon

\* txn_begin where the session is lost: a new one is opened for an outermost guard; within
\* levels it fails if it needs a statement.
LEMMA TxnBeginCut ==
  ASSUME NEW d, Sane(d), d.dbh = "own", ~Live(d), NEW inBlock
  PROVE  LET r == txn_begin(d, inBlock)
         IN  \/ Begun(d, r) /\ r.d.dbh = "own" /\ d.depth = 0 /\ ~inBlock
             \/ r.ok = TRUE /\ StaysCut(d, r.d) /\ d.depth > 0
             \/ /\ r.ok = FALSE /\ StaysCut(d, r.d) /\ r.d.depth = d.depth
                /\ d.depth = 0 => inBlock
<1> DEFINE r == txn_begin(d, inBlock)
<1>1. StaysCut(d, d) /\ ~Connected(d) /\ d \in Storages /\ d.depth \in Nat /\ get_dbh(d) = d
  BY CutIsCut, GetDbhFresh
<1>2. /\ d.depth = 0 => r = Counted(dbh_do(d, inBlock, BEGIN))
      /\ d.depth # 0 /\ auto_savepoint => r = Counted(svp_begin(d))
      /\ d.depth # 0 /\ ~auto_savepoint => r = Returns(Deeper(d, 1))
  BY <1>1, TxnBeginIs
<1> HIDE DEF r
<1>3. Throws(d).d = d /\ Throws(d).ok = FALSE
  BY DEF Throws
<1>4. CASE d.depth = 0
  <2> DEFINE p == populate_dbh(d)
  <2>1. BEGIN(d) = Throws(d)
    BY <1>1, StatementCut DEF BEGIN
  <2>2. SentAgain(d, Throws(d), inBlock) <=> ~inBlock
    BY <1>1, <1>3, <1>4 DEF SentAgain
  <2>3. dbh_do(d, inBlock, BEGIN) = IF ~inBlock THEN BEGIN(p) ELSE Throws(d)
    BY <1>3, <2>1, <2>2, DoBeginIs
  <2>4. CASE inBlock
    <3>1. r = Throws(d)
      BY <1>2, <1>3, <1>4, <2>3, <2>4 DEF Counted, Then
    <3> QED  BY <1>1, <1>3, <2>4, <3>1 DEF r
  <2>5. CASE ~inBlock
    <3>1. Fresh(d, p)
      BY <1>1, PopulateFresh DEF Sane
    <3> HIDE DEF p
    <3>2. r = Counted(BEGIN(p))
      BY <1>2, <1>4, <2>3, <2>5
    <3>3. Begun(p, r) /\ r.d.dbh = p.dbh
      BY <3>1, <3>2, BeginCounted DEF Fresh
    <3>4. p.table = d.table /\ p.dbh = "own"
      BY <3>1 DEF Fresh, Live
    <3> QED  BY <1>4, <2>5, <3>3, <3>4 DEF Begun, Begins, r
  <2> QED  BY <2>4, <2>5
<1>5. CASE d.depth # 0 /\ ~auto_savepoint
  <2> DEFINE e == Deeper(d, 1)
  <2>1. /\ SameHandle(d, e) /\ e.depth > 0 /\ Live(e) = Live(d) /\ e.table = d.table
    BY <1>1, <1>5, OneDown
  <2> HIDE DEF e
  <2>2. r.ok = TRUE /\ r.d = e
    BY <1>2, <1>5 DEF Returns, e
  <2> QED  BY <1>1, <1>5, <2>1, <2>2 DEF StaysCut, r
<1>6. CASE d.depth # 0 /\ auto_savepoint
  <2> DEFINE b == svp_begin(d)
  <2>1. b.ok = FALSE /\ StaysCut(d, b.d) /\ b.d.depth = d.depth
    BY SvpCut
  <2>2. r = b
    BY <1>2, <1>6, <2>1 DEF Counted, Then
  <2> QED  BY <1>6, <2>1, <2>2 DEF r
<1> QED  BY <1>4, <1>5, <1>6

\* The catch block of txn_do: where it reconnects the session was lost, and where it does
\* not it rolls back.
LEMMA CaughtIs ==
  ASSUME NEW d, Sane(d), NEW f, f.init \in Nat
  PROVE  LET c == Caught(d, f)
         IN  /\ c.again => ~f.retried /\ f.init = 0 /\ ~Live(d) /\ Begins(d, c.d)
             /\ ~c.again => c.d = txn_rollback(d).d
             /\ d.dbh = "own" /\ ~Live(d) /\ ~f.retried /\ f.init = 0 => c.again
<1> DEFINE v == verify_pid(d)
           p == populate_dbh(v)
           again == ~(f.retried \/ f.init > 0 \/ Connected(v))
           c == Caught(d, f)
<1>1. Connected(v) <=> Live(d)
  <2>1. CASE d.dbh = "own"
    BY <2>1, Verified, LiveIsConnected DEF Sane
  <2>2. CASE d.dbh # "own"
    BY <2>2, Verified DEF Live, Connected
  <2> QED  BY <2>1, <2>2
<1>2. /\ again => c = [d |-> txn_begin(p, TRUE).d, again |-> TRUE]
      /\ ~again => c = [d |-> txn_rollback(d).d, again |-> FALSE]
  BY DEF Caught
<1>3. Sane(v) /\ v.table = d.table
  <2>1. CASE d.dbh = "inherited"
    BY <2>1, Verified
  <2>2. CASE d.dbh # "inherited"
    BY <2>2, Verified
  <2> QED  BY <2>1, <2>2
<1>4. Fresh(v, p)
  BY <1>3, PopulateFresh DEF Sane
<1> HIDE DEF p, v, c
<1>5. Begins(v, txn_begin(p, TRUE).d)
  BY <1>4, TxnBeginFresh DEF Begun
<1>6. Begins(d, txn_begin(p, TRUE).d)
  BY <1>3, <1>5 DEF Begins
<1>7. again => ~f.retried /\ f.init = 0 /\ ~Live(d) /\ c.d = txn_begin(p, TRUE).d /\ c.again = TRUE
  <2>1. again => ~f.retried /\ f.init = 0 /\ ~Live(d)
    BY <1>1
  <2> HIDE DEF again
  <2>2. ASSUME again
        PROVE  c.d = txn_begin(p, TRUE).d /\ c.again = TRUE
    <3>1. c = [d |-> txn_begin(p, TRUE).d, again |-> TRUE]
      BY <1>2, <2>2
    <3>2. c.again = TRUE
      BY <3>1
    <3>3. c.d = txn_begin(p, TRUE).d
      BY <3>1
    <3> QED  BY <3>2, <3>3
  <2> QED  BY <2>1, <2>2
<1>8. ~again => c.d = txn_rollback(d).d /\ c.again = FALSE
  BY <1>2
<1>9. ~Live(d) /\ ~f.retried /\ f.init = 0 => again
  BY <1>1
<1> HIDE DEF again
<1> QED  BY <1>6, <1>7, <1>8, <1>9 DEF c

-----------------------------------------------------------------------------
(* INSERT, and the explicit calls.                                         *)

\* INSERT on a live session.
LEMMA InsertLive ==
  ASSUME NEW d, Sane(d), Live(d), NEW row \in Rows
  PROVE  LET r == INSERT(d, row)
         IN  /\ r.ok = TRUE /\ SameHandle(d, r.d) /\ Live(r.d) /\ r.d.depth = d.depth
             /\ Own(r.d).marks = Own(d).marks
             /\ d.depth > 0 => r.d.table = d.table /\ Own(r.d).work = Own(d).work \cup {row}
             /\ d.depth = 0 => r.d.table = d.table \cup {row} /\ Own(r.d).work = Own(d).work
<1> DEFINE r == INSERT(d, row)
           w == Own(d).work \cup {row}
           t == d.table \cup {row}
           s == [Own(d) EXCEPT !.work = w]
           a == [d EXCEPT !.sessions["own"] = s]
           b == [d EXCEPT !.table = t]
<1>1. /\ d \in Storages /\ InTxn(d) /\ Numbered(d.savepoints) /\ d.dbh = "own" /\ d.depth \in Nat
      /\ Own(d).alive = TRUE
  BY SaneLive DEF Live
<1>2. r = IF Own(d).begun THEN Returns(a) ELSE Returns(b)
  BY <1>1, LiveIsConnected DEF INSERT, Here, Own
<1>3. w \in SUBSET Rows /\ t \in SUBSET Rows /\ Own(d) \in SessionType /\ Own(d).begun \in BOOLEAN
  BY <1>1, FieldTypes
<1>4. Own(d).begun = (d.depth > 0)
  BY <1>1 DEF InTxn
<1> HIDE DEF r
<1>5. CASE Own(d).begun
  <2> HIDE DEF w
  <2>1. /\ s \in SessionType /\ s.begun = Own(d).begun /\ s.alive = Own(d).alive /\ s.work = w
        /\ s.marks = Own(d).marks
    BY <1>3, SessionWork
  <2> HIDE DEF s
  <2>2. Like(d, a) /\ a.table = d.table /\ Own(a) = s
    BY <1>1, <2>1, OwnSet
  <2> HIDE DEF a
  <2>3. Live(a)
    BY <1>1, <2>1, <2>2 DEF Live, Like
  <2>4. KeptGrows(Own(d).marks, w)
    BY <1>1 DEF InTxn, KeptGrows, w
  <2>5. InTxn(a)
    BY <1>1, <1>5, <2>1, <2>2, <2>4 DEF InTxn, Like
  <2>6. SameHandle(d, a)
    BY <1>1, <2>2, <2>3, <2>5 DEF SameHandle, Sane, Like
  <2>7. r.ok = TRUE /\ r.d = a
    BY <1>2, <1>5 DEF Returns
  <2>8. d.depth # 0
    <3>1. (d.depth > 0) = TRUE
      BY <1>3, <1>4, <1>5, Zenon
    <3> QED  BY <3>1
  <2> QED  BY <2>1, <2>2, <2>3, <2>6, <2>7, <2>8 DEF Like, r, w
<1>6. CASE ~Own(d).begun
  <2> HIDE DEF t
  <2>1. /\ b \in Storages /\ b.dbh = d.dbh /\ b.gen = d.gen /\ b.depth = d.depth
        /\ b.savepoints = d.savepoints /\ b.table = t /\ b.sessions = d.sessions
    BY <1>1, <1>3, SetTable
  <2> HIDE DEF b
  <2>2. Own(b) = Own(d)
    BY <2>1 DEF Own
  <2>3. Live(b)
    BY <1>1, <2>1, <2>2 DEF Live
  <2>4. InTxn(b)
    BY <1>1, <2>1, <2>2 DEF InTxn
  <2>5. SameHandle(d, b)
    BY <1>1, <2>1, <2>3, <2>4 DEF SameHandle, Sane
  <2>6. r.ok = TRUE /\ r.d = b
    BY <1>2, <1>6 DEF Returns
  <2>7. ~(d.depth > 0)
    BY <1>4, <1>6
  <2> QED  BY <2>1, <2>2, <2>3, <2>5, <2>6, <2>7 DEF r, t
<1> QED  BY <1>5, <1>6

\* Outside of a transaction the row is in the table, within one in the work.
Inserted(d, e, row) ==
  /\ Sane(e) /\ Live(e)
  /\ \/ /\ e.depth = 0 /\ e.table = d.table \cup {row} /\ Own(e).work = {}
        /\ d.dbh = "own" => d.depth = 0
     \/ /\ Live(d) /\ d.depth > 0 /\ e.dbh = d.dbh /\ e.gen = d.gen /\ e.depth = d.depth
        /\ e.table = d.table /\ Own(e).work = Own(d).work \cup {row} /\ Own(e).marks = Own(d).marks

\* INSERT through dbh_do.
LEMMA DoInsert ==
  ASSUME NEW d, Sane(d), NEW inBlock, NEW row \in Rows
  PROVE  LET r == dbh_do(d, inBlock, LAMBDA h : INSERT(h, row))
         IN  \/ r.ok = TRUE /\ Inserted(d, r.d, row)
             \/ r.ok = FALSE /\ r.d = d
<1> DEFINE h == get_dbh(d)
           i == INSERT(h, row)
           p == populate_dbh(i.d)
           r == dbh_do(d, inBlock, LAMBDA x : INSERT(x, row))
<1>1. r = IF SentAgain(h, i, inBlock) THEN INSERT(p, row) ELSE i
  BY DEF dbh_do
<1>2. ASSUME NEW e, Sane(e), Live(e), e.table = d.table, d.dbh = "own" => d.depth = 0,
             e.depth = 0, Own(e).work = {}
      PROVE  INSERT(e, row).ok = TRUE /\ Inserted(d, INSERT(e, row).d, row)
  <2> DEFINE x == INSERT(e, row)
  <2>1. /\ x.ok = TRUE /\ SameHandle(e, x.d) /\ Live(x.d) /\ x.d.depth = e.depth
        /\ x.d.table = e.table \cup {row} /\ Own(x.d).work = Own(e).work
    BY <1>2, InsertLive
  <2> HIDE DEF x
  <2> QED  BY <1>2, <2>1 DEF Inserted, SameHandle, x
<1> HIDE DEF r
<1>3. CASE d.dbh # "own"
  <2>1. Fresh(d, h)
    BY <1>3, GetDbhFresh
  <2> HIDE DEF h
  <2>2. i.ok = TRUE /\ Inserted(d, i.d, row)
    BY <1>2, <1>3, <2>1 DEF Fresh
  <2>3. r = i
    BY <1>1, <2>2 DEF SentAgain
  <2> QED  BY <2>2, <2>3 DEF r
<1>4. CASE Live(d)
  <2>1. h = d /\ InTxn(d) /\ d.depth \in Nat
    BY <1>4, GetDbhFresh, SaneLive DEF Live
  <2> HIDE DEF h
  <2>2. /\ i.ok = TRUE /\ SameHandle(d, i.d) /\ Live(i.d) /\ i.d.depth = d.depth
        /\ Own(i.d).marks = Own(d).marks
        /\ d.depth > 0 => i.d.table = d.table /\ Own(i.d).work = Own(d).work \cup {row}
        /\ d.depth = 0 => i.d.table = d.table \cup {row} /\ Own(i.d).work = Own(d).work
    BY <1>4, <2>1, InsertLive
  <2>3. r = i
    BY <1>1, <2>2 DEF SentAgain
  <2>4. d.depth = 0 => Own(d).work = {}
    <3>1. d.depth = 0 => (d.depth > 0) = FALSE
      OBVIOUS
    <3>2. d.depth = 0 => Own(d).begun = FALSE
      BY <2>1, <3>1, Zenon DEF InTxn
    <3> QED  BY <2>1, <3>2, Zenon DEF InTxn
  <2> HIDE DEF i
  <2>5. Inserted(d, i.d, row)
    BY <1>4, <2>1, <2>2, <2>4 DEF Inserted, SameHandle
  <2> QED  BY <2>2, <2>3, <2>5 DEF r
<1>5. CASE d.dbh = "own" /\ ~Live(d)
  <2>1. h = d /\ ~Connected(d) /\ d \in Storages
    BY <1>5, GetDbhFresh, CutIsCut
  <2>2. i = Throws(d)
    BY <2>1 DEF INSERT
  <2>3. i.ok = FALSE /\ i.d = d
    BY <2>2 DEF Throws
  <2> HIDE DEF h, i
  <2>4. CASE ~SentAgain(h, i, inBlock)
    BY <1>1, <2>3, <2>4 DEF r
  <2>5. CASE SentAgain(h, i, inBlock)
    <3>1. d.depth = 0
      BY <2>1, <2>5 DEF SentAgain
    <3>2. Fresh(d, p)
      BY <2>1, <2>3, PopulateFresh DEF Sane
    <3> HIDE DEF p
    <3>3. INSERT(p, row).ok = TRUE /\ Inserted(d, INSERT(p, row).d, row)
      BY <1>2, <3>1, <3>2 DEF Fresh
    <3> QED  BY <1>1, <2>5, <3>3 DEF r
  <2> QED  BY <2>4, <2>5
<1> QED  BY <1>3, <1>4, <1>5 DEF Live

\* What a method or a fault may do to a storage in the midst of blocks and guards.
Calmed(d, e) ==
  /\ Sane(e) /\ Settles(d, e)
  /\ Live(e) => \/ e.depth = 0
                \/ Live(d) /\ e.gen = d.gen /\ e.depth <= d.depth

\* A storage whose session is lost, or that has a new one.
LEMMA CutOrFreshCalms ==
  ASSUME NEW d, Sane(d), NEW e, Fresh(d, e) \/ (Sane(e) /\ ~Live(e) /\ e.table = d.table)
  PROVE  Calmed(d, e)
<1>1. CASE Fresh(d, e)
  BY <1>1 DEF Fresh, Calmed, Settles
<1>2. CASE Sane(e) /\ ~Live(e) /\ e.table = d.table
  BY <1>2, CutSettles DEF Calmed
<1> QED  BY <1>1, <1>2

\* A commit or a rollback.
LEMMA LoweredCalms ==
  ASSUME NEW d, Sane(d), NEW e, Lowered(d, e)
  PROVE  Calmed(d, e)
<1>1. d.depth \in Nat
  BY FieldTypes DEF Sane
<1> QED  BY <1>1 DEF Lowered, Calmed

\* The savepoint methods, on a live session.
LEMMA SvpLiveCalms ==
  ASSUME NEW d, Sane(d), Live(d), d.depth > 0,
         NEW r \in {svp_begin(d), svp_release(d), svp_rollback(d)}
  PROVE  Calmed(d, r.d)
<1>1. d.depth \in Nat /\ Own(d).marks \in Seq(Marks)
  BY SaneLive, FieldTypes
<1>2. SameHandle(d, r.d) /\ Live(r.d) /\ r.d.depth = d.depth /\ r.d.table = d.table
      /\ Own(r.d).work \subseteq Own(d).work
  <2>1. CASE r = svp_begin(d)
    BY <2>1, SvpBeginLive DEF Goes
  <2>2. CASE r = svp_release(d)
    <3>1. Live(r.d)
      BY <2>2, SvpReleaseLive DEF Goes, SameHandle, Live
    <3> QED  BY <2>2, <3>1, SvpReleaseLive DEF Goes
  <2>3. CASE r = svp_rollback(d)
    <3>1. CASE Own(d).marks = <<>>
      BY <2>3, <3>1, SvpRollbackLive DEF Throws, SameHandle
    <3>2. CASE Own(d).marks # <<>>
      <4> DEFINE m == Own(d).marks
      <4>1. Goes(d, r, d.depth) /\ Own(r.d).work = Last(m).kept
        BY <2>3, <3>2, SvpRollbackLive
      <4>2. KeptGrows(m, Own(d).work)
        BY MarksLive
      <4>3. Last(m) = m[Len(m)] /\ Len(m) \in Nat \ {0} /\ DOMAIN m = 1 .. Len(m)
        BY <1>1, <3>2, FrontAt, LenProperties
      <4> HIDE DEF m
      <4>4. Last(m).kept \subseteq Own(d).work
        BY <4>2, <4>3 DEF KeptGrows
      <4> QED  BY <4>1, <4>4 DEF Goes
    <3> QED  BY <3>1, <3>2
  <2> QED  BY <2>1, <2>2, <2>3
<1> QED  BY <1>1, <1>2 DEF Calmed, Settles, SameHandle

\* The explicit calls.
LEMMA CallsCalm ==
  ASSUME NEW d, Sane(d),
         NEW e \in {dbh(d), txn_rollback(d).d, svp_begin(d).d, svp_release(d).d, svp_rollback(d).d}
  PROVE  Calmed(d, e)
<1>1. CASE e = dbh(d)
  <2>1. CASE Live(d)
    <3>1. d.depth \in Nat
      BY <2>1, SaneLive
    <3> QED  BY <1>1, <2>1, <3>1, DbhFresh DEF Calmed, Settles
  <2>2. CASE ~Live(d)
    <3>1. Fresh(d, e)
      BY <1>1, <2>2, DbhFresh
    <3> QED  BY <3>1, CutOrFreshCalms
  <2> QED  BY <2>1, <2>2
<1>2. CASE e = txn_rollback(d).d
  BY <1>2, TxnRollbackLowers, LoweredCalms
<1>3. CASE e \in {svp_begin(d).d, svp_release(d).d, svp_rollback(d).d}
  <2>1. PICK r \in {svp_begin(d), svp_release(d), svp_rollback(d)} : e = r.d
    BY <1>3
  <2>2. CASE d.dbh # "own"
    <3>1. r = Throws(verify_pid(d))
      BY <2>2, Verified DEF svp_begin, svp_release, svp_rollback, Usable
    <3>2. e = verify_pid(d)
      BY <2>1, <3>1 DEF Throws
    <3> QED  BY <2>2, <3>2, Verified, CutOrFreshCalms
  <2>3. CASE d.dbh = "own" /\ ~Live(d)
    <3>1. StaysCut(d, e)
      BY <2>1, <2>3, SvpCut
    <3> QED  BY <3>1, CutOrFreshCalms DEF StaysCut, SameHandle
  <2>4. CASE Live(d) /\ d.depth > 0
    BY <2>1, <2>4, SvpLiveCalms
  <2>5. CASE Live(d) /\ ~(d.depth > 0)
    <3>1. d.depth = 0 /\ verify_pid(d) = d /\ d.dbh = "own"
      <4>1. d.depth \in Nat /\ d.dbh = "own"
        BY <2>5, SaneLive DEF Live
      <4>2. d.depth = 0
        BY <2>5, <4>1
      <4> QED  BY <4>1, <4>2, Verified
    <3>2. r = Throws(d)
      BY <3>1 DEF svp_begin, svp_release, svp_rollback, Usable
    <3>3. e = d
      BY <2>1, <3>2 DEF Throws
    <3> QED  BY <2>5, <3>1, <3>3 DEF Calmed, Settles
  <2> QED  BY <2>2, <2>3, <2>4, <2>5 DEF Live
<1> QED  BY <1>1, <1>2, <1>3

\* disconnect.
LEMMA DisconnectCalms ==
  ASSUME NEW d, Sane(d), d.dbh # "none"
  PROVE  Calmed(d, [Dropped(d) EXCEPT !.sessions[d.dbh] = Session(FALSE)])
<1> DEFINE a == Dropped(d)
           s == Session(FALSE)
           e == [a EXCEPT !.sessions[d.dbh] = s]
<1>1. d \in Storages /\ s \in SessionType
  BY SessionFields DEF Sane
<1>2. /\ a \in Storages /\ a.dbh = "none" /\ a.savepoints = d.savepoints /\ a.table = d.table
      /\ a.sessions = d.sessions
  BY <1>1, DroppedType
<1>3. /\ d.dbh \in {"own", "inherited"}
      /\ d.dbh = "inherited" => Own(d) = s
  BY <1>1 DEF Sane, Live, Storages, Handles
<1> HIDE DEF a, s
<1>4. /\ e \in Storages /\ e.dbh = "none" /\ e.savepoints = d.savepoints /\ e.table = d.table
  BY <1>1, <1>2, <1>3, SetSession
<1>5. Own(e) = s
  BY <1>2, <1>3 DEF Own, Storages
<1> HIDE DEF e
<1>6. Sane(e) /\ ~Live(e)
  BY <1>4, <1>5 DEF Sane, Live, s
<1>7. Calmed(d, e)
  BY <1>4, <1>6, CutOrFreshCalms
<1> QED  BY <1>7 DEF e, a, s

\* The loss of the connection.
LEMMA LossCalms ==
  ASSUME NEW d, Sane(d)
  PROVE  LET e == [d EXCEPT !.sessions["own"] = Session(FALSE)]
         IN  /\ Calmed(d, e) /\ ~Live(e) /\ e.dbh = d.dbh /\ e.gen = d.gen /\ e.depth = d.depth
             /\ e.table = d.table
<1> DEFINE s == Session(FALSE)
           e == [d EXCEPT !.sessions["own"] = s]
<1>1. d \in Storages /\ s \in SessionType /\ s.alive = FALSE
  BY SessionFields DEF Sane
<1> HIDE DEF s
<1>2. Like(d, e) /\ e.table = d.table /\ Own(e) = s
  BY <1>1, OwnSet
<1> HIDE DEF e
<1>3. Sane(e) /\ ~Live(e)
  BY <1>1, <1>2 DEF Sane, Live, Like, s
<1>4. Calmed(d, e)
  BY <1>2, <1>3, CutOrFreshCalms
<1> QED  BY <1>2, <1>3, <1>4 DEF Like, e, s

\* A fork: the child has no session of its own.
LEMMA ForkCalms ==
  ASSUME NEW d, Sane(d)
  PROVE  Calmed(d, [d EXCEPT !.dbh = "inherited",
                      !.sessions = [own |-> Session(FALSE), inherited |-> d.sessions["own"]]])
<1> DEFINE s == Session(FALSE)
           q == [own |-> s, inherited |-> d.sessions["own"]]
           e == [d EXCEPT !.dbh = "inherited", !.sessions = q]
<1>1. d \in Storages /\ s \in SessionType
  BY SessionFields DEF Sane
<1> HIDE DEF s
<1>2. q["own"] = s /\ q \in [{"own", "inherited"} -> SessionType]
  BY <1>1 DEF Storages
<1> HIDE DEF q
<1>3. /\ e \in Storages /\ e.dbh = "inherited" /\ e.savepoints = d.savepoints /\ e.table = d.table
      /\ Own(e) = s
  BY <1>1, <1>2 DEF Storages, Handles, Own
<1> HIDE DEF e
<1>4. Sane(e) /\ ~Live(e)
  BY <1>3 DEF Sane, Live, s
<1>5. Calmed(d, e)
  BY <1>3, <1>4, CutOrFreshCalms
<1> QED  BY <1>5 DEF e, q, s

-----------------------------------------------------------------------------
(* The frames and the depth.                                               *)

\* Two frames that were opened alike.
Same(f, g) == g.kind = f.kind /\ g.init = f.init /\ g.gen = f.gen /\ g.plain = f.plain

\* The frames without the innermost, whose rows are the next one's where it undoes nothing.
Closed(fs, gs, undoes) ==
  /\ gs \in Seq(Frames) /\ Len(gs) = Len(fs) - 1
  /\ \A i \in 1 .. Len(fs) - 1 :
       /\ Same(fs[i], gs[i]) /\ gs[i].asked = fs[i].asked
       /\ gs[i].rows = IF undoes \/ i < Len(fs) - 1 THEN fs[i].rows
                       ELSE fs[i].rows \cup fs[Len(fs)].rows

\* The frames with one more.
Extended(fs, gs, g) ==
  /\ gs \in Seq(Frames) /\ Len(gs) = Len(fs) + 1 /\ gs[Len(fs) + 1] = g
  /\ \A i \in 1 .. Len(fs) : gs[i] = fs[i]

\* As many frames, that were opened alike.
Kindred(fs, gs) ==
  gs \in Seq(Frames) /\ Len(gs) = Len(fs) /\ \A i \in 1 .. Len(fs) : Same(fs[i], gs[i])

\* What does not take the depth up keeps the balance.
LEMMA BalancedStays ==
  ASSUME NEW d, Sane(d), NEW fs \in Seq(Frames), Balanced(d, fs), NEW e, Sane(e),
         Live(e) => e.depth = 0 \/ (Live(d) /\ e.gen = d.gen /\ e.depth <= d.depth),
         NEW gs, Len(gs) = Len(fs),
         \A i \in 1 .. Len(fs) : gs[i].kind = fs[i].kind /\ gs[i].init = fs[i].init /\ gs[i].gen = fs[i].gen
  PROVE  Balanced(e, gs)
<1> SUFFICES ASSUME Live(e)
             PROVE  \E L \in [0 .. Len(gs) -> Nat] : Levels(L, e, gs)
  BY DEF Balanced
<1> DEFINE n == Len(fs)
<1>1. n \in Nat /\ d.depth \in Nat /\ e.depth \in Nat
  BY LenProperties, FieldTypes DEF Sane
<1>2. CASE e.depth = 0
  <2> DEFINE L == [i \in 0 .. n |-> 0]
  <2>1. Levels(L, e, gs)
    BY <1>1, <1>2 DEF Levels
  <2>2. L \in [0 .. n -> Nat]
    OBVIOUS
  <2> QED  BY <2>1, <2>2
<1>3. CASE e.depth # 0
  <2>1. Live(d) /\ e.gen = d.gen /\ e.depth <= d.depth
    BY <1>3
  <2>2. PICK L \in [0 .. n -> Nat] : Levels(L, d, fs)
    BY <2>1 DEF Balanced
  <2>3. /\ L[0] = 0 /\ d.depth <= L[n]
        /\ \A i \in 1 .. n : /\ L[i] <= L[i - 1] + 1
                             /\ \/ L[i] <= L[i - 1]
                                \/ IF fs[i].kind = "txn_do" THEN L[i] = fs[i].init + 1 ELSE fs[i].gen = d.gen
    BY <2>2 DEF Levels
  <2>4. L[n] \in Nat
    BY <1>1, <2>2
  <2> HIDE DEF n
  <2>5. e.depth <= L[n]
    BY <1>1, <2>1, <2>3, <2>4
  <2>6. \A i \in 1 .. n : /\ L[i] <= L[i - 1] + 1
                          /\ \/ L[i] <= L[i - 1]
                             \/ IF gs[i].kind = "txn_do" THEN L[i] = gs[i].init + 1 ELSE gs[i].gen = e.gen
    BY <2>1, <2>3 DEF n
  <2>7. Len(gs) = n
    BY DEF n
  <2>8. Levels(L, e, gs)
    BY <2>3, <2>5, <2>6, <2>7 DEF Levels
  <2> QED  BY <2>2, <2>7, <2>8
<1> QED  BY <1>2, <1>3

\* So does the end of a frame, if it counts or had no level.
LEMMA BalancedCloses ==
  ASSUME NEW d, Sane(d), NEW fs \in Seq(Frames), fs # <<>>, Balanced(d, fs), NEW e, Sane(e),
         Live(e) => \/ e.depth = 0
                    \/ /\ Live(d) /\ e.gen = d.gen
                       /\ \/ e.depth = d.depth - 1
                          \/ /\ e.depth = d.depth
                             /\ IF fs[Len(fs)].kind = "txn_do" THEN d.depth # fs[Len(fs)].init + 1
                                ELSE fs[Len(fs)].gen # d.gen,
         NEW gs, NEW undoes, Closed(fs, gs, undoes)
  PROVE  Balanced(e, gs)
<1> SUFFICES ASSUME Live(e)
             PROVE  \E L \in [0 .. Len(gs) -> Nat] : Levels(L, e, gs)
  BY DEF Balanced
<1> DEFINE n == Len(fs)
           f == fs[n]
<1>1. n \in Nat \ {0} /\ d.depth \in Nat /\ e.depth \in Nat /\ Len(gs) = n - 1 /\ f \in Frames
  BY FrontAt, FieldTypes DEF Sane, Closed
<1>2. \A i \in 1 .. n - 1 : gs[i].kind = fs[i].kind /\ gs[i].init = fs[i].init /\ gs[i].gen = fs[i].gen
  BY DEF Closed, Same
<1>3. f.init \in Nat
  BY <1>1 DEF Frames
<1> HIDE DEF n, f
<1>4. CASE e.depth = 0
  <2> DEFINE L == [i \in 0 .. n - 1 |-> 0]
  <2>1. Levels(L, e, gs)
    BY <1>1, <1>4 DEF Levels
  <2>2. L \in [0 .. Len(gs) -> Nat]
    BY <1>1
  <2> QED  BY <2>1, <2>2
<1>5. CASE e.depth # 0
  <2>1. /\ Live(d) /\ e.gen = d.gen
        /\ \/ e.depth = d.depth - 1
           \/ /\ e.depth = d.depth
              /\ IF f.kind = "txn_do" THEN d.depth # f.init + 1 ELSE f.gen # d.gen
    BY <1>5 DEF n, f
  <2>2. PICK L \in [0 .. n -> Nat] : Levels(L, d, fs)
    BY <2>1 DEF Balanced, n
  <2> DEFINE K == [i \in 0 .. n - 1 |-> L[i]]
  <2>3. L[n] \in Nat /\ L[n - 1] \in Nat /\ n \in 1 .. n
    BY <1>1, <2>2
  <2>4. /\ L[0] = 0 /\ d.depth <= L[n] /\ L[n] <= L[n - 1] + 1
        /\ \/ L[n] <= L[n - 1]
           \/ IF f.kind = "txn_do" THEN L[n] = f.init + 1 ELSE f.gen = d.gen
    BY <2>2, <2>3 DEF Levels, n, f
  <2>5. e.depth <= L[n - 1]
    <3>1. CASE e.depth = d.depth - 1
      BY <1>1, <2>3, <2>4, <3>1
    <3>2. CASE e.depth = d.depth /\ L[n] <= L[n - 1]
      BY <1>1, <2>3, <2>4, <3>2
    <3>3. CASE e.depth = d.depth /\ f.kind = "txn_do" /\ L[n] = f.init + 1
      <4>1. d.depth # f.init + 1
        BY <1>1, <2>1, <3>3
      <4> QED  BY <1>1, <1>3, <2>3, <2>4, <3>3, <4>1
    <3> QED  BY <1>1, <2>1, <2>4, <3>1, <3>2, <3>3
  <2>6. \A i \in 1 .. n - 1 :
          /\ L[i] <= L[i - 1] + 1
          /\ \/ L[i] <= L[i - 1]
             \/ IF gs[i].kind = "txn_do" THEN L[i] = gs[i].init + 1 ELSE gs[i].gen = e.gen
    <3>1. \A i \in 1 .. n :
            /\ L[i] <= L[i - 1] + 1
            /\ \/ L[i] <= L[i - 1]
               \/ IF fs[i].kind = "txn_do" THEN L[i] = fs[i].init + 1 ELSE fs[i].gen = d.gen
      BY <2>2 DEF Levels, n
    <3>2. \A i \in 1 .. n - 1 : i \in 1 .. n
      BY <1>1
    <3> QED  BY <1>2, <2>1, <3>1, <3>2
  <2>7. K \in [0 .. n - 1 -> Nat] /\ \A i \in 0 .. n - 1 : K[i] = L[i]
    BY <1>1, <2>2
  <2>8. \A i \in 1 .. n - 1 : i \in 0 .. n - 1 /\ i - 1 \in 0 .. n - 1
    BY <1>1
  <2> HIDE DEF K
  <2>9. Levels(K, e, gs)
    BY <1>1, <2>4, <2>5, <2>6, <2>7, <2>8, SMTT(30) DEF Levels
  <2> QED  BY <1>1, <2>7, <2>9
<1> QED  BY <1>4, <1>5

\* So does a frame more, that has the level it counted, or has the only one.
LEMMA BalancedOpens ==
  ASSUME NEW d, Sane(d), NEW fs \in Seq(Frames), NEW e, Sane(e), NEW g \in Frames,
         Live(e) => /\ \/ e.depth = 1
                       \/ /\ Balanced(d, fs)
                          /\ Live(d) /\ e.gen = d.gen /\ e.depth = d.depth + 1
                    /\ IF g.kind = "txn_do" THEN e.depth = g.init + 1 ELSE g.gen = e.gen,
         NEW gs, Extended(fs, gs, g)
  PROVE  Balanced(e, gs)
<1> SUFFICES ASSUME Live(e)
             PROVE  \E L \in [0 .. Len(gs) -> Nat] : Levels(L, e, gs)
  BY DEF Balanced
<1> DEFINE n == Len(fs)
<1>1. /\ n \in Nat /\ d.depth \in Nat /\ e.depth \in Nat /\ Len(gs) = n + 1 /\ gs[n + 1] = g
      /\ \A i \in 1 .. n : gs[i] = fs[i]
  BY LenProperties, FieldTypes DEF Sane, Extended
<1> HIDE DEF n
<1>2. \A i \in 1 .. n + 1 : i \in 1 .. n \/ i = n + 1
  BY <1>1
<1>3. CASE e.depth = 1
  <2> DEFINE L == [i \in 0 .. n + 1 |-> IF i = n + 1 THEN 1 ELSE 0]
  <2>1. L \in [0 .. n + 1 -> Nat] /\ L[n + 1] = 1 /\ \A i \in 0 .. n : L[i] = 0
    BY <1>1
  <2>2. \A i \in 1 .. n + 1 : i - 1 \in 0 .. n
    BY <1>1
  <2>3. n + 1 \in 0 .. n + 1 /\ 0 \in 0 .. n /\ (n + 1) - 1 = n /\ n \in 0 .. n
    BY <1>1
  <2>4. \A i \in 1 .. n : i \in 0 .. n
    BY <1>1
  <2> HIDE DEF L
  <2>5. \A i \in 1 .. n + 1 :
          /\ L[i] <= L[i - 1] + 1
          /\ \/ L[i] <= L[i - 1]
             \/ IF gs[i].kind = "txn_do" THEN L[i] = gs[i].init + 1 ELSE gs[i].gen = e.gen
    BY <1>1, <1>2, <1>3, <2>1, <2>2, <2>3, <2>4
  <2>6. Levels(L, e, gs)
    BY <1>1, <1>3, <2>1, <2>3, <2>5 DEF Levels
  <2> QED  BY <1>1, <2>1, <2>6
<1>4. CASE e.depth # 1
  <2>1. Live(d) /\ e.gen = d.gen /\ e.depth = d.depth + 1
    BY <1>4
  <2>2. PICK K \in [0 .. n -> Nat] : Levels(K, d, fs)
    BY <1>4, <2>1 DEF Balanced, n
  <2> DEFINE L == [i \in 0 .. n + 1 |-> IF i = n + 1 THEN e.depth ELSE K[i]]
  <2>3. L \in [0 .. n + 1 -> Nat] /\ L[n + 1] = e.depth /\ \A i \in 0 .. n : L[i] = K[i]
    BY <1>1, <2>2
  <2>4. /\ K[0] = 0 /\ d.depth <= K[n] /\ K[n] \in Nat
        /\ \A i \in 1 .. n : /\ K[i] <= K[i - 1] + 1
                             /\ \/ K[i] <= K[i - 1]
                                \/ IF fs[i].kind = "txn_do" THEN K[i] = fs[i].init + 1 ELSE fs[i].gen = d.gen
    BY <1>1, <2>2 DEF Levels, n
  <2>5. 0 \in 0 .. n /\ (n + 1) - 1 = n /\ n \in 0 .. n
    BY <1>1
  <2>6. \A i \in 1 .. n : i \in 0 .. n /\ i - 1 \in 0 .. n
    BY <1>1
  <2> HIDE DEF L
  <2>7. \A i \in 1 .. n :
          /\ L[i] <= L[i - 1] + 1
          /\ \/ L[i] <= L[i - 1]
             \/ IF gs[i].kind = "txn_do" THEN L[i] = gs[i].init + 1 ELSE gs[i].gen = e.gen
    BY <1>1, <2>1, <2>3, <2>4, <2>6
  <2>8. /\ L[n + 1] <= L[(n + 1) - 1] + 1
        /\ IF g.kind = "txn_do" THEN L[n + 1] = g.init + 1 ELSE g.gen = e.gen
    BY <1>1, <2>1, <2>3, <2>4, <2>5
  <2>9. \A i \in 1 .. n + 1 :
          /\ L[i] <= L[i - 1] + 1
          /\ \/ L[i] <= L[i - 1]
             \/ IF gs[i].kind = "txn_do" THEN L[i] = gs[i].init + 1 ELSE gs[i].gen = e.gen
    BY <1>1, <1>2, <2>7, <2>8
  <2>10. L[0] = 0 /\ e.depth <= L[n + 1]
    BY <1>1, <2>3, <2>4, <2>5
  <2>11. Levels(L, e, gs)
    BY <1>1, <2>9, <2>10 DEF Levels
  <2> QED  BY <1>1, <2>3, <2>11
<1> QED  BY <1>3, <1>4

\* A frame's fields.
LEMMA FrameFields ==
  ASSUME NEW f \in Frames
  PROVE  /\ f.rows \in SUBSET Rows /\ f.init \in Nat /\ f.gen \in Nat /\ f.kind \in {"txn_do", "guard"}
         /\ f.asked \in BOOLEAN /\ f.plain \in BOOLEAN /\ f.retried \in BOOLEAN
BY DEF Frames

\* With other rows, or asked to commit.
LEMMA FrameSet ==
  ASSUME NEW f \in Frames, NEW r \in SUBSET Rows
  PROVE  /\ LET g == [f EXCEPT !.rows = r]
            IN  g \in Frames /\ Same(f, g) /\ g.rows = r /\ g.asked = f.asked
         /\ LET g == [f EXCEPT !.asked = TRUE]
            IN  g \in Frames /\ Same(f, g) /\ g.rows = f.rows /\ g.asked = TRUE
BY DEF Frames, Same

\* The last of the frames is replaced.
LEMMA LastReplaced ==
  ASSUME NEW q \in Seq(Frames), q # <<>>, NEW g \in Frames
  PROVE  LET s == Append(Front(q), g)
         IN  /\ s \in Seq(Frames) /\ Len(s) = Len(q) /\ s[Len(q)] = g /\ s # <<>>
             /\ \A i \in 1 .. Len(q) - 1 : s[i] = q[i]
<1> DEFINE b == Front(q)
           s == Append(b, g)
<1>1. /\ b \in Seq(Frames) /\ Len(q) \in Nat \ {0} /\ Len(b) = Len(q) - 1
      /\ \A i \in 1 .. Len(q) - 1 : b[i] = q[i]
  BY FrontAt
<1> HIDE DEF b
<1>2. /\ s \in Seq(Frames) /\ Len(s) = Len(b) + 1 /\ s[Len(b) + 1] = g /\ s # <<>>
      /\ \A i \in 1 .. Len(b) : s[i] = b[i]
  BY <1>1, AppendAt
<1> HIDE DEF s
<1> QED  BY <1>1, <1>2 DEF s, b

\* The end of a frame undoes what was written in it, or leaves it to the next.
Undoes(threw, fs) == threw /\ (auto_savepoint \/ Len(fs) = 1) /\ ~fs[Len(fs)].asked

\* Close, frame by frame.
LEMMA CloseIs ==
  ASSUME frames \in Seq(Frames), frames # <<>>, NEW threw \in BOOLEAN, Close(threw)
  PROVE  LET f == frames[Len(frames)]
             undoes == Undoes(threw, frames)
         IN  /\ Closed(frames, frames', undoes)
             /\ undone' = IF undoes /\ f.plain THEN undone \cup f.rows ELSE undone
             /\ units' = IF Len(frames) = 1 /\ f.plain /\ ~undoes /\ f.rows # {}
                         THEN units \cup {[rows |-> f.rows, returned |-> ~threw]} ELSE units
<1> DEFINE n == Len(frames)
           f == frames[n]
           below == Front(frames)
           undoes == Undoes(threw, frames)
           l == below[n - 1]
           r == l.rows \cup f.rows
           g == [l EXCEPT !.rows = r]
           q == Append(Front(below), g)
<1>1. /\ below \in Seq(Frames) /\ n \in Nat \ {0} /\ Len(below) = n - 1
      /\ \A i \in 1 .. n - 1 : below[i] = frames[i]
      /\ Last(frames) = f /\ f \in Frames
  BY FrontAt
<1>2. below = <<>> <=> n = 1
  <2> HIDE DEF n, below
  <2> QED  BY <1>1, EmptySeq
<1>3. Last(below) = l
  BY <1>1 DEF Last
<1>4. undoes <=> threw /\ (auto_savepoint \/ below = <<>>) /\ ~f.asked
  BY <1>2 DEF Undoes
<1>5. /\ frames' = IF below = <<>> \/ undoes THEN below ELSE q
      /\ undone' = IF undoes /\ f.plain THEN undone \cup f.rows ELSE undone
      /\ units' = IF below = <<>> /\ f.plain /\ ~undoes /\ f.rows # {}
                  THEN units \cup {[rows |-> f.rows, returned |-> ~threw]} ELSE units
  <2> HIDE DEF below, f, undoes, n
  <2> QED  BY <1>1, <1>3, <1>4 DEF Close, below
<1> HIDE DEF below, undoes
<1>6. CASE n = 1 \/ undoes
  <2>1. frames' = below
    BY <1>2, <1>5, <1>6
  <2>2. \A i \in 1 .. n - 1 : undoes \/ i < n - 1
    BY <1>1, <1>6
  <2>3. Closed(frames, frames', undoes)
    BY <1>1, <2>1, <2>2 DEF Closed, Same
  <2> QED  BY <1>2, <1>5, <2>3 DEF undoes
<1>7. CASE n # 1 /\ ~undoes
  <2>1. frames' = q
    BY <1>2, <1>5, <1>7
  <2>2. below # <<>> /\ n - 1 \in 1 .. n - 1
    BY <1>1, <1>2, <1>7
  <2>3. l \in Frames /\ l = frames[n - 1]
    BY <1>1, <2>2, ElementOfSeq
  <2>4. r \in SUBSET Rows
    BY <1>1, <2>3, FrameFields
  <2>5. r = frames[n - 1].rows \cup f.rows
    BY <2>3
  <2> HIDE DEF r, n, f, l
  <2>6. g \in Frames /\ Same(l, g) /\ g.rows = r /\ g.asked = l.asked
    BY <2>3, <2>4, FrameSet
  <2> HIDE DEF g
  <2>7. /\ q \in Seq(Frames) /\ Len(q) = n - 1 /\ q[n - 1] = g
        /\ \A i \in 1 .. (n - 1) - 1 : q[i] = below[i]
    BY <1>1, <2>2, <2>6, LastReplaced
  <2> HIDE DEF q
  <2>8. \A i \in 1 .. n - 1 : i = n - 1 \/ (i \in 1 .. (n - 1) - 1 /\ i < n - 1)
    BY <1>1
  <2>9. \A i \in 1 .. n - 1 :
          /\ Same(frames[i], q[i]) /\ q[i].asked = frames[i].asked
          /\ q[i].rows = IF i < n - 1 THEN frames[i].rows ELSE frames[i].rows \cup f.rows
    <3>1. /\ Same(frames[n - 1], q[n - 1]) /\ q[n - 1].asked = frames[n - 1].asked
          /\ q[n - 1].rows = frames[n - 1].rows \cup f.rows /\ ~(n - 1 < n - 1)
      BY <1>1, <2>3, <2>5, <2>6, <2>7
    <3>2. \A i \in 1 .. (n - 1) - 1 : q[i] = frames[i]
      BY <1>1, <2>7, <2>8
    <3> QED  BY <2>8, <3>1, <3>2 DEF Same
  <2>10. Closed(frames, q, undoes)
    BY <1>7, <2>7, <2>9 DEF Closed, n, f
  <2> QED  BY <1>2, <1>5, <1>7, <2>1, <2>10 DEF undoes, n, f
<1> QED  BY <1>6, <1>7

-----------------------------------------------------------------------------
(* Plain frames and the work.                                              *)

\* The rows of the first frames are those of the same frames.
LEMMA UptoSame ==
  ASSUME NEW fs, NEW gs, NEW k \in Nat, \A i \in 1 .. k : gs[i].rows = fs[i].rows
  PROVE  Upto(gs, k) = Upto(fs, k)
BY DEF Upto

\* A frame without rows adds none.
LEMMA UptoEmpty ==
  ASSUME NEW fs, NEW k \in Nat, fs[k + 1].rows = {}
  PROVE  Upto(fs, k + 1) = Upto(fs, k)
<1>1. \A i \in 1 .. k + 1 : i \in 1 .. k \/ i = k + 1
  OBVIOUS
<1>2. \A i \in 1 .. k : i \in 1 .. k + 1
  OBVIOUS
<1> QED  BY <1>1, <1>2 DEF Upto

\* The rows of a frame are among those of the first frames.
LEMMA UptoHas ==
  ASSUME NEW fs \in Seq(Frames), NEW k \in Nat, k <= Len(fs), NEW i \in 1 .. k
  PROVE  fs[i].rows \subseteq Upto(fs, k)
<1>1. Len(fs) \in Nat
  BY LenProperties
<1>2. i \in 1 .. Len(fs)
  BY <1>1
<1>3. fs[i] \in Frames
  BY <1>2, ElementOfSeq
<1>4. fs[i].rows \subseteq Rows
  BY <1>3, FrameFields
<1> QED  BY <1>4 DEF Upto

\* The only frame of a transaction in which nothing has been done.
LEMMA WholeBegins ==
  ASSUME NEW d, NEW e, Begins(d, e), NEW gs \in Seq(Frames), Len(gs) = 1,
         gs[1].rows = {}, ~gs[1].asked,
         IF gs[1].kind = "txn_do" THEN gs[1].init = 0 ELSE gs[1].gen = e.gen
  PROVE  Whole(e, gs)
<1>1. /\ Sane(e) /\ Live(e) /\ e.depth = 1 /\ Own(e).work = {} /\ Own(e).marks = <<>>
      /\ e.dbh = "own"
  BY DEF Begins, Live
<1>2. \A i \in 1 .. 1 : i = 1
  OBVIOUS
<1>3. Opened(e, gs)
  BY <1>1, <1>2 DEF Opened
<1>4. Upto(gs, 1) = {}
  BY <1>2 DEF Upto
<1>5. AtWork(e, gs)
  BY <1>1, <1>2, <1>4 DEF AtWork
<1> QED  BY <1>1, <1>3, <1>5 DEF Whole

\* A frame is opened within others, on a live session.
LEMMA WholeOpens ==
  ASSUME NEW d, Sane(d), Live(d), NEW fs \in Seq(Frames), fs # <<>>, Whole(d, fs), NEW inBlock,
         NEW g \in Frames, NEW gs, Extended(fs, gs, g), g.plain => Plain(fs),
         g.rows = {}, ~g.asked,
         IF g.kind = "txn_do" THEN g.init = d.depth ELSE g.gen = txn_begin(d, inBlock).d.gen
  PROVE  Whole(txn_begin(d, inBlock).d, gs)
<1> DEFINE n == Len(fs)
           r == txn_begin(d, inBlock)
           e == r.d
           m == Own(d).marks
           w == Own(e).marks
<1>1. /\ Goes(d, r, d.depth + 1) /\ Own(e).work = Own(d).work
      /\ ~auto_savepoint \/ d.depth = 0 => w = m
      /\ auto_savepoint /\ d.depth > 0 =>
           /\ Len(w) = Len(m) + 1 /\ w[Len(m) + 1].kept = Own(d).work
           /\ \A i \in 1 .. Len(m) : w[i] = m[i]
  BY TxnBeginLive
<1> HIDE DEF r
<1>2. Live(e) /\ e.dbh = d.dbh /\ e.gen = d.gen /\ e.depth = d.depth + 1 /\ e.table = d.table
  BY <1>1 DEF Goes, SameHandle
<1>3. /\ n \in Nat \ {0} /\ Len(gs) = n + 1 /\ gs[n + 1] = g
      /\ \A i \in 1 .. n : gs[i] = fs[i]
      /\ gs \in Seq(Frames)
  BY FrontAt DEF Extended
<1> SUFFICES ASSUME Plain(gs)
             PROVE  Opened(e, gs) /\ AtWork(e, gs)
  BY <1>2 DEF Whole, r
<1>4. Plain(fs)
  BY <1>3 DEF Plain
<1>5. Opened(d, fs) /\ AtWork(d, fs)
  BY <1>4 DEF Whole
<1>6. d.depth = n /\ d.dbh = "own" /\ d.depth > 0
  BY <1>5 DEF AtWork, Opened
<1> HIDE DEF n
<1>7. \A i \in 1 .. n + 1 : i \in 1 .. n \/ i = n + 1
  BY <1>3
<1>8. g.kind \in {"txn_do", "guard"}
  BY FrameFields
<1>9. Opened(e, gs)
  <2>1. \A i \in 1 .. n : /\ fs[i].kind = "guard" => fs[i].gen = d.gen
                          /\ fs[i].kind = "txn_do" /\ i > 1 => fs[i].init > 0
    BY <1>5 DEF Opened, n
  <2>2. /\ g.kind = "guard" => g.gen = e.gen
        /\ g.kind = "txn_do" => g.init > 0
    BY <1>2, <1>6, <1>8 DEF r
  <2>3. e.depth > 0
    BY <1>2, <1>3, <1>6
  <2> QED  BY <1>2, <1>3, <1>6, <1>7, <2>1, <2>2, <2>3 DEF Opened
<1>10. AtWork(e, gs)
  <2>1. \A i \in 1 .. n : /\ ~fs[i].asked
                          /\ fs[i].kind = "txn_do" => fs[i].init = i - 1
                          /\ \A j \in 1 .. n : i # j => fs[i].rows \cap fs[j].rows = {}
    BY <1>5 DEF AtWork, n
  <2>2. /\ ~g.asked /\ g.rows = {}
        /\ g.kind = "txn_do" => g.init = (n + 1) - 1
    BY <1>3, <1>6
  <2>3. \A i \in 1 .. n + 1 : /\ ~gs[i].asked
                              /\ gs[i].kind = "txn_do" => gs[i].init = i - 1
    BY <1>3, <1>7, <2>1, <2>2
  <2>4. \A i, j \in 1 .. n + 1 : i # j => gs[i].rows \cap gs[j].rows = {}
    BY <1>3, <1>7, <2>1, <2>2
  <2>5. \A k \in 1 .. n : Upto(gs, k) = Upto(fs, k)
    <3>1. \A k \in 1 .. n : k \in Nat /\ \A i \in 1 .. k : gs[i].rows = fs[i].rows
      BY <1>3
    <3> QED  BY <3>1, UptoSame
  <2>6. Upto(gs, n + 1) = Upto(gs, n)
    BY <1>3, <2>2, UptoEmpty
  <2>7. /\ Own(d).work = Upto(fs, n) /\ Own(d).work \cap d.table = {}
        /\ Len(m) = IF auto_savepoint THEN n - 1 ELSE 0
        /\ \A i \in 1 .. Len(m) : m[i].kept = Upto(fs, i)
    BY <1>5 DEF AtWork, n
  <2>8. n \in 1 .. n
    BY <1>3
  <2>9. Own(e).work = Upto(gs, n + 1) /\ Own(e).work \cap e.table = {}
    BY <1>1, <1>2, <2>5, <2>6, <2>7, <2>8
  <2>10. Len(w) = IF auto_savepoint THEN (n + 1) - 1 ELSE 0
    BY <1>1, <1>3, <1>6, <2>7
  <2>11. \A i \in 1 .. Len(w) : w[i].kept = Upto(gs, i)
    <3>1. CASE ~auto_savepoint
      BY <1>1, <2>7, <2>10, <3>1
    <3>2. CASE auto_savepoint
      <4>1. Len(m) = n - 1 /\ Len(w) = n
        BY <1>3, <2>7, <2>10, <3>2
      <4>2. \A i \in 1 .. n - 1 : i \in 1 .. n /\ w[i].kept = Upto(gs, i)
        BY <1>1, <1>3, <1>6, <2>5, <2>7, <3>2, <4>1
      <4>3. w[n].kept = Upto(gs, n)
        BY <1>1, <1>3, <1>6, <2>5, <2>7, <2>8, <3>2, <4>1
      <4>4. \A i \in 1 .. n : i \in 1 .. n - 1 \/ i = n
        BY <1>3
      <4> QED  BY <4>1, <4>2, <4>3, <4>4
    <3> QED  BY <3>1, <3>2
  <2>12. e.depth = Len(gs)
    BY <1>2, <1>3, <1>6
  <2> HIDE DEF e
  <2> QED  BY <1>3, <2>3, <2>4, <2>9, <2>10, <2>11, <2>12 DEF AtWork
<1> QED  BY <1>9, <1>10

\* A frame is opened without the session.
LEMMA WholeOpensCut ==
  ASSUME NEW d, Sane(d), d.dbh = "own", ~Live(d), d.depth > 0, NEW fs \in Seq(Frames),
         Whole(d, fs), NEW e, StaysCut(d, e), NEW g \in Frames, NEW gs, Extended(fs, gs, g),
         g.plain => Plain(fs), g.rows = {},
         IF g.kind = "txn_do" THEN g.init = d.depth ELSE g.gen = e.gen
  PROVE  Whole(e, gs)
<1> DEFINE n == Len(fs)
<1>1. ~Live(e) /\ e.dbh = "own" /\ e.gen = d.gen /\ e.depth > 0 /\ e.table = d.table
  BY DEF StaysCut, SameHandle
<1>2. /\ n \in Nat /\ Len(gs) = n + 1 /\ gs[n + 1] = g /\ \A i \in 1 .. n : gs[i] = fs[i]
  BY LenProperties DEF Extended
<1> SUFFICES ASSUME Plain(gs)
             PROVE  Opened(e, gs) /\ CutOff(e, gs)
  BY <1>1 DEF Whole
<1>3. Plain(fs)
  BY <1>2 DEF Plain
<1>4. fs # <<>> => Opened(d, fs) /\ CutOff(d, fs)
  BY <1>3 DEF Whole
<1>5. fs = <<>> <=> n = 0
  BY <1>2, EmptySeq
<1> HIDE DEF n
<1>6. \A i \in 1 .. n + 1 : i \in 1 .. n \/ i = n + 1
  BY <1>2
<1>7. g.kind \in {"txn_do", "guard"}
  BY FrameFields
<1>8. Opened(e, gs)
  <2>1. \A i \in 1 .. n : /\ fs[i].kind = "guard" => fs[i].gen = e.gen
                          /\ fs[i].kind = "txn_do" /\ i > 1 => fs[i].init > 0
    <3>1. CASE n = 0
      BY <3>1
    <3>2. CASE n # 0
      BY <1>1, <1>4, <1>5, <3>2 DEF Opened, n
    <3> QED  BY <3>1, <3>2
  <2>2. /\ g.kind = "guard" => g.gen = e.gen
        /\ g.kind = "txn_do" => g.init > 0
    BY <1>7
  <2> QED  BY <1>1, <1>2, <1>6, <2>1, <2>2 DEF Opened
<1>9. CutOff(e, gs)
  <2>1. CASE n = 0
    BY <1>2, <1>6, <2>1 DEF CutOff
  <2>2. CASE n # 0 /\ \A i \in 1 .. n : fs[i].rows \cap d.table = {}
    BY <1>1, <1>2, <1>6, <2>2 DEF CutOff
  <2>3. CASE /\ n # 0 /\ fs[1].asked /\ fs[1].rows \subseteq d.table
             /\ \A i \in 2 .. n : fs[i].rows = {}
    <3>1. gs[1] = fs[1] /\ \A i \in 2 .. n + 1 : gs[i].rows = {}
      <4>1. 1 \in 1 .. n
        BY <1>2, <2>3
      <4>2. \A i \in 2 .. n + 1 : i \in 2 .. n \/ i = n + 1
        BY <1>2
      <4>3. \A i \in 2 .. n : i \in 1 .. n
        BY <1>2
      <4> QED  BY <1>2, <2>3, <4>1, <4>2, <4>3
    <3> QED  BY <1>1, <1>2, <2>3, <3>1 DEF CutOff
  <2> QED  BY <1>4, <1>5, <2>1, <2>2, <2>3 DEF CutOff, n
<1> QED  BY <1>8, <1>9

\* Without the session frames stay, or the innermost is asked to commit.
LEMMA WholeStaysCut ==
  ASSUME NEW d, ~Live(d), NEW fs \in Seq(Frames), Whole(d, fs), NEW e, StaysCut(d, e), NEW gs,
         Kindred(fs, gs), \A i \in 1 .. Len(fs) : gs[i].rows = fs[i].rows /\ (fs[i].asked => gs[i].asked)
  PROVE  Whole(e, gs)
<1> DEFINE n == Len(fs)
<1>1. ~Live(e) /\ e.dbh = d.dbh /\ e.gen = d.gen /\ e.table = d.table /\ (d.depth > 0 => e.depth > 0)
  BY DEF StaysCut, SameHandle
<1>2. /\ n \in Nat /\ Len(gs) = n /\ gs \in Seq(Frames)
      /\ \A i \in 1 .. n : /\ gs[i].kind = fs[i].kind /\ gs[i].init = fs[i].init
                           /\ gs[i].gen = fs[i].gen /\ gs[i].plain = fs[i].plain
  BY LenProperties DEF Kindred, Same
<1> SUFFICES ASSUME gs # <<>>, Plain(gs)
             PROVE  Opened(e, gs) /\ CutOff(e, gs)
  BY <1>1 DEF Whole
<1>3. n # 0 /\ fs # <<>>
  BY <1>2, EmptySeq
<1>4. Plain(fs)
  BY <1>2 DEF Plain
<1>5. Opened(d, fs) /\ CutOff(d, fs)
  BY <1>3, <1>4 DEF Whole
<1>6. Opened(e, gs)
  BY <1>1, <1>2, <1>5 DEF Opened
<1>7. CutOff(e, gs)
  <2>1. 1 \in 1 .. n /\ \A i \in 2 .. n : i \in 1 .. n
    BY <1>2, <1>3
  <2> QED  BY <1>1, <1>2, <1>5, <2>1 DEF CutOff
<1> QED  BY <1>6, <1>7

\* Without the session a frame is over.
LEMMA WholeClosesCut ==
  ASSUME NEW d, ~Live(d), NEW fs \in Seq(Frames), fs # <<>>, Whole(d, fs), NEW e, StaysCut(d, e),
         Alike(fs), NEW gs, NEW undoes, Closed(fs, gs, undoes)
  PROVE  Whole(e, gs)
<1> DEFINE n == Len(fs)
<1>1. ~Live(e) /\ e.dbh = d.dbh /\ e.gen = d.gen /\ e.table = d.table /\ (d.depth > 0 => e.depth > 0)
  BY DEF StaysCut, SameHandle
<1>2. /\ n \in Nat \ {0} /\ Len(gs) = n - 1 /\ gs \in Seq(Frames)
      /\ \A i \in 1 .. n - 1 :
           /\ gs[i].kind = fs[i].kind /\ gs[i].init = fs[i].init /\ gs[i].gen = fs[i].gen
           /\ gs[i].plain = fs[i].plain /\ gs[i].asked = fs[i].asked
           /\ gs[i].rows \subseteq fs[i].rows \cup fs[n].rows
           /\ fs[i].rows \subseteq gs[i].rows
  BY FrontAt DEF Closed, Same
<1> SUFFICES ASSUME gs # <<>>, Plain(gs)
             PROVE  Opened(e, gs) /\ CutOff(e, gs)
  BY <1>1 DEF Whole
<1>3. n > 1
  BY <1>2, EmptySeq
<1> HIDE DEF n
<1>4. 1 \in 1 .. n - 1 /\ n \in 1 .. n /\ n \in 2 .. n
  BY <1>2, <1>3
<1>5. /\ \A i \in 1 .. n - 1 : i \in 1 .. n
      /\ \A i \in 2 .. n - 1 : i \in 2 .. n /\ i \in 1 .. n - 1
  BY <1>2
<1>6. Plain(fs)
  <2>1. fs[1].plain
    BY <1>2, <1>4 DEF Plain
  <2> QED  BY <1>4, <1>5, <2>1 DEF Alike, Plain, n
<1>7. Opened(d, fs) /\ CutOff(d, fs)
  BY <1>6 DEF Whole
<1>8. Opened(e, gs)
  BY <1>1, <1>2, <1>5, <1>7 DEF Opened, n
<1>9. CutOff(e, gs)
  <2>1. CASE \A i \in 1 .. n : fs[i].rows \cap d.table = {}
    <3>1. \A i \in 1 .. n - 1 : gs[i].rows \cap e.table = {}
      BY <1>1, <1>2, <1>4, <1>5, <2>1
    <3> QED  BY <1>2, <3>1 DEF CutOff
  <2>2. CASE /\ fs[1].asked /\ fs[1].rows \subseteq d.table
             /\ \A i \in 2 .. n : fs[i].rows = {}
    <3>1. gs[1].rows \subseteq e.table /\ gs[1].asked
      BY <1>1, <1>2, <1>4, <2>2
    <3>2. \A i \in 2 .. n - 1 : gs[i].rows = {}
      BY <1>2, <1>4, <1>5, <2>2
    <3> QED  BY <1>2, <3>1, <3>2 DEF CutOff
  <2> QED  BY <1>7, <2>1, <2>2 DEF CutOff, n
<1> QED  BY <1>8, <1>9

\* The session is lost, or what it had done is with an answer that is.
LEMMA WholeLoses ==
  ASSUME NEW d, Live(d), NEW fs \in Seq(Frames), Whole(d, fs), NEW e, ~Live(e),
         e.dbh = d.dbh, e.gen = d.gen, d.depth > 0 => e.depth > 0, NEW gs, Kindred(fs, gs),
         \A i \in 1 .. Len(fs) : gs[i].rows = fs[i].rows,
         \/ e.table = d.table
         \/ e.table = d.table \cup Own(d).work /\ Len(fs) = 1 /\ gs[1].asked
  PROVE  Whole(e, gs)
<1> DEFINE n == Len(fs)
<1>1. /\ n \in Nat /\ Len(gs) = n /\ gs \in Seq(Frames)
      /\ \A i \in 1 .. n : /\ gs[i].kind = fs[i].kind /\ gs[i].init = fs[i].init
                           /\ gs[i].gen = fs[i].gen /\ gs[i].plain = fs[i].plain
  BY LenProperties DEF Kindred, Same
<1> SUFFICES ASSUME gs # <<>>, Plain(gs)
             PROVE  Opened(e, gs) /\ CutOff(e, gs)
  BY DEF Whole
<1>2. n # 0 /\ fs # <<>>
  BY <1>1, EmptySeq
<1>3. Plain(fs)
  BY <1>1 DEF Plain
<1>4. Opened(d, fs) /\ AtWork(d, fs)
  BY <1>2, <1>3 DEF Whole
<1>5. Opened(e, gs)
  BY <1>1, <1>4 DEF Opened
<1>6. \A i \in 1 .. n : fs[i].rows \subseteq Own(d).work
  <2>1. Own(d).work = Upto(fs, n)
    BY <1>4 DEF AtWork
  <2> QED  BY <1>1, <2>1, UptoHas
<1>7. Own(d).work \cap d.table = {}
  BY <1>4 DEF AtWork
<1>8. CutOff(e, gs)
  <2>1. CASE e.table = d.table
    BY <1>1, <1>6, <1>7, <2>1 DEF CutOff
  <2>2. CASE e.table = d.table \cup Own(d).work /\ n = 1 /\ gs[1].asked
    <3>1. gs[1].rows \subseteq e.table
      BY <1>6, <2>2
    <3>2. \A i \in 2 .. n : FALSE
      BY <2>2
    <3> QED  BY <1>1, <2>2, <3>1, <3>2 DEF CutOff
  <2> QED  BY <2>1, <2>2
<1> QED  BY <1>5, <1>8

\* What makes frames opened, and at work.
LEMMA AtWorkIs ==
  ASSUME NEW e, NEW gs, e.depth = Len(gs),
         \A i \in 1 .. Len(gs) : /\ ~gs[i].asked
                                 /\ gs[i].kind = "txn_do" => gs[i].init = i - 1
                                 /\ \A j \in 1 .. Len(gs) : i # j => gs[i].rows \cap gs[j].rows = {},
         Own(e).work = Upto(gs, Len(gs)), Own(e).work \cap e.table = {},
         Len(Own(e).marks) = IF auto_savepoint THEN Len(gs) - 1 ELSE 0,
         \A i \in 1 .. Len(Own(e).marks) : Own(e).marks[i].kept = Upto(gs, i)
  PROVE  AtWork(e, gs)
BY DEF AtWork

\* The same of the handle.
LEMMA OpenedIs ==
  ASSUME NEW e, NEW gs, e.dbh = "own", e.depth > 0,
         \A i \in 1 .. Len(gs) : /\ gs[i].kind = "guard" => gs[i].gen = e.gen
                                 /\ gs[i].kind = "txn_do" /\ i > 1 => gs[i].init > 0
  PROVE  Opened(e, gs)
BY DEF Opened

\* On a live session an inner frame is over: its mark goes, and where it undoes its rows too.
LEMMA WholeCloses ==
  ASSUME NEW d, Sane(d), Live(d), NEW fs \in Seq(Frames), fs # <<>>, Alike(fs), Whole(d, fs),
         NEW e, Outwards(d, e), NEW gs, NEW undoes, Closed(fs, gs, undoes),
         undoes => /\ auto_savepoint
                   /\ Own(d).marks # <<>> => Own(e).work = Last(Own(d).marks).kept,
         ~undoes => Own(e).work = Own(d).work,
         auto_savepoint /\ Own(d).marks # <<>> => Own(e).marks = Front(Own(d).marks),
         ~auto_savepoint => Own(e).marks = Own(d).marks
  PROVE  Whole(e, gs)
<1> DEFINE n == Len(fs)
           m == Own(d).marks
           w == Own(e).marks
<1>1. Live(e) /\ e.dbh = d.dbh /\ e.gen = d.gen /\ e.table = d.table /\ e.depth = d.depth - 1
  BY DEF Outwards, SameHandle
<1>2. /\ n \in Nat \ {0} /\ Len(gs) = n - 1 /\ gs \in Seq(Frames)
      /\ \A i \in 1 .. n - 1 :
           /\ gs[i].kind = fs[i].kind /\ gs[i].init = fs[i].init /\ gs[i].gen = fs[i].gen
           /\ gs[i].plain = fs[i].plain /\ gs[i].asked = fs[i].asked
           /\ gs[i].rows = IF undoes \/ i < n - 1 THEN fs[i].rows ELSE fs[i].rows \cup fs[n].rows
  BY FrontAt DEF Closed, Same
<1> SUFFICES ASSUME gs # <<>>, Plain(gs)
             PROVE  Opened(e, gs) /\ AtWork(e, gs)
  BY <1>1 DEF Whole
<1>3. n > 1
  BY <1>2, EmptySeq
<1> HIDE DEF n, m, w
<1>4. 1 \in 1 .. n - 1 /\ n \in 1 .. n /\ n - 1 \in 1 .. n - 1
  BY <1>2, <1>3
<1>5. \A i \in 1 .. n - 1 : i \in 1 .. n /\ i # n
  BY <1>2
<1>6. Plain(fs)
  <2>1. fs[1].plain
    BY <1>2, <1>4 DEF Plain
  <2> QED  BY <1>4, <1>5, <2>1 DEF Alike, Plain, n
<1>7. Opened(d, fs) /\ AtWork(d, fs)
  BY <1>6 DEF Whole
<1>8. d.depth = n
  BY <1>7 DEF AtWork, n
<1>9. \A i \in 1 .. n : /\ ~fs[i].asked
                        /\ fs[i].kind = "txn_do" => fs[i].init = i - 1
                        /\ \A j \in 1 .. n : i # j => fs[i].rows \cap fs[j].rows = {}
  BY <1>7 DEF AtWork, n
<1>10. /\ Own(d).work = Upto(fs, n) /\ Own(d).work \cap d.table = {}
       /\ Len(m) = IF auto_savepoint THEN n - 1 ELSE 0
       /\ \A i \in 1 .. Len(m) : m[i].kept = Upto(fs, i)
  BY <1>7 DEF AtWork, n, m
<1>11. m \in Seq(Marks) /\ (auto_savepoint => m # <<>>)
  <2>1. m \in Seq(Marks)
    BY SaneLive, FieldTypes DEF m
  <2> QED  BY <1>2, <1>3, <1>10, <2>1, EmptySeq
<1>12. Opened(e, gs)
  <2>1. e.depth > 0
    BY <1>1, <1>2, <1>3, <1>8
  <2> QED  BY <1>1, <1>2, <1>5, <1>7, <2>1 DEF Opened, n
<1>13. \A k \in 1 .. n - 1 : undoes \/ k < n - 1 => Upto(gs, k) = Upto(fs, k)
  <2>1. ASSUME NEW k \in 1 .. n - 1, undoes \/ k < n - 1
        PROVE  Upto(gs, k) = Upto(fs, k)
    <3>1. \A i \in 1 .. k : i \in 1 .. n - 1 /\ (undoes \/ i < n - 1)
      BY <1>2, <2>1
    <3>2. \A i \in 1 .. k : gs[i].rows = fs[i].rows
      BY <1>2, <3>1
    <3> QED  BY <3>2, UptoSame
  <2> QED  BY <2>1
<1>14. ASSUME ~undoes
       PROVE  Upto(gs, n - 1) = Upto(fs, n)
  <2>1. \A i \in 1 .. n : i \in 1 .. n - 1 \/ i = n
    BY <1>2
  <2>2. \A x : (\E i \in 1 .. n - 1 : x \in gs[i].rows) <=> (\E i \in 1 .. n : x \in fs[i].rows)
    <3>1. \A x : \A i \in 1 .. n - 1 : x \in gs[i].rows => (x \in fs[i].rows \/ x \in fs[n].rows)
      BY <1>2
    <3>2. \A x : \A i \in 1 .. n - 1 : x \in fs[i].rows => x \in gs[i].rows
      BY <1>2
    <3>3. \A x : x \in fs[n].rows => x \in gs[n - 1].rows
      <4>1. ~(n - 1 < n - 1)
        BY <1>2
      <4>2. gs[n - 1].rows = fs[n - 1].rows \cup fs[n].rows
        BY <1>2, <1>4, <1>14, <4>1, Zenon
      <4> QED  BY <4>2
    <3> QED  BY <1>4, <1>5, <2>1, <3>1, <3>2, <3>3, Zenon
  <2> QED  BY <2>2 DEF Upto
<1>15. \A i \in 1 .. n - 1 : \A j \in 1 .. n - 1 : i # j => gs[i].rows \cap gs[j].rows = {}
  <2>1. ASSUME NEW i \in 1 .. n - 1, NEW j \in 1 .. n - 1, i # j
        PROVE  gs[i].rows \cap gs[j].rows = {}
    <3>1. /\ fs[i].rows \cap fs[j].rows = {} /\ fs[i].rows \cap fs[n].rows = {}
          /\ fs[j].rows \cap fs[n].rows = {}
      BY <1>4, <1>5, <1>9, <2>1
    <3>2. i < n - 1 \/ j < n - 1
      BY <1>2, <2>1
    <3> QED  BY <1>2, <3>1, <3>2
  <2> QED  BY <2>1
<1>16. \A i \in 1 .. n - 1 : /\ ~gs[i].asked
                             /\ gs[i].kind = "txn_do" => gs[i].init = i - 1
  BY <1>2, <1>5, <1>9
<1>17. Own(e).work = Upto(gs, n - 1) /\ Own(e).work \subseteq Own(d).work
  <2>1. CASE ~undoes
    BY <1>10, <1>14, <2>1
  <2>2. CASE undoes
    <3>1. Len(m) = n - 1 /\ m # <<>>
      BY <1>10, <1>11, <2>2
    <3>2. Own(e).work = m[n - 1].kept
      BY <1>11, <2>2, <3>1, FrontAt DEF m
    <3>3. Own(e).work = Upto(gs, n - 1)
      BY <1>4, <1>10, <1>13, <2>2, <3>1, <3>2
    <3>4. KeptGrows(m, Own(d).work) /\ DOMAIN m = 1 .. Len(m)
      BY <1>11, MarksLive, LenProperties DEF m
    <3>5. m[n - 1].kept \subseteq Own(d).work
      BY <1>4, <3>1, <3>4 DEF KeptGrows
    <3> QED  BY <3>2, <3>3, <3>5
  <2> QED  BY <2>1, <2>2
<1>18. Len(w) = IF auto_savepoint THEN (n - 1) - 1 ELSE 0
  <2>1. CASE auto_savepoint
    <3>1. Len(m) = n - 1 /\ w = Front(m) /\ m # <<>>
      BY <1>10, <1>11, <2>1 DEF m, w
    <3>2. Len(Front(m)) = Len(m) - 1
      BY <1>11, <3>1, FrontAt
    <3> QED  BY <2>1, <3>1, <3>2
  <2>2. CASE ~auto_savepoint
    BY <1>10, <2>2 DEF m, w
  <2> QED  BY <2>1, <2>2
<1>19. \A i \in 1 .. Len(w) : w[i].kept = Upto(gs, i)
  <2>1. CASE auto_savepoint
    <3>1. Len(m) = n - 1 /\ w = Front(m) /\ Len(w) = n - 2
      BY <1>2, <1>10, <1>11, <1>18, <2>1 DEF m, w
    <3>2. \A i \in 1 .. Len(w) : i \in 1 .. n - 1 /\ i < n - 1
      BY <1>2, <3>1
    <3>3. \A i \in 1 .. Len(m) - 1 : w[i] = m[i]
      BY <1>11, <2>1, <3>1, FrontAt
    <3>4. \A i \in 1 .. Len(w) : w[i] = m[i]
      BY <1>2, <3>1, <3>3
    <3> QED  BY <1>10, <1>13, <3>1, <3>2, <3>4
  <2>2. CASE ~auto_savepoint
    BY <1>18, <2>2
  <2> QED  BY <2>1, <2>2
<1>20. AtWork(e, gs)
  <2>1. e.depth = Len(gs)
    BY <1>1, <1>2, <1>8
  <2>2. Own(e).work \cap e.table = {}
    BY <1>1, <1>10, <1>17
  <2>3. \A i \in 1 .. Len(gs) : /\ ~gs[i].asked
                                /\ gs[i].kind = "txn_do" => gs[i].init = i - 1
                                /\ \A j \in 1 .. Len(gs) : i # j => gs[i].rows \cap gs[j].rows = {}
    BY <1>2, <1>15, <1>16
  <2>4. /\ Own(e).work = Upto(gs, Len(gs))
        /\ Len(Own(e).marks) = IF auto_savepoint THEN Len(gs) - 1 ELSE 0
    BY <1>2, <1>17, <1>18 DEF w
  <2>5. \A i \in 1 .. Len(Own(e).marks) : Own(e).marks[i].kept = Upto(gs, i)
    BY <1>19 DEF w
  <2> QED  BY <2>1, <2>2, <2>3, <2>4, <2>5, AtWorkIs, Zenon
<1> QED  BY <1>12, <1>20

\* The work of the session with a row more, and the frames with it in the innermost.
Wrote(d, e, row) ==
  /\ Live(e) /\ e.dbh = d.dbh /\ e.gen = d.gen /\ e.depth = d.depth /\ e.table = d.table
  /\ Own(e).work = Own(d).work \cup {row} /\ Own(e).marks = Own(d).marks

Rewritten(fs, gs, row) ==
  /\ gs \in Seq(Frames) /\ Len(gs) = Len(fs)
  /\ \A i \in 1 .. Len(fs) - 1 : gs[i] = fs[i]
  /\ Same(fs[Len(fs)], gs[Len(fs)]) /\ gs[Len(fs)].asked = fs[Len(fs)].asked
  /\ gs[Len(fs)].rows = fs[Len(fs)].rows \cup {row}

\* A row is written, on a live session.
LEMMA WholeWrites ==
  ASSUME NEW d, Sane(d), Live(d), NEW fs \in Seq(Frames), fs # <<>>, Whole(d, fs),
         NEW row \in Rows, row \notin d.table, \A i \in 1 .. Len(fs) : row \notin fs[i].rows,
         NEW e, Wrote(d, e, row), NEW gs, Rewritten(fs, gs, row)
  PROVE  Whole(e, gs)
<1> USE DEF Wrote, Rewritten
<1> DEFINE n == Len(fs)
           m == Own(d).marks
<1>1. n \in Nat \ {0}
  BY FrontAt
<1>2. \A i \in 1 .. n : i \in 1 .. n - 1 \/ i = n
  BY <1>1
<1>3. \A i \in 1 .. n :
        /\ gs[i].kind = fs[i].kind /\ gs[i].init = fs[i].init /\ gs[i].gen = fs[i].gen
        /\ gs[i].plain = fs[i].plain /\ gs[i].asked = fs[i].asked
        /\ gs[i].rows = IF i = n THEN fs[i].rows \cup {row} ELSE fs[i].rows
  <2>1. \A i \in 1 .. n - 1 : i # n
    BY <1>1
  <2> QED  BY <1>2, <2>1 DEF Same
<1> SUFFICES ASSUME Plain(gs)
             PROVE  Opened(e, gs) /\ AtWork(e, gs)
  BY DEF Whole
<1>4. Plain(fs)
  BY <1>3 DEF Plain
<1>5. Opened(d, fs) /\ AtWork(d, fs)
  BY <1>4 DEF Whole
<1> HIDE DEF n, m
<1>6. Opened(e, gs)
  <2>1. /\ d.dbh = "own" /\ d.depth > 0
        /\ \A i \in 1 .. n : /\ fs[i].kind = "guard" => fs[i].gen = d.gen
                             /\ fs[i].kind = "txn_do" /\ i > 1 => fs[i].init > 0
    BY <1>5 DEF Opened, n
  <2>2. \A i \in 1 .. n : /\ gs[i].kind = "guard" => gs[i].gen = e.gen
                          /\ gs[i].kind = "txn_do" /\ i > 1 => gs[i].init > 0
    BY <1>3, <2>1, ZenonT(60)
  <2>3. Len(gs) = n /\ e.dbh = "own" /\ e.depth > 0
    BY <2>1 DEF n
  <2>4. \A i \in 1 .. Len(gs) : /\ gs[i].kind = "guard" => gs[i].gen = e.gen
                                /\ gs[i].kind = "txn_do" /\ i > 1 => gs[i].init > 0
    BY <2>2, <2>3
  <2> QED  BY <2>3, <2>4, OpenedIs, Zenon
<1>7. \A i \in 1 .. n : /\ ~fs[i].asked
                        /\ fs[i].kind = "txn_do" => fs[i].init = i - 1
                        /\ \A j \in 1 .. n : i # j => fs[i].rows \cap fs[j].rows = {}
  BY <1>5 DEF AtWork, n
<1>8. /\ Own(d).work = Upto(fs, n) /\ Own(d).work \cap d.table = {} /\ d.depth = n
      /\ Len(m) = IF auto_savepoint THEN n - 1 ELSE 0
      /\ \A i \in 1 .. Len(m) : m[i].kept = Upto(fs, i)
  BY <1>5 DEF AtWork, n, m
<1>9. n \in 1 .. n
  BY <1>1
<1>10. Upto(gs, n) = Upto(fs, n) \cup {row}
  BY <1>3, <1>9 DEF Upto
<1>11. \A k \in 1 .. n - 1 : Upto(gs, k) = Upto(fs, k)
  <2>1. \A k \in 1 .. n - 1 : k \in Nat /\ \A i \in 1 .. k : i \in 1 .. n /\ i # n
    BY <1>1
  <2>2. \A k \in 1 .. n - 1 : k \in Nat /\ \A i \in 1 .. k : gs[i].rows = fs[i].rows
    BY <1>3, <2>1
  <2> QED  BY <2>2, UptoSame
<1>12. \A i \in 1 .. n : \A j \in 1 .. n : i # j => gs[i].rows \cap gs[j].rows = {}
  <2>1. \A i \in 1 .. n : row \notin fs[i].rows
    BY DEF n
  <2> HIDE DEF Wrote, Rewritten
  <2> QED  BY <1>3, <1>7, <2>1, ZenonT(60)
<1>13. \A i \in 1 .. Len(m) : m[i].kept = Upto(gs, i)
  BY <1>1, <1>8, <1>11
<1>14. AtWork(e, gs)
  <2>1. \A i \in 1 .. n : /\ ~gs[i].asked
                          /\ gs[i].kind = "txn_do" => gs[i].init = i - 1
    BY <1>3, <1>7
  <2>2. Own(e).work = Upto(gs, n) /\ Own(e).work \cap e.table = {}
    BY <1>8, <1>10
  <2> QED  BY <1>8, <1>12, <1>13, <2>1, <2>2 DEF AtWork, n, m
<1> QED  BY <1>6, <1>14

-----------------------------------------------------------------------------
(* What is over stays as it is.                                            *)

\* A step that settles nothing but work of the session.
LEMMA SettledStays ==
  ASSUME NEW d, NEW e, Settles(d, e), NEW us, NEW un, Settled(d, us, un)
  PROVE  Settled(e, us, un)
BY DEF Settles, Settled

\* The end of an outermost frame, and of one that is undone.
LEMMA SettledMore ==
  ASSUME NEW e, NEW us, NEW un, Settled(e, us, un), NEW rows, NEW b
  PROVE  /\ rows \cap (e.table \cup Own(e).work) = {} => Settled(e, us, un \cup rows)
         /\ rows \subseteq e.table \/ rows \cap (e.table \cup Own(e).work) = {} =>
              Settled(e, us \cup {[rows |-> rows, returned |-> b]}, un)
<1>1. rows \cap (e.table \cup Own(e).work) = {} => Settled(e, us, un \cup rows)
  BY DEF Settled
<1>2. ASSUME rows \subseteq e.table \/ rows \cap (e.table \cup Own(e).work) = {}
      PROVE  Settled(e, us \cup {[rows |-> rows, returned |-> b]}, un)
  <2> DEFINE u == [rows |-> rows, returned |-> b]
  <2>1. u.rows = rows
    OBVIOUS
  <2> HIDE DEF u
  <2>2. \A v \in us \cup {u} : v.rows \subseteq e.table \/ v.rows \cap (e.table \cup Own(e).work) = {}
    BY <1>2, <2>1 DEF Settled
  <2>3. un \cap (e.table \cup Own(e).work) = {}
    BY DEF Settled
  <2>4. Settled(e, us \cup {u}, un)
    BY <2>2, <2>3 DEF Settled
  <2> QED  BY <2>4 DEF u
<1> QED  BY <1>1, <1>2

\* The invariant but for the types, of the next state.
Steady ==
  /\ Sane(db') /\ Alike(frames') /\ Balanced(db', frames') /\ Whole(db', frames')
  /\ Settled(db', units', undone')

\* The state's parts.
LEMMA StateIs ==
  ASSUME IInv
  PROVE  /\ Sane(db) /\ db \in Storages /\ frames \in Seq(Frames) /\ Len(frames) \in Nat
         /\ DOMAIN frames = 1 .. Len(frames) /\ auto_savepoint \in BOOLEAN
         /\ Alike(frames) /\ Balanced(db, frames) /\ Whole(db, frames)
         /\ Settled(db, units, undone)
<1>1. frames \in Seq(Frames) /\ auto_savepoint \in BOOLEAN
  BY TypeIs DEF IInv
<1>2. Len(frames) \in Nat /\ DOMAIN frames = 1 .. Len(frames)
  BY <1>1, LenProperties
<1> QED  BY <1>1, <1>2 DEF IInv, Sane

\* All frames are plain if one is.
LEMMA AlikePlain ==
  ASSUME NEW fs, Alike(fs), NEW i \in 1 .. Len(fs), fs[i].plain
  PROVE  Plain(fs)
BY DEF Alike, Plain

\* What a live session does at the end of an inner frame.
Levelled(d, e, undoes) ==
  /\ Outwards(d, e)
  /\ undoes => /\ auto_savepoint
               /\ Own(d).marks # <<>> => Own(e).work = Last(Own(d).marks).kept
  /\ ~undoes => Own(e).work = Own(d).work
  /\ auto_savepoint /\ Own(d).marks # <<>> => Own(e).marks = Front(Own(d).marks)
  /\ ~auto_savepoint => Own(e).marks = Own(d).marks

\* The rows of frames at work are in the work, not in the table, and those of the innermost
\* are not in what its mark keeps.
LEMMA AtWorkRows ==
  ASSUME NEW d, Sane(d), NEW fs \in Seq(Frames), fs # <<>>, AtWork(d, fs)
  PROVE  LET f == fs[Len(fs)]
         IN  /\ f.rows \subseteq Own(d).work /\ f.rows \cap d.table = {} /\ ~f.asked
             /\ auto_savepoint /\ Len(fs) > 1 => /\ Own(d).marks # <<>>
                                                 /\ f.rows \cap Last(Own(d).marks).kept = {}
             /\ f.kind = "txn_do" => d.depth = f.init + 1
<1> DEFINE n == Len(fs)
           f == fs[n]
           m == Own(d).marks
<1>1. n \in Nat \ {0} /\ n \in 1 .. n /\ f \in Frames
  BY FrontAt
<1>2. /\ Own(d).work = Upto(fs, n) /\ Own(d).work \cap d.table = {} /\ ~f.asked
      /\ f.kind = "txn_do" => f.init = n - 1
      /\ \A j \in 1 .. n : n # j => f.rows \cap fs[j].rows = {}
      /\ Len(m) = IF auto_savepoint THEN n - 1 ELSE 0
      /\ \A i \in 1 .. Len(m) : m[i].kept = Upto(fs, i)
      /\ d.depth = n
  BY <1>1 DEF AtWork
<1>3. f.rows \subseteq Upto(fs, n)
  BY <1>1, UptoHas
<1>4. m \in Seq(Marks)
  BY FieldTypes DEF Sane
<1> HIDE DEF n, f, m
<1>5. ASSUME auto_savepoint, n > 1
      PROVE  m # <<>> /\ f.rows \cap Last(m).kept = {}
  <2>1. Len(m) = n - 1 /\ m # <<>> /\ n - 1 \in 1 .. n - 1
    BY <1>1, <1>2, <1>4, <1>5, EmptySeq
  <2>2. Last(m) = m[n - 1]
    BY <2>1 DEF Last
  <2>3. Last(m).kept = Upto(fs, n - 1)
    BY <1>2, <2>1, <2>2
  <2>4. \A j \in 1 .. n - 1 : j \in 1 .. n /\ n # j
    BY <1>1
  <2>5. \A j \in 1 .. n - 1 : f.rows \cap fs[j].rows = {}
    BY <1>2, <2>4
  <2> QED  BY <2>1, <2>3, <2>5 DEF Upto
<1>6. f.kind = "txn_do" => d.depth = f.init + 1
  BY <1>1, <1>2
<1> QED  BY <1>2, <1>3, <1>5, <1>6 DEF n, f, m

\* The frames after Close are alike.
LEMMA AlikeCloses ==
  ASSUME NEW fs \in Seq(Frames), fs # <<>>, Alike(fs), NEW gs, NEW undoes, Closed(fs, gs, undoes)
  PROVE  Alike(gs)
<1> DEFINE n == Len(fs)
<1>1. /\ n \in Nat \ {0} /\ Len(gs) = n - 1
      /\ \A i \in 1 .. n - 1 : /\ gs[i].kind = fs[i].kind /\ gs[i].plain = fs[i].plain
                               /\ gs[i].asked = fs[i].asked
  BY FrontAt DEF Closed, Same
<1> HIDE DEF n
<1>2. \A i \in 1 .. n - 1 : i \in 1 .. n
  BY <1>1
<1>3. /\ \A i, j \in 1 .. n : fs[i].plain = fs[j].plain
      /\ \A i \in 1 .. n : fs[i].asked => fs[i].kind = "guard"
  BY DEF Alike, n
<1>4. /\ \A i, j \in 1 .. n - 1 : gs[i].plain = gs[j].plain
      /\ \A i \in 1 .. n - 1 : gs[i].asked => gs[i].kind = "guard"
  BY <1>1, <1>2, <1>3
<1> QED  BY <1>1, <1>4 DEF Alike

\* The rows of the innermost frame are settled when it is over.
Out(rows, e) == rows \cap (e.table \cup Own(e).work) = {}

Over(e, fs, undoes) ==
  fs[Len(fs)].plain => /\ undoes => Out(fs[Len(fs)].rows, e)
                       /\ Len(fs) = 1 => fs[Len(fs)].rows \subseteq e.table \/ Out(fs[Len(fs)].rows, e)

\* Nothing is written without the session.
LEMMA CutIsEmpty ==
  ASSUME NEW e, Sane(e), ~Live(e)
  PROVE  Own(e).work = {} /\ Own(e).marks = <<>>
BY SessionFields DEF Sane

\* Without the session what a frame has written was lost, or is in the table.
LEMMA OverCut ==
  ASSUME NEW d, ~Live(d), NEW fs \in Seq(Frames), fs # <<>>, Alike(fs), Whole(d, fs),
         NEW e, StaysCut(d, e), NEW undoes, undoes => ~fs[Len(fs)].asked
  PROVE  Over(e, fs, undoes)
<1> DEFINE n == Len(fs)
           f == fs[n]
<1>1. n \in Nat \ {0} /\ n \in 1 .. n
  BY FrontAt
<1>2. e.table = d.table /\ Own(e).work = {}
  BY CutIsEmpty DEF StaysCut, SameHandle
<1> SUFFICES ASSUME f.plain
             PROVE  /\ undoes => Out(f.rows, e)
                    /\ n = 1 => f.rows \subseteq e.table \/ Out(f.rows, e)
  BY DEF Over
<1>3. Plain(fs)
  BY <1>1, AlikePlain
<1>4. CutOff(d, fs)
  BY <1>3 DEF Whole
<1>5. CASE \A i \in 1 .. n : fs[i].rows \cap d.table = {}
  BY <1>1, <1>2, <1>5 DEF Out
<1>6. CASE /\ fs[1].asked /\ fs[1].rows \subseteq d.table
           /\ \A i \in 2 .. n : fs[i].rows = {}
  <2>1. CASE n = 1
    BY <1>2, <1>6, <2>1
  <2>2. CASE n # 1
    <3> HIDE DEF n, f
    <3>1. n \in 2 .. n
      BY <1>1, <2>2
    <3> USE DEF n, f
    <3>2. f.rows = {}
      BY <1>6, <3>1
    <3> QED  BY <2>2, <3>2 DEF Out
  <2> QED  BY <2>1, <2>2
<1> QED  BY <1>4, <1>5, <1>6 DEF CutOff

\* On a live session an inner frame's rows go back to what its mark keeps.
LEMMA OverLevel ==
  ASSUME NEW d, Sane(d), Live(d), NEW fs \in Seq(Frames), fs # <<>>, Alike(fs), Whole(d, fs),
         Len(fs) # 1, NEW e, NEW undoes, Levelled(d, e, undoes)
  PROVE  Over(e, fs, undoes)
<1> DEFINE n == Len(fs)
           f == fs[n]
<1>0. n \in Nat \ {0} /\ n # 1
  BY FrontAt
<1> HIDE DEF n
<1>1. n \in Nat \ {0} /\ n \in 1 .. n /\ n > 1
  BY <1>0
<1> USE DEF n
<1> SUFFICES ASSUME f.plain, undoes
             PROVE  Out(f.rows, e)
  BY DEF Over
<1>2. AtWork(d, fs)
  BY <1>1, AlikePlain DEF Whole
<1>3. /\ auto_savepoint /\ e.table = d.table
      /\ Own(d).marks # <<>> => Own(e).work = Last(Own(d).marks).kept
  BY DEF Levelled, Outwards
<1>4. /\ f.rows \cap d.table = {} /\ Own(d).marks # <<>>
      /\ f.rows \cap Last(Own(d).marks).kept = {}
  BY <1>1, <1>2, <1>3, AtWorkRows
<1>5. f.rows \cap e.table = {} /\ f.rows \cap Own(e).work = {}
  BY <1>3, <1>4
<1> HIDE DEF f
<1> QED  BY <1>5 DEF Out

\* Frames that were not plain are not after Close.
LEMMA WholeOfMarred ==
  ASSUME NEW fs \in Seq(Frames), fs # <<>>, ~Plain(fs), Alike(fs), NEW gs, NEW undoes,
         Closed(fs, gs, undoes), NEW e
  PROVE  Whole(e, gs)
<1> DEFINE n == Len(fs)
<1>1. /\ n \in Nat \ {0} /\ Len(gs) = n - 1 /\ gs \in Seq(Frames)
      /\ \A i \in 1 .. n - 1 : gs[i].plain = fs[i].plain
  BY FrontAt DEF Closed, Same
<1> HIDE DEF n
<1>2. ASSUME gs # <<>>, Plain(gs)
      PROVE  FALSE
  <2>1. 1 \in 1 .. n - 1 /\ 1 \in 1 .. n
    BY <1>1, <1>2, EmptySeq, LenProperties
  <2>2. fs[1].plain
    BY <1>1, <1>2, <2>1 DEF Plain
  <2> QED  BY <2>1, <2>2, AlikePlain DEF n
<1> QED  BY <1>2 DEF Whole

\* A frame is over: what is left to show of it.
LEMMA ClosesSteady ==
  ASSUME IInv, frames # <<>>, NEW threw \in BOOLEAN, Close(threw),
         Sane(db'), Settles(db, db'), Balanced(db', frames'), Whole(db', frames'),
         Over(db', frames, Undoes(threw, frames))
  PROVE  Steady
<1> DEFINE n == Len(frames)
           f == frames[n]
           undoes == Undoes(threw, frames)
<1>1. /\ frames \in Seq(Frames) /\ Alike(frames) /\ Settled(db, units, undone)
  BY StateIs
<1>2. /\ Closed(frames, frames', undoes)
      /\ undone' = IF undoes /\ f.plain THEN undone \cup f.rows ELSE undone
      /\ units' = IF n = 1 /\ f.plain /\ ~undoes /\ f.rows # {}
                  THEN units \cup {[rows |-> f.rows, returned |-> ~threw]} ELSE units
  BY <1>1, CloseIs
<1>3. Alike(frames')
  BY <1>1, <1>2, AlikeCloses
<1>4. Settled(db', units, undone)
  BY <1>1, SettledStays
<1>5. f.plain => /\ undoes => Out(f.rows, db')
                 /\ n = 1 => f.rows \subseteq db'.table \/ Out(f.rows, db')
  BY DEF Over
<1> HIDE DEF n, f, undoes
<1>6. CASE undoes /\ f.plain
  <2>1. undone' = undone \cup f.rows /\ units' = units
    BY <1>2, <1>6
  <2>2. f.rows \cap (db'.table \cup Own(db').work) = {}
    BY <1>5, <1>6 DEF Out
  <2>3. Settled(db', units, undone \cup f.rows)
    BY <1>4, <2>2, SettledMore
  <2> QED  BY <1>3, <2>1, <2>3 DEF Steady
<1>7. CASE n = 1 /\ f.plain /\ ~undoes /\ f.rows # {}
  <2>1. undone' = undone /\ units' = units \cup {[rows |-> f.rows, returned |-> ~threw]}
    BY <1>2, <1>7
  <2>2. f.rows \subseteq db'.table \/ f.rows \cap (db'.table \cup Own(db').work) = {}
    BY <1>5, <1>7 DEF Out
  <2>3. Settled(db', units \cup {[rows |-> f.rows, returned |-> ~threw]}, undone)
    BY <1>4, <2>2, SettledMore
  <2> QED  BY <1>3, <2>1, <2>3 DEF Steady
<1>8. CASE ~(undoes /\ f.plain) /\ ~(n = 1 /\ f.plain /\ ~undoes /\ f.rows # {})
  <2>1. undone' = undone /\ units' = units
    BY <1>2, <1>8
  <2> QED  BY <1>3, <1>4, <2>1 DEF Steady
<1> QED  BY <1>6, <1>7, <1>8

\* A frame is over with a commit or a rollback.
LEMMA EndCloses ==
  ASSUME IInv, frames # <<>>, NEW threw \in BOOLEAN, Close(threw), Lowered(db, db'),
         Plain(frames) /\ Live(db) =>
           IF Len(frames) = 1 THEN Over(db', frames, Undoes(threw, frames))
           ELSE Levelled(db, db', Undoes(threw, frames))
  PROVE  Steady
<1> DEFINE undoes == Undoes(threw, frames)
<1>1. /\ Sane(db) /\ frames \in Seq(Frames) /\ Alike(frames)
      /\ Balanced(db, frames) /\ Whole(db, frames)
  BY StateIs
<1>2. Closed(frames, frames', undoes)
  BY <1>1, CloseIs
<1>3. undoes => ~frames[Len(frames)].asked
  BY DEF Undoes
<1>4. /\ Sane(db') /\ Settles(db, db')
      /\ Live(db') => \/ db'.depth = 0
                      \/ Live(db) /\ db'.gen = db.gen /\ db'.depth = db.depth - 1
      /\ db.dbh = "own" /\ ~Live(db) => StaysCut(db, db')
  BY DEF Lowered
<1> HIDE DEF undoes
<1>5. Balanced(db', frames')
  BY <1>1, <1>2, <1>4, BalancedCloses
<1>6. CASE ~Plain(frames)
  <2>1. Whole(db', frames')
    BY <1>1, <1>2, <1>6, WholeOfMarred
  <2>2. Len(frames) \in 1 .. Len(frames)
    BY <1>1, FrontAt
  <2>3. ~frames[Len(frames)].plain
    BY <1>1, <1>6, <2>2, AlikePlain
  <2>4. Over(db', frames, undoes)
    BY <2>3 DEF Over
  <2> QED  BY <1>4, <1>5, <2>1, <2>4, ClosesSteady DEF undoes
<1>7. CASE Plain(frames) /\ ~Live(db)
  <2>1. db.dbh = "own"
    BY <1>1, <1>7 DEF Whole, Opened
  <2>2. StaysCut(db, db')
    BY <1>4, <1>7, <2>1
  <2>3. Whole(db', frames')
    BY <1>1, <1>2, <1>7, <2>2, WholeClosesCut
  <2>4. Over(db', frames, undoes)
    BY <1>1, <1>3, <1>7, <2>2, OverCut
  <2> QED  BY <1>4, <1>5, <2>3, <2>4, ClosesSteady DEF undoes
<1>8. CASE Plain(frames) /\ Live(db) /\ Len(frames) = 1
  <2>1. Over(db', frames, undoes)
    BY <1>8 DEF undoes
  <2>2. frames' = <<>>
    BY <1>2, <1>8, EmptySeq DEF Closed
  <2>3. Whole(db', frames')
    BY <2>2 DEF Whole
  <2> QED  BY <1>4, <1>5, <2>1, <2>3, ClosesSteady DEF undoes
<1>9. CASE Plain(frames) /\ Live(db) /\ Len(frames) # 1
  <2>1. Levelled(db, db', undoes)
    BY <1>9 DEF undoes
  <2>2. Over(db', frames, undoes)
    BY <1>1, <1>9, <2>1, OverLevel
  <2>3. Whole(db', frames')
    BY <1>1, <1>2, <1>9, <2>1, WholeCloses DEF Levelled
  <2> QED  BY <1>4, <1>5, <2>2, <2>3, ClosesSteady DEF undoes
<1> QED  BY <1>6, <1>7, <1>8, <1>9

\* A number of frames.
LEMMA MoreThanOne ==
  ASSUME NEW n \in Nat \ {0}, n # 1
  PROVE  n > 1
OBVIOUS

\* A frame is over with a commit.
LEMMA CommitCloses ==
  ASSUME IInv, frames # <<>>, Close(FALSE), NEW answer, answer # "refused",
         db' = txn_commit(db, answer).d
  PROVE  Steady
<1> DEFINE f == frames[Len(frames)]
<1>1. /\ Sane(db) /\ frames \in Seq(Frames) /\ Whole(db, frames)
  BY StateIs
<1>2. Undoes(FALSE, frames) = FALSE
  BY DEF Undoes
<1>3. Lowered(db, db')
  BY <1>1, TxnCommitLowers
<1>4. ASSUME Plain(frames), Live(db), Len(frames) = 1
      PROVE  Over(db', frames, FALSE)
  <2>1. AtWork(db, frames)
    BY <1>1, <1>4 DEF Whole
  <2>2. db.depth = 1
    BY <1>4, <2>1 DEF AtWork
  <2>3. /\ Own(db').work = {}
        /\ db'.table = db.table \/ db'.table = db.table \cup Own(db).work
    BY <1>1, <1>4, <2>2, TxnCommitLast DEF Ended
  <2>4. f.rows \subseteq Own(db).work /\ f.rows \cap db.table = {}
    BY <1>1, <2>1, AtWorkRows
  <2>5. f.rows \subseteq db'.table \/ Out(f.rows, db')
    BY <2>3, <2>4 DEF Out
  <2> QED  BY <2>5 DEF Over
<1>5. ASSUME Plain(frames), Live(db), Len(frames) # 1
      PROVE  Levelled(db, db', FALSE)
  <2>1. AtWork(db, frames)
    BY <1>1, <1>5 DEF Whole
  <2>2. Len(frames) \in Nat \ {0}
    BY <1>1, FrontAt
  <2>3. db.depth = Len(frames)
    BY <2>1 DEF AtWork
  <2>4. db.depth > 1
    BY <1>5, <2>2, <2>3, MoreThanOne, Zenon
  <2> QED  BY <1>1, <1>5, <2>4, TxnCommitLevel DEF Levelled
<1> QED  BY <1>2, <1>3, <1>4, <1>5, EndCloses

\* A frame is over with a rollback.
LEMMA RollbackCloses ==
  ASSUME IInv, frames # <<>>, Close(TRUE), db' = txn_rollback(db).d
  PROVE  Steady
<1> DEFINE f == frames[Len(frames)]
           undoes == Undoes(TRUE, frames)
<1>1. /\ Sane(db) /\ frames \in Seq(Frames) /\ Whole(db, frames)
  BY StateIs
<1>2. undoes <=> (auto_savepoint \/ Len(frames) = 1) /\ ~f.asked
  BY DEF Undoes
<1>3. Lowered(db, db')
  BY <1>1, TxnRollbackLowers
<1>4. ASSUME Plain(frames), Live(db), Len(frames) = 1
      PROVE  Over(db', frames, undoes)
  <2>1. AtWork(db, frames)
    BY <1>1, <1>4 DEF Whole
  <2>2. db.depth = 1
    BY <1>4, <2>1 DEF AtWork
  <2>3. Own(db').work = {} /\ db'.table = db.table
    BY <1>1, <1>4, <2>2, TxnRollbackLast DEF Ended
  <2>4. f.rows \cap db.table = {}
    BY <1>1, <2>1, AtWorkRows
  <2>5. Out(f.rows, db')
    BY <2>3, <2>4 DEF Out
  <2> QED  BY <2>5 DEF Over
<1>5. ASSUME Plain(frames), Live(db), Len(frames) # 1
      PROVE  Levelled(db, db', undoes)
  <2>1. AtWork(db, frames)
    BY <1>1, <1>5 DEF Whole
  <2>2. Len(frames) \in Nat \ {0}
    BY <1>1, FrontAt
  <2>3. db.depth = Len(frames)
    BY <2>1 DEF AtWork
  <2>4. db.depth > 1
    BY <1>5, <2>2, <2>3, MoreThanOne, Zenon
  <2>5. ~f.asked
    BY <1>1, <2>1, AtWorkRows
  <2>6. undoes <=> auto_savepoint
    BY <1>2, <1>5, <2>5
  <2> HIDE DEF undoes
  <2> QED  BY <1>1, <1>5, <2>4, <2>6, TxnRollbackLevel DEF Levelled
<1> QED  BY <1>3, <1>4, <1>5, EndCloses

\* A frame that had no level is over: nothing is sent.
LEMMA UncountedCloses ==
  ASSUME IInv, frames # <<>>, NEW threw \in BOOLEAN, Close(threw), db' = db,
         IF frames[Len(frames)].kind = "txn_do" THEN db.depth # frames[Len(frames)].init + 1
         ELSE frames[Len(frames)].gen # db.gen
  PROVE  Steady
<1> DEFINE undoes == Undoes(threw, frames)
           f == frames[Len(frames)]
<1>1. /\ Sane(db) /\ frames \in Seq(Frames) /\ Alike(frames)
      /\ Balanced(db, frames) /\ Whole(db, frames)
  BY StateIs
<1>2. Closed(frames, frames', undoes)
  BY <1>1, CloseIs
<1>3. undoes => ~f.asked
  BY DEF Undoes
<1>4. Len(frames) \in 1 .. Len(frames)
  BY <1>1, FrontAt
<1>5. f \in Frames
  BY <1>1, FrontAt
<1>6. f.kind # "txn_do" => f.kind = "guard"
  BY <1>5, FrameFields
<1> HIDE DEF undoes
<1>7. Balanced(db', frames')
  BY <1>1, <1>2, BalancedCloses
<1>8. Settles(db, db')
  BY DEF Settles
<1>9. CASE ~Plain(frames)
  <2>1. Whole(db', frames')
    BY <1>1, <1>2, <1>9, WholeOfMarred
  <2>2. ~f.plain
    BY <1>1, <1>4, <1>9, AlikePlain
  <2>3. Over(db', frames, undoes)
    BY <2>2 DEF Over
  <2> QED  BY <1>1, <1>7, <1>8, <2>1, <2>3, ClosesSteady DEF undoes
<1>10. CASE Plain(frames) /\ ~Live(db)
  <2>1. db.dbh = "own"
    BY <1>1, <1>10 DEF Whole, Opened
  <2>2. StaysCut(db, db')
    BY <1>1, <1>10, <2>1, CutIsCut
  <2>3. Whole(db', frames')
    BY <1>1, <1>2, <1>10, <2>2, WholeClosesCut
  <2>4. Over(db', frames, undoes)
    BY <1>1, <1>3, <1>10, <2>2, OverCut
  <2> QED  BY <1>1, <1>7, <1>8, <2>3, <2>4, ClosesSteady DEF undoes
<1>11. CASE Plain(frames) /\ Live(db)
  <2>1. AtWork(db, frames) /\ Opened(db, frames)
    BY <1>1, <1>11 DEF Whole
  <2>2. f.kind = "txn_do" => db.depth = f.init + 1
    BY <1>1, <2>1, AtWorkRows
  <2>3. f.kind = "guard" => f.gen = db.gen
    BY <1>4, <2>1 DEF Opened
  <2> QED  BY <1>6, <2>2, <2>3
<1> QED  BY <1>9, <1>10, <1>11

\* The innermost frame.
LEMMA Innermost ==
  ASSUME IInv, frames # <<>>
  PROVE  /\ Last(frames) = frames[Len(frames)] /\ Last(frames) \in Frames
         /\ Len(frames) \in 1 .. Len(frames)
<1>1. frames \in Seq(Frames)
  BY StateIs
<1>2. Len(frames) \in Nat \ {0} /\ Last(frames) = frames[Len(frames)] /\ Last(frames) \in Frames
  BY <1>1, FrontAt, Zenon
<1>3. \A k \in Nat \ {0} : k \in 1 .. k
  OBVIOUS
<1> QED  BY <1>2, <1>3, Zenon

\* The code of a txn_do is through.
LEMMA TxnDoReturnSteady ==
  ASSUME IInv, NEW answer, answer # "refused", TxnDoReturn(answer)
  PROVE  Steady
<1>1. /\ frames # <<>> /\ Last(frames).kind = "txn_do" /\ Close(FALSE)
      /\ db' = IF db.depth = Last(frames).init + 1 THEN txn_commit(db, answer).d ELSE db
  BY DEF TxnDoReturn, Block, Inner
<1>2. Last(frames) = frames[Len(frames)]
  BY <1>1, Innermost
<1>3. CASE db.depth = Last(frames).init + 1
  BY <1>1, <1>3, CommitCloses
<1>4. CASE db.depth # Last(frames).init + 1
  BY <1>1, <1>2, <1>4, UncountedCloses
<1> QED  BY <1>3, <1>4

\* A guard goes out of scope.
LEMMA GuardDestroySteady ==
  ASSUME IInv, GuardDestroy
  PROVE  Steady
<1> DEFINE v == verify_pid(db)
<1>1. /\ frames # <<>> /\ Last(frames).kind = "guard" /\ Close(TRUE)
      /\ db' = IF v.dbh # "none" /\ v.gen = Last(frames).gen THEN txn_rollback(v).d ELSE v
  BY DEF GuardDestroy, Guard, Inner
<1>2. Last(frames) = frames[Len(frames)]
  BY <1>1, Innermost
<1>3. Sane(db)
  BY StateIs
<1>4. CASE db.dbh # "own"
  <2>1. v.dbh = "none" /\ Lowered(db, v)
    BY <1>3, <1>4, UnusableLowers
  <2>2. ~Live(db)
    BY <1>4 DEF Live
  <2>3. db' = v
    BY <1>1, <2>1
  <2> QED  BY <1>1, <2>1, <2>2, <2>3, EndCloses
<1>5. CASE db.dbh = "own"
  <2>1. v = db
    BY <1>3, <1>5, Verified
  <2>2. CASE db.gen = Last(frames).gen
    BY <1>1, <1>5, <2>1, <2>2, RollbackCloses
  <2>3. CASE db.gen # Last(frames).gen
    BY <1>1, <1>2, <1>5, <2>1, <2>3, UncountedCloses
  <2> QED  BY <2>2, <2>3
<1> QED  BY <1>4, <1>5

\* The frame of a second attempt.
LEMMA RetriedIs ==
  ASSUME NEW f \in Frames
  PROVE  LET g == [f EXCEPT !.retried = TRUE, !.rows = {}]
         IN  g \in Frames /\ Same(f, g) /\ g.rows = {} /\ g.asked = f.asked
BY FrameRetried DEF Frames, Same

\* A txn_do runs its code again, on a new handle: only an outermost one does.
LEMMA AgainSteady ==
  ASSUME IInv, frames # <<>>, Last(frames).kind = "txn_do", Last(frames).init = 0, ~Live(db),
         Begins(db, db'),
         frames' = Append(Front(frames), [Last(frames) EXCEPT !.retried = TRUE, !.rows = {}]),
         undone' = IF Last(frames).plain THEN undone \cup Last(frames).rows ELSE undone,
         units' = units
  PROVE  Steady
<1> DEFINE n == Len(frames)
           f == Last(frames)
           g == [f EXCEPT !.retried = TRUE, !.rows = {}]
<1>1. /\ Sane(db) /\ frames \in Seq(Frames) /\ Alike(frames) /\ Whole(db, frames)
      /\ Settled(db, units, undone)
  BY StateIs
<1>2. f = frames[n] /\ f \in Frames /\ n \in 1 .. n
  BY Innermost
<1>3. g \in Frames /\ Same(f, g) /\ g.rows = {} /\ g.asked = f.asked
  BY <1>2, RetriedIs
<1>4. frames' = Append(Front(frames), g)
  OBVIOUS
<1>5. undone' = IF f.plain THEN undone \cup f.rows ELSE undone
  OBVIOUS
<1>6. f.kind = "txn_do" /\ f.init = 0
  OBVIOUS
<1>7. /\ Front(frames) \in Seq(Frames) /\ n \in Nat \ {0} /\ Len(Front(frames)) = n - 1
      /\ \A i \in 1 .. n - 1 : Front(frames)[i] = frames[i]
  BY <1>1, FrontAt
<1> HIDE DEF g, f
<1>8. /\ frames' \in Seq(Frames) /\ Len(frames') = n /\ frames'[n] = g
      /\ \A i \in 1 .. n - 1 : frames'[i] = frames[i]
  BY <1>1, <1>3, <1>4, LastReplaced
<1> HIDE DEF n
<1>9. Extended(Front(frames), frames', g)
  <2>1. n - 1 + 1 = n
    BY <1>7
  <2> QED  BY <1>7, <1>8, <2>1 DEF Extended
<1>10. Sane(db') /\ Live(db') /\ db'.depth = 1 /\ db'.table = db.table /\ Own(db').work = {}
  BY DEF Begins
<1>11. g.kind = "txn_do" /\ g.init = 0 /\ g.plain = f.plain /\ g.gen = f.gen
  BY <1>3, <1>6 DEF Same
<1>12. Balanced(db', frames')
  <2>1. IF g.kind = "txn_do" THEN db'.depth = g.init + 1 ELSE g.gen = db'.gen
    BY <1>10, <1>11
  <2> QED  BY <1>1, <1>3, <1>7, <1>9, <1>10, <2>1, BalancedOpens
<1>13. \A i \in 1 .. n : i = n \/ i \in 1 .. n - 1
  BY <1>7
<1>14. \A i \in 1 .. n : /\ frames'[i].kind = frames[i].kind /\ frames'[i].plain = frames[i].plain
                         /\ frames'[i].asked = frames[i].asked
  BY <1>2, <1>3, <1>6, <1>8, <1>11, <1>13
<1>15. Alike(frames')
  BY <1>1, <1>8, <1>14 DEF Alike, n
<1>16. ~f.asked
  BY <1>1, <1>2, <1>6 DEF Alike, n
<1>17. ASSUME f.plain
       PROVE  n = 1 /\ f.rows \cap db.table = {}
  <2>1. Plain(frames)
    BY <1>1, <1>2, <1>17, AlikePlain DEF n
  <2>2. Opened(db, frames) /\ CutOff(db, frames)
    BY <1>1, <2>1 DEF Whole
  <2>3. \A i \in 1 .. n : frames[i].kind = "txn_do" /\ i > 1 => frames[i].init > 0
    BY <2>2 DEF Opened, n
  <2>4. ~(n > 1)
    BY <1>2, <1>6, <2>3
  <2>5. n = 1
    BY <1>7, <2>4
  <2>6. ~frames[1].asked
    BY <1>2, <1>16, <2>5
  <2>7. frames[n].rows \cap db.table = {}
    BY <1>2, <2>2, <2>6 DEF CutOff, n
  <2> QED  BY <1>2, <2>5, <2>7
<1>18. Whole(db', frames')
  <2>1. ASSUME Plain(frames')
        PROVE  Whole(db', frames')
    <3>1. f.plain
      BY <1>2, <1>8, <1>11, <2>1 DEF Plain
    <3>2. n = 1
      BY <1>17, <3>1
    <3>3. /\ Len(frames') = 1 /\ frames'[1].rows = {} /\ ~frames'[1].asked
          /\ frames'[1].kind = "txn_do" /\ frames'[1].init = 0
      BY <1>3, <1>8, <1>11, <1>16, <3>2
    <3> QED  BY <1>8, <3>3, WholeBegins
  <2> QED  BY <2>1 DEF Whole
<1>19. Settles(db, db')
  BY <1>10 DEF Settles
<1>20. Settled(db', units, undone)
  BY <1>1, <1>19, SettledStays
<1>21. Settled(db', units', undone')
  <2>1. CASE f.plain
    <3>1. f.rows \cap (db'.table \cup Own(db').work) = {}
      BY <1>10, <1>17, <2>1
    <3>2. Settled(db', units, undone \cup f.rows)
      BY <1>20, <3>1, SettledMore
    <3> QED  BY <1>5, <2>1, <3>2
  <2>2. CASE ~f.plain
    BY <1>5, <1>20, <2>2
  <2> QED  BY <2>1, <2>2
<1> QED  BY <1>10, <1>12, <1>15, <1>18, <1>21 DEF Steady

\* An exception reaches a txn_do.
LEMMA TxnDoCatchSteady ==
  ASSUME IInv, TxnDoCatch
  PROVE  Steady
<1> DEFINE f == Last(frames)
           c == Caught(db, f)
<1>1. /\ frames # <<>> /\ f.kind = "txn_do" /\ db' = c.d
      /\ \/ /\ c.again
            /\ frames' = Append(Front(frames), [f EXCEPT !.retried = TRUE, !.rows = {}])
            /\ undone' = IF f.plain THEN undone \cup f.rows ELSE undone
            /\ UNCHANGED units
         \/ ~c.again /\ Close(TRUE)
  BY DEF TxnDoCatch, Block, Inner
<1>2. Sane(db) /\ f.init \in Nat
  BY <1>1, StateIs, Innermost, FrameFields
<1>3. /\ c.again => f.init = 0 /\ ~Live(db) /\ Begins(db, c.d)
      /\ ~c.again => c.d = txn_rollback(db).d
  BY <1>2, CaughtIs
<1> HIDE DEF c
<1>4. CASE c.again
  BY <1>1, <1>3, <1>4, AgainSteady
<1>5. CASE ~c.again
  BY <1>1, <1>3, <1>5, RollbackCloses
<1> QED  BY <1>4, <1>5

\* A guard's commit fails: it stays open, and has been asked.
LEMMA AskedSteady ==
  ASSUME IInv, frames # <<>>, Last(frames).kind = "guard",
         NEW answer, answer # "refused", db' = txn_commit(db, answer).d, ~txn_commit(db, answer).ok,
         frames' = Append(Front(frames), [Last(frames) EXCEPT !.asked = TRUE]),
         undone' = undone, units' = units
  PROVE  Steady
<1> DEFINE n == Len(frames)
           f == Last(frames)
           g == [f EXCEPT !.asked = TRUE]
<1>1. /\ Sane(db) /\ frames \in Seq(Frames) /\ Alike(frames) /\ Whole(db, frames)
      /\ Balanced(db, frames) /\ Settled(db, units, undone) /\ auto_savepoint \in BOOLEAN
  BY StateIs
<1>2. f = frames[n] /\ f \in Frames /\ n \in 1 .. n
  BY Innermost
<1>3. g \in Frames /\ Same(f, g) /\ g.rows = f.rows /\ g.asked = TRUE
  BY <1>2, FrameSet
<1>4. n \in Nat \ {0}
  BY <1>1, FrontAt
<1>5. f.kind = "guard" /\ frames' = Append(Front(frames), g)
  OBVIOUS
<1> HIDE DEF f, g
<1>6. /\ frames' \in Seq(Frames) /\ Len(frames') = n /\ frames'[n] = g
      /\ \A i \in 1 .. n - 1 : frames'[i] = frames[i]
  BY <1>1, <1>3, <1>5, LastReplaced
<1> HIDE DEF n
<1>7. \A i \in 1 .. n : i = n \/ i \in 1 .. n - 1
  BY <1>4
<1>8. \A i \in 1 .. n : /\ Same(frames[i], frames'[i]) /\ frames'[i].rows = frames[i].rows
                        /\ frames[i].asked => frames'[i].asked
                        /\ frames'[i].asked => frames'[i].kind = "guard"
  <2>1. \A i \in 1 .. n : frames[i].asked => frames[i].kind = "guard"
    BY <1>1 DEF Alike, n
  <2> QED  BY <1>2, <1>3, <1>5, <1>6, <1>7, <2>1 DEF Same
<1>9. \A i \in 1 .. n : /\ frames'[i].kind = frames[i].kind /\ frames'[i].init = frames[i].init
                        /\ frames'[i].gen = frames[i].gen /\ frames'[i].plain = frames[i].plain
  BY <1>8 DEF Same
<1>10. Alike(frames')
  <2>1. \A i, j \in 1 .. n : frames[i].plain = frames[j].plain
    BY <1>1 DEF Alike, n
  <2> QED  BY <1>6, <1>8, <1>9, <2>1 DEF Alike
<1>11. Lowered(db, db')
  BY <1>1, TxnCommitLowers
<1>12. Balanced(db', frames')
  <2>1. /\ Sane(db')
        /\ Live(db') => db'.depth = 0 \/ (Live(db) /\ db'.gen = db.gen /\ db'.depth <= db.depth)
    BY <1>1, <1>11, LoweredCalms DEF Calmed
  <2>2. /\ Len(frames') = Len(frames)
        /\ \A i \in 1 .. Len(frames) :
             frames'[i].kind = frames[i].kind /\ frames'[i].init = frames[i].init /\ frames'[i].gen = frames[i].gen
    BY <1>6, <1>9 DEF n
  <2> QED  BY <1>1, <2>1, <2>2, BalancedStays, Zenon
<1>13. Settled(db', units', undone')
  BY <1>1, <1>11, SettledStays DEF Lowered
<1>14. Kindred(frames, frames')
  BY <1>6, <1>8 DEF Kindred, n
<1>15. \A i \in 1 .. Len(frames) : frames'[i].rows = frames[i].rows /\ (frames[i].asked => frames'[i].asked)
  BY <1>8 DEF n
<1>16. ASSUME Plain(frames')
       PROVE  Whole(db', frames')
  <2>1. Plain(frames)
    BY <1>6, <1>9, <1>16 DEF Plain, n
  <2>2. db.dbh = "own"
    BY <1>1, <2>1 DEF Whole, Opened
  <2>3. CASE ~Live(db)
    <3>1. StaysCut(db, db')
      BY <1>11, <2>2, <2>3 DEF Lowered
    <3> QED  BY <1>1, <1>14, <1>15, <2>3, <3>1, WholeStaysCut
  <2>4. CASE Live(db) /\ n = 1
    <3>1. AtWork(db, frames)
      BY <1>1, <2>1, <2>4 DEF Whole
    <3>2. db.depth = 1
      BY <2>4, <3>1 DEF AtWork, n
    <3>3. /\ Ended(db, db') /\ ~Live(db')
          /\ db'.table = db.table \/ db'.table = db.table \cup Own(db).work
      BY <1>1, <2>4, <3>2, TxnCommitLast
    <3>4. db'.dbh = db.dbh /\ db'.gen = db.gen /\ db'.depth > 0
      BY <3>3 DEF Ended, SameHandle
    <3>5. Len(frames) = 1 /\ frames'[1].asked
      BY <1>3, <1>6, <2>4 DEF n
    <3>6. /\ db.depth > 0 => db'.depth > 0
          /\ \A i \in 1 .. Len(frames) : frames'[i].rows = frames[i].rows
      BY <1>15, <3>4
    <3>7. \/ db'.table = db.table
          \/ db'.table = db.table \cup Own(db).work /\ Len(frames) = 1 /\ frames'[1].asked
      BY <3>3, <3>5
    <3> QED  BY <1>1, <1>14, <2>4, <3>3, <3>4, <3>6, <3>7, WholeLoses, ZenonT(60)
  <2>5. CASE Live(db) /\ n # 1
    <3>1. AtWork(db, frames)
      BY <1>1, <2>1, <2>5 DEF Whole
    <3>2. n > 1
      BY <1>4, <2>5
    <3>3. db.depth > 1
      BY <3>1, <3>2 DEF AtWork, n
    <3>4. auto_savepoint => Own(db).marks # <<>>
      BY <1>1, <3>1, <3>2, AtWorkRows DEF n
    <3>5. txn_commit(db, answer).ok = TRUE
      BY <1>1, <2>5, <3>3, <3>4, TxnCommitLevel
    <3> QED  BY <3>5
  <2> QED  BY <2>3, <2>4, <2>5
<1>17. Whole(db', frames')
  BY <1>16 DEF Whole
<1> QED  BY <1>10, <1>11, <1>12, <1>13, <1>17 DEF Steady, Lowered

\* A guard is asked to commit.
LEMMA GuardCommitSteady ==
  ASSUME IInv, NEW answer, answer # "refused", GuardCommit(answer)
  PROVE  Steady
<1>1. /\ frames # <<>> /\ Last(frames).kind = "guard" /\ db' = txn_commit(db, answer).d
      /\ \/ txn_commit(db, answer).ok /\ Close(FALSE)
         \/ /\ ~txn_commit(db, answer).ok
            /\ frames' = Append(Front(frames), [Last(frames) EXCEPT !.asked = TRUE])
            /\ undone' = undone /\ units' = units
  BY DEF GuardCommit, Guard, Inner
<1>2. CASE Close(FALSE)
  BY <1>1, <1>2, CommitCloses
<1>3. CASE /\ ~txn_commit(db, answer).ok
           /\ frames' = Append(Front(frames), [Last(frames) EXCEPT !.asked = TRUE])
           /\ undone' = undone /\ units' = units
  BY <1>1, <1>3, AskedSteady
<1> QED  BY <1>1, <1>2, <1>3

\* A new frame's fields.
LEMMA NewFrameIs ==
  ASSUME IInv, NEW kind \in {"txn_do", "guard"}, NEW init \in Nat, NEW gen \in Nat
  PROVE  LET g == NewFrame(kind, init, gen)
         IN  /\ g \in Frames /\ g.kind = kind /\ g.init = init /\ g.gen = gen /\ g.rows = {}
             /\ g.asked = FALSE /\ g.retried = FALSE /\ (g.plain <=> Plain(frames))
<1>1. DOMAIN frames = 1 .. Len(frames)
  BY StateIs
<1>2. (\A i \in DOMAIN frames : frames[i].plain) <=> Plain(frames)
  BY <1>1 DEF Plain
<1> QED  BY <1>2, NewFrameType DEF NewFrame

\* The frame of a guard.
LEMMA NewGuardIs ==
  ASSUME IInv, NEW k \in Nat, NEW f, f = NewFrame("guard", 0, k)
  PROVE  /\ f \in Frames /\ f.kind = "guard" /\ f.gen = k /\ f.rows = {}
         /\ f.asked = FALSE /\ (f.plain <=> Plain(frames))
<1>1. f \in Frames
  BY NewFrameIs
<1>2. f.plain <=> Plain(frames)
  BY NewFrameIs
<1>3. f.kind = "guard" /\ f.gen = k /\ f.rows = {} /\ f.asked = FALSE
  BY DEF NewFrame
<1> QED  BY <1>1, <1>2, <1>3

\* Frames with one more that is as plain as they are.
LEMMA AlikeOpens ==
  ASSUME NEW fs \in Seq(Frames), Alike(fs), NEW g \in Frames, g.plain <=> Plain(fs), ~g.asked,
         NEW gs, Extended(fs, gs, g)
  PROVE  Alike(gs)
<1> DEFINE n == Len(fs)
<1>1. n \in Nat
  BY LenProperties
<1>2. /\ Len(gs) = n + 1 /\ gs[n + 1] = g
      /\ \A i \in 1 .. n : gs[i] = fs[i]
  BY DEF Extended
<1>3. \A i \in 1 .. n : fs[i].plain <=> g.plain
  BY AlikePlain DEF Plain
<1>4. \A i \in 1 .. n : fs[i] \in Frames
  BY ElementOfSeq
<1>5. \A i \in 1 .. n : fs[i].plain = g.plain
  BY <1>3, <1>4, FrameFields
<1>6. \A i \in 1 .. n : fs[i].asked => fs[i].kind = "guard"
  BY DEF Alike
<1> HIDE DEF n
<1>7. \A i \in 1 .. n + 1 : i \in 1 .. n \/ i = n + 1
  BY <1>1
<1>8. \A i \in 1 .. n + 1 : gs[i].plain = g.plain /\ (gs[i].asked => gs[i].kind = "guard")
  BY <1>2, <1>5, <1>6, <1>7
<1> QED  BY <1>2, <1>8 DEF Alike

\* A frame is opened on a new transaction, within another level or without the session.
Opens(g) ==
  \/ /\ Begins(db, db') /\ (frames # <<>> => ~Plain(frames))
     /\ IF g.kind = "txn_do" THEN g.init = 0 ELSE g.gen = db'.gen
  \/ /\ Live(db)
     /\ \E inBlock \in BOOLEAN : db' = txn_begin(db, inBlock).d
     /\ IF g.kind = "txn_do" THEN g.init = db.depth ELSE g.gen = db'.gen
  \/ /\ db.dbh = "own" /\ ~Live(db) /\ db.depth > 0 /\ StaysCut(db, db')
     /\ IF g.kind = "txn_do" THEN g.init = db.depth ELSE g.gen = db'.gen

\* What is left to show of a frame that is opened.
LEMMA OpenedSteady ==
  ASSUME IInv, NEW g \in Frames, g.plain <=> Plain(frames), ~g.asked, g.rows = {},
         frames' = Append(frames, g), undone' = undone, units' = units,
         Sane(db'), Settles(db, db'),
         Live(db') => /\ \/ db'.depth = 1
                         \/ Live(db) /\ db'.gen = db.gen /\ db'.depth = db.depth + 1
                      /\ IF g.kind = "txn_do" THEN db'.depth = g.init + 1 ELSE g.gen = db'.gen,
         Extended(frames, frames', g) => Whole(db', frames')
  PROVE  Steady
<1>1. /\ Sane(db) /\ frames \in Seq(Frames) /\ Alike(frames) /\ Balanced(db, frames)
      /\ Settled(db, units, undone)
  BY StateIs
<1>2. Extended(frames, frames', g)
  BY <1>1, AppendAt DEF Extended
<1>3. Alike(frames')
  BY <1>1, <1>2, AlikeOpens
<1>4. Live(db') => /\ \/ db'.depth = 1
                      \/ /\ Balanced(db, frames)
                         /\ Live(db) /\ db'.gen = db.gen /\ db'.depth = db.depth + 1
                   /\ IF g.kind = "txn_do" THEN db'.depth = g.init + 1 ELSE g.gen = db'.gen
  BY <1>1
<1>5. Balanced(db', frames')
  BY <1>1, <1>2, <1>4, BalancedOpens, Zenon
<1>6. Settled(db', units', undone')
  BY <1>1, SettledStays
<1> QED  BY <1>2, <1>3, <1>5, <1>6 DEF Steady

\* On a new transaction.
LEMMA OpensOnNew ==
  ASSUME IInv, NEW g \in Frames, g.plain <=> Plain(frames), ~g.asked, g.rows = {},
         frames' = Append(frames, g), undone' = undone, units' = units,
         Begins(db, db'), frames # <<>> => ~Plain(frames),
         IF g.kind = "txn_do" THEN g.init = 0 ELSE g.gen = db'.gen
  PROVE  Steady
<1>1. frames \in Seq(Frames) /\ Len(frames) \in Nat
  BY StateIs
<1>2. Sane(db') /\ Live(db') /\ db'.depth = 1 /\ db'.table = db.table /\ Own(db').work = {}
  BY DEF Begins
<1>3. Settles(db, db')
  BY <1>2 DEF Settles
<1>4. IF g.kind = "txn_do" THEN db'.depth = g.init + 1 ELSE g.gen = db'.gen
  BY <1>2
<1>5. ASSUME Extended(frames, frames', g)
      PROVE  Whole(db', frames')
  <2>1. CASE frames = <<>>
    <3>1. Len(frames) = 0
      BY <2>1
    <3>2. frames' \in Seq(Frames) /\ Len(frames') = 1 /\ frames'[1] = g
      BY <1>5, <3>1 DEF Extended
    <3> QED  BY <3>2, WholeBegins
  <2>2. CASE frames # <<>>
    <3>1. ~Plain(frames)
      BY <2>2
    <3>2. Len(frames) + 1 \in 1 .. Len(frames) + 1
      BY <1>1
    <3>3. ~Plain(frames')
      BY <1>5, <3>1, <3>2 DEF Plain, Extended
    <3> QED  BY <3>3 DEF Whole
  <2> QED  BY <2>1, <2>2
<1> QED  BY <1>2, <1>3, <1>4, <1>5, OpenedSteady

\* Without a frame there is no depth on a live session.
LEMMA NoFrameNoDepth ==
  ASSUME NEW d, Sane(d), Live(d), NEW fs, fs = <<>>, Balanced(d, fs)
  PROVE  d.depth = 0 /\ Own(d).work = {} /\ Own(d).marks = <<>>
<1>1. Len(fs) = 0 /\ d.depth \in Nat
  BY SaneLive
<1>2. PICK L \in [0 .. Len(fs) -> Nat] : Levels(L, d, fs)
  BY DEF Balanced
<1>3. d.depth <= 0
  BY <1>1, <1>2 DEF Levels
<1>4. d.depth = 0 /\ (d.depth > 0) = FALSE
  BY <1>1, <1>3
<1>5. InTxn(d)
  BY SaneLive
<1> QED  BY <1>4, <1>5, Zenon DEF InTxn

\* Within another level, or on an own session that is not in a transaction.
LEMMA OpensLive ==
  ASSUME IInv, NEW g \in Frames, g.plain <=> Plain(frames), ~g.asked, g.rows = {},
         frames' = Append(frames, g), undone' = undone, units' = units,
         Live(db), NEW inBlock, db' = txn_begin(db, inBlock).d,
         IF g.kind = "txn_do" THEN g.init = db.depth ELSE g.gen = db'.gen
  PROVE  Steady
<1>1. /\ Sane(db) /\ frames \in Seq(Frames) /\ Balanced(db, frames) /\ Whole(db, frames)
      /\ db.depth \in Nat
  BY StateIs, FieldTypes
<1>2. /\ Sane(db') /\ db'.gen = db.gen /\ Live(db') /\ db'.depth = db.depth + 1
      /\ db'.table = db.table /\ Own(db').work = Own(db).work
      /\ db.depth = 0 => Own(db').marks = Own(db).marks
  BY <1>1, TxnBeginLive, ZenonT(60) DEF Goes, SameHandle
<1>3. Settles(db, db')
  BY <1>2 DEF Settles
<1>4. CASE frames = <<>>
  <2>1. db.depth = 0 /\ Own(db).work = {} /\ Own(db).marks = <<>>
    BY <1>1, <1>4, NoFrameNoDepth
  <2>2. Begins(db, db')
    BY <1>2, <2>1 DEF Begins
  <2> QED  BY <1>4, <2>1, <2>2, OpensOnNew
<1>5. CASE frames # <<>>
  <2>1. Extended(frames, frames', g) => Whole(db', frames')
    BY <1>1, <1>5, WholeOpens
  <2>2. IF g.kind = "txn_do" THEN db'.depth = g.init + 1 ELSE g.gen = db'.gen
    BY <1>2
  <2> QED  BY <1>2, <1>3, <2>1, <2>2, OpenedSteady
<1> QED  BY <1>4, <1>5

\* A frame is opened.
LEMMA OpensSteady ==
  ASSUME IInv, NEW g \in Frames, g.plain <=> Plain(frames), ~g.asked, g.rows = {},
         frames' = Append(frames, g), undone' = undone, units' = units, Opens(g)
  PROVE  Steady
<1>1. /\ Sane(db) /\ frames \in Seq(Frames) /\ Whole(db, frames)
  BY StateIs
<1>2. CASE /\ Begins(db, db') /\ (frames # <<>> => ~Plain(frames))
           /\ IF g.kind = "txn_do" THEN g.init = 0 ELSE g.gen = db'.gen
  BY <1>2, OpensOnNew
<1>3. CASE /\ Live(db)
           /\ \E inBlock \in BOOLEAN : db' = txn_begin(db, inBlock).d
           /\ IF g.kind = "txn_do" THEN g.init = db.depth ELSE g.gen = db'.gen
  BY <1>3, OpensLive
<1>4. CASE /\ db.dbh = "own" /\ ~Live(db) /\ db.depth > 0 /\ StaysCut(db, db')
           /\ IF g.kind = "txn_do" THEN g.init = db.depth ELSE g.gen = db'.gen
  <2>1. Sane(db') /\ ~Live(db') /\ db'.table = db.table
    BY <1>4 DEF StaysCut, SameHandle
  <2>2. Settles(db, db')
    BY <1>1, <2>1, CutSettles
  <2>3. Extended(frames, frames', g) => Whole(db', frames')
    BY <1>1, <1>4, WholeOpensCut
  <2> QED  BY <2>1, <2>2, <2>3, OpenedSteady
<1> QED  BY <1>2, <1>3, <1>4 DEF Opens

\* Without the session a method fails and the frames stay.
LEMMA CutSteady ==
  ASSUME IInv, db.dbh = "own", ~Live(db), StaysCut(db, db'), frames' = frames,
         undone' = undone, units' = units
  PROVE  Steady
<1>1. /\ Sane(db) /\ frames \in Seq(Frames) /\ Alike(frames) /\ Whole(db, frames)
      /\ Settled(db, units, undone)
  BY StateIs
<1>2. Sane(db') /\ ~Live(db') /\ db'.table = db.table
  BY DEF StaysCut, SameHandle
<1>3. Balanced(db', frames')
  BY <1>2 DEF Balanced
<1>4. Settled(db', units', undone')
  BY <1>1, <1>2, CutSettles, SettledStays
<1>5. Kindred(frames, frames')
  BY <1>1 DEF Kindred, Same
<1>6. Whole(db', frames')
  BY <1>1, <1>5, WholeStaysCut
<1> QED  BY <1>1, <1>2, <1>3, <1>4, <1>6 DEF Steady

\* Plain frames are open on a handle of the storage's own, and in a transaction.
LEMMA PlainIsOwn ==
  ASSUME IInv, frames # <<>>, db.dbh # "own" \/ db.depth = 0
  PROVE  ~Plain(frames)
<1>1. Whole(db, frames) /\ db.depth \in Nat
  BY StateIs, FieldTypes
<1>2. ASSUME Plain(frames)
      PROVE  FALSE
  <2>1. db.dbh = "own" /\ db.depth > 0
    BY <1>1, <1>2 DEF Whole, Opened
  <2> QED  BY <1>1, <2>1
<1> QED  BY <1>2

\* A frame that is run for the second time.
LEMMA RetriedOnly ==
  ASSUME NEW f \in Frames
  PROVE  LET g == [f EXCEPT !.retried = TRUE]
         IN  g \in Frames /\ Same(f, g) /\ g.rows = f.rows /\ g.asked = f.asked
BY FrameWith DEF Frames, Same

\* txn_do begins where its session is lost: it is opened on the levels there are, or on a
\* new handle, or it throws.
LEMMA TxnDoCut ==
  ASSUME IInv, TxnDo, db.dbh = "own", ~Live(db)
  PROVE  Steady
<1> DEFINE f == NewFrame("txn_do", db.depth, db.gen)
           r == txn_begin(db, TRUE)
           c == Caught(r.d, f)
<1>1. Sane(db) /\ db.depth \in Nat /\ db.gen \in Nat
  BY StateIs, FieldTypes
<1>2. get_dbh(db) = db
  BY <1>1, GetDbhFresh
<1>3. /\ db' = IF r.ok THEN r.d ELSE c.d
      /\ frames' = IF r.ok THEN Append(frames, f)
                   ELSE IF c.again THEN Append(frames, [f EXCEPT !.retried = TRUE])
                   ELSE frames
      /\ undone' = undone /\ units' = units
  BY <1>2 DEF TxnDo
<1>4. /\ f \in Frames /\ f.kind = "txn_do" /\ f.init = db.depth /\ f.gen = db.gen /\ f.rows = {}
      /\ f.asked = FALSE /\ f.retried = FALSE /\ (f.plain <=> Plain(frames))
  BY <1>1, NewFrameIs
<1> HIDE DEF f
<1>5. \/ r.ok = TRUE /\ StaysCut(db, r.d) /\ db.depth > 0
      \/ r.ok = FALSE /\ StaysCut(db, r.d) /\ r.d.depth = db.depth
  BY <1>1, TxnBeginCut
<1> HIDE DEF r
<1>6. CASE r.ok = TRUE /\ StaysCut(db, r.d) /\ db.depth > 0
  <2>1. StaysCut(db, db') /\ frames' = Append(frames, f)
    BY <1>3, <1>6
  <2>2. Opens(f)
    BY <1>4, <1>6, <2>1 DEF Opens
  <2> QED  BY <1>3, <1>4, <2>1, <2>2, OpensSteady
<1>7. CASE r.ok = FALSE /\ StaysCut(db, r.d) /\ r.d.depth = db.depth
  <2>1. Sane(r.d) /\ r.d.dbh = "own" /\ ~Live(r.d) /\ r.d.table = db.table
    BY <1>7 DEF StaysCut, SameHandle
  <2>2. /\ c.again => f.init = 0 /\ Begins(r.d, c.d)
        /\ ~c.again => c.d = txn_rollback(r.d).d
    BY <1>1, <1>4, <2>1, CaughtIs
  <2> HIDE DEF c
  <2>3. CASE c.again
    <3> DEFINE g == [f EXCEPT !.retried = TRUE]
    <3>1. db' = c.d /\ frames' = Append(frames, g)
      BY <1>3, <1>7, <2>3
    <3>2. /\ g \in Frames /\ g.kind = "txn_do" /\ g.init = f.init /\ g.rows = {} /\ ~g.asked
          /\ g.plain <=> Plain(frames)
      BY <1>4, RetriedOnly DEF Same
    <3> HIDE DEF g
    <3>3. db.depth = 0 /\ Begins(db, db')
      BY <1>4, <2>1, <2>2, <2>3, <3>1 DEF Begins
    <3>4. frames # <<>> => ~Plain(frames)
      BY <3>3, PlainIsOwn
    <3>5. g.init = 0
      BY <1>4, <3>2, <3>3
    <3> QED  BY <1>3, <3>1, <3>2, <3>3, <3>4, <3>5, OpensOnNew
  <2>4. CASE ~c.again
    <3>1. db' = txn_rollback(r.d).d /\ frames' = frames
      BY <1>3, <1>7, <2>2, <2>4
    <3>2. StaysCut(r.d, db')
      BY <2>1, <3>1, EndsCut
    <3>3. StaysCut(db, db')
      BY <1>7, <3>2, CutOn
    <3> QED  BY <1>3, <3>1, <3>3, CutSteady
  <2> QED  BY <2>3, <2>4
<1> QED  BY <1>5, <1>6, <1>7

\* txn_do begins, or fails to.
LEMMA TxnDoSteady ==
  ASSUME IInv, TxnDo
  PROVE  Steady
<1> DEFINE h == get_dbh(db)
           f == NewFrame("txn_do", h.depth, h.gen)
           r == txn_begin(h, TRUE)
<1>1. Sane(db)
  BY StateIs
<1>2. /\ db.dbh = "own" => h = db
      /\ db.dbh # "own" => Fresh(db, h)
  BY <1>1, GetDbhFresh
<1>3. Sane(h)
  BY <1>1, <1>2 DEF Fresh
<1>4. h.depth \in Nat /\ h.gen \in Nat
  BY <1>3, FieldTypes DEF Sane
<1>5. r.ok => db' = r.d /\ frames' = Append(frames, f)
  BY DEF TxnDo
<1>6. undone' = undone /\ units' = units
  BY DEF TxnDo
<1> HIDE DEF h
<1>7. /\ f \in Frames /\ f.kind = "txn_do" /\ f.init = h.depth /\ f.gen = h.gen /\ f.rows = {}
      /\ f.asked = FALSE /\ (f.plain <=> Plain(frames))
  <2>1. f.kind = "txn_do" /\ f.init = h.depth /\ f.gen = h.gen /\ f.rows = {} /\ f.asked = FALSE
    BY DEF NewFrame
  <2>2. f \in Frames
    BY <1>4, NewFrameType
  <2>3. f.plain <=> Plain(frames)
    BY <1>4, NewFrameIs
  <2> QED  BY <2>1, <2>2, <2>3
<1> HIDE DEF f
<1>8. CASE db.dbh # "own"
  <2>1. r.ok /\ Begins(db, r.d)
    BY <1>2, <1>8, TxnBeginFresh DEF Begun
  <2>2. h.depth = 0
    BY <1>2, <1>8 DEF Fresh
  <2>3. frames # <<>> => ~Plain(frames)
    BY <1>8, PlainIsOwn
  <2> QED  BY <1>5, <1>6, <1>7, <2>1, <2>2, <2>3, OpensOnNew
<1>9. CASE db.dbh = "own" /\ Live(db)
  <2>1. h = db
    BY <1>2, <1>9
  <2>2. r.ok
    BY <1>1, <1>9, <2>1, TxnBeginLive DEF Goes
  <2>3. db' = txn_begin(db, TRUE).d
    BY <1>5, <2>1, <2>2
  <2>4. f.init = db.depth
    BY <1>7, <2>1
  <2> QED  BY <1>5, <1>6, <1>7, <1>9, <2>2, <2>3, <2>4, OpensLive
<1>10. CASE db.dbh = "own" /\ ~Live(db)
  BY <1>10, TxnDoCut
<1> QED  BY <1>8, <1>9, <1>10

\* A guard is made, or not.
LEMMA GuardNewSteady ==
  ASSUME IInv, GuardNew
  PROVE  Steady
<1> DEFINE r == txn_begin(db, inDoBlock)
           f == NewFrame("guard", 0, r.d.gen)
<1>1. Sane(db)
  BY StateIs
<1>2. /\ db' = r.d /\ undone' = undone /\ units' = units
      /\ frames' = IF r.ok THEN Append(frames, f) ELSE frames
  BY DEF GuardNew
<1>3. ASSUME Sane(r.d)
      PROVE  /\ f \in Frames /\ f.kind = "guard" /\ f.gen = db'.gen /\ f.rows = {}
             /\ f.asked = FALSE /\ (f.plain <=> Plain(frames))
  <2>1. r.d.gen \in Nat
    BY <1>3, FieldTypes DEF Sane
  <2> HIDE DEF r
  <2> DEFINE k == r.d.gen
  <2>2. k \in Nat /\ f = NewFrame("guard", 0, k)
    BY <2>1
  <2> HIDE DEF f, k
  <2>3. /\ f \in Frames /\ f.kind = "guard" /\ f.gen = r.d.gen /\ f.rows = {}
        /\ f.asked = FALSE /\ (f.plain <=> Plain(frames))
    BY <2>2, NewGuardIs DEF k
  <2> QED  BY <1>2, <2>3
<1> HIDE DEF f
<1>4. ASSUME Begun(db, r), db.dbh # "own" \/ db.depth = 0
      PROVE  Steady
  <2>1. r.ok /\ Begins(db, db') /\ Sane(r.d)
    BY <1>2, <1>4 DEF Begun, Begins
  <2>2. frames # <<>> => ~Plain(frames)
    BY <1>4, PlainIsOwn
  <2>3. frames' = Append(frames, f)
    BY <1>2, <2>1
  <2> HIDE DEF r
  <2>4. f.kind # "txn_do"
    BY <1>3, <2>1
  <2> QED  BY <1>2, <1>3, <2>1, <2>2, <2>3, <2>4, OpensOnNew
<1>5. CASE db.dbh # "own"
  BY <1>1, <1>4, <1>5, TxnBeginGone
<1>6. CASE db.dbh = "own" /\ Live(db)
  <2>1. r.ok /\ Sane(r.d)
    BY <1>1, <1>6, TxnBeginLive DEF Goes, SameHandle
  <2>2. frames' = Append(frames, f)
    BY <1>2, <2>1
  <2>3. f.kind # "txn_do"
    BY <1>3, <2>1
  <2> QED  BY <1>2, <1>3, <1>6, <2>1, <2>2, <2>3, OpensLive
<1>7. CASE db.dbh = "own" /\ ~Live(db)
  <2>1. \/ Begun(db, r) /\ db.depth = 0
        \/ r.ok = TRUE /\ StaysCut(db, r.d) /\ db.depth > 0
        \/ r.ok = FALSE /\ StaysCut(db, r.d)
    BY <1>1, <1>7, TxnBeginCut
  <2>2. CASE Begun(db, r) /\ db.depth = 0
    BY <1>4, <2>2
  <2>3. CASE r.ok = TRUE /\ StaysCut(db, r.d) /\ db.depth > 0
    <3>1. StaysCut(db, db') /\ frames' = Append(frames, f) /\ Sane(r.d)
      BY <1>2, <2>3 DEF StaysCut, SameHandle
    <3>2. /\ f \in Frames /\ f.kind = "guard" /\ f.gen = db'.gen /\ f.rows = {}
          /\ f.asked = FALSE /\ (f.plain <=> Plain(frames))
      BY <1>3, <3>1
    <3>3. Opens(f)
      BY <1>7, <2>3, <3>1, <3>2 DEF Opens
    <3> QED  BY <1>2, <3>1, <3>2, <3>3, OpensSteady
  <2>4. CASE r.ok = FALSE /\ StaysCut(db, r.d)
    <3>1. StaysCut(db, db') /\ frames' = frames
      BY <1>2, <2>4
    <3> QED  BY <1>2, <1>7, <3>1, CutSteady
  <2> QED  BY <2>1, <2>2, <2>3, <2>4
<1> QED  BY <1>5, <1>6, <1>7

-----------------------------------------------------------------------------
(* What the application does between them.                                 *)

\* Frames that are no longer plain, one by one.
LEMMA MarredIs ==
  ASSUME NEW q \in Seq(Frames)
  PROVE  /\ Marred(q) \in Seq(Frames) /\ Len(Marred(q)) = Len(q)
         /\ \A i \in 1 .. Len(q) :
              /\ Marred(q)[i].kind = q[i].kind /\ Marred(q)[i].init = q[i].init
              /\ Marred(q)[i].gen = q[i].gen /\ Marred(q)[i].asked = q[i].asked
              /\ Marred(q)[i].plain = FALSE
<1> DEFINE n == Len(q)
           m == Marred(q)
<1>1. n \in Nat /\ DOMAIN q = 1 .. n /\ \A i \in 1 .. n : q[i] \in Frames
  BY LenProperties, ElementOfSeq
<1>2. m = [i \in 1 .. n |-> [q[i] EXCEPT !.plain = FALSE]]
  BY <1>1 DEF Marred
<1>3. m \in Seq(Frames)
  BY MarredType
<1>4. DOMAIN m = 1 .. Len(m) /\ Len(m) \in Nat
  BY <1>3, LenProperties
<1> HIDE DEF n, m
<1>5. DOMAIN m = 1 .. n
  BY <1>2
<1>6. Len(m) = n
  <2>1. \A a, b \in Nat : 1 .. a = 1 .. b => a = b
    OBVIOUS
  <2> QED  BY <1>1, <1>4, <1>5, <2>1, Zenon
<1>7. \A f \in Frames : LET g == [f EXCEPT !.plain = FALSE]
                        IN  /\ g.kind = f.kind /\ g.init = f.init /\ g.gen = f.gen
                            /\ g.asked = f.asked /\ g.plain = FALSE
  BY DEF Frames
<1>8. \A i \in 1 .. n : m[i] = [q[i] EXCEPT !.plain = FALSE]
  BY <1>2
<1>9. \A i \in 1 .. n : /\ m[i].kind = q[i].kind /\ m[i].init = q[i].init /\ m[i].gen = q[i].gen
                        /\ m[i].asked = q[i].asked /\ m[i].plain = FALSE
  <2> TAKE i \in 1 .. n
  <2> DEFINE g == [q[i] EXCEPT !.plain = FALSE]
  <2>1. q[i] \in Frames /\ m[i] = g
    BY <1>1, <1>8
  <2>2. /\ g.kind = q[i].kind /\ g.init = q[i].init /\ g.gen = q[i].gen
        /\ g.asked = q[i].asked /\ g.plain = FALSE
    BY <1>7, <2>1
  <2> HIDE DEF g
  <2> QED  BY <2>1, <2>2
<1> QED  BY <1>3, <1>6, <1>9 DEF n, m

\* A call or a fork in the midst of frames.
LEMMA CalmSteady ==
  ASSUME IInv, Calmed(db, db'), frames' = Marred(frames), undone' = undone, units' = units
  PROVE  Steady
<1> DEFINE n == Len(frames)
<1>1. /\ Sane(db) /\ frames \in Seq(Frames) /\ Alike(frames) /\ Balanced(db, frames)
      /\ Settled(db, units, undone) /\ n \in Nat
  BY StateIs
<1>2. /\ frames' \in Seq(Frames) /\ Len(frames') = n
      /\ \A i \in 1 .. n : /\ frames'[i].kind = frames[i].kind /\ frames'[i].init = frames[i].init
                           /\ frames'[i].gen = frames[i].gen /\ frames'[i].asked = frames[i].asked
                           /\ frames'[i].plain = FALSE
  BY <1>1, MarredIs
<1> HIDE DEF n
<1>3. Alike(frames')
  <2>1. \A i \in 1 .. n : frames[i].asked => frames[i].kind = "guard"
    BY <1>1 DEF Alike, n
  <2> QED  BY <1>2, <2>1, ZenonT(60) DEF Alike
<1>4. Whole(db', frames')
  <2>1. ASSUME frames' # <<>>
        PROVE  ~Plain(frames')
    <3>1. 1 \in 1 .. n
      BY <1>1, <1>2, <2>1, EmptySeq
    <3> QED  BY <1>2, <3>1 DEF Plain
  <2> QED  BY <2>1 DEF Whole
<1>5. Balanced(db', frames')
  <2>1. /\ Sane(db')
        /\ Live(db') => db'.depth = 0 \/ (Live(db) /\ db'.gen = db.gen /\ db'.depth <= db.depth)
    BY DEF Calmed
  <2>2. /\ Len(frames') = Len(frames)
        /\ \A i \in 1 .. Len(frames) :
             frames'[i].kind = frames[i].kind /\ frames'[i].init = frames[i].init /\ frames'[i].gen = frames[i].gen
    BY <1>2 DEF n
  <2> QED  BY <1>1, <2>1, <2>2, BalancedStays, Zenon
<1>6. Settled(db', units', undone')
  BY <1>1, SettledStays DEF Calmed
<1> QED  BY <1>3, <1>4, <1>5, <1>6 DEF Steady, Calmed

\* An explicit call.
LEMMA CallIsCalm ==
  ASSUME Sane(db), Dbh \/ Rollback \/ Savepoint \/ Release \/ RollbackTo \/ Disconnect
  PROVE  Calmed(db, db')
<1>1. CASE Disconnect
  <2>1. /\ db.dbh # "none"
        /\ db' = [Dropped(db) EXCEPT !.sessions[db.dbh] = Session(FALSE)]
    BY <1>1 DEF Disconnect, Call, Returns
  <2> QED  BY <2>1, DisconnectCalms
<1>2. CASE Dbh \/ Rollback \/ Savepoint \/ Release \/ RollbackTo
  <2>1. db' \in {dbh(db), txn_rollback(db).d, svp_begin(db).d, svp_release(db).d, svp_rollback(db).d}
    <3>1. Returns(dbh(db)).d = dbh(db)
      BY DEF Returns
    <3>2. CASE Dbh
      BY <3>1, <3>2 DEF Dbh, Call
    <3>3. CASE Rollback
      BY <3>3 DEF Rollback, Call
    <3>4. CASE Savepoint
      BY <3>4 DEF Savepoint, Call
    <3>5. CASE Release
      BY <3>5 DEF Release, Call
    <3>6. CASE RollbackTo
      BY <3>6 DEF RollbackTo, Call
    <3> QED  BY <1>2, <3>2, <3>3, <3>4, <3>5, <3>6
  <2> QED  BY <2>1, CallsCalm
<1> QED  BY <1>1, <1>2

\* It mars the frames.
LEMMA CallsSteady ==
  ASSUME IInv, Dbh \/ Rollback \/ Savepoint \/ Release \/ RollbackTo \/ Disconnect
  PROVE  Steady
<1>1. Calmed(db, db')
  BY StateIs, CallIsCalm
<1>2. frames' = Marred(frames) /\ undone' = undone /\ units' = units
  BY DEF Dbh, Rollback, Savepoint, Release, RollbackTo, Disconnect, Call
<1> QED  BY <1>1, <1>2, CalmSteady

\* A fork.
LEMMA ForkSteady ==
  ASSUME IInv, Fork
  PROVE  Steady
<1>1. Sane(db)
  BY StateIs
<1>2. /\ frames' = Marred(frames) /\ undone' = undone /\ units' = units
      /\ db' = [db EXCEPT !.dbh = "inherited",
                          !.sessions = [own |-> Session(FALSE), inherited |-> db.sessions["own"]]]
  BY DEF Fork
<1>3. Calmed(db, db')
  BY <1>1, <1>2, ForkCalms
<1> QED  BY <1>2, <1>3, CalmSteady

\* The connection is lost.
LEMMA LoseSteady ==
  ASSUME IInv, Lose
  PROVE  Steady
<1>1. /\ Sane(db) /\ frames \in Seq(Frames) /\ Alike(frames) /\ Whole(db, frames)
      /\ Settled(db, units, undone)
  BY StateIs
<1>2. /\ frames' = frames /\ undone' = undone /\ units' = units /\ Connected(db) /\ db.dbh = "own"
      /\ db' = [db EXCEPT !.sessions["own"] = Session(FALSE)]
  BY DEF Lose
<1>3. Live(db)
  BY <1>1, <1>2, LiveIsConnected DEF Sane
<1>4. /\ Calmed(db, db') /\ ~Live(db') /\ db'.dbh = db.dbh /\ db'.gen = db.gen
      /\ db'.depth = db.depth /\ db'.table = db.table
  BY <1>1, <1>2, LossCalms
<1>5. Balanced(db', frames')
  BY <1>4 DEF Balanced
<1>6. Settled(db', units', undone')
  BY <1>1, <1>2, <1>4, SettledStays DEF Calmed
<1>7. Whole(db', frames')
  <2>1. Kindred(frames, frames) /\ \A i \in 1 .. Len(frames) : frames[i].rows = frames[i].rows
    BY <1>1 DEF Kindred, Same
  <2>2. Whole(db', frames)
    BY <1>1, <1>3, <1>4, <2>1, WholeLoses
  <2> QED  BY <1>2, <2>2
<1> QED  BY <1>1, <1>2, <1>4, <1>5, <1>6, <1>7 DEF Steady, Calmed

\* An exception comes or goes.
LEMMA IdleSteady ==
  ASSUME IInv, db' = db, frames' = frames, undone' = undone, units' = units
  PROVE  Steady
BY StateIs DEF Steady

\* The row that is written is the first that is not in use.
LEMMA FirstFree ==
  ASSUME Rows \ Written # {}
  PROVE  (CHOOSE i \in Rows \ Written : \A j \in Rows \ Written : i <= j) \in Rows \ Written
<1> DEFINE Free == Rows \ Written
<1>1. Free \in SUBSET Nat /\ Free # {}
  BY DEF Rows
<1> HIDE DEF Free
<1>2. \E i \in Free : \A j \in Free : i <= j
  BY <1>1, Smallest
<1>3. (CHOOSE i \in Free : \A j \in Free : i <= j) \in Free
  BY <1>2
<1> QED  BY <1>3 DEF Free

\* Nobody has written it.
LEMMA RowIsNew ==
  ASSUME IInv, NEW row \in Rows \ Written
  PROVE  /\ row \in Rows /\ row \notin db.table /\ row \notin undone
         /\ \A u \in units : row \notin u.rows
         /\ \A i \in 1 .. Len(frames) : row \notin frames[i].rows
<1>1. DOMAIN frames = 1 .. Len(frames)
  BY StateIs
<1> QED  BY <1>1 DEF Written

\* A row more settles nothing that is over.
LEMMA SettledWrites ==
  ASSUME NEW d, NEW e, NEW row, NEW us, NEW un, Settled(d, us, un), d.table \subseteq e.table,
         e.table \cup Own(e).work \subseteq d.table \cup Own(d).work \cup {row},
         row \notin un, \A u \in us : row \notin u.rows
  PROVE  Settled(e, us, un)
BY DEF Settled

\* A row is written in the innermost frame, or in none.
LEMMA WrittenSteady ==
  ASSUME IInv, NEW row \in Rows, row \notin db.table, row \notin undone,
         \A u \in units : row \notin u.rows,
         \A i \in 1 .. Len(frames) : row \notin frames[i].rows,
         Inserted(db, db', row), undone' = undone,
         frames' = IF frames = <<>> THEN frames
                   ELSE Append(Front(frames), [Last(frames) EXCEPT !.rows = @ \cup {row}]),
         units' = IF frames = <<>> THEN units \cup {[rows |-> {row}, returned |-> TRUE]} ELSE units
  PROVE  Steady
<1> DEFINE n == Len(frames)
<1>1. /\ Sane(db) /\ frames \in Seq(Frames) /\ Alike(frames) /\ Whole(db, frames)
      /\ Balanced(db, frames) /\ Settled(db, units, undone)
  BY StateIs
<1>2. /\ Sane(db') /\ Live(db')
      /\ \/ /\ db'.depth = 0 /\ db'.table = db.table \cup {row} /\ Own(db').work = {}
            /\ db.dbh = "own" => db.depth = 0
         \/ /\ Live(db) /\ db.depth > 0 /\ db'.dbh = db.dbh /\ db'.gen = db.gen /\ db'.depth = db.depth
            /\ db'.table = db.table /\ Own(db').work = Own(db).work \cup {row} /\ Own(db').marks = Own(db).marks
  BY DEF Inserted
<1>3. Settled(db', units, undone)
  <2>1. /\ db.table \subseteq db'.table
        /\ db'.table \cup Own(db').work \subseteq db.table \cup Own(db).work \cup {row}
    BY <1>2
  <2> QED  BY <1>1, <2>1, SettledWrites
<1>4. db'.depth = 0 \/ (Live(db) /\ db'.gen = db.gen /\ db'.depth <= db.depth)
  <2>1. db.depth \in Nat
    BY <1>1, FieldTypes DEF Sane
  <2> QED  BY <1>2, <2>1
<1>5. CASE frames = <<>>
  <2>1. frames' = frames /\ units' = units \cup {[rows |-> {row}, returned |-> TRUE]}
    BY <1>5
  <2>2. ~(Live(db) /\ db.depth > 0)
    BY <1>1, <1>5, NoFrameNoDepth
  <2>3. {row} \subseteq db'.table
    BY <1>2, <2>2
  <2>4. Settled(db', units', undone')
    <3>1. Settled(db', units \cup {[rows |-> {row}, returned |-> TRUE]}, undone)
      BY <1>3, <2>3, SettledMore
    <3> QED  BY <2>1, <3>1
  <2>5. Balanced(db', frames')
    BY <1>1, <1>2, <1>4, <2>1, BalancedStays
  <2>6. Whole(db', frames')
    BY <1>5, <2>1 DEF Whole
  <2> QED  BY <1>1, <1>2, <2>1, <2>4, <2>5, <2>6 DEF Steady
<1>6. CASE frames # <<>>
  <2> DEFINE f == Last(frames)
             g == [f EXCEPT !.rows = f.rows \cup {row}]
  <2>1. frames' = Append(Front(frames), g) /\ units' = units
    BY <1>6
  <2>2. f = frames[n] /\ f \in Frames /\ n \in 1 .. n
    BY <1>6, Innermost
  <2>3. f.rows \cup {row} \in SUBSET Rows
    BY <2>2, FrameFields
  <2> HIDE DEF f
  <2>4. g \in Frames /\ Same(f, g) /\ g.rows = f.rows \cup {row} /\ g.asked = f.asked
    <3> DEFINE r == f.rows \cup {row}
               h == [f EXCEPT !.rows = r]
    <3>1. f \in Frames /\ r \in SUBSET Rows
      BY <2>2, <2>3
    <3> HIDE DEF r
    <3>2. h \in Frames /\ Same(f, h) /\ h.rows = r /\ h.asked = f.asked
      BY <3>1, FrameSet
    <3> QED  BY <3>2 DEF r
  <2> HIDE DEF g
  <2>5. n \in Nat \ {0}
    BY <1>1, <1>6, FrontAt
  <2>6. /\ frames' \in Seq(Frames) /\ Len(frames') = n /\ frames'[n] = g
        /\ \A i \in 1 .. n - 1 : frames'[i] = frames[i]
    BY <1>1, <1>6, <2>1, <2>4, LastReplaced
  <2> HIDE DEF n
  <2>7. \A i \in 1 .. n : i = n \/ i \in 1 .. n - 1
    BY <2>5
  <2>8. \A i \in 1 .. n : /\ Same(frames[i], frames'[i]) /\ frames'[i].asked = frames[i].asked
    BY <2>2, <2>4, <2>6, <2>7 DEF Same
  <2>9. \A i \in 1 .. n : /\ frames'[i].kind = frames[i].kind /\ frames'[i].init = frames[i].init
                          /\ frames'[i].gen = frames[i].gen /\ frames'[i].plain = frames[i].plain
                          /\ frames'[i].asked = frames[i].asked
    BY <2>8 DEF Same
  <2>10. Alike(frames')
    BY <1>1, <2>6, <2>9 DEF Alike, n
  <2>11. Balanced(db', frames')
    <3>1. /\ Len(frames') = Len(frames)
          /\ \A i \in 1 .. Len(frames) :
               frames'[i].kind = frames[i].kind /\ frames'[i].init = frames[i].init /\ frames'[i].gen = frames[i].gen
      BY <2>6, <2>9 DEF n
    <3>2. /\ Sane(db')
          /\ Live(db') => db'.depth = 0 \/ (Live(db) /\ db'.gen = db.gen /\ db'.depth <= db.depth)
      BY <1>2, <1>4
    <3>3. Sane(db) /\ frames \in Seq(Frames) /\ Balanced(db, frames)
      BY <1>1
    <3> QED  BY <3>1, <3>2, <3>3, BalancedStays, Zenon
  <2>12. ASSUME Plain(frames')
         PROVE  Whole(db', frames')
    <3>1. Plain(frames)
      BY <2>6, <2>9, <2>12 DEF Plain, n
    <3>2. db.dbh = "own" /\ db.depth > 0 /\ db.depth \in Nat
      BY <1>1, <1>6, <3>1, FieldTypes DEF Whole, Opened, Sane
    <3>3. /\ Live(db) /\ db'.dbh = db.dbh /\ db'.gen = db.gen /\ db'.depth = db.depth
          /\ db'.table = db.table /\ Own(db').work = Own(db).work \cup {row} /\ Own(db').marks = Own(db).marks
      BY <1>2, <3>2
    <3>4. Rewritten(frames, frames', row)
      BY <2>2, <2>4, <2>6 DEF n, Rewritten
    <3>5. Sane(db) /\ Live(db) /\ Whole(db, frames) /\ frames \in Seq(Frames) /\ Wrote(db, db', row)
      BY <1>1, <1>2, <3>3 DEF Wrote
    <3> QED  BY <1>6, <3>4, <3>5, WholeWrites
  <2>13. Whole(db', frames')
    BY <2>12 DEF Whole
  <2> QED  BY <1>2, <1>3, <2>1, <2>10, <2>11, <2>13 DEF Steady
<1> QED  BY <1>5, <1>6

\* A row is written, or the insert fails.
LEMMA WriteSteady ==
  ASSUME IInv, Write
  PROVE  Steady
<1> DEFINE row == CHOOSE i \in Rows \ Written : \A j \in Rows \ Written : i <= j
           r == dbh_do(db, inDoBlock, LAMBDA h : INSERT(h, row))
<1>1. /\ Rows \ Written # {} /\ db' = r.d /\ undone' = undone
      /\ frames' = IF frames = <<>> \/ ~r.ok THEN frames
                   ELSE Append(Front(frames), [Last(frames) EXCEPT !.rows = @ \cup {row}])
      /\ units' = IF frames # <<>> \/ ~r.ok THEN units
                  ELSE units \cup {[rows |-> {row}, returned |-> TRUE]}
  BY DEF Write, Inner
<1>2. /\ row \in Rows /\ row \notin db.table /\ row \notin undone
      /\ \A u \in units : row \notin u.rows
      /\ \A i \in 1 .. Len(frames) : row \notin frames[i].rows
  BY <1>1, FirstFree, RowIsNew
<1> HIDE DEF row
<1>3. \/ r.ok = TRUE /\ Inserted(db, r.d, row)
      \/ r.ok = FALSE /\ r.d = db
  BY <1>2, StateIs, DoInsert
<1> HIDE DEF r
<1>4. CASE r.ok = TRUE /\ Inserted(db, r.d, row)
  <2>1. /\ Inserted(db, db', row) /\ undone' = undone
        /\ frames' = IF frames = <<>> THEN frames
                     ELSE Append(Front(frames), [Last(frames) EXCEPT !.rows = @ \cup {row}])
        /\ units' = IF frames = <<>> THEN units \cup {[rows |-> {row}, returned |-> TRUE]} ELSE units
    BY <1>1, <1>4
  <2> QED  BY <1>2, <2>1, WrittenSteady, Zenon
<1>5. CASE r.ok = FALSE /\ r.d = db
  BY <1>1, <1>5, IdleSteady
<1> QED  BY <1>3, <1>4, <1>5

-----------------------------------------------------------------------------
(* The theorems.                                                           *)

\* A refused COMMIT ends a txn_do, whose finally block swallows the exception, and not its
\* transaction: the depth is 1 more than there are blocks from then on.
NoRefusal == "refused" \notin CommitAnswers

\* Nothing is open and nothing is written.
LEMMA InitWhole == Init => IInv
<1> SUFFICES ASSUME Init
             PROVE  IInv
  OBVIOUS
<1>1. TypeOK
  BY InitType
<1>2. /\ frames = <<>> /\ undone = {} /\ units = {} /\ db.dbh = "none" /\ db.savepoints = <<>>
      /\ Own(db) = Session(FALSE)
  BY DEF Init, Own
<1>3. ~Live(db)
  BY <1>2 DEF Live
<1>4. Len(frames) = 0
  BY <1>2
<1>5. Sane(db)
  <2>1. db \in Storages
    BY <1>1, TypeIs
  <2>2. Numbered(db.savepoints)
    BY <1>2 DEF Numbered
  <2> QED  BY <1>2, <1>3, <2>1, <2>2 DEF Sane
<1>6. Alike(frames) /\ Balanced(db, frames) /\ Whole(db, frames)
  BY <1>2, <1>3, <1>4 DEF Alike, Balanced, Whole
<1>7. Settled(db, units, undone)
  BY <1>2 DEF Settled
<1> QED  BY <1>1, <1>5, <1>6, <1>7 DEF IInv

\* Every step keeps the invariant.
LEMMA StepSteady ==
  ASSUME IInv, NoRefusal, [Next]_vars
  PROVE  Steady
<1>1. CASE TxnDo
  BY <1>1, TxnDoSteady
<1>2. CASE TxnDoCatch
  BY <1>2, TxnDoCatchSteady
<1>3. CASE GuardNew
  BY <1>3, GuardNewSteady
<1>4. CASE GuardDestroy
  BY <1>4, GuardDestroySteady
<1>5. ASSUME NEW answer \in CommitAnswers, TxnDoReturn(answer) \/ GuardCommit(answer)
      PROVE  Steady
  <2>1. answer # "refused"
    BY DEF NoRefusal
  <2> QED  BY <1>5, <2>1, TxnDoReturnSteady, GuardCommitSteady
<1>6. CASE Die \/ Eval \/ UNCHANGED vars
  BY <1>6, IdleSteady DEF Die, Eval, vars
<1>7. CASE Write
  BY <1>7, WriteSteady
<1>8. CASE Dbh \/ Rollback \/ Savepoint \/ Release \/ RollbackTo \/ Disconnect
  BY <1>8, CallsSteady
<1>9. CASE Lose
  BY <1>9, LoseSteady
<1>10. CASE Fork
  BY <1>10, ForkSteady
<1> QED  BY <1>1, <1>2, <1>3, <1>4, <1>5, <1>6, <1>7, <1>8, <1>9, <1>10 DEF Next

\* So the invariant is inductive.
LEMMA NextWhole ==
  ASSUME IInv, NoRefusal, [Next]_vars
  PROVE  IInv'
<1>1. TypeOK'
  BY NextKeeps DEF IInv
<1>2. Steady
  BY StepSteady
<1>3. auto_savepoint' = auto_savepoint
  BY DEF Next, vars, TxnDo, TxnDoCatch, GuardNew, GuardDestroy, TxnDoReturn, GuardCommit, Die, Eval,
         Write, Dbh, Rollback, Savepoint, Release, RollbackTo, Disconnect, Call, Lose, Fork
<1>4. Whole(db', frames') => Whole(db, frames)'
  BY <1>3 DEF Whole, Opened, AtWork, CutOff, Plain, Live, Own, Upto
<1>5. Sane(db)' /\ Alike(frames)' /\ Balanced(db, frames)' /\ Settled(db, units, undone)'
  BY <1>2 DEF Steady
<1> QED  BY <1>1, <1>2, <1>4, <1>5 DEF Steady, IInv

\* Where the server refuses no COMMIT, the invariant holds in every state.
THEOREM WholeAlways == NoRefusal => (Spec => []IInv)
<1> SUFFICES ASSUME NoRefusal
             PROVE  Spec => []IInv
  OBVIOUS
<1>1. IInv /\ [Next]_vars => IInv'
  BY NextWhole
<1> QED  BY <1>1, InitWhole, PTL DEF Spec

\* txn_do and the guard: of the rows of an outermost block all are in the table when it is
\* over, or none is.
THEOREM AllOrNothing == NoRefusal => (Spec => []NeverAPart)
<1> SUFFICES ASSUME NoRefusal
             PROVE  Spec => []NeverAPart
  OBVIOUS
<1>1. IInv => NeverAPart
  BY DEF IInv, Settled, NeverAPart
<1> QED  BY <1>1, WholeAlways, PTL

\* txn_do and the guard: what was written in a block that threw, or in an attempt that was
\* retried, never gets into the table.
THEOREM UndoneForGood == NoRefusal => (Spec => []UndoneStaysOut)
<1> SUFFICES ASSUME NoRefusal
             PROVE  Spec => []UndoneStaysOut
  OBVIOUS
<1>1. IInv => UndoneStaysOut
  BY DEF IInv, Settled, UndoneStaysOut
<1> QED  BY <1>1, WholeAlways, PTL

\* The storage: on a live connection of its own the depth is the number of open frames.
THEOREM DepthCounts == NoRefusal => (Spec => []DepthIsNesting)
<1> SUFFICES ASSUME NoRefusal
             PROVE  Spec => []DepthIsNesting
  OBVIOUS
<1>1. ASSUME IInv
      PROVE  DepthIsNesting
  <2> SUFFICES ASSUME Connected(db), db.dbh = "own", \A i \in DOMAIN frames : frames[i].plain
               PROVE  db.depth = Len(frames)
    BY DEF DepthIsNesting
  <2>1. /\ Sane(db) /\ db \in Storages /\ DOMAIN frames = 1 .. Len(frames)
        /\ Balanced(db, frames) /\ Whole(db, frames)
    BY <1>1, StateIs
  <2>2. Live(db)
    BY <2>1, LiveIsConnected
  <2>3. CASE frames = <<>>
    <3>1. Len(frames) = 0
      BY <2>3
    <3> QED  BY <2>1, <2>2, <2>3, <3>1, NoFrameNoDepth
  <2>4. CASE frames # <<>>
    <3>1. Plain(frames)
      BY <2>1 DEF Plain
    <3> QED  BY <2>1, <2>2, <2>4, <3>1 DEF Whole, AtWork
  <2> QED  BY <2>3, <2>4
<1> QED  BY <1>1, WholeAlways, PTL

\* A sequence that is what another ends with, position by position.
LEMMA SuffixIs ==
  ASSUME NEW S, NEW s \in Seq(S), NEW t \in Seq(S), Len(s) <= Len(t),
         \A i \in 1 .. Len(s) : s[i] = t[Len(t) - Len(s) + i]
  PROVE  IsSuffix(s, t)
<1> DEFINE n == Len(s)
           m == Len(t)
           r == Reverse(s)
           q == Reverse(t)
<1>1. n \in Nat /\ m \in Nat /\ n <= m
  BY LenProperties
<1>2. /\ r = [i \in 1 .. n |-> s[n - i + 1]] /\ q = [i \in 1 .. m |-> t[m - i + 1]]
  BY DEF Reverse
<1>3. r \in Seq(S) /\ Len(r) = n /\ q \in Seq(S) /\ Len(q) = m
  <2>1. \A i \in 1 .. n : s[n - i + 1] \in S
    <3>1. \A i \in 1 .. n : n - i + 1 \in 1 .. n
      BY <1>1
    <3> QED  BY <3>1, ElementOfSeq
  <2>2. \A i \in 1 .. m : t[m - i + 1] \in S
    <3>1. \A i \in 1 .. m : m - i + 1 \in 1 .. m
      BY <1>1
    <3> QED  BY <3>1, ElementOfSeq
  <2> HIDE DEF n, m, r, q
  <2>3. r \in [1 .. n -> S] /\ q \in [1 .. m -> S]
    BY <1>2, <2>1, <2>2
  <2>4. r \in Seq(S) /\ q \in Seq(S)
    <3>1. \A k \in Nat : [1 .. k -> S] \subseteq Seq(S)
      BY SeqDef
    <3> QED  BY <1>1, <2>3, <3>1, Zenon
  <2>5. /\ DOMAIN r = 1 .. n /\ DOMAIN r = 1 .. Len(r) /\ Len(r) \in Nat
        /\ DOMAIN q = 1 .. m /\ DOMAIN q = 1 .. Len(q) /\ Len(q) \in Nat
    BY <1>2, <2>4, LenProperties
  <2>6. \A a, b \in Nat : 1 .. a = 1 .. b => a = b
    OBVIOUS
  <2> QED  BY <1>1, <2>4, <2>5, <2>6, Zenon
<1>4. \A i \in 1 .. n : s[i] = t[m - n + i]
  OBVIOUS
<1> HIDE DEF n, m, r, q
<1>5. \A i \in 1 .. n : r[i] = q[i]
  <2> TAKE i \in 1 .. n
  <2>1. n - i + 1 \in 1 .. n /\ i \in 1 .. m /\ m - n + (n - i + 1) = m - i + 1
    BY <1>1
  <2>2. s[n - i + 1] = t[m - i + 1]
    BY <1>4, <2>1
  <2> QED  BY <1>2, <2>1, <2>2
<1>6. IsPrefix(r, q)
  <2>1. n \in 0 .. m
    BY <1>1
  <2>2. SubSeq(q, 1, n) \in Seq(S) /\ Len(SubSeq(q, 1, n)) = n /\ \A i \in 1 .. n : SubSeq(q, 1, n)[i] = q[i]
    BY <1>1, <1>3, PrefixAt
  <2>3. r = SubSeq(q, 1, Len(r))
    <3>1. \A i \in 1 .. Len(r) : r[i] = SubSeq(q, 1, Len(r))[i]
      BY <1>3, <1>5, <2>2
    <3> QED  BY <1>3, <2>2, <3>1, SeqEqual
  <2> QED  BY <1>1, <1>3, <2>3 DEF IsPrefix
<1> QED  BY <1>6 DEF IsSuffix, r, q

\* The types and the sane storage: no answer of COMMIT disturbs that.
SaneInv == TypeOK /\ Sane(db)

\* txn_commit, whatever the answer: a refused COMMIT leaves everything as it was.
LEMMA TxnCommitSane ==
  ASSUME NEW d, Sane(d), NEW answer
  PROVE  Sane(txn_commit(d, answer).d)
<1>1. CASE answer # "refused"
  BY <1>1, TxnCommitLowers DEF Lowered
<1>2. CASE answer = "refused"
  <2>1. CASE d.dbh # "own"
    <3>1. txn_commit(d, answer).d = verify_pid(d)
      BY <2>1, UnusableLowers DEF txn_commit, Usable, Throws
    <3> QED  BY <2>1, <3>1, Verified
  <2>2. CASE d.dbh = "own" /\ ~Live(d)
    BY <2>2, EndsCut DEF StaysCut, SameHandle
  <2>3. CASE Live(d)
    <3>1. d \in Storages /\ d.depth \in Nat /\ d.dbh = "own"
      BY <2>3, SaneLive DEF Live
    <3>2. CASE d.depth = 0
      BY <3>1, <3>2, Verified DEF txn_commit, Usable, Throws
    <3>3. CASE d.depth = 1
      <4>1. COMMIT(d, answer) = Throws(d)
        BY <1>2 DEF COMMIT
      <4>2. txn_commit(d, answer).d = d
        BY <3>1, <3>3, <4>1, Verified DEF txn_commit, Usable, Then, Throws
      <4> QED  BY <4>2
    <3>4. CASE d.depth > 1
      BY <2>3, <3>4, TxnCommitLevel DEF Outwards, SameHandle
    <3> QED  BY <3>1, <3>2, <3>3, <3>4
  <2> QED  BY <2>1, <2>2, <2>3 DEF Live
<1> QED  BY <1>1, <1>2

\* txn_begin.
LEMMA TxnBeginSane ==
  ASSUME NEW d, Sane(d), NEW inBlock
  PROVE  Sane(txn_begin(d, inBlock).d)
<1>1. CASE d.dbh # "own"
  BY <1>1, TxnBeginGone DEF Begun, Begins
<1>2. CASE d.dbh = "own" /\ ~Live(d)
  BY <1>2, TxnBeginCut DEF Begun, Begins, StaysCut, SameHandle
<1>3. CASE Live(d)
  BY <1>3, TxnBeginLive DEF Goes, SameHandle
<1> QED  BY <1>1, <1>2, <1>3

\* The catch block of txn_do.
LEMMA CaughtSane ==
  ASSUME NEW d, Sane(d), NEW f, f.init \in Nat
  PROVE  Sane(Caught(d, f).d)
<1>1. CASE Caught(d, f).again
  BY <1>1, CaughtIs DEF Begins
<1>2. CASE ~Caught(d, f).again
  BY <1>2, CaughtIs, TxnRollbackLowers DEF Lowered
<1> QED  BY <1>1, <1>2

\* txn_do begins, or fails to.
LEMMA TxnDoSane ==
  ASSUME SaneInv, TxnDo
  PROVE  Sane(db')
<1> DEFINE h == get_dbh(db)
           f == NewFrame("txn_do", h.depth, h.gen)
           r == txn_begin(h, TRUE)
<1>1. Sane(h)
  <2>1. Sane(db)
    BY DEF SaneInv
  <2>2. /\ db.dbh = "own" => h = db
        /\ db.dbh # "own" => Fresh(db, h)
    BY <2>1, GetDbhFresh
  <2> QED  BY <2>1, <2>2 DEF Fresh
<1>2. db' = r.d \/ db' = Caught(r.d, f).d
  BY DEF TxnDo
<1>3. h.depth \in Nat
  BY <1>1, FieldTypes DEF Sane
<1> HIDE DEF h
<1>4. Sane(r.d)
  BY <1>1, TxnBeginSane
<1>5. f.init \in Nat
  BY <1>3 DEF NewFrame
<1> HIDE DEF r, f
<1> QED  BY <1>2, <1>4, <1>5, CaughtSane

\* Every step leaves a sane storage.
LEMMA StepSane ==
  ASSUME SaneInv, [Next]_vars
  PROVE  Sane(db')
<1>1. Sane(db) /\ TypeOK
  BY DEF SaneInv
<1>2. CASE TxnDo
  BY <1>2, TxnDoSane
<1>3. CASE TxnDoCatch
  <2>1. db' = Caught(db, Last(frames)).d /\ frames # <<>>
    BY <1>3 DEF TxnDoCatch, Block, Inner
  <2>2. frames \in Seq(Frames)
    BY <1>1, TypeIs
  <2>3. Last(frames) \in Frames
    BY <2>1, <2>2, LastAndFront
  <2>4. Last(frames).init \in Nat
    BY <2>3, FrameFields
  <2> QED  BY <1>1, <2>1, <2>4, CaughtSane
<1>4. CASE GuardNew
  <2>1. db' = txn_begin(db, inDoBlock).d
    BY <1>4 DEF GuardNew
  <2> QED  BY <1>1, <2>1, TxnBeginSane
<1>5. CASE GuardDestroy
  <2>1. db' = txn_rollback(verify_pid(db)).d \/ db' = verify_pid(db)
    BY <1>5 DEF GuardDestroy
  <2>2. Sane(verify_pid(db))
    <3>1. CASE db.dbh # "own"
      BY <1>1, <3>1, Verified
    <3>2. CASE db.dbh = "own"
      <4>1. verify_pid(db) = db
        BY <1>1, <3>2, Verified
      <4> QED  BY <1>1, <4>1
    <3> QED  BY <3>1, <3>2
  <2> QED  BY <2>1, <2>2, TxnRollbackLowers DEF Lowered
<1>6. ASSUME NEW answer \in CommitAnswers, TxnDoReturn(answer) \/ GuardCommit(answer)
      PROVE  Sane(db')
  <2>1. db' = txn_commit(db, answer).d \/ db' = db
    BY <1>6 DEF TxnDoReturn, GuardCommit
  <2> QED  BY <1>1, <2>1, TxnCommitSane
<1>7. CASE Die \/ Eval \/ UNCHANGED vars
  <2>1. db' = db
    BY <1>7 DEF Die, Eval, vars
  <2> QED  BY <1>1, <2>1
<1>8. CASE Write
  <2> DEFINE row == CHOOSE i \in Rows \ Written : \A j \in Rows \ Written : i <= j
             r == dbh_do(db, inDoBlock, LAMBDA h : INSERT(h, row))
  <2>1. db' = r.d /\ Rows \ Written # {}
    BY <1>8 DEF Write
  <2>2. row \in Rows
    BY <2>1, FirstFree
  <2> HIDE DEF row
  <2>3. Inserted(db, r.d, row) \/ r.d = db
    BY <1>1, <2>2, DoInsert
  <2> HIDE DEF r
  <2> QED  BY <1>1, <2>1, <2>3 DEF Inserted
<1>9. CASE Dbh \/ Rollback \/ Savepoint \/ Release \/ RollbackTo \/ Disconnect
  <2>1. Calmed(db, db')
    BY <1>1, <1>9, CallIsCalm
  <2> QED  BY <2>1 DEF Calmed
<1>10. CASE Lose
  <2>1. db' = [db EXCEPT !.sessions["own"] = Session(FALSE)]
    BY <1>10 DEF Lose
  <2> QED  BY <1>1, <2>1, LossCalms DEF Calmed
<1>11. CASE Fork
  <2>1. db' = [db EXCEPT !.dbh = "inherited",
                         !.sessions = [own |-> Session(FALSE), inherited |-> db.sessions["own"]]]
    BY <1>11 DEF Fork
  <2> QED  BY <1>1, <2>1, ForkCalms DEF Calmed
<1> QED  BY <1>2, <1>3, <1>4, <1>5, <1>6, <1>7, <1>8, <1>9, <1>10, <1>11 DEF Next

\* The storage is sane in every state, whatever COMMIT answers.
THEOREM SaneAlways == Spec => []SaneInv
<1>1. Init => SaneInv
  BY InitWhole DEF IInv, SaneInv
<1>2. SaneInv /\ [Next]_vars => SaneInv'
  <2> SUFFICES ASSUME SaneInv, [Next]_vars
               PROVE  SaneInv'
    OBVIOUS
  <2>1. TypeOK'
    BY NextKeeps DEF SaneInv
  <2>2. Sane(db)'
    BY StepSane
  <2> QED  BY <2>1, <2>2 DEF SaneInv
<1> QED  BY <1>1, <1>2, PTL DEF Spec

\* The storage: the savepoints at the server are the last of the storage's stack.
THEOREM NamesAgree == Spec => []SavepointsMatch
<1>1. ASSUME SaneInv
      PROVE  SavepointsMatch
  <2> SUFFICES ASSUME Connected(db), db.dbh = "own"
               PROVE  IsSuffix([i \in DOMAIN Here(db).marks |-> Here(db).marks[i].name], db.savepoints)
    BY DEF SavepointsMatch
  <2> DEFINE p == db.savepoints
             m == Own(db).marks
             names == [i \in DOMAIN m |-> m[i].name]
  <2>1. Sane(db) /\ db \in Storages
    BY <1>1 DEF SaneInv, Sane
  <2>2. Live(db) /\ Here(db) = Own(db)
    BY <2>1, LiveIsConnected
  <2>3. /\ m \in Seq(Marks) /\ p \in Seq(Nat) /\ Len(m) <= Len(p)
        /\ NamesMatch(m, Len(p)) /\ Numbered(p)
    BY <2>1, <2>2, MarksLive DEF Sane
  <2> HIDE DEF p, m
  <2>4. /\ Len(m) \in Nat /\ DOMAIN m = 1 .. Len(m) /\ Len(p) \in Nat /\ DOMAIN p = 1 .. Len(p)
        /\ \A i \in 1 .. Len(m) : m[i].name \in Nat
    <3>1. Len(m) \in Nat /\ DOMAIN m = 1 .. Len(m)
      BY <2>3, LenProperties, Zenon
    <3>2. Len(p) \in Nat /\ DOMAIN p = 1 .. Len(p)
      BY <2>3, LenProperties, Zenon
    <3>3. \A i \in 1 .. Len(m) : m[i] \in Marks
      BY <2>3, ElementOfSeq, Zenon
    <3>4. \A k \in Marks : k.name \in Nat
      BY DEF Marks
    <3> QED  BY <3>1, <3>2, <3>3, <3>4
  <2>5. names \in Seq(Nat) /\ Len(names) = Len(m)
    <3> DEFINE n == Len(m)
    <3>1. names = [i \in 1 .. n |-> m[i].name] /\ n \in Nat
      BY <2>4
    <3>2. \A i \in 1 .. n : m[i].name \in Nat
      BY <2>4
    <3> HIDE DEF names, n
    <3>3. names \in [1 .. n -> Nat]
      BY <3>1, <3>2
    <3>4. names \in Seq(Nat)
      BY <3>1, <3>3, SeqDef
    <3>5. DOMAIN names = 1 .. n /\ DOMAIN names = 1 .. Len(names) /\ Len(names) \in Nat
      BY <3>3, <3>4, LenProperties
    <3>6. \A a, b \in Nat : 1 .. a = 1 .. b => a = b
      OBVIOUS
    <3> QED  BY <3>1, <3>4, <3>5, <3>6, Zenon DEF n
  <2>6. \A i \in 1 .. Len(m) : names[i] = p[Len(p) - Len(m) + i]
    <3> TAKE i \in 1 .. Len(m)
    <3>1. names[i] = Len(p) - Len(m) + i - 1
      BY <2>3, <2>4 DEF NamesMatch
    <3>2. Len(p) - Len(m) + i \in 1 .. Len(p)
      BY <2>3, <2>4
    <3>3. p[Len(p) - Len(m) + i] = Len(p) - Len(m) + i - 1
      BY <2>3, <2>4, <3>2, SMTT(30) DEF Numbered
    <3> QED  BY <3>1, <3>3
  <2> HIDE DEF names
  <2>7. IsSuffix(names, p)
    BY <2>3, <2>5, <2>6, SuffixIs
  <2> QED  BY <2>2, <2>7 DEF names, p, m
<1> QED  BY <1>1, SaneAlways, PTL

=============================================================================
