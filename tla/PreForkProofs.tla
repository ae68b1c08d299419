--------------------------- MODULE PreForkProofs ---------------------------
(***************************************************************************)
(* What holds of PreFork for every number of pids and every configuration. *)
(***************************************************************************)
EXTENDS PreFork, FiniteSetTheorems, SequenceTheorems, TLAPS

\* select said the pipe is readable, and only the parent takes lines out of it.
ReadHasLine == phase \in {"ready", "read"} => pipe # <<>>

\* Nothing unread is about a dequeue process, or announces the exit of a child
\* that has not announced it.
LinesAreOld ==
  \A l \in Unread : /\ children[l.pid] # "dequeue"
                    /\ l.status = "exiting" => pc[l.pid] \notin Talking

\* After the close there is no entry.
DownIsEmpty == phase = "down" => \A p \in Pids : children[p] = "none"

\* The table is never larger than the configuration allows.
TableBound == Total(books) <= Ceiling

IInv ==
  /\ TypeOK
  /\ ReadHasLine
  /\ TallyMatchesTable
  /\ DequeueNotOvercounted
  /\ TableBound
  /\ TalkingIsTracked
  /\ LinesAreOld
  /\ DownIsEmpty
  /\ ReapedAreGone
  /\ ServingBound
-----------------------------------------------------------------------------
(* The parent's books.                                                     *)

Tables == [Pids -> Statuses \cup {"none"}]
Books  == [ch : Tables, n : [Statuses -> Int]]

\* The tally agrees with the table; it may only miss dequeue processes.
Exact(b) ==
  /\ \A s \in {"waiting", "processing"} : b.n[s] = Cardinality(Having(b.ch, s))
  /\ b.n["dequeue"] <= Cardinality(Having(b.ch, "dequeue"))

\* A status belongs to finitely many entries.
LEMMA HavingFinite ==
  ASSUME NEW ch, NEW s
  PROVE  IsFiniteSet(Having(ch, s)) /\ Cardinality(Having(ch, s)) \in Nat
<1>1. Having(ch, s) \subseteq Pids
  BY DEF Having
<1> QED  BY <1>1, PidsAssumption, FS_Subset, FS_CardinalityType

\* The entries of status s that go when those of S are deleted.
Gone(b, S, s) == {p \in S : b.ch[p] = s}

\* Deleting takes off a part of each status.
LEMMA GoneFinite ==
  ASSUME NEW b, NEW S \in SUBSET Pids, NEW s
  PROVE  /\ IsFiniteSet(Gone(b, S, s)) /\ Cardinality(Gone(b, S, s)) \in Nat
         /\ Gone(b, S, s) \subseteq Having(b.ch, s)
<1>1. Gone(b, S, s) \subseteq Having(b.ch, s)
  BY DEF Gone, Having
<1> QED  BY <1>1, HavingFinite, FS_Subset, FS_CardinalityType

\* delete_child keeps the tally exact and never lets the total grow.
LEMMA DeleteExact ==
  ASSUME NEW b \in Books, NEW S \in SUBSET Pids
  PROVE  /\ delete_child(b, S) \in Books
         /\ Exact(b) => Exact(delete_child(b, S))
         /\ Total(delete_child(b, S)) <= Total(b)
<1> DEFINE d == delete_child(b, S)
<1>1. /\ d = [ch |-> [p \in Pids |-> IF p \in S THEN "none" ELSE b.ch[p]],
              n  |-> [s \in Statuses |-> b.n[s] - Cardinality(Gone(b, S, s))]]
      /\ b.ch \in Tables /\ b.n \in [Statuses -> Int]
  BY DEF Books, Gone, delete_child
<1>2. ASSUME NEW s \in Statuses
      PROVE  /\ Cardinality(Having(d.ch, s)) = Cardinality(Having(b.ch, s)) - Cardinality(Gone(b, S, s))
             /\ d.n[s] = b.n[s] - Cardinality(Gone(b, S, s))
             /\ b.n[s] \in Int /\ Cardinality(Gone(b, S, s)) \in Nat
  <2>1. Having(d.ch, s) = Having(b.ch, s) \ Gone(b, S, s)
    BY <1>1, <1>2 DEF Having, Statuses, Gone
  <2>2. Having(b.ch, s) \cap Gone(b, S, s) = Gone(b, S, s)
    BY GoneFinite
  <2>3. Cardinality(Having(d.ch, s)) = Cardinality(Having(b.ch, s)) - Cardinality(Gone(b, S, s))
    BY <2>1, <2>2, HavingFinite, FS_Difference
  <2>4. d.n[s] = b.n[s] - Cardinality(Gone(b, S, s)) /\ b.n[s] \in Int
    BY <1>1, <1>2
  <2> QED  BY <2>3, <2>4, GoneFinite
<1>3. d \in Books
  <2>1. [p \in Pids |-> IF p \in S THEN "none" ELSE b.ch[p]] \in Tables
    BY <1>1 DEF Tables
  <2>2. \A s \in Statuses : b.n[s] - Cardinality(Gone(b, S, s)) \in Int
    BY <1>2
  <2>3. [s \in Statuses |-> b.n[s] - Cardinality(Gone(b, S, s))] \in [Statuses -> Int]
    BY <2>2
  <2> QED  BY <1>1, <2>1, <2>3 DEF Books
<1>4. "waiting" \in Statuses /\ "processing" \in Statuses /\ "dequeue" \in Statuses
  BY DEF Statuses
<1> HIDE DEF d
<1>5. Exact(b) => Exact(d)
  BY <1>2, <1>4, HavingFinite DEF Exact
<1>6. Total(d) <= Total(b)
  BY <1>2, <1>4 DEF Total
<1> QED  BY <1>3, <1>5, <1>6 DEF d

\* Forking children that have no entry yet adds their number to the total.
LEMMA ForkExact ==
  ASSUME NEW b \in Books, NEW S \in SUBSET Pids, \A p \in S : b.ch[p] = "none"
  PROVE  /\ run_n_children(b, S) \in Books
         /\ Exact(b) => Exact(run_n_children(b, S))
         /\ Total(run_n_children(b, S)) = Total(b) + Cardinality(S)
<1> DEFINE r == run_n_children(b, S)
<1>1. IsFiniteSet(S) /\ Cardinality(S) \in Nat
  BY PidsAssumption, FS_Subset, FS_CardinalityType
<1>2. r \in Books
  BY <1>1 DEF Books, Tables, run_n_children, Statuses
<1>3. Having(r.ch, "waiting") = Having(b.ch, "waiting") \cup S
  BY DEF Having, run_n_children
<1>4. Having(b.ch, "waiting") \cap S = {}
  BY DEF Having
<1>5. Cardinality(Having(r.ch, "waiting")) = Cardinality(Having(b.ch, "waiting")) + Cardinality(S)
  BY <1>1, <1>3, <1>4, HavingFinite, FS_Union, FS_EmptySet
<1>6. /\ Having(r.ch, "processing") = Having(b.ch, "processing")
      /\ Having(r.ch, "dequeue") = Having(b.ch, "dequeue")
  BY DEF Having, run_n_children
<1>7. /\ r.n["waiting"] = b.n["waiting"] + Cardinality(S)
      /\ r.n["processing"] = b.n["processing"]
      /\ r.n["dequeue"] = b.n["dequeue"]
      /\ b.n["waiting"] \in Int /\ b.n["processing"] \in Int
  BY DEF Books, run_n_children, Statuses
<1> QED  BY <1>1, <1>2, <1>5, <1>6, <1>7 DEF Exact, Total

\* The tally counted anew is exact, and the same if it was exact before.
LEMMA RetallyExact ==
  ASSUME NEW b \in Books
  PROVE  /\ Retally(b) \in Books
         /\ Exact(b) => Exact(Retally(b)) /\ Total(Retally(b)) = Total(b)
<1>1. \A s \in Statuses : Cardinality(Having(b.ch, s)) \in Int
  BY HavingFinite
<1>2. [s \in Statuses |-> Cardinality(Having(b.ch, s))] \in [Statuses -> Int]
  BY <1>1
<1>3. Retally(b) = [ch |-> b.ch, n |-> [s \in Statuses |-> Cardinality(Having(b.ch, s))]]
  BY DEF Retally, Books, Counts
<1>4. Retally(b) \in Books
  BY <1>2, <1>3 DEF Books
<1>5. "waiting" \in Statuses /\ "processing" \in Statuses /\ "dequeue" \in Statuses
  BY DEF Statuses
<1> QED  BY <1>1, <1>3, <1>4, <1>5 DEF Exact, Total

\* run_dequeue, which does not count its process, disturbs no other count.
LEMMA DequeueExact ==
  ASSUME NEW b \in Books, NEW S \in SUBSET Pids, \A p \in S : b.ch[p] = "none"
  PROVE  /\ run_dequeue(b, S) \in Books
         /\ run_dequeue(b, S).n = b.n
         /\ Exact(b) => Exact(run_dequeue(b, S))
         /\ Total(run_dequeue(b, S)) = Total(b)
<1> DEFINE r == run_dequeue(b, S)
<1>1. r = [ch |-> [p \in Pids |-> IF p \in S THEN "dequeue" ELSE b.ch[p]], n |-> b.n]
  BY DEF run_dequeue, Books
<1>2. [p \in Pids |-> IF p \in S THEN "dequeue" ELSE b.ch[p]] \in Tables
  BY DEF Books, Tables, Statuses
<1>3. r \in Books
  BY <1>1, <1>2 DEF Books
<1>4. ASSUME NEW s \in {"waiting", "processing"}
      PROVE  Having(r.ch, s) = Having(b.ch, s)
  BY <1>1 DEF Having
<1>5. r.n = b.n /\ b.n["dequeue"] \in Int
  BY <1>1 DEF Books, Statuses
<1>6. Cardinality(Having(b.ch, "dequeue")) <= Cardinality(Having(r.ch, "dequeue"))
  <2>1. Having(b.ch, "dequeue") \subseteq Having(r.ch, "dequeue")
    BY <1>1 DEF Having
  <2> QED  BY <2>1, HavingFinite, FS_Subset
<1> QED  BY <1>3, <1>4, <1>5, <1>6, HavingFinite DEF Exact, Total

\* A line moves one entry from one count to the other.
LEMMA ChangeExact ==
  ASSUME NEW b \in Books, NEW p \in Pids, NEW s \in {"waiting", "processing"},
         b.ch[p] \in {"waiting", "processing"}
  PROVE  /\ ChangeStatus(b, p, s) \in Books
         /\ ChangeStatus(b, p, s).ch = [b.ch EXCEPT ![p] = s]
         /\ Exact(b) => Exact(ChangeStatus(b, p, s))
         /\ Total(ChangeStatus(b, p, s)) = Total(b)
<1> DEFINE c == ChangeStatus(b, p, s)
           t == b.ch[p]
<1>0. /\ b.ch \in Tables /\ b.n \in [Statuses -> Int]
      /\ t \in Statuses /\ s \in Statuses
      /\ "waiting" \in Statuses /\ "processing" \in Statuses
  BY DEF Books, Statuses
<1>1. c.ch = [b.ch EXCEPT ![p] = s]
  BY DEF ChangeStatus
<1>2. c.n = [[b.n EXCEPT ![t] = @ - 1] EXCEPT ![s] = @ + 1]
  BY DEF ChangeStatus
<1>3. c \in Books
  <2>1. c.ch \in Tables
    BY <1>0, <1>1 DEF Tables
  <2>2. c.n \in [Statuses -> Int]
    BY <1>0, <1>2
  <2>3. c = [ch |-> c.ch, n |-> c.n]
    BY DEF ChangeStatus
  <2> QED  BY <2>1, <2>2, <2>3 DEF Books
<1>4. CASE s = t
  <2>1. c.ch = b.ch /\ c.n = b.n
    BY <1>0, <1>1, <1>2, <1>4 DEF Tables
  <2> QED  BY <1>1, <1>3, <2>1 DEF Exact, Total
<1>5. CASE s # t
  <2>0. \A q \in Pids : c.ch[q] = IF q = p THEN s ELSE b.ch[q]
    BY <1>0, <1>1 DEF Tables
  <2>1. Having(c.ch, t) = Having(b.ch, t) \ {p} /\ p \in Having(b.ch, t)
    BY <1>5, <2>0, SMTT(30) DEF Having
  <2>2. Having(c.ch, s) = Having(b.ch, s) \cup {p} /\ p \notin Having(b.ch, s)
    BY <1>5, <2>0, SMTT(30) DEF Having
  <2>3. Cardinality(Having(c.ch, t)) = Cardinality(Having(b.ch, t)) - 1
    <3> DEFINE H == Having(b.ch, t)
               G == Having(c.ch, t)
    <3>1. IsFiniteSet(H)
      BY HavingFinite
    <3>2. G = H \ {p} /\ p \in H
      BY <2>1
    <3> HIDE DEF H, G, c, t
    <3>3. Cardinality(G) = Cardinality(H) - 1
      BY <3>1, <3>2, FS_RemoveElement
    <3> QED
      BY <3>3 DEF H, G
  <2>4. Cardinality(Having(c.ch, s)) = Cardinality(Having(b.ch, s)) + 1
    <3> DEFINE H == Having(b.ch, s)
               G == Having(c.ch, s)
    <3>1. IsFiniteSet(H)
      BY HavingFinite
    <3>2. G = H \cup {p} /\ p \notin H
      BY <2>2
    <3> HIDE DEF H, G, c, t
    <3>3. Cardinality(G) = Cardinality(H) + 1
      BY <3>1, <3>2, FS_AddElement
    <3> QED
      BY <3>3 DEF H, G
  <2>5. c.n[t] = b.n[t] - 1 /\ c.n[s] = b.n[s] + 1 /\ b.n[t] \in Int /\ b.n[s] \in Int
    BY <1>0, <1>2, <1>5
  <2>6. \/ s = "waiting" /\ t = "processing"
        \/ s = "processing" /\ t = "waiting"
    BY <1>5
  <2>9. Having(c.ch, "dequeue") = Having(b.ch, "dequeue") /\ c.n["dequeue"] = b.n["dequeue"]
    BY <1>0, <1>2, <2>0, <2>6, SMTT(30) DEF Having, Statuses
  <2> HIDE DEF c, t
  <2>7. Exact(b) => Exact(c)
    BY <2>3, <2>4, <2>5, <2>6, <2>9 DEF Exact
  <2>8. Total(c) = Total(b)
    BY <2>5, <2>6 DEF Total
  <2> QED  BY <1>1, <1>3, <2>7, <2>8 DEF c
<1> QED  BY <1>4, <1>5

\* coordinate_children never forks past the ceiling.
LEMMA WantedBound ==
  ASSUME NEW b \in Books, Total(b) <= Ceiling
  PROVE  Wanted(b) \in Nat /\ Total(b) + Wanted(b) <= Ceiling
<1>1. b.n["waiting"] \in Int /\ b.n["processing"] \in Int
  BY DEF Books, Statuses
<1>2. Total(b) \in Int
  BY <1>1 DEF Total
<1> QED  BY <1>1, <1>2, ConfigAssumption DEF post_configure, Wanted, Min2, Ceiling

\* Children that have an entry are no more than the entries.
LEMMA ServingCounted ==
  ASSUME NEW b \in Books, Exact(b), NEW procs,
         \A p \in Pids : procs[p] \in Serving => b.ch[p] \in {"waiting", "processing"}
  PROVE  Cardinality({p \in Pids : procs[p] \in Serving}) <= Total(b)
<1> DEFINE W == Having(b.ch, "waiting")
           P == Having(b.ch, "processing")
           S == {p \in Pids : procs[p] \in Serving}
<1>1. S \subseteq W \cup P
  BY DEF Having
<1>2. W \cap P = {}
  BY DEF Having
<1>3. /\ IsFiniteSet(W) /\ IsFiniteSet(P)
      /\ Cardinality(W) \in Nat /\ Cardinality(P) \in Nat
  BY HavingFinite
<1>4. IsFiniteSet(W \cup P) /\ Cardinality(W \cup P) = Cardinality(W) + Cardinality(P)
  BY <1>2, <1>3, FS_Union, FS_EmptySet
<1>5. Cardinality(S) <= Cardinality(W \cup P)
  BY <1>1, <1>4, FS_Subset
<1> QED  BY <1>4, <1>5 DEF Exact, Total
-----------------------------------------------------------------------------
(* The books and the processes together: what coordinate_children keeps at *)
(* each of its stages.                                                     *)

Tracked(ch, procs) ==
  \A p \in Pids : procs[p] \in Talking => ch[p] \in {"waiting", "processing"}

LinesFit(lines, ch, procs) ==
  \A l \in lines : /\ l.pid \in Pids
                   /\ ch[l.pid] # "dequeue"
                   /\ l.status = "exiting" => procs[l.pid] \notin Talking

Sound(b, procs) ==
  /\ b \in Books /\ Exact(b) /\ Total(b) <= Ceiling
  /\ procs \in [Pids -> ChildPCs]
  /\ Tracked(b.ch, procs)
  /\ LinesFit(Unread, b.ch, procs)

\* Totals are numbers.
LEMMA TotalInt ==
  ASSUME NEW b \in Books
  PROVE  Total(b) \in Int /\ Ceiling \in Nat
BY ConfigAssumption DEF post_configure, Books, Statuses, Total, Ceiling

\* Entries of processes that have nothing more to say may be deleted.
LEMMA DeleteSound ==
  ASSUME NEW b, NEW procs, Sound(b, procs), NEW S \in SUBSET Pids,
         \A p \in S : procs[p] \notin Talking
  PROVE  Sound(delete_child(b, S), procs)
<1> DEFINE d == delete_child(b, S)
<1>0. b \in Books
  BY DEF Sound
<1>1. d \in Books /\ (Exact(b) => Exact(d)) /\ Total(d) <= Total(b)
  BY <1>0, DeleteExact
<1>2. d.ch = [p \in Pids |-> IF p \in S THEN "none" ELSE b.ch[p]]
  BY DEF delete_child
<1> HIDE DEF d
<1>3. Total(d) <= Ceiling
  BY <1>0, <1>1, TotalInt DEF Sound
<1>4. Tracked(d.ch, procs) /\ LinesFit(Unread, d.ch, procs)
  BY <1>2 DEF Sound, Tracked, LinesFit
<1> QED  BY <1>1, <1>3, <1>4 DEF Sound, d

\* Counting anew keeps the books sound.
LEMMA RetallySound ==
  ASSUME NEW b, NEW procs, Sound(b, procs)
  PROVE  Sound(Retally(b), procs)
<1>1. b \in Books
  BY DEF Sound
<1>2. Retally(b).ch = b.ch
  BY <1>1 DEF Retally, Books
<1> QED  BY <1>1, <1>2, RetallyExact DEF Sound

\* New children are recorded under pids of which nothing is left.
LEMMA ForkSound ==
  ASSUME NEW b, NEW procs, Sound(b, procs), NEW F \in SUBSET FreePids(b, procs),
         Total(b) + Cardinality(F) <= Ceiling
  PROVE  Sound(run_n_children(b, F), [p \in Pids |-> IF p \in F THEN "born" ELSE procs[p]])
<1> DEFINE r == run_n_children(b, F)
           new == [p \in Pids |-> IF p \in F THEN "born" ELSE procs[p]]
<1>0. b \in Books
  BY DEF Sound
<1>1. F \in SUBSET Pids /\ \A p \in F : b.ch[p] = "none"
  BY DEF FreePids
<1>2. r \in Books /\ (Exact(b) => Exact(r)) /\ Total(r) = Total(b) + Cardinality(F)
  BY <1>0, <1>1, ForkExact
<1>3. r.ch = [p \in Pids |-> IF p \in F THEN "waiting" ELSE b.ch[p]]
  BY DEF run_n_children
<1> HIDE DEF r
<1>4. new \in [Pids -> ChildPCs]
  BY DEF Sound, ChildPCs, Running, Talking, Serving
<1>5. Tracked(r.ch, new)
  BY <1>3 DEF Sound, Tracked
<1>6. \A l \in Unread : l.pid \notin F
  BY DEF FreePids
<1>7. LinesFit(Unread, r.ch, new)
  BY <1>3, <1>6 DEF Sound, LinesFit
<1> HIDE DEF new
<1>8. r \in Books /\ Exact(r) /\ Total(r) <= Ceiling
  BY <1>2 DEF Sound
<1>9. Sound(r, new)
  BY <1>4, <1>5, <1>7, <1>8 DEF Sound
<1> QED  BY <1>9 DEF r, new

\* So does a dequeue process under a fresh pid.
LEMMA DequeueSound ==
  ASSUME NEW b, NEW procs, Sound(b, procs), NEW Q \in SUBSET FreePids(b, procs)
  PROVE  Sound(run_dequeue(b, Q), [p \in Pids |-> IF p \in Q THEN "dequeue" ELSE procs[p]])
<1> DEFINE r == run_dequeue(b, Q)
           new == [p \in Pids |-> IF p \in Q THEN "dequeue" ELSE procs[p]]
<1>0. b \in Books
  BY DEF Sound
<1>1. Q \in SUBSET Pids /\ \A p \in Q : b.ch[p] = "none"
  BY DEF FreePids
<1>2. r \in Books /\ (Exact(b) => Exact(r)) /\ Total(r) = Total(b)
  BY <1>0, <1>1, DequeueExact
<1>3. r.ch = [p \in Pids |-> IF p \in Q THEN "dequeue" ELSE b.ch[p]]
  BY <1>0 DEF run_dequeue, Books
<1> HIDE DEF r
<1>4. new \in [Pids -> ChildPCs]
  BY DEF Sound, ChildPCs, Running, Talking, Serving
<1>5. Tracked(r.ch, new)
  BY <1>3 DEF Sound, Tracked, Talking, Serving
<1>6. \A l \in Unread : l.pid \notin Q
  BY DEF FreePids
<1>7. LinesFit(Unread, r.ch, new)
  BY <1>3, <1>6 DEF Sound, LinesFit
<1> HIDE DEF new
<1>8. r \in Books /\ Exact(r) /\ Total(r) <= Ceiling
  BY <1>2 DEF Sound
<1>9. Sound(r, new)
  BY <1>4, <1>5, <1>7, <1>8 DEF Sound
<1> QED  BY <1>9 DEF r, new

\* The variables, read as books, are exact when the tally is as it should be.
LEMMA BooksFacts ==
  ASSUME TypeOK
  PROVE  books \in Books /\ (Exact(books) <=> TallyMatchesTable /\ DequeueNotOvercounted)
BY DEF TypeOK, books, Books, Tables, Exact, TallyMatchesTable, DequeueNotOvercounted

\* In the invariant, as long as the parent runs, the books are sound.
LEMMA InvSound ==
  ASSUME IInv, phase # "down"
  PROVE  Sound(books, pc)
<1>1. TypeOK
  BY DEF IInv
<1>2. books \in Books /\ Exact(books) /\ books.ch = children
  BY <1>1, BooksFacts DEF IInv, books
<1>3. \A l \in Unread : l.pid \in Pids
  <2>1. \A l \in Unread : l \in Lines
    BY <1>1 DEF Unread, TypeOK
  <2> QED  BY <2>1 DEF Lines
<1>4. Tracked(books.ch, pc)
  BY <1>2 DEF IInv, TalkingIsTracked, Tracked
<1>5. LinesFit(Unread, books.ch, pc)
  BY <1>2, <1>3 DEF IInv, LinesAreOld, LinesFit
<1>6. Total(books) <= Ceiling /\ pc \in [Pids -> ChildPCs]
  BY <1>1 DEF IInv, TableBound, TypeOK
<1> QED  BY <1>2, <1>4, <1>5, <1>6 DEF Sound

\* And the invariant follows from sound books where no unread line is new.
LEMMA SoundInv ==
  ASSUME NEW b, Sound(b, pc'), b = [ch |-> children', n |-> tally'],
         phase' \in Phases \ {"down"}, phase' \in {"ready", "read"} => pipe' # <<>>,
         reaped' \in SUBSET Pids, \A p \in reaped' : pc'[p] = "none",
         justProcessed' \in BOOLEAN,
         pipe' \in Seq(Lines), buf' \in Seq(Lines), Unread' \subseteq Unread,
         pending' \in [Pids -> SUBSET {"HUP", "TERM"}],
         SigHUPed' \in [Pids -> BOOLEAN]
  PROVE  IInv'
<1>1. /\ b \in Books /\ Exact(b) /\ Total(b) <= Ceiling
      /\ pc' \in [Pids -> ChildPCs] /\ Tracked(children', pc') /\ LinesFit(Unread, children', pc')
  BY DEF Sound
<1>2. TypeOK'
  BY <1>1 DEF TypeOK, Books, Tables
<1>3. TallyMatchesTable' /\ DequeueNotOvercounted' /\ TableBound'
  BY <1>1 DEF TallyMatchesTable, DequeueNotOvercounted, Exact, TableBound, Total, books
<1>4. TalkingIsTracked'
  BY <1>1 DEF TalkingIsTracked, Tracked
<1>6. LinesAreOld'
  <2>1. \A l \in Unread : /\ children'[l.pid] # "dequeue"
                          /\ l.status = "exiting" => pc'[l.pid] \notin Talking
    BY <1>1 DEF LinesFit
  <2> QED  BY <2>1 DEF LinesAreOld
<1>7. ServingBound'
  <2>1. \A p \in Pids : pc'[p] \in Serving => b.ch[p] \in {"waiting", "processing"}
    BY <1>1 DEF Tracked, Talking
  <2>2. Cardinality({p \in Pids : pc'[p] \in Serving}) <= Total(b)
    BY <1>1, <2>1, ServingCounted
  <2>3. Cardinality({p \in Pids : pc'[p] \in Serving}) \in Nat
    BY PidsAssumption, FS_Subset, FS_CardinalityType
  <2> QED  BY <1>1, <2>2, <2>3, TotalInt DEF ServingBound
<1> QED
  BY <1>2, <1>3, <1>4, <1>6, <1>7 DEF IInv, ReadHasLine, DownIsEmpty, ReapedAreGone

-----------------------------------------------------------------------------
(* The steps.                                                              *)

\* Every step of a child: it may stop serving or talking but not begin, and
\* what it says is true when it says it.
LEMMA ChildKeeps ==
  ASSUME IInv, NEW p \in Pids, NEW x \in ChildPCs,
         UNCHANGED parent, buf' = buf,
         pc[p] # "none", pc' = [pc EXCEPT ![p] = x],
         x \in Serving => pc[p] \in Serving,
         x \in Talking => pc[p] \in Talking,
         pending' \in [Pids -> SUBSET {"HUP", "TERM"}],
         SigHUPed' \in [Pids -> BOOLEAN],
         \/ pipe' = pipe
         \/ \E st \in {"waiting", "processing", "exiting"} :
              /\ pc[p] \in Talking
              /\ st = "exiting" => x \notin Talking
              /\ pipe' = Append(pipe, [pid |-> p, status |-> st])
  PROVE  IInv'
<1>0. TypeOK
  BY DEF IInv
<1>1. TypeOK'
  <2>1. pc' \in [Pids -> ChildPCs]
    BY <1>0 DEF TypeOK
  <2>2. ASSUME NEW st \in {"waiting", "processing", "exiting"}
        PROVE  [pid |-> p, status |-> st] \in Lines
    BY DEF Lines
  <2>3. pipe' \in Seq(Lines)
    <3>1. pipe \in Seq(Lines) /\ <<>> \in Seq(Lines)
      BY <1>0 DEF TypeOK
    <3>2. ASSUME NEW l \in Lines
          PROVE  Append(pipe, l) \in Seq(Lines)
      BY <3>1
    <3> QED  BY <2>2, <3>1, <3>2
  <2> QED  BY <1>0, <2>1, <2>3 DEF TypeOK, parent
<1>2. ReadHasLine'
  BY <1>0 DEF IInv, ReadHasLine, parent, TypeOK
<1>3. TallyMatchesTable' /\ DequeueNotOvercounted' /\ TableBound'
  BY DEF IInv, TallyMatchesTable, DequeueNotOvercounted, TableBound, books, Total, parent
<1>4. TalkingIsTracked'
  BY <1>0 DEF IInv, TalkingIsTracked, parent, TypeOK
<1>5. LinesAreOld'
  <2> SUFFICES ASSUME NEW l \in Unread'
               PROVE  /\ children[l.pid] # "dequeue"
                      /\ l.status = "exiting" => pc'[l.pid] \notin Talking
    BY DEF LinesAreOld, parent
  <2>1. CASE l \in Unread
    BY <1>0, <2>1 DEF IInv, LinesAreOld, TypeOK
  <2>2. CASE l \notin Unread
    <3>1. PICK st \in {"waiting", "processing", "exiting"} :
            /\ pc[p] \in Talking
            /\ st = "exiting" => x \notin Talking
            /\ pipe' = Append(pipe, [pid |-> p, status |-> st])
      BY <2>2 DEF Unread
    <3>2. l = [pid |-> p, status |-> st]
      BY <1>0, <2>2, <3>1 DEF Unread, TypeOK
    <3>3. children[p] # "dequeue"
      BY <3>1 DEF IInv, TalkingIsTracked, DownIsEmpty
    <3> QED  BY <1>0, <3>1, <3>2, <3>3 DEF TypeOK
  <2> QED  BY <2>1, <2>2
<1>6. DownIsEmpty'
  BY DEF IInv, DownIsEmpty, parent
<1>7. ReapedAreGone'
  BY <1>0 DEF IInv, ReapedAreGone, parent, TypeOK
<1>8. ServingBound'
  <2> DEFINE S == {q \in Pids : pc[q] \in Serving}
             T == {q \in Pids : pc'[q] \in Serving}
  <2>1. T \subseteq S
    BY <1>0 DEF TypeOK
  <2>2. IsFiniteSet(S) /\ Cardinality(S) \in Nat
    BY PidsAssumption, FS_Subset, FS_CardinalityType
  <2>3. Cardinality(T) \in Nat /\ Cardinality(T) <= Cardinality(S)
    BY <2>1, <2>2, FS_Subset, FS_CardinalityType
  <2>4. Cardinality(S) <= Ceiling /\ Ceiling \in Nat
    BY ConfigAssumption DEF post_configure, IInv, ServingBound, Ceiling
  <2> QED  BY <2>2, <2>3, <2>4 DEF ServingBound
<1> QED  BY <1>1, <1>2, <1>3, <1>4, <1>5, <1>6, <1>7, <1>8 DEF IInv

\* What the end of a process, an unfinished or a finished, leaves behind.
LEMMA ExitsKeep ==
  ASSUME IInv, NEW p \in Pids, pc[p] # "none", Exits(p), UNCHANGED <<parent, pipe, buf>>
  PROVE  IInv'
<1>1. PICK x \in {"zombie", "none"} : pc' = [pc EXCEPT ![p] = x]
  BY DEF Exits
<1>2. x \in ChildPCs /\ x \notin Talking /\ x \notin Serving
  BY DEF ChildPCs, Talking, Serving
<1>3. /\ pending' \in [Pids -> SUBSET {"HUP", "TERM"}]
      /\ SigHUPed' \in [Pids -> BOOLEAN]
  BY DEF IInv, TypeOK, Exits
<1> QED  BY <1>1, <1>2, <1>3, ChildKeeps

\* Each step of a child is of the form that ChildKeeps allows.
LEMMA ChildStepsKeep ==
  ASSUME IInv, NEW p \in Pids,
         ChildStep(p) \/ Accept(p) \/ AcceptFails(p) \/ EndClient(p) \/ LastClient(p) \/ Crash(p)
  PROVE  IInv'
<1>0. TypeOK
  BY DEF IInv
<1> USE DEF ChildPCs, Running, Talking, Serving
<1>1. CASE RunChild(p)
  <2>1. /\ pc[p] = "born" /\ pc' = [pc EXCEPT ![p] = "accept"]
        /\ UNCHANGED <<parent, pipe, buf, pending, SigHUPed>>
    BY <1>1 DEF RunChild, Goto
  <2> QED  BY <1>0, <2>1, ChildKeeps DEF TypeOK
<1>2. CASE Accept(p)
  <2>1. /\ pc[p] = "accept" /\ pc' = [pc EXCEPT ![p] = "accepted"]
        /\ UNCHANGED <<parent, pipe, buf, pending, SigHUPed>>
    BY <1>2 DEF Accept, Goto
  <2> QED  BY <1>0, <2>1, ChildKeeps DEF TypeOK
<1>3. CASE AcceptFails(p)
  <2>1. /\ pc[p] = "accept" /\ pc' = [pc EXCEPT ![p] = "refused"]
        /\ UNCHANGED <<parent, pipe, buf, pending, SigHUPed>>
    BY <1>3 DEF AcceptFails, Goto
  <2> QED  BY <1>0, <2>1, ChildKeeps DEF TypeOK
<1>4. CASE EndClient(p)
  <2>1. /\ pc[p] = "serving" /\ pc' = [pc EXCEPT ![p] = "idle"]
        /\ UNCHANGED <<parent, pipe, buf, pending, SigHUPed>>
    BY <1>4 DEF EndClient, Goto
  <2> QED  BY <1>0, <2>1, ChildKeeps DEF TypeOK
<1>5. CASE LastClient(p)
  <2>1. /\ pc[p] = "serving" /\ pc' = [pc EXCEPT ![p] = "leaving"]
        /\ UNCHANGED <<parent, pipe, buf, pending, SigHUPed>>
    BY <1>5 DEF LastClient, Goto
  <2> QED  BY <1>0, <2>1, ChildKeeps DEF TypeOK
<1>6. CASE StartClient(p)
  <2>1. /\ pc[p] = "accepted" /\ pc' = [pc EXCEPT ![p] = "serving"]
        /\ UNCHANGED <<parent, buf, pending, SigHUPed>>
        /\ pipe' = Append(pipe, [pid |-> p, status |-> "processing"])
    BY <1>6 DEF StartClient, Goto, Say
  <2> QED  BY <1>0, <2>1, ChildKeeps DEF TypeOK
<1>7. CASE NextClient(p)
  <2>1. /\ pc[p] = "idle" /\ pc' = [pc EXCEPT ![p] = "accept"]
        /\ UNCHANGED <<parent, buf, pending, SigHUPed>>
        /\ pipe' = Append(pipe, [pid |-> p, status |-> "waiting"])
    BY <1>7 DEF NextClient, Goto, Say
  <2> QED  BY <1>0, <2>1, ChildKeeps DEF TypeOK
<1>8. CASE Leave(p)
  <2>1. /\ pc[p] \in {"leaving", "refused"} /\ pc' = [pc EXCEPT ![p] = "exiting"]
        /\ UNCHANGED <<parent, buf, pending, SigHUPed>>
        /\ pipe' = Append(pipe, [pid |-> p, status |-> "exiting"])
    BY <1>8 DEF Leave, Goto, Say
  <2> QED  BY <1>0, <2>1, ChildKeeps DEF TypeOK
<1>9. CASE Exit(p)
  BY <1>9, ExitsKeep DEF Exit
<1>10. CASE Crash(p)
  BY <1>10, ExitsKeep DEF Crash
<1>11. CASE HandleSignal(p)
  <2>1. pc[p] # "none" /\ UNCHANGED <<parent, pipe, buf>>
    BY <1>11 DEF HandleSignal
  <2>2. PICK sig \in pending[p] :
          \/ /\ pc[p] \in {"born", "dequeue"}
             /\ pending' = [pending EXCEPT ![p] = @ \ {sig}]
             /\ UNCHANGED <<pc, SigHUPed>>
          \/ /\ Postponed(p, sig)
             /\ pending' = [pending EXCEPT ![p] = @ \ {sig}]
             /\ SigHUPed' = [SigHUPed EXCEPT ![p] = TRUE]
             /\ UNCHANGED pc
          \/ /\ pc[p] \notin {"born", "dequeue"}
             /\ ~Postponed(p, sig)
             /\ Exits(p)
    BY <1>11 DEF HandleSignal
  <2>3. ASSUME pending' = [pending EXCEPT ![p] = @ \ {sig}], UNCHANGED pc,
               SigHUPed' \in [Pids -> BOOLEAN]
        PROVE  IInv'
    <3>1. pc' = [pc EXCEPT ![p] = pc[p]] /\ pc[p] \in ChildPCs
      BY <1>0, <2>3 DEF TypeOK
    <3>2. pending' \in [Pids -> SUBSET {"HUP", "TERM"}]
      BY <1>0, <2>3 DEF TypeOK
    <3> QED  BY <2>1, <2>3, <3>1, <3>2, ChildKeeps
  <2>4. CASE Exits(p)
    BY <2>1, <2>4, ExitsKeep
  <2>5. CASE /\ pending' = [pending EXCEPT ![p] = @ \ {sig}] /\ UNCHANGED pc
             /\ SigHUPed' = SigHUPed \/ SigHUPed' = [SigHUPed EXCEPT ![p] = TRUE]
    BY <1>0, <2>3, <2>5 DEF TypeOK
  <2> QED  BY <2>2, <2>4, <2>5
<1> QED
  BY <1>1, <1>2, <1>3, <1>4, <1>5, <1>6, <1>7, <1>8, <1>9, <1>10, <1>11 DEF ChildStep

\* kill_n_children picks among the pids of the table.
LEMMA VictimsArePids ==
  ASSUME NEW b, NEW n, NEW V \in Victims(b, n)
  PROVE  V \in SUBSET Pids
<1>1. Having(b.ch, "waiting") \subseteq Pids
  BY DEF Having
<1>2. CASE n <= 0
  BY <1>2 DEF Victims
<1>3. CASE ~(n <= 0)
  BY <1>1, <1>3 DEF Victims
<1> QED  BY <1>2, <1>3

\* kill_n_children and the probe delete only entries without a process.
LEMMA KillSound ==
  ASSUME NEW b, NEW procs, Sound(b, procs), NEW V \in SUBSET Pids
  PROVE  Sound(kill_n_children(b, V, procs), procs)
<1>1. {p \in V : procs[p] = "none"} \in SUBSET Pids
  OBVIOUS
<1>2. \A p \in {q \in V : procs[q] = "none"} : procs[p] \notin Talking
  BY DEF Talking, Serving
<1> QED  BY <1>1, <1>2, DeleteSound DEF kill_n_children

\* The periodic probe deletes entries of processes that are no more.
LEMMA ProbeSound ==
  ASSUME NEW b, NEW procs, Sound(b, procs), NEW due
  PROVE  Sound(delete_child(b, Dead(due, procs)), procs)
<1>1. Dead(due, procs) \in SUBSET Pids /\ \A p \in Dead(due, procs) : procs[p] \notin Talking
  BY DEF Dead, Talking, Serving
<1> QED  BY <1>1, DeleteSound

\* A pass of the loop begins from sound books.
LEMMA SettledSound ==
  ASSUME IInv, phase # "down", NEW due
  PROVE  Sound(Settled(due), pc)
<1>1. Sound(books, pc)
  BY InvSound
<1>2. reaped \in SUBSET Pids /\ \A p \in reaped : pc[p] \notin Talking
  BY DEF IInv, TypeOK, ReapedAreGone, Talking, Serving
<1>3. Sound(delete_child(books, reaped), pc)
  BY <1>1, <1>2, DeleteSound
<1> QED  BY <1>3, RetallySound DEF Settled

\* Only HUP and TERM are ever pending.
LEMMA SendType ==
  ASSUME TypeOK, NEW S, NEW procs, NEW sig \in {"HUP", "TERM"}
  PROVE  Send(pending, S, sig, procs) \in [Pids -> SUBSET {"HUP", "TERM"}]
BY DEF TypeOK, Send

\* A pass of coordinate_children but for the limit of the dequeue processes: F forked, V
\* and W HUPed, Q forked to dequeue.
Pass(due, F, V, W, Q) ==
  LET b0 == Settled(due)
      b1 == run_n_children(b0, F)
      procs1 == Fork(F, "born")
      k == IF "surplus" \in due THEN Surplus(b1, Total(b0), Wanted(b0)) ELSE 0
      b2 == kill_n_children(b1, V, procs1)
      b3 == delete_child(b2, Dead(due, procs1))
      j == IF "idle" \in due /\ ~justProcessed /\ MayKill(k) THEN Idle(b3, Total(b0)) ELSE 0
      b4 == kill_n_children(b3, W, procs1)
  IN  /\ F \in SUBSET FreePids(b0, pc) /\ Cardinality(F) = Wanted(b0)
      /\ V \in SUBSET Pids /\ W \in SUBSET Pids
      /\ V \in Victims(b1, k) /\ W \in Victims(b3, j)
      /\ Q \in SUBSET FreePids(b4, procs1)
      /\ children' = run_dequeue(b4, Q).ch
      /\ tally' = b4.n
      /\ pc' = [p \in Pids |-> IF p \in Q THEN "dequeue" ELSE procs1[p]]
      /\ pending' = Send(pending, V \cup W, "HUP", procs1)

\* Every pass is of that form.
LEMMA PassStages ==
  ASSUME NEW due, coordinate_children(due)
  PROVE  \E F, V, W, Q : Pass(due, F, V, W, Q)
<1> DEFINE b0 == Settled(due)
           total == Total(b0)
           n == Wanted(b0)
<1>1. PICK F \in SUBSET FreePids(b0, pc) :
        /\ Cardinality(F) = n
        /\ LET b1     == run_n_children(b0, F)
               procs1 == Fork(F, "born")
               k      == IF "surplus" \in due THEN Surplus(b1, total, n) ELSE 0
           IN \E V \in Victims(b1, k) :
              LET b2 == kill_n_children(b1, V, procs1)
                  b3 == delete_child(b2, Dead(due, procs1))
                  j  == IF "idle" \in due /\ ~justProcessed /\ MayKill(k)
                        THEN Idle(b3, total) ELSE 0
              IN \E W \in Victims(b3, j) :
                 LET b4 == kill_n_children(b3, W, procs1)
                     q  == IF "dequeue" \in due /\ b4.n["dequeue"] < MaxDequeue
                              /\ b4.n["dequeue"] > -DriftBound THEN 1 ELSE 0
                 IN \E Q \in SUBSET FreePids(b4, procs1) :
                    /\ Cardinality(Q) = q
                    /\ children' = run_dequeue(b4, Q).ch
                    /\ tally' = b4.n
                    /\ pc' = [p \in Pids |-> IF p \in Q THEN "dequeue" ELSE procs1[p]]
                    /\ pending' = Send(pending, V \cup W, "HUP", procs1)
  BY DEF coordinate_children
<1> DEFINE b1 == run_n_children(b0, F)
           procs1 == Fork(F, "born")
           k == IF "surplus" \in due THEN Surplus(b1, total, n) ELSE 0
<1>2. PICK V \in Victims(b1, k) :
              LET b2 == kill_n_children(b1, V, procs1)
                  b3 == delete_child(b2, Dead(due, procs1))
                  j  == IF "idle" \in due /\ ~justProcessed /\ MayKill(k)
                        THEN Idle(b3, total) ELSE 0
              IN \E W \in Victims(b3, j) :
                 LET b4 == kill_n_children(b3, W, procs1)
                     q  == IF "dequeue" \in due /\ b4.n["dequeue"] < MaxDequeue
                              /\ b4.n["dequeue"] > -DriftBound THEN 1 ELSE 0
                 IN \E Q \in SUBSET FreePids(b4, procs1) :
                    /\ Cardinality(Q) = q
                    /\ children' = run_dequeue(b4, Q).ch
                    /\ tally' = b4.n
                    /\ pc' = [p \in Pids |-> IF p \in Q THEN "dequeue" ELSE procs1[p]]
                    /\ pending' = Send(pending, V \cup W, "HUP", procs1)
  BY <1>1
<1> DEFINE b2 == kill_n_children(b1, V, procs1)
           b3 == delete_child(b2, Dead(due, procs1))
           j == IF "idle" \in due /\ ~justProcessed /\ MayKill(k) THEN Idle(b3, total) ELSE 0
<1>3. PICK W \in Victims(b3, j) :
                 LET b4 == kill_n_children(b3, W, procs1)
                     q  == IF "dequeue" \in due /\ b4.n["dequeue"] < MaxDequeue
                              /\ b4.n["dequeue"] > -DriftBound THEN 1 ELSE 0
                 IN \E Q \in SUBSET FreePids(b4, procs1) :
                    /\ Cardinality(Q) = q
                    /\ children' = run_dequeue(b4, Q).ch
                    /\ tally' = b4.n
                    /\ pc' = [p \in Pids |-> IF p \in Q THEN "dequeue" ELSE procs1[p]]
                    /\ pending' = Send(pending, V \cup W, "HUP", procs1)
  BY <1>2
<1> DEFINE b4 == kill_n_children(b3, W, procs1)
<1>4. PICK Q \in SUBSET FreePids(b4, procs1) :
        /\ children' = run_dequeue(b4, Q).ch
        /\ tally' = b4.n
        /\ pc' = [p \in Pids |-> IF p \in Q THEN "dequeue" ELSE procs1[p]]
        /\ pending' = Send(pending, V \cup W, "HUP", procs1)
  BY <1>3
<1>5. V \in SUBSET Pids /\ W \in SUBSET Pids
  BY VictimsArePids
<1>6. Pass(due, F, V, W, Q)
  BY <1>1, <1>4, <1>5 DEF Pass
<1> QED  BY <1>6

\* A pass of coordinate_children: each stage keeps the books sound.
LEMMA CoordinateKeeps ==
  ASSUME IInv, NEW due \in SUBSET Timers, coordinate_children(due)
  PROVE  IInv'
<1>0. TypeOK /\ phase = "coordinate" /\ phase' = "select" /\ reaped' = {}
      /\ justProcessed' = FALSE /\ UNCHANGED <<pipe, buf, SigHUPed>>
  BY DEF IInv, coordinate_children, ForgetReaped
<1>1. PICK F, V, W, Q : Pass(due, F, V, W, Q)
  BY PassStages
<1> DEFINE b0 == Settled(due)
           procs1 == Fork(F, "born")
           b1 == run_n_children(b0, F)
           b2 == kill_n_children(b1, V, procs1)
           b3 == delete_child(b2, Dead(due, procs1))
           b4 == kill_n_children(b3, W, procs1)
           b5 == run_dequeue(b4, Q)
<1>2. /\ F \in SUBSET FreePids(b0, pc) /\ Cardinality(F) = Wanted(b0)
      /\ V \in SUBSET Pids /\ W \in SUBSET Pids
  BY <1>1 DEF Pass
<1>4. /\ Q \in SUBSET FreePids(b4, procs1)
      /\ children' = b5.ch
      /\ tally' = b4.n
      /\ pc' = [p \in Pids |-> IF p \in Q THEN "dequeue" ELSE procs1[p]]
      /\ pending' = Send(pending, V \cup W, "HUP", procs1)
  BY <1>1 DEF Pass
<1>5. Sound(b0, pc)
  BY <1>0, SettledSound
<1>6. Sound(b1, procs1)
  <2>1. b0 \in Books /\ Total(b0) <= Ceiling
    BY <1>5 DEF Sound
  <2>2. Total(b0) + Cardinality(F) <= Ceiling
    BY <1>2, <2>1, WantedBound
  <2> QED  BY <1>2, <1>5, <2>2, ForkSound DEF Fork
<1>7. Sound(b2, procs1)
  BY <1>2, <1>6, KillSound
<1>8. Sound(b3, procs1)
  BY <1>7, ProbeSound
<1>9. Sound(b4, procs1)
  BY <1>2, <1>8, KillSound
<1>10. Sound(b5, pc')
  BY <1>4, <1>9, DequeueSound
<1>11. b5 = [ch |-> children', n |-> tally']
  <2>1. b4 \in Books
    BY <1>9 DEF Sound
  <2>2. b5.n = b4.n /\ b5 \in Books
    BY <1>10, <2>1 DEF Sound, run_dequeue, Books
  <2> QED  BY <1>4, <2>2 DEF Books
<1> HIDE DEF b5, b4, b3, b2, b1, b0, procs1
<1>12. pending' \in [Pids -> SUBSET {"HUP", "TERM"}]
  BY <1>0, <1>4, SendType
<1>13. phase' \in Phases \ {"down"} /\ phase' \notin {"ready", "read"} /\ SigHUPed' \in [Pids -> BOOLEAN]
  BY <1>0 DEF Phases, TypeOK
<1>14. /\ reaped' = {} /\ justProcessed' \in BOOLEAN
       /\ pipe' \in Seq(Lines) /\ buf' \in Seq(Lines) /\ Unread' \subseteq Unread
  BY <1>0 DEF TypeOK, Unread
<1> QED  BY <1>0, <1>10, <1>11, <1>12, <1>13, <1>14, SoundInv

\* The processes that the CHLD handler collects had nothing more to say.
LEMMA CheckSigsKeeps ==
  ASSUME IInv, CheckSigs
  PROVE  IInv'
<1>0. /\ TypeOK /\ phase \in {"quiet", "ready"} /\ children' = children /\ tally' = tally
      /\ pipe' = pipe /\ buf' = buf /\ pending' = pending /\ SigHUPed' = SigHUPed
      /\ justProcessed' = justProcessed
      /\ phase' = IF phase = "ready" THEN "read" ELSE "coordinate"
      /\ reaped' = reaped \cup {p \in Pids : pc[p] = "zombie"}
      /\ pc' = [p \in Pids |-> IF pc[p] = "zombie" THEN "none" ELSE pc[p]]
  BY DEF IInv, CheckSigs
<1>1. Sound(books, pc)
  BY <1>0, InvSound
<1>2. pc' \in [Pids -> ChildPCs] /\ \A p \in Pids : pc'[p] \in Talking <=> pc[p] \in Talking
  BY <1>0 DEF TypeOK, ChildPCs, Talking, Serving
<1>3. Tracked(books.ch, pc')
  BY <1>1, <1>2 DEF Sound, Tracked
<1>4. LinesFit(Unread, books.ch, pc')
  BY <1>1, <1>2 DEF Sound, LinesFit
<1>5. Sound(books, pc')
  BY <1>1, <1>2, <1>3, <1>4 DEF Sound
<1>6. books = [ch |-> children', n |-> tally']
  BY <1>0 DEF books
<1>7. reaped' \in SUBSET Pids /\ \A p \in reaped' : pc'[p] = "none"
  BY <1>0 DEF IInv, TypeOK, ReapedAreGone
<1>8. phase' \in Phases \ {"down"} /\ (phase' \in {"ready", "read"} => pipe' # <<>>)
  BY <1>0 DEF IInv, ReadHasLine, Phases
<1>9. /\ justProcessed' \in BOOLEAN /\ pipe' \in Seq(Lines) /\ buf' \in Seq(Lines)
      /\ Unread' \subseteq Unread /\ pending' \in [Pids -> SUBSET {"HUP", "TERM"}]
      /\ SigHUPed' \in [Pids -> BOOLEAN]
  BY <1>0 DEF TypeOK, Unread
<1> QED  BY <1>5, <1>6, <1>7, <1>8, <1>9, SoundInv

\* Registering the handlers and waiting for input touch neither books nor processes.
LEMMA WaitingKeeps ==
  ASSUME IInv, RunParent \/ CanRead
  PROVE  IInv'
<1>0. /\ TypeOK /\ phase # "down" /\ phase' \in {"select", "quiet", "ready"}
      /\ phase' = "ready" => pipe # <<>>
      /\ UNCHANGED <<children, tally, reaped, justProcessed, pipe, buf, pc, pending, SigHUPed>>
  BY DEF IInv, RunParent, CanRead
<1>1. Sound(books, pc')
  BY <1>0, InvSound
<1>2. books = [ch |-> children', n |-> tally']
  BY <1>0 DEF books
<1>3. /\ reaped' \in SUBSET Pids /\ \A p \in reaped' : pc'[p] = "none"
      /\ phase' \in Phases \ {"down"} /\ (phase' \in {"ready", "read"} => pipe' # <<>>)
      /\ justProcessed' \in BOOLEAN /\ pipe' \in Seq(Lines) /\ buf' \in Seq(Lines)
      /\ Unread' \subseteq Unread /\ pending' \in [Pids -> SUBSET {"HUP", "TERM"}]
      /\ SigHUPed' \in [Pids -> BOOLEAN]
  BY <1>0 DEF IInv, TypeOK, ReapedAreGone, Phases, Unread
<1> QED  BY <1>1, <1>2, <1>3, SoundInv

\* A child that dies before the parent has its handlers goes unnoticed, which
\* no part of the invariant minds.
LEMMA SigChldKeeps ==
  ASSUME IInv, SigChld
  PROVE  IInv'
<1>1. PICK p \in Pids : pc[p] = "zombie" /\ pc' = [pc EXCEPT ![p] = "none"]
  BY DEF SigChld, Goto
<1>2. UNCHANGED <<parent, pipe, buf, pending, SigHUPed>>
  BY DEF SigChld
<1>3. "none" \in ChildPCs /\ "none" \notin Talking /\ "none" \notin Serving
  BY DEF ChildPCs, Talking, Serving
<1>4. TypeOK
  BY DEF IInv
<1> QED  BY <1>1, <1>2, <1>3, <1>4, ChildKeeps DEF TypeOK

\* What the handler of a line makes of sound books.
LEMMA HeedSound ==
  ASSUME IInv, phase # "down", NEW l \in Unread
  PROVE  Sound(Heed(l), pc)
<1>1. Sound(books, pc) /\ books.ch = children /\ TypeOK
  BY InvSound DEF books, IInv
<1>2. l \in Lines
  BY <1>1 DEF Unread, TypeOK
<1>3. /\ l.pid \in Pids /\ l.status \in {"waiting", "processing", "exiting"}
      /\ children[l.pid] \in {"waiting", "processing", "none"}
      /\ l.status = "exiting" => pc[l.pid] \notin Talking
  BY <1>1, <1>2 DEF Lines, IInv, TypeOK, LinesAreOld, Statuses
<1>4. CASE children[l.pid] = "none"
  BY <1>1, <1>4 DEF Heed
<1>5. CASE children[l.pid] # "none" /\ l.status = "exiting"
  <2>1. Sound(delete_child(books, {l.pid}), pc)
    BY <1>1, <1>3, <1>5, DeleteSound
  <2> QED  BY <1>5, <2>1 DEF Heed
<1>6. CASE children[l.pid] # "none" /\ l.status # "exiting"
  <2> DEFINE c == ChangeStatus(books, l.pid, l.status)
  <2>1. Heed(l) = c
    BY <1>6 DEF Heed
  <2>2. books \in Books /\ Exact(books) /\ Total(books) <= Ceiling
    BY <1>1 DEF Sound
  <2>8. books.ch = children
    BY DEF books
  <2>9. l.pid \in Pids /\ l.status \in {"waiting", "processing"}
        /\ books.ch[l.pid] \in {"waiting", "processing"}
    BY <1>3, <1>6, <2>8
  <2>7. /\ c \in Books /\ c.ch = [books.ch EXCEPT ![l.pid] = l.status]
        /\ Exact(books) => Exact(c)
        /\ Total(c) = Total(books)
    BY <2>2, <2>9, ChangeExact, ZenonT(30)
  <2>3. /\ c \in Books /\ c.ch = [children EXCEPT ![l.pid] = l.status]
        /\ Exact(books) => Exact(c)
        /\ Total(c) = Total(books)
    BY <2>8, <2>7
  <2> HIDE DEF c
  <2>4. Tracked(c.ch, pc)
    BY <1>1, <1>3, <1>6, <2>3 DEF Sound, Tracked, TypeOK
  <2>5. LinesFit(Unread, c.ch, pc)
    BY <1>1, <1>3, <1>6, <2>3 DEF Sound, LinesFit, TypeOK
  <2> QED  BY <1>1, <2>1, <2>2, <2>3, <2>4, <2>5 DEF Sound
<1> QED  BY <1>3, <1>4, <1>5, <1>6

\* Reading a line takes the oldest one out of what is unread.
LEMMA ReadLineKeeps ==
  ASSUME IInv, ReadLine
  PROVE  IInv'
<1> DEFINE n == IF buf = <<>> THEN Min2(ReadSize, Len(pipe)) ELSE 0
           have == buf \o SubSeq(pipe, 1, n)
           l == Head(have)
<1>0. /\ TypeOK /\ phase = "read" /\ phase' = "coordinate"
      /\ UNCHANGED <<reaped, pc, pending, SigHUPed>>
      /\ buf' = Tail(have) /\ pipe' = SubSeq(pipe, n + 1, Len(pipe))
      /\ children' = Heed(l).ch /\ tally' = Heed(l).n
      /\ justProcessed' = (children[l.pid] # "none" /\ l.status = "processing")
  BY DEF IInv, ReadLine
<1>1. pipe # <<>> /\ pipe \in Seq(Lines) /\ buf \in Seq(Lines)
  BY <1>0 DEF IInv, ReadHasLine, TypeOK
<1>2. n \in 0..Len(pipe) /\ (buf = <<>> => n > 0)
  BY <1>1, BoundsAssumption DEF Min2
<1>3. SubSeq(pipe, 1, n) \in Seq(Lines) /\ Len(SubSeq(pipe, 1, n)) = n
      /\ \A i \in 1..n : SubSeq(pipe, 1, n)[i] = pipe[i]
  BY <1>1, <1>2
<1>4. /\ have \in Seq(Lines) /\ Len(have) = Len(buf) + n
      /\ \A i \in 1..Len(have) : have[i] = IF i <= Len(buf) THEN buf[i] ELSE pipe[i - Len(buf)]
  BY <1>1, <1>2, <1>3
<1>5. Len(have) > 0
  BY <1>1, <1>2, <1>4
<1>6. \A i \in 1..Len(have) : have[i] \in Unread
  BY <1>1, <1>2, <1>4 DEF Unread
<1> HIDE DEF have
<1>7. l = have[1] /\ l \in Unread
  BY <1>4, <1>5, <1>6
<1>8. /\ buf' \in Seq(Lines) /\ Len(buf') = Len(have) - 1
      /\ \A i \in 1..Len(buf') : buf'[i] = have[i + 1]
  BY <1>0, <1>4, <1>5
<1> HIDE DEF n, l
<1>9. /\ pipe' \in Seq(Lines)
      /\ \A i \in 1..Len(pipe') : i + n \in 1..Len(pipe) /\ pipe'[i] = pipe[i + n]
  <2>1. \A i \in n + 1 .. Len(pipe) : pipe[i] \in Lines
    BY <1>1, <1>2
  <2>2. /\ pipe' \in Seq(Lines)
        /\ Len(pipe') = IF n + 1 <= Len(pipe) THEN Len(pipe) - (n + 1) + 1 ELSE 0
        /\ \A i \in 1 .. Len(pipe) - (n + 1) + 1 : pipe'[i] = pipe[n + 1 + i - 1]
    BY <1>0, <1>1, <1>2, <2>1, SubSeqProperties
  <2>3. Len(pipe') = Len(pipe) - n
    BY <1>1, <1>2, <2>2
  <2>4. ASSUME NEW i \in 1..Len(pipe')
        PROVE  i + n \in 1..Len(pipe) /\ pipe'[i] = pipe[i + n]
    <3>1. i \in 1 .. Len(pipe) - (n + 1) + 1 /\ n + 1 + i - 1 = i + n /\ i + n \in 1..Len(pipe)
      BY <1>1, <1>2, <2>3
    <3> QED  BY <2>2, <3>1
  <2> QED  BY <2>2, <2>4
<1>10. Unread' \subseteq Unread
  <2>1. ASSUME NEW i \in 1..Len(buf')
        PROVE  buf'[i] \in Unread
    <3>1. i + 1 \in 1..Len(have) /\ buf'[i] = have[i + 1]
      BY <1>4, <1>8
    <3> QED  BY <1>6, <3>1
  <2>2. ASSUME NEW i \in 1..Len(pipe')
        PROVE  pipe'[i] \in Unread
    <3>1. i + n \in DOMAIN pipe /\ pipe'[i] = pipe[i + n]
      BY <1>1, <1>9
    <3> QED  BY <3>1 DEF Unread
  <2>3. DOMAIN buf' = 1..Len(buf') /\ DOMAIN pipe' = 1..Len(pipe')
    BY <1>8, <1>9
  <2> QED  BY <2>1, <2>2, <2>3 DEF Unread
<1>11. Sound(Heed(l), pc')
  BY <1>0, <1>7, HeedSound
<1>12. Heed(l) = [ch |-> children', n |-> tally']
  BY <1>0, <1>11 DEF Sound, Books
<1>13. /\ reaped' \in SUBSET Pids /\ \A p \in reaped' : pc'[p] = "none"
       /\ phase' \in Phases \ {"down"} /\ phase' \notin {"ready", "read"} /\ justProcessed' \in BOOLEAN
       /\ pending' \in [Pids -> SUBSET {"HUP", "TERM"}] /\ SigHUPed' \in [Pids -> BOOLEAN]
  BY <1>0 DEF IInv, TypeOK, ReapedAreGone, Phases
<1> QED  BY <1>8, <1>9, <1>10, <1>11, <1>12, <1>13, SoundInv

\* The close deletes every entry and leaves nothing to read.
LEMMA CloseKeeps ==
  ASSUME TypeOK, NEW b, NEW procs, Sound(b, procs), server_close(b, procs)
  PROVE  IInv'
<1> DEFINE entries == {p \in Pids : b.ch[p] # "none"}
           closed == delete_child(b, entries)
<1>0. /\ phase' = "down" /\ children' = closed.ch /\ tally' = closed.n
      /\ pending' = Send(pending, entries, "TERM", procs)
      /\ pc' = [p \in Pids |-> IF procs[p] = "zombie" THEN "none" ELSE procs[p]]
      /\ reaped' = {} /\ justProcessed' = FALSE /\ pipe' = pipe /\ buf' = <<>>
      /\ SigHUPed' = SigHUPed
  BY DEF server_close
<1>1. b \in Books /\ Exact(b) /\ Total(b) <= Ceiling /\ entries \in SUBSET Pids
  BY DEF Sound
<1>2. closed \in Books /\ Exact(closed) /\ Total(closed) <= Total(b)
  BY <1>1, DeleteExact
<1>3. pending' \in [Pids -> SUBSET {"HUP", "TERM"}]
  BY <1>0, SendType
<1>9. \A p \in Pids : closed.ch[p] = "none"
  BY DEF delete_child
<1> HIDE DEF closed, entries
<1>4. TypeOK'
  <2>1. children' \in [Pids -> Statuses \cup {"none"}] /\ tally' \in [Statuses -> Int]
    BY <1>0, <1>2 DEF Books, Tables
  <2>2. pc' \in [Pids -> ChildPCs]
    BY <1>0 DEF Sound, ChildPCs
  <2>3. phase' \in Phases /\ pipe' \in Seq(Lines) /\ buf' \in Seq(Lines)
    BY <1>0 DEF Phases, TypeOK
  <2>4. SigHUPed' \in [Pids -> BOOLEAN]
    BY <1>0 DEF TypeOK
  <2> QED  BY <1>0, <1>3, <2>1, <2>2, <2>3, <2>4 DEF TypeOK
<1>5. TallyMatchesTable' /\ DequeueNotOvercounted' /\ TableBound'
  <2>1. Total(closed) <= Ceiling
    BY <1>1, <1>2, TotalInt
  <2> QED  BY <1>0, <1>2, <2>1 DEF TallyMatchesTable, DequeueNotOvercounted, TableBound, Exact, Total,
       books
<1>6. ReadHasLine' /\ TalkingIsTracked' /\ DownIsEmpty' /\ ReapedAreGone'
  BY <1>0, <1>9 DEF ReadHasLine, TalkingIsTracked, DownIsEmpty, ReapedAreGone
<1>7. LinesAreOld'
  <2>1. Unread' \subseteq Unread
    BY <1>0 DEF Unread
  <2>2. LinesFit(Unread, b.ch, procs) /\ procs \in [Pids -> ChildPCs]
    BY DEF Sound
  <2>3. \A l \in Unread : /\ children'[l.pid] # "dequeue"
                          /\ l.status = "exiting" => pc'[l.pid] \notin Talking
    BY <1>0, <1>9, <2>2 DEF LinesFit, Talking, Serving
  <2> QED  BY <2>1, <2>3 DEF LinesAreOld
<1>8. ServingBound'
  <2>1. {p \in Pids : pc'[p] \in Serving} = {p \in Pids : procs[p] \in Serving}
    BY <1>0 DEF Serving
  <2>2. \A p \in Pids : procs[p] \in Serving => b.ch[p] \in {"waiting", "processing"}
    BY DEF Sound, Tracked, Talking
  <2>3. Cardinality({p \in Pids : procs[p] \in Serving}) <= Total(b)
    BY <1>1, <2>2, ServingCounted
  <2>4. Cardinality({p \in Pids : procs[p] \in Serving}) \in Nat
    BY PidsAssumption, FS_Subset, FS_CardinalityType
  <2> QED  BY <1>1, <2>1, <2>3, <2>4, TotalInt DEF ServingBound
<1> QED  BY <1>4, <1>5, <1>6, <1>7, <1>8 DEF IInv

\* A fork that fails comes before the ceiling is reached.
LEMMA BadForkKeeps ==
  ASSUME IInv, NEW due, BadFork(due)
  PROVE  IInv'
<1> DEFINE b0 == Settled(due)
<1>1. PICK F \in SUBSET FreePids(b0, pc) :
        /\ Cardinality(F) < Wanted(b0)
        /\ server_close(run_n_children(b0, F), Fork(F, "born"))
  BY DEF BadFork
<1>2. Sound(b0, pc) /\ TypeOK
  BY SettledSound DEF BadFork, IInv
<1> HIDE DEF b0
<1>3. b0 \in Books /\ Total(b0) <= Ceiling
  BY <1>2 DEF Sound
<1>4. Wanted(b0) \in Nat /\ Total(b0) + Wanted(b0) <= Ceiling
  BY <1>3, WantedBound
<1>5. Cardinality(F) \in Nat
  <2>1. F \subseteq Pids
    BY DEF FreePids
  <2> QED  BY <2>1, PidsAssumption, FS_Subset, FS_CardinalityType
<1>6. Total(b0) + Cardinality(F) <= Ceiling
  BY <1>1, <1>3, <1>4, <1>5, TotalInt
<1>7. Sound(run_n_children(b0, F), Fork(F, "born"))
  BY <1>2, <1>6, ForkSound DEF Fork
<1> QED  BY <1>1, <1>2, <1>7, CloseKeeps

\* The min_servers children that loop forks are all recorded and all waiting.
LEMMA InitInv == Init => IInv
<1> SUFFICES ASSUME Init PROVE IInv
  OBVIOUS
<1>1. PICK S \in SUBSET Pids :
        /\ Cardinality(S) = Min
        /\ children = [p \in Pids |-> IF p \in S THEN "waiting" ELSE "none"]
        /\ tally = Counts(children)
        /\ pc = [p \in Pids |-> IF p \in S THEN "born" ELSE "none"]
        /\ phase = "start" /\ reaped = {} /\ justProcessed = FALSE
        /\ pipe = <<>> /\ buf = <<>>
        /\ pending = [p \in Pids |-> {}]
        /\ SigHUPed = [p \in Pids |-> FALSE]
  BY DEF Init
<1>2. /\ children \in [Pids -> Statuses \cup {"none"}]
      /\ pc \in [Pids -> ChildPCs]
  BY <1>1 DEF Statuses, ChildPCs, Running, Talking, Serving
<1>3. tally = [s \in Statuses |-> Cardinality(Having(children, s))]
  BY <1>1 DEF Counts
<1>4. tally \in [Statuses -> Int]
  <2>1. \A s \in Statuses : Cardinality(Having(children, s)) \in Int
    BY HavingFinite
  <2> QED  BY <1>3, <2>1
<1>5. phase \in Phases /\ pipe \in Seq(Lines) /\ buf \in Seq(Lines)
      /\ pending \in [Pids -> SUBSET {"HUP", "TERM"}] /\ SigHUPed \in [Pids -> BOOLEAN]
  BY <1>1 DEF Phases
<1>6. TypeOK
  BY <1>1, <1>2, <1>4, <1>5 DEF TypeOK
<1>7. TallyMatchesTable /\ DequeueNotOvercounted
  BY <1>3, HavingFinite DEF TallyMatchesTable, DequeueNotOvercounted, Statuses
<1>8. TableBound
  <2>1. Having(children, "waiting") = S /\ Having(children, "processing") = {}
    BY <1>1 DEF Having
  <2>2. Cardinality({}) = 0 /\ Cardinality(S) = Min /\ Min \in Nat
    BY <1>1, FS_EmptySet, ConfigAssumption DEF post_configure
  <2>3. tally["waiting"] = Min /\ tally["processing"] = 0
    BY <1>7, <2>1, <2>2 DEF TallyMatchesTable
  <2>4. Total(books) = Min
    BY <2>2, <2>3 DEF Total, books
  <2> QED  BY <2>4, ConfigAssumption DEF post_configure, TableBound, Ceiling
<1>9. ServingBound
  <2>1. {p \in Pids : pc[p] \in Serving} = S
    BY <1>1 DEF Serving
  <2>2. Cardinality(S) = Min
    BY <1>1
  <2> QED  BY <2>1, <2>2, ConfigAssumption DEF post_configure, ServingBound, Ceiling
<1>10. ReadHasLine /\ TalkingIsTracked /\ DownIsEmpty /\ ReapedAreGone
  BY <1>1 DEF ReadHasLine, TalkingIsTracked, DownIsEmpty, ReapedAreGone, Talking, Serving
<1>11. LinesAreOld
  BY <1>1 DEF LinesAreOld, Unread
<1> QED  BY <1>6, <1>7, <1>8, <1>9, <1>10, <1>11 DEF IInv

\* Nothing changes, nothing is lost.
LEMMA StutterKeeps ==
  ASSUME IInv, UNCHANGED vars
  PROVE  IInv'
BY DEF IInv, vars, TypeOK, ReadHasLine, TallyMatchesTable, DequeueNotOvercounted, TableBound, books, Total,
       TalkingIsTracked, LinesAreOld, Unread, DownIsEmpty, ReapedAreGone, ServingBound

\* Every step keeps the invariant.
LEMMA NextInv == IInv /\ [Next]_vars => IInv'
<1> SUFFICES ASSUME IInv, [Next]_vars PROVE IInv'
  OBVIOUS
<1>1. CASE SigChld \/ RunParent \/ CanRead \/ CheckSigs \/ ReadLine
  BY <1>1, SigChldKeeps, WaitingKeeps, CheckSigsKeeps, ReadLineKeeps
<1>2. CASE Coordinate
  BY <1>2, CoordinateKeeps DEF Coordinate
<1>3. CASE ForkFails
  BY <1>3, BadForkKeeps DEF ForkFails
<1>4. CASE Terminate
  <2>1. TypeOK /\ phase # "down" /\ server_close(books, pc)
    BY <1>4 DEF Terminate, IInv
  <2> QED  BY <2>1, InvSound, CloseKeeps
<1>5. CASE Terminated \/ UNCHANGED vars
  BY <1>5, StutterKeeps DEF Terminated
<1>6. ASSUME NEW p \in Pids,
             ChildStep(p) \/ Accept(p) \/ AcceptFails(p) \/ EndClient(p) \/ LastClient(p) \/ Crash(p)
      PROVE  IInv'
  BY <1>6, ChildStepsKeep
<1> QED
  BY <1>1, <1>2, <1>3, <1>4, <1>5, <1>6 DEF Next, ParentStep
-----------------------------------------------------------------------------
(* What the parent has read, or will read, of each child.                  *)

\* In the lines said the last about p has a status of W, or there is none and its entry is.
Heard(said, ch, p, W) ==
  \/ /\ \A i \in 1 .. Len(said) : said[i].pid # p
     /\ ch[p] \in W
  \/ \E i \in 1 .. Len(said) :
       /\ said[i].pid = p /\ said[i].status \in W
       /\ \A j \in 1 .. Len(said) : said[j].pid = p => j <= i

\* What is true of a child that is at x.
Truth(x) == IF x \in {"serving", "idle"} THEN {"processing"}
            ELSE IF x = "exiting" THEN {"exiting", "none"} ELSE {"waiting"}

Telling == Serving \cup {"exiting"}

AllHeard(said, ch, procs) ==
  \A p \in Pids : procs[p] \in Telling => Heard(said, ch, p, Truth(procs[p]))

Said == buf \o pipe

WordInv == IInv /\ (phase # "down" => AllHeard(Said, children, pc))

\* What is heard is the last word.
LEMMA HeardIsLast ==
  ASSUME TypeOK, NEW p \in Pids, NEW W, Heard(Said, children, p, W)
  PROVE  LastWord(p) \in W
<1> DEFINE said == Said
           about == {i \in DOMAIN said : said[i].pid = p}
<1>1. said \in Seq(Lines) /\ DOMAIN said = 1 .. Len(said) /\ Len(said) \in Nat
  <2>1. said \in Seq(Lines)
    BY ConcatProperties DEF TypeOK, Said
  <2> QED  BY <2>1, LenProperties
<1>2. LastWord(p) = IF about = {} THEN children[p]
                    ELSE said[CHOOSE i \in about : \A j \in about : j <= i].status
  BY Zenon DEF LastWord, Said
<1> HIDE DEF said
<1>3. CASE /\ \A i \in 1 .. Len(said) : said[i].pid # p
           /\ children[p] \in W
  BY <1>1, <1>2, <1>3
<1>4. ASSUME NEW i \in 1 .. Len(said), said[i].pid = p, said[i].status \in W,
             \A j \in 1 .. Len(said) : said[j].pid = p => j <= i
      PROVE  LastWord(p) \in W
  <2> DEFINE last == CHOOSE k \in about : \A j \in about : j <= k
  <2>1. i \in about /\ \A j \in about : j <= i
    BY <1>1, <1>4
  <2>2. last \in about /\ \A j \in about : j <= last
    <3> HIDE DEF about
    <3> QED  BY <2>1
  <2>3. about \subseteq 1 .. Len(said)
    BY <1>1
  <2> HIDE DEF about, last
  <2>4. i <= last /\ last <= i /\ i \in Nat /\ last \in Nat
    BY <1>1, <2>1, <2>2, <2>3
  <2>5. last = i
    BY <2>4
  <2>6. LastWord(p) = said[last].status
    BY <1>2, <2>1 DEF last
  <2> QED  BY <1>4, <2>5, <2>6
<1> QED  BY <1>3, <1>4 DEF Heard, said

\* A line more is the last word of its child, and of no other.
LEMMA HeardMore ==
  ASSUME NEW said \in Seq(Lines), NEW l \in Lines, NEW ch, NEW p, NEW W,
         IF l.pid = p THEN l.status \in W ELSE Heard(said, ch, p, W)
  PROVE  Heard(Append(said, l), ch, p, W)
<1> DEFINE more == Append(said, l)
           n == Len(said)
<1>1. n \in Nat /\ Len(more) = n + 1 /\ more[n + 1] = l
  BY AppendProperties, LenProperties, SMT
<1>2. \A i \in 1 .. n : more[i] = said[i]
  BY AppendProperties, LenProperties, SMT
<1> HIDE DEF more
<1>3. CASE l.pid = p
  <2>1. /\ n + 1 \in 1 .. Len(more) /\ more[n + 1].pid = p /\ more[n + 1].status \in W
        /\ \A j \in 1 .. Len(more) : more[j].pid = p => j <= n + 1
    BY <1>1, <1>3
  <2> QED  BY <2>1 DEF Heard, more
<1>4. CASE l.pid # p
  <2>1. CASE ch[p] \in W /\ \A i \in 1 .. n : said[i].pid # p
    <3>1. \A i \in 1 .. Len(more) : more[i].pid # p
      <4> SUFFICES ASSUME NEW i \in 1 .. Len(more) PROVE more[i].pid # p
        OBVIOUS
      <4>1. i \in 1 .. n \/ i = n + 1
        BY <1>1
      <4> QED  BY <1>1, <1>2, <1>4, <2>1, <4>1
    <3> QED  BY <2>1, <3>1 DEF Heard, more
  <2>2. ASSUME NEW i \in 1 .. n, said[i].pid = p, said[i].status \in W,
               \A j \in 1 .. n : said[j].pid = p => j <= i
        PROVE  Heard(more, ch, p, W)
    <3>1. i \in 1 .. Len(more) /\ more[i].pid = p /\ more[i].status \in W
      BY <1>1, <1>2, <2>2
    <3>2. \A j \in 1 .. Len(more) : more[j].pid = p => j <= i
      <4> SUFFICES ASSUME NEW j \in 1 .. Len(more), more[j].pid = p PROVE j <= i
        OBVIOUS
      <4>1. j \in 1 .. n \/ j = n + 1
        BY <1>1
      <4> QED  BY <1>1, <1>2, <1>4, <2>2, <4>1
    <3> QED  BY <3>1, <3>2 DEF Heard
  <2> QED  BY <1>4, <2>1, <2>2 DEF Heard, more
<1> QED  BY <1>3, <1>4

\* The first line is read: what comes after it is still to be heard, or its status is now
\* that of the entry.
LEMMA HeardRead ==
  ASSUME NEW said \in Seq(Lines), NEW rest \in Seq(Lines), Len(rest) + 1 = Len(said),
         \A i \in 1 .. Len(rest) : rest[i] = said[i + 1],
         NEW ch, NEW new, NEW p, NEW W, Heard(said, ch, p, W),
         IF said[1].pid = p THEN said[1].status \in W => new[p] \in W ELSE new[p] = ch[p]
  PROVE  Heard(rest, new, p, W)
<1> DEFINE n == Len(rest)
<1>1. n \in Nat /\ Len(said) = n + 1
  BY LenProperties
<1> HIDE DEF n
<1>6. \A i \in 1 .. n : i + 1 \in 1 .. n + 1 /\ rest[i] = said[i + 1]
  BY <1>1 DEF n
<1>2. CASE \A i \in 1 .. n + 1 : said[i].pid # p
  <2>1. 1 \in 1 .. n + 1
    BY <1>1
  <2>2. said[1].pid # p /\ new[p] = ch[p] /\ \A i \in 1 .. n : rest[i].pid # p
    BY <1>2, <1>6, <2>1
  <2>3. ch[p] \in W
    BY <1>1, <1>2 DEF Heard
  <2> QED  BY <2>2, <2>3 DEF Heard, n
<1>3. ASSUME NEW i \in 1 .. n + 1, said[i].pid = p, said[i].status \in W,
             \A j \in 1 .. n + 1 : said[j].pid = p => j <= i
      PROVE  Heard(rest, new, p, W)
  <2>1. CASE i = 1
    <3>1. \A j \in 1 .. n : rest[j].pid # p
      <4> SUFFICES ASSUME NEW j \in 1 .. n, rest[j].pid = p PROVE FALSE
        OBVIOUS
      <4>1. j + 1 \in 1 .. n + 1 /\ said[j + 1].pid = p
        BY <1>6
      <4>2. j + 1 <= 1
        BY <1>3, <2>1, <4>1
      <4> QED  BY <1>1, <4>2
    <3> QED  BY <1>3, <2>1, <3>1 DEF Heard, n
  <2>2. CASE i # 1
    <3> DEFINE k == i - 1
    <3>1. k \in 1 .. n /\ k + 1 = i
      BY <1>1, <2>2
    <3> HIDE DEF k
    <3>2. rest[k].pid = p /\ rest[k].status \in W
      BY <1>3, <1>6, <3>1
    <3>3. \A j \in 1 .. n : rest[j].pid = p => j <= k
      <4> SUFFICES ASSUME NEW j \in 1 .. n, rest[j].pid = p PROVE j <= k
        OBVIOUS
      <4>1. j + 1 \in 1 .. n + 1 /\ said[j + 1].pid = p
        BY <1>6
      <4>2. j + 1 <= i
        BY <1>3, <4>1
      <4> QED  BY <1>1, <3>1, <4>2
    <3> QED  BY <3>1, <3>2, <3>3 DEF Heard, n
  <2> QED  BY <2>1, <2>2
<1> QED  BY <1>1, <1>2, <1>3 DEF Heard

\* The positions of one sequence after another.
LEMMA ConcatAt ==
  ASSUME NEW s \in Seq(Lines), NEW r \in Seq(Lines)
  PROVE  /\ s \o r \in Seq(Lines) /\ Len(s \o r) = Len(s) + Len(r)
         /\ \A i \in 1 .. Len(s \o r) : (s \o r)[i] = IF i <= Len(s) THEN s[i] ELSE r[i - Len(s)]
BY SMT

\* What is said but not heeded is what is unread.
LEMMA SaidIsUnread ==
  ASSUME TypeOK
  PROVE  /\ Said \in Seq(Lines) /\ Len(Said) = Len(buf) + Len(pipe)
         /\ \A i \in 1 .. Len(Said) :
              /\ Said[i] = IF i <= Len(buf) THEN buf[i] ELSE pipe[i - Len(buf)]
              /\ Said[i] \in Unread
<1>1. buf \in Seq(Lines) /\ pipe \in Seq(Lines)
  BY DEF TypeOK
<1>2. /\ Said \in Seq(Lines) /\ Len(Said) = Len(buf) + Len(pipe)
      /\ \A i \in 1 .. Len(Said) : Said[i] = IF i <= Len(buf) THEN buf[i] ELSE pipe[i - Len(buf)]
  BY <1>1, ConcatAt DEF Said
<1>3. ASSUME NEW i \in 1 .. Len(Said)
      PROVE  Said[i] \in Unread
  <2>1. CASE i <= Len(buf)
    <3>1. i \in DOMAIN buf /\ Said[i] = buf[i]
      BY <1>1, <1>2, <2>1
    <3> QED  BY <3>1 DEF Unread
  <2>2. CASE ~(i <= Len(buf))
    <3>1. i - Len(buf) \in DOMAIN pipe /\ Said[i] = pipe[i - Len(buf)]
      BY <1>1, <1>2, <2>2
    <3> QED  BY <3>1 DEF Unread
  <2> QED  BY <2>1, <2>2
<1> QED  BY <1>2, <1>3

\* A child that says nothing and of which the same remains true.
LEMMA SilentHeard ==
  ASSUME TypeOK, AllHeard(Said, children, pc), NEW p \in Pids, NEW x,
         children' = children, buf' = buf, pipe' = pipe, pc' = [pc EXCEPT ![p] = x],
         x \in Telling => pc[p] \in Telling /\ Truth(x) = Truth(pc[p])
  PROVE  AllHeard(Said', children', pc')
<1>1. Said' = Said
  BY DEF Said
<1> SUFFICES ASSUME NEW q \in Pids, pc'[q] \in Telling
             PROVE  Heard(Said, children, q, Truth(pc'[q]))
  BY <1>1 DEF AllHeard
<1>2. pc[q] \in Telling /\ Truth(pc'[q]) = Truth(pc[q])
  BY DEF TypeOK
<1> QED  BY <1>2 DEF AllHeard

\* A child that says what is true of it now.
LEMMA SpokenHeard ==
  ASSUME TypeOK, AllHeard(Said, children, pc), NEW p \in Pids, NEW x,
         NEW st \in {"waiting", "processing", "exiting"},
         children' = children, buf' = buf, pc' = [pc EXCEPT ![p] = x],
         pipe' = Append(pipe, [pid |-> p, status |-> st]),
         st \in Truth(x)
  PROVE  AllHeard(Said', children', pc')
<1> DEFINE l == [pid |-> p, status |-> st]
<1>1. l \in Lines /\ l.pid = p /\ l.status = st
  BY DEF Lines
<1>2. Said \in Seq(Lines) /\ buf \in Seq(Lines) /\ pipe \in Seq(Lines)
  BY SaidIsUnread DEF TypeOK
<1>3. Said' = Append(Said, l)
  <2> HIDE DEF l
  <2>1. buf \o Append(pipe, l) = Append(buf \o pipe, l)
    BY <1>1, <1>2, SMT
  <2> QED  BY <2>1 DEF Said, l
<1> HIDE DEF l
<1> SUFFICES ASSUME NEW q \in Pids, pc'[q] \in Telling
             PROVE  Heard(Append(Said, l), children, q, Truth(pc'[q]))
  BY <1>3 DEF AllHeard
<1>4. CASE q = p
  <2>1. pc'[q] = x
    BY <1>4 DEF TypeOK
  <2> QED  BY <1>1, <1>2, <1>4, <2>1, HeardMore
<1>5. CASE q # p
  <2>1. pc'[q] = pc[q] /\ Heard(Said, children, q, Truth(pc[q]))
    BY <1>5 DEF TypeOK, AllHeard
  <2> QED  BY <1>1, <1>2, <1>5, <2>1, HeardMore
<1> QED  BY <1>4, <1>5

\* Each step of a child is one or the other.
LEMMA ChildStepsHeard ==
  ASSUME TypeOK, AllHeard(Said, children, pc), NEW p \in Pids,
         ChildStep(p) \/ Accept(p) \/ AcceptFails(p) \/ EndClient(p) \/ LastClient(p) \/ Crash(p)
  PROVE  AllHeard(Said', children', pc')
<1> USE DEF Goto, parent
<1>1. CASE RunChild(p) \/ Accept(p) \/ AcceptFails(p) \/ EndClient(p) \/ LastClient(p)
  <2> DEFINE Silent(x) ==
        /\ children' = children /\ buf' = buf /\ pipe' = pipe /\ pc' = [pc EXCEPT ![p] = x]
        /\ x \in Telling => pc[p] \in Telling /\ Truth(x) = Truth(pc[p])
  <2>1. RunChild(p) => Silent("accept")
    BY DEF RunChild, Telling, Serving, Truth
  <2>2. Accept(p) => Silent("accepted")
    BY DEF Accept, Telling, Serving, Truth
  <2>3. AcceptFails(p) => Silent("refused")
    BY DEF AcceptFails, Telling, Serving, Truth
  <2>4. EndClient(p) => Silent("idle")
    BY DEF EndClient, Telling, Serving, Truth
  <2>5. LastClient(p) => Silent("leaving")
    BY DEF LastClient, Telling, Serving, Truth
  <2>6. ASSUME NEW x, Silent(x)
        PROVE  AllHeard(Said', children', pc')
    BY <2>6, SilentHeard
  <2> HIDE DEF Silent
  <2> QED  BY <1>1, <2>1, <2>2, <2>3, <2>4, <2>5, <2>6
<1>2. CASE StartClient(p)
  <2>1. "processing" \in Truth("serving")
    BY DEF Truth
  <2> QED  BY <1>2, <2>1, SpokenHeard DEF StartClient, Say
<1>3. CASE NextClient(p)
  <2>1. "waiting" \in Truth("accept")
    BY DEF Truth
  <2> QED  BY <1>3, <2>1, SpokenHeard DEF NextClient, Say
<1>4. CASE Leave(p)
  <2>1. "exiting" \in Truth("exiting")
    BY DEF Truth
  <2>2. pc' = [pc EXCEPT ![p] = "exiting"]
    BY <1>4 DEF Leave
  <2> QED  BY <1>4, <2>1, <2>2, SpokenHeard DEF Leave, Say
<1>5. ASSUME Exits(p), UNCHANGED <<parent, pipe, buf>>
      PROVE  AllHeard(Said', children', pc')
  <2>1. PICK x \in {"zombie", "none"} : pc' = [pc EXCEPT ![p] = x]
    BY <1>5 DEF Exits
  <2>2. x \notin Telling
    BY DEF Telling, Serving
  <2> QED  BY <1>5, <2>1, <2>2, SilentHeard
<1>6. CASE Exit(p) \/ Crash(p)
  BY <1>5, <1>6 DEF Exit, Crash
<1>7. CASE HandleSignal(p)
  <2>1. UNCHANGED <<parent, pipe, buf>> /\ (Exits(p) \/ UNCHANGED pc)
    BY <1>7 DEF HandleSignal
  <2>2. CASE UNCHANGED pc
    <3>1. Said' = Said /\ children' = children /\ pc' = pc
      BY <2>1, <2>2 DEF Said
    <3> QED  BY <3>1
  <2> QED  BY <1>5, <2>1, <2>2
<1> QED  BY <1>1, <1>2, <1>3, <1>4, <1>6, <1>7 DEF ChildStep

\* Only entries of processes that are no more are deleted.
LEMMA DeleteHeard ==
  ASSUME NEW said, NEW b, NEW procs, AllHeard(said, b.ch, procs), NEW S,
         \A p \in S : procs[p] = "none"
  PROVE  AllHeard(said, delete_child(b, S).ch, procs)
<1>1. delete_child(b, S).ch = [p \in Pids |-> IF p \in S THEN "none" ELSE b.ch[p]]
  BY DEF delete_child
<1>2. "none" \notin Telling
  BY DEF Telling, Serving
<1> SUFFICES ASSUME NEW p \in Pids, procs[p] \in Telling
             PROVE  Heard(said, delete_child(b, S).ch, p, Truth(procs[p]))
  BY DEF AllHeard
<1>3. delete_child(b, S).ch[p] = b.ch[p]
  BY <1>1, <1>2
<1>4. Heard(said, b.ch, p, Truth(procs[p]))
  BY DEF AllHeard
<1> QED  BY <1>3, <1>4 DEF Heard

\* A child just forked has said nothing, and its entry says that it waits.
LEMMA ForkHeard ==
  ASSUME TypeOK, NEW b, NEW procs, AllHeard(Said, b.ch, procs),
         NEW F \in SUBSET FreePids(b, procs)
  PROVE  AllHeard(Said, run_n_children(b, F).ch,
                  [p \in Pids |-> IF p \in F THEN "born" ELSE procs[p]])
<1> DEFINE new == run_n_children(b, F).ch
           procs1 == [p \in Pids |-> IF p \in F THEN "born" ELSE procs[p]]
<1>1. new = [p \in Pids |-> IF p \in F THEN "waiting" ELSE b.ch[p]]
  BY DEF run_n_children
<1> HIDE DEF new
<1> SUFFICES ASSUME NEW p \in Pids, procs1[p] \in Telling
             PROVE  Heard(Said, new, p, Truth(procs1[p]))
  BY DEF AllHeard, new
<1>2. CASE p \in F
  <2>1. \A i \in 1 .. Len(Said) : Said[i].pid # p
    BY <1>2, SaidIsUnread DEF FreePids
  <2>2. new[p] \in Truth(procs1[p])
    BY <1>1, <1>2 DEF Truth
  <2> QED  BY <2>1, <2>2 DEF Heard
<1>3. CASE p \notin F
  <2>1. new[p] = b.ch[p] /\ procs1[p] = procs[p]
    BY <1>1, <1>3
  <2>2. Heard(Said, b.ch, p, Truth(procs[p]))
    BY <2>1 DEF AllHeard
  <2> QED  BY <2>1, <2>2 DEF Heard
<1> QED  BY <1>2, <1>3

\* A dequeue process says nothing.
LEMMA DequeueHeard ==
  ASSUME NEW said, NEW b, "ch" \in DOMAIN b, NEW procs, AllHeard(said, b.ch, procs), NEW Q
  PROVE  AllHeard(said, run_dequeue(b, Q).ch,
                  [p \in Pids |-> IF p \in Q THEN "dequeue" ELSE procs[p]])
<1> DEFINE new == run_dequeue(b, Q).ch
           procs1 == [p \in Pids |-> IF p \in Q THEN "dequeue" ELSE procs[p]]
<1>1. new = [p \in Pids |-> IF p \in Q THEN "dequeue" ELSE b.ch[p]]
  BY DEF run_dequeue
<1>2. "dequeue" \notin Telling
  BY DEF Telling, Serving
<1> HIDE DEF new
<1> SUFFICES ASSUME NEW p \in Pids, procs1[p] \in Telling
             PROVE  Heard(said, new, p, Truth(procs1[p]))
  BY DEF AllHeard, new
<1>3. new[p] = b.ch[p] /\ procs1[p] = procs[p]
  BY <1>1, <1>2
<1>4. Heard(said, b.ch, p, Truth(procs[p]))
  BY <1>3 DEF AllHeard
<1> QED  BY <1>3, <1>4 DEF Heard

\* A pass of the loop begins by deleting the reaped, whose processes are no more.
LEMMA SettledHeard ==
  ASSUME WordInv, phase # "down", NEW due
  PROVE  AllHeard(Said, Settled(due).ch, pc)
<1> DEFINE known == delete_child(books, reaped)
<1>1. AllHeard(Said, books.ch, pc) /\ \A p \in reaped : pc[p] = "none"
  BY DEF WordInv, IInv, ReapedAreGone, books
<1>2. AllHeard(Said, known.ch, pc)
  BY <1>1, DeleteHeard
<1>3. Settled(due).ch = known.ch
  BY DEF Settled, Retally, delete_child
<1> QED  BY <1>2, <1>3

\* A pass of coordinate_children: each stage deletes entries without a process, or makes
\* entries for pids that nobody has spoken of.
LEMMA CoordinateHeard ==
  ASSUME WordInv, NEW due, coordinate_children(due)
  PROVE  AllHeard(Said', children', pc')
<1>1. PICK F, V, W, Q : Pass(due, F, V, W, Q)
  BY PassStages
<1> DEFINE b0 == Settled(due)
           procs1 == Fork(F, "born")
           b2 == kill_n_children(run_n_children(b0, F), V, procs1)
           b3 == delete_child(b2, Dead(due, procs1))
           b4 == kill_n_children(b3, W, procs1)
<1>2. /\ F \in SUBSET FreePids(b0, pc)
      /\ children' = run_dequeue(b4, Q).ch
      /\ pc' = [p \in Pids |-> IF p \in Q THEN "dequeue" ELSE procs1[p]]
  BY <1>1 DEF Pass
<1>3. TypeOK /\ phase # "down" /\ Said' = Said
  BY DEF WordInv, IInv, coordinate_children, Said
<1>4. AllHeard(Said, b0.ch, pc)
  BY <1>3, SettledHeard
<1>5. AllHeard(Said, run_n_children(b0, F).ch, procs1)
  BY <1>2, <1>3, <1>4, ForkHeard DEF Fork
<1>6. AllHeard(Said, b2.ch, procs1)
  <2>1. \A p \in {q \in V : procs1[q] = "none"} : procs1[p] = "none"
    OBVIOUS
  <2> QED  BY <1>5, <2>1, DeleteHeard DEF kill_n_children
<1>7. AllHeard(Said, b3.ch, procs1)
  <2>1. \A p \in Dead(due, procs1) : procs1[p] = "none"
    BY DEF Dead
  <2> QED  BY <1>6, <2>1, DeleteHeard
<1>8. AllHeard(Said, b4.ch, procs1)
  <2>1. \A p \in {q \in W : procs1[q] = "none"} : procs1[p] = "none"
    OBVIOUS
  <2> QED  BY <1>7, <2>1, DeleteHeard DEF kill_n_children
<1>9. "ch" \in DOMAIN b4
  BY DEF kill_n_children, delete_child
<1> QED  BY <1>2, <1>3, <1>8, <1>9, DequeueHeard

\* The line read is the first of those unread, and its status becomes that of the entry.
LEMMA ReadLineHeard ==
  ASSUME WordInv, ReadLine
  PROVE  AllHeard(Said', children', pc')
<1> DEFINE n == IF buf = <<>> THEN Min2(ReadSize, Len(pipe)) ELSE 0
           have == buf \o SubSeq(pipe, 1, n)
           l == Head(have)
<1>0. /\ IInv /\ TypeOK /\ phase = "read" /\ pc' = pc
      /\ buf' = Tail(have) /\ pipe' = SubSeq(pipe, n + 1, Len(pipe))
      /\ children' = Heed(l).ch
      /\ AllHeard(Said, children, pc)
  BY DEF WordInv, IInv, ReadLine
<1>1. pipe # <<>> /\ pipe \in Seq(Lines) /\ buf \in Seq(Lines)
  BY <1>0 DEF IInv, ReadHasLine, TypeOK
<1>2. n \in 0 .. Len(pipe) /\ (buf = <<>> => n > 0) /\ (buf # <<>> => n = 0)
  BY <1>1, BoundsAssumption DEF Min2
<1>3. /\ have \in Seq(Lines) /\ Len(have) = Len(buf) + n
      /\ \A i \in 1 .. Len(have) : have[i] = IF i <= Len(buf) THEN buf[i] ELSE pipe[i - Len(buf)]
  <2>1. SubSeq(pipe, 1, n) \in Seq(Lines) /\ Len(SubSeq(pipe, 1, n)) = n
        /\ \A i \in 1 .. n : SubSeq(pipe, 1, n)[i] = pipe[i]
    BY <1>1, <1>2
  <2> QED  BY <1>1, <1>2, <2>1
<1>4. Len(have) > 0
  BY <1>1, <1>2, <1>3
<1> HIDE DEF have
<1>5. /\ buf' \in Seq(Lines) /\ Len(buf') = Len(have) - 1 /\ l = have[1]
      /\ \A i \in 1 .. Len(buf') : buf'[i] = have[i + 1]
  BY <1>0, <1>3, <1>4
<1> HIDE DEF n, l
<1>6. /\ pipe' \in Seq(Lines) /\ Len(pipe') = Len(pipe) - n
      /\ \A i \in 1 .. Len(pipe') : pipe'[i] = pipe[i + n]
  <2>1. \A i \in n + 1 .. Len(pipe) : pipe[i] \in Lines
    BY <1>1, <1>2
  <2>2. /\ pipe' \in Seq(Lines)
        /\ Len(pipe') = IF n + 1 <= Len(pipe) THEN Len(pipe) - (n + 1) + 1 ELSE 0
        /\ \A i \in 1 .. Len(pipe) - (n + 1) + 1 : pipe'[i] = pipe[n + 1 + i - 1]
    BY <1>0, <1>1, <1>2, <2>1, SubSeqProperties
  <2>3. Len(pipe') = Len(pipe) - n
    BY <1>1, <1>2, <2>2
  <2>4. ASSUME NEW i \in 1 .. Len(pipe')
        PROVE  pipe'[i] = pipe[i + n]
    <3>1. i \in 1 .. Len(pipe) - (n + 1) + 1 /\ n + 1 + i - 1 = i + n
      BY <1>1, <1>2, <2>3
    <3> QED  BY <2>2, <3>1
  <2> QED  BY <2>2, <2>3, <2>4
<1>7. /\ Said \in Seq(Lines) /\ Len(Said) = Len(buf) + Len(pipe)
      /\ \A i \in 1 .. Len(Said) :
           /\ Said[i] = IF i <= Len(buf) THEN buf[i] ELSE pipe[i - Len(buf)]
           /\ Said[i] \in Unread
  BY <1>0, SaidIsUnread
<1>8. /\ Said' \in Seq(Lines) /\ Len(Said') = Len(buf') + Len(pipe')
      /\ \A i \in 1 .. Len(Said') : Said'[i] = IF i <= Len(buf') THEN buf'[i] ELSE pipe'[i - Len(buf')]
  <2>1. Said' = buf' \o pipe'
    BY DEF Said
  <2> HIDE DEF Said
  <2>2. /\ buf' \o pipe' \in Seq(Lines) /\ Len(buf' \o pipe') = Len(buf') + Len(pipe')
        /\ \A i \in 1 .. Len(buf' \o pipe') :
             (buf' \o pipe')[i] = IF i <= Len(buf') THEN buf'[i] ELSE pipe'[i - Len(buf')]
    BY <1>5, <1>6, ConcatAt, Zenon
  <2> QED  BY <2>1, <2>2, Zenon
<1> DEFINE a == Len(buf)
           c == Len(pipe)
<1>9. a \in Nat /\ c \in Nat /\ n \in 0 .. c /\ (a > 0 => n = 0) /\ a + n > 0
  BY <1>1, <1>2, <1>3, <1>4
<1>10. /\ Len(Said) = a + c /\ Len(Said') = a + c - 1 /\ Len(buf') = a + n - 1
       /\ Len(pipe') = c - n /\ Len(have) = a + n
  BY <1>3, <1>5, <1>6, <1>7, <1>8, <1>9
<1>11. l = Said[1] /\ l \in Unread /\ l \in Lines
  <2>1. 1 \in 1 .. Len(have) /\ 1 \in 1 .. Len(Said)
    BY <1>9, <1>10
  <2>2. have[1] = Said[1]
    BY <1>3, <1>7, <2>1
  <2>3. Said[1] \in Lines
    BY <1>7, <2>1
  <2> QED  BY <1>5, <1>7, <2>1, <2>2, <2>3
<1>12. \A i \in 1 .. Len(Said') : Said'[i] = Said[i + 1]
  <2> SUFFICES ASSUME NEW i \in 1 .. Len(Said') PROVE Said'[i] = Said[i + 1]
    OBVIOUS
  <2>1. i \in 1 .. a + c - 1 /\ i + 1 \in 1 .. Len(Said)
    BY <1>9, <1>10
  <2>2. CASE i <= a + n - 1
    <3>1. i \in 1 .. Len(buf') /\ i + 1 \in 1 .. Len(have) /\ i <= Len(buf')
      BY <1>9, <1>10, <2>1, <2>2
    <3>2. Said'[i] = have[i + 1]
      BY <1>5, <1>8, <3>1
    <3>3. have[i + 1] = IF i + 1 <= a THEN buf[i + 1] ELSE pipe[i + 1 - a]
      BY <1>3, <3>1
    <3> QED  BY <1>7, <2>1, <3>2, <3>3
  <2>3. CASE ~(i <= a + n - 1)
    <3> DEFINE k == i - Len(buf')
    <3>1. k \in 1 .. Len(pipe') /\ k + n = (i + 1) - a /\ ~(i <= Len(buf')) /\ ~(i + 1 <= a)
      BY <1>9, <1>10, <2>1, <2>3
    <3>2. Said'[i] = pipe'[k]
      BY <1>8, <3>1
    <3> HIDE DEF k
    <3>3. pipe'[k] = pipe[(i + 1) - a]
      BY <1>6, <3>1
    <3> QED  BY <1>7, <2>1, <3>1, <3>2, <3>3
  <2> QED  BY <2>2, <2>3
<1> HIDE DEF a, c
<1>13. Len(Said') + 1 = Len(Said)
  BY <1>9, <1>10
<1> SUFFICES ASSUME NEW p \in Pids, pc[p] \in Telling
             PROVE  Heard(Said', children', p, Truth(pc[p]))
  BY <1>0 DEF AllHeard
<1>14. Heard(Said, children, p, Truth(pc[p]))
  BY <1>0 DEF AllHeard
<1>15. l.pid \in Pids /\ l.status \in {"waiting", "processing", "exiting"}
       /\ children \in [Pids -> Statuses \cup {"none"}] /\ books.ch = children
  BY <1>0, <1>11 DEF Lines, TypeOK, books
<1>16. l.pid # p => children'[p] = children[p]
  BY <1>0, <1>15 DEF Heed, delete_child, ChangeStatus
<1>17. l.pid = p => (l.status \in Truth(pc[p]) => children'[p] \in Truth(pc[p]))
  <2> SUFFICES ASSUME l.pid = p, l.status \in Truth(pc[p])
               PROVE  children'[p] \in Truth(pc[p])
    OBVIOUS
  <2>1. CASE l.status = "exiting"
    <3>1. Truth(pc[p]) = {"exiting", "none"}
      BY <2>1 DEF Truth
    <3>2. children'[p] = "none"
      BY <1>0, <1>15, <2>1 DEF Heed, delete_child
    <3> QED  BY <3>1, <3>2
  <2>2. CASE l.status # "exiting"
    <3>1. pc[p] # "exiting"
      BY <1>15, <2>2 DEF Truth
    <3>2. pc[p] \in Talking
      BY <3>1 DEF Telling, Talking
    <3>3. children[p] # "none"
      BY <1>0, <3>2 DEF IInv, TalkingIsTracked
    <3>4. children'[p] = l.status
      BY <1>0, <1>15, <2>2, <3>3 DEF Heed, ChangeStatus
    <3> QED  BY <3>4
  <2> QED  BY <2>1, <2>2
<1> QED  BY <1>7, <1>8, <1>11, <1>12, <1>13, <1>14, <1>16, <1>17, HeardRead

\* At the beginning nobody has said anything, and every entry says that its child waits.
LEMMA InitHeard == Init => WordInv
<1> SUFFICES ASSUME Init PROVE AllHeard(Said, children, pc)
  BY InitInv DEF WordInv
<1>1. TypeOK
  BY InitInv DEF IInv
<1>2. Len(Said) = 0
  <2>1. buf = <<>> /\ pipe = <<>>
    BY DEF Init
  <2> QED  BY <1>1, <2>1, SaidIsUnread
<1>3. \A p \in Pids : pc[p] \in Telling => pc[p] = "born" /\ children[p] = "waiting"
  BY DEF Init, Telling, Serving
<1> SUFFICES ASSUME NEW p \in Pids, pc[p] \in Telling
             PROVE  Heard(Said, children, p, Truth(pc[p]))
  BY DEF AllHeard
<1>4. children[p] \in Truth(pc[p]) /\ \A i \in 1 .. Len(Said) : Said[i].pid # p
  BY <1>2, <1>3 DEF Truth
<1> QED  BY <1>4 DEF Heard

\* Every step keeps it.
LEMMA NextHeard == WordInv /\ [Next]_vars => WordInv'
<1> SUFFICES ASSUME WordInv, [Next]_vars, phase' # "down"
             PROVE  AllHeard(Said', children', pc')
  BY NextInv DEF WordInv
<1>0. IInv /\ TypeOK
  BY DEF WordInv, IInv
<1>1. phase # "down"
  BY DEF Next, ParentStep, Terminated, Terminate, ForkFails, BadFork, server_close, Coordinate,
         coordinate_children, ReadLine, CheckSigs, CanRead, RunParent, SigChld, ChildStep, RunChild,
         StartClient, NextClient, Leave, Exit, HandleSignal, Accept, AcceptFails, EndClient, LastClient,
         Crash, vars, parent
<1>2. AllHeard(Said, children, pc)
  BY <1>1 DEF WordInv
<1>3. ASSUME UNCHANGED <<children, pipe, buf>>,
             \A p \in Pids : pc'[p] \in Telling => pc[p] = pc'[p]
      PROVE  AllHeard(Said', children', pc')
  <2>1. Said' = Said /\ children' = children
    BY <1>3 DEF Said
  <2> QED  BY <1>2, <1>3, <2>1 DEF AllHeard
<1>4. CASE SigChld
  <2>1. UNCHANGED <<children, pipe, buf>>
    BY <1>4 DEF SigChld, parent
  <2>2. \A p \in Pids : pc'[p] \in Telling => pc[p] = pc'[p]
    BY <1>0, <1>4 DEF SigChld, Goto, TypeOK, Telling, Serving
  <2> QED  BY <1>3, <2>1, <2>2
<1>5. CASE RunParent \/ CanRead \/ Terminated \/ UNCHANGED vars
  BY <1>3, <1>5 DEF RunParent, CanRead, Terminated, vars
<1>6. CASE CheckSigs
  <2>1. UNCHANGED <<children, pipe, buf>>
    BY <1>6 DEF CheckSigs
  <2>2. \A p \in Pids : pc'[p] \in Telling => pc[p] = pc'[p]
    BY <1>6 DEF CheckSigs, Telling, Serving
  <2> QED  BY <1>3, <2>1, <2>2
<1>7. CASE ReadLine
  BY <1>7, ReadLineHeard
<1>8. CASE Coordinate
  BY <1>8, CoordinateHeard DEF Coordinate
<1>9. CASE Terminate \/ ForkFails
  BY <1>9 DEF Terminate, ForkFails, BadFork, server_close
<1>10. ASSUME NEW p \in Pids,
              ChildStep(p) \/ Accept(p) \/ AcceptFails(p) \/ EndClient(p) \/ LastClient(p) \/ Crash(p)
       PROVE  AllHeard(Said', children', pc')
  BY <1>0, <1>2, <1>10, ChildStepsHeard
<1> QED
  BY <1>4, <1>5, <1>6, <1>7, <1>8, <1>9, <1>10 DEF Next, ParentStep
-----------------------------------------------------------------------------
(* What a pass of coordinate_children leaves.                              *)

\* Deleting those that have no entry leaves the table as it is.
LEMMA DeleteNothing ==
  ASSUME NEW b \in Books, NEW S, \A p \in S : b.ch[p] = "none"
  PROVE  delete_child(b, S).ch = b.ch
<1>1. b.ch = [p \in Pids |-> b.ch[p]]
  BY DEF Books, Tables
<1>2. delete_child(b, S).ch = [p \in Pids |-> IF p \in S THEN "none" ELSE b.ch[p]]
  BY DEF delete_child
<1>3. \A p \in Pids : (IF p \in S THEN "none" ELSE b.ch[p]) = b.ch[p]
  OBVIOUS
<1> QED  BY <1>1, <1>2, <1>3

\* kill_n_children sends no more signals than it was asked for.
LEMMA VictimsBound ==
  ASSUME NEW b, NEW n \in Int, NEW V \in Victims(b, n)
  PROVE  IF n <= 0 THEN V = {} ELSE Cardinality(V) <= n
<1>1. CASE n <= 0
  BY <1>1 DEF Victims
<1>2. CASE ~(n <= 0)
  <2>1. Cardinality(V) = Min2(n, Cardinality(Having(b.ch, "waiting")))
    BY <1>2 DEF Victims
  <2>2. Cardinality(Having(b.ch, "waiting")) \in Nat
    BY HavingFinite
  <2> QED  BY <1>2, <2>1, <2>2 DEF Min2
<1> QED  BY <1>1, <1>2

\* The entries of children that serve are as many as the tally says.
LEMMA TotalCounted ==
  ASSUME NEW b \in Books, Exact(b)
  PROVE  LET E == {p \in Pids : b.ch[p] \in {"waiting", "processing"}}
         IN  IsFiniteSet(E) /\ Cardinality(E) = Total(b)
<1> DEFINE W == Having(b.ch, "waiting")
           P == Having(b.ch, "processing")
           E == {p \in Pids : b.ch[p] \in {"waiting", "processing"}}
<1>1. E = W \cup P
  BY DEF Having
<1>2. W \cap P = {}
  BY DEF Having
<1>3. /\ IsFiniteSet(W) /\ IsFiniteSet(P)
      /\ Cardinality(W) \in Nat /\ Cardinality(P) \in Nat
  BY HavingFinite
<1> HIDE DEF W, P, E
<1>4. IsFiniteSet(E) /\ Cardinality(E) = Cardinality(W) + Cardinality(P)
  BY <1>1, <1>2, <1>3, FS_Union, FS_EmptySet
<1> QED  BY <1>4 DEF Exact, Total, W, P, E

\* The pass begins and ends with min_servers: it forks what is missing, and takes away no
\* more than there were too many.  b is the table from before the forks, c the one after.
LEMMA SurplusLeavesMin ==
  ASSUME NEW b \in Books, NEW c \in Books, Surplus(c, Total(b), Wanted(b)) > 0
  PROVE  (Total(b) + Wanted(b)) - Surplus(c, Total(b), Wanted(b)) >= Min2(Min, Max)
<1>1. b.n["waiting"] \in Int /\ Total(b) \in Int /\ c.n["waiting"] \in Int
  BY TotalInt DEF Books, Statuses
<1> DEFINE t == Total(b)
           w == c.n["waiting"]
<1>2. Wanted(b) \in Nat
  BY <1>1, ConfigAssumption DEF post_configure, Wanted, Min2
<1> HIDE DEF t, w
<1>3. /\ t \in Int /\ w \in Int
      /\ Surplus(c, t, Wanted(b)) =
           IF w > MaxSpare /\ t > Min
           THEN IF Wanted(b) = 0 THEN Min2(w - MaxSpare, t - Min) ELSE 0
           ELSE IF t > Max THEN t - Max ELSE 0
  BY <1>1 DEF t, w, Surplus
<1>4. Surplus(c, t, Wanted(b)) > 0
  BY DEF t
<1>5. (t + Wanted(b)) - Surplus(c, t, Wanted(b)) >= Min2(Min, Max)
  BY <1>2, <1>3, <1>4, ConfigAssumption DEF post_configure, Min2
<1> QED  BY <1>2, <1>3, <1>5 DEF t

\* The forks and the idle ones alike.
LEMMA IdleLeavesMin ==
  ASSUME NEW b \in Books, NEW c \in Books
  PROVE  /\ Total(b) + Wanted(b) >= Min
         /\ Idle(c, Total(b)) \in Int
         /\ Idle(c, Total(b)) > 0 => (Total(b) + Wanted(b)) - Idle(c, Total(b)) >= Min
<1>1. b.n["waiting"] \in Int /\ Total(b) \in Int /\ c.n["waiting"] \in Int
  BY TotalInt DEF Books, Statuses
<1> DEFINE t == Total(b)
<1>2. Wanted(b) \in Nat /\ t + Wanted(b) >= Min
  BY <1>1, ConfigAssumption DEF post_configure, Wanted, Min2
<1> HIDE DEF t
<1>3. t \in Int
  BY <1>1 DEF t
<1>4. Idle(c, t) \in Int /\ (Idle(c, t) > 0 => Idle(c, t) <= t - Min)
  BY <1>1, <1>3, ConfigAssumption DEF post_configure, Idle, Min2
<1>5. Idle(c, t) > 0 => (t + Wanted(b)) - Idle(c, t) >= Min
  <2> QED  BY <1>2, <1>3, <1>4, ConfigAssumption DEF post_configure
<1> QED  BY <1>2, <1>4, <1>5 DEF t

\* In a pass that finds no entry of a vanished process but those of the reaped, no stage
\* but the forks changes the table, and one kind of kill excludes the other.
LEMMA PassLeavesMin ==
  ASSUME IInv, NEW due \in SUBSET Timers, coordinate_children(due),
         \A p \in Pids : children[p] # "none" /\ pc[p] = "none" => p \in reaped
  PROVE  Cardinality({p \in Pids : children'[p] \in {"waiting", "processing"}
                                   /\ pending'[p] = pending[p]}) >= Min2(Min, Max)
<1>0. TypeOK /\ phase # "down"
  BY DEF IInv, coordinate_children
<1>1. PICK F, V, W, Q : Pass(due, F, V, W, Q)
  BY PassStages
<1> DEFINE b0 == Settled(due)
           procs1 == Fork(F, "born")
           b1 == run_n_children(b0, F)
           k == IF "surplus" \in due THEN Surplus(b1, Total(b0), Wanted(b0)) ELSE 0
           b2 == kill_n_children(b1, V, procs1)
           b3 == delete_child(b2, Dead(due, procs1))
           j == IF "idle" \in due /\ ~justProcessed /\ MayKill(k) THEN Idle(b3, Total(b0)) ELSE 0
           b4 == kill_n_children(b3, W, procs1)
<1>2. /\ F \in SUBSET FreePids(b0, pc) /\ Cardinality(F) = Wanted(b0)
      /\ V \in SUBSET Pids /\ W \in SUBSET Pids
      /\ V \in Victims(b1, k) /\ W \in Victims(b3, j)
      /\ Q \in SUBSET FreePids(b4, procs1)
      /\ children' = run_dequeue(b4, Q).ch
      /\ pending' = Send(pending, V \cup W, "HUP", procs1)
  BY <1>1 DEF Pass
<1>3. Sound(b0, pc) /\ b0 \in Books /\ Total(b0) <= Ceiling
  BY <1>0, SettledSound DEF Sound
<1>4. Sound(b1, procs1) /\ Total(b1) = Total(b0) + Wanted(b0)
  <2>1. Total(b0) + Cardinality(F) <= Ceiling
    BY <1>2, <1>3, WantedBound
  <2>2. F \in SUBSET Pids /\ \A p \in F : b0.ch[p] = "none"
    BY <1>2 DEF FreePids
  <2> QED  BY <1>2, <1>3, <2>1, <2>2, ForkSound, ForkExact DEF Fork
<1>5. \A p \in Pids : procs1[p] = "none" => b1.ch[p] = "none"
  <2> SUFFICES ASSUME NEW p \in Pids, procs1[p] = "none" PROVE b1.ch[p] = "none"
    OBVIOUS
  <2>1. p \notin F /\ pc[p] = "none"
    BY DEF Fork
  <2>2. b0.ch[p] = IF p \in reaped THEN "none" ELSE children[p]
    BY DEF Settled, Retally, delete_child, books
  <2>3. b0.ch[p] = "none"
    BY <2>1, <2>2
  <2> QED  BY <2>1, <2>3 DEF run_n_children
<1>6. Sound(b2, procs1) /\ Sound(b3, procs1) /\ Sound(b4, procs1)
  BY <1>2, <1>4, KillSound, ProbeSound
<1>7. b1 \in Books /\ b2 \in Books /\ b3 \in Books /\ b4 \in Books /\ Exact(b1)
  BY <1>4, <1>6 DEF Sound
<1>8. b4.ch = b1.ch
  <2>1. b2.ch = b1.ch
    <3>1. \A p \in {q \in V : procs1[q] = "none"} : b1.ch[p] = "none"
      BY <1>2, <1>5
    <3> QED  BY <1>7, <3>1, DeleteNothing DEF kill_n_children
  <2>2. b3.ch = b2.ch
    BY <1>5, <1>7, <2>1, DeleteNothing DEF Dead
  <2>3. b4.ch = b3.ch
    <3>1. \A p \in {q \in W : procs1[q] = "none"} : b3.ch[p] = "none"
      BY <1>2, <1>5, <2>1, <2>2
    <3> QED  BY <1>7, <3>1, DeleteNothing DEF kill_n_children
  <2> QED  BY <2>1, <2>2, <2>3
<1>9. \A p \in Pids : children'[p] = IF p \in Q THEN "dequeue" ELSE b1.ch[p]
  BY <1>2, <1>7, <1>8 DEF run_dequeue, Books
<1>10. \A p \in Q : b1.ch[p] = "none"
  BY <1>2, <1>8 DEF FreePids
<1> DEFINE E == {p \in Pids : b1.ch[p] \in {"waiting", "processing"}}
           K == V \cup W
           T == {p \in Pids : children'[p] \in {"waiting", "processing"} /\ pending'[p] = pending[p]}
<1>11. IsFiniteSet(E) /\ Cardinality(E) = Total(b0) + Wanted(b0)
  BY <1>4, <1>7, TotalCounted
<1>12. k \in Int /\ j \in Int
  <2>1. Total(b0) \in Int /\ b1.n["waiting"] \in Int
    BY <1>3, <1>7, TotalInt DEF Books, Statuses
  <2>2. k \in Int
    <3> HIDE DEF b0, b1
    <3> QED  BY <2>1, ConfigAssumption DEF post_configure, Surplus, Min2
  <2>3. Idle(b3, Total(b0)) \in Int
    BY <1>3, <1>7, IdleLeavesMin
  <2> QED  BY <2>2, <2>3
<1>13. E \ K \subseteq T
  <2> SUFFICES ASSUME NEW p \in E \ K PROVE p \in T
    OBVIOUS
  <2>1. pending'[p] = pending[p]
    BY <1>0, <1>2 DEF Send, TypeOK
  <2>2. children'[p] = b1.ch[p]
    BY <1>9, <1>10
  <2> QED  BY <2>1, <2>2
<1>14. \/ K = {}
       \/ k > 0 /\ Cardinality(K) <= k
       \/ j > 0 /\ Cardinality(K) <= j
  <2>1. CASE k > 0
    <3>1. j = 0
      BY <1>12, <2>1 DEF MayKill
    <3> HIDE DEF k, j
    <3>2. W = {}
      BY <1>2, <3>1, VictimsBound
    <3>3. Cardinality(V) <= k
      BY <1>2, <1>12, <2>1, VictimsBound
    <3> QED  BY <2>1, <3>2, <3>3
  <2>2. CASE ~(k > 0)
    <3> HIDE DEF k, j
    <3>1. V = {}
      BY <1>2, <1>12, <2>2, VictimsBound
    <3>2. IF j <= 0 THEN W = {} ELSE Cardinality(W) <= j
      BY <1>2, <1>12, VictimsBound
    <3> QED  BY <1>12, <3>1, <3>2
  <2> QED  BY <2>1, <2>2
<1>15. \/ K = {}
       \/ Cardinality(E) - Cardinality(K) >= Min2(Min, Max)
  <2>1. /\ Cardinality(K) \in Nat /\ Cardinality(E) \in Nat
    <3>1. K \subseteq Pids
      BY <1>2
    <3> QED  BY <1>11, <3>1, PidsAssumption, FS_Subset, FS_CardinalityType
  <2>2. Min2(Min, Max) \in Int /\ Min2(Min, Max) <= Min
    BY ConfigAssumption DEF post_configure, Min2
  <2>3. CASE k > 0 /\ Cardinality(K) <= k
    <3>1. k = Surplus(b1, Total(b0), Wanted(b0))
      BY <2>3
    <3>2. Cardinality(E) - k >= Min2(Min, Max)
      BY <1>3, <1>7, <1>11, <2>3, <3>1, SurplusLeavesMin
    <3> HIDE DEF k, K, E
    <3> QED  BY <1>12, <2>1, <2>2, <2>3, <3>2
  <2>4. CASE j > 0 /\ Cardinality(K) <= j
    <3>1. j = Idle(b3, Total(b0))
      BY <2>4
    <3>2. Cardinality(E) - j >= Min
      BY <1>3, <1>7, <1>11, <2>4, <3>1, IdleLeavesMin
    <3> HIDE DEF j, K, E
    <3> QED  BY <1>12, <2>1, <2>2, <2>4, <3>2, ConfigAssumption DEF post_configure
  <2> QED  BY <1>14, <2>3, <2>4
<1>16. Cardinality(E \ K) >= Min2(Min, Max)
  <2>1. Cardinality(E) >= Min
    BY <1>3, <1>11, IdleLeavesMin
  <2>2. /\ IsFiniteSet(K) /\ Cardinality(K) \in Nat /\ Cardinality(E) \in Nat
        /\ IsFiniteSet(E \cap K) /\ Cardinality(E \cap K) \in Nat
        /\ Cardinality(E \cap K) <= Cardinality(K)
    <3>1. K \subseteq Pids /\ E \cap K \subseteq K
      BY <1>2
    <3> QED  BY <1>11, <3>1, PidsAssumption, FS_Subset, FS_CardinalityType
  <2>3. Cardinality(E \ K) = Cardinality(E) - Cardinality(E \cap K)
    BY <1>11, FS_Difference
  <2>4. K = {} => Cardinality(K) = 0
    BY FS_EmptySet
  <2>5. Min2(Min, Max) \in Int /\ Min2(Min, Max) <= Min
    BY ConfigAssumption DEF post_configure, Min2
  <2> HIDE DEF K, E
  <2> QED  BY <1>15, <2>1, <2>2, <2>3, <2>4, <2>5, ConfigAssumption DEF post_configure
<1>17. IsFiniteSet(T) /\ Cardinality(E \ K) <= Cardinality(T) /\ Cardinality(T) \in Nat
       /\ Cardinality(E \ K) \in Nat
  <2>1. T \subseteq Pids
    OBVIOUS
  <2>2. IsFiniteSet(T)
    BY <2>1, PidsAssumption, FS_Subset
  <2> HIDE DEF T, E, K
  <2> QED  BY <1>13, <2>2, FS_Subset, FS_CardinalityType
<1>18. Min2(Min, Max) \in Int
  BY ConfigAssumption DEF post_configure, Min2
<1> HIDE DEF E, K
<1>19. Cardinality(T) >= Min2(Min, Max)
  <2> HIDE DEF T
  <2> QED  BY <1>16, <1>17, <1>18
<1> QED  BY <1>19

-----------------------------------------------------------------------------
(* The theorems.                                                           *)

\* The inductive invariant holds whatever the pids, the limits and the sizes are.
THEOREM Invariant == Spec => []IInv
<1>1. Init => IInv
  BY InitInv
<1>2. IInv /\ [Next]_vars => IInv'
  BY NextInv
<1> QED  BY <1>1, <1>2, PTL DEF Spec

\* Every variable keeps its type.
THEOREM TypeCorrect == Spec => []TypeOK
<1>1. IInv => TypeOK
  BY DEF IInv
<1> QED  BY <1>1, Invariant, PTL

\* The running counts of run_n_children, run_parent and delete_child agree with the
\* table in every order of lines, reaped children, kills, forks and re-tallies.
THEOREM TallyCorrect == Spec => []TallyMatchesTable
<1>1. IInv => TallyMatchesTable
  BY DEF IInv
<1> QED  BY <1>1, Invariant, PTL

\* tally.dequeue never counts a process that has no entry: the error that run_dequeue
\* and delete_child make together goes one way only, whatever the order of forks,
\* exits and re-tallies.
THEOREM DequeueCounted == Spec => []DequeueNotOvercounted
<1>1. IInv => DequeueNotOvercounted
  BY DEF IInv
<1> QED  BY <1>1, Invariant, PTL

\* coordinate_children never lets more than max_servers children (min_servers, if
\* that is configured higher) wait for clients or serve them.
THEOREM CeilingKept == Spec => []ServingBound
<1>1. IInv => ServingBound
  BY DEF IInv
<1> QED  BY <1>1, Invariant, PTL

\* Until the close the parent has an entry for every child that has not said
\* "exiting": none serves clients unknown to server_close.
THEOREM ChildrenTracked == Spec => []TalkingIsTracked
<1>1. IInv => TalkingIsTracked
  BY DEF IInv
<1> QED  BY <1>1, Invariant, PTL

\* What coordinate_children deletes as reaped is never the pid of a live child.
THEOREM ReapedGone == Spec => []ReapedAreGone
<1>1. IInv => ReapedAreGone
  BY DEF IInv
<1> QED  BY <1>1, Invariant, PTL

\* Until the close the table, once every line that is written has been read, says of each
\* child whether it has a client: no order of forks, lines, kills and deaths misleads it.
THEOREM LastWordsTrue == Spec => []LastWordIsTrue
<1>1. Init => WordInv
  BY InitHeard
<1>2. WordInv /\ [Next]_vars => WordInv'
  BY NextHeard
<1>3. WordInv => LastWordIsTrue
  <2> SUFFICES ASSUME WordInv, phase # "down", NEW p \in Pids
               PROVE  /\ pc[p] \in {"serving", "idle"} => LastWord(p) = "processing"
                      /\ pc[p] \in {"born", "accept", "accepted"} => LastWord(p) = "waiting"
                      /\ pc[p] = "exiting" => LastWord(p) \in {"exiting", "none"}
    BY DEF LastWordIsTrue
  <2>1. pc[p] \in Telling => LastWord(p) \in Truth(pc[p])
    BY HeardIsLast DEF WordInv, AllHeard, IInv
  <2> QED  BY <2>1 DEF Telling, Serving, Truth
<1> QED  BY <1>1, <1>2, <1>3, PTL DEF Spec

\* However late the reports of the children are, a pass of coordinate_children leaves
\* min_servers entries (max_servers, if that is lower) that it did not send HUP, unless a
\* process had vanished behind its back.
THEOREM PassLeavesEnough == Spec => PassKeepsMin
<1>1. IInv /\ [Next]_vars =>
        [ (phase = "coordinate" /\ phase' = "select"
            /\ \A p \in Pids : children[p] # "none" /\ pc[p] = "none" => p \in reaped)
          => Cardinality({p \in Pids : children'[p] \in {"waiting", "processing"}
                                       /\ pending'[p] = pending[p]}) >= Min2(Min, Max) ]_vars
  <2> SUFFICES ASSUME IInv, Next, phase = "coordinate", phase' = "select",
                      \A p \in Pids : children[p] # "none" /\ pc[p] = "none" => p \in reaped
               PROVE  Cardinality({p \in Pids : children'[p] \in {"waiting", "processing"}
                                                /\ pending'[p] = pending[p]}) >= Min2(Min, Max)
    OBVIOUS
  <2>1. Coordinate
    BY DEF Next, ParentStep, SigChld, RunParent, CanRead, CheckSigs, ReadLine, ForkFails, BadFork,
           server_close, Terminate, Terminated, ChildStep, RunChild, StartClient, NextClient, Leave, Exit,
           HandleSignal, Accept, AcceptFails, EndClient, LastClient, Crash, parent, vars
  <2> QED  BY <2>1, PassLeavesMin DEF Coordinate
<1> QED  BY <1>1, Invariant, PTL DEF Spec, PassKeepsMin
=============================================================================
