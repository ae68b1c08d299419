-------------------------- MODULE ThreadSyncProofs --------------------------
(***************************************************************************)
(* Proofs about ThreadSync, for any set of threads, of items and of        *)
(* amounts.  A step is seen from the wait sets: it puts one thread to      *)
(* sleep or releases some, and only a step of the queue or of the          *)
(* semaphore changes what the sleepers of either wait for.                 *)
(***************************************************************************)
EXTENDS ThreadSync, SequenceTheorems, FiniteSetTheorems, TLAPS

\* A thread is in one place only: asleep or released, on one variable.
OnePlace ==
  /\ \A v \in Shared : asleep[v] \cap woken[v] = {}
  /\ \A u, v \in Shared : u # v => (asleep[u] \cup woken[u]) \cap (asleep[v] \cup woken[v]) = {}

\* What a thread in a call has asked for is a count or an amount it may ask for.
AskedCounts == \A t \in asleep["queue"] \cup woken["queue"] : need[t] \in Counts

AskedAmounts == \A t \in asleep["permits"] \cup woken["permits"] : need[t] \in Amounts

Base == TypeOK /\ OnePlace /\ AskedCounts /\ AskedAmounts

Uniform == \A m, n \in Counts : m = n

-----------------------------------------------------------------------------
\* What a section of the queue leaves is a queue, and how long it is.
LEMMA SubSeqType ==
  ASSUME NEW q \in Seq(Items), NEW n \in Nat
  PROVE  /\ SubSeq(q, n + 1, Len(q)) \in Seq(Items)
         /\ Len(SubSeq(q, n + 1, Len(q))) = IF n < Len(q) THEN Len(q) - n ELSE 0
<1>1. Len(q) \in Nat /\ \A i \in n + 1 .. Len(q) : q[i] \in Items
  BY ElementOfSeq, LenProperties, SMT
<1>2. n + 1 \in Int /\ Len(q) \in Int
  BY <1>1
<1>3. /\ SubSeq(q, n + 1, Len(q)) \in Seq(Items)
      /\ Len(SubSeq(q, n + 1, Len(q))) = IF n + 1 <= Len(q) THEN Len(q) - (n + 1) + 1 ELSE 0
  BY <1>1, <1>2, SubSeqProperties, ZenonT(30)
<1> DEFINE rest == SubSeq(q, n + 1, Len(q))
<1> HIDE DEF rest
<1>4. Len(rest) = IF n < Len(q) THEN Len(q) - n ELSE 0
  <2>1. Len(rest) = IF n + 1 <= Len(q) THEN Len(q) - (n + 1) + 1 ELSE 0
    BY <1>3, Zenon DEF rest
  <2> QED
    BY <1>1, <2>1
<1> QED
  BY <1>3, <1>4, Zenon DEF rest

\* What is kept in front of a section is a queue, and how long it is.
LEMMA PrefixType ==
  ASSUME NEW q \in Seq(Items), NEW n \in Nat, n <= Len(q)
  PROVE  /\ SubSeq(q, 1, n) \in Seq(Items)
         /\ Len(SubSeq(q, 1, n)) = n
<1>1. Len(q) \in Nat /\ \A i \in 1 .. n : q[i] \in Items
  BY ElementOfSeq, LenProperties, SMT
<1> DEFINE one == 1
           start == SubSeq(q, one, n)
<1>2. one \in Int /\ n \in Int /\ \A i \in one .. n : q[i] \in Items
  BY <1>1
<1> HIDE DEF one
<1>3. start \in Seq(Items) /\ Len(start) = IF one <= n THEN n - one + 1 ELSE 0
  BY <1>2, SubSeqProperties, ZenonT(30)
<1> HIDE DEF start
<1>4. Len(start) = n
  BY <1>3 DEF one
<1> QED
  BY <1>3, <1>4, Zenon DEF start, one

\* Rest, what dequeue leaves, is a queue that is not longer.
LEMMA RestType ==
  ASSUME NEW q \in Seq(Items), NEW n \in Nat
  PROVE  Rest(q, n) \in Seq(Items) /\ Len(Rest(q, n)) <= Len(q)
<1> DEFINE least == Least(n, Len(q))
<1>1. Len(q) \in Nat
  BY LenProperties
<1>2. least \in Nat
  BY <1>1 DEF Least
<1> HIDE DEF least
<1>3. /\ SubSeq(q, least + 1, Len(q)) \in Seq(Items)
      /\ Len(SubSeq(q, least + 1, Len(q))) = IF least < Len(q) THEN Len(q) - least ELSE 0
  BY <1>2, SubSeqType
<1>4. (IF least < Len(q) THEN Len(q) - least ELSE 0) <= Len(q)
  BY <1>1, <1>2
<1> QED
  BY <1>3, <1>4, Zenon DEF Rest, least

\* A list of items handed to enqueue or insert is a sequence of items.
LEMMA ListsType == ASSUME NEW list \in Lists PROVE list \in Seq(Items)
<1>1. PICK n \in 0 .. MaxBatch : list \in [1 .. n -> Items]
  BY DEF Lists
<1>2. n \in Nat
  BY <1>1, BoundsAssumption
<1> QED
  BY <1>1, <1>2, SeqDef, Zenon

\* insert, at any index, leaves a queue.
LEMMA InsertedType ==
  ASSUME NEW q \in Seq(Items), NEW i \in Int, NEW list \in Seq(Items)
  PROVE  Inserted(q, i, list) \in Seq(Items)
<1> DEFINE kept == Least(InsertPosition(q, i), Len(q))
<1>1. Len(q) \in Nat
  BY LenProperties
<1>2. InsertPosition(q, i) \in Nat
  BY <1>1 DEF InsertPosition
<1>3. kept \in Nat /\ kept <= Len(q)
  BY <1>1, <1>2 DEF Least
<1> HIDE DEF kept
<1>4. /\ SubSeq(q, 1, kept) \in Seq(Items)
      /\ SubSeq(q, kept + 1, Len(q)) \in Seq(Items)
  BY <1>3, PrefixType, SubSeqType
<1>5. (SubSeq(q, 1, kept) \o list) \o SubSeq(q, kept + 1, Len(q)) \in Seq(Items)
  BY <1>4, ConcatProperties, Zenon
<1> QED
  BY <1>5, Zenon DEF Inserted, kept

\* extract, at any index, leaves a queue that is not longer.
LEMMA AfterExtractType ==
  ASSUME NEW q \in Seq(Items), NEW i \in Int, NEW n \in Nat
  PROVE  AfterExtract(q, i, n) \in Seq(Items) /\ Len(AfterExtract(q, i, n)) <= Len(q)
<1> DEFINE index == FromHead(q, i)
           kept == Least(index, Len(q))
           beyond == Least(index + n, Len(q))
<1>1. Len(q) \in Nat /\ index \in Int
  BY LenProperties DEF FromHead
<1>2. CASE index >= 0
  <2>1. /\ kept \in Nat /\ kept <= Len(q)
        /\ beyond \in Nat /\ kept <= beyond
    BY <1>1, <1>2 DEF Least
  <2>2. AfterExtract(q, i, n) = SubSeq(q, 1, kept) \o SubSeq(q, beyond + 1, Len(q))
    BY <1>2 DEF AfterExtract
  <2> HIDE DEF kept, beyond
  <2>3. /\ SubSeq(q, 1, kept) \in Seq(Items) /\ Len(SubSeq(q, 1, kept)) = kept
        /\ SubSeq(q, beyond + 1, Len(q)) \in Seq(Items)
        /\ Len(SubSeq(q, beyond + 1, Len(q)))
             = IF beyond < Len(q) THEN Len(q) - beyond ELSE 0
    BY <2>1, PrefixType, SubSeqType
  <2>4. kept + (IF beyond < Len(q) THEN Len(q) - beyond ELSE 0) <= Len(q)
    BY <1>1, <2>1
  <2> QED
    BY <2>2, <2>3, <2>4, ConcatProperties, Zenon
<1>3. CASE ~(index >= 0) /\ n + index > 0
  <2>1. Rest(q, n + index) \in Seq(Items) /\ Len(Rest(q, n + index)) <= Len(q)
    BY <1>1, <1>3, RestType
  <2> QED
    BY <1>1, <1>3, <2>1 DEF AfterExtract
<1>4. CASE ~(index >= 0) /\ ~(n + index > 0)
  BY <1>1, <1>4 DEF AfterExtract
<1> QED
  BY <1>2, <1>3, <1>4

-----------------------------------------------------------------------------
\* Going to sleep, from outside of a call or after a vain release.
LEMMA SleepKeepsBase ==
  ASSUME Base, NEW t \in Threads, NEW v \in Shared, NEW n \in Nat,
         Idle(t) \/ t \in woken[v], v = "queue" => n \in Counts,
         v = "permits" => n \in Amounts,
         cond_wait(t, v, n)
  PROVE  Base'
<1>1. TypeOK'
  BY DEF Base, TypeOK, cond_wait
<1>2. /\ \A u \in Shared : asleep'[u] = IF u = v THEN asleep[u] \cup {t} ELSE asleep[u]
      /\ \A u \in Shared : woken'[u] = IF u = v THEN woken[u] \ {t} ELSE woken[u]
  BY DEF Base, TypeOK, cond_wait
<1>3. \A u \in Shared : t \notin asleep[u] /\ (u # v => t \notin woken[u])
  BY DEF Base, OnePlace, Idle
<1>4. OnePlace'
  <2>1. ASSUME NEW u \in Shared
        PROVE  asleep'[u] \cap woken'[u] = {}
    BY <1>2, <1>3, <2>1 DEF Base, OnePlace
  <2>2. ASSUME NEW u \in Shared, NEW w \in Shared, u # w
        PROVE  (asleep'[u] \cup woken'[u]) \cap (asleep'[w] \cup woken'[w]) = {}
    <3>1. \A x \in Shared : asleep'[x] \cup woken'[x]
                             = IF x = v THEN asleep[x] \cup woken[x] \cup {t}
                               ELSE asleep[x] \cup woken[x]
      BY <1>2
    <3>2. (asleep[u] \cup woken[u]) \cap (asleep[w] \cup woken[w]) = {}
      BY <2>2 DEF Base, OnePlace
    <3>3. CASE u = v
      BY <1>3, <2>2, <3>1, <3>2, <3>3
    <3>4. CASE u # v
      BY <1>3, <2>2, <3>1, <3>2, <3>4
    <3> QED
      BY <3>3, <3>4
  <2> QED
    BY <2>1, <2>2 DEF OnePlace
<1>5. AskedCounts' /\ AskedAmounts'
  <2>1. \A s \in Threads : need'[s] = IF s = t THEN n ELSE need[s]
    BY DEF Base, TypeOK, cond_wait
  <2>2. "queue" \in Shared /\ "permits" \in Shared
    BY DEF Shared
  <2>3. /\ v # "queue" => t \notin asleep["queue"] \cup woken["queue"]
        /\ v # "permits" => t \notin asleep["permits"] \cup woken["permits"]
    BY <1>3, <2>2
  <2>4. AskedCounts'
    <3>1. ASSUME NEW s \in asleep'["queue"] \cup woken'["queue"]
          PROVE  s \in Threads /\ (s = t => v = "queue")
                 /\ (s # t => s \in asleep["queue"] \cup woken["queue"])
      BY <1>2, <2>2, <2>3, <3>1 DEF Base, TypeOK
    <3>2. \A s \in asleep["queue"] \cup woken["queue"] : need[s] \in Counts
      BY DEF Base, AskedCounts
    <3>3. ASSUME NEW s \in asleep'["queue"] \cup woken'["queue"]
          PROVE  need'[s] \in Counts
      BY <2>1, <3>1, <3>2, <3>3
    <3> QED
      BY <3>3 DEF AskedCounts
  <2>5. AskedAmounts'
    <3>1. ASSUME NEW s \in asleep'["permits"] \cup woken'["permits"]
          PROVE  s \in Threads /\ (s = t => v = "permits")
                 /\ (s # t => s \in asleep["permits"] \cup woken["permits"])
      BY <1>2, <2>2, <2>3, <3>1 DEF Base, TypeOK
    <3>2. \A s \in asleep["permits"] \cup woken["permits"] : need[s] \in Amounts
      BY DEF Base, AskedAmounts
    <3>3. ASSUME NEW s \in asleep'["permits"] \cup woken'["permits"]
          PROVE  need'[s] \in Amounts
      BY <2>1, <3>1, <3>2, <3>3
    <3> QED
      BY <3>3 DEF AskedAmounts
  <2> QED
    BY <2>4, <2>5
<1> QED
  BY <1>1, <1>4, <1>5 DEF Base

\* Releasing some sleepers of a variable, by a thread that is not in a call or has
\* just been released on the same variable.
LEMMA ReleaseKeepsBase ==
  ASSUME Base, queue' \in Seq(Items), permits' \in Int, need' = need,
         NEW t, NEW v \in Shared, NEW released \in SUBSET asleep[v],
         Release(t, v, released)
  PROVE  Base'
<1>1. TypeOK'
  BY DEF Base, TypeOK, Release
<1>2. /\ \A u \in Shared : asleep'[u] \subseteq asleep[u]
      /\ \A u \in Shared : asleep'[u] \cup woken'[u] \subseteq asleep[u] \cup woken[u]
      /\ \A u \in Shared : asleep'[u] \cap woken'[u] \subseteq asleep[u] \cap woken[u]
  BY DEF Base, TypeOK, Release
<1>3. OnePlace'
  BY <1>2 DEF Base, OnePlace
<1>4. AskedCounts' /\ AskedAmounts'
  BY <1>2 DEF Base, AskedCounts, AskedAmounts, Shared
<1> QED
  BY <1>1, <1>3, <1>4 DEF Base

\* A signal releases sleepers of its variable.
LEMMA SignalsSleepers ==
  ASSUME NEW v
  PROVE  /\ cond_signal(v) \subseteq SUBSET asleep[v]
         /\ cond_broadcast(v) \subseteq SUBSET asleep[v]
BY DEF cond_signal, cond_broadcast

\* Before the first call nobody is asleep or released.
LEMMA InitBase == Init => Base
<1> SUFFICES ASSUME Init PROVE Base
  OBVIOUS
<1>1. TypeOK
  BY EmptySeq, BoundsAssumption DEF Init, TypeOK
<1> QED
  BY <1>1 DEF Init, Base, OnePlace, AskedCounts, AskedAmounts, Shared

\* Every step of a thread is one of four: it goes to sleep, changes the queue, changes
\* the permits, or another thread wakes up for no reason.
LEMMA StepKeepsBase == Base /\ [Next]_vars => Base'
<1> SUFFICES ASSUME Base, [Next]_vars PROVE Base'
  OBVIOUS
<1> USE DEF Base
<1>0. "queue" \in Shared /\ "permits" \in Shared /\ \A v \in Shared : {} \in SUBSET asleep[v]
  BY DEF Shared
<1>q. queue \in Seq(Items) /\ permits \in Int
  BY DEF TypeOK
<1>1. CASE UNCHANGED vars
  BY <1>1 DEF vars, TypeOK, OnePlace, AskedCounts, AskedAmounts
<1>2. ASSUME NEW t \in Threads, NEW list \in Lists, Enqueue(t, list)
      PROVE  Base'
  <2>1. queue' \in Seq(Items)
    BY <1>2, <1>q, ListsType, ConcatProperties, Zenon DEF Enqueue
  <2>2. PICK released \in SUBSET asleep["queue"] : Release(t, "queue", released)
    BY <1>2, SignalsSleepers DEF Enqueue
  <2> QED
    BY <1>0, <1>2, <1>q, <2>1, <2>2, ReleaseKeepsBase DEF Enqueue
<1>3. ASSUME NEW t \in Threads, NEW n \in Nat, n \in Counts,
             Idle(t) \/ t \in woken["queue"], DequeueSection(t, n)
      PROVE  Base'
  <2>1. CASE cond_wait(t, "queue", n)
    BY <1>0, <1>3, <2>1, SleepKeepsBase
  <2>2. CASE ~cond_wait(t, "queue", n)
    <3>1. queue' \in Seq(Items)
      BY <1>3, <2>2, <1>q, SubSeqType DEF DequeueSection
    <3>2. PICK released \in SUBSET asleep["queue"] : Release(t, "queue", released)
      BY <1>3, <2>2, SignalsSleepers DEF DequeueSection
    <3> QED
      BY <1>0, <1>3, <1>q, <2>2, <3>1, <3>2, ReleaseKeepsBase DEF DequeueSection
  <2> QED
    BY <2>1, <2>2
<1>4. ASSUME NEW t \in Threads, NEW n \in Nat, DequeueNb(t, n)
      PROVE  Base'
  BY <1>4, <1>q, RestType DEF DequeueNb, TypeOK, OnePlace, AskedCounts, AskedAmounts
<1>5. ASSUME NEW t \in Threads, NEW i \in Int, NEW list \in Lists, Insert(t, i, list)
      PROVE  Base'
  <2>1. queue' \in Seq(Items)
    BY <1>5, <1>q, ListsType, InsertedType DEF Insert
  <2>2. PICK released \in SUBSET asleep["queue"] : Release(t, "queue", released)
    BY <1>5, SignalsSleepers DEF Insert
  <2> QED
    BY <1>0, <1>5, <1>q, <2>1, <2>2, ReleaseKeepsBase DEF Insert
<1>6. ASSUME NEW t \in Threads, NEW i \in Int, NEW n \in Nat, Extract(t, i, n)
      PROVE  Base'
  BY <1>6, <1>q, AfterExtractType DEF Extract, TypeOK, OnePlace, AskedCounts, AskedAmounts
<1>7. ASSUME NEW t \in Threads, NEW n \in Nat, n \in Amounts,
             Idle(t) \/ t \in woken["permits"], DownSection(t, n)
      PROVE  Base'
  <2>1. CASE cond_wait(t, "permits", n)
    BY <1>0, <1>7, <2>1, SleepKeepsBase
  <2>2. CASE ~cond_wait(t, "permits", n)
    <3>1. permits' \in Int /\ Release(t, "permits", {}) /\ UNCHANGED <<queue, need>>
      BY <1>7, <2>2, <1>q DEF DownSection
    <3> QED
      BY <1>0, <1>q, <3>1, ReleaseKeepsBase
  <2> QED
    BY <2>1, <2>2
<1>8. ASSUME NEW t \in Threads, NEW n \in Nat, DownNb(t, n) \/ DownForce(t, n)
      PROVE  Base'
  BY <1>8, <1>q DEF DownNb, DownForce, TypeOK, OnePlace, AskedCounts, AskedAmounts
<1>9. ASSUME NEW t \in Threads, NEW n \in Nat, Up(t, n)
      PROVE  Base'
  <2>1. permits' \in Int /\ UNCHANGED <<queue, need>>
    BY <1>9, <1>q DEF Up
  <2>2. PICK released \in SUBSET asleep["permits"] : Release(t, "permits", released)
    BY <1>9, SignalsSleepers DEF Up
  <2> QED
    BY <1>0, <1>q, <2>1, <2>2, ReleaseKeepsBase
<1>10. ASSUME NEW t \in Threads, NEW v \in Shared, SpuriousWakeup(t, v)
       PROVE  Base'
  BY <1>10, <1>q, ReleaseKeepsBase DEF SpuriousWakeup
<1>11. CASE Next
  <2>1. PICK t \in Threads : \/ QueueStep(t) \/ SemaphoreStep(t)
                             \/ \E v \in Shared : SpuriousWakeup(t, v)
    BY <1>11 DEF Next
  <2>2. Counts \cup Cuts \subseteq Nat /\ Amounts \subseteq Nat /\ Indexes \subseteq Int
    BY CountsAssumption, IndexesAssumption
  <2>3. t \in woken["queue"] => need[t] \in Counts
    BY DEF AskedCounts
  <2>4. t \in woken["permits"] => need[t] \in Amounts
    BY DEF AskedAmounts
  <2>5. QueueStep(t) => Base'
    BY <1>2, <1>3, <1>4, <1>5, <1>6, <2>2, <2>3 DEF QueueStep, Dequeue, DequeueAgain
  <2>6. SemaphoreStep(t) => Base'
    BY <1>7, <1>8, <1>9, <2>2, <2>4 DEF SemaphoreStep, Down, DownAgain
  <2> QED
    BY <1>10, <2>1, <2>5, <2>6
<1> QED
  BY <1>1, <1>11

\* The state of threads, queue and semaphore is well formed in every execution.
THEOREM TypeCorrect == Spec => []TypeOK
<1>1. Base => TypeOK
  BY DEF Base
<1> QED
  BY <1>1, InitBase, StepKeepsBase, PTL DEF Spec

-----------------------------------------------------------------------------
(***************************************************************************)
(* No lost signal on the queue.                                            *)
(***************************************************************************)
\* A step that leaves the wait sets of the queue alone and does not lengthen it.
LEMMA ShorterQueueKeeps ==
  ASSUME Base, NoSleepBesideItems, queue' \in Seq(Items), Len(queue') <= Len(queue),
         asleep'["queue"] = asleep["queue"], woken'["queue"] = woken["queue"],
         \A t \in asleep["queue"] : need'[t] = need[t]
  PROVE  NoSleepBesideItems'
<1>1. Len(queue) \in Nat /\ Len(queue') \in Nat
  BY LenProperties DEF Base, TypeOK
<1>2. \A t \in asleep["queue"] : need[t] \in Nat
  BY DEF Base, TypeOK, Shared
<1> QED
  BY <1>1, <1>2 DEF NoSleepBesideItems

\* A step that signals, by a thread that is not asleep.
LEMMA SignalKeeps ==
  ASSUME Base, NEW t, t \notin asleep["queue"],
         NEW released \in cond_signal("queue"), Release(t, "queue", released)
  PROVE  NoSleepBesideItems'
<1>1. /\ asleep'["queue"] = asleep["queue"] \ released
      /\ woken'["queue"] = (woken["queue"] \cup released) \ {t}
  BY DEF Release, Base, TypeOK, Shared
<1>2. asleep["queue"] # {} => released # {} /\ t \notin released
  BY DEF cond_signal
<1> QED
  BY <1>1, <1>2 DEF NoSleepBesideItems

\* A step that leaves the queue empty: nobody sleeps beside what there is not.
LEMMA EmptyQueueKeeps ==
  ASSUME Base', Len(queue') = 0
  PROVE  NoSleepBesideItems'
<1>1. \A t \in asleep'["queue"] : need'[t] \in Nat \ {0}
  BY CountsAssumption DEF Base, AskedCounts
<1> QED
  BY <1>1 DEF NoSleepBesideItems

\* Where all ask for the same number of items, no step leaves one asleep beside them.
LEMMA StepKeepsItems ==
  ASSUME Uniform
  PROVE  Base /\ NoSleepBesideItems /\ [Next]_vars => NoSleepBesideItems'
<1> SUFFICES ASSUME Base, NoSleepBesideItems, [Next]_vars PROVE NoSleepBesideItems'
  OBVIOUS
<1>0. "queue" \in Shared /\ "permits" \in Shared /\ "queue" # "permits"
  BY DEF Shared
<1>q. /\ queue \in Seq(Items) /\ Len(queue) \in Nat
      /\ asleep \in [Shared -> SUBSET Threads] /\ woken \in [Shared -> SUBSET Threads]
      /\ need \in [Threads -> Nat]
  BY LenProperties DEF Base, TypeOK
<1>b. Base'
  BY StepKeepsBase
<1>1. CASE UNCHANGED vars
  BY <1>1, <1>q, ShorterQueueKeeps DEF vars
<1>2. ASSUME NEW t \in Threads, NEW list \in Lists, Enqueue(t, list)
      PROVE  NoSleepBesideItems'
  <2>1. CASE queue' = <<>>
    BY <1>b, <2>1, EmptyQueueKeeps
  <2>2. CASE queue' # <<>>
    BY <1>0, <1>2, <2>2, SignalKeeps DEF Enqueue, Idle
  <2> QED
    BY <2>1, <2>2
<1>3. ASSUME NEW t \in Threads, NEW n \in Counts,
             Idle(t) \/ t \in woken["queue"], DequeueSection(t, n)
      PROVE  NoSleepBesideItems'
  <2>1. n \in Nat \ {0}
    BY CountsAssumption
  <2>2. CASE Len(queue) < n /\ cond_wait(t, "queue", n)
    <3>1. \A s \in asleep'["queue"] : need'[s] = n
      <4>1. \A s \in asleep'["queue"] : need'[s] \in Counts
        BY <1>b DEF Base, AskedCounts
      <4> QED
        BY <4>1 DEF Uniform
    <3> QED
      BY <1>q, <2>1, <2>2, <3>1 DEF NoSleepBesideItems, cond_wait
  <2>3. CASE Len(queue) > n /\ ~(Len(queue) < n)
    <3>1. t \notin asleep["queue"]
      BY <1>0, <1>3 DEF Base, OnePlace, Idle
    <3> QED
      BY <1>3, <2>3, <3>1, SignalKeeps DEF DequeueSection
  <2>4. CASE Len(queue) = n /\ queue' = SubSeq(queue, n + 1, Len(queue))
    <3>1. Len(queue') = 0
      BY <1>q, <2>1, <2>4, SubSeqType
    <3> QED
      BY <1>b, <3>1, EmptyQueueKeeps
  <2> QED
    BY <1>3, <1>q, <2>1, <2>2, <2>3, <2>4 DEF DequeueSection
<1>4. ASSUME NEW t \in Threads, NEW n \in Nat, DequeueNb(t, n)
      PROVE  NoSleepBesideItems'
  BY <1>4, <1>q, RestType, ShorterQueueKeeps DEF DequeueNb
<1>5. ASSUME NEW t \in Threads, NEW i \in Int, NEW list \in Lists, Insert(t, i, list)
      PROVE  NoSleepBesideItems'
  BY <1>0, <1>5, SignalKeeps DEF Insert, Idle
<1>6. ASSUME NEW t \in Threads, NEW i \in Int, NEW n \in Nat, Extract(t, i, n)
      PROVE  NoSleepBesideItems'
  BY <1>6, <1>q, AfterExtractType, ShorterQueueKeeps DEF Extract
<1>7. ASSUME NEW t \in Threads, NEW n \in Nat,
             Idle(t) \/ t \in woken["permits"], DownSection(t, n)
      PROVE  NoSleepBesideItems'
  <2>1. t \notin asleep["queue"]
    BY <1>0, <1>7 DEF Base, OnePlace, Idle
  <2>2. /\ queue' = queue
        /\ asleep'["queue"] = asleep["queue"] /\ woken'["queue"] = woken["queue"]
        /\ \A s \in asleep["queue"] : need'[s] = need[s]
    BY <1>0, <1>7, <1>q, <2>1 DEF DownSection, cond_wait, Release
  <2> QED
    BY <1>q, <2>2, ShorterQueueKeeps
<1>8. ASSUME NEW t \in Threads, NEW n \in Nat, DownNb(t, n) \/ DownForce(t, n)
      PROVE  NoSleepBesideItems'
  BY <1>8, <1>q, ShorterQueueKeeps DEF DownNb, DownForce
<1>9. ASSUME NEW t \in Threads, NEW n \in Nat, Up(t, n)
      PROVE  NoSleepBesideItems'
  <2>1. /\ queue' = queue /\ need' = need
        /\ asleep'["queue"] = asleep["queue"] /\ woken'["queue"] = woken["queue"]
    BY <1>0, <1>9, <1>q DEF Up, Release
  <2> QED
    BY <1>q, <2>1, ShorterQueueKeeps
<1>10. ASSUME NEW t \in Threads, NEW v \in Shared, SpuriousWakeup(t, v)
       PROVE  NoSleepBesideItems'
  <2>1. CASE v = "queue"
    <3>1. t \in woken'["queue"]
      BY <1>0, <1>10, <1>q, <2>1, ThreadsAssumption DEF SpuriousWakeup, Release
    <3> QED
      BY <3>1 DEF NoSleepBesideItems
  <2>2. CASE v # "queue"
    <3>1. /\ queue' = queue /\ need' = need
          /\ asleep'["queue"] = asleep["queue"] /\ woken'["queue"] = woken["queue"]
      BY <1>0, <1>10, <1>q, <2>2 DEF SpuriousWakeup, Release
    <3> QED
      BY <1>q, <3>1, ShorterQueueKeeps
  <2> QED
    BY <2>1, <2>2
<1>11. CASE Next
  <2>1. PICK t \in Threads : \/ QueueStep(t) \/ SemaphoreStep(t)
                             \/ \E v \in Shared : SpuriousWakeup(t, v)
    BY <1>11 DEF Next
  <2>2. Counts \cup Cuts \subseteq Nat /\ Amounts \subseteq Nat /\ Indexes \subseteq Int
    BY CountsAssumption, IndexesAssumption
  <2>3. t \in woken["queue"] => need[t] \in Counts
    BY DEF Base, AskedCounts
  <2>4. need[t] \in Nat
    BY <1>q
  <2>5. QueueStep(t) => NoSleepBesideItems'
    BY <1>2, <1>3, <1>4, <1>5, <1>6, <2>2, <2>3 DEF QueueStep, Dequeue, DequeueAgain
  <2>6. SemaphoreStep(t) => NoSleepBesideItems'
    BY <1>7, <1>8, <1>9, <2>2, <2>4 DEF SemaphoreStep, Down, DownAgain
  <2> QED
    BY <1>10, <2>1, <2>5, <2>6
<1> QED
  BY <1>1, <1>11

\* When every dequeue asks for the same count, no signal is lost: no thread sleeps
\* beside as many items as it asked for unless a released thread is on its way.
THEOREM NoLostSignal ==
  ASSUME Uniform
  PROVE  Spec => []NoSleepBesideItems
<1>1. Init => NoSleepBesideItems
  BY DEF Init, NoSleepBesideItems, Shared
<1>2. Base /\ NoSleepBesideItems /\ [Next]_vars => NoSleepBesideItems'
  BY StepKeepsItems
<1> QED
  BY <1>1, <1>2, InitBase, StepKeepsBase, PTL DEF Spec

-----------------------------------------------------------------------------
(***************************************************************************)
(* No lost broadcast on the semaphore, for any amounts.                    *)
(***************************************************************************)
\* A step that adds no sleeper and no permit.
LEMMA FewerPermitsKeeps ==
  ASSUME Base, NoSleepBesidePermits, permits' \in Int, permits' <= permits,
         asleep'["permits"] \subseteq asleep["permits"],
         \A t \in asleep["permits"] : need'[t] = need[t]
  PROVE  NoSleepBesidePermits'
<1>1. permits \in Int /\ \A t \in asleep["permits"] : need[t] \in Nat
  BY DEF Base, TypeOK, Shared
<1> QED
  BY <1>1 DEF NoSleepBesidePermits

\* No step of up, down or a wake-up leaves a thread asleep beside enough permits.
LEMMA StepKeepsPermits ==
  Base /\ NoSleepBesidePermits /\ [Next]_vars => NoSleepBesidePermits'
<1> SUFFICES ASSUME Base, NoSleepBesidePermits, [Next]_vars PROVE NoSleepBesidePermits'
  OBVIOUS
<1>0. "queue" \in Shared /\ "permits" \in Shared /\ "queue" # "permits"
  BY DEF Shared
<1>q. /\ permits \in Int
      /\ asleep \in [Shared -> SUBSET Threads] /\ woken \in [Shared -> SUBSET Threads]
      /\ need \in [Threads -> Nat]
  BY DEF Base, TypeOK
<1>1. CASE UNCHANGED vars
  BY <1>1, <1>q, FewerPermitsKeeps DEF vars
<1>2. ASSUME NEW t, NEW released, Release(t, "queue", released), UNCHANGED <<permits, need>>
      PROVE  NoSleepBesidePermits'
  <2>1. asleep'["permits"] = asleep["permits"]
    BY <1>0, <1>2, <1>q DEF Release
  <2> QED
    BY <1>2, <1>q, <2>1, FewerPermitsKeeps
<1>3. ASSUME NEW t \in Threads, NEW n \in Nat,
             Idle(t) \/ t \in woken["queue"], DequeueSection(t, n)
      PROVE  NoSleepBesidePermits'
  <2>1. CASE cond_wait(t, "queue", n)
    <3>1. t \notin asleep["permits"]
      BY <1>0, <1>3 DEF Base, OnePlace, Idle
    <3>2. /\ permits' = permits /\ asleep'["permits"] = asleep["permits"]
          /\ \A s \in asleep["permits"] : need'[s] = need[s]
      BY <1>0, <1>q, <2>1, <3>1 DEF cond_wait
    <3> QED
      BY <1>q, <3>2, FewerPermitsKeeps
  <2>2. CASE ~cond_wait(t, "queue", n)
    BY <1>2, <1>3, <2>2 DEF DequeueSection
  <2> QED
    BY <2>1, <2>2
<1>4. ASSUME UNCHANGED <<permits, asleep, need>>
      PROVE  NoSleepBesidePermits'
  BY <1>4, <1>q, FewerPermitsKeeps
<1>5. ASSUME NEW t \in Threads, NEW n \in Nat,
             Idle(t) \/ t \in woken["permits"], DownSection(t, n)
      PROVE  NoSleepBesidePermits'
  <2>1. CASE permits < n /\ cond_wait(t, "permits", n)
    <3>1. /\ permits' = permits /\ asleep'["permits"] = asleep["permits"] \cup {t}
          /\ \A s \in Threads : need'[s] = IF s = t THEN n ELSE need[s]
      BY <1>0, <1>q, <2>1 DEF cond_wait
    <3>2. \A s \in asleep["permits"] : s \in Threads
      BY <1>0, <1>q
    <3> QED
      BY <1>q, <2>1, <3>1, <3>2 DEF NoSleepBesidePermits
  <2>2. CASE ~(permits < n /\ cond_wait(t, "permits", n))
    <3>1. /\ permits' \in Int /\ permits' <= permits /\ need' = need
          /\ asleep'["permits"] = asleep["permits"]
      BY <1>0, <1>5, <1>q, <2>2 DEF DownSection, Release
    <3> QED
      BY <3>1, FewerPermitsKeeps
  <2> QED
    BY <2>1, <2>2
<1>6. ASSUME NEW t \in Threads, NEW n \in Nat, DownNb(t, n) \/ DownForce(t, n)
      PROVE  NoSleepBesidePermits'
  <2>1. /\ permits' \in Int /\ permits' <= permits /\ asleep' = asleep /\ need' = need
    BY <1>6, <1>q DEF DownNb, DownForce
  <2> QED
    BY <2>1, FewerPermitsKeeps
<1>7. ASSUME NEW t \in Threads, NEW n \in Nat, Up(t, n)
      PROVE  NoSleepBesidePermits'
  <2>1. CASE permits' > 0
    <3>1. asleep'["permits"] = {}
      BY <1>0, <1>7, <1>q, <2>1 DEF Up, cond_broadcast, Release
    <3> QED
      BY <3>1 DEF NoSleepBesidePermits
  <2>2. CASE ~(permits' > 0)
    <3>1. permits' \in Int /\ need' = need /\ asleep'["permits"] = asleep["permits"]
      BY <1>0, <1>7, <1>q, <2>2 DEF Up, Release
    <3>2. \A s \in asleep["permits"] : need[s] \in Nat /\ need[s] > permits
      BY <1>0, <1>q DEF NoSleepBesidePermits
    <3>3. \A s \in asleep'["permits"] : need'[s] > permits'
      <4> SUFFICES ASSUME NEW s \in asleep["permits"] PROVE need[s] > permits'
        BY <3>1
      <4>1. need[s] \in Nat \ {0}
        BY CountsAssumption DEF Base, AskedAmounts
      <4> QED
        BY <2>2, <3>1, <4>1
    <3> QED
      BY <3>3 DEF NoSleepBesidePermits
  <2> QED
    BY <2>1, <2>2
<1>8. ASSUME NEW t \in Threads, NEW v \in Shared, SpuriousWakeup(t, v)
      PROVE  NoSleepBesidePermits'
  <2>1. /\ permits' = permits /\ need' = need
        /\ asleep'["permits"] \subseteq asleep["permits"]
    BY <1>0, <1>8, <1>q DEF SpuriousWakeup, Release
  <2> QED
    BY <1>q, <2>1, FewerPermitsKeeps
<1>9. CASE Next
  <2>1. PICK t \in Threads : \/ QueueStep(t) \/ SemaphoreStep(t)
                             \/ \E v \in Shared : SpuriousWakeup(t, v)
    BY <1>9 DEF Next
  <2>2. Counts \cup Amounts \subseteq Nat
    BY CountsAssumption
  <2>3. need[t] \in Nat
    BY <1>q
  <2>4. QueueStep(t) => NoSleepBesidePermits'
    BY <1>2, <1>3, <1>4, <2>2, <2>3
    DEF QueueStep, Dequeue, DequeueAgain, Enqueue, Insert, DequeueNb, Extract
  <2>5. SemaphoreStep(t) => NoSleepBesidePermits'
    BY <1>5, <1>6, <1>7, <2>2, <2>3 DEF SemaphoreStep, Down, DownAgain
  <2> QED
    BY <1>8, <2>1, <2>4, <2>5
<1> QED
  BY <1>1, <1>9

\* Whatever the amounts, no thread sleeps in down beside as many permits as it
\* asked for: up wakes all of them whenever there is a permit.
THEOREM NoLostBroadcast == Spec => []NoSleepBesidePermits
<1>1. Init => NoSleepBesidePermits
  BY DEF Init, NoSleepBesidePermits, Shared
<1> QED
  BY <1>1, InitBase, StepKeepsBase, StepKeepsPermits, PTL DEF Spec

-----------------------------------------------------------------------------
(***************************************************************************)
(* Slices, position by position.                                           *)
(***************************************************************************)
\* The item at each position of what is kept in front.
LEMMA PrefixAt ==
  ASSUME NEW q \in Seq(Items), NEW n \in Nat, n <= Len(q)
  PROVE  \A j \in 1 .. n : SubSeq(q, 1, n)[j] = q[j]
BY LenProperties, SMT

\* And of what is kept behind.
LEMMA BehindAt ==
  ASSUME NEW q \in Seq(Items), NEW n \in Nat
  PROVE  \A j \in 1 .. Len(q) - n : SubSeq(q, n + 1, Len(q))[j] = q[n + j]
BY LenProperties, SMT

\* And of what lies between the two.
LEMMA MiddleAt ==
  ASSUME NEW q \in Seq(Items), NEW from \in Nat, NEW to \in Nat, from <= to, to <= Len(q)
  PROVE  /\ Len(SubSeq(q, from + 1, to)) = to - from
         /\ \A k \in from + 1 .. to : SubSeq(q, from + 1, to)[k - from] = q[k]
<1> DEFINE out == SubSeq(q, from + 1, to)
<1>1. Len(q) \in Nat
  BY LenProperties
<1>2. /\ Len(out) = to - from
      /\ \A j \in 1 .. to - from : out[j] = q[from + j]
  BY <1>1, SMT
<1> HIDE DEF out
<1>3. ASSUME NEW k \in from + 1 .. to PROVE out[k - from] = q[k]
  <2>1. k - from \in 1 .. to - from /\ from + (k - from) = k
    OBVIOUS
  <2> QED
    BY <1>2, <2>1
<1> QED
  BY <1>2, <1>3 DEF out

\* The positions from .. to are cut out of the queue q.
CutOut(q, from, to, left) ==
  /\ left \in Seq(Items) /\ Len(left) = Len(q) - (to - from)
  /\ \A k \in 1 .. from : left[k] = q[k]
  /\ \A k \in to + 1 .. Len(q) : left[k - (to - from)] = q[k]

\* What is kept in front, with what is kept behind.
LEMMA JoinedIsCut ==
  ASSUME NEW q \in Seq(Items), NEW from \in Nat, NEW to \in Nat, from <= to, to <= Len(q)
  PROVE  CutOut(q, from, to, SubSeq(q, 1, from) \o SubSeq(q, to + 1, Len(q)))
<1> DEFINE front == SubSeq(q, 1, from)
           back == SubSeq(q, to + 1, Len(q))
<1>1. Len(q) \in Nat
  BY LenProperties
<1>2. /\ front \in Seq(Items) /\ Len(front) = from
      /\ \A k \in 1 .. from : front[k] = q[k]
  BY <1>1, PrefixType, PrefixAt
<1>3. /\ back \in Seq(Items) /\ Len(back) = IF to < Len(q) THEN Len(q) - to ELSE 0
      /\ \A j \in 1 .. Len(q) - to : back[j] = q[to + j]
  BY <1>1, SubSeqType, BehindAt
<1> HIDE DEF front, back
<1>4. Len(back) = Len(q) - to
  BY <1>1, <1>3
<1>5. /\ front \o back \in Seq(Items)
      /\ Len(front \o back) = Len(front) + Len(back)
      /\ \A i \in 1 .. Len(front) + Len(back) : (front \o back)[i] =
           IF i <= Len(front) THEN front[i] ELSE back[i - Len(front)]
  BY <1>2, <1>3, ConcatProperties
<1> DEFINE left == front \o back
<1> HIDE DEF left
<1>6. /\ left \in Seq(Items) /\ Len(left) = Len(q) - (to - from)
      /\ \A i \in 1 .. Len(q) - (to - from) : left[i] =
           IF i <= from THEN front[i] ELSE back[i - from]
  <2>1. from + (Len(q) - to) = Len(q) - (to - from)
    BY <1>1
  <2> QED
    BY <1>2, <1>4, <1>5, <2>1 DEF left
<1>7. ASSUME NEW k \in 1 .. from PROVE left[k] = q[k]
  <2>1. k \in 1 .. Len(q) - (to - from) /\ k <= from
    BY <1>1
  <2> QED
    BY <1>2, <1>6, <2>1
<1>8. ASSUME NEW k \in to + 1 .. Len(q) PROVE left[k - (to - from)] = q[k]
  <2>1. /\ k - (to - from) \in 1 .. Len(q) - (to - from) /\ ~(k - (to - from) <= from)
        /\ k - (to - from) - from \in 1 .. Len(q) - to
        /\ to + (k - (to - from) - from) = k
    BY <1>1
  <2>2. left[k - (to - from)] = back[k - (to - from) - from]
    BY <1>6, <2>1
  <2> QED
    BY <1>3, <2>1, <2>2
<1> QED
  BY <1>6, <1>7, <1>8 DEF CutOut, left, front, back

\* The positions of a queue that are within n behind an index.
Within(q, start, n, k) == k \in 1 .. Len(q) /\ start < k /\ k <= start + n

\* extract cuts out what lies within the count behind the index, on either side.
LEMMA ExtractCuts ==
  ASSUME NEW q \in Seq(Items), NEW i \in Int, NEW n \in Nat
  PROVE  \E from, to \in 0 .. Len(q) :
           /\ from <= to /\ CutOut(q, from, to, AfterExtract(q, i, n))
           /\ Extracted(q, i, n) = SubSeq(q, from + 1, to)
           /\ \A k \in 1 .. Len(q) : Within(q, FromHead(q, i), n, k)
                                       <=> from < k /\ k <= to
<1> DEFINE index == FromHead(q, i)
           low == Least(index, Len(q))
           high == Least(index + n, Len(q))
<1>1. Len(q) \in Nat /\ index \in Int
  BY LenProperties DEF FromHead
<1>2. CASE index >= 0
  <2>1. AfterExtract(q, i, n) = SubSeq(q, 1, low) \o SubSeq(q, high + 1, Len(q))
    BY <1>2 DEF AfterExtract
  <2>2. /\ low \in 0 .. Len(q) /\ high \in 0 .. Len(q) /\ low <= high
        /\ \A k \in 1 .. Len(q) : Within(q, index, n, k) <=> low < k /\ k <= high
    <3> HIDE DEF index
    <3> QED
      BY <1>1, <1>2 DEF Least, Within
  <2>3. Extracted(q, i, n) = SubSeq(q, low + 1, high)
    BY <1>2 DEF Extracted
  <2> HIDE DEF low, high
  <2>4. CutOut(q, low, high, AfterExtract(q, i, n))
    BY <1>1, <2>1, <2>2, JoinedIsCut
  <2> QED
    BY <2>2, <2>3, <2>4
<1>3. CASE ~(index >= 0)
  <2> DEFINE to == IF n + index <= 0 THEN 0 ELSE high
             left == SubSeq(q, 1, 0) \o SubSeq(q, to + 1, Len(q))
  <2>1. /\ to \in 0 .. Len(q)
        /\ \A k \in 1 .. Len(q) : Within(q, index, n, k) <=> 0 < k /\ k <= to
    <3> HIDE DEF index
    <3> QED
      BY <1>1, <1>3 DEF Least, Within
  <2>2. AfterExtract(q, i, n) = SubSeq(q, to + 1, Len(q))
    <3>1. CASE n + index <= 0
      <4>1. AfterExtract(q, i, n) = q
        BY <1>3, <3>1 DEF AfterExtract
      <4>2. SubSeq(q, 1, Len(q)) = q
        BY SubSeqFull
      <4> QED
        BY <3>1, <4>1, <4>2
    <3>2. CASE ~(n + index <= 0)
      <4>1. AfterExtract(q, i, n) = Rest(q, n + index)
        BY <1>3, <3>2 DEF AfterExtract
      <4>2. n + index = index + n
        BY <1>1
      <4> QED
        BY <3>2, <4>1, <4>2 DEF Rest
    <3> QED
      BY <3>1, <3>2
  <2>7. Extracted(q, i, n) = SubSeq(q, 0 + 1, to)
    <3>1. CASE n + index <= 0
      <4>1. Extracted(q, i, n) = <<>>
        BY <1>3, <3>1 DEF Extracted
      <4>2. SubSeq(q, 1, 0) = <<>>
        BY SubSeqEmpty
      <4> QED
        BY <3>1, <4>1, <4>2
    <3>2. CASE ~(n + index <= 0)
      <4>1. Extracted(q, i, n) = Taken(q, n + index)
        BY <1>3, <3>2 DEF Extracted
      <4>2. Least(n + index, Len(q)) = to /\ 0 + 1 = 1
        BY <1>1, <3>2 DEF Least
      <4> QED
        BY <4>1, <4>2, Zenon DEF Taken
    <3> QED
      BY <3>1, <3>2
  <2> HIDE DEF to
  <2>3. SubSeq(q, 1, 0) = <<>> /\ SubSeq(q, to + 1, Len(q)) \in Seq(Items)
    BY <2>1, SubSeqEmpty, SubSeqType
  <2>4. left = SubSeq(q, to + 1, Len(q))
    BY <2>3, ConcatEmptySeq
  <2>5. CutOut(q, 0, to, left)
    BY <1>1, <2>1, JoinedIsCut
  <2>6. 0 \in 0 .. Len(q) /\ 0 <= to
    BY <1>1, <2>1
  <2> QED
    BY <2>1, <2>2, <2>4, <2>5, <2>6, <2>7
<1> QED
  BY <1>2, <1>3

\* A cut has as many positions as lie between its ends.
LEMMA CutSize ==
  ASSUME NEW from \in Nat, NEW to \in Nat, from <= to
  PROVE  IsFiniteSet(from + 1 .. to) /\ Cardinality(from + 1 .. to) = to - from
<1>1. /\ IsFiniteSet(from + 1 .. to)
      /\ Cardinality(from + 1 .. to) = IF from + 1 > to THEN 0 ELSE to - (from + 1) + 1
  BY FS_Interval
<1> QED
  BY <1>1

\* All of the first k positions are left where the cut begins behind them.
LEMMA PositionsBefore ==
  ASSUME NEW from \in Nat, NEW to \in Nat, NEW k \in Nat, k <= from,
         NEW T, \A j \in 1 .. k : j \in T <=> from < j /\ j <= to
  PROVE  Cardinality((1 .. k) \ T) = k
<1>1. (1 .. k) \ T = 1 .. k
  OBVIOUS
<1>2. Cardinality(1 .. k) = k
  BY FS_Interval
<1> QED
  BY <1>1, <1>2, Zenon

\* Those of the cut are missing where it ends before the k-th.
LEMMA PositionsBehind ==
  ASSUME NEW from \in Nat, NEW to \in Nat, from <= to, NEW k \in Nat, to <= k,
         NEW T, \A j \in 1 .. k : j \in T <=> from < j /\ j <= to
  PROVE  Cardinality((1 .. k) \ T) = k - (to - from)
<1> DEFINE front == 1 .. from
           back == to + 1 .. k
<1>1. (1 .. k) \ T = front \cup back
  OBVIOUS
<1>2. front \cap back = {}
  OBVIOUS
<1>3. IsFiniteSet(front) /\ Cardinality(front) = from
  BY FS_Interval
<1>4. IsFiniteSet(back) /\ Cardinality(back) = k - to
  BY CutSize
<1> HIDE DEF front, back
<1>5. Cardinality(front \cup back)
        = Cardinality(front) + Cardinality(back) - Cardinality(front \cap back)
  BY <1>3, <1>4, FS_Union
<1>6. Cardinality(front \cap back) = 0
  BY <1>2, FS_EmptySet, Zenon
<1>7. Cardinality((1 .. k) \ T) = Cardinality(front \cup back)
  BY <1>1, Zenon
<1> DEFINE c == Cardinality((1 .. k) \ T)
           d == Cardinality(front \cup back)
           none == Cardinality(front \cap back)
<1> HIDE DEF c, d, none
<1>8. d = from + (k - to) - none /\ c = d /\ none = 0
  BY <1>3, <1>4, <1>5, <1>6, <1>7 DEF c, d, none
<1>9. c = k - (to - from)
  BY <1>8
<1> QED
  BY <1>9 DEF c

\* insert moves what is behind the index by the length of the list, and puts the list there.
LEMMA InsertMoves ==
  ASSUME NEW q \in Seq(Items), NEW i \in Int, NEW list \in Seq(Items)
  PROVE  LET new == Inserted(q, i, list)
         IN  /\ Len(new) = Len(q) + Len(list)
             /\ \A k \in 1 .. Len(q) :
                  new[IF k <= FromHead(q, i) THEN k ELSE k + Len(list)] = q[k]
             /\ \A j \in 1 .. Len(list) :
                  new[Cardinality({k \in 1 .. Len(q) : k <= FromHead(q, i)}) + j] = list[j]
<1> DEFINE kept == Least(InsertPosition(q, i), Len(q))
           m == Len(list)
           front == SubSeq(q, 1, kept)
           back == SubSeq(q, kept + 1, Len(q))
           new == (front \o list) \o back
<1>1. Len(q) \in Nat /\ m \in Nat
  BY LenProperties
<1>2. /\ kept \in Nat /\ kept <= Len(q)
      /\ \A k \in 1 .. Len(q) : k <= kept <=> k <= FromHead(q, i)
  BY <1>1 DEF Least, InsertPosition, FromHead
<1>3. Inserted(q, i, list) = new
  BY Zenon DEF Inserted
<1> HIDE DEF kept
<1>4. /\ front \in Seq(Items) /\ Len(front) = kept
      /\ \A k \in 1 .. kept : front[k] = q[k]
  BY <1>1, <1>2, PrefixType, PrefixAt
<1>5. /\ back \in Seq(Items) /\ Len(back) = IF kept < Len(q) THEN Len(q) - kept ELSE 0
      /\ \A j \in 1 .. Len(q) - kept : back[j] = q[kept + j]
  BY <1>1, <1>2, SubSeqType, BehindAt
<1> HIDE DEF front, back
<1>6. Len(back) = Len(q) - kept
  BY <1>1, <1>2, <1>5
<1> DEFINE start == front \o list
<1>7. /\ start \in Seq(Items) /\ Len(start) = kept + m
      /\ \A k \in 1 .. kept + m : start[k] = IF k <= kept THEN front[k] ELSE list[k - kept]
  BY <1>4, ConcatProperties
<1> HIDE DEF start
<1>8. /\ Len(start \o back) = Len(start) + Len(back)
      /\ \A k \in 1 .. Len(start) + Len(back) : (start \o back)[k] =
           IF k <= Len(start) THEN start[k] ELSE back[k - Len(start)]
  BY <1>5, <1>7, ConcatProperties
<1>9. new = start \o back
  BY DEF start
<1> HIDE DEF new, m
<1>10. /\ Len(new) = Len(q) + m
       /\ \A k \in 1 .. Len(q) + m : new[k] =
            IF k <= kept + m THEN start[k] ELSE back[k - (kept + m)]
  <2>1. (kept + m) + (Len(q) - kept) = Len(q) + m
    BY <1>1, <1>2
  <2>2. Len(start) + Len(back) = Len(q) + m
    BY <1>6, <1>7, <2>1
  <2> QED
    BY <1>7, <1>8, <1>9, <2>2
<1>11. ASSUME NEW k \in 1 .. Len(q)
       PROVE  new[IF k <= FromHead(q, i) THEN k ELSE k + m] = q[k]
  <2>1. CASE k <= kept
    <3>1. k \in 1 .. kept /\ k \in 1 .. kept + m /\ k \in 1 .. Len(q) + m /\ k <= kept + m
      BY <1>1, <1>2, <2>1
    <3>2. new[k] = q[k]
      BY <1>4, <1>7, <1>10, <2>1, <3>1
    <3> QED
      BY <1>2, <2>1, <3>2
  <2>2. CASE ~(k <= kept)
    <3>1. /\ k + m \in 1 .. Len(q) + m /\ ~(k + m <= kept + m)
          /\ (k + m) - (kept + m) = k - kept
          /\ k - kept \in 1 .. Len(q) - kept /\ kept + (k - kept) = k
      BY <1>1, <1>2, <2>2
    <3>2. new[k + m] = back[(k + m) - (kept + m)]
      <4>1. \A j \in 1 .. Len(q) + m : ~(j <= kept + m) => new[j] = back[j - (kept + m)]
        BY <1>10
      <4> QED
        BY <3>1, <4>1, Zenon
    <3>3. back[(k + m) - (kept + m)] = q[kept + (k - kept)]
      BY <1>5, <3>1
    <3>4. new[k + m] = q[k]
      BY <3>1, <3>2, <3>3, Zenon
    <3> QED
      BY <1>2, <2>2, <3>4
  <2> QED
    BY <2>1, <2>2
<1>12. ASSUME NEW j \in 1 .. m
       PROVE  new[Cardinality({k \in 1 .. Len(q) : k <= FromHead(q, i)}) + j] = list[j]
  <2>1. {k \in 1 .. Len(q) : k <= FromHead(q, i)} = 1 .. kept
    <3>1. \A k : k \in 1 .. kept <=> k \in 1 .. Len(q) /\ k <= kept
      BY <1>1, <1>2
    <3> QED
      BY <1>2, <3>1, Zenon
  <2>2. Cardinality(1 .. kept) = kept
    BY <1>2, FS_Interval
  <2>3. /\ kept + j \in 1 .. Len(q) + m /\ kept + j \in 1 .. kept + m /\ kept + j <= kept + m
        /\ ~(kept + j <= kept) /\ (kept + j) - kept = j
    BY <1>1, <1>2
  <2>4. new[kept + j] = start[kept + j]
    BY <1>10, <2>3
  <2>5. start[kept + j] = list[j]
    BY <1>7, <2>3
  <2> QED
    BY <2>1, <2>2, <2>4, <2>5, Zenon
<1> QED
  BY <1>3, <1>10, <1>11, <1>12 DEF m

\* dequeue_nb is extract from the head.
LEMMA FromTheHead ==
  ASSUME NEW q \in Seq(Items), NEW n \in Nat
  PROVE  /\ Taken(q, n) = Extracted(q, 0, n)
         /\ Rest(q, n) = AfterExtract(q, 0, n)
<1>1. Len(q) \in Nat
  BY LenProperties
<1>2. FromHead(q, 0) = 0 /\ Least(0, Len(q)) = 0 /\ 0 + n = n /\ 0 >= 0 /\ 0 + 1 = 1
  BY <1>1 DEF FromHead, Least
<1>3. Extracted(q, 0, n) = SubSeq(q, 1, Least(n, Len(q)))
  BY <1>2 DEF Extracted
<1>4. AfterExtract(q, 0, n) = SubSeq(q, 1, 0) \o Rest(q, n)
  BY <1>2 DEF AfterExtract, Rest
<1>5. SubSeq(q, 1, 0) = <<>> /\ Rest(q, n) \in Seq(Items)
  <2>1. SubSeq(q, 1, 0) = <<>>
    BY SubSeqEmpty
  <2> QED
    BY <2>1, RestType
<1> QED
  BY <1>3, <1>4, <1>5, ConcatEmptySeq DEF Taken

\* The slice of one position.
LEMMA OneAt ==
  ASSUME NEW q \in Seq(Items), NEW k \in 1 .. Len(q)
  PROVE  SubSeq(q, k, k) = <<q[k]>>
<1>1. Len(q) \in Nat /\ k \in Int
  BY LenProperties
<1>2. /\ SubSeq(q, k, k) \in Seq(Items) /\ Len(SubSeq(q, k, k)) = 1
      /\ SubSeq(q, k, k)[1] = q[k]
  BY <1>1, SMT
<1>3. q[k] \in Items
  BY <1>1, ElementOfSeq
<1>4. <<q[k]>> \in Seq(Items) /\ Len(<<q[k]>>) = 1 /\ <<q[k]>>[1] = q[k]
  BY <1>3
<1>5. \A j \in 1 .. 1 : SubSeq(q, k, k)[j] = <<q[k]>>[j]
  BY <1>2, <1>4
<1> QED
  BY <1>2, <1>4, <1>5, SeqEqual

\* peek shows what extract hands out for one item.
LEMMA PeekIsOfOne ==
  ASSUME NEW q \in Seq(Items), NEW i \in Int
  PROVE  Peeked(q, i) = Extracted(q, i, 1)
<1> DEFINE index == FromHead(q, i)
<1>1. Len(q) \in Nat /\ index \in Int
  BY LenProperties DEF FromHead
<1>2. CASE index \in 0 .. Len(q) - 1
  <2>1. /\ Least(index, Len(q)) = index /\ Least(index + 1, Len(q)) = index + 1
        /\ index >= 0 /\ index + 1 \in 1 .. Len(q)
    BY <1>1, <1>2 DEF Least
  <2>2. Extracted(q, i, 1) = SubSeq(q, index + 1, index + 1)
    BY <2>1 DEF Extracted
  <2>3. SubSeq(q, index + 1, index + 1) = <<q[index + 1]>>
    BY <2>1, OneAt
  <2> QED
    BY <1>2, <2>2, <2>3 DEF Peeked
<1>3. CASE index >= Len(q)
  <2>1. /\ Least(index, Len(q)) = Len(q) /\ Least(index + 1, Len(q)) = Len(q)
        /\ index >= 0 /\ index \notin 0 .. Len(q) - 1
    BY <1>1, <1>3 DEF Least
  <2>2. Extracted(q, i, 1) = SubSeq(q, Len(q) + 1, Len(q))
    BY <2>1 DEF Extracted
  <2>3. SubSeq(q, Len(q) + 1, Len(q)) = <<>>
    BY <1>1, SubSeqEmpty
  <2> QED
    BY <2>1, <2>2, <2>3 DEF Peeked
<1>4. CASE index < 0
  <2>1. ~(index >= 0) /\ 1 + index <= 0 /\ index \notin 0 .. Len(q) - 1
    BY <1>1, <1>4
  <2> QED
    BY <2>1 DEF Peeked, Extracted
<1> QED
  BY <1>1, <1>2, <1>3, <1>4

\* Slices are exact for any queue.
LEMMA SlicesOfQueue == TypeOK => SlicesExact
<1> SUFFICES ASSUME TypeOK PROVE SlicesExact
  OBVIOUS
<1>1. queue \in Seq(Items) /\ Len(queue) \in Nat
  BY LenProperties DEF TypeOK
<1> DEFINE length == Len(queue)
           start(i) == FromHead(queue, i)
           taken(i, n) == {k \in 1 .. length : start(i) < k /\ k <= start(i) + n}
<1>2. ASSUME NEW i \in Indexes, NEW n \in Cuts
      PROVE  LET left == AfterExtract(queue, i, n)
                 out == Extracted(queue, i, n)
             IN  /\ Len(left) = length - Cardinality(taken(i, n))
                 /\ \A k \in (1 .. length) \ taken(i, n) :
                      left[Cardinality((1 .. k) \ taken(i, n))] = queue[k]
                 /\ Len(out) = Cardinality(taken(i, n))
                 /\ \A k \in taken(i, n) :
                      out[Cardinality((1 .. k) \cap taken(i, n))] = queue[k]
  <2> DEFINE T == taken(i, n)
             left == AfterExtract(queue, i, n)
             out == Extracted(queue, i, n)
  <2>1. i \in Int /\ n \in Nat
    BY IndexesAssumption, CountsAssumption
  <2>2. PICK from, to \in 0 .. length :
           /\ from <= to /\ CutOut(queue, from, to, left)
           /\ out = SubSeq(queue, from + 1, to)
           /\ \A k \in 1 .. length : Within(queue, start(i), n, k) <=> from < k /\ k <= to
    BY <1>1, <2>1, ExtractCuts, Zenon
  <2>3. from \in Nat /\ to \in Nat /\ from <= length /\ to <= length
    BY <1>1
  <2>4. \A k \in 1 .. length : k \in T <=> from < k /\ k <= to
    BY <2>2, Zenon DEF Within
  <2>5. T \subseteq 1 .. length
    OBVIOUS
  <2> HIDE DEF T, left, out
  <2>6. T = from + 1 .. to /\ Cardinality(T) = to - from
    <3>1. ASSUME NEW k PROVE k \in T <=> k \in from + 1 .. to
      <4>1. k \in T => k \in 1 .. length
        BY <2>5
      <4>2. k \in from + 1 .. to => k \in 1 .. length
        BY <1>1, <2>3
      <4>3. k \in 1 .. length => (k \in from + 1 .. to <=> from < k /\ k <= to)
        BY <1>1, <2>3
      <4> QED
        BY <2>4, <4>1, <4>2, <4>3, Zenon
    <3>2. T = from + 1 .. to
      BY <3>1, Zenon
    <3>3. Cardinality(from + 1 .. to) = to - from
      BY <2>2, <2>3, CutSize
    <3> QED
      BY <3>2, <3>3, Zenon
  <2>7. ASSUME NEW k \in (1 .. length) \ T
        PROVE  left[Cardinality((1 .. k) \ T)] = queue[k]
    <3>1. /\ k \in Nat /\ k \in 1 .. length /\ (k <= from \/ to < k)
          /\ \A j \in 1 .. k : j \in T <=> from < j /\ j <= to
      BY <1>1, <2>3, <2>4
    <3>2. k \in Nat /\ \A j \in 1 .. k : j \in T <=> from < j /\ j <= to
      BY <3>1
    <3>3. CASE k <= from
      <4>1. k \in 1 .. from
        BY <2>3, <3>1, <3>3
      <4>2. Cardinality((1 .. k) \ T) = k
        BY <2>3, <3>2, <3>3, PositionsBefore
      <4> QED
        BY <2>2, <4>1, <4>2 DEF CutOut
    <3>4. CASE to < k
      <4>1. k \in to + 1 .. length
        BY <1>1, <2>2, <2>3, <3>1, <3>4
      <4>0. from <= to /\ to <= k
        BY <2>2, <2>3, <3>2, <3>4
      <4>2. Cardinality((1 .. k) \ T) = k - (to - from)
        BY <2>3, <3>2, <4>0, PositionsBehind
      <4> QED
        BY <2>2, <4>1, <4>2 DEF CutOut
    <3> QED
      BY <3>1, <3>3, <3>4
  <2>8. Len(left) = length - Cardinality(T)
    BY <2>2, <2>6 DEF CutOut
  <2>9. /\ Len(out) = to - from
        /\ \A k \in from + 1 .. to : out[k - from] = queue[k]
    BY <1>1, <2>2, <2>3, MiddleAt
  <2>10. ASSUME NEW k \in T PROVE out[Cardinality((1 .. k) \cap T)] = queue[k]
    <3>1. k \in from + 1 .. to
      BY <2>6
    <3>2. k \in Nat /\ from <= k /\ (1 .. k) \cap (from + 1 .. to) = from + 1 .. k
      BY <2>3, <3>1
    <3>3. (1 .. k) \cap T = from + 1 .. k
      BY <2>6, <3>2, Zenon
    <3>4. Cardinality(from + 1 .. k) = k - from
      BY <2>3, <3>2, CutSize
    <3>5. out[k - from] = queue[k]
      BY <2>9, <3>1
    <3> QED
      BY <3>3, <3>4, <3>5, Zenon
  <2>11. Len(out) = Cardinality(T)
    BY <2>6, <2>9
  <2> QED
    BY <2>7, <2>8, <2>10, <2>11 DEF T, left, out
<1>3. ASSUME NEW i \in Indexes, NEW list \in Lists
      PROVE  LET new == Inserted(queue, i, list)
                 before == {k \in 1 .. length : k <= start(i)}
             IN  /\ Len(new) = length + Len(list)
                 /\ \A k \in 1 .. length :
                      new[IF k \in before THEN k ELSE k + Len(list)] = queue[k]
                 /\ \A j \in 1 .. Len(list) : new[Cardinality(before) + j] = list[j]
  <2>1. i \in Int /\ list \in Seq(Items)
    BY IndexesAssumption, ListsType
  <2> QED
    BY <1>1, <2>1, InsertMoves
<1>4. ASSUME NEW n \in Cuts
      PROVE  /\ Taken(queue, n) = Extracted(queue, 0, n)
             /\ Rest(queue, n) = AfterExtract(queue, 0, n)
  <2>1. n \in Nat
    BY CountsAssumption
  <2> QED
    BY <1>1, <2>1, FromTheHead
<1>5. ASSUME NEW i \in Indexes PROVE Peeked(queue, i) = Extracted(queue, i, 1)
  <2>1. i \in Int
    BY IndexesAssumption
  <2> QED
    BY <1>1, <2>1, PeekIsOfOne
<1> QED
  BY <1>2, <1>3, <1>4, <1>5, Zenon DEF SlicesExact, FromHead

\* Thread::Queue: in every reachable state, for all indexes, counts and lists, extract
\* hands out the items that lie within the count behind the index, leaves the others,
\* and insert splices the list in, from either end and beyond it; dequeue_nb and peek
\* are extract from the head and extract of one item that stays.
THEOREM SlicesAreExact == Spec => []SlicesExact
BY SlicesOfQueue, TypeCorrect, PTL

=============================================================================
