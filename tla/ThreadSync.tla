----------------------------- MODULE ThreadSync -----------------------------
(***************************************************************************)
(* Thread::Queue and Thread::Semaphore: threads that share one queue and   *)
(* one semaphore and sleep on them with the condition variables of         *)
(* threads::shared.  Each method holds the lock of its variable from its   *)
(* first line to its return, except while it is in cond_wait: the section  *)
(* before a wait and the section after it are one step each, and other     *)
(* threads come in between.                                                *)
(***************************************************************************)
EXTENDS Integers, Sequences, FiniteSets

CONSTANTS
  Threads,
  Items,      \* what is put on the queue
  Counts,     \* the counts that dequeue is called with
  Cuts,       \* the counts that dequeue_nb and extract are called with
  Amounts,    \* the amounts that down and up are called with
  Indexes,    \* the indexes that insert and extract are called with
  MaxBatch,   \* bound of the exploration: items added by one call
  MaxLength,  \* bound of the exploration: length of the queue
  MinPermits, \* bound of the exploration: down_force stops here
  MaxPermits  \* bound of the exploration: up stops here

ASSUME ThreadsAssumption == "none" \notin Threads
\* What $validate_count and $validate_arg let through.
ASSUME CountsAssumption == Counts \cup Cuts \cup Amounts \subseteq Nat \ {0}
ASSUME IndexesAssumption == Indexes \subseteq Int
ASSUME BoundsAssumption == /\ MaxBatch \in Nat /\ MaxLength \in Nat
                           /\ MinPermits \in Int /\ MaxPermits \in Int

VARIABLES
  queue,   \* @$queue
  permits, \* $$sema
  asleep,  \* per variable: the threads in cond_wait on it
  woken,   \* per variable: threads released from cond_wait, yet to have the lock again
  need     \* the count or the amount of the call a thread sleeps in

vars == <<queue, permits, asleep, woken, need>>

Shared  == {"queue", "permits"}
Lists   == UNION {[1 .. n -> Items] : n \in 0 .. MaxBatch}
Idle(t) == \A v \in Shared : t \notin asleep[v] \cup woken[v]

-----------------------------------------------------------------------------
(***************************************************************************)
(* threads::shared.  cond_signal releases one sleeper of the variable, any *)
(* one, and is lost when there is none; cond_broadcast releases all.  The  *)
(* thread t that does it has itself left cond_wait.                        *)
(***************************************************************************)
cond_signal(v) == IF asleep[v] = {} THEN {{}} ELSE {{s} : s \in asleep[v]}

cond_broadcast(v) == {asleep[v]}

Release(t, v, released) ==
  /\ asleep' = [asleep EXCEPT ![v] = @ \ released]
  /\ woken' = [woken EXCEPT ![v] = (@ \cup released) \ {t}]

cond_wait(t, v, n) ==
  /\ asleep' = [asleep EXCEPT ![v] = @ \cup {t}]
  /\ woken' = [woken EXCEPT ![v] = @ \ {t}]
  /\ need' = [need EXCEPT ![t] = n]
  /\ UNCHANGED <<queue, permits>>

\* cond_wait may also return for no reason: shared.pm says so.
SpuriousWakeup(t, v) ==
  /\ t \in asleep[v]
  /\ Release("none", v, {t})
  /\ UNCHANGED <<queue, permits, need>>

-----------------------------------------------------------------------------
(***************************************************************************)
(* Thread::Queue                                                           *)
(***************************************************************************)
\* enqueue(LIST): push returns the length of the queue, so that an empty list
\* signals as well when there is something on the queue.
Enqueue(t, list) ==
  /\ Idle(t)
  /\ Len(queue) + Len(list) <= MaxLength
  /\ queue' = queue \o list
  /\ \E released \in IF queue' = <<>> THEN {{}} ELSE cond_signal("queue") :
       Release(t, "queue", released)
  /\ UNCHANGED <<permits, need>>

\* Mutant: the thread that leaves items behind does not pass the signal on.
DequeueSection_unsignalled(t, n) ==
  \/ /\ Len(queue) < n
     /\ cond_wait(t, "queue", n)
  \/ /\ Len(queue) >= n
     /\ queue' = SubSeq(queue, n + 1, Len(queue))
     /\ Release(t, "queue", {})
     /\ UNCHANGED <<permits, need>>

\* dequeue(COUNT), from having the lock to giving it up, by cond_wait or by return.
DequeueSection(t, n) ==
  \/ /\ Len(queue) < n
     /\ cond_wait(t, "queue", n)
  \/ /\ Len(queue) >= n
     /\ queue' = SubSeq(queue, n + 1, Len(queue))
     /\ \E released \in IF Len(queue) > n THEN cond_signal("queue") ELSE {{}} :
          Release(t, "queue", released)
     /\ UNCHANGED <<permits, need>>

Dequeue(t, n) == Idle(t) /\ DequeueSection(t, n)

DequeueAgain(t) == t \in woken["queue"] /\ DequeueSection(t, need[t])

Least(i, j) == IF i <= j THEN i ELSE j

\* What dequeue_nb(COUNT) hands out, what there is of the first n items, and what it
\* leaves.  Where one item is asked for and there is none the code returns undef: here <<>>.
Taken(q, n) == SubSeq(q, 1, Least(n, Len(q)))

Rest(q, n) == SubSeq(q, Least(n, Len(q)) + 1, Len(q))

DequeueNb(t, n) ==
  /\ Idle(t)
  /\ queue' = Rest(queue, n)
  /\ UNCHANGED <<permits, asleep, woken, need>>

\* Mutant: -1 is taken for the place behind the last item.
InsertPosition_behind(q, i) ==
  IF i >= 0 THEN i ELSE IF i + Len(q) < 0 THEN 0 ELSE i + Len(q) + 1

\* Negative indexes count from the tail.
FromHead(q, i) == IF i < 0 THEN i + Len(q) ELSE i

\* peek(INDEX): an element of a Perl array, undef (here <<>>) outside of it.
Peeked(q, i) ==
  LET index == FromHead(q, i)
  IN  IF index \in 0 .. Len(q) - 1 THEN <<q[index + 1]>> ELSE <<>>

\* Those of insert stop at the head.
InsertPosition(q, i) ==
  IF i >= 0 THEN i ELSE IF i + Len(q) < 0 THEN 0 ELSE i + Len(q)

\* The items from the index on are popped, and put back after the new ones.
Inserted(q, i, list) ==
  LET kept == Least(InsertPosition(q, i), Len(q))
  IN  SubSeq(q, 1, kept) \o list \o SubSeq(q, kept + 1, Len(q))

\* insert(INDEX, LIST): returns at once when there is nothing to insert.
Insert(t, i, list) ==
  /\ Idle(t) /\ list # <<>>
  /\ Len(queue) + Len(list) <= MaxLength
  /\ queue' = Inserted(queue, i, list)
  /\ \E released \in cond_signal("queue") : Release(t, "queue", released)
  /\ UNCHANGED <<permits, need>>

\* What extract(INDEX, COUNT) leaves.  An index before the head takes the count
\* with it: what is left of the count comes off the head by dequeue_nb.
AfterExtract(q, i, n) ==
  LET index == FromHead(q, i)
      cut(from, count) ==
        LET kept == Least(from, Len(q))
        IN  SubSeq(q, 1, kept) \o SubSeq(q, Least(from + count, Len(q)) + 1, Len(q))
  IN  IF index >= 0 THEN cut(index, n)
      ELSE IF n + index <= 0 THEN q ELSE Rest(q, n + index)

\* Mutant: an index before the head does not take the count with it.
Extracted_whole(q, i, n) ==
  LET index == FromHead(q, i)
  IN  IF index >= 0 THEN SubSeq(q, Least(index, Len(q)) + 1, Least(index + n, Len(q)))
      ELSE IF n + index <= 0 THEN <<>> ELSE Taken(q, n)

\* And what it hands out: the items popped down to the index.
Extracted(q, i, n) ==
  LET index == FromHead(q, i)
  IN  IF index >= 0 THEN SubSeq(q, Least(index, Len(q)) + 1, Least(index + n, Len(q)))
      ELSE IF n + index <= 0 THEN <<>> ELSE Taken(q, n + index)

Extract(t, i, n) ==
  /\ Idle(t)
  /\ queue' = AfterExtract(queue, i, n)
  /\ UNCHANGED <<permits, asleep, woken, need>>

-----------------------------------------------------------------------------
(***************************************************************************)
(* Thread::Semaphore                                                       *)
(***************************************************************************)
\* down(NUMBER), from having the lock to giving it up, by cond_wait or by return.
DownSection(t, n) ==
  \/ /\ permits < n
     /\ cond_wait(t, "permits", n)
  \/ /\ permits >= n
     /\ permits' = permits - n
     /\ Release(t, "permits", {})
     /\ UNCHANGED <<queue, need>>

Down(t, n) == Idle(t) /\ DownSection(t, n)

DownAgain(t) == t \in woken["permits"] /\ DownSection(t, need[t])

DownNb(t, n) ==
  /\ Idle(t) /\ permits >= n
  /\ permits' = permits - n
  /\ UNCHANGED <<queue, asleep, woken, need>>

DownForce(t, n) ==
  /\ Idle(t) /\ permits - n >= MinPermits
  /\ permits' = permits - n
  /\ UNCHANGED <<queue, asleep, woken, need>>

\* Mutant: one sleeper is released, as if all of them asked for one permit.
Up_signals(t, n) ==
  /\ Idle(t) /\ permits + n <= MaxPermits
  /\ permits' = permits + n
  /\ \E released \in IF permits' > 0 THEN cond_signal("permits") ELSE {{}} :
       Release(t, "permits", released)
  /\ UNCHANGED <<queue, need>>

Up(t, n) ==
  /\ Idle(t) /\ permits + n <= MaxPermits
  /\ permits' = permits + n
  /\ \E released \in IF permits' > 0 THEN cond_broadcast("permits") ELSE {{}} :
       Release(t, "permits", released)
  /\ UNCHANGED <<queue, need>>

-----------------------------------------------------------------------------
\* new: an empty queue, a semaphore of any integer.
Init ==
  /\ queue = <<>>
  /\ permits \in MinPermits .. MaxPermits
  /\ asleep = [v \in Shared |-> {}]
  /\ woken = [v \in Shared |-> {}]
  /\ need = [t \in Threads |-> 0]

QueueStep(t) ==
  \/ \E list \in Lists : Enqueue(t, list)
  \/ \E n \in Counts : Dequeue(t, n)
  \/ \E n \in Cuts : DequeueNb(t, n)
  \/ \E i \in Indexes, list \in Lists : Insert(t, i, list)
  \/ \E i \in Indexes, n \in Cuts : Extract(t, i, n)
  \/ DequeueAgain(t)

SemaphoreStep(t) ==
  \/ \E n \in Amounts : Down(t, n) \/ DownNb(t, n) \/ DownForce(t, n) \/ Up(t, n)
  \/ DownAgain(t)

Next ==
  \E t \in Threads :
    \/ QueueStep(t)
    \/ SemaphoreStep(t)
    \/ \E v \in Shared : SpuriousWakeup(t, v)

Spec == Init /\ [][Next]_vars

-----------------------------------------------------------------------------
\* Every variable keeps its type: the queue holds items only, whatever is cut out of it,
\* and the count of the semaphore may go below zero, by down_force.
TypeOK ==
  /\ queue \in Seq(Items)
  /\ permits \in Int
  /\ asleep \in [Shared -> SUBSET Threads]
  /\ woken \in [Shared -> SUBSET Threads]
  /\ need \in [Threads -> Nat]

\* Thread::Queue: no thread sleeps in dequeue beside as many items as it asked for,
\* unless a thread that was released is on its way to the lock: signals are not
\* lost, although each is given once and any sleeper may get it.
NoSleepBesideItems ==
  (\E t \in asleep["queue"] : need[t] <= Len(queue)) => woken["queue"] # {}

\* Thread::Semaphore: no thread sleeps in down beside as many permits as it asked
\* for, whatever the amounts and however far down_force has taken the count.
NoSleepBesidePermits == \A t \in asleep["permits"] : need[t] > permits

\* Thread::Queue: insert, extract and peek take an index as splice does, from either
\* end and beyond either end.  What lies within the block of n items that starts at
\* the index is handed out in its order, all else stays in its order; dequeue_nb is
\* extract from the head, peek shows what extract would hand out; and what insert
\* finds before the index stays, what it finds behind moves by the length of the list.
SlicesExact ==
  LET length == Len(queue)
      start(i) == IF i < 0 THEN i + length ELSE i
      taken(i, n) == {k \in 1 .. length : start(i) < k /\ k <= start(i) + n}
  IN  /\ \A i \in Indexes, n \in Cuts :
           LET left == AfterExtract(queue, i, n)
               out == Extracted(queue, i, n)
           IN  /\ Len(left) = length - Cardinality(taken(i, n))
               /\ \A k \in (1 .. length) \ taken(i, n) :
                    left[Cardinality((1 .. k) \ taken(i, n))] = queue[k]
               /\ Len(out) = Cardinality(taken(i, n))
               /\ \A k \in taken(i, n) :
                    out[Cardinality((1 .. k) \cap taken(i, n))] = queue[k]
      /\ \A n \in Cuts :
           Taken(queue, n) = Extracted(queue, 0, n) /\ Rest(queue, n) = AfterExtract(queue, 0, n)
      /\ \A i \in Indexes : Peeked(queue, i) = Extracted(queue, i, 1)
      /\ \A i \in Indexes, list \in Lists :
           LET new == Inserted(queue, i, list)
               before == {k \in 1 .. length : k <= start(i)}
           IN  /\ Len(new) = length + Len(list)
               /\ \A k \in 1 .. length :
                    new[IF k \in before THEN k ELSE k + Len(list)] = queue[k]
               /\ \A j \in 1 .. Len(list) : new[Cardinality(before) + j] = list[j]
=============================================================================
