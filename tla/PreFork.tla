------------------------------ MODULE PreFork ------------------------------
(***************************************************************************)
(* Net::Server::PreFork: a parent that keeps between min_servers and       *)
(* max_servers child processes accepting on one socket.  The children tell *)
(* the parent what they are doing by lines "<pid> <status>" on one pipe;   *)
(* the parent keeps a table of its children and a tally per status, and    *)
(* forks or HUPs children from that second-hand knowledge only.            *)
(*                                                                         *)
(* Time is not counted: every test `time - last_x > limit' is a timer that *)
(* may or may not be due in a pass of the parent's loop (the set `due').   *)
(***************************************************************************)
EXTENDS Integers, Sequences, FiniteSets

CONSTANTS
  Pids,         \* process identifiers the kernel hands out
  Min,          \* min_servers
  MinSpare,     \* min_spare_servers
  MaxSpare,     \* max_spare_servers
  Max,          \* max_servers
  MaxDequeue,   \* max_dequeue (0: no dequeue processes)
  Timers,       \* the timers that ever run out: check_for_* may be set very large
  PipeCapacity, \* lines the kernel's pipe holds before a writer blocks
  ReadSize,     \* lines one read of the pipe takes into the handle's buffer
  DriftBound    \* bound of the exploration: how far tally.dequeue may go below 0

\* What post_configure accepts (it does not compare Min with Max).
post_configure ==
  /\ Min \in Nat /\ MinSpare \in Nat /\ MaxSpare \in Nat /\ Max \in Nat
  /\ MinSpare <= MaxSpare
  /\ MinSpare <= Min
  /\ MaxSpare < Max

ASSUME ConfigAssumption == post_configure
ASSUME PidsAssumption == IsFiniteSet(Pids)
ASSUME TimersAssumption == Timers \subseteq {"spawn", "surplus", "dead", "idle", "dequeue"}
ASSUME BoundsAssumption ==
  /\ MaxDequeue \in Nat /\ DriftBound \in Nat
  /\ PipeCapacity \in Nat \ {0} /\ ReadSize \in Nat \ {0}

VARIABLES
  phase,         \* where the parent is in its loop
  children,      \* the table: status of each pid, "none" when it has no entry
  tally,         \* the parent's count of entries per status
  reaped,        \* pids the CHLD handler has collected (reaped_children)
  justProcessed, \* this pass of the loop read a "processing" line (last_process = now)
  pipe,          \* lines in the kernel's pipe
  buf,           \* lines already read into the buffer of the handle _READ
  pc,            \* where each child process is; "none" when there is no such process
  pending,       \* signals sent to a process and not yet handled by it
  SigHUPed       \* the child's own flag of that name

vars == <<phase, children, tally, reaped, justProcessed, pipe, buf, pc, pending, SigHUPed>>
parent == <<phase, children, tally, reaped, justProcessed>>

Statuses == {"waiting", "processing", "dequeue"}
\* Registering handlers, about to call can_read, can_read returned nothing or
\* the pipe (and check_sigs comes next), about to read a line, and so on.
Phases   == {"start", "select", "quiet", "ready", "read", "coordinate", "down"}

\* Control points of a child: forked but its handlers not installed, in
\* accept, accept returned, in run_client_connection, client served and not
\* done, loop left, accept gave up, "exiting" written, exited but not waited for.
Serving   == {"born", "accept", "accepted", "serving", "idle"}
Talking   == Serving \cup {"leaving", "refused"}
Running   == Talking \cup {"exiting", "dequeue"}
ChildPCs  == Running \cup {"zombie", "none"}

\* $prop->{connected} of the child p.
connected(p) == pc[p] \in {"serving", "idle", "leaving"}

Lines == [pid : Pids, status : {"waiting", "processing", "exiting"}]
Unread == {buf[i] : i \in DOMAIN buf} \cup {pipe[i] : i \in DOMAIN pipe}

Min2(a, b) == IF a < b THEN a ELSE b
Having(ch, s) == {p \in Pids : ch[p] = s}
Counts(ch) == [s \in Statuses |-> Cardinality(Having(ch, s))]

-----------------------------------------------------------------------------
(* The parent's books: operators on a record of the table and the tally.   *)

books == [ch |-> children, n |-> tally]
Total(b) == b.n["waiting"] + b.n["processing"]

\* Mutant: the entry goes, the tally stays.
delete_child_uncounted(b, S) ==
  [b EXCEPT !.ch = [p \in Pids |-> IF p \in S THEN "none" ELSE b.ch[p]]]

\* delete_child for every pid of S that still has an entry.
delete_child(b, S) ==
  [ch |-> [p \in Pids |-> IF p \in S THEN "none" ELSE b.ch[p]],
   n  |-> [s \in Statuses |-> b.n[s] - Cardinality({p \in S : b.ch[p] = s})]]

\* The parent's half of run_n_children, S being the pids fork returned.
run_n_children(b, S) ==
  [ch |-> [p \in Pids |-> IF p \in S THEN "waiting" ELSE b.ch[p]],
   n  |-> [b.n EXCEPT !["waiting"] = @ + Cardinality(S)]]

\* run_dequeue, the hook that the application has to define: as the base class does it,
\* the entry is made and the tally is left alone.  (PreForkSimple.pm:396 hides that
\* method by a stub that dies; PreForkSimple models the parent that runs into it.)
run_dequeue(b, S) ==
  [b EXCEPT !.ch = [p \in Pids |-> IF p \in S THEN "dequeue" ELSE b.ch[p]]]

\* The line "p s" moves the entry of p from its old status to s.
ChangeStatus(b, p, s) ==
  LET less == [b.n EXCEPT ![b.ch[p]] = @ - 1]
  IN  [ch |-> [b.ch EXCEPT ![p] = s], n |-> [less EXCEPT ![s] = @ + 1]]

Retally(b) == [b EXCEPT !.n = Counts(b.ch)]

\* Pids fork may return: those of no process.  The kernel goes through all the
\* pids before it comes back to one, so that by then the parent holds nothing
\* about the old owner: no entry and no unread line.
FreePids(b, procs) ==
  {p \in Pids : procs[p] = "none" /\ b.ch[p] = "none" /\ \A l \in Unread : l.pid # p}

\* Mutant: min_spare_servers are forked whatever max_servers is.
Wanted_uncapped(b) ==
  IF Total(b) < Min THEN Min - Total(b)
  ELSE IF b.n["waiting"] < MinSpare THEN MinSpare - b.n["waiting"] ELSE 0

\* How many children coordinate_children forks.
Wanted(b) ==
  IF Total(b) < Min THEN Min - Total(b)
  ELSE IF b.n["waiting"] < MinSpare /\ Total(b) < Max
       THEN Min2(MinSpare - b.n["waiting"], Max - Total(b))
       ELSE 0

\* How many it HUPs because there are too many; total is the count from before
\* the forks, and last_start forbids a kill right after a fork.
Surplus(b, total, forked) ==
  IF b.n["waiting"] > MaxSpare /\ total > Min
  THEN IF forked = 0 THEN Min2(b.n["waiting"] - MaxSpare, total - Min) ELSE 0
  ELSE IF total > Max THEN total - Max ELSE 0

\* How many it HUPs when no request came for a while.
Idle(b, total) ==
  IF b.n["waiting"] > MinSpare THEN Min2(b.n["waiting"] - MinSpare, total - Min) ELSE 0

\* The choices of kill_n_children: n of the entries marked waiting, in hash order.
Victims(b, n) ==
  LET waiting == Having(b.ch, "waiting")
  IN  IF n <= 0 THEN {{}}
      ELSE {V \in SUBSET waiting : Cardinality(V) = Min2(n, Cardinality(waiting))}

\* Mutant: kill_n_children sees no earlier kill.
MayKill_always(killed) == TRUE

\* kill_n_children returns within ten seconds of its last kill, hence does
\* nothing where the same pass has killed already.
MayKill(killed) == killed <= 0

\* Mutant: a child that is sent HUP is deleted at once.
kill_n_children_deletes(b, V, procs) == delete_child(b, V)

\* An entry whose process is gone cannot be signalled and is deleted instead.
kill_n_children(b, V, procs) == delete_child(b, {p \in V : procs[p] = "none"})

\* Mutant: the periodic probe is left out.
Dead_unprobed(due, procs) == {}

\* The pids that the probe kill(0) finds without a process.
Dead(due, procs) == IF "dead" \in due THEN {p \in Pids : procs[p] = "none"} ELSE {}

-----------------------------------------------------------------------------
(* Processes and signals.                                                  *)

\* fork: the processes of S begin as children of kind `at'.
Fork(S, at) == [p \in Pids |-> IF p \in S THEN at ELSE pc[p]]

\* kill($sig, ...): a zombie takes a signal without effect.
Send(pend, S, sig, procs) ==
  [p \in Pids |-> IF p \in S /\ procs[p] \in Running THEN pend[p] \cup {sig} ELSE pend[p]]

\* The process ends; init inherits it once the parent is gone.
Exits(p) ==
  /\ pc' = [pc EXCEPT ![p] = IF phase = "down" THEN "none" ELSE "zombie"]
  /\ pending' = [pending EXCEPT ![p] = {}]
  /\ SigHUPed' = [SigHUPed EXCEPT ![p] = FALSE]

Goto(p, from, to) == pc[p] = from /\ pc' = [pc EXCEPT ![p] = to]

\* The child prints a line to _WRITE and waits while the pipe is full.  The
\* children hold the reading end too: the pipe outlives the parent.
Say(p, status) ==
  /\ Len(pipe) < PipeCapacity
  /\ pipe' = Append(pipe, [pid |-> p, status |-> status])

-----------------------------------------------------------------------------
(* The parent.                                                             *)

\* loop: the first min_servers children have been forked.
Init ==
  \E S \in SUBSET Pids :
    /\ Cardinality(S) = Min
    /\ children = [p \in Pids |-> IF p \in S THEN "waiting" ELSE "none"]
    /\ tally = Counts(children)
    /\ pc = [p \in Pids |-> IF p \in S THEN "born" ELSE "none"]
    /\ phase = "start" /\ reaped = {} /\ justProcessed = FALSE
    /\ pipe = <<>> /\ buf = <<>>
    /\ pending = [p \in Pids |-> {}]
    /\ SigHUPed = [p \in Pids |-> FALSE]

\* Until run_parent registers its own CHLD handler the base class's sig_chld
\* collects the children that die and tells nobody.
SigChld ==
  /\ phase = "start"
  /\ \E p \in Pids : Goto(p, "zombie", "none")
  /\ UNCHANGED <<parent, pipe, buf, pending, SigHUPed>>

\* run_parent registers the handlers and enters its loop.
RunParent ==
  /\ phase = "start"
  /\ \A p \in Pids : pc[p] # "zombie"
  /\ phase' = "select"
  /\ UNCHANGED <<children, tally, reaped, justProcessed, pipe, buf, pc, pending, SigHUPed>>

\* can_read returns, because the kernel's pipe holds a line, a signal came or the
\* time is up.  It knows nothing of lines that are already in the handle's buffer.
CanRead ==
  /\ phase = "select"
  /\ phase' = IF pipe = <<>> THEN "quiet" ELSE "ready"
  /\ UNCHANGED <<children, tally, reaped, justProcessed, pipe, buf, pc, pending, SigHUPed>>

\* check_sigs runs the CHLD handler, which collects every child that has ended.
CheckSigs ==
  /\ phase \in {"quiet", "ready"}
  /\ phase' = IF phase = "ready" THEN "read" ELSE "coordinate"
  /\ reaped' = reaped \cup {p \in Pids : pc[p] = "zombie"}
  /\ pc' = [p \in Pids |-> IF pc[p] = "zombie" THEN "none" ELSE pc[p]]
  /\ UNCHANGED <<children, tally, justProcessed, pipe, buf, pending, SigHUPed>>

\* Mutant: "exiting" is treated as one more status.
Heed_status(l) ==
  IF children[l.pid] = "none" THEN books
  ELSE [ch |-> [children EXCEPT ![l.pid] = l.status],
        n  |-> [s \in Statuses |-> tally[s] - (IF s = children[l.pid] THEN 1 ELSE 0)
                                           + (IF s = l.status THEN 1 ELSE 0)]]

\* What the handler of a line does to the books.
Heed(l) ==
  IF children[l.pid] = "none" THEN books
  ELSE IF l.status = "exiting" THEN delete_child(books, {l.pid})
  ELSE ChangeStatus(books, l.pid, l.status)

\* <$fh> takes one line from the buffer, after filling it if it was empty.
ReadLine ==
  /\ phase = "read"
  /\ LET n    == IF buf = <<>> THEN Min2(ReadSize, Len(pipe)) ELSE 0
         have == buf \o SubSeq(pipe, 1, n)
         l    == Head(have)
     IN  /\ buf' = Tail(have)
         /\ pipe' = SubSeq(pipe, n + 1, Len(pipe))
         /\ children' = Heed(l).ch
         /\ tally' = Heed(l).n
         /\ justProcessed' = (children[l.pid] # "none" /\ l.status = "processing")
  /\ phase' = "coordinate"
  /\ UNCHANGED <<reaped, pc, pending, SigHUPed>>

\* The books once the reaped children are deleted and, if due, counted anew.
Settled(due) ==
  LET known == delete_child(books, reaped)
  IN  IF "spawn" \in due THEN Retally(known) ELSE known

\* Mutant: the record of a reaped child is kept.
ForgetReaped_not == reaped' = reaped

\* Each reaped child is taken off the record before it is deleted.
ForgetReaped == reaped' = {}

\* coordinate_children, with the timers of `due' expired.  F, V, W and Q are
\* the pids forked, HUPed as surplus, HUPed as idle and forked to dequeue.
coordinate_children(due) ==
  /\ phase = "coordinate"
  /\ LET b0    == Settled(due)
         total == Total(b0)
         n     == Wanted(b0)
     IN \E F \in SUBSET FreePids(b0, pc) :
        /\ Cardinality(F) = n
        /\ LET b1     == run_n_children(b0, F)
               procs1 == Fork(F, "born")
               k      == IF "surplus" \in due THEN Surplus(b1, total, n) ELSE 0
           IN \E V \in Victims(b1, k) :
              LET b2 == kill_n_children(b1, V, procs1)
                  b3 == delete_child(b2, Dead(due, procs1))
                  j  == IF "idle" \in due /\ ~justProcessed /\ MayKill(k)
                        THEN Idle(b3, total) ELSE 0
              IN \E W \in Victims(b3, j) :
                 LET b4 == kill_n_children(b3, W, procs1)
                     q  == IF "dequeue" \in due /\ b4.n["dequeue"] < MaxDequeue
                              /\ b4.n["dequeue"] > -DriftBound THEN 1 ELSE 0
                 IN \E Q \in SUBSET FreePids(b4, procs1) :
                    /\ Cardinality(Q) = q
                    /\ children' = run_dequeue(b4, Q).ch
                    /\ tally' = b4.n
                    /\ pc' = [p \in Pids |-> IF p \in Q THEN "dequeue" ELSE procs1[p]]
                    /\ pending' = Send(pending, V \cup W, "HUP", procs1)
  /\ phase' = "select"
  /\ ForgetReaped /\ justProcessed' = FALSE
  /\ UNCHANGED <<pipe, buf, SigHUPed>>

\* server_close: TERM to every entry of the table b, which is emptied, the
\* zombies collected, and exit.  procs are the processes at that moment.
server_close(b, procs) ==
  LET entries == {p \in Pids : b.ch[p] # "none"}
      closed  == delete_child(b, entries)
  IN  /\ phase' = "down"
      /\ children' = closed.ch /\ tally' = closed.n
      /\ pending' = Send(pending, entries, "TERM", procs)
      /\ pc' = [p \in Pids |-> IF procs[p] = "zombie" THEN "none" ELSE procs[p]]
      /\ reaped' = {} /\ justProcessed' = FALSE /\ buf' = <<>>
      /\ UNCHANGED <<pipe, SigHUPed>>

\* TERM, INT or QUIT reaches the parent and check_sigs finds it.
Terminate == phase \in {"quiet", "ready"} /\ server_close(books, pc)

\* A fork of run_n_children fails after the ones of F: fatal closes the server.
BadFork(due) ==
  /\ phase = "coordinate"
  /\ LET b0 == Settled(due)
     IN  \E F \in SUBSET FreePids(b0, pc) :
           /\ Cardinality(F) < Wanted(b0)
           /\ server_close(run_n_children(b0, F), Fork(F, "born"))

-----------------------------------------------------------------------------
(* A child: run_child, accept, done.  The lock around accept is in the     *)
(* module AcceptLock; here any child in accept may get the next client.    *)

\* The handlers are installed; until then a signal runs the parent's.
RunChild(p) ==
  /\ Goto(p, "born", "accept")
  /\ UNCHANGED <<parent, pipe, buf, pending, SigHUPed>>

\* accept returns with a client; connected is still 0.
Accept(p) ==
  /\ phase # "down"
  /\ Goto(p, "accept", "accepted")
  /\ UNCHANGED <<parent, pipe, buf, pending, SigHUPed>>

\* accept gives up after its retries; the shut down socket makes it do so.
AcceptFails(p) ==
  /\ Goto(p, "accept", "refused")
  /\ UNCHANGED <<parent, pipe, buf, pending, SigHUPed>>

\* connected = 1 and the line for the parent.
StartClient(p) ==
  /\ Goto(p, "accepted", "serving")
  /\ Say(p, "processing")
  /\ UNCHANGED <<parent, buf, pending, SigHUPed>>

\* run_client_connection dies, or returns and done() is true: max_requests
\* reached, SigHUPed, or the parent is no more.
LastClient(p) ==
  /\ Goto(p, "serving", "leaving")
  /\ UNCHANGED <<parent, pipe, buf, pending, SigHUPed>>

\* run_client_connection returns and done() is false; connected is still 1.
EndClient(p) ==
  /\ ~SigHUPed[p] /\ phase # "down"
  /\ Goto(p, "serving", "idle")
  /\ UNCHANGED <<parent, pipe, buf, pending, SigHUPed>>

\* Mutant: the child does not tell that it is free again.
NextClient_silent(p) ==
  /\ Goto(p, "idle", "accept")
  /\ UNCHANGED <<parent, pipe, buf, pending, SigHUPed>>

\* connected = 0 and back to accept.
NextClient(p) ==
  /\ Goto(p, "idle", "accept")
  /\ Say(p, "waiting")
  /\ UNCHANGED <<parent, buf, pending, SigHUPed>>

\* The last line of a child that leaves its loop.
Leave(p) ==
  /\ Goto(p, "leaving", "exiting") \/ Goto(p, "refused", "exiting")
  /\ Say(p, "exiting")
  /\ UNCHANGED <<parent, buf, pending, SigHUPed>>

\* exit, of a child or of a dequeue process.
Exit(p) ==
  /\ pc[p] \in {"exiting", "dequeue"}
  /\ Exits(p)
  /\ UNCHANGED <<parent, pipe, buf>>

\* Mutant: TERM, too, waits for the end of the client.
Postponed_both(p, sig) == connected(p)

\* HUP lets a client be served to its end; TERM, INT and QUIT do not.
Postponed(p, sig) == sig = "HUP" /\ connected(p)

\* The handlers.  A process that has not installed its own (a child just
\* forked, a dequeue process) runs the parent's, which notes the signal for a
\* check_sigs it will never call: the signal is lost.
HandleSignal(p) ==
  /\ pc[p] \in Running
  /\ \E sig \in pending[p] :
       \/ /\ pc[p] \in {"born", "dequeue"}
          /\ pending' = [pending EXCEPT ![p] = @ \ {sig}]
          /\ UNCHANGED <<pc, SigHUPed>>
       \/ /\ Postponed(p, sig)
          /\ pending' = [pending EXCEPT ![p] = @ \ {sig}]
          /\ SigHUPed' = [SigHUPed EXCEPT ![p] = TRUE]
          /\ UNCHANGED pc
       \/ /\ pc[p] \notin {"born", "dequeue"}
          /\ ~Postponed(p, sig)
          /\ Exits(p)
  /\ UNCHANGED <<parent, pipe, buf>>

\* The process is killed by something else, without a word to the parent.
Crash(p) ==
  /\ pc[p] \in Running
  /\ Exits(p)
  /\ UNCHANGED <<parent, pipe, buf>>

-----------------------------------------------------------------------------
Coordinate == \E due \in SUBSET Timers : coordinate_children(due)
ForkFails == \E due \in SUBSET (Timers \cap {"spawn"}) : BadFork(due)
ParentStep == SigChld \/ RunParent \/ CanRead \/ CheckSigs \/ ReadLine \/ Coordinate \/ ForkFails

\* Steps a child takes by itself, whatever its clients do.
ChildStep(p) ==
  RunChild(p) \/ StartClient(p) \/ NextClient(p) \/ Leave(p) \/ Exit(p) \/ HandleSignal(p)

\* The last line of a child finds no room in the pipe that nobody reads any more.
Stuck(p) == pc[p] = "refused" /\ Len(pipe) = PipeCapacity

\* After the close every process comes to its end and nothing is left to do.
Terminated ==
  /\ phase = "down"
  /\ \A p \in Pids : pc[p] = "none" \/ Stuck(p)
  /\ UNCHANGED vars

Next ==
  \/ ParentStep \/ Terminate \/ Terminated
  \/ \E p \in Pids : \/ ChildStep(p) \/ Accept(p) \/ AcceptFails(p)
                      \/ EndClient(p) \/ LastClient(p) \/ Crash(p)

Spec == Init /\ [][Next]_vars

\* The processes run, the time of check_for_dead passes again and again, and
\* accept fails on the socket that server_close shut down.  Clients come and go
\* as they like, and nothing is asked of the other timers.
Fairness ==
  /\ WF_vars(ParentStep)
  /\ SF_vars(\E due \in SUBSET Timers : "dead" \in due /\ coordinate_children(due))
  /\ \A p \in Pids : WF_vars(ChildStep(p)) /\ WF_vars(HandleSignal(p))
                     /\ WF_vars(phase = "down" /\ AcceptFails(p))

FairSpec == Spec /\ Fairness

-----------------------------------------------------------------------------
(* Properties.                                                             *)

\* Every variable keeps its type; tally.dequeue may go below zero, for
\* run_dequeue does not count what delete_child takes off.
TypeOK ==
  /\ phase \in Phases
  /\ children \in [Pids -> Statuses \cup {"none"}]
  /\ tally \in [Statuses -> Int]
  /\ reaped \in SUBSET Pids
  /\ justProcessed \in BOOLEAN
  /\ pipe \in Seq(Lines) /\ buf \in Seq(Lines)
  /\ pc \in [Pids -> ChildPCs]
  /\ pending \in [Pids -> SUBSET {"HUP", "TERM"}]
  /\ SigHUPed \in [Pids -> BOOLEAN]

\* The running counts agree with the table: whatever the order of lines, reaped
\* children, failed kills, forks and re-tallies, tally.waiting and
\* tally.processing are the numbers of entries with that status
\* (run_n_children, run_parent, delete_child).
TallyMatchesTable ==
  \A s \in {"waiting", "processing"} : tally[s] = Cardinality(Having(children, s))

\* Never more than max_servers children that can take a client, although the
\* parent forks from late reports (min_servers if that is configured higher):
\* coordinate_children counts a child until it can serve no more.
Ceiling == IF Min > Max THEN Min ELSE Max
ServingBound == Cardinality({p \in Pids : pc[p] \in Serving}) <= Ceiling

\* A child that has not said "exiting" has an entry, so that it is counted and
\* will get its TERM from server_close.
TalkingIsTracked ==
  phase # "down" =>
    \A p \in Pids : pc[p] \in Talking => children[p] \in {"waiting", "processing"}

\* The last word the parent has, or will read, about a child.
LastWord(p) ==
  LET said  == buf \o pipe
      about == {i \in DOMAIN said : said[i].pid = p}
  IN  IF about = {} THEN children[p]
      ELSE said[CHOOSE i \in about : \A j \in about : j <= i].status

\* The pipe neither loses nor reorders what a child says: once the parent has
\* read all that is written, its table says of each child whether it has a client
\* (run_child and the line handler of run_parent).
LastWordIsTrue ==
  phase # "down" =>
    \A p \in Pids :
      /\ pc[p] \in {"serving", "idle"} => LastWord(p) = "processing"
      /\ pc[p] \in {"born", "accept", "accepted"} => LastWord(p) = "waiting"
      /\ pc[p] = "exiting" => LastWord(p) \in {"exiting", "none"}

\* What the CHLD handler has collected is never the pid of a live process: a
\* fork in the same pass cannot be mistaken for the child that died (the race the
\* comments in run_parent and coordinate_children speak of).
ReapedAreGone == \A p \in reaped : pc[p] = "none"

\* A pass of coordinate_children leaves min_servers entries that it did not HUP
\* (max_servers, if that is lower), although it forks and kills from a total it
\* took before.  Where a process had vanished unnoticed the total is too high.
PassKeepsMin ==
  [][ (phase = "coordinate" /\ phase' = "select"
        /\ \A p \in Pids : children[p] # "none" /\ pc[p] = "none" => p \in reaped)
      => Cardinality({p \in Pids : children'[p] \in {"waiting", "processing"}
                                   /\ pending'[p] = pending[p]}) >= Min2(Min, Max) ]_vars

\* An entry whose process has ended does not stay: by its last line, by SIGCHLD
\* or by the periodic probe the parent finds out and gives the slot up (a fork of
\* the same pass may take the pid again).
Stale(p) == children[p] # "none" /\ pc[p] \in {"zombie", "none"}
DeadIsForgotten == \A p \in Pids : Stale(p) ~> ~Stale(p)

\* However often children die, the parent gets back to min_servers entries.
MinServersKept ==
  []<>(phase = "down" \/ Cardinality({p \in Pids : children[p] \in {"waiting", "processing"}}) >= Min)

\* After server_close no child stays behind, not even one whose TERM came before
\* it had its handlers: the socket is shut down and its accept gives up.  Only
\* where the pipe was left full does its last line hold it.
ClosesDown ==
  phase = "down" ~> \A p \in Pids : pc[p] = "none" \/ Stuck(p)

\* tally.dequeue errs on one side only: it never counts a dequeue process that is
\* not in the table (run_dequeue, delete_child and the re-tally).
DequeueNotOvercounted == tally["dequeue"] <= Cardinality(Having(children, "dequeue"))

\* PreForkSimple.pm:519, of max_dequeue, which PreFork.pm:505 looks after: "The maximum
\* number of dequeue processes to start".
DequeueWithinMax == Cardinality({p \in Pids : pc[p] = "dequeue"}) <= MaxDequeue

\* PreFork.pm:569 "The server will make sure that at any given time there are
\* min_spare_servers available to receive a client request, up to max_servers."
SparesAvailable ==
  []<>(\/ phase = "down"
       \/ Cardinality({p \in Pids : pc[p] \in {"born", "accept"}}) >= MinSpare
       \/ Cardinality({p \in Pids : pc[p] \in Serving}) >= Max)
=============================================================================
