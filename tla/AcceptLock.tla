----------------------------- MODULE AcceptLock -----------------------------
(***************************************************************************)
(* The serialized accept of Net::Server::PreForkSimple, which PreFork      *)
(* inherits: a child takes a turn before it waits for a client and gives   *)
(* it back when accept has returned.  The turn is a lock on a file, a      *)
(* semaphore or a line in a pipe.  Children may end at any point, and the  *)
(* server may restart by HUP while children of the old parent still run.   *)
(*                                                                         *)
(* The parent is reduced to what matters here: it forks children, restarts *)
(* and closes.  PreFork has the rest of it.                                *)
(***************************************************************************)
EXTENDS Integers, FiniteSets

CONSTANTS
  Pids,        \* process identifiers
  Serialize,   \* "flock", "semaphore" or "pipe"
  LockFile,    \* whether lock_file is configured
  LeaveOpen,   \* leave_children_open_on_hup
  MaxRestarts  \* bound of the exploration: how often the server is HUPed

ASSUME SerializeAssumption == Serialize \in {"flock", "semaphore", "pipe"}
ASSUME FlagsAssumption == LockFile \in BOOLEAN /\ LeaveOpen \in BOOLEAN
ASSUME RestartsAssumption == MaxRestarts \in Nat

VARIABLES
  server,   \* "up", "told" (a child has sent INT to the parent) or "down"
  age,      \* how often the parent has been restarted
  pc,       \* where each child is; "none" when there is no such process
  born,     \* the age of the parent that forked it
  signal,   \* the signal a child has been sent and has yet to heed
  free      \* per lock: how many turns are there to be taken

vars == <<server, age, pc, born, signal, free>>

\* Forked with the parent's handlers, at the lock, in SUPER::accept, back from
\* it with a client or without, lock given back, out of the loop.
Selecting == {"selecting", "accepted", "failed"}
Children  == {"born", "trying", "serving", "leaving"} \cup Selecting

Ages  == 0 .. MaxRestarts
Locks == Ages

\* Mutant: every incarnation locks a file of its own.
Lock_anew(a) == a

\* post_bind makes a new semaphore, a new pipe and, where lock_file is not
\* configured, a new name for the file in each incarnation.
Lock(a) == IF Serialize = "flock" /\ LockFile THEN 0 ELSE a

Holders(l) == {p \in Pids : pc[p] \in Selecting /\ Lock(born[p]) = l}

\* A configured lock file can be opened; where none is configured, only flock
\* makes up a name for it.
HasLockFile == LockFile \/ Serialize = "flock"

-----------------------------------------------------------------------------
\* post_bind has set up the lock: an unlocked file, setall(1), or the line "First".
Init ==
  /\ server = "up" /\ age = 0
  /\ pc = [p \in Pids |-> "none"]
  /\ born = [p \in Pids |-> 0]
  /\ signal = [p \in Pids |-> "none"]
  /\ free = [l \in Locks |-> 1]

\* The parent forks a child, which inherits the lock of this incarnation.
Fork(p) ==
  /\ server # "down"
  /\ pc[p] = "none"
  /\ pc' = [pc EXCEPT ![p] = "born"]
  /\ born' = [born EXCEPT ![p] = age]
  /\ UNCHANGED <<server, age, signal, free>>

\* run_child installs the handlers and opens the lock file.
RunChild(p) ==
  /\ pc[p] = "born" /\ HasLockFile
  /\ pc' = [pc EXCEPT ![p] = "trying"]
  /\ UNCHANGED <<server, age, born, signal, free>>

\* open fails (no name, no permission after the change of user, no file table
\* entry): fatal, hence server_close in the child, which sends INT to its parent.
CannotOpen(p) ==
  /\ pc[p] = "born"
  /\ pc' = [pc EXCEPT ![p] = "none"]
  /\ server' = IF server = "up" THEN "told" ELSE server
  /\ signal' = [signal EXCEPT ![p] = "none"]
  /\ UNCHANGED <<age, born, free>>

\* Mutant: the answer of a lock that does not block is not looked at.
TakeTurn_unasked(p) ==
  /\ pc[p] = "trying"
  /\ pc' = [pc EXCEPT ![p] = "selecting"]
  /\ free' = [free EXCEPT ![Lock(born[p])] = @ - 1]
  /\ UNCHANGED <<server, age, born, signal>>

\* accept, before SUPER::accept: flock, sem->op(0, -1) or one line of the pipe.
TakeTurn(p) ==
  /\ pc[p] = "trying"
  /\ free[Lock(born[p])] > 0
  /\ pc' = [pc EXCEPT ![p] = "selecting"]
  /\ free' = [free EXCEPT ![Lock(born[p])] = @ - 1]
  /\ UNCHANGED <<server, age, born, signal>>

\* SUPER::accept returns a client.
Accepted(p) ==
  /\ pc[p] = "selecting" /\ server # "down"
  /\ pc' = [pc EXCEPT ![p] = "accepted"]
  /\ UNCHANGED <<server, age, born, signal, free>>

\* It runs out of retries, as it does on a socket that was shut down.
AcceptFails(p) ==
  /\ pc[p] = "selecting"
  /\ pc' = [pc EXCEPT ![p] = "failed"]
  /\ UNCHANGED <<server, age, born, signal, free>>

\* Mutant: an accept that failed returns before the lock is given back.
GiveTurn_kept(p) ==
  /\ pc[p] \in {"accepted", "failed"}
  /\ pc' = [pc EXCEPT ![p] = IF pc[p] = "accepted" THEN "serving" ELSE "leaving"]
  /\ free' = IF pc[p] = "accepted" THEN [free EXCEPT ![Lock(born[p])] = @ + 1] ELSE free
  /\ UNCHANGED <<server, age, born, signal>>

\* accept, after SUPER::accept: LOCK_UN, sem->op(0, 1) or the line "Next!".
GiveTurn(p) ==
  /\ pc[p] \in {"accepted", "failed"}
  /\ pc' = [pc EXCEPT ![p] = IF pc[p] = "accepted" THEN "serving" ELSE "leaving"]
  /\ free' = [free EXCEPT ![Lock(born[p])] = @ + 1]
  /\ UNCHANGED <<server, age, born, signal>>

\* run_client_connection returns; done() is true with SigHUPed and when the parent
\* is gone, and whenever max_requests is reached.
NextClient(p) ==
  /\ pc[p] = "serving"
  /\ \/ pc' = [pc EXCEPT ![p] = "leaving"]
     \/ /\ signal[p] = "none" /\ server # "down"
        /\ pc' = [pc EXCEPT ![p] = "trying"]
  /\ UNCHANGED <<server, age, born, signal, free>>

\* What the kernel gives back when a process ends: its lock on the file and,
\* by SEM_UNDO, its semaphore; a line read from a pipe is gone.
Relinquished(p) ==
  IF pc[p] \in Selecting /\ Serialize # "pipe"
  THEN [free EXCEPT ![Lock(born[p])] = @ + 1]
  ELSE free

\* The child ends: its loop is left, a signal is heeded (HUP at once unless it has
\* a client, TERM at once), or it is killed from outside.
Dies(p) ==
  /\ pc[p] # "none"
  /\ free' = Relinquished(p)
  /\ pc' = [pc EXCEPT ![p] = "none"]
  /\ signal' = [signal EXCEPT ![p] = "none"]
  /\ UNCHANGED <<server, age, born>>

\* The children of S are sent sig; one that has not installed its handlers yet
\* runs those of its parent, and the signal is lost.
Send(S, sig) ==
  signal' = [p \in Pids |-> IF p \in S /\ pc[p] \notin {"none", "born"} THEN sig ELSE signal[p]]

\* The children that the parent has in its table: after a restart that closed the
\* old ones it knows nothing of one that missed its TERM.
Known == {p \in Pids : LeaveOpen \/ born[p] = age}

\* sig_hup, hup_children or close_children, and exec.
Restart ==
  /\ server = "up" /\ age < MaxRestarts
  /\ age' = age + 1
  /\ Send(Known, IF LeaveOpen THEN "HUP" ELSE "TERM")
  /\ UNCHANGED <<server, pc, born, free>>

\* Mutant: the children are left to themselves.
Close_alone ==
  /\ server # "down" /\ server' = "down"
  /\ UNCHANGED <<age, pc, born, signal, free>>

\* server_close of the parent, by a signal to it or by the INT of a child.
Close ==
  /\ server # "down"
  /\ server' = "down"
  /\ Send(Known, "TERM")
  /\ UNCHANGED <<age, pc, born, free>>

-----------------------------------------------------------------------------
\* A child that has to end by itself: a signal ends it, or its loop is over.
MustDie(p) ==
  \/ pc[p] = "leaving"
  \/ signal[p] = "TERM"
  \/ signal[p] = "HUP" /\ pc[p] # "serving"

Terminated == server = "down" /\ (\A p \in Pids : pc[p] = "none") /\ UNCHANGED vars

Child(p) ==
  \/ RunChild(p) \/ CannotOpen(p) \/ TakeTurn(p) \/ Accepted(p) \/ AcceptFails(p)
  \/ GiveTurn(p) \/ NextClient(p) \/ Dies(p)

Next == Restart \/ Close \/ Terminated \/ \E p \in Pids : Fork(p) \/ Child(p)

Spec == Init /\ [][Next]_vars

\* The parent forks and heeds its INT; not every child is killed before it gets to
\* the lock, nor every one that waits there; the kernel passes over nobody for
\* ever; a child with the turn goes on from accept to its client; a signal is
\* heeded; accept fails on a socket that was shut down.  Clients may never come.
Fairness ==
  /\ WF_vars(\E p \in Pids : Fork(p))
  /\ WF_vars(server = "told" /\ Close)
  /\ SF_vars(\E p \in Pids : RunChild(p))
  /\ SF_vars(\E p \in Pids : TakeTurn(p))
  /\ \A p \in Pids : /\ WF_vars(RunChild(p) \/ CannotOpen(p))
                     /\ WF_vars(GiveTurn(p))
                     /\ WF_vars(MustDie(p) /\ Dies(p))
                     /\ WF_vars(server = "down" /\ AcceptFails(p))
                     /\ SF_vars(TakeTurn(p))

FairSpec == Spec /\ Fairness

-----------------------------------------------------------------------------
(* Properties.                                                             *)

\* Every variable keeps its type.
TypeOK ==
  /\ server \in {"up", "told", "down"}
  /\ age \in Ages
  /\ pc \in [Pids -> Children \cup {"none"}]
  /\ born \in [Pids -> Ages]
  /\ signal \in [Pids -> {"none", "HUP", "TERM"}]
  /\ free \in [Locks -> Nat]

\* PreForkSimple.pm:239: "We can only let one process do the selecting at a time".
OneSelects ==
  \A p, q \in Pids : pc[p] \in Selecting /\ pc[q] \in Selecting => p = q

\* Each lock keeps its own children apart, whatever dies and whenever.
OnePerLock ==
  \A l \in Locks : \A p, q \in Holders(l) : p = q

\* A lock whose turn is not to be had is held by a living child: no death and no
\* failed accept takes a turn away for good, unless it is a line in a pipe.
TurnNotLost ==
  Serialize # "pipe" => \A l \in Locks : free[l] = 0 => Holders(l) # {}

\* Every lock implements the abstract turn: it passes from child to child only
\* by way of nobody, and each step of any child moves the turn of one lock at most.
T == INSTANCE Turn WITH Procs <- Pids, owner <- [l \in Locks |-> Holders(l)]
ImplementsTurn == T!Spec

\* PreForkSimple.pm:446 "at any given time there are always max_servers available
\* to receive a client request": again and again some child waits for a client,
\* unless all of them have one.
SomeoneSelects ==
  []<>(\/ server = "down"
       \/ \E p \in Pids : pc[p] = "selecting"
       \/ \A p \in Pids : pc[p] = "serving")

\* After a close every child ends, even one that missed its TERM: it gets its turn
\* and its accept fails.
ClosesDown == server = "down" ~> \A p \in Pids : pc[p] = "none"
=============================================================================
