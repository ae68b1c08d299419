--------------------------- MODULE PreForkSimple ---------------------------
(***************************************************************************)
(* Net::Server::PreForkSimple: a parent that keeps max_servers children,   *)
(* its signals as Net::Server::SIG defers them, its close, and its restart *)
(* by HUP, where the process execs itself and finds the children of its    *)
(* former life in the environment (leave_children_open_on_hup) or has sent *)
(* them TERM.  The lock around accept is in AcceptLock.                    *)
(***************************************************************************)
EXTENDS Integers, FiniteSets

CONSTANTS
  Pids,         \* process identifiers the kernel hands out
  Max,          \* max_servers
  MaxDequeue,   \* max_dequeue
  Hook,         \* whether the application has taken run_dequeue from the base class
  LeaveOpen,    \* leave_children_open_on_hup
  Timers,       \* of "dead" and "dequeue", the ones that ever run out
  Signals,      \* what the operator sends: "HUP", "TERM"
  ForkMayFail,  \* whether fork ever fails
  MaxRestarts   \* bound of the exploration: how many HUPs the operator sends

ASSUME PidsAssumption == IsFiniteSet(Pids)
ASSUME NumbersAssumption == Max \in Nat /\ MaxDequeue \in Nat /\ MaxRestarts \in Nat
ASSUME FlagsAssumption == Hook \in BOOLEAN /\ LeaveOpen \in BOOLEAN /\ ForkMayFail \in BOOLEAN
ASSUME SetsAssumption == Timers \subseteq {"dead", "dequeue"} /\ Signals \subseteq {"HUP", "TERM"}

VARIABLES
  phase,     \* where the parent is
  left,      \* initial children that are still to be forked
  flags,     \* signals that have come and wait for their handler (%_SIG)
  hup,       \* _HUP is set: sig_hup has run
  age,       \* HUPs sent so far
  children,  \* the table: "processing", "dequeue", or "none" without an entry
  env,       \* HUP_CHILDREN of the environment
  pc,        \* where each child is
  old,       \* the children that were forked before the last exec
  pending,   \* signals sent to a child and not yet handled by it
  leave      \* the child is to take no more clients (SigHUPed, or _HUP inherited)

vars == <<phase, left, flags, hup, age, children, env, pc, old, pending, leave>>

\* exec has begun (no handlers), the handlers of the base class are set, those of
\* run_parent are, the loop is left with _HUP set; closed, and killed without a close.
Up     == {"start", "loop", "leaving"}
Gone   == {"down", "dead"}
Phases == Up \cup Gone \cup {"boot"}

\* Forked in start or in loop and before its own handlers, in accept (or waiting
\* for its turn there), with a client, out of the loop.
Servers  == {"fresh", "born", "waiting", "serving", "leaving"}
Running  == Servers \cup {"dequeue"}
ChildPCs == Running \cup {"zombie", "none"}

NoTable == [p \in Pids |-> "none"]
Entries == {p \in Pids : children[p] # "none"}
Having(ch, s) == {p \in Pids : ch[p] = s}

\* kill: a process that has ended takes no notice.
Sent(S, sig, procs) ==
  [p \in Pids |-> IF p \in S /\ procs[p] \in Running THEN pending[p] \cup {sig} ELSE pending[p]]

Free == {p \in Pids : pc[p] = "none"}

Reaped(procs) == [p \in Pids |-> IF procs[p] = "zombie" THEN "none" ELSE procs[p]]

-----------------------------------------------------------------------------
(* The parent.                                                             *)

\* The first start differs from a restart in that no HUP_CHILDREN are there.
Init ==
  /\ phase = "boot" /\ left = 0 /\ flags = {} /\ hup = FALSE /\ age = 0
  /\ children = NoTable /\ env = NoTable
  /\ pc = [p \in Pids |-> "none"] /\ old = {}
  /\ pending = [p \in Pids |-> {}]
  /\ leave = [p \in Pids |-> FALSE]

\* post_bind sets the base class's handlers; loop takes over the children of the
\* former life and asks for max_servers new ones all the same.
Loop ==
  /\ phase = "boot"
  /\ phase' = "start" /\ left' = Max
  /\ children' = env
  /\ UNCHANGED <<flags, hup, age, env, pc, old, pending, leave>>

\* What fork does for the pids of S: the child starts with a copy of _HUP.
Forked(S, at) ==
  /\ pc' = [p \in Pids |-> IF p \in S THEN at ELSE pc[p]]
  /\ leave' = [p \in Pids |-> IF p \in S THEN hup ELSE leave[p]]
  /\ old' = old \ S

\* Mutant: the parent's half of the fork is left out.
ForkInitial_unlisted ==
  /\ phase = "start" /\ left > 0
  /\ left' = left - 1
  /\ \E p \in Free : Forked({p}, "fresh")
  /\ UNCHANGED <<phase, flags, hup, age, children, env, pending>>

\* Mutant: for( 0..$n ).
ForkInitial_onemore ==
  /\ phase = "start" /\ left >= 0
  /\ left' = left - 1
  /\ \E p \in Free : Forked({p}, "fresh") /\ children' = [children EXCEPT ![p] = "processing"]
  /\ UNCHANGED <<phase, flags, hup, age, env, pending>>

\* run_n_children, called by loop.
ForkInitial ==
  /\ phase = "start" /\ left > 0
  /\ left' = left - 1
  /\ \E p \in Free : Forked({p}, "fresh") /\ children' = [children EXCEPT ![p] = "processing"]
  /\ UNCHANGED <<phase, flags, hup, age, env, pending>>

\* sig_chld of the base class collects children and tells nobody.
SigChld ==
  /\ phase = "start" /\ "CHLD" \in flags
  /\ flags' = flags \ {"CHLD"}
  /\ pc' = Reaped(pc)
  /\ UNCHANGED <<phase, left, hup, age, children, env, old, pending, leave>>

\* run_parent registers its handlers and enters the loop.
RunParent ==
  /\ phase = "start" /\ left = 0 /\ flags = {}
  /\ phase' = "loop"
  /\ UNCHANGED <<left, flags, hup, age, children, env, pc, old, pending, leave>>

\* check_sigs finds CHLD; any signal found lets the loop notice _HUP.
CheckChld ==
  /\ phase \in {"loop", "leaving"} /\ "CHLD" \in flags
  /\ flags' = flags \ {"CHLD"}
  /\ pc' = Reaped(pc)
  /\ children' = [p \in Pids |-> IF pc[p] = "zombie" THEN "none" ELSE children[p]]
  /\ phase' = IF hup THEN "leaving" ELSE phase
  /\ UNCHANGED <<left, hup, age, env, old, pending, leave>>

\* Mutant: HUP_CHILDREN is not written.
Inherited_nothing == env

\* The children sig_hup writes to the environment; with none to write it leaves
\* what a former life wrote.
Inherited == IF LeaveOpen /\ Entries # {} THEN children ELSE env

\* sig_hup: from check_sigs it ends the loop, from the base class's handler it
\* leaves a mark that the loop looks at only when it finds another signal.  (A
\* second one hands over sockets that the first has closed; sockets are left out.)
SigHup ==
  /\ phase \in Up /\ "HUP" \in flags
  /\ flags' = flags \ {"HUP"} /\ hup' = TRUE
  /\ env' = Inherited
  /\ phase' = IF phase = "loop" THEN "leaving" ELSE phase
  /\ UNCHANGED <<left, age, children, pc, old, pending, leave>>

\* exec: the process forgets everything but the environment.
Exec(procs) ==
  /\ phase' = "boot" /\ left' = 0 /\ flags' = {} /\ hup' = FALSE
  /\ children' = NoTable
  /\ old' = {p \in Pids : procs[p] # "none"}

\* close_children on the entries of the table ch, then check_sigs: a HUP that has
\* come meanwhile turns the close into a restart.
CloseChildren(ch, procs) ==
  /\ pending' = Sent({p \in Pids : ch[p] # "none"}, "TERM", procs)
  /\ pc' = Reaped(procs)
  /\ IF hup \/ "HUP" \in flags
     THEN Exec(procs)
     ELSE /\ phase' = "down" /\ left' = 0 /\ flags' = {} /\ hup' = hup
          /\ children' = NoTable /\ old' = old \ Free

\* server_close.
ServerClose(ch, procs) ==
  /\ IF hup /\ LeaveOpen
     THEN /\ pending' = Sent({p \in Pids : ch[p] # "none"}, "HUP", procs)
          /\ pc' = procs
          /\ Exec(procs)
     ELSE CloseChildren(ch, procs)
  /\ UNCHANGED <<age, env>>

\* TERM or INT; where _HUP is set already it only makes the restart come.
Terminate ==
  /\ phase \in {"start", "loop"} /\ "TERM" \in flags
  /\ ServerClose(children, pc)
  /\ leave' = leave

\* The loop is left, and run() calls server_close.
Leave ==
  /\ phase = "leaving"
  /\ ServerClose(children, pc)
  /\ leave' = leave

\* Mutant: the probe is left out.
Alive_unprobed(due) == children

\* Entries that the probe kill(0) keeps: a zombie can still be signalled.
Alive(due) ==
  [p \in Pids |-> IF "dead" \in due /\ pc[p] = "none" THEN "none" ELSE children[p]]

\* Mutant: one server too few.
Missing_one(ch) ==
  LET n == Cardinality(Having(ch, "processing")) IN IF n + 1 < Max THEN Max - 1 - n ELSE 0

\* How many servers the table lacks; taken-over children may be too many.
Missing(ch) ==
  LET n == Cardinality(Having(ch, "processing")) IN IF n < Max THEN Max - n ELSE 0

\* Mutant: the limit is not looked at.
MayDequeue_always(ch) == TRUE

MayDequeue(ch) == Cardinality(Having(ch, "dequeue")) < MaxDequeue

\* How many dequeue processes the pass asks for.
Dequeues(due, ch) == IF "dequeue" \in due /\ MayDequeue(ch) THEN 1 ELSE 0

\* One pass of the loop: probe, fill up, dequeue.
Pass(due) ==
  /\ phase = "loop"
  /\ LET ch == Alive(due)
     IN \E F, D \in SUBSET Free :
          /\ Cardinality(F) = Missing(ch) /\ Cardinality(D) = Dequeues(due, ch) /\ F \cap D = {}
          /\ D # {} => Hook
          /\ children' = [p \in Pids |-> IF p \in F THEN "processing"
                                         ELSE IF p \in D THEN "dequeue" ELSE ch[p]]
          /\ pc' = [p \in Pids |-> IF p \in F THEN "born" ELSE IF p \in D THEN "dequeue" ELSE pc[p]]
          /\ leave' = [p \in Pids |-> IF p \in F THEN hup ELSE leave[p]]
          /\ old' = old \ (F \cup D)
  /\ UNCHANGED <<phase, left, flags, hup, age, env, pending>>

\* Without the hook run_dequeue is a stub that dies, and the parent with it.
Stub(due) ==
  /\ phase = "loop" /\ ~Hook /\ Dequeues(due, Alive(due)) = 1
  /\ phase' = "dead"
  /\ \E F \in SUBSET Free :
       /\ Cardinality(F) = Missing(Alive(due))
       /\ pc' = Reaped([p \in Pids |-> IF p \in F THEN "born" ELSE pc[p]])
       /\ leave' = [p \in Pids |-> IF p \in F THEN hup ELSE leave[p]]
       /\ old' = old \ F
  /\ UNCHANGED <<left, flags, hup, age, children, env, pending>>

\* A fork fails after those of F, of a server or of the dequeue process: fatal closes
\* the server.
BadFork(due) ==
  /\ ForkMayFail
  /\ \/ phase = "start" /\ left > 0 /\ ServerClose(children, pc) /\ leave' = leave
     \/ /\ phase = "loop"
        /\ \E F \in SUBSET Free :
             /\ Cardinality(F) <= Missing(Alive(due))
             /\ Cardinality(F) < Missing(Alive(due))
                                 + IF Hook THEN Dequeues(due, Alive(due)) ELSE 0
             /\ ServerClose([p \in Pids |-> IF p \in F THEN "processing" ELSE Alive(due)[p]],
                            [p \in Pids |-> IF p \in F THEN "born" ELSE pc[p]])
             /\ leave' = [p \in Pids |-> IF p \in F THEN hup ELSE leave[p]]

\* A signal from the operator.  Between exec and post_bind it finds no handler.
Signal(sig) ==
  /\ sig = "HUP" => age < MaxRestarts
  /\ age' = IF sig = "HUP" THEN age + 1 ELSE age
  /\ \/ phase \in Up /\ flags' = flags \cup {sig} /\ UNCHANGED <<phase, pc>>
     \/ phase = "boot" /\ phase' = "dead" /\ pc' = Reaped(pc) /\ UNCHANGED flags
  /\ UNCHANGED <<left, hup, children, env, old, pending, leave>>

-----------------------------------------------------------------------------
(* A child.                                                                *)

\* The process ends; the parent hears of it if it has a handler for CHLD, and
\* init inherits the child of a parent that is gone.
Remains == IF phase \in Gone THEN "none" ELSE "zombie"

Forgets(p) ==
  /\ pending' = [pending EXCEPT ![p] = {}]
  /\ leave' = [leave EXCEPT ![p] = FALSE]

Exits(p) == pc' = [pc EXCEPT ![p] = Remains] /\ Forgets(p)

Told(sigs) == flags' = IF phase \in Up THEN flags \cup sigs ELSE flags

Goto(p, from, to) ==
  /\ pc[p] \in from /\ pc' = [pc EXCEPT ![p] = to]
  /\ UNCHANGED <<phase, left, flags, hup, age, children, env, old, pending, leave>>

\* The handlers are installed.  With _HUP inherited accept gives up at once.
RunChild(p) == Goto(p, {"fresh", "born"}, IF leave[p] THEN "leaving" ELSE "waiting")

\* accept returns a client; server_close shuts the socket down.
Accept(p) == phase # "down" /\ Goto(p, {"waiting"}, "serving")

\* accept runs out of retries.
AcceptFails(p) == Goto(p, {"waiting"}, "leaving")

\* The client is served and done() is false: the parent exists, no SigHUPed.
NextClient(p) == ~leave[p] /\ phase \notin Gone /\ Goto(p, {"serving"}, "waiting")

\* done() is true: for a reason above, or max_requests are served.
LastClient(p) == Goto(p, {"serving"}, "leaving")

\* exit of a child that has left its loop, or of a dequeue process.
Exit(p) ==
  /\ pc[p] \in {"leaving", "dequeue"}
  /\ Exits(p) /\ Told({"CHLD"})
  /\ UNCHANGED <<phase, left, hup, age, children, env, old>>

\* A child in the base class's handlers closes its parent, as any child would in
\* server_close: INT, which an exec just begun does not survive.
CloseParent(p) ==
  /\ pc[p] = "fresh" /\ "TERM" \in pending[p]
  /\ Told({"CHLD", "TERM"})
  /\ IF phase = "boot"
     THEN phase' = "dead" /\ pc' = Reaped([pc EXCEPT ![p] = "zombie"])
     ELSE phase' = phase /\ pc' = [pc EXCEPT ![p] = Remains]
  /\ Forgets(p)
  /\ UNCHANGED <<left, hup, age, children, env, old>>

\* Mutant: TERM, too, waits for the end of the client.
Ends_politely(p, sig) == pc[p] \in {"waiting", "leaving"}

\* Whether the handlers of run_child exit at once.
Ends(p, sig) == pc[p] \in {"waiting", "leaving"} \/ (pc[p] = "serving" /\ sig = "TERM")

\* The other ways to take a signal.  A child forked in the loop, and a dequeue
\* process, has the parent's deferred handlers and never calls check_sigs: the
\* signal is lost.  sig_hup of the base class makes accept give up.
HandleSignal(p) ==
  \E sig \in pending[p] :
    \/ /\ Ends(p, sig)
       /\ Exits(p) /\ Told({"CHLD"})
       /\ UNCHANGED <<phase, left, hup, age, children, env, old>>
    \/ /\ pc[p] \in Running /\ ~Ends(p, sig) /\ ~(pc[p] = "fresh" /\ sig = "TERM")
       /\ pending' = [pending EXCEPT ![p] = @ \ {sig}]
       /\ leave' = [leave EXCEPT ![p] = @ \/ pc[p] \in {"fresh", "serving"}]
       /\ UNCHANGED <<phase, left, flags, hup, age, children, env, pc, old>>

\* The process is killed by something else.
Crash(p) ==
  /\ pc[p] \in Running
  /\ Exits(p) /\ Told({"CHLD"})
  /\ UNCHANGED <<phase, left, hup, age, children, env, old>>

-----------------------------------------------------------------------------
Coordinate == \E due \in SUBSET Timers : Pass(due) \/ Stub(due)
ForkFails == \E due \in SUBSET Timers : BadFork(due)
Starts == Loop \/ ForkInitial \/ SigChld \/ RunParent
Handles == CheckChld \/ SigHup \/ Terminate \/ Leave
ChildStep(p) == RunChild(p) \/ Exit(p) \/ CloseParent(p) \/ HandleSignal(p)

\* With the parent gone and no children left nothing happens any more.
Terminated == phase \in Gone /\ (\A p \in Pids : pc[p] = "none") /\ UNCHANGED vars

Next ==
  \/ Starts \/ Handles \/ Coordinate \/ ForkFails \/ Terminated
  \/ \E sig \in Signals : Signal(sig)
  \/ \E p \in Pids : \/ ChildStep(p) \/ Accept(p) \/ AcceptFails(p)
                      \/ NextClient(p) \/ LastClient(p) \/ Crash(p)

Spec == Init /\ [][Next]_vars

\* The parent comes up, goes round its loop and handles each signal it is sent; the
\* time of check_for_dead passes again and again, that of check_for_dequeue need not;
\* a child's own steps happen; accept fails on a socket that is shut down.  Clients
\* come and go as they like.
Fairness ==
  /\ WF_vars(Starts) /\ WF_vars(CheckChld) /\ WF_vars(SigHup)
  /\ WF_vars(Terminate) /\ WF_vars(Leave)
  /\ WF_vars(\E due \in SUBSET (Timers \ {"dequeue"}) : Pass(due))
  /\ WF_vars(\E due \in SUBSET (Timers \ {"dequeue"}) : "dead" \in due /\ Pass(due))
  /\ \A p \in Pids : WF_vars(ChildStep(p)) /\ WF_vars(HandleSignal(p))
                     /\ WF_vars(phase = "down" /\ AcceptFails(p))

FairSpec == Spec /\ Fairness

-----------------------------------------------------------------------------
(* Properties.                                                             *)

\* Every variable keeps its type.
TypeOK ==
  /\ phase \in Phases
  /\ left \in 0 .. Max
  /\ flags \in SUBSET {"CHLD", "HUP", "TERM"}
  /\ hup \in BOOLEAN
  /\ age \in 0 .. MaxRestarts
  /\ children \in [Pids -> {"none", "processing", "dequeue"}]
  /\ env \in [Pids -> {"none", "processing", "dequeue"}]
  /\ pc \in [Pids -> ChildPCs]
  /\ old \in SUBSET Pids
  /\ pending \in [Pids -> SUBSET {"HUP", "TERM"}]
  /\ leave \in [Pids -> BOOLEAN]

Ours == Pids \ old

\* A child forked in this life of the parent has an entry of its kind until it has
\* ended, so that it is counted and gets the signal of a close (run_n_children,
\* run_dequeue, the CHLD handler, the probe).
OursTracked ==
  phase \in Up =>
    \A p \in Ours : /\ pc[p] \in Servers => children[p] = "processing"
                    /\ pc[p] = "dequeue" => children[p] = "dequeue"

\* Never more than max_servers children of one life, nor more than max_dequeue
\* dequeue processes, whatever is taken over and whatever dies when.
OursBounded ==
  /\ Cardinality({p \in Ours : pc[p] \in Servers}) <= Max
  /\ Cardinality({p \in Ours : pc[p] = "dequeue"}) <= MaxDequeue

\* Server.pod:697 "The new parent will attempt to keep track of the children from
\* the former parent": every child that still takes clients is in the table of the
\* parent, through any number of restarts.  (A dequeue process forked after an early
\* HUP has written HUP_CHILDREN is not.)
AllTracked ==
  phase \in Up =>
    \A p \in Pids : pc[p] \in Servers => children[p] # "none" \/ leave[p]

\* PreForkSimple.pm:446 "there are always max_servers available": once no child ends
\* any more, the pool is complete and stays so, whatever died before and whoever
\* collected it, also across restarts.
NoMoreDeaths == <>[][\A p \in Pids : pc[p] \in Servers => pc'[p] \in Servers]_vars
PoolRecovers ==
  NoMoreDeaths =>
    <>[](phase \in Gone \/ Cardinality({p \in Pids : pc[p] \in Servers}) >= Max)

\* The entry of a child of this life goes when its process has ended (a fork may take
\* the pid again), whoever has collected it.
Stale(p) == children[p] # "none" /\ pc[p] \in {"zombie", "none"}
OursForgotten ==
  \A p \in Pids : (p \in Ours /\ Stale(p)) ~> (p \notin Ours \/ ~Stale(p) \/ phase \in Gone)

\* PreForkSimple.pm:514 "Seconds to wait before checking to see if a child died
\* without letting the parent know": no entry at all stays for ever.
DeadIsForgotten == \A p \in Pids : Stale(p) ~> (~Stale(p) \/ phase \in Gone)

\* After a close every child ends, but for one with a client that missed the TERM
\* of an earlier restart.
ClosesDown ==
  phase = "down" ~> \A p \in Pids : pc[p] = "none" \/ (pc[p] = "serving" /\ p \in old)

\* Server.pod:1310 "When a HUP is received, the server will close children (if any)": in
\* the life after, where there is one, none of them stays.
RestartClosesChildren ==
  \A p \in Pids : (phase = "boot" /\ p \in old)
                     ~> (pc[p] \notin Running \/ p \notin old \/ phase \in Gone)

\* Server.pod:1310 "When a HUP is received, the server will [...] re-exec".
HupRestarts == (phase \in Up /\ "HUP" \in flags) ~> phase \notin Up
=============================================================================
