# Verification of dwimperl 5.14.2

The repository is a binary distribution of perl 5.14.2 for Linux: the interpreter, its
core library (`src/lib/5.14.2`) and a selection of CPAN modules
(`src/lib/site_perl/5.14.2`). The programs whose logic is in the repository as source are
Perl modules, the XS template of DBI and the macros in C headers. This directory models
those of them whose state is hard to keep right, because several processes, threads,
callbacks or exceptions come in between, in TLA+; it checks the models with TLC and
proves invariants of them with TLAPS. `PROJECT.json` lists the components, the runs, which
definition stands for which lines of the source, the mutants of each property, the
hazards and the theorems.

Paths below are relative to `src/lib/site_perl/5.14.2` where they start with a module name.

## Inventory

| component | state it keeps | operations | interacts by |
|---|---|---|---|
| `Net/Server/PreFork.pm` | table of children with a status each, tally per status, reaped pids, timers; in the child `connected`, `SigHUPed` | `loop`, `run_n_children`, `kill_n_children`, `run_parent`, `coordinate_children`, `delete_child`, `run_child` | fork, one pipe from all children to the parent, signals, `waitpid` |
| `Net/Server.pm` | sockets, `children`, `_HUP`, `done` | `server_close`, `close_children`, `sig_hup`, `hup_server`, `accept`, `run_dequeue`, `sig_chld` | signals, `exec` with the sockets and children in the environment |
| `Net/Server/SIG.pm` | one flag per signal name | `register_sig`, `check_sigs` | asynchronous handlers that set the flag |
| `Net/Server/PreForkSimple.pm` | table of children; lock file, semaphore or pipe token | `run_parent` (always `max_servers`), `accept` serialized in three ways, `done` | `flock`, SysV semaphore, a token in a pipe |
| `Net/Server/Daemonize.pm`, `Fork.pm`, `Multiplex.pm`, `INET.pm` | pid file; children; clients of one select loop | `daemonize`, `check_pid_file`, per-client forks | the file system, signals |
| `Starman/Server.pm` | per connection: buffer, keep-alive, client data | `process_request`, `_finalize_response` | runs inside a child of PreFork |
| `DBIx/Class/Storage.pm`, `Storage/DBI.pm`, `TxnScopeGuard.pm` | `transaction_depth`, savepoint names, handle, owner pid | `txn_do`, `txn_begin`, `txn_commit`, `txn_rollback`, `svp_*`, `dbh_do`, guards | the database, which may go away |
| `DBIx/Class/Storage/DBI/Replicated.pm` | master, replicants, balancer | routing of calls | several storages |
| `Thread/Queue.pm`, `Thread/Semaphore.pm` (core) | shared array; shared counter | `enqueue`, `dequeue`, `insert`, `extract`; `down`, `up` | `lock`, `cond_wait`, `cond_signal` |
| DBI: `DBIXS.h`, `Driver.xst`, `DBI.pm` | flags of each handle, counts of its kids, the session | `prepare`, `execute`, `finish`, `begin_work`, `commit`, `rollback`, `disconnect`, `DESTROY` | a session that a fork shares; destruction in any order |
| the interpreter's headers: `cop.h`, `scope.h`, `pad.h` | stacks of contexts, scopes and saved values, jump environments, depth and references of subs | `PUSHBLOCK`, `PUSHSUB`, `PUSHEVAL`, `POPSTACK_TO`, `JMPENV_*`, `PUSH_MULTICALL`, ... | C functions that call back, exceptions that jump over them |
| `TAP/Parser/*`, `TAP/Harness.pm` (core) | tree of jobs, running parsers, aggregated results | `get_job`, `next`, `finish` | select over the output of child processes |
| `LWP/ConnCache.pm`, `Net/HTTP/Methods.pm` | kept connections with limits; buffer of one connection | `deposit`, `withdraw`, `drop`; chunked reads | one process |
| `Tie/File.pm`, `FileCache.pm`, `Memoize/Expire.pm` (core) | caches of records, handles, results | tied hash and array operations | files |
| `CPAN`, `CPANPLUS`, Plack, Dancer, Dwimmer, Moose, DateTime, ... | per process | sequential library code | - |

What is hard in the servers, the first four rows: A parent and its children run concurrently;
the parent acts on reports that are old when it reads them (lines in a pipe, and lines
already in the buffer of its file handle, which `select` does not see); children die
without a word, before the parent has its handlers, or between two reports; signals come
at every point and are lost where a process has not yet set its handlers; forks fail; and
a count that is kept by increments and decrements in five places steers everything. In DBIx::Class and DBI an exception, a lost connection
or a fork may come between any two steps, and destructors run where nobody wrote a call.
In the interpreter a `die` jumps over the C code that would have restored things.

What makes each component correct:

* PreFork: never more children than `max_servers`, never fewer than `min_servers` for
  good; spare children up to the ceiling; the tally true to the table and the table true
  to the children; every dead child forgotten; nothing left behind by a close or a restart.
* PreForkSimple: one child at a time in `accept`, and always one that can get there.
* DBIx::Class: the outermost commit or rollback decides, once; an inner failure is never
  committed; a reconnect never loses the first half of a transaction; savepoints nest.
* Thread::Queue and Thread::Semaphore: no waiter asleep beside enough items or permits; a slice is cut where it was asked for.
* DBI: counts of kids exact; an active handle has an open session behind it; no destruction
  commits, speaks over a closed connection, or ends the session of another process.
* Contexts: whatever way control leaves a sub, an eval or a callback, depths, references,
  pad, `@_` and jump environments are those of the frames that are left.
* TAP: sequential jobs never overlap others, every job runs once, results are counted once.
* ConnCache: limits kept, no connection handed out twice.

## Plan

1. `PreFork` with its proofs (done): the loop of the parent, the children, dequeue
   processes, failing forks, the close.
2. `AcceptLock` with its proofs (done): `PreForkSimple::accept` with its three locks and
   the death of the holder, implementing the abstract `Turn`.
3. `PreForkSimple` with its proofs (done): its parent loop, `sig_hup`, `hup_children`,
   `hup_server`, the table inherited through `HUP_CHILDREN`, signals pending together.
4. `ThreadSync` with its proofs (done): queue and semaphore with condition variables.
5. `TxnStorage` with its proofs (done): `txn_*`, `svp_*`, `txn_do`, the scope guard, the reconnects and
   the fork, over a database with sessions and savepoints.
6. `DbiHandles` with its proofs (done): the handles under DBIx::Class, which trusts that
   a forked child does not end the session.
7. `Contexts` with its proofs (done): the interpreter under all of them.
8. Not written: `ServerPool`, an abstract pool that both parents implement, with the
   restart of `PreFork`; `TapJobs`; `ConnCache`.

A run is kept for each question that is not answered by another; configurations that
were checked beside the runs are listed with their results under "Further configurations".

Every module is written to be proved about: constants with named assumptions, one action
per operation, invariants as conjunctions of named parts, no recursive operator: a loop is a
function over the indexes it counts.

## The module PreFork

| in the model | in the code |
|---|---|
| `phase` | where `run_parent` is: before its handlers (`start`), about to call `can_read` (`select`), back from it with nothing or with the pipe (`quiet`, `ready`), at the line read (`read`), in `coordinate_children` (`coordinate`), gone (`down`) |
| `children`, `tally`, `reaped` | `$prop->{children}{$pid}{status}`, `$prop->{tally}`, `$self->{reaped_children}` |
| `justProcessed` | `last_process` was set in this pass |
| `pipe`, `buf` | lines in the kernel's pipe, and lines already in the buffer of `_READ` |
| `pc`, `pending`, `SigHUPed` | the process of each pid, signals on their way to it, the child's flag |

The parent's actions are `RunParent`, `CanRead`, `CheckSigs`, `ReadLine`,
`coordinate_children(due)`, `BadFork` and `Terminate`; `SigChld` is the base class's
handler before `run_parent` replaces it. A child goes through `RunChild`, `Accept`,
`StartClient`, `EndClient` or `LastClient`, `NextClient`, `Leave` and `Exit`, may fail to
accept, handles signals between any two of these steps, and may be killed at any point.
The records `[ch, n]` of table and tally let the five places that change both be operators
(`delete_child`, `run_n_children`, `run_dequeue`, `ChangeStatus`, `Retally`) which
`coordinate_children` applies one after the other, as the code does.

Choices of the model:

* `coordinate_children` is one step. Between its statements the code reads nothing that a
  child can change: it reads no line, handles no signal, and whether `kill` finds a process
  depends only on what the parent itself has waited for. Signals it sends are put in
  `pending` and reach the child later.
* Timers (`time - last_x > limit`) are a set `due` chosen freely in each pass from the
  constant `Timers`, which leaves out those that a configuration sets very large. What the
  code orders by time within one pass is kept: no kill after a fork
  (`min_child_ttl`), no second kill after a first (`last_kill`), no idle kill in the pass
  that read `processing`.
* A pid is not reused while a line of its old owner is unread or its entry is in the
  table: the kernel goes through all pids before it repeats one.
* A child just forked runs its parent's handlers. Those of `run_parent` only note the
  signal, so that it is lost. The first `min_servers` children inherit the base class's,
  which make them exit on TERM; the model lets them be killed at that point, too.
* Lines are written whole (they are shorter than `PIPE_BUF`), and a partial line at the end
  of one read is completed by the next.
* `run_dequeue` is a hook that an application has to define (PreForkSimple.pm:527): the
  method of the base class, which does what is needed, is hidden by a stub that dies
  (PreForkSimple.pm:396). The model takes the base class's code for the hook; the parent
  that runs into the stub is in `PreForkSimple`.
* Not modelled: the restart by HUP (`PreForkSimple` has it), `child_communication` and the hooks, a child that
  cannot open its lock file, a failing fork of a dequeue process (it ends in the same
  `fatal` as the one modelled), the death of the parent by a signal it cannot handle.

### Runs

| run | instance | shows |
|---|---|---|
| `prefork_safety` | 3 pids, 1 to 2 servers, 1 spare, 1 dequeue process, pipe of 2 lines read one by one, timers of spawn, surplus and dequeue | table and tally agree, ceiling, every child tracked, last words true, reaped pids gone, and the tally of dequeue errs downwards only |
| `prefork_live` | 2 pids, pipe of 1 line, timers of spawn, surplus, dead and idle | no pass kills below the minimum; dead children are forgotten, the pool refills, the close leaves no process |
| `prefork_spares` (violation) | 3 pids, 2 to 3 children, lines read two at once | all children busy, the parent believes one is waiting because its lines sit in the handle's buffer, and never forks a spare |

Three pids let a child be dead and unnoticed, another be forked in its place and a third
be at work, with a ceiling of two. A pipe of two lines lets two reports wait, also of one
child; a pipe of one makes writers block. Two lines read in one go (`prefork_spares`,
`PreFork_lines.cfg`) are the least where lines wait in the buffer. `DriftBound`
stops `tally.dequeue` from falling for ever. Pids are interchangeable (symmetry) in the
safety runs. No run disables the deadlock check: after a close the explicit step
`Terminated` stands for the end of the system, and it requires that every process has
ended (or is stuck at a full pipe).

Fairness (`FairSpec`): the parent's loop goes on; the time of `check_for_dead` passes again
and again (strong fairness of a pass with that timer due); a child's own steps happen, and
so do its signal handlers; `accept` fails on the socket that `server_close` shut down. No
fairness is asked of clients: they may never come, or never go.

There are two further configurations. `PreFork_lines.cfg` has lines read two at once, no
dequeue processes, the timers of surplus, dead and idle: all invariants hold in it.
`PreFork_dequeue.cfg` is the instance of `prefork_safety` and refutes `DequeueWithinMax`: two
passes with the timer of dequeue due run two dequeue processes where `max_dequeue` is 1.

### Disagreements with the documentation

* `prefork_spares`: PreFork.pm:569 promises `min_spare_servers` children available at any
  given time, up to `max_servers`. `run_parent` uses `select` on the descriptor and
  `<$fh>` on the handle (lines 340 and 359; the comment at 337 says that this is
  controlled). With two lines read into the buffer by one read, one of them is processed
  and the other waits until a child writes again, which a busy child does not do.
* `PreFork_dequeue.cfg`: PreForkSimple.pm:519 calls `max_dequeue` "The maximum number of dequeue
  processes to start". `run_dequeue` of the base class (Server.pm:972), which the hook is taken
  to be, marks the entry but not the tally, and `delete_child` takes from the tally: PreFork.pm:505
  tests `max_dequeue` against a count that stays too low until the next re-tally, and drifts
  below zero. `DequeueNotOvercounted` says only that it errs on no other side, which is a check for
  a missed decrement: it does not bound the processes.

### Proofs (`PreForkProofs`)

For every finite set of pids, every configuration that `post_configure` accepts and all
sizes of pipe and buffer: type correctness, `TallyMatchesTable`, `DequeueNotOvercounted`,
`ServingBound`, `TalkingIsTracked`, `ReapedAreGone`, `LastWordIsTrue`, and the action
property `PassKeepsMin`. The first six are not inductive alone. `ServingBound`
needs that every child able to serve has an entry (`TalkingIsTracked`), that the tally
counts the entries (`TallyMatchesTable`) and that the tally is below the ceiling
(`TableBound`); tracking needs that no unread line announces an exit that did not happen
(`LinesAreOld`), that what is on the reaped record is gone, and that fork returns fresh
pids; exactness needs that no line is about a dequeue process. `IInv` is their
conjunction. The argument has two layers: lemmas about the operators on books (each keeps
a book exact and moves its total by a known amount), and a predicate `Sound(b, procs)`
that each stage of `coordinate_children`, a line and a close keep; `SoundInv` turns it back
into the invariant. A child's step is covered by one lemma (`ChildKeeps`).

`LastWordIsTrue` needs an invariant on top (`WordInv`): of every child that still writes
lines, the last unread line says the status that is true of it, or, when there is none
unread, its entry does (`Heard`). Lines are written with what is true at that moment and
read from the front; a line that is not the last one changes nothing that counts; entries
are deleted only of processes that are gone; and a fork returns a pid that no unread line
speaks of.

`PassKeepsMin` is about the stages of a pass one after the other (`PassStages`): without
a process that vanished unreaped no stage but the forks changes the table, so that what
one stage counted the next still has. The kills for surplus and those for idleness are
bounded by what the tally is above the limit (`SurplusLeavesMin`, `IdleLeavesMin`), and a
pass that makes one kind of kill does not make the other (`MayKill`).

Type correctness is proved and no longer a property of a run. Only model-checked: the
liveness properties.

## The modules AcceptLock and Turn

`AcceptLock` models the lock around `accept` (PreForkSimple.pm:76-284). Its parent is
reduced to forking, restarting and closing.

| in the model | in the code |
|---|---|
| `server`, `age` | the parent is up, has been sent INT by a child, or is gone; how often it has been restarted |
| `pc`, `born`, `signal` | each child, the life of the parent that forked it, the signal it has been sent |
| `free[l]` | turns to be had: the file is unlocked, the semaphore is 1, a line is in the pipe |

`Lock(a)` is the lock that the parent of age `a` sets up in `post_bind`: the same for all
ages only if it is a file whose name is configured. `TakeTurn`, `Accepted`/`AcceptFails`
and `GiveTurn` are the three parts of `accept`, `Relinquished` what the kernel gives back
when a process ends (external). `Turn` is the abstract promise: a turn per lock that goes
from owner to owner by way of nobody.

Choices: without `serialize` there is no lock, so that case is not an instance here; what a
signal does depends on whether it came before the handlers (lost); a HUP
that meets the INT of a child in the parent is left out (`Restart` only while `server` is
"up"), and so is the creation of new semaphores at each restart, which nothing removes.

| run | instance | shows |
|---|---|---|
| `acceptlock` | 3 pids, flock on a configured file, children left open, 1 restart | one child selects at a time across the restart; no death takes the turn away; some child always gets to select; a close ends every child, even one that missed its TERM; `Turn` is implemented |
| `acceptlock_pipe` (violation) | 3 pids, serialize = pipe | the turn is a line in a pipe: a child that ends in accept takes it along, and no child ever accepts again |

Three children are one with the turn, one that waits and one that dies, or two lives with
a waiter. What the run does not instantiate (semaphores, more lives, more children) the
theorems cover, but for the liveness. Fairness: the parent forks and heeds its INT; the
kernel lets none of the waiting children wait for ever (strong fairness of `TakeTurn`);
not every child is killed before it reaches the lock; signals are heeded; no fairness of clients.

The disagreement of `acceptlock_pipe` is with PreForkSimple.pm:446-447: "at any given time
there are always max_servers available to receive a client request". PreForkSimple.pm:500
warns that the pipe does not relinquish "the block if the process dies"; what it does not
say is that a child ended by a HUP or TERM in accept, which is the normal life of a
server, leaves all the others waiting for good. Observations without a run:
semaphores are taken with SEM_UNDO, so that they do come back, contrary to line 500; without a
configured `lock_file` children of two lives lock two files and may select together; with
semaphore or pipe and no `lock_file`, `run_child` (line 203) opens an undefined name
and every child closes the server (`CannotOpen`).

### Proofs (`AcceptLockProofs`)

For any set of children, any number of restarts and all three locks: `OnePerLock` (one
child at a time per lock, the theorem `MutualExclusion`; no run needs it any more),
`TurnNotLost`, `OneSelects` where a lock file is configured, and that `AcceptLock`
implements `Turn`. The inductive invariant `IInv` adds `TurnOnce`: per lock the turn is in
one place at most. Each step is classified as seen from the locks (`Quiet`, `Taken`, `Left`), and
each class keeps the invariant and maps to a step of `Turn`.

## The module PreForkSimple

| in the model | in the code |
|---|---|
| `phase` | exec has begun (`boot`), the base class's handlers are set and `loop` forks (`start`), `run_parent`'s loop (`loop`), the loop is left (`leaving`), closed (`down`), ended without a close (`dead`) |
| `left` | iterations left of `run_n_children` when called by `loop` |
| `flags` | signals that wait: `%_SIG`, or the signal itself before the next safe point |
| `hup`, `env` | `_HUP` is set; `HUP_CHILDREN` |
| `children` | `$prop->{children}` with the two statuses |
| `pc`, `old`, `pending`, `leave` | each child, whether it was forked before the last exec, signals on their way to it, `SigHUPed` or an inherited `_HUP` |

`Loop`, `ForkInitial`, `SigChld` and `RunParent` are the way from exec to the loop;
`CheckChld`, `SigHup` and `Terminate` are the three handlers, in any order where several
signals wait, as `check_sigs` goes through a hash; `Pass(due)` is the rest of a pass;
`Stub` is the pass that dies in `run_dequeue` where the application has not taken the
base class's method (`Hook`); `BadFork` is a `fork` that fails. `ServerClose`,
`CloseChildren` and `Exec` are called by `Terminate`, `Leave` and `BadFork`. A child starts
as `fresh` (with the base class's handlers, under which TERM makes it close its parent:
`CloseParent`) or `born` (with the deferred handlers, which lose signals).

Choices: a pass is one step, for the same reason as in `PreFork`; timers are chosen
freely from `Timers`; the socket, and with it what a second HUP does to sockets that the
first has closed, is left out, as are signals between the end of `close_children` and the
end of the process, the hooks, and a child that cannot open its lock file (`AcceptLock`).
A pid in the table can be forked again once its process has been collected: entries taken
over from a former life can be that old.

| run | instance | shows |
|---|---|---|
| `simple_safety` | 5 pids, 2 servers, 1 dequeue process, HUP and TERM, 1 restart with TERM to the children, failing forks | what a parent has forked is in its table (`OursTracked`) and within its limits (`OursBounded`) |
| `simple_pool` | 4 pids, 1 server, 1 dequeue process without its hook (the stub of `run_dequeue`), 2 restarts that leave the children | no child that takes clients is unknown to the parent, or it has `_HUP` and takes none; the pool recovers from deaths, collected by whomever |

Two lives need room for the children of both: five pids hold two of each and one that
has ended. Two restarts reach the state where `HUP_CHILDREN` is left from an earlier
life (Server.pm:1171 writes it only for a table with entries). `MaxRestarts` bounds how many HUPs
are sent. No run disables the deadlock check; `Terminated` stands for the end.

Fairness: the parent comes up, goes on with its loop, and handles a signal it has; the
time of `check_for_dead` passes again and again, while that of `check_for_dequeue` need
never come (fairness is of passes without it, so that the model may or may not run into the
stub); a child's own steps and handlers happen; `accept` fails on a socket that was shut down. Clients and crashes come as they like.

### Further configurations

These are kept beside the runs. The first two hold; TLC refutes the others, which
disagree with the documentation:

| configuration | result |
|---|---|
| `PreForkSimple_close.cfg` | 3 pids, failing forks, 2 restarts: the entries of dead children of this life go (`OursForgotten`), a close leaves no process (`ClosesDown`) |
| `PreForkSimple_restart.cfg` | 5 pids, 3 restarts: `AllTracked` |
| `PreForkSimple_stray.cfg` | 2 pids, a HUP and a TERM: refutes `RestartClosesChildren`, a child without handlers survives the restart, unknown to the new parent |
| `PreForkSimple_unheard.cfg` | 2 pids, a HUP: refutes `HupRestarts`, an early HUP never restarts the server |
| `PreForkSimple_zombie.cfg` | refutes `DeadIsForgotten`: an inherited entry stays for a child that is a zombie |

`AllTracked` is checked with restarts by HUP that leave the children and without failing
forks: where a close by a failed fork or a TERM is turned into a restart, the child of the
first of the disagreements below (its TERM lost) is the one that is not tracked.

Server.pod:1310 says of a HUP that the server "will close children (if any), [...] and
re-exec", with which `_stray` and `_unheard` disagree; `_zombie` disagrees with what
`check_for_dead` is for.

* `_stray`: a TERM sent to a child that has not yet set its handlers is lost, and the child
  serves on unknown to the new parent. A restart by HUP does it, and so does a HUP that
  comes during a close and turns it into a restart (`CloseChildren`, by the `check_sigs` of
  PreForkSimple.pm:404), which is the way TLC shows. `OursTracked` says nothing of it,
  being about the children of one life.
* `_unheard`: a HUP before `register_sig` runs `sig_hup` at once; `run_parent` looks at
  `_HUP` only `if( @sigs )` (line 342), so that nothing happens until another signal comes, while every child
  forked from then on inherits `_HUP` and gives up its `accept`.
* `_zombie`: PreForkSimple.pm:514 promises that `check_for_dead` finds children that
  died without letting the parent know. `kill(0)` succeeds for a zombie, and a child that ends
  during the exec stays one until another child's death runs `waitpid`.

An observation without a run: with `check_for_dequeue` set and no `run_dequeue`, the parent
dies and leaves its children (`Stub`), although Server.pm:981-983 says that `dequeue` can be implemented.

### Proofs (`PreForkSimpleProofs`)

For every finite set of pids and every setting: type correctness, `OursTracked` and
`OursBounded`. `OursBounded` is not inductive: the parent forks by what its table lacks,
so that every server it has forked must be in the table (`OursTracked`), and before the
loop it forks without a look at the table, so that the children still to come have to be counted,
too (`Counted`, with `LeftInStart`); an exec makes all children old, so that a new life starts
from none (`BootIsClean`). Steps under which children only end are one class (`Ending`);
`Loop`, `ForkInitial`, `Pass`, `Stub`, a close and a failed fork have a lemma each.

`AllTracked` is proved of the setting it is true of and checked with (`LeavesChildren`):
a restart leaves the children, no fork fails, and no TERM comes. Without the last a close
that turns into a restart leaves a child that was too young to get its TERM, and no later
life knows of it. The invariant (`HandedOver`) is that from `sig_hup` on the environment
`HUP_CHILDREN` is as good as the table, up to the next life, which takes it over: a child
forked after `sig_hup` inherits `_HUP` and is not a server for long. It needs that nobody
is told to end by TERM (`NoTerm`). Steps are sorted by what they do to the table: a child
ends, a child goes on, signals, `sig_hup`, forks, the exec (`EndingListed` to
`RestartListed`).

Type correctness is proved and not a property of a run. Only model-checked: the liveness
properties.

## The module ThreadSync

`Thread/Queue.pm` and `Thread/Semaphore.pm` of the core library. Each method locks its
variable in its first line and keeps the lock until it returns, except in `cond_wait`: a
method is one step, or one step up to the wait and one after each wake-up.

| in the model | in the code |
|---|---|
| `queue`, `permits` | `@$queue`, `$$sema` |
| `asleep[v]`, `woken[v]` | threads inside `cond_wait` on the variable; threads released that do not have the lock yet |
| `need` | the argument of the call a thread sleeps in |

`DequeueSection` and `DownSection` are the `while` loop of a waiting method, entered by the
call (`Dequeue`, `Down`) or from a wake-up (`DequeueAgain`, `DownAgain`). `cond_signal` lets
out any one sleeper and is lost when there is none, `cond_broadcast` all; a sleeper may also
wake up for no reason. `Inserted`, `AfterExtract` and `Rest` are what `insert`, `extract` and
`dequeue_nb` leave, `Extracted` and `Taken` what the last two hand out, `Peeked` what `peek`
shows; the undef of a single item that is not there is the empty sequence. `pending` is the
length. Items are two values, which tells apart what was moved from what was lost.

The run `threadsync` has 4 threads, a queue of up to 4 items, `dequeue(2)`, slices with
indexes from -4 to 4, and a semaphore from -1 to 3 with `down` and `up` of 1 and 2. Four
threads are two sleepers, one that is on its way and one that adds; lists of up to three
let one call add for more than one sleeper. There is no liveness here: the code has no
fairness between threads, and whether somebody calls `enqueue` is up to the application.

`NoSleepBesideItems` holds for threads that ask for one and the same count. With mixed
counts a signal may go to a thread that cannot go on and goes back to sleep, while another
sleeps beside items enough. TLC shows it with `ThreadSync_mixed.cfg`, a further
configuration (3 threads, dequeues of 1 and of 2), and it disagrees with
Thread/Queue.pm:331-333: "the thread will be blocked until the requisite number of items
are available".

`SlicesExact` takes each position of the queue by where it lies to the block of items that
starts at the index, without the steps the code takes: what lies in the block is
handed out, the rest is left, both in order; the list of `insert` comes where the index
is; `dequeue_nb` is `extract` from the head, and `peek` shows what `extract` of one item
would hand out. The indexes are on either side of the queue and beyond both ends.

The perl of this distribution is built without threads (`USE_ITHREADS` is not defined in
`config.h`): the modules are here for programs that run them on one that has them.

### Proofs (`ThreadSyncProofs`)

For all sets of threads and items, all arguments and bounds: type correctness,
`NoSleepBesidePermits`, and `NoSleepBesideItems` where all calls have the same count
(`Uniform`). `Base` adds to the types that nobody is asleep in two places and that a
sleeper's `need` is one of the counts. The invariant of the queue is kept because a
thread that leaves items behind passes the signal on, and one that goes back to sleep found
fewer items than anyone needs.

`SlicesExact` is proved in the same module, for every queue and all arguments. What
`extract` hands out are the items at an interval of positions, with both ends brought into
the queue, and what it leaves are the others (`ExtractCuts`); `insert` moves what is behind the
position by the length of the list (`InsertMoves`). The proof takes the sequences apart by
position and counts positions as cardinalities of intervals. `FromTheHead` and `PeekIsOfOne`
are the clauses about `dequeue_nb` and `peek`.

## The module TxnStorage

`DBIx/Class/Storage.pm`, `Storage/DBI.pm` and `Storage/TxnScopeGuard.pm`: one process that
opens `txn_do` blocks and scope guards within each other.

| in the model | in the code |
|---|---|
| `db.dbh`, `db.gen` | `_dbh`: none, one of this process, or the parent's; which handle it is, for the weak references of the guards |
| `db.depth`, `db.savepoints` | `transaction_depth`, `savepoints` |
| `db.sessions`, `db.table` | what the server holds for the two connections, and what is committed (external) |
| `frames`, `raised` | the blocks and guards the code is in, and whether an exception passes |
| `auto_savepoint` | the connect option |

A method of the storage is an operator that takes the state and returns the state and
whether it threw, so that the order of statement and count inside a method is that of the
code: the depth goes down after `COMMIT` and before `RELEASE`. `TxnDo`, `TxnDoReturn`,
`TxnDoCatch`, `GuardNew`, `GuardCommit` and `GuardDestroy` are what a block or guard does;
between them the application writes, throws, catches, calls the storage by hand, loses its
connection, or forks (the model follows the child). `undone` and `units` remember what
was written where, for the properties.

| run | instance | shows |
|---|---|---|
| `txn` | nesting of 3, 2 rows, 2 faults (explicit calls, losses, lost answers of COMMIT, a fork), with and without `auto_savepoint` | whole or nothing, what was undone stays out, depth and savepoints agree, the parent's session is left alone |
| `txn_refused` (violation) | one block, a COMMIT that the database refuses | the block returns and its rows are not there |

Three levels are an outermost block, one within it and one more to see a rollback stop
half way; two rows are one before and one after; two faults let a second one meet the
recovery from the first. The properties are of code that leaves the storage to blocks and
guards where they say so (`plain`); explicit calls in the midst are there for types, savepoints
and the session of the parent. Deadlock is not checked: the application may have nothing
left to do.

The disagreement of `txn_refused` is with Storage.pm:129-131: "Executes $coderef [...]
atomically, returning its result (if any). If an exception is caught, a rollback is issued
and the exception is rethrown." The commit is in a `finally` block (Storage.pm:245-258),
which Try::Tiny runs in a destructor: an exception from `COMMIT` ends there, as a
warning, and the depth stays at 1, so that later blocks commit nothing.

Observations without a run:

* `dbh`, called in a transaction after the connection was lost, reconnects and sets the depth
  to 0: what follows in the block is committed row by row. `dbh_do` does not.
* A savepoint set by hand in a nested block under `auto_savepoint` is what the block's
  rollback goes back to, and not the block's own.
* A `SAVEPOINT` that fails on a live connection makes the nested `txn_do` roll back once for
  a level it has not opened.
* `disconnect` does not call `_verify_pid` and keeps the depth; `_populate_dbh` keeps the
  savepoints; a guard whose rollback fails leaves the depth at 1 on a dead handle.
* `svp_release` with a name that is not on the stack never ends its loop.
* `_seems_connected` asks the Active flag of the handle: a session that the server has
  closed is noticed by the next statement, which is how the model has it.

### Proofs (`TxnStorageProofs`, `TxnAtomicityProofs`)

For any bounds, any answers of COMMIT and any nesting: `TypeOK` (above all, the depth is
never below zero) and `ParentUntouched`. The type is inductive as it stands; the argument
follows the module's layers. Lemmas say what an update of one field of the storage
keeps; `Sent` says of each statement that it returns or throws with the storage's own
fields as they were and, when the handle is not the parent's, the parent's session too;
`Good` says the same, but for the depth, of each method of the storage, which has looked
first (`VerifyKeeps`). `GoodAfter` chains them, and each action is a chain. A savepoint is found
again because a set of numbers with a bound has a largest one (`Largest`, from the
well-foundedness of the naturals).

`TxnAtomicityProofs` goes on with the four properties of blocks and guards. `Sane` is about
the storage alone and holds whatever COMMIT answers: a live session is in a transaction
exactly while there is a depth, savepoints are numbered by their positions, those at the
server are the last of them, and what each keeps is in the work and in every later one.
`SavepointsMatch` follows (`NamesAgree`). The other parts are proved where the server does not
refuse a COMMIT and keep the transaction (`NoRefusal`, which the run `txnstorage` has, too):
after a refused COMMIT the depth stays at 1 and they are not true, as `txn_refused` shows.

* `Balanced`: the depth is no more than the levels that the open frames account for, each
  block the one it was opened at and each guard one if it was made with this handle,
  whatever was called in them. So there is no depth where there is no frame.
* `Whole`: for frames in which nothing but writes, blocks and guards has happened
  (`plain`). On a live session they are its levels, their rows are its work, a mark
  keeps what was written before its frame was opened, and nothing of it is in the table
  (`AtWork`). Without the session their rows are lost, but for those of a guard whose COMMIT
  was done and not answered (`CutOff`). `Alike` says that all frames are plain or none is.
* `Settled`: what is over is in the table as a whole, or can not get there any more, being
  neither there nor in the session's work; what was undone is in neither.

`NeverAPart`, `UndoneStaysOut` and `DepthIsNesting` follow (`AllOrNothing`, `UndoneForGood`,
`DepthCounts`). No statement about the table alone would be kept by COMMIT: it moves the
session's work there, so that the invariant has to say what that work is, and hence at which depth
it is committed, and what each mark goes back to.

Not modelled: AutoCommit off, savepoints with names of their own, what is done on connect
and disconnect.

## The module DbiHandles

`DBIXS.h`, `Driver.xst` (from which each driver's XS is made) and what `DBI.pm` says of
them: one database handle, its statement handles, and a fork.

| in the model | in the code |
|---|---|
| `attrs` | `AutoInactiveDestroy` and `AutoCommit` as given to `connect` |
| `proc[p].flags`, `.kids`, `.active_kids` | `DBIc_FLAGS`, `DBIc_KIDS`, `DBIc_ACTIVE_KIDS` of the copy of process `p` |
| `proc[p].set`, `.dirty` | handles that are set up; `PL_dirty` |
| `session` | the server's side (external): open, cursors, work pending; and two marks, for a statement sent when it was closed and for a disconnect with work pending |

The operators `ACTIVE_on`, `ACTIVE_off`, `DBIc_on`, `DBIc_off` and `INHERITMASK` are the
macros; the actions are the methods of Driver.xst. `SetUp`, `ClearCom` and `Dispatched` are
in DBI.xs, whose source is not in the repository. The application works in the parent; the
child, when there is one, destroys its copies, with `InactiveDestroy` set on them or not.
`Disconnect` is called when nothing is pending: what a database does with pending work
then is not defined (DBI.pm says so). `Finish` and `DestroySth` of the model ask both
`Active` flags, as Driver.xst does.

The run `dbi` has 3 statement handles, with both attributes on and off. Three make counts
differ from "one" and "all", and let one be destroyed, one active and one not. The
properties about the session hold where no child interferes or where `AutoInactiveDestroy` was
given (`Sheltered`); without it the child's `DESTROY` does end the session, which is what the
attribute is for. Deadlock is not checked: both processes end.

### Proofs (`DbiHandlesProofs`)

For any finite set of statement handles: type correctness and all five properties.
`KidsExact` needs that counts are taken over finite sets and that the flag changes exactly
where a count does (`Counted`, per process). The session's properties need that a
`Sheltered` session is backed by the parent's flags alone (`Backed`): that every handle
inherits `AIADESTROY` (`Marked`), so that no step of the child reaches the session
(`ChildIsHarmless`).

## The module Contexts

The macros of `cop.h` with those of `scope.h` and `pad.h` they use: what runs when Perl code
calls, evals, loops, is called back from C, and is left in one of five ways.

| in the model | in the code |
|---|---|
| `pl.cxs` | the contexts of all the stacks, `si_cxstack` of each up to its `si_cxix`, in the order they were pushed |
| `pl.si` | `PL_curstackinfo` and its `si_prev`: for each stack how many contexts lie on the stacks below it. `cxbase` is the last, where `cxstack` begins |
| `pl.scopestack`, `pl.savestack` | `PL_scopestack`, `PL_savestack` (the two kinds of entries that subs need) |
| `pl.top_env` | the chain of `PL_top_env`, with `je_mustcatch` of each |
| `pl.comppad`, `pl.defav`, `pl.in_eval` | `PL_comppad`, `GvAV(PL_defgv)`, `PL_in_eval` |
| `pl.CvDEPTH`, `pl.refcnt`, `pl.padlist` | `CvDEPTH`, `SvREFCNT`, the number of pads made |
| `c_stack` | the C functions that are running ops or calling back, with the `oldcatch` each keeps in a local variable |

The macros are operators with their names; the ops that use them (`entersub`, `leavesub`,
`return`, `entertry` with `docatch`, `last`, `die`, `exit`) and `call_sv` are compiled into
the interpreter and modelled from how the macros are used there, as external. `Forget`
takes away the last reference to a sub from outside, also while it runs.

The run `contexts` has 2 subs (recursion, and one calling the other), up to 4 contexts, 4 C
functions and 6 scopes: an eval in a sub called back from a sub in an eval is inside of
these bounds, with a `die` that crosses the callback. `MaxScopes` is needed since a `return`
out of a loop in a lightweight callback leaves the loop's scopes open until
`POP_MULTICALL`, so that a callback that is called again and again piles them up; they are
all closed by its `LEAVE`. Deadlock is not checked: the program ends.

Not modelled: temporaries, the argument and mark stacks, `PL_curcop`, `PL_curpm` and `PL_op`,
call_sv with `G_EVAL`, string `eval` and `require`, formats, substitutions, `given`/`when`, and
`sort` with its own frame.

### Proofs (`ContextsProofs`)

For any set of subs, finite or not, and any bounds: type correctness and all six properties
of the run. The inductive invariant `IInv` has four parts.

* `Books` is about contexts alone. Depths, `@_`, `PL_in_eval` and references are those of
  the contexts on the stacks, and each context remembers what they were without it. The
  loops of `dounwind` and `leave_scope` pop contexts and saves one by one, with counts that
  are off until the loop's caller has finished; `Books` is what each turn of them keeps, so
  that it says what the whole loop does.
* `Saved` is about scopes. The scope that a context was pushed in (`oldscopesp`) begins
  where the saves of the contexts below it end, so that leaving it restores the pad of the
  sub below and frees what the context's own sub had saved, and no more. It says which value
  lies where on the save stack.
* `Stacks` says that the first context of a callback's stack is that callback's sub, and that
  `call_sv` has one more scope under it, which its `LEAVE` at the end leaves.
* `Levels` pairs the C functions with stacks and environments: an environment for each that has a
  run loop, with `je_mustcatch` set exactly while a callback is right above it; a stack for
  each that has none; and for each eval the run loop, the environment and the stack it
  belongs to. With the order of evals (`LoopedAt`: the one further out has the loop further
  out) it says that what a `die` jumps over is what the eval was entered after.

None of the properties is inductive alone. `DepthIsFrames` needs the depth each context
remembers, `EvalResumesInItsLoop` after a `die` needs the order of evals, and
`PadAndArgsAreCurrent` after a `last` needs all of `Saved`.

The loops (`LEAVE_SCOPE`, `dounwind`, `POPSTACK_TO`) are functions over the indexes they count
down. That such a function exists and is what its equation says is proved once for each,
from lemma `Down`: what holds at the end of a loop and goes on from each turn to the next
holds at its beginning, which follows from the least element of a set of numbers. This
replaces the induction theorems, which no prover here can instantiate. The rest is one lemma per
operator and one per action. Before it was proved, TLC checked `IInv` in all states of the
bounds of the run `contexts`. Nothing is assumed beyond `ContextsAssumption`. Nothing about
`Contexts` is left to TLC alone, except that its bounds reach every action.

## How the models meet

Each module is a layer that the one above it uses by its promise. `AcceptLock` is the lock
that the children of `PreFork` and `PreForkSimple` take in `accept`, there one step;
`Turn` is its abstraction, which it is shown to implement. `TxnStorage` takes from
`DbiHandles` that a handle inherited by a fork does not end the session when it is dropped
(`_verify_pid` sets `InactiveDestroy` on the database handle; on the statement handles that
are still around it relies on `AutoInactiveDestroy`). `PreFork` forks from within an
application that has such handles. `Contexts` is what lets a `die` in a signal handler,
in a `DESTROY` or in a transaction block reach its eval.

## Not modelled

* Configuration, binding, logging and the protocols of Net::Server; `Fork`, `Multiplex`,
  `Daemonize`; Starman.
* The restart of `PreFork` by HUP; a failing `fork` of a dequeue process.
* `Storage::DBI::Replicated`, the rest of DBIx::Class, the rest of DBI.
* TAP, LWP, Tie::File, FileCache, Memoize, CPAN: sequential code of one process around files
  and sockets.
* The object and data libraries, Plack, Dancer and Dwimmer: no state that several actors share.
* `sqlite3.c`: the source of another project, vendored whole.
* The interpreter itself, of which there is no source here. Of its headers (57,000 lines of
  C headers in all) most are declarations (`proto.h`, `iperlsys.h`), names (`embed.h`,
  `embedvar.h`), the results of configuration (`config.h`, `uconfig.h`), tables (`opcode.h`,
  `regnodes.h`) or compatibility layers (`dbipport.h`): they have no behaviour to model.
  The macros with behaviour that are not in `Contexts` or `DbiHandles` are accessors of single
  fields (`sv.h`, `hv.h`, `av.h`) and character classes.
