------------------------------ MODULE Contexts ------------------------------
(***************************************************************************)
(* The context stacks of the interpreter, as the macros of cop.h keep      *)
(* them: the frames of subs, evals and loops, the scopes and what they     *)
(* restore, the stacks that a callback from C runs on, and the chain of    *)
(* jump environments a die is thrown along.  The ops that use the macros   *)
(* are compiled into the interpreter and are modelled from that use.       *)
(***************************************************************************)
EXTENDS Integers, Sequences, SequencesExt, FiniteSets

CONSTANTS
  Cvs,           \* subs
  MaxContexts,   \* bound: contexts on all stacks together
  MaxLevels,     \* bound: C functions that run ops or call back
  MaxScopes      \* bound: scopes that are open

ASSUME ContextsAssumption == {MaxContexts, MaxLevels, MaxScopes} \subseteq Nat \ {0}

VARIABLES
  pl,      \* the interpreter: the PL_ variables, and the fields of its CVs
  c_stack  \* the C functions that are running ops or calling back

vars == <<pl, c_stack>>

Main == <<"main", 1>>    \* the pad, and the arguments, of the main program

-----------------------------------------------------------------------------
(***************************************************************************)
(* Scopes: what is saved since ENTER is restored, last saved first.        *)
(***************************************************************************)
ENTER(p) == [p EXCEPT !.scopestack = Append(@, Len(p.savestack))]

SAVEFREESV(p, cv) == [p EXCEPT !.savestack = Append(@, [save |-> "FREESV", what |-> cv])]

SAVECOMPPAD(p) == [p EXCEPT !.savestack = Append(@, [save |-> "COMPPAD", what |-> p.comppad])]

SvREFCNT_dec(p, cv) == [p EXCEPT !.refcnt[cv] = @ - 1]

\* The last saved value is restored.
Restored(p) ==
  LET entry == Last(p.savestack)
      q == CASE entry.save = "FREESV"  -> SvREFCNT_dec(p, entry.what)
             [] entry.save = "COMPPAD" -> [p EXCEPT !.comppad = entry.what]
  IN  [q EXCEPT !.savestack = Front(@)]

LEAVE_SCOPE(p, old) ==
  LET left[n \in old .. Len(p.savestack)] ==
        IF n = Len(p.savestack) THEN p ELSE Restored(left[n + 1])
  IN  left[old]

LEAVE(p) == [LEAVE_SCOPE(p, Last(p.scopestack)) EXCEPT !.scopestack = Front(@)]

-----------------------------------------------------------------------------
(***************************************************************************)
(* Jump environments.  CATCH_GET: an eval must set up one of its own.      *)
(***************************************************************************)
CATCH_GET(p) == Last(p.top_env)

CATCH_SET(p, v) == [p EXCEPT !.top_env[Len(p.top_env)] = v]

JMPENV_PUSH(p) == [p EXCEPT !.top_env = Append(@, FALSE)]

JMPENV_POP(p) == [p EXCEPT !.top_env = Front(@)]

\* Mutant: what follows setjmp is not done again as a jump arrives.
JMPENV_JUMP_kept(p, e) == [p EXCEPT !.top_env = SubSeq(@, 1, e)]

\* The jump arrives where environment e was pushed: those above were popped on the way,
\* and JMPENV_PUSH goes on after its setjmp, as when it pushed.
JMPENV_JUMP(p, e) == [p EXCEPT !.top_env = Append(SubSeq(@, 1, e - 1), FALSE)]

-----------------------------------------------------------------------------
(***************************************************************************)
(* Contexts.  Those of all the stacks are one sequence, cxs, and si has    *)
(* for each stack the number of contexts on the stacks below it: the       *)
(* current stack, cxstack, is what is above cxbase.                        *)
(***************************************************************************)
cxbase(p) == Last(p.si)

PUSHBLOCK(p, cx) ==
  [p EXCEPT !.cxs = Append(@, [oldscopesp |-> Len(p.scopestack), cx |-> cx])]

POPBLOCK(p) ==
  [p EXCEPT !.cxs = Front(@), !.scopestack = SubSeq(@, 1, Last(p.cxs).oldscopesp)]

\* Mutant: one reference, the one that LEAVE frees.
PUSHSUB_once(p, cv) ==
  IF p.CvDEPTH[cv] = 0 THEN SAVEFREESV([p EXCEPT !.refcnt[cv] = @ + 1], cv) ELSE p

\* The sub is held twice from its first call on: once by LEAVESUB, once by LEAVE.
PUSHSUB(p, cv) ==
  IF p.CvDEPTH[cv] = 0 THEN SAVEFREESV([p EXCEPT !.refcnt[cv] = @ + 2], cv) ELSE p

LEAVESUB(p, cx) == IF cx.olddepth = 0 THEN SvREFCNT_dec(p, cx.cv) ELSE p

\* Mutant: @_ is not given back.
POPSUB_args(p, cx) == [p EXCEPT !.CvDEPTH[cx.cv] = cx.olddepth]

POPSUB(p, cx) ==
  [p EXCEPT !.CvDEPTH[cx.cv] = cx.olddepth,
            !.defav = IF cx.hasargs THEN cx.savearray ELSE @]

SubContext(p, cv, hasargs) ==
  [type |-> "SUB", multicall |-> ~hasargs, hasargs |-> hasargs, cv |-> cv,
   olddepth |-> p.CvDEPTH[cv], savearray |-> p.defav]

\* The pad for a depth is made once, and used again.
pad_push(p, cv) ==
  [p EXCEPT !.padlist[cv] = IF p.CvDEPTH[cv] > @ THEN p.CvDEPTH[cv] ELSE @]

\* One deeper into the sub, with the pad of that depth.
Deeper(p, cv) ==
  LET deeper == [p EXCEPT !.CvDEPTH[cv] = @ + 1]
      padded == IF deeper.CvDEPTH[cv] >= 2 THEN pad_push(deeper, cv) ELSE deeper
  IN  [SAVECOMPPAD(padded) EXCEPT !.comppad = <<cv, deeper.CvDEPTH[cv]>>]

\* Mutant: as if no eval were ever inside another.
POPEVAL_off(p, cx) == [p EXCEPT !.in_eval = FALSE]

POPEVAL(p, cx) == [p EXCEPT !.in_eval = cx.old_in_eval]

\* dounwind, for the last context.
Unwound(p) ==
  LET cx == Last(p.cxs).cx
      q  == CASE cx.type = "SUB"  -> LEAVESUB(POPSUB(p, cx), cx)
              [] cx.type = "EVAL" -> POPEVAL(p, cx)
              [] cx.type = "LOOP" -> p
  IN  [q EXCEPT !.cxs = Front(@)]

dounwind(p, cxix) ==
  LET left[i \in cxix .. Len(p.cxs)] ==
        IF i = Len(p.cxs) THEN p ELSE Unwound(left[i + 1])
  IN  left[cxix]

PUSHSTACKi(p) == [p EXCEPT !.si = Append(@, Len(p.cxs))]

POPSTACK(p) == [p EXCEPT !.cxs = SubSeq(@, 1, cxbase(p)), !.si = Front(@)]

\* Mutant: the contexts of the stacks are not unwound.
POPSTACK_TO_bare(p, n) ==
  IF n = Len(p.si) THEN p
  ELSE [p EXCEPT !.cxs = SubSeq(@, 1, p.si[n + 1]), !.si = SubSeq(@, 1, n)]

\* Down to the n-th stack, every context unwound.
POPSTACK_TO(p, n) ==
  LET left[k \in n .. Len(p.si)] ==
        IF k = Len(p.si) THEN p ELSE POPSTACK(dounwind(left[k + 1], cxbase(left[k + 1])))
  IN  left[n]

-----------------------------------------------------------------------------
(***************************************************************************)
(* The C functions.  "run" is perl_run, "docatch" the run loop an eval     *)
(* starts to have an environment: they have one each, above PL_start_env.  *)
(* "call" is call_sv on a stack of its own, "multicall" an XS function     *)
(* between PUSH_MULTICALL and POP_MULTICALL: they have none, and made      *)
(* CATCH_SET(TRUE) on the one below.                                       *)
(***************************************************************************)
HasEnv(frame) == frame.kind \in {"run", "docatch"}

\* The index of the environment of the i-th C function, or of the one it runs under.
EnvAt(i) == 1 + Cardinality({j \in 1 .. i : HasEnv(c_stack[j])})

FrameOf(e) == CHOOSE i \in DOMAIN c_stack : HasEnv(c_stack[i]) /\ EnvAt(i) = e

Running == c_stack # <<>> /\ Last(c_stack).running

Room == Len(pl.cxs) < MaxContexts /\ Len(pl.scopestack) < MaxScopes

RoomAbove == Room /\ Len(c_stack) < MaxLevels

\* The last context of the stack that is no loop: the one a return is from.  The program's
\* end is not modelled as a return; a callback's own sub is the first context of its stack.
Innermost ==
  Max({cxbase(pl)} \cup {i \in cxbase(pl) + 1 .. Len(pl.cxs) : pl.cxs[i].cx.type # "LOOP"})

OwnSub == Innermost = cxbase(pl) + 1 /\ Len(pl.si) > 1

Frame(kind) == [kind |-> kind, running |-> TRUE, oldcatch |-> CATCH_GET(pl)]

\* The ops of a callback have ended: with the run loop of every eval in it.
CalledBack == Max({i \in DOMAIN c_stack : ~HasEnv(c_stack[i])})

Caught(p) == [p EXCEPT !.top_env = SubSeq(@, 1, EnvAt(CalledBack))]

-----------------------------------------------------------------------------
\* entersub: the sub that has a name, or runs, is called.
entersub(p, cv) ==
  LET q == PUSHSUB(PUSHBLOCK(ENTER(p), SubContext(p, cv, TRUE)), cv)
      r == Deeper(q, cv)
  IN  [r EXCEPT !.defav = r.comppad]

EnterSub(cv) ==
  /\ Running /\ Room /\ pl.refcnt[cv] > 0
  /\ pl' = entersub(pl, cv)
  /\ UNCHANGED c_stack

\* The sub's context, popped: leavesub.
leavesub(p) ==
  LET cx == Last(p.cxs).cx
      q  == LEAVE(POPBLOCK(p))
  IN  LEAVESUB(POPSUB(q, cx), cx)

\* return, or the end of the sub; loops in it are left.
LeaveSub ==
  /\ Running /\ Innermost > cxbase(pl) /\ ~OwnSub
  /\ LET cx == pl.cxs[Innermost].cx
     IN  cx.type = "SUB" /\ ~cx.multicall
  /\ pl' = leavesub(dounwind(pl, Innermost))
  /\ UNCHANGED c_stack

\* call_sv from C, on a stack of its own: magic, a handler, a DESTROY.
CallSv(cv) ==
  /\ Running /\ RoomAbove /\ pl.refcnt[cv] > 0
  /\ pl' = entersub(CATCH_SET(PUSHSTACKi(ENTER(pl)), TRUE), cv)
  /\ c_stack' = Append(c_stack, Frame("call"))

\* Its sub returns, and call_sv to its caller.
CallReturns ==
  /\ Running /\ OwnSub /\ ~pl.cxs[Innermost].cx.multicall
  /\ LET left == Caught(leavesub(dounwind(pl, Innermost)))
     IN  pl' = LEAVE(POPSTACK(CATCH_SET(left, c_stack[CalledBack].oldcatch)))
  /\ c_stack' = SubSeq(c_stack, 1, CalledBack - 1)

\* Mutant: the environment is not told that an eval must set up its own.
PUSH_MULTICALL_uncaught(cv) ==
  /\ Running /\ RoomAbove /\ pl.refcnt[cv] > 0
  /\ LET p == PUSHSTACKi(ENTER(pl))
     IN  pl' = Deeper(PUSHSUB(PUSHBLOCK(p, SubContext(p, cv, FALSE)), cv), cv)
  /\ c_stack' = Append(c_stack, [Frame("multicall") EXCEPT !.running = FALSE])

PUSH_MULTICALL(cv) ==
  /\ Running /\ RoomAbove /\ pl.refcnt[cv] > 0
  /\ LET p == PUSHSTACKi(CATCH_SET(ENTER(pl), TRUE))
     IN  pl' = Deeper(PUSHSUB(PUSHBLOCK(p, SubContext(p, cv, FALSE)), cv), cv)
  /\ c_stack' = Append(c_stack, [Frame("multicall") EXCEPT !.running = FALSE])

InC == c_stack # <<>> /\ ~Last(c_stack).running

MULTICALL ==
  /\ InC
  /\ c_stack' = [c_stack EXCEPT ![Len(c_stack)].running = TRUE]
  /\ UNCHANGED pl

\* The end of the sub, or a return in it: its context stays.
MulticallReturns ==
  /\ Running /\ OwnSub /\ pl.cxs[Innermost].cx.multicall
  /\ pl' = Caught(dounwind(pl, Innermost))
  /\ c_stack' = [SubSeq(c_stack, 1, CalledBack) EXCEPT ![CalledBack].running = FALSE]

POP_MULTICALL ==
  /\ InC
  /\ LET cx   == Last(pl.cxs).cx
         less == [pl EXCEPT !.CvDEPTH[cx.cv] = @ - 1]
         left == IF less.CvDEPTH[cx.cv] = 0 THEN SvREFCNT_dec(less, cx.cv) ELSE less
     IN  pl' = LEAVE(CATCH_SET(POPSTACK(POPBLOCK(left)), Last(c_stack).oldcatch))
  /\ c_stack' = Front(c_stack)

-----------------------------------------------------------------------------
\* entertry: the context is pushed first, and told of its environment by docatch.
EnterTry ==
  /\ Running
  /\ IF CATCH_GET(pl) THEN RoomAbove ELSE Room
  /\ LET p  == IF CATCH_GET(pl) THEN JMPENV_PUSH(pl) ELSE pl
         cx == [type |-> "EVAL", old_in_eval |-> pl.in_eval, cur_top_env |-> Len(p.top_env),
                loop |-> IF CATCH_GET(pl) THEN Len(c_stack) + 1 ELSE Len(c_stack)]
     IN  pl' = [PUSHBLOCK(ENTER(p), cx) EXCEPT !.in_eval = TRUE]
  /\ c_stack' = IF CATCH_GET(pl) THEN Append(c_stack, Frame("docatch")) ELSE c_stack

\* leavetry, or a return in the eval; loops in it are left.
LeaveTry ==
  /\ Running /\ Innermost > cxbase(pl)
  /\ pl.cxs[Innermost].cx.type = "EVAL"
  /\ LET p == dounwind(pl, Innermost)
     IN  pl' = LEAVE(POPEVAL(POPBLOCK(p), Last(p.cxs).cx))
  /\ UNCHANGED c_stack

EnterLoop ==
  /\ Running /\ Room
  /\ pl' = PUSHBLOCK(ENTER(pl), [type |-> "LOOP"])
  /\ UNCHANGED c_stack

\* last, out of whatever is within the loop, subs and evals too, on this stack.
LastOut(i) ==
  /\ Running /\ i \in cxbase(pl) + 1 .. Len(pl.cxs)
  /\ pl.cxs[i].cx.type = "LOOP"
  /\ pl' = LEAVE(POPBLOCK(dounwind(pl, i)))
  /\ UNCHANGED c_stack

Evals == {i \in DOMAIN pl.cxs : pl.cxs[i].cx.type = "EVAL"}

\* die, in an op or in the C code that calls back: to the last eval of all the stacks, as
\* dopoptoeval finds it on one after the other, in the run loop it is in.
Die ==
  /\ c_stack # <<>> /\ pl.in_eval
  /\ LET e  == Max(Evals)
         n  == Max({k \in DOMAIN pl.si : pl.si[k] < e})
         p  == dounwind(POPSTACK_TO(pl, n), e)
         cx == Last(p.cxs).cx
     IN  /\ pl' = JMPENV_JUMP(LEAVE(POPEVAL(POPBLOCK(p), cx)), cx.cur_top_env)
         /\ c_stack' = SubSeq(c_stack, 1, FrameOf(cx.cur_top_env))

\* exit, or die outside of every eval: my_exit_jump, to the end of perl_run.
Exit ==
  /\ c_stack # <<>>
  /\ LET p == LEAVE_SCOPE(dounwind(POPSTACK_TO(pl, 1), 0), 0)
     IN  pl' = [JMPENV_POP(JMPENV_JUMP(p, 2)) EXCEPT !.scopestack = <<>>]
  /\ c_stack' = <<>>

\* The last reference to the sub from outside is gone, though it may be running.
Forget(cv) ==
  /\ Running /\ pl.named[cv]
  /\ pl' = [SvREFCNT_dec(pl, cv) EXCEPT !.named[cv] = FALSE]
  /\ UNCHANGED c_stack

-----------------------------------------------------------------------------
\* JMPENV_BOOTSTRAP, and perl_run with the program in its run loop.
Init ==
  /\ pl = [cxs |-> <<>>, si |-> <<0>>, savestack |-> <<>>, scopestack |-> <<>>,
           top_env |-> <<TRUE, FALSE>>, in_eval |-> FALSE,
           comppad |-> Main, defav |-> Main,
           CvDEPTH |-> [cv \in Cvs |-> 0], refcnt |-> [cv \in Cvs |-> 1],
           padlist |-> [cv \in Cvs |-> 1], named |-> [cv \in Cvs |-> TRUE]]
  /\ c_stack = <<[kind |-> "run", running |-> TRUE, oldcatch |-> TRUE]>>

Next ==
  \/ \E cv \in Cvs : EnterSub(cv) \/ CallSv(cv) \/ PUSH_MULTICALL(cv) \/ Forget(cv)
  \/ LeaveSub \/ CallReturns \/ MULTICALL \/ MulticallReturns \/ POP_MULTICALL
  \/ EnterTry \/ LeaveTry \/ EnterLoop
  \/ \E i \in 1 .. MaxContexts : LastOut(i)
  \/ Die \/ Exit

Spec == Init /\ [][Next]_vars

-----------------------------------------------------------------------------
Pads == {Main} \cup (Cvs \X Nat)

Blocks ==
  [oldscopesp : Nat,
   cx : [type : {"SUB"}, multicall : BOOLEAN, hasargs : BOOLEAN, cv : Cvs, olddepth : Nat,
         savearray : Pads]
        \cup [type : {"EVAL"}, old_in_eval : BOOLEAN, cur_top_env : Nat, loop : Nat]
        \cup [type : {"LOOP"}]]

Saves == [save : {"FREESV"}, what : Cvs] \cup [save : {"COMPPAD"}, what : Pads]

\* Every variable keeps its type: no scope or stack is popped that was not pushed, the
\* save stack is never shorter than an open scope says, no reference count or depth is
\* below zero.
TypeOK ==
  /\ pl \in [cxs : Seq(Blocks), si : Seq(Nat), savestack : Seq(Saves), scopestack : Seq(Nat),
             top_env : Seq(BOOLEAN), in_eval : BOOLEAN, comppad : Pads, defav : Pads,
             CvDEPTH : [Cvs -> Nat], refcnt : [Cvs -> Nat], padlist : [Cvs -> Nat],
             named : [Cvs -> BOOLEAN]]
  /\ pl.si # <<>> /\ \A k \in DOMAIN pl.si : pl.si[k] <= Len(pl.cxs)
  /\ \A i \in DOMAIN pl.cxs : pl.cxs[i].oldscopesp \in 1 .. Len(pl.scopestack)
  /\ \A i \in DOMAIN pl.scopestack : pl.scopestack[i] <= Len(pl.savestack)
  /\ c_stack \in Seq([kind : {"run", "docatch", "call", "multicall"},
                      running : BOOLEAN, oldcatch : BOOLEAN])

Subs == {i \in DOMAIN pl.cxs : pl.cxs[i].cx.type = "SUB"}

Frames(cv) == {i \in Subs : pl.cxs[i].cx.cv = cv}

\* cop.h, PUSHSUB and POPSUB: the depth of a sub is the number of its frames, on all the
\* stacks, after every die and last that unwound some of them.
DepthIsFrames == \A cv \in Cvs : pl.CvDEPTH[cv] = Cardinality(Frames(cv))

FreesOf(cv) ==
  {i \in DOMAIN pl.savestack : pl.savestack[i] = [save |-> "FREESV", what |-> cv]}

\* cop.h: "the refcnt of the cv is incremented twice".  A sub is held by its name, and
\* by the first of its frames in two ways: one reference goes as that frame goes, the
\* other as its scope is left.  It is neither freed while it runs nor kept after.
RefsExact ==
  \A cv \in Cvs :
    /\ pl.refcnt[cv] = (IF pl.named[cv] THEN 1 ELSE 0)
                       + (IF Frames(cv) # {} THEN 1 ELSE 0) + Cardinality(FreesOf(cv))
    /\ Frames(cv) # {} => pl.refcnt[cv] >= 2

\* The pad of the i-th context, a sub's: by which one of the sub's frames it is.
PadOf(i) == <<pl.cxs[i].cx.cv, pl.cxs[i].cx.olddepth + 1>>

\* cop.h: the pad is restored by the scopes, @_ by the contexts, one after the other as a
\* die or a last unwinds: both are those of the innermost sub that has them, and the pad
\* of that depth was made.
PadAndArgsAreCurrent ==
  LET args == {i \in Subs : pl.cxs[i].cx.hasargs}
  IN  /\ pl.comppad = IF Subs = {} THEN Main ELSE PadOf(Max(Subs))
      /\ pl.defav = IF args = {} THEN Main ELSE PadOf(Max(args))
      /\ Subs # {} => pl.comppad[2] <= pl.padlist[pl.comppad[1]]

\* cop.h, cur_top_env: the environment that an eval remembers is that of the run loop it
\* is executed by, so that a die into it goes on in that loop, and no C function that
\* still has the eval's sub to finish is jumped over.
EvalResumesInItsLoop ==
  \A i \in Evals :
    LET cx == pl.cxs[i].cx
    IN  /\ cx.loop \in DOMAIN c_stack /\ HasEnv(c_stack[cx.loop])
        /\ EnvAt(cx.loop) = cx.cur_top_env

\* cop.h: "Care must be taken to restore the previous value of je_mustcatch": an
\* environment makes evals set up their own exactly while a callback runs under it,
\* after a die that jumped over the end of one too.
MustCatchInCallback ==
  c_stack # <<>> =>
    /\ Len(pl.top_env) = EnvAt(Len(c_stack))
    /\ \A i \in DOMAIN c_stack : HasEnv(c_stack[i]) =>
         pl.top_env[EnvAt(i)] = (i < Len(c_stack) /\ ~HasEnv(c_stack[i + 1]))

\* cop.h: there is a stack per callback, and a die unwinds those of the callbacks it
\* ends.  PL_in_eval says if there is an eval on any of them.
StacksMatchCallbacks ==
  /\ Len(pl.si) = 1 + Cardinality({i \in DOMAIN c_stack : ~HasEnv(c_stack[i])})
  /\ pl.in_eval = (Evals # {})
=============================================================================
