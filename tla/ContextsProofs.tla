---------------------------- MODULE ContextsProofs ----------------------------
(***************************************************************************)
(* Proofs about Contexts, for any set of subs and any bounds: whatever way *)
(* control leaves a sub, an eval, a loop or a callback, what is left is as *)
(* it was before that was entered.                                         *)
(*                                                                         *)
(* The argument is an invariant in four parts.  Books is about contexts   *)
(* alone: depths, arguments, PL_in_eval and references are those of the    *)
(* contexts on the stacks, and each context remembers what they were       *)
(* without it.  It is kept by each turn of the loops of dounwind and       *)
(* leave_scope, so that it says what they do.  Saved is about the scopes:  *)
(* each context's own scope is where the saves of the contexts above it    *)
(* begin.  Stacks and Levels are about callbacks: which stack and which    *)
(* jump environment belong to each, and that an eval knows its own.        *)
(***************************************************************************)
EXTENDS Contexts, WellFoundedInduction, SequenceTheorems, FiniteSetTheorems, TLAPS

\* The interpreter in the midst of a step, where a count may be off.
State ==
  [cxs : Seq(Blocks), si : Seq(Nat), savestack : Seq(Saves), scopestack : Seq(Nat),
   top_env : Seq(BOOLEAN), in_eval : BOOLEAN, comppad : Pads, defav : Pads,
   CvDEPTH : [Cvs -> Int], refcnt : [Cvs -> Int], padlist : [Cvs -> Nat],
   named : [Cvs -> BOOLEAN]]

\* Among the first k contexts of B: the subs, those with arguments, the frames of one sub,
\* the first frames, the evals.
SubsTo(B, k)       == {i \in 1 .. k : B[i].cx.type = "SUB"}
ArgsTo(B, k)       == {i \in SubsTo(B, k) : B[i].cx.hasargs}
FramesTo(B, cv, k) == {i \in SubsTo(B, k) : B[i].cx.cv = cv}
FirstsTo(B, k)     == {i \in SubsTo(B, k) : B[i].cx.olddepth = 0}
EvalsTo(B, k)      == {i \in 1 .. k : B[i].cx.type = "EVAL"}

\* The pad of the last of some subs, or the program's.
PadIn(B, S) == IF S = {} THEN Main ELSE <<B[Max(S)].cx.cv, B[Max(S)].cx.olddepth + 1>>

\* How many values the first k contexts have saved.
SavesTo(B, k) == Cardinality(SubsTo(B, k)) + Cardinality(FirstsTo(B, k))

\* A context remembers what was the case without it.
Remembered(B, i) ==
  /\ B[i].cx.type = "SUB" =>
       /\ B[i].cx.olddepth = Cardinality(FramesTo(B, B[i].cx.cv, i - 1))
       /\ B[i].cx.hasargs => B[i].cx.savearray = PadIn(B, ArgsTo(B, i - 1))
  /\ B[i].cx.type = "EVAL" => B[i].cx.old_in_eval = (EvalsTo(B, i - 1) # {})

Remembers(B) == \A i \in 1 .. Len(B) : Remembered(B, i)

Frees(ss, cv) == {i \in 1 .. Len(ss) : ss[i] = [save |-> "FREESV", what |-> cv]}

\* The references to a sub, where n of its frames are left.
Refs(isnamed, n, ss, cv) ==
  (IF isnamed THEN 1 ELSE 0) + (IF n > 0 THEN 1 ELSE 0) + Cardinality(Frees(ss, cv))

Books(p) ==
  LET B == p.cxs
      n == Len(B)
  IN  /\ p \in State /\ Remembers(B)
      /\ p.defav = PadIn(B, ArgsTo(B, n)) /\ p.in_eval = (EvalsTo(B, n) # {})
      /\ \A cv \in Cvs :
           LET frames == Cardinality(FramesTo(B, cv, n))
           IN  /\ p.CvDEPTH[cv] = frames
               /\ p.refcnt[cv] = Refs(p.named[cv], frames, p.savestack, cv)

\* What the i-th context has saved is on top of what those below it have.
SavedBy(B, ss, i) ==
  LET old == SavesTo(B, i - 1)
      pad == [save |-> "COMPPAD", what |-> PadIn(B, SubsTo(B, i - 1))]
  IN  IF B[i].cx.olddepth = 0
      THEN ss[old + 1] = [save |-> "FREESV", what |-> B[i].cx.cv] /\ ss[old + 2] = pad
      ELSE ss[old + 1] = pad

\* Each context has a scope of its own that was opened right before it.
Scoped(B, sc) ==
  \A i \in 1 .. Len(B) :
    /\ B[i].oldscopesp \in 1 .. Len(sc) /\ sc[B[i].oldscopesp] = SavesTo(B, i - 1)
    /\ \A j \in 1 .. i - 1 : B[j].oldscopesp < B[i].oldscopesp

\* A callback by call_sv has one more scope, opened before its stack.
ExtraScope(B, sc, i) ==
  /\ B[i].oldscopesp >= 2 /\ sc[B[i].oldscopesp - 1] = SavesTo(B, i - 1)
  /\ \A j \in 1 .. i - 1 : B[j].oldscopesp < B[i].oldscopesp - 1

\* The sub that a callback is of is the first context of its stack.
Stacked(B, si) ==
  /\ si # <<>> /\ si[1] = 0
  /\ \A k \in 2 .. Len(si) :
       /\ si[k] < Len(B) /\ B[si[k] + 1].cx.type = "SUB"
       /\ \A l \in 1 .. k - 1 : si[l] <= si[k]
       /\ \A l \in 2 .. k - 1 : si[l] < si[k]

Saved(p) ==
  LET B  == p.cxs
      sc == p.scopestack
      ss == p.savestack
      n  == Len(B)
  IN  /\ Scoped(B, sc)
      /\ \A x \in 1 .. Len(sc) : sc[x] <= Len(ss) /\ \A y \in x .. Len(sc) : sc[x] <= sc[y]
      /\ Len(ss) = SavesTo(B, n) /\ p.comppad = PadIn(B, SubsTo(B, n))
      /\ \A cv \in Cvs : p.padlist[cv] >= 1
      /\ \A i \in SubsTo(B, n) : /\ SavedBy(B, ss, i)
                                 /\ B[i].cx.olddepth + 1 <= p.padlist[B[i].cx.cv]
                                 /\ B[i].cx.hasargs = ~B[i].cx.multicall

Stacks(p) ==
  /\ Stacked(p.cxs, p.si)
  /\ \A k \in 2 .. Len(p.si) :
       p.cxs[p.si[k] + 1].cx.multicall \/ ExtraScope(p.cxs, p.scopestack, p.si[k] + 1)

CFunctions ==
  [kind : {"run", "docatch", "call", "multicall"}, running : BOOLEAN, oldcatch : BOOLEAN]

\* How many of the first i C functions have an environment, and how many a stack.
Envs(cs, i)  == Cardinality({j \in 1 .. i : HasEnv(cs[j])})
Calls(cs, i) == Cardinality({j \in 1 .. i : ~HasEnv(cs[j])})

\* The environment of a C function makes evals set up their own while a callback is right
\* above it, and a callback remembers if the one below it was a callback.
Environed(cs, te) ==
  /\ Len(te) = 1 + Envs(cs, Len(cs))
  /\ \A i \in 1 .. Len(cs) :
       /\ HasEnv(cs[i]) => te[1 + Envs(cs, i)] = (i < Len(cs) /\ ~HasEnv(cs[i + 1]))
       /\ ~HasEnv(cs[i]) => i > 1 /\ cs[i].oldcatch = ~HasEnv(cs[i - 1])

\* An eval is run by the last run loop there was when it was entered, on the stack of the last
\* callback there was.
LoopedAt(B, si, cs, i) ==
  LET cx == B[i].cx
  IN  /\ cx.loop \in 1 .. Len(cs) /\ HasEnv(cs[cx.loop])
      /\ cx.cur_top_env = 1 + Envs(cs, cx.loop)
      /\ \A k \in 1 .. Len(si) : si[k] < i <=> k <= 1 + Calls(cs, cx.loop)
      /\ \A j \in EvalsTo(B, i) : B[j].cx.loop <= cx.loop

Looped(B, si, cs) == \A i \in EvalsTo(B, Len(B)) : LoopedAt(B, si, cs, i)

Levels(p, cs) ==
  /\ cs \in Seq(CFunctions)
  /\ IF cs = <<>> THEN p.cxs = <<>> /\ Len(p.si) = 1
     ELSE /\ HasEnv(cs[1]) /\ Len(p.si) = 1 + Calls(cs, Len(cs))
          /\ Environed(cs, p.top_env) /\ Looped(p.cxs, p.si, cs)
          /\ \A i \in 1 .. Len(cs) : i < Len(cs) \/ HasEnv(cs[i]) => cs[i].running
          /\ ~cs[Len(cs)].running =>
               /\ Len(p.cxs) = p.si[Len(p.si)] + 1 /\ p.cxs[Len(p.cxs)].cx.multicall

Inv(p, cs) == Books(p) /\ Saved(p) /\ Stacks(p) /\ Levels(p, cs)

IInv == Inv(pl, c_stack)

-----------------------------------------------------------------------------
(* Numbers, sequences, and loops that count down.                          *)

\* A set of numbers has a smallest one.
LEMMA Smallest ==
  ASSUME NEW T \in SUBSET Nat, T # {}
  PROVE  \E x \in T : \A y \in T : x <= y
<1> DEFINE R == OpToRel(<, Nat)
<1>1. \A x, y \in Nat : x < y => <<x, y>> \in R
  BY DEF OpToRel
<1>2. IsWellFoundedOn(R, Nat)
  BY NatLessThanWellFounded
<1> HIDE DEF R
<1>3. PICK x \in T : \A y \in T : ~(<<y, x>> \in R)
  BY <1>2, WFMin
<1>4. \A y \in T : ~(y < x)
  BY <1>1, <1>3
<1> QED  BY <1>4

LEMMA Within ==
  ASSUME NEW x \in Nat, NEW y \in Nat, x <= y, NEW z \in 1 .. x
  PROVE  z \in 1 .. y
OBVIOUS

\* What holds at the end of a loop that counts down, and goes on from each turn to the next,
\* holds at its beginning.
LEMMA Down ==
  ASSUME NEW m \in Int, NEW n \in Int, NEW T, n \in T,
         \A i \in m .. n - 1 : i + 1 \in T => i \in T
  PROVE  \A i \in m .. n : i \in T
<1> DEFINE D == {d \in Nat : n - d >= m /\ n - d \notin T}
<1>1. CASE D = {}
  <2> TAKE i \in m .. n
  <2> DEFINE d == n - i
  <2>1. d \in Nat /\ n - d = i /\ n - d >= m
    OBVIOUS
  <2>2. d \notin D
    BY <1>1
  <2> HIDE DEF d
  <2> QED  BY <2>1, <2>2
<1>2. CASE D # {}
  <2>1. PICK d \in D : \A e \in D : d <= e
    <3>1. D \in SUBSET Nat
      OBVIOUS
    <3> HIDE DEF D
    <3> QED  BY <1>2, <3>1, Smallest
  <2>2. d \in Nat /\ n - d >= m /\ n - d \notin T
    BY <2>1
  <2>3. d # 0
    BY <2>2
  <2>4. d - 1 \in Nat /\ d - 1 \notin D
    BY <2>1, <2>2, <2>3
  <2>5. n - (d - 1) \in T
    BY <2>2, <2>4
  <2>6. n - d \in m .. n - 1 /\ n - (d - 1) = (n - d) + 1
    BY <2>2, <2>3
  <2> QED  BY <2>2, <2>5, <2>6
<1> QED  BY <1>1, <1>2

\* The turns of leave_scope.
LEMMA LeaveScopeTurns ==
  ASSUME NEW p, NEW m \in Nat, Len(p.savestack) \in Nat, m <= Len(p.savestack)
  PROVE  \E f : /\ LEAVE_SCOPE(p, m) = f[m] /\ f[Len(p.savestack)] = p
                /\ \A k \in m .. Len(p.savestack) - 1 : f[k] = Restored(f[k + 1])
<1> DEFINE n == Len(p.savestack)
           Turns(j, f) == f = [k \in j .. n |-> IF k = n THEN p ELSE Restored(f[k + 1])]
           T == {j \in m .. n : \E f : Turns(j, f)}
           left == CHOOSE f : Turns(m, f)
<1>1. n \in T
  <2>1. Turns(n, [k \in n .. n |-> p])
    OBVIOUS
  <2>2. \E f : Turns(n, f)
    BY <2>1
  <2>3. n \in m .. n
    OBVIOUS
  <2> HIDE DEF Turns, n
  <2> QED  BY <2>2, <2>3
<1>2. \A i \in m .. n - 1 : i + 1 \in T => i \in T
  <2> SUFFICES ASSUME NEW i \in m .. n - 1, NEW f, Turns(i + 1, f)
               PROVE  \E g : Turns(i, g)
    OBVIOUS
  <2> DEFINE g == [k \in i .. n |-> IF k = i THEN Restored(f[i + 1]) ELSE f[k]]
  <2>1. \A k \in i .. n : g[k] = IF k = n THEN p ELSE Restored(g[k + 1])
    OBVIOUS
  <2>2. Turns(i, g)
    <3> HIDE DEF g
    <3>1. g = [k \in i .. n |-> g[k]]
      BY DEF g
    <3> QED  BY <2>1, <3>1
  <2> QED  BY <2>2
<1>3. m \in T
  <2>1. m \in m .. n /\ n \in Int /\ m \in Int
    OBVIOUS
  <2> HIDE DEF T
  <2> QED  BY <1>1, <1>2, <2>1, Down
<1>4. Turns(m, left)
  BY <1>3
<1>5. LEAVE_SCOPE(p, m) = left[m]
  BY DEF LEAVE_SCOPE
<1>6. \A k \in m .. n : left[k] = IF k = n THEN p ELSE Restored(left[k + 1])
  <2> HIDE DEF left
  <2> QED  BY <1>4
<1>7. left[n] = p /\ \A k \in m .. n - 1 : left[k] = Restored(left[k + 1])
  <2>1. n \in m .. n /\ \A k \in m .. n - 1 : k \in m .. n /\ k # n
    OBVIOUS
  <2> HIDE DEF left
  <2> QED  BY <1>6, <2>1
<1> QED  BY <1>5, <1>7

\* The turns of dounwind.
LEMMA UnwindTurns ==
  ASSUME NEW p, NEW m \in Nat, Len(p.cxs) \in Nat, m <= Len(p.cxs)
  PROVE  \E f : /\ dounwind(p, m) = f[m] /\ f[Len(p.cxs)] = p
                /\ \A k \in m .. Len(p.cxs) - 1 : f[k] = Unwound(f[k + 1])
<1> DEFINE n == Len(p.cxs)
           Turns(j, f) == f = [k \in j .. n |-> IF k = n THEN p ELSE Unwound(f[k + 1])]
           T == {j \in m .. n : \E f : Turns(j, f)}
           left == CHOOSE f : Turns(m, f)
<1>1. n \in T
  <2>1. Turns(n, [k \in n .. n |-> p])
    OBVIOUS
  <2>2. \E f : Turns(n, f)
    BY <2>1
  <2>3. n \in m .. n
    OBVIOUS
  <2> HIDE DEF Turns, n
  <2> QED  BY <2>2, <2>3
<1>2. \A i \in m .. n - 1 : i + 1 \in T => i \in T
  <2> SUFFICES ASSUME NEW i \in m .. n - 1, NEW f, Turns(i + 1, f)
               PROVE  \E g : Turns(i, g)
    OBVIOUS
  <2> DEFINE g == [k \in i .. n |-> IF k = i THEN Unwound(f[i + 1]) ELSE f[k]]
  <2>1. \A k \in i .. n : g[k] = IF k = n THEN p ELSE Unwound(g[k + 1])
    OBVIOUS
  <2>2. Turns(i, g)
    <3> HIDE DEF g
    <3>1. g = [k \in i .. n |-> g[k]]
      BY DEF g
    <3> QED  BY <2>1, <3>1
  <2> QED  BY <2>2
<1>3. m \in T
  <2>1. m \in m .. n /\ n \in Int /\ m \in Int
    OBVIOUS
  <2> HIDE DEF T
  <2> QED  BY <1>1, <1>2, <2>1, Down
<1>4. Turns(m, left)
  BY <1>3
<1>5. dounwind(p, m) = left[m]
  BY DEF dounwind
<1>6. \A k \in m .. n : left[k] = IF k = n THEN p ELSE Unwound(left[k + 1])
  <2> HIDE DEF left
  <2> QED  BY <1>4
<1>7. left[n] = p /\ \A k \in m .. n - 1 : left[k] = Unwound(left[k + 1])
  <2>1. n \in m .. n /\ \A k \in m .. n - 1 : k \in m .. n /\ k # n
    OBVIOUS
  <2> HIDE DEF left
  <2> QED  BY <1>6, <2>1
<1> QED  BY <1>5, <1>7

\* One turn of POPSTACK_TO.
StackPopped(p) == POPSTACK(dounwind(p, cxbase(p)))

\* The turns of POPSTACK_TO.
LEMMA PopStackTurns ==
  ASSUME NEW p, NEW m \in Nat, Len(p.si) \in Nat, m <= Len(p.si)
  PROVE  \E f : /\ POPSTACK_TO(p, m) = f[m] /\ f[Len(p.si)] = p
                /\ \A k \in m .. Len(p.si) - 1 : f[k] = StackPopped(f[k + 1])
<1> DEFINE n == Len(p.si)
           Turns(j, f) == f = [k \in j .. n |-> IF k = n THEN p ELSE StackPopped(f[k + 1])]
           T == {j \in m .. n : \E f : Turns(j, f)}
           left == CHOOSE f : Turns(m, f)
<1>1. n \in T
  <2>1. Turns(n, [k \in n .. n |-> p])
    OBVIOUS
  <2>2. \E f : Turns(n, f)
    BY <2>1
  <2>3. n \in m .. n
    OBVIOUS
  <2> HIDE DEF Turns, n
  <2> QED  BY <2>2, <2>3
<1>2. \A i \in m .. n - 1 : i + 1 \in T => i \in T
  <2> SUFFICES ASSUME NEW i \in m .. n - 1, NEW f, Turns(i + 1, f)
               PROVE  \E g : Turns(i, g)
    OBVIOUS
  <2> DEFINE g == [k \in i .. n |-> IF k = i THEN StackPopped(f[i + 1]) ELSE f[k]]
  <2>1. \A k \in i .. n : g[k] = IF k = n THEN p ELSE StackPopped(g[k + 1])
    OBVIOUS
  <2>2. Turns(i, g)
    <3> HIDE DEF g
    <3>1. g = [k \in i .. n |-> g[k]]
      BY DEF g
    <3> QED  BY <2>1, <3>1
  <2> QED  BY <2>2
<1>3. m \in T
  <2>1. m \in m .. n /\ n \in Int /\ m \in Int
    OBVIOUS
  <2> HIDE DEF T
  <2> QED  BY <1>1, <1>2, <2>1, Down
<1>4. Turns(m, left)
  BY <1>3
<1>5. POPSTACK_TO(p, m) = left[m]
  BY DEF POPSTACK_TO, StackPopped
<1>6. \A k \in m .. n : left[k] = IF k = n THEN p ELSE StackPopped(left[k + 1])
  <2> HIDE DEF left
  <2> QED  BY <1>4
<1>7. left[n] = p /\ \A k \in m .. n - 1 : left[k] = StackPopped(left[k + 1])
  <2>1. n \in m .. n /\ \A k \in m .. n - 1 : k \in m .. n /\ k # n
    OBVIOUS
  <2> HIDE DEF left
  <2> QED  BY <1>6, <2>1
<1> QED  BY <1>5, <1>7

-----------------------------------------------------------------------------
(* One field of the interpreter at a time.                                 *)

LEMMA SetCxs ==
  ASSUME NEW p \in State, NEW v \in Seq(Blocks)
  PROVE  LET q == [p EXCEPT !.cxs = v]
         IN  /\ q \in State /\ q.cxs = v
             /\ q.si = p.si /\ q.savestack = p.savestack /\ q.scopestack = p.scopestack
             /\ q.top_env = p.top_env /\ q.in_eval = p.in_eval /\ q.comppad = p.comppad
             /\ q.defav = p.defav /\ q.CvDEPTH = p.CvDEPTH /\ q.refcnt = p.refcnt
             /\ q.padlist = p.padlist /\ q.named = p.named
BY DEF State

LEMMA SetSi ==
  ASSUME NEW p \in State, NEW v \in Seq(Nat)
  PROVE  LET q == [p EXCEPT !.si = v]
         IN  /\ q \in State /\ q.si = v
             /\ q.cxs = p.cxs /\ q.savestack = p.savestack /\ q.scopestack = p.scopestack
             /\ q.top_env = p.top_env /\ q.in_eval = p.in_eval /\ q.comppad = p.comppad
             /\ q.defav = p.defav /\ q.CvDEPTH = p.CvDEPTH /\ q.refcnt = p.refcnt
             /\ q.padlist = p.padlist /\ q.named = p.named
BY DEF State

LEMMA SetSavestack ==
  ASSUME NEW p \in State, NEW v \in Seq(Saves)
  PROVE  LET q == [p EXCEPT !.savestack = v]
         IN  /\ q \in State /\ q.savestack = v
             /\ q.cxs = p.cxs /\ q.si = p.si /\ q.scopestack = p.scopestack
             /\ q.top_env = p.top_env /\ q.in_eval = p.in_eval /\ q.comppad = p.comppad
             /\ q.defav = p.defav /\ q.CvDEPTH = p.CvDEPTH /\ q.refcnt = p.refcnt
             /\ q.padlist = p.padlist /\ q.named = p.named
BY DEF State

LEMMA SetScopestack ==
  ASSUME NEW p \in State, NEW v \in Seq(Nat)
  PROVE  LET q == [p EXCEPT !.scopestack = v]
         IN  /\ q \in State /\ q.scopestack = v
             /\ q.cxs = p.cxs /\ q.si = p.si /\ q.savestack = p.savestack
             /\ q.top_env = p.top_env /\ q.in_eval = p.in_eval /\ q.comppad = p.comppad
             /\ q.defav = p.defav /\ q.CvDEPTH = p.CvDEPTH /\ q.refcnt = p.refcnt
             /\ q.padlist = p.padlist /\ q.named = p.named
BY DEF State

LEMMA SetTopEnv ==
  ASSUME NEW p \in State, NEW v \in Seq(BOOLEAN)
  PROVE  LET q == [p EXCEPT !.top_env = v]
         IN  /\ q \in State /\ q.top_env = v
             /\ q.cxs = p.cxs /\ q.si = p.si /\ q.savestack = p.savestack
             /\ q.scopestack = p.scopestack /\ q.in_eval = p.in_eval
             /\ q.comppad = p.comppad /\ q.defav = p.defav /\ q.CvDEPTH = p.CvDEPTH
             /\ q.refcnt = p.refcnt /\ q.padlist = p.padlist /\ q.named = p.named
BY DEF State

LEMMA SetInEval ==
  ASSUME NEW p \in State, NEW v \in BOOLEAN
  PROVE  LET q == [p EXCEPT !.in_eval = v]
         IN  /\ q \in State /\ q.in_eval = v
             /\ q.cxs = p.cxs /\ q.si = p.si /\ q.savestack = p.savestack
             /\ q.scopestack = p.scopestack /\ q.top_env = p.top_env
             /\ q.comppad = p.comppad /\ q.defav = p.defav /\ q.CvDEPTH = p.CvDEPTH
             /\ q.refcnt = p.refcnt /\ q.padlist = p.padlist /\ q.named = p.named
BY DEF State

LEMMA SetComppad ==
  ASSUME NEW p \in State, NEW v \in Pads
  PROVE  LET q == [p EXCEPT !.comppad = v]
         IN  /\ q \in State /\ q.comppad = v
             /\ q.cxs = p.cxs /\ q.si = p.si /\ q.savestack = p.savestack
             /\ q.scopestack = p.scopestack /\ q.top_env = p.top_env
             /\ q.in_eval = p.in_eval /\ q.defav = p.defav /\ q.CvDEPTH = p.CvDEPTH
             /\ q.refcnt = p.refcnt /\ q.padlist = p.padlist /\ q.named = p.named
BY DEF State

LEMMA SetDefav ==
  ASSUME NEW p \in State, NEW v \in Pads
  PROVE  LET q == [p EXCEPT !.defav = v]
         IN  /\ q \in State /\ q.defav = v
             /\ q.cxs = p.cxs /\ q.si = p.si /\ q.savestack = p.savestack
             /\ q.scopestack = p.scopestack /\ q.top_env = p.top_env
             /\ q.in_eval = p.in_eval /\ q.comppad = p.comppad /\ q.CvDEPTH = p.CvDEPTH
             /\ q.refcnt = p.refcnt /\ q.padlist = p.padlist /\ q.named = p.named
BY DEF State

LEMMA SetDepth ==
  ASSUME NEW p \in State, NEW v \in [Cvs -> Int]
  PROVE  LET q == [p EXCEPT !.CvDEPTH = v]
         IN  /\ q \in State /\ q.CvDEPTH = v
             /\ q.cxs = p.cxs /\ q.si = p.si /\ q.savestack = p.savestack
             /\ q.scopestack = p.scopestack /\ q.top_env = p.top_env
             /\ q.in_eval = p.in_eval /\ q.comppad = p.comppad /\ q.defav = p.defav
             /\ q.refcnt = p.refcnt /\ q.padlist = p.padlist /\ q.named = p.named
BY DEF State

LEMMA SetRefcnt ==
  ASSUME NEW p \in State, NEW v \in [Cvs -> Int]
  PROVE  LET q == [p EXCEPT !.refcnt = v]
         IN  /\ q \in State /\ q.refcnt = v
             /\ q.cxs = p.cxs /\ q.si = p.si /\ q.savestack = p.savestack
             /\ q.scopestack = p.scopestack /\ q.top_env = p.top_env
             /\ q.in_eval = p.in_eval /\ q.comppad = p.comppad /\ q.defav = p.defav
             /\ q.CvDEPTH = p.CvDEPTH /\ q.padlist = p.padlist /\ q.named = p.named
BY DEF State

LEMMA SetPadlist ==
  ASSUME NEW p \in State, NEW v \in [Cvs -> Nat]
  PROVE  LET q == [p EXCEPT !.padlist = v]
         IN  /\ q \in State /\ q.padlist = v
             /\ q.cxs = p.cxs /\ q.si = p.si /\ q.savestack = p.savestack
             /\ q.scopestack = p.scopestack /\ q.top_env = p.top_env
             /\ q.in_eval = p.in_eval /\ q.comppad = p.comppad /\ q.defav = p.defav
             /\ q.CvDEPTH = p.CvDEPTH /\ q.refcnt = p.refcnt /\ q.named = p.named
BY DEF State

LEMMA SetNamed ==
  ASSUME NEW p \in State, NEW v \in [Cvs -> BOOLEAN]
  PROVE  LET q == [p EXCEPT !.named = v]
         IN  /\ q \in State /\ q.named = v
             /\ q.cxs = p.cxs /\ q.si = p.si /\ q.savestack = p.savestack
             /\ q.scopestack = p.scopestack /\ q.top_env = p.top_env
             /\ q.in_eval = p.in_eval /\ q.comppad = p.comppad /\ q.defav = p.defav
             /\ q.CvDEPTH = p.CvDEPTH /\ q.refcnt = p.refcnt /\ q.padlist = p.padlist
BY DEF State

LEMMA StateFields ==
  ASSUME NEW p \in State
  PROVE  /\ p.cxs \in Seq(Blocks)
         /\ p.si \in Seq(Nat)
         /\ p.savestack \in Seq(Saves)
         /\ p.scopestack \in Seq(Nat)
         /\ p.top_env \in Seq(BOOLEAN)
         /\ p.in_eval \in BOOLEAN
         /\ p.comppad \in Pads
         /\ p.defav \in Pads
         /\ p.CvDEPTH \in [Cvs -> Int]
         /\ p.refcnt \in [Cvs -> Int]
         /\ p.padlist \in [Cvs -> Nat]
         /\ p.named \in [Cvs -> BOOLEAN]
BY DEF State

-----------------------------------------------------------------------------
(* Sequences, and what is among the first contexts of one.                 *)

LEMMA LastFront ==
  ASSUME NEW S, NEW s \in Seq(S), Len(s) > 0
  PROVE  /\ Len(s) \in Nat \ {0} /\ Last(s) = s[Len(s)] /\ Last(s) \in S
         /\ Front(s) \in Seq(S) /\ Len(Front(s)) = Len(s) - 1
         /\ \A i \in 1 .. Len(s) - 1 : Front(s)[i] = s[i]
<1>1. Len(s) \in Nat /\ \A i \in 1 .. Len(s) : s[i] \in S
  BY LenProperties, ElementOfSeq
<1> DEFINE n == Len(s) - 1
<1>2. n \in Int /\ \A i \in 1 .. n : s[i] \in S
  BY <1>1
<1>3. /\ SubSeq(s, 1, n) \in Seq(S) /\ Len(SubSeq(s, 1, n)) = IF 1 <= n THEN n - 1 + 1 ELSE 0
      /\ \A i \in 1 .. n - 1 + 1 : SubSeq(s, 1, n)[i] = s[1 + i - 1]
  <2> HIDE DEF n
  <2> QED  BY <1>2, SubSeqProperties
<1>4. Front(s) = SubSeq(s, 1, n) /\ Last(s) = s[Len(s)] /\ Len(s) \in 1 .. Len(s)
  BY <1>1 DEF Front, Last
<1> HIDE DEF n
<1>5. /\ Len(SubSeq(s, 1, n)) = n /\ \A i \in 1 .. n : SubSeq(s, 1, n)[i] = s[i]
  <2>1. n \in Nat
    BY <1>1 DEF n
  <2> QED  BY <1>3, <2>1
<1> QED  BY <1>1, <1>3, <1>4, <1>5 DEF n

LEMMA CutSeq ==
  ASSUME NEW S, NEW s \in Seq(S), NEW n \in Nat, n <= Len(s)
  PROVE  /\ SubSeq(s, 1, n) \in Seq(S) /\ Len(SubSeq(s, 1, n)) = n
         /\ \A i \in 1 .. n : SubSeq(s, 1, n)[i] = s[i]
<1>1. Len(s) \in Nat /\ \A i \in 1 .. Len(s) : s[i] \in S
  BY LenProperties, ElementOfSeq
<1>2. \A i \in 1 .. n : s[i] \in S
  BY <1>1
<1>3. /\ SubSeq(s, 1, n) \in Seq(S) /\ Len(SubSeq(s, 1, n)) = IF 1 <= n THEN n - 1 + 1 ELSE 0
      /\ \A i \in 1 .. n - 1 + 1 : SubSeq(s, 1, n)[i] = s[1 + i - 1]
  BY <1>2, SubSeqProperties
<1> QED  BY <1>3

LEMMA Appended ==
  ASSUME NEW S, NEW s \in Seq(S), NEW e \in S
  PROVE  /\ Append(s, e) \in Seq(S) /\ Len(Append(s, e)) = Len(s) + 1 /\ Len(s) \in Nat
         /\ Append(s, e)[Len(s) + 1] = e /\ \A i \in 1 .. Len(s) : Append(s, e)[i] = s[i]
BY AppendProperties, LenProperties

LEMMA Largest ==
  ASSUME NEW n \in Nat, NEW S \in SUBSET (1 .. n), S # {}
  PROVE  Max(S) \in S /\ Max(S) \in 1 .. n /\ \A j \in S : j <= Max(S)
<1> DEFINE D == {d \in Nat : n - d \in S}
<1>1. PICK j \in S : TRUE
  OBVIOUS
<1>2. j \in 1 .. n /\ n - j \in Nat /\ n - (n - j) = j
  OBVIOUS
<1>3. n - j \in D
  BY <1>1, <1>2
<1>4. PICK d \in D : \A e \in D : d <= e
  <2>1. D \in SUBSET Nat /\ D # {}
    BY <1>3
  <2> HIDE DEF D
  <2> QED  BY <2>1, Smallest
<1>5. d \in Nat /\ n - d \in S
  BY <1>4
<1>6. ASSUME NEW i \in S
      PROVE  n - d >= i
  <2>1. i \in 1 .. n /\ n - i \in Nat /\ n - (n - i) = i
    OBVIOUS
  <2>2. n - i \in D
    BY <2>1
  <2>3. d <= n - i
    BY <1>4, <2>2
  <2> QED  BY <1>5, <2>1, <2>3
<1>7. \E i \in S : \A k \in S : i >= k
  BY <1>5, <1>6
<1>8. Max(S) \in S /\ \A k \in S : Max(S) >= k
  BY <1>7 DEF Max
<1> QED  BY <1>8

\* One number more that is larger than the others.
LEMMA LargestAdded ==
  ASSUME NEW k \in Nat, NEW S \in SUBSET (1 .. k)
  PROVE  Max(S \cup {k + 1}) = k + 1
<1> DEFINE T == S \cup {k + 1}
<1>1. k + 1 \in Nat /\ T \in SUBSET (1 .. k + 1) /\ T # {} /\ k + 1 \in T
  OBVIOUS
<1>2. Max(T) \in 1 .. k + 1 /\ k + 1 <= Max(T)
  <2> HIDE DEF T
  <2> QED  BY <1>1, Largest
<1> QED  BY <1>2

\* Counting among the first k.
LEMMA ToFinite ==
  ASSUME NEW k \in Int, NEW S \in SUBSET (1 .. k)
  PROVE  IsFiniteSet(S) /\ Cardinality(S) \in Nat
<1>1. IsFiniteSet(1 .. k)
  BY FS_Interval
<1>2. IsFiniteSet(S)
  BY <1>1, FS_Subset
<1> QED  BY <1>2, FS_CardinalityType

LEMMA CountAdded ==
  ASSUME NEW k \in Nat, NEW S \in SUBSET (1 .. k)
  PROVE  Cardinality(S \cup {k + 1}) = Cardinality(S) + 1
<1>1. k \in Int
  OBVIOUS
<1>3. IsFiniteSet(S)
  BY <1>1, ToFinite, Zenon
<1>2. k + 1 \notin S
  OBVIOUS
<1> QED  BY <1>2, <1>3, FS_AddElement

LEMMA ToTypes ==
  ASSUME NEW B, NEW k \in Int
  PROVE  /\ SubsTo(B, k) \in SUBSET (1 .. k) /\ ArgsTo(B, k) \in SUBSET (1 .. k)
         /\ FirstsTo(B, k) \in SUBSET (1 .. k) /\ EvalsTo(B, k) \in SUBSET (1 .. k)
         /\ ArgsTo(B, k) \in SUBSET SubsTo(B, k)
         /\ SavesTo(B, k) \in Nat
         /\ \A cv : /\ FramesTo(B, cv, k) \in SUBSET (1 .. k)
                    /\ Cardinality(FramesTo(B, cv, k)) \in Nat
                    /\ FramesTo(B, cv, k) # {} <=> Cardinality(FramesTo(B, cv, k)) > 0
<1>1. /\ SubsTo(B, k) \in SUBSET (1 .. k) /\ ArgsTo(B, k) \in SUBSET (1 .. k)
      /\ FirstsTo(B, k) \in SUBSET (1 .. k) /\ EvalsTo(B, k) \in SUBSET (1 .. k)
      /\ ArgsTo(B, k) \in SUBSET SubsTo(B, k)
      /\ \A cv : FramesTo(B, cv, k) \in SUBSET (1 .. k)
  BY DEF SubsTo, ArgsTo, FirstsTo, EvalsTo, FramesTo
<1>2. SavesTo(B, k) \in Nat
  <2>1. Cardinality(SubsTo(B, k)) \in Nat /\ Cardinality(FirstsTo(B, k)) \in Nat
    BY <1>1, ToFinite
  <2> QED  BY <2>1 DEF SavesTo
<1>3. ASSUME NEW cv
      PROVE  /\ Cardinality(FramesTo(B, cv, k)) \in Nat
             /\ FramesTo(B, cv, k) # {} <=> Cardinality(FramesTo(B, cv, k)) > 0
  <2>1. IsFiniteSet(FramesTo(B, cv, k)) /\ Cardinality(FramesTo(B, cv, k)) \in Nat
    BY <1>1, ToFinite
  <2> QED  BY <2>1, FS_EmptySet
<1> QED  BY <1>1, <1>2, <1>3

\* What is among the first k depends on them alone.
LEMMA SameTo ==
  ASSUME NEW B, NEW C, NEW n \in Int, \A i \in 1 .. n : C[i] = B[i], NEW k \in Int, k <= n
  PROVE  /\ SubsTo(C, k) = SubsTo(B, k) /\ ArgsTo(C, k) = ArgsTo(B, k)
         /\ FirstsTo(C, k) = FirstsTo(B, k) /\ EvalsTo(C, k) = EvalsTo(B, k)
         /\ SavesTo(C, k) = SavesTo(B, k)
         /\ \A cv : FramesTo(C, cv, k) = FramesTo(B, cv, k)
<1>1. \A i \in 1 .. k : C[i] = B[i]
  OBVIOUS
<1>2. SubsTo(C, k) = SubsTo(B, k) /\ EvalsTo(C, k) = EvalsTo(B, k)
  BY <1>1 DEF SubsTo, EvalsTo
<1>3. \A i \in SubsTo(B, k) : C[i] = B[i]
  BY <1>1, ToTypes
<1>4. /\ ArgsTo(C, k) = ArgsTo(B, k) /\ FirstsTo(C, k) = FirstsTo(B, k)
      /\ \A cv : FramesTo(C, cv, k) = FramesTo(B, cv, k)
  BY <1>2, <1>3 DEF ArgsTo, FirstsTo, FramesTo
<1> QED  BY <1>2, <1>4 DEF SavesTo

LEMMA SamePad ==
  ASSUME NEW B, NEW C, NEW n \in Nat, \A i \in 1 .. n : C[i] = B[i], NEW S \in SUBSET (1 .. n)
  PROVE  PadIn(C, S) = PadIn(B, S)
<1>1. S # {} => C[Max(S)] = B[Max(S)]
  BY Largest
<1> QED  BY <1>1 DEF PadIn

\* One context more, a sub or not.
LEMMA OneMore ==
  ASSUME NEW B, NEW k \in Nat
  PROVE  LET b == B[k + 1].cx
         IN  /\ b.type # "SUB" =>
                  /\ SubsTo(B, k + 1) = SubsTo(B, k) /\ ArgsTo(B, k + 1) = ArgsTo(B, k)
                  /\ SavesTo(B, k + 1) = SavesTo(B, k)
                  /\ \A cv : FramesTo(B, cv, k + 1) = FramesTo(B, cv, k)
             /\ b.type = "SUB" =>
                  /\ SubsTo(B, k + 1) = SubsTo(B, k) \cup {k + 1}
                  /\ b.hasargs => ArgsTo(B, k + 1) = ArgsTo(B, k) \cup {k + 1}
                  /\ ~b.hasargs => ArgsTo(B, k + 1) = ArgsTo(B, k)
                  /\ SavesTo(B, k + 1) = SavesTo(B, k) + (IF b.olddepth = 0 THEN 2 ELSE 1)
                  /\ FramesTo(B, b.cv, k + 1) = FramesTo(B, b.cv, k) \cup {k + 1}
                  /\ \A cv : cv # b.cv => FramesTo(B, cv, k + 1) = FramesTo(B, cv, k)
             /\ b.type = "EVAL" => EvalsTo(B, k + 1) = EvalsTo(B, k) \cup {k + 1}
             /\ b.type # "EVAL" => EvalsTo(B, k + 1) = EvalsTo(B, k)
<1> DEFINE b == B[k + 1].cx
<1>1. 1 .. k + 1 = (1 .. k) \cup {k + 1}
  OBVIOUS
<1>2. /\ b.type = "EVAL" => EvalsTo(B, k + 1) = EvalsTo(B, k) \cup {k + 1}
      /\ b.type # "EVAL" => EvalsTo(B, k + 1) = EvalsTo(B, k)
      /\ b.type = "SUB" => SubsTo(B, k + 1) = SubsTo(B, k) \cup {k + 1}
      /\ b.type # "SUB" => SubsTo(B, k + 1) = SubsTo(B, k)
  BY <1>1 DEF EvalsTo, SubsTo
<1>3. b.type # "SUB" => /\ ArgsTo(B, k + 1) = ArgsTo(B, k) /\ FirstsTo(B, k + 1) = FirstsTo(B, k)
                        /\ \A cv : FramesTo(B, cv, k + 1) = FramesTo(B, cv, k)
  BY <1>2 DEF ArgsTo, FirstsTo, FramesTo
<1>4. b.type = "SUB" =>
        /\ b.hasargs => ArgsTo(B, k + 1) = ArgsTo(B, k) \cup {k + 1}
        /\ ~b.hasargs => ArgsTo(B, k + 1) = ArgsTo(B, k)
        /\ b.olddepth = 0 => FirstsTo(B, k + 1) = FirstsTo(B, k) \cup {k + 1}
        /\ b.olddepth # 0 => FirstsTo(B, k + 1) = FirstsTo(B, k)
        /\ FramesTo(B, b.cv, k + 1) = FramesTo(B, b.cv, k) \cup {k + 1}
        /\ \A cv : cv # b.cv => FramesTo(B, cv, k + 1) = FramesTo(B, cv, k)
  BY <1>2 DEF ArgsTo, FirstsTo, FramesTo
<1>5. /\ Cardinality(SubsTo(B, k) \cup {k + 1}) = Cardinality(SubsTo(B, k)) + 1
      /\ Cardinality(FirstsTo(B, k) \cup {k + 1}) = Cardinality(FirstsTo(B, k)) + 1
      /\ Cardinality(SubsTo(B, k)) \in Nat /\ Cardinality(FirstsTo(B, k)) \in Nat
  <2>1. SubsTo(B, k) \in SUBSET (1 .. k) /\ FirstsTo(B, k) \in SUBSET (1 .. k)
    BY ToTypes
  <2>2. k \in Int
    OBVIOUS
  <2>3. Cardinality(SubsTo(B, k)) \in Nat /\ Cardinality(FirstsTo(B, k)) \in Nat
    BY <2>1, <2>2, ToFinite, Zenon
  <2> QED  BY <2>1, <2>3, CountAdded, Zenon
<1>6. b.type # "SUB" => SavesTo(B, k + 1) = SavesTo(B, k)
  BY <1>2, <1>3 DEF SavesTo
<1>7. b.type = "SUB" => SavesTo(B, k + 1) = SavesTo(B, k) + (IF b.olddepth = 0 THEN 2 ELSE 1)
  <2>1. CASE b.type = "SUB" /\ b.olddepth = 0
    <3>1. /\ SubsTo(B, k + 1) = SubsTo(B, k) \cup {k + 1}
          /\ FirstsTo(B, k + 1) = FirstsTo(B, k) \cup {k + 1}
      BY <1>2, <1>4, <2>1
    <3>2. /\ SavesTo(B, k + 1) = (Cardinality(SubsTo(B, k)) + 1) + (Cardinality(FirstsTo(B, k)) + 1)
          /\ SavesTo(B, k) = Cardinality(SubsTo(B, k)) + Cardinality(FirstsTo(B, k))
      BY <1>5, <3>1, Zenon DEF SavesTo
    <3> QED  BY <1>5, <2>1, <3>2
  <2>2. CASE b.type = "SUB" /\ b.olddepth # 0
    <3>1. /\ SubsTo(B, k + 1) = SubsTo(B, k) \cup {k + 1}
          /\ FirstsTo(B, k + 1) = FirstsTo(B, k)
      BY <1>2, <1>4, <2>2
    <3>2. /\ SavesTo(B, k + 1) = (Cardinality(SubsTo(B, k)) + 1) + Cardinality(FirstsTo(B, k))
          /\ SavesTo(B, k) = Cardinality(SubsTo(B, k)) + Cardinality(FirstsTo(B, k))
      BY <1>5, <3>1, Zenon DEF SavesTo
    <3> QED  BY <1>5, <2>2, <3>2
  <2> QED  BY <2>1, <2>2
<1> QED  BY <1>2, <1>3, <1>4, <1>6, <1>7

-----------------------------------------------------------------------------
(* The books of the contexts, through each turn of dounwind and leave_scope. *)

SubCx  == [type : {"SUB"}, multicall : BOOLEAN, hasargs : BOOLEAN, cv : Cvs, olddepth : Nat,
           savearray : Pads]
EvalCx == [type : {"EVAL"}, old_in_eval : BOOLEAN, cur_top_env : Nat, loop : Nat]
LoopCx == [type : {"LOOP"}]

LEMMA BlockTypes ==
  ASSUME NEW b \in Blocks
  PROVE  /\ b.oldscopesp \in Nat /\ b.cx.type \in {"SUB", "EVAL", "LOOP"}
         /\ b.cx.type = "SUB" =>
              /\ b.cx.multicall \in BOOLEAN /\ b.cx.hasargs \in BOOLEAN /\ b.cx.cv \in Cvs
              /\ b.cx.olddepth \in Nat /\ b.cx.savearray \in Pads
         /\ b.cx.type = "EVAL" =>
              /\ b.cx.old_in_eval \in BOOLEAN /\ b.cx.cur_top_env \in Nat /\ b.cx.loop \in Nat
<1>1. b.oldscopesp \in Nat /\ (b.cx \in SubCx \/ b.cx \in EvalCx \/ b.cx \in LoopCx)
  BY DEF Blocks, SubCx, EvalCx, LoopCx
<1>2. CASE b.cx \in SubCx
  BY <1>1, <1>2 DEF SubCx
<1>3. CASE b.cx \in EvalCx
  BY <1>1, <1>3 DEF EvalCx
<1>4. CASE b.cx \in LoopCx
  BY <1>1, <1>4 DEF LoopCx
<1> QED  BY <1>1, <1>2, <1>3, <1>4

LEMMA NewBlock ==
  ASSUME NEW n \in Nat, NEW cx, cx \in SubCx \/ cx \in EvalCx \/ cx \in LoopCx
  PROVE  [oldscopesp |-> n, cx |-> cx] \in Blocks
BY DEF Blocks, SubCx, EvalCx, LoopCx

LEMMA PadType ==
  ASSUME NEW B \in Seq(Blocks), NEW k \in Nat, k <= Len(B), NEW S \in SUBSET SubsTo(B, k)
  PROVE  PadIn(B, S) \in Pads
<1>1. CASE S = {}
  BY <1>1 DEF PadIn, Pads
<1>2. CASE S # {}
  <2>1. S \in SUBSET (1 .. k) /\ Len(B) \in Nat
    BY ToTypes, LenProperties
  <2>2. Max(S) \in S /\ Max(S) \in 1 .. k
    BY <1>2, <2>1, Largest
  <2>3. B[Max(S)] \in Blocks /\ B[Max(S)].cx.type = "SUB"
    BY <2>1, <2>2, ElementOfSeq DEF SubsTo
  <2>4. B[Max(S)].cx.cv \in Cvs /\ B[Max(S)].cx.olddepth + 1 \in Nat
    BY <2>3, BlockTypes
  <2> QED  BY <1>2, <2>4 DEF PadIn, Pads
<1> QED  BY <1>1, <1>2

LEMMA PadAdded ==
  ASSUME NEW B, NEW k \in Nat, NEW S \in SUBSET (1 .. k)
  PROVE  PadIn(B, S \cup {k + 1}) = <<B[k + 1].cx.cv, B[k + 1].cx.olddepth + 1>>
<1>1. Max(S \cup {k + 1}) = k + 1 /\ S \cup {k + 1} # {}
  BY LargestAdded
<1> QED  BY <1>1 DEF PadIn

\* A context that stays remembers what it did.
LEMMA RememberedSame ==
  ASSUME NEW B, NEW C, NEW n \in Nat, \A i \in 1 .. n : C[i] = B[i], NEW i \in 1 .. n
  PROVE  Remembered(C, i) <=> Remembered(B, i)
<1>1. i - 1 \in Nat /\ i - 1 <= n /\ i - 1 \in Int /\ n \in Int /\ C[i] = B[i]
  OBVIOUS
<1>2. /\ ArgsTo(C, i - 1) = ArgsTo(B, i - 1) /\ EvalsTo(C, i - 1) = EvalsTo(B, i - 1)
      /\ \A cv : FramesTo(C, cv, i - 1) = FramesTo(B, cv, i - 1)
  BY <1>1, SameTo, ZenonT(60)
<1>3. ArgsTo(B, i - 1) \in SUBSET (1 .. n)
  BY <1>1, ToTypes
<1>4. PadIn(C, ArgsTo(C, i - 1)) = PadIn(B, ArgsTo(B, i - 1))
  <2>1. PadIn(C, ArgsTo(B, i - 1)) = PadIn(B, ArgsTo(B, i - 1))
    BY <1>3, SamePad, Zenon
  <2> QED  BY <1>2, <2>1, Zenon
<1> QED  BY <1>1, <1>2, <1>4 DEF Remembered

\* dounwind, for one context: the fields.
LEMMA UnwoundFields ==
  ASSUME NEW p \in State, Len(p.cxs) > 0
  PROVE  LET q  == Unwound(p)
             cx == Last(p.cxs).cx
         IN  /\ q \in State /\ q.cxs = Front(p.cxs)
             /\ q.si = p.si /\ q.savestack = p.savestack /\ q.scopestack = p.scopestack
             /\ q.top_env = p.top_env /\ q.comppad = p.comppad /\ q.padlist = p.padlist
             /\ q.named = p.named
             /\ cx.type = "SUB" =>
                  /\ q.CvDEPTH = [p.CvDEPTH EXCEPT ![cx.cv] = cx.olddepth]
                  /\ q.defav = IF cx.hasargs THEN cx.savearray ELSE p.defav
                  /\ q.refcnt = IF cx.olddepth = 0 THEN [p.refcnt EXCEPT ![cx.cv] = @ - 1]
                                ELSE p.refcnt
                  /\ q.in_eval = p.in_eval
             /\ cx.type # "SUB" =>
                  /\ q.CvDEPTH = p.CvDEPTH /\ q.defav = p.defav /\ q.refcnt = p.refcnt
                  /\ q.in_eval = IF cx.type = "EVAL" THEN cx.old_in_eval ELSE p.in_eval
<1> DEFINE cx == Last(p.cxs).cx
           d  == [p.CvDEPTH EXCEPT ![cx.cv] = cx.olddepth]
           a  == IF cx.hasargs THEN cx.savearray ELSE p.defav
           r  == [p.refcnt EXCEPT ![cx.cv] = @ - 1]
           f  == Front(p.cxs)
<1>1. /\ Last(p.cxs) \in Blocks /\ f \in Seq(Blocks) /\ p.CvDEPTH \in [Cvs -> Int]
      /\ p.refcnt \in [Cvs -> Int] /\ p.defav \in Pads
  BY StateFields, LastFront
<1>2. CASE cx.type = "SUB"
  <2>1. d \in [Cvs -> Int] /\ a \in Pads /\ r \in [Cvs -> Int] /\ cx.hasargs \in BOOLEAN
    BY <1>1, <1>2, BlockTypes
  <2> DEFINE p1 == [p EXCEPT !.CvDEPTH = d]
             p2 == [p1 EXCEPT !.defav = a]
             p3 == IF cx.olddepth = 0 THEN [p2 EXCEPT !.refcnt = r] ELSE p2
             p4 == [p3 EXCEPT !.cxs = f]
  <2>2. Unwound(p) = p4
    <3>1. POPSUB(p, cx) = p2
      BY DEF POPSUB
    <3>2. p2.refcnt = p.refcnt
      OBVIOUS
    <3>3. LEAVESUB(p2, cx) = p3
      BY <3>2 DEF LEAVESUB, SvREFCNT_dec
    <3>4. p3.cxs = p.cxs
      OBVIOUS
    <3> HIDE DEF p2, p3
    <3>5. Unwound(p) = [p3 EXCEPT !.cxs = Front(@)]
      BY <1>2, <3>1, <3>3 DEF Unwound
    <3> QED  BY <3>4, <3>5
  <2> HIDE DEF cx, d, a, r, f, p1, p2, p3, p4
  <2>3. /\ p1 \in State /\ p1.CvDEPTH = d /\ p1.cxs = p.cxs /\ p1.si = p.si
        /\ p1.savestack = p.savestack /\ p1.scopestack = p.scopestack
        /\ p1.top_env = p.top_env /\ p1.in_eval = p.in_eval /\ p1.comppad = p.comppad
        /\ p1.padlist = p.padlist /\ p1.named = p.named /\ p1.refcnt = p.refcnt
    BY <2>1, SetDepth DEF p1
  <2>4. /\ p2 \in State /\ p2.CvDEPTH = d /\ p2.defav = a /\ p2.cxs = p.cxs /\ p2.si = p.si
        /\ p2.savestack = p.savestack /\ p2.scopestack = p.scopestack
        /\ p2.top_env = p.top_env /\ p2.in_eval = p.in_eval /\ p2.comppad = p.comppad
        /\ p2.padlist = p.padlist /\ p2.named = p.named /\ p2.refcnt = p.refcnt
    BY <2>1, <2>3, SetDefav DEF p2
  <2>5. /\ p3 \in State /\ p3.CvDEPTH = d /\ p3.defav = a /\ p3.cxs = p.cxs /\ p3.si = p.si
        /\ p3.savestack = p.savestack /\ p3.scopestack = p.scopestack
        /\ p3.top_env = p.top_env /\ p3.in_eval = p.in_eval /\ p3.comppad = p.comppad
        /\ p3.padlist = p.padlist /\ p3.named = p.named
        /\ p3.refcnt = IF cx.olddepth = 0 THEN r ELSE p.refcnt
    BY <2>1, <2>4, SetRefcnt DEF p3
  <2>6. /\ p4 \in State /\ p4.CvDEPTH = d /\ p4.defav = a /\ p4.cxs = f /\ p4.si = p.si
        /\ p4.savestack = p.savestack /\ p4.scopestack = p.scopestack
        /\ p4.top_env = p.top_env /\ p4.in_eval = p.in_eval /\ p4.comppad = p.comppad
        /\ p4.padlist = p.padlist /\ p4.named = p.named
        /\ p4.refcnt = IF cx.olddepth = 0 THEN r ELSE p.refcnt
    BY <1>1, <2>5, SetCxs DEF p4
  <2> QED  BY <1>2, <2>2, <2>6 DEF cx, d, a, r, f
<1>3. CASE cx.type = "EVAL"
  <2>1. cx.old_in_eval \in BOOLEAN
    BY <1>1, <1>3, BlockTypes
  <2>2. Unwound(p) = [[p EXCEPT !.in_eval = cx.old_in_eval] EXCEPT !.cxs = f]
    BY <1>3 DEF Unwound, POPEVAL
  <2> DEFINE p1 == [p EXCEPT !.in_eval = cx.old_in_eval]
             p2 == [p1 EXCEPT !.cxs = f]
  <2>3. Unwound(p) = p2
    BY <2>2
  <2> HIDE DEF cx, f, p1, p2
  <2>4. /\ p1 \in State /\ p1.in_eval = cx.old_in_eval /\ p1.cxs = p.cxs /\ p1.si = p.si
        /\ p1.savestack = p.savestack /\ p1.scopestack = p.scopestack
        /\ p1.top_env = p.top_env /\ p1.comppad = p.comppad /\ p1.CvDEPTH = p.CvDEPTH
        /\ p1.padlist = p.padlist /\ p1.named = p.named /\ p1.refcnt = p.refcnt
        /\ p1.defav = p.defav
    BY <2>1, SetInEval DEF p1
  <2>5. /\ p2 \in State /\ p2.in_eval = cx.old_in_eval /\ p2.cxs = f /\ p2.si = p.si
        /\ p2.savestack = p.savestack /\ p2.scopestack = p.scopestack
        /\ p2.top_env = p.top_env /\ p2.comppad = p.comppad /\ p2.CvDEPTH = p.CvDEPTH
        /\ p2.padlist = p.padlist /\ p2.named = p.named /\ p2.refcnt = p.refcnt
        /\ p2.defav = p.defav
    BY <1>1, <2>4, SetCxs DEF p2
  <2> QED  BY <1>3, <2>3, <2>5 DEF cx, f
<1>4. CASE cx.type = "LOOP"
  <2> DEFINE p1 == [p EXCEPT !.cxs = f]
  <2>1. Unwound(p) = p1
    BY <1>4 DEF Unwound
  <2> HIDE DEF cx, f, p1
  <2>2. /\ p1 \in State /\ p1.in_eval = p.in_eval /\ p1.cxs = f /\ p1.si = p.si
        /\ p1.savestack = p.savestack /\ p1.scopestack = p.scopestack
        /\ p1.top_env = p.top_env /\ p1.comppad = p.comppad /\ p1.CvDEPTH = p.CvDEPTH
        /\ p1.padlist = p.padlist /\ p1.named = p.named /\ p1.refcnt = p.refcnt
        /\ p1.defav = p.defav
    BY <1>1, SetCxs DEF p1
  <2> QED  BY <1>4, <2>1, <2>2 DEF cx, f
<1> QED  BY <1>1, <1>2, <1>3, <1>4, BlockTypes

\* dounwind, for one context: the books are kept.
LEMMA UnwoundBooks ==
  ASSUME NEW p, Books(p), Len(p.cxs) > 0
  PROVE  Books(Unwound(p))
<1> DEFINE B == p.cxs
           q == Unwound(p)
           C == q.cxs
           n == Len(B)
           m == n - 1
           b == B[n].cx
<1>1. /\ p \in State /\ Remembers(B) /\ p.defav = PadIn(B, ArgsTo(B, n))
      /\ p.in_eval = (EvalsTo(B, n) # {}) /\ B \in Seq(Blocks)
      /\ \A cv \in Cvs :
           /\ p.CvDEPTH[cv] = Cardinality(FramesTo(B, cv, n))
           /\ p.refcnt[cv] = Refs(p.named[cv], Cardinality(FramesTo(B, cv, n)), p.savestack, cv)
  BY StateFields DEF Books
<1>2. /\ n \in Nat \ {0} /\ B[n] = Last(B) /\ B[n] \in Blocks
      /\ C \in Seq(Blocks) /\ Len(C) = m /\ \A i \in 1 .. m : C[i] = B[i]
  <2>1. C = Front(B)
    BY <1>1, UnwoundFields
  <2> HIDE DEF B, C
  <2> QED  BY <1>1, <2>1, LastFront DEF B
<1>3. /\ q \in State /\ q.savestack = p.savestack /\ q.named = p.named
      /\ b.type = "SUB" =>
           /\ q.CvDEPTH = [p.CvDEPTH EXCEPT ![b.cv] = b.olddepth]
           /\ q.defav = IF b.hasargs THEN b.savearray ELSE p.defav
           /\ q.refcnt = IF b.olddepth = 0 THEN [p.refcnt EXCEPT ![b.cv] = @ - 1]
                         ELSE p.refcnt
           /\ q.in_eval = p.in_eval
      /\ b.type # "SUB" =>
           /\ q.CvDEPTH = p.CvDEPTH /\ q.defav = p.defav /\ q.refcnt = p.refcnt
           /\ q.in_eval = IF b.type = "EVAL" THEN b.old_in_eval ELSE p.in_eval
  <2>1. Last(B) = B[n]
    BY <1>2
  <2> HIDE DEF q
  <2> QED  BY <1>1, <2>1, UnwoundFields, SMTT(30) DEF q
<1> HIDE DEF q, C
<1>4. m \in Nat /\ m \in Int /\ m <= m /\ m + 1 = n /\ n \in 1 .. n
  BY <1>2
<1>5. Remembers(C)
  <2>1. \A i \in 1 .. m : i \in 1 .. n
    BY <1>2
  <2>2. \A i \in 1 .. m : Remembered(B, i)
    BY <1>1, <2>1 DEF Remembers
  <2>3. \A i \in 1 .. m : Remembered(C, i)
    <3> HIDE DEF m
    <3> QED  BY <1>2, <1>4, <2>2, RememberedSame
  <2> QED  BY <1>2, <2>3 DEF Remembers
<1>6. Remembered(B, n)
  BY <1>1, <1>4 DEF Remembers
<1>7. /\ ArgsTo(C, m) = ArgsTo(B, m) /\ EvalsTo(C, m) = EvalsTo(B, m)
      /\ \A cv : FramesTo(C, cv, m) = FramesTo(B, cv, m)
  <2> HIDE DEF m, B
  <2> QED  BY <1>2, <1>4, SameTo, ZenonT(60)
<1>8. PadIn(C, ArgsTo(C, m)) = PadIn(B, ArgsTo(B, m))
  <2> HIDE DEF m
  <2>1. ArgsTo(B, m) \in SUBSET (1 .. m)
    BY <1>4, ToTypes
  <2>2. PadIn(C, ArgsTo(B, m)) = PadIn(B, ArgsTo(B, m))
    BY <1>2, <1>4, <2>1, SamePad, ZenonT(60)
  <2> QED  BY <1>7, <2>2
<1>9. /\ b.type # "SUB" => /\ ArgsTo(B, n) = ArgsTo(B, m)
                           /\ \A cv : FramesTo(B, cv, n) = FramesTo(B, cv, m)
      /\ b.type = "SUB" => /\ ~b.hasargs => ArgsTo(B, n) = ArgsTo(B, m)
                           /\ FramesTo(B, b.cv, n) = FramesTo(B, b.cv, m) \cup {n}
                           /\ \A cv : cv # b.cv => FramesTo(B, cv, n) = FramesTo(B, cv, m)
      /\ b.type = "EVAL" => EvalsTo(B, n) = EvalsTo(B, m) \cup {n}
      /\ b.type # "EVAL" => EvalsTo(B, n) = EvalsTo(B, m)
  <2> HIDE DEF m
  <2> HIDE DEF B, n
  <2>1. LET c == B[m + 1].cx
        IN  /\ c.type # "SUB" => /\ ArgsTo(B, m + 1) = ArgsTo(B, m)
                                 /\ \A cv : FramesTo(B, cv, m + 1) = FramesTo(B, cv, m)
            /\ c.type = "SUB" =>
                 /\ ~c.hasargs => ArgsTo(B, m + 1) = ArgsTo(B, m)
                 /\ FramesTo(B, c.cv, m + 1) = FramesTo(B, c.cv, m) \cup {m + 1}
                 /\ \A cv : cv # c.cv => FramesTo(B, cv, m + 1) = FramesTo(B, cv, m)
            /\ c.type = "EVAL" => EvalsTo(B, m + 1) = EvalsTo(B, m) \cup {m + 1}
            /\ c.type # "EVAL" => EvalsTo(B, m + 1) = EvalsTo(B, m)
    BY <1>4, OneMore, Zenon
  <2> QED  BY <1>4, <2>1, Zenon
<1>10. /\ b.type = "SUB" => /\ b.olddepth = Cardinality(FramesTo(B, b.cv, m))
                            /\ b.hasargs => b.savearray = PadIn(B, ArgsTo(B, m))
       /\ b.type = "EVAL" => b.old_in_eval = (EvalsTo(B, m) # {})
  BY <1>6 DEF Remembered
<1>11. q.defav = PadIn(C, ArgsTo(C, m)) /\ q.in_eval = (EvalsTo(C, m) # {})
  <2>1. q.defav = PadIn(B, ArgsTo(B, m))
    BY <1>1, <1>3, <1>9, <1>10
  <2>2. q.in_eval = (EvalsTo(B, m) # {})
    BY <1>1, <1>3, <1>9, <1>10
  <2> QED  BY <1>7, <1>8, <2>1, <2>2
<1>12. ASSUME NEW cv \in Cvs
       PROVE  /\ q.CvDEPTH[cv] = Cardinality(FramesTo(C, cv, m))
              /\ q.refcnt[cv] = Refs(q.named[cv], Cardinality(FramesTo(C, cv, m)), q.savestack, cv)
  <2> DEFINE was == Cardinality(FramesTo(B, cv, n))
             is  == Cardinality(FramesTo(B, cv, m))
  <2>1. FramesTo(C, cv, m) = FramesTo(B, cv, m) /\ is \in Nat
    BY <1>4, <1>7, ToTypes
  <2>2. p.CvDEPTH[cv] = was /\ p.refcnt[cv] = Refs(p.named[cv], was, p.savestack, cv)
    BY <1>1
  <2>3. p.CvDEPTH \in [Cvs -> Int] /\ p.refcnt \in [Cvs -> Int]
    BY <1>1, StateFields
  <2>4. CASE b.type = "SUB" /\ b.cv = cv
    <3>1. was = is + 1
      <4>1. FramesTo(B, cv, n) = FramesTo(B, cv, m) \cup {m + 1}
        BY <1>4, <1>9, <2>4
      <4>2. FramesTo(B, cv, m) \in SUBSET (1 .. m)
        BY <1>4, ToTypes
      <4> HIDE DEF m
      <4>3. Cardinality(FramesTo(B, cv, m) \cup {m + 1}) = Cardinality(FramesTo(B, cv, m)) + 1
        BY <1>4, <4>2, CountAdded
      <4> QED  BY <4>1, <4>3
    <3>2. b.olddepth = is
      BY <1>10, <2>4
    <3> HIDE DEF was, is
    <3>3. q.CvDEPTH[cv] = is /\ q.refcnt[cv] = IF is = 0 THEN p.refcnt[cv] - 1 ELSE p.refcnt[cv]
      BY <1>3, <2>3, <2>4, <3>2
    <3>4. Cardinality(Frees(p.savestack, cv)) \in Nat
      <4>1. Len(p.savestack) \in Nat
        BY <1>1, StateFields, LenProperties
      <4>2. Frees(p.savestack, cv) \in SUBSET (1 .. Len(p.savestack))
        BY DEF Frees
      <4>3. Len(p.savestack) \in Int
        BY <4>1
      <4> QED  BY <4>2, <4>3, ToFinite, Zenon
    <3>5. Refs(p.named[cv], is, p.savestack, cv)
            = IF is = 0 THEN Refs(p.named[cv], was, p.savestack, cv) - 1
              ELSE Refs(p.named[cv], was, p.savestack, cv)
      BY <2>1, <3>1, <3>4 DEF Refs
    <3> QED  BY <1>3, <2>1, <2>2, <3>3, <3>5 DEF is
  <2>5. CASE ~(b.type = "SUB" /\ b.cv = cv)
    <3>1. was = is
      BY <1>9, <2>5
    <3>2. q.CvDEPTH[cv] = p.CvDEPTH[cv] /\ q.refcnt[cv] = p.refcnt[cv]
      BY <1>3, <2>3, <2>5
    <3> QED  BY <1>3, <2>1, <2>2, <3>1, <3>2
  <2> QED  BY <2>4, <2>5
<1> QED  BY <1>2, <1>3, <1>5, <1>11, <1>12 DEF Books, C, q

\* t is the first n elements of s.
Prefix(s, t, n) == Len(t) = n /\ \A i \in 1 .. n : t[i] = s[i]

\* What unwinding contexts does not touch.
Aside(p, q) ==
  /\ q.savestack = p.savestack /\ q.scopestack = p.scopestack /\ q.top_env = p.top_env
  /\ q.comppad = p.comppad /\ q.padlist = p.padlist /\ q.named = p.named

\* One turn of dounwind.
LEMMA UnwindTurn ==
  ASSUME NEW q, Books(q), NEW i \in Nat, Len(q.cxs) = i + 1
  PROVE  LET r == Unwound(q)
         IN  Books(r) /\ Prefix(q.cxs, r.cxs, i) /\ r.si = q.si /\ Aside(q, r)
<1> DEFINE r == Unwound(q)
<1>1. q \in State /\ q.cxs \in Seq(Blocks) /\ Len(q.cxs) > 0
  BY StateFields DEF Books
<1>2. Books(r)
  BY <1>1, UnwoundBooks
<1>3. r.cxs = Front(q.cxs) /\ r.si = q.si /\ Aside(q, r)
  <2> HIDE DEF r
  <2>1. r = Unwound(q)
    BY DEF r
  <2> QED  BY <1>1, <2>1, UnwoundFields DEF Aside
<1> HIDE DEF r
<1>4. Len(Front(q.cxs)) = i /\ \A j \in 1 .. i : Front(q.cxs)[j] = q.cxs[j]
  <2>1. /\ Len(Front(q.cxs)) = Len(q.cxs) - 1
        /\ \A j \in 1 .. Len(q.cxs) - 1 : Front(q.cxs)[j] = q.cxs[j]
    BY <1>1, LastFront
  <2> QED  BY <2>1
<1> QED  BY <1>2, <1>3, <1>4 DEF Prefix, r

\* dounwind takes the contexts off and keeps the books.
LEMMA UnwindKeeps ==
  ASSUME NEW p, Books(p), NEW m \in Nat, m <= Len(p.cxs)
  PROVE  LET q == dounwind(p, m)
         IN  Books(q) /\ Prefix(p.cxs, q.cxs, m) /\ q.si = p.si /\ Aside(p, q)
<1> DEFINE n == Len(p.cxs)
           Fine(q, i) == Books(q) /\ Prefix(p.cxs, q.cxs, i) /\ q.si = p.si /\ Aside(p, q)
<1>1. n \in Nat /\ p.cxs \in Seq(Blocks)
  BY StateFields, LenProperties DEF Books
<1>2. PICK f : /\ dounwind(p, m) = f[m] /\ f[n] = p
               /\ \A k \in m .. n - 1 : f[k] = Unwound(f[k + 1])
  BY <1>1, UnwindTurns
<1> DEFINE T == {i \in m .. n : Fine(f[i], i)}
<1>3. n \in T
  <2>1. Fine(p, n)
    BY DEF Prefix, Aside
  <2> QED  BY <1>1, <1>2, <2>1
<1>4. ASSUME NEW i \in m .. n - 1, i + 1 \in T
      PROVE  i \in T
  <2> DEFINE q == f[i + 1]
             r == Unwound(q)
  <2>1. Books(q) /\ Prefix(p.cxs, q.cxs, i + 1) /\ q.si = p.si /\ Aside(p, q)
    BY <1>4
  <2>2. i \in Nat /\ i \in m .. n
    BY <1>1
  <2>3. f[i] = r
    BY <1>2
  <2>4. Len(q.cxs) = i + 1
    BY <2>1 DEF Prefix
  <2> HIDE DEF q
  <2>5. Books(r) /\ Prefix(q.cxs, r.cxs, i) /\ r.si = q.si /\ Aside(q, r)
    BY <2>1, <2>2, <2>4, UnwindTurn
  <2>6. \A j \in 1 .. i : j \in 1 .. i + 1
    BY <2>2
  <2>7. Fine(r, i)
    <3> HIDE DEF r
    <3> QED  BY <2>1, <2>5, <2>6 DEF Prefix, Aside
  <2> QED  BY <2>2, <2>3, <2>7
<1>5. m \in T
  <2>1. m \in m .. n /\ m \in Int /\ n \in Int
    BY <1>1
  <2> HIDE DEF T, n
  <2> QED  BY <1>3, <1>4, <2>1, Down
<1> QED  BY <1>2, <1>5

LEMMA FreesGrow ==
  ASSUME NEW s, NEW t, Len(t) \in Nat, Len(s) = Len(t) + 1,
         \A i \in 1 .. Len(t) : s[i] = t[i], NEW cv
  PROVE  /\ Cardinality(Frees(t, cv)) \in Nat
         /\ Cardinality(Frees(s, cv))
              = Cardinality(Frees(t, cv))
                + (IF s[Len(s)] = [save |-> "FREESV", what |-> cv] THEN 1 ELSE 0)
<1> DEFINE k == Len(t)
           e == [save |-> "FREESV", what |-> cv]
<1>1. 1 .. k + 1 = (1 .. k) \cup {k + 1} /\ Frees(t, cv) \in SUBSET (1 .. k) /\ k \in Int
  BY DEF Frees
<1>2. Frees(s, cv) = Frees(t, cv) \cup (IF s[k + 1] = e THEN {k + 1} ELSE {})
  BY <1>1 DEF Frees
<1>3. Cardinality(Frees(t, cv)) \in Nat
  <2> HIDE DEF k
  <2> QED  BY <1>1, ToFinite, Zenon
<1>4. Cardinality(Frees(t, cv) \cup {k + 1}) = Cardinality(Frees(t, cv)) + 1
  <2>1. k \in Nat
    OBVIOUS
  <2> HIDE DEF k
  <2> QED  BY <1>1, <2>1, CountAdded, Zenon
<1>5. CASE s[k + 1] = e
  <2>1. Frees(s, cv) = Frees(t, cv) \cup {k + 1}
    BY <1>2, <1>5
  <2> QED  BY <1>3, <1>4, <1>5, <2>1
<1>6. CASE s[k + 1] # e
  <2>1. Frees(s, cv) = Frees(t, cv)
    BY <1>2, <1>6
  <2> QED  BY <1>3, <1>6, <2>1
<1> QED  BY <1>5, <1>6

LEMMA SaveTypes ==
  ASSUME NEW e \in Saves
  PROVE  /\ e.save \in {"FREESV", "COMPPAD"}
         /\ e.save = "FREESV" => e.what \in Cvs /\ e = [save |-> "FREESV", what |-> e.what]
         /\ e.save = "COMPPAD" => e.what \in Pads
BY DEF Saves

\* leave_scope, for one entry: the fields.
LEMMA RestoredFields ==
  ASSUME NEW p \in State, Len(p.savestack) > 0
  PROVE  LET q == Restored(p)
             e == Last(p.savestack)
         IN  /\ q \in State /\ q.savestack = Front(p.savestack)
             /\ q.cxs = p.cxs /\ q.si = p.si /\ q.scopestack = p.scopestack
             /\ q.top_env = p.top_env /\ q.in_eval = p.in_eval /\ q.defav = p.defav
             /\ q.CvDEPTH = p.CvDEPTH /\ q.padlist = p.padlist /\ q.named = p.named
             /\ q.comppad = IF e.save = "COMPPAD" THEN e.what ELSE p.comppad
             /\ q.refcnt = IF e.save = "FREESV" THEN [p.refcnt EXCEPT ![e.what] = @ - 1]
                           ELSE p.refcnt
<1> DEFINE e == Last(p.savestack)
           f == Front(p.savestack)
           r == [p.refcnt EXCEPT ![e.what] = @ - 1]
<1>1. e \in Saves /\ f \in Seq(Saves) /\ p.refcnt \in [Cvs -> Int]
  BY StateFields, LastFront
<1>2. CASE e.save = "FREESV"
  <2> DEFINE p1 == [p EXCEPT !.refcnt = r]
             p2 == [p1 EXCEPT !.savestack = f]
  <2>1. r \in [Cvs -> Int]
    BY <1>1, <1>2, SaveTypes
  <2>2. Restored(p) = p2
    <3>1. SvREFCNT_dec(p, e.what) = p1
      BY DEF SvREFCNT_dec
    <3>2. p1.savestack = p.savestack
      OBVIOUS
    <3> HIDE DEF p1
    <3>3. Restored(p) = [p1 EXCEPT !.savestack = Front(@)]
      BY <1>2, <3>1 DEF Restored
    <3> QED  BY <3>2, <3>3
  <2> HIDE DEF e, f, r, p1, p2
  <2>3. /\ p1 \in State /\ p1.refcnt = r /\ p1.cxs = p.cxs /\ p1.si = p.si
        /\ p1.savestack = p.savestack /\ p1.scopestack = p.scopestack
        /\ p1.top_env = p.top_env /\ p1.in_eval = p.in_eval /\ p1.comppad = p.comppad
        /\ p1.CvDEPTH = p.CvDEPTH /\ p1.padlist = p.padlist /\ p1.named = p.named
        /\ p1.defav = p.defav
    BY <2>1, SetRefcnt DEF p1
  <2>4. /\ p2 \in State /\ p2.refcnt = r /\ p2.cxs = p.cxs /\ p2.si = p.si
        /\ p2.savestack = f /\ p2.scopestack = p.scopestack
        /\ p2.top_env = p.top_env /\ p2.in_eval = p.in_eval /\ p2.comppad = p.comppad
        /\ p2.CvDEPTH = p.CvDEPTH /\ p2.padlist = p.padlist /\ p2.named = p.named
        /\ p2.defav = p.defav
    BY <1>1, <2>3, SetSavestack DEF p2
  <2> QED  BY <1>2, <2>2, <2>4 DEF e, f, r
<1>3. CASE e.save = "COMPPAD"
  <2> DEFINE p1 == [p EXCEPT !.comppad = e.what]
             p2 == [p1 EXCEPT !.savestack = f]
  <2>1. e.what \in Pads
    BY <1>1, <1>3, SaveTypes
  <2>2. Restored(p) = p2
    <3>1. p1.savestack = p.savestack /\ e.save # "FREESV"
      BY <1>3
    <3>2. p1 = [p EXCEPT !.comppad = e.what]
      OBVIOUS
    <3> HIDE DEF p1
    <3>3. Restored(p) = [p1 EXCEPT !.savestack = Front(@)]
      BY <1>3, <3>1, <3>2 DEF Restored
    <3> QED  BY <3>1, <3>3
  <2> HIDE DEF e, f, r, p1, p2
  <2>3. /\ p1 \in State /\ p1.refcnt = p.refcnt /\ p1.cxs = p.cxs /\ p1.si = p.si
        /\ p1.savestack = p.savestack /\ p1.scopestack = p.scopestack
        /\ p1.top_env = p.top_env /\ p1.in_eval = p.in_eval /\ p1.comppad = e.what
        /\ p1.CvDEPTH = p.CvDEPTH /\ p1.padlist = p.padlist /\ p1.named = p.named
        /\ p1.defav = p.defav
    BY <2>1, SetComppad DEF p1
  <2>4. /\ p2 \in State /\ p2.refcnt = p.refcnt /\ p2.cxs = p.cxs /\ p2.si = p.si
        /\ p2.savestack = f /\ p2.scopestack = p.scopestack
        /\ p2.top_env = p.top_env /\ p2.in_eval = p.in_eval /\ p2.comppad = e.what
        /\ p2.CvDEPTH = p.CvDEPTH /\ p2.padlist = p.padlist /\ p2.named = p.named
        /\ p2.defav = p.defav
    BY <1>1, <2>3, SetSavestack DEF p2
  <2> QED  BY <1>3, <2>2, <2>4 DEF e, f
<1> QED  BY <1>1, <1>2, <1>3, SaveTypes

\* The references to a sub that the save stack does not hold.
Due(p, cv) == p.refcnt[cv] - Cardinality(Frees(p.savestack, cv))

\* The pad, as what is saved above m is restored: the lowest one of those saved.
PadLeft(ss, m, cur, a) ==
  /\ \A k \in m + 1 .. Len(ss) :
       ss[k].save = "COMPPAD" /\ (\A j \in m + 1 .. k - 1 : ss[j].save # "COMPPAD")
         => a = ss[k].what
  /\ (\A k \in m + 1 .. Len(ss) : ss[k].save # "COMPPAD") => a = cur

\* What leaving a scope does not touch.
Apart(p, q) ==
  /\ q.cxs = p.cxs /\ q.si = p.si /\ q.top_env = p.top_env /\ q.in_eval = p.in_eval
  /\ q.defav = p.defav /\ q.CvDEPTH = p.CvDEPTH /\ q.padlist = p.padlist /\ q.named = p.named

\* The scope that began with m values saved was left.
ScopeLeft(p, q, m) ==
  /\ q \in State /\ Prefix(p.savestack, q.savestack, m) /\ Apart(p, q)
  /\ PadLeft(p.savestack, m, p.comppad, q.comppad) /\ \A cv \in Cvs : Due(q, cv) = Due(p, cv)

\* One turn of leave_scope.
LEMMA RestoreTurn ==
  ASSUME NEW p, NEW q, NEW m \in Nat, ScopeLeft(p, q, m + 1), m < Len(p.savestack),
         Len(p.savestack) \in Nat
  PROVE  ScopeLeft(p, Restored(q), m) /\ Restored(q).scopestack = q.scopestack
<1> DEFINE r == Restored(q)
           s == p.savestack
           e == s[m + 1]
<1>1. /\ q \in State /\ Prefix(s, q.savestack, m + 1) /\ Apart(p, q)
      /\ PadLeft(s, m + 1, p.comppad, q.comppad) /\ \A cv \in Cvs : Due(q, cv) = Due(p, cv)
  BY DEF ScopeLeft
<1>2. Len(q.savestack) = m + 1 /\ \A i \in 1 .. m + 1 : q.savestack[i] = s[i]
  BY <1>1 DEF Prefix
<1>3. q.savestack \in Seq(Saves) /\ q.refcnt \in [Cvs -> Int] /\ Len(q.savestack) > 0
  BY <1>1, <1>2, StateFields
<1>4. /\ Last(q.savestack) = e /\ e \in Saves /\ Len(Front(q.savestack)) = m
      /\ \A i \in 1 .. m : Front(q.savestack)[i] = q.savestack[i]
  <2>1. /\ Last(q.savestack) = q.savestack[Len(q.savestack)] /\ Last(q.savestack) \in Saves
        /\ Len(Front(q.savestack)) = Len(q.savestack) - 1
        /\ \A i \in 1 .. Len(q.savestack) - 1 : Front(q.savestack)[i] = q.savestack[i]
    BY <1>3, LastFront
  <2>2. m + 1 \in 1 .. m + 1 /\ Len(q.savestack) - 1 = m
    BY <1>2
  <2> QED  BY <1>2, <2>1, <2>2
<1>5. /\ r \in State /\ r.savestack = Front(q.savestack) /\ r.scopestack = q.scopestack
      /\ Apart(q, r) /\ r.comppad = IF e.save = "COMPPAD" THEN e.what ELSE q.comppad
      /\ r.refcnt = IF e.save = "FREESV" THEN [q.refcnt EXCEPT ![e.what] = @ - 1] ELSE q.refcnt
  <2> HIDE DEF r
  <2>1. r = Restored(q)
    BY DEF r
  <2> QED  BY <1>1, <1>3, <1>4, <2>1, RestoredFields DEF Apart
<1> HIDE DEF r
<1>6. Prefix(s, r.savestack, m)
  <2>1. \A i \in 1 .. m : i \in 1 .. m + 1
    OBVIOUS
  <2> QED  BY <1>2, <1>4, <1>5, <2>1 DEF Prefix
<1>7. ASSUME NEW cv \in Cvs
      PROVE  Due(r, cv) = Due(q, cv)
  <2>1. /\ Cardinality(Frees(r.savestack, cv)) \in Nat
        /\ Cardinality(Frees(q.savestack, cv))
             = Cardinality(Frees(r.savestack, cv))
               + (IF q.savestack[Len(q.savestack)] = [save |-> "FREESV", what |-> cv] THEN 1 ELSE 0)
    <3>1. /\ Len(r.savestack) \in Nat /\ Len(q.savestack) = Len(r.savestack) + 1
          /\ \A i \in 1 .. Len(r.savestack) : q.savestack[i] = r.savestack[i]
      BY <1>2, <1>4, <1>5
    <3> DEFINE t == r.savestack
               u == q.savestack
    <3> HIDE DEF t, u
    <3>2. /\ Len(t) \in Nat /\ Len(u) = Len(t) + 1
          /\ \A i \in 1 .. Len(t) : u[i] = t[i]
      BY <3>1 DEF t, u
    <3>3. /\ Cardinality(Frees(t, cv)) \in Nat
          /\ Cardinality(Frees(u, cv))
               = Cardinality(Frees(t, cv))
                 + (IF u[Len(u)] = [save |-> "FREESV", what |-> cv] THEN 1 ELSE 0)
      BY <3>2, FreesGrow
    <3> QED  BY <3>3 DEF t, u
  <2>2. q.savestack[Len(q.savestack)] = e
    <3>1. m + 1 \in 1 .. m + 1
      OBVIOUS
    <3> QED  BY <1>2, <3>1
  <2>3. CASE e = [save |-> "FREESV", what |-> cv]
    <3>1. r.refcnt[cv] = q.refcnt[cv] - 1 /\ q.refcnt[cv] \in Int
      BY <1>3, <1>5, <2>3
    <3>2. Cardinality(Frees(q.savestack, cv)) = Cardinality(Frees(r.savestack, cv)) + 1
      BY <2>1, <2>2, <2>3
    <3>3. \A x, y, z, w : z \in Int /\ w \in Nat /\ x = z - 1 /\ y = w + 1 => x - w = z - y
      OBVIOUS
    <3> QED  BY <2>1, <3>1, <3>2, <3>3 DEF Due
  <2>4. CASE e # [save |-> "FREESV", what |-> cv]
    <3>1. e.save = "FREESV" => e.what \in Cvs /\ e.what # cv
      BY <1>4, <2>4, SaveTypes
    <3>2. r.refcnt[cv] = q.refcnt[cv] /\ q.refcnt[cv] \in Int
      BY <1>3, <1>5, <3>1
    <3> QED  BY <2>1, <2>2, <2>4, <3>2 DEF Due
  <2> QED  BY <2>3, <2>4
<1>8. PadLeft(s, m, p.comppad, r.comppad)
  <2>1. m + 1 \in m + 1 .. Len(s)
    OBVIOUS
  <2>2. ASSUME NEW k \in m + 1 .. Len(s), s[k].save = "COMPPAD",
               \A j \in m + 1 .. k - 1 : s[j].save # "COMPPAD"
        PROVE  r.comppad = s[k].what
    <3>1. CASE k = m + 1
      BY <1>5, <2>2, <3>1
    <3>2. CASE k # m + 1
      <4>1. k \in (m + 1) + 1 .. Len(s) /\ m + 1 \in m + 1 .. k - 1
        BY <3>2
      <4>2. e.save # "COMPPAD" /\ \A j \in (m + 1) + 1 .. k - 1 : s[j].save # "COMPPAD"
        BY <2>2, <4>1
      <4> QED  BY <1>1, <1>5, <2>2, <4>1, <4>2 DEF PadLeft
    <3> QED  BY <3>1, <3>2
  <2>3. ASSUME \A k \in m + 1 .. Len(s) : s[k].save # "COMPPAD"
        PROVE  r.comppad = p.comppad
    <3>1. e.save # "COMPPAD" /\ \A k \in (m + 1) + 1 .. Len(s) : s[k].save # "COMPPAD"
      BY <2>1, <2>3
    <3> QED  BY <1>1, <1>5, <3>1 DEF PadLeft
  <2> QED  BY <2>2, <2>3 DEF PadLeft
<1>9. Apart(p, r)
  BY <1>1, <1>5 DEF Apart
<1> QED  BY <1>1, <1>5, <1>6, <1>7, <1>8, <1>9 DEF ScopeLeft, r

\* What leave_scope does.
LEMMA LeaveScopeKeeps ==
  ASSUME NEW p \in State, NEW m \in Nat, m <= Len(p.savestack)
  PROVE  LET q == LEAVE_SCOPE(p, m)
         IN  ScopeLeft(p, q, m) /\ q.scopestack = p.scopestack
<1> DEFINE n == Len(p.savestack)
           Fine(q, i) == ScopeLeft(p, q, i) /\ q.scopestack = p.scopestack
<1>1. n \in Nat /\ p.savestack \in Seq(Saves)
  BY StateFields, LenProperties
<1>2. PICK f : /\ LEAVE_SCOPE(p, m) = f[m] /\ f[n] = p
               /\ \A k \in m .. n - 1 : f[k] = Restored(f[k + 1])
  BY <1>1, LeaveScopeTurns
<1> DEFINE T == {i \in m .. n : Fine(f[i], i)}
<1>3. n \in T
  <2>1. PadLeft(p.savestack, n, p.comppad, p.comppad)
    <3>1. n + 1 .. n = {}
      BY <1>1
    <3> QED  BY <3>1 DEF PadLeft
  <2>2. Fine(p, n)
    BY <2>1 DEF ScopeLeft, Prefix, Apart
  <2> QED  BY <1>1, <1>2, <2>2
<1>4. ASSUME NEW i \in m .. n - 1, i + 1 \in T
      PROVE  i \in T
  <2> DEFINE q == f[i + 1]
             r == Restored(q)
  <2>1. ScopeLeft(p, q, i + 1) /\ q.scopestack = p.scopestack
    BY <1>4
  <2>2. i \in Nat /\ i \in m .. n /\ i < n
    BY <1>1
  <2>3. f[i] = r
    BY <1>2
  <2> HIDE DEF q
  <2>4. ScopeLeft(p, r, i) /\ r.scopestack = q.scopestack
    BY <1>1, <2>1, <2>2, RestoreTurn
  <2> QED  BY <2>1, <2>2, <2>3, <2>4
<1>5. m \in T
  <2>1. m \in m .. n /\ m \in Int /\ n \in Int
    BY <1>1
  <2> HIDE DEF T, n
  <2> QED  BY <1>3, <1>4, <2>1, Down
<1> QED  BY <1>2, <1>5

LEMMA FreesCount ==
  ASSUME NEW p \in State, NEW cv
  PROVE  Cardinality(Frees(p.savestack, cv)) \in Nat
<1>1. Len(p.savestack) \in Nat
  BY StateFields, LenProperties
<1>2. Frees(p.savestack, cv) \in SUBSET (1 .. Len(p.savestack))
  BY DEF Frees
<1>3. Len(p.savestack) \in Int
  BY <1>1
<1> QED  BY <1>2, <1>3, ToFinite, Zenon

\* The books do not care which way a reference is held.
LEMMA BooksDue ==
  ASSUME NEW u, Books(u), NEW r \in State, r.cxs = u.cxs, r.CvDEPTH = u.CvDEPTH,
         r.defav = u.defav, r.in_eval = u.in_eval, r.named = u.named,
         \A cv \in Cvs : Due(r, cv) = Due(u, cv)
  PROVE  Books(r)
<1> DEFINE n == Len(u.cxs)
<1>1. /\ u \in State /\ Remembers(u.cxs) /\ u.defav = PadIn(u.cxs, ArgsTo(u.cxs, n))
      /\ u.in_eval = (EvalsTo(u.cxs, n) # {})
      /\ \A cv \in Cvs :
           /\ u.CvDEPTH[cv] = Cardinality(FramesTo(u.cxs, cv, n))
           /\ u.refcnt[cv] = Refs(u.named[cv], Cardinality(FramesTo(u.cxs, cv, n)), u.savestack, cv)
  BY DEF Books
<1>2. ASSUME NEW cv \in Cvs
      PROVE  r.refcnt[cv] = Refs(r.named[cv], Cardinality(FramesTo(u.cxs, cv, n)), r.savestack, cv)
  <2>1. /\ Cardinality(Frees(u.savestack, cv)) \in Nat
        /\ Cardinality(Frees(r.savestack, cv)) \in Nat
        /\ u.refcnt[cv] \in Int /\ r.refcnt[cv] \in Int
    BY <1>1, FreesCount, StateFields
  <2>2. r.refcnt[cv] - Cardinality(Frees(r.savestack, cv))
          = u.refcnt[cv] - Cardinality(Frees(u.savestack, cv))
    BY DEF Due
  <2>3. u.refcnt[cv] = Refs(r.named[cv], Cardinality(FramesTo(u.cxs, cv, n)), u.savestack, cv)
    BY <1>1
  <2> DEFINE f == Cardinality(FramesTo(u.cxs, cv, n))
             a == Cardinality(Frees(u.savestack, cv))
             b == Cardinality(Frees(r.savestack, cv))
             held == (IF r.named[cv] THEN 1 ELSE 0) + (IF f > 0 THEN 1 ELSE 0)
  <2>4. u.refcnt[cv] = held + a
    BY <2>3 DEF Refs
  <2>5. held \in Nat
    OBVIOUS
  <2> HIDE DEF held
  <2>6. r.refcnt[cv] = held + b
    BY <2>1, <2>2, <2>4, <2>5
  <2> QED  BY <2>6 DEF Refs, held
<1> QED  BY <1>1, <1>2 DEF Books

LEMMA MoreSaves ==
  ASSUME NEW B, NEW i \in Int, NEW j \in Int, i <= j
  PROVE  SavesTo(B, i) <= SavesTo(B, j)
<1>1. /\ SubsTo(B, i) \subseteq SubsTo(B, j) /\ FirstsTo(B, i) \subseteq FirstsTo(B, j)
  <2>1. \A x \in 1 .. i : x \in 1 .. j
    OBVIOUS
  <2> QED  BY <2>1 DEF SubsTo, FirstsTo
<1>2. SubsTo(B, j) \in SUBSET (1 .. j) /\ FirstsTo(B, j) \in SUBSET (1 .. j)
  BY ToTypes
<1>3. IsFiniteSet(SubsTo(B, j)) /\ IsFiniteSet(FirstsTo(B, j))
  BY <1>2, ToFinite, Zenon
<1>4. /\ Cardinality(SubsTo(B, i)) <= Cardinality(SubsTo(B, j))
      /\ Cardinality(FirstsTo(B, i)) <= Cardinality(FirstsTo(B, j))
  BY <1>1, <1>3, FS_Subset
<1>5. /\ SubsTo(B, i) \in SUBSET (1 .. i) /\ FirstsTo(B, i) \in SUBSET (1 .. i)
  BY ToTypes
<1>6. /\ Cardinality(SubsTo(B, i)) \in Nat /\ Cardinality(SubsTo(B, j)) \in Nat
      /\ Cardinality(FirstsTo(B, i)) \in Nat /\ Cardinality(FirstsTo(B, j)) \in Nat
  BY <1>2, <1>5, ToFinite, Zenon
<1> QED  BY <1>4, <1>6 DEF SavesTo

\* Where there are no subs, nothing is saved.
LEMMA NoSubs ==
  ASSUME NEW B, NEW i \in Int, NEW j \in Int, i <= j, \A k \in i + 1 .. j : B[k].cx.type # "SUB"
  PROVE  SubsTo(B, j) = SubsTo(B, i) /\ ArgsTo(B, j) = ArgsTo(B, i) /\ SavesTo(B, j) = SavesTo(B, i)
<1>1. \A x \in 1 .. j : x \in 1 .. i \/ B[x].cx.type # "SUB"
  OBVIOUS
<1>2. \A x \in 1 .. i : x \in 1 .. j
  OBVIOUS
<1>3. SubsTo(B, j) = SubsTo(B, i)
  BY <1>1, <1>2 DEF SubsTo
<1> QED  BY <1>3 DEF SavesTo, FirstsTo, ArgsTo

\* What the i-th context, a sub, adds to the save stack.
LEMMA SubSaves ==
  ASSUME NEW B, NEW i \in Nat \ {0}, B[i].cx.type = "SUB"
  PROVE  SavesTo(B, i) = SavesTo(B, i - 1) + (IF B[i].cx.olddepth = 0 THEN 2 ELSE 1)
<1> DEFINE k == i - 1
<1>1. k \in Nat /\ k + 1 = i
  OBVIOUS
<1> HIDE DEF k
<1>2. LET b == B[k + 1].cx
      IN  b.type = "SUB" => SavesTo(B, k + 1) = SavesTo(B, k) + (IF b.olddepth = 0 THEN 2 ELSE 1)
  BY <1>1, OneMore
<1> QED  BY <1>1, <1>2 DEF k

\* The pad is that of the last sub that is left.
LEMMA PadRestored ==
  ASSUME NEW p \in State, Saved(p), NEW n \in Nat, n <= Len(p.cxs), NEW a,
         PadLeft(p.savestack, SavesTo(p.cxs, n), p.comppad, a)
  PROVE  a = PadIn(p.cxs, SubsTo(p.cxs, n))
<1> DEFINE B == p.cxs
           s == p.savestack
           m == Len(B)
           old == SavesTo(B, n)
<1>1. m \in Nat /\ old \in Nat
  BY StateFields, LenProperties, ToTypes
<1>2. /\ Len(s) = SavesTo(B, m) /\ p.comppad = PadIn(B, SubsTo(B, m))
      /\ \A i \in SubsTo(B, m) : SavedBy(B, s, i)
  BY DEF Saved
<1> HIDE DEF B, s
<1>3. CASE \A k \in n + 1 .. m : B[k].cx.type # "SUB"
  <2>1. SubsTo(B, m) = SubsTo(B, n) /\ SavesTo(B, m) = old
    <3>1. n \in Int /\ m \in Int /\ n <= m
      BY <1>1 DEF B
    <3> HIDE DEF m
    <3> QED  BY <1>3, <3>1, NoSubs
  <2>2. old + 1 .. Len(s) = {}
    BY <1>1, <1>2, <2>1
  <2>3. a = p.comppad
    BY <2>2 DEF PadLeft, s, B
  <2> QED  BY <1>2, <2>1, <2>3 DEF B
<1>4. CASE \E k \in n + 1 .. m : B[k].cx.type = "SUB"
  <2> DEFINE S == {k \in n + 1 .. m : B[k].cx.type = "SUB"}
  <2>1. PICK i \in S : \A j \in S : i <= j
    <3>1. S \in SUBSET Nat /\ S # {}
      BY <1>1, <1>4
    <3> HIDE DEF S
    <3> QED  BY <3>1, Smallest
  <2>2. /\ i \in Nat \ {0} /\ n <= i - 1 /\ i <= m /\ B[i].cx.type = "SUB" /\ i - 1 \in Int
        /\ \A k \in n + 1 .. i - 1 : B[k].cx.type # "SUB"
    <3>1. i \in n + 1 .. m /\ B[i].cx.type = "SUB"
      OBVIOUS
    <3>2. ASSUME NEW k \in n + 1 .. i - 1, B[k].cx.type = "SUB"
          PROVE  FALSE
      <4>1. k \in S /\ k < i
        BY <1>1, <3>1, <3>2
      <4> QED  BY <2>1, <4>1
    <3> QED  BY <1>1, <3>1, <3>2
  <2>3. SubsTo(B, i - 1) = SubsTo(B, n) /\ SavesTo(B, i - 1) = old
    <3>1. n \in Int
      OBVIOUS
    <3> QED  BY <2>2, <3>1, NoSubs
  <2> DEFINE d == B[i].cx.olddepth
             k == old + (IF d = 0 THEN 2 ELSE 1)
             pad == [save |-> "COMPPAD", what |-> PadIn(B, SubsTo(B, n))]
  <2>4. k \in old + 1 .. Len(s)
    <3>1. SavesTo(B, i) = k
      BY <2>2, <2>3, SubSaves
    <3>2. SavesTo(B, i) <= SavesTo(B, m)
      BY <1>1, <2>2, MoreSaves
    <3> QED  BY <1>1, <1>2, <3>1, <3>2
  <2>5. SavedBy(B, s, i)
    <3>1. i \in SubsTo(B, m)
      BY <2>2 DEF SubsTo
    <3> QED  BY <1>2, <3>1
  <2>6. s[k] = pad /\ \A j \in old + 1 .. k - 1 : s[j].save # "COMPPAD"
    <3>1. CASE d = 0
      <4>1. s[old + 1].save = "FREESV" /\ s[old + 2] = pad
        BY <2>3, <2>5, <3>1 DEF SavedBy
      <4>2. k = old + 2 /\ \A j \in old + 1 .. k - 1 : j = old + 1
        BY <1>1, <3>1
      <4> QED  BY <4>1, <4>2
    <3>2. CASE d # 0
      <4>1. s[old + 1] = pad
        BY <2>3, <2>5, <3>2 DEF SavedBy
      <4>2. k = old + 1 /\ old + 1 .. k - 1 = {}
        BY <1>1, <3>2
      <4> QED  BY <4>1, <4>2
    <3> QED  BY <3>1, <3>2
  <2> HIDE DEF k, old
  <2>7. PadLeft(s, old, p.comppad, a)
    BY DEF s, B, old
  <2>8. a = s[k].what
    BY <2>4, <2>6, <2>7 DEF PadLeft
  <2> QED  BY <2>6, <2>8 DEF B
<1> QED  BY <1>3, <1>4

\* A state with the first n contexts of another, and the scopes they were entered with.
Remains(p, r, n, s) ==
  /\ Prefix(p.cxs, r.cxs, n) /\ Prefix(p.scopestack, r.scopestack, s) /\ r.padlist = p.padlist
  /\ \A i \in 1 .. n : p.cxs[i].oldscopesp <= s

\* What a context has saved is there as long as it is.
LEMMA SavedByKept ==
  ASSUME NEW B, NEW C, NEW n \in Nat, \A i \in 1 .. n : C[i] = B[i], NEW ss, NEW tt,
         \A x \in 1 .. SavesTo(B, n) : tt[x] = ss[x], NEW i \in SubsTo(B, n), SavedBy(B, ss, i)
  PROVE  SavedBy(C, tt, i)
<1> DEFINE old == SavesTo(B, i - 1)
           k == i - 1
<1>1. i \in 1 .. n /\ B[i].cx.type = "SUB"
  BY DEF SubsTo
<1>2. /\ i \in Nat \ {0} /\ k \in Nat /\ k <= n /\ i <= n /\ k \in Int /\ i \in Int
      /\ n \in Int /\ C[i] = B[i]
  BY <1>1
<1>3. SubsTo(C, k) = SubsTo(B, k) /\ SavesTo(C, k) = SavesTo(B, k)
  <2> HIDE DEF k
  <2> QED  BY <1>2, SameTo
<1>4. PadIn(C, SubsTo(B, k)) = PadIn(B, SubsTo(B, k))
  <2>1. SubsTo(B, k) \in SUBSET (1 .. n)
    <3>1. SubsTo(B, k) \in SUBSET (1 .. k)
      BY ToTypes
    <3> QED  BY <1>2, <3>1
  <2> HIDE DEF k
  <2> QED  BY <2>1, SamePad, Zenon
<1>5. /\ old + 1 \in 1 .. SavesTo(B, n)
      /\ B[i].cx.olddepth = 0 => old + 2 \in 1 .. SavesTo(B, n)
  <2>1. SavesTo(B, i) = old + (IF B[i].cx.olddepth = 0 THEN 2 ELSE 1)
    BY <1>1, <1>2, SubSaves
  <2>2. SavesTo(B, i) <= SavesTo(B, n) /\ old \in Nat /\ SavesTo(B, n) \in Nat
    BY <1>2, MoreSaves, ToTypes
  <2> HIDE DEF old
  <2> QED  BY <2>1, <2>2
<1>6. /\ tt[old + 1] = ss[old + 1]
      /\ B[i].cx.olddepth = 0 => tt[old + 2] = ss[old + 2]
  <2> HIDE DEF old
  <2> QED  BY <1>5
<1>7. /\ C[i] = B[i] /\ SavesTo(C, i - 1) = SavesTo(B, i - 1)
      /\ PadIn(C, SubsTo(C, i - 1)) = PadIn(B, SubsTo(B, i - 1))
      /\ tt[SavesTo(B, i - 1) + 1] = ss[SavesTo(B, i - 1) + 1]
      /\ B[i].cx.olddepth = 0 => tt[SavesTo(B, i - 1) + 2] = ss[SavesTo(B, i - 1) + 2]
  BY <1>2, <1>3, <1>4, <1>6
<1> HIDE DEF old, k
<1> QED  BY <1>7 DEF SavedBy

\* What was saved when they were the only ones is saved still.
LEMMA SavedRemains ==
  ASSUME NEW p \in State, Saved(p), NEW r \in State, NEW n \in Nat, n <= Len(p.cxs),
         NEW s \in Nat, s <= Len(p.scopestack), Remains(p, r, n, s),
         Prefix(p.savestack, r.savestack, SavesTo(p.cxs, n)),
         \A x \in 1 .. s : p.scopestack[x] <= SavesTo(p.cxs, n),
         r.comppad = PadIn(p.cxs, SubsTo(p.cxs, n))
  PROVE  Saved(r)
<1> DEFINE B  == p.cxs
           C  == r.cxs
           sc == p.scopestack
           ss == p.savestack
           m  == SavesTo(B, n)
<1>1. /\ Len(C) = n /\ \A i \in 1 .. n : C[i] = B[i]
      /\ Len(r.scopestack) = s /\ \A i \in 1 .. s : r.scopestack[i] = sc[i]
      /\ Len(r.savestack) = m /\ \A i \in 1 .. m : r.savestack[i] = ss[i]
      /\ r.padlist = p.padlist /\ \A i \in 1 .. n : B[i].oldscopesp <= s
  BY DEF Remains, Prefix
<1>2. /\ Len(B) \in Nat /\ m \in Nat /\ n \in Int /\ Len(sc) \in Nat
  BY StateFields, LenProperties, ToTypes
<1>3. /\ Scoped(B, sc) /\ Len(ss) = SavesTo(B, Len(B)) /\ \A cv \in Cvs : p.padlist[cv] >= 1
      /\ \A x \in 1 .. Len(sc) : sc[x] <= Len(ss) /\ \A y \in x .. Len(sc) : sc[x] <= sc[y]
      /\ \A i \in SubsTo(B, Len(B)) : /\ SavedBy(B, ss, i)
                                      /\ B[i].cx.olddepth + 1 <= p.padlist[B[i].cx.cv]
                                      /\ B[i].cx.hasargs = ~B[i].cx.multicall
  BY DEF Saved
<1> DEFINE a == r.comppad
<1>4. \A x \in 1 .. s : sc[x] <= m
  OBVIOUS
<1>5. a = PadIn(B, SubsTo(B, n))
  OBVIOUS
<1> HIDE DEF B, C, sc, ss, m, a
<1>6. \A k \in Int : k <= n => SubsTo(C, k) = SubsTo(B, k) /\ SavesTo(C, k) = SavesTo(B, k)
  BY <1>1, <1>2, SameTo, ZenonT(60)
<1>7. \A k \in Nat : k <= n => PadIn(C, SubsTo(C, k)) = PadIn(B, SubsTo(B, k))
  <2> SUFFICES ASSUME NEW k \in Nat, k <= n
               PROVE  PadIn(C, SubsTo(C, k)) = PadIn(B, SubsTo(B, k))
    OBVIOUS
  <2>1. SubsTo(B, k) \in SUBSET (1 .. n)
    <3>1. SubsTo(B, k) \in SUBSET (1 .. k)
      BY ToTypes
    <3> QED  BY <3>1
  <2>2. PadIn(C, SubsTo(B, k)) = PadIn(B, SubsTo(B, k))
    BY <1>1, <2>1, SamePad, ZenonT(60)
  <2>3. SubsTo(C, k) = SubsTo(B, k)
    BY <1>6
  <2> QED  BY <2>2, <2>3
<1>8. Scoped(C, r.scopestack)
  <2> SUFFICES ASSUME NEW i \in 1 .. n
               PROVE  /\ C[i].oldscopesp \in 1 .. s
                      /\ r.scopestack[C[i].oldscopesp] = SavesTo(C, i - 1)
                      /\ \A j \in 1 .. i - 1 : C[j].oldscopesp < C[i].oldscopesp
    BY <1>1 DEF Scoped
  <2>1. i \in 1 .. Len(B) /\ i - 1 \in Int /\ i - 1 <= n /\ \A j \in 1 .. i - 1 : j \in 1 .. n
    BY <1>2 DEF B
  <2>2. /\ B[i].oldscopesp \in 1 .. Len(sc) /\ sc[B[i].oldscopesp] = SavesTo(B, i - 1)
        /\ \A j \in 1 .. i - 1 : B[j].oldscopesp < B[i].oldscopesp
    BY <1>3, <2>1 DEF Scoped
  <2>3. C[i] = B[i] /\ B[i].oldscopesp <= s /\ SavesTo(C, i - 1) = SavesTo(B, i - 1)
    BY <1>1, <1>6, <2>1
  <2>4. B[i].oldscopesp \in 1 .. s
    BY <1>2, <2>2, <2>3
  <2>5. \A j \in 1 .. i - 1 : C[j] = B[j]
    BY <1>1, <2>1
  <2> QED  BY <1>1, <2>2, <2>3, <2>4, <2>5
<1>9. \A x \in 1 .. s : /\ r.scopestack[x] <= m
                        /\ \A y \in x .. s : r.scopestack[x] <= r.scopestack[y]
  <2> SUFFICES ASSUME NEW x \in 1 .. s
               PROVE  /\ r.scopestack[x] <= m
                      /\ \A y \in x .. s : r.scopestack[x] <= r.scopestack[y]
    OBVIOUS
  <2>1. s <= Len(sc) /\ s \in Nat
    BY DEF sc
  <2>2. x \in 1 .. Len(sc) /\ \A y \in x .. s : y \in x .. Len(sc) /\ y \in 1 .. s
    BY <1>2, <2>1
  <2> QED  BY <1>1, <1>3, <1>4, <2>2
<1>10. m = SavesTo(C, n) /\ a = PadIn(C, SubsTo(C, n))
  BY <1>2, <1>5, <1>6, <1>7 DEF m
<1>11. ASSUME NEW i \in SubsTo(C, n)
       PROVE  /\ SavedBy(C, r.savestack, i)
              /\ C[i].cx.olddepth + 1 <= r.padlist[C[i].cx.cv]
              /\ C[i].cx.hasargs = ~C[i].cx.multicall
  <2>1. i \in 1 .. n /\ C[i].cx.type = "SUB"
    BY DEF SubsTo
  <2>2. /\ i \in Nat \ {0} /\ i - 1 \in Nat /\ i - 1 <= n /\ i <= n /\ i - 1 \in Int /\ i \in Int
        /\ n <= Len(B)
    BY <2>1 DEF B
  <2>3. C[i] = B[i] /\ i \in SubsTo(B, Len(B))
    <3>1. C[i] = B[i]
      BY <1>1, <2>1
    <3>2. i \in 1 .. Len(B)
      BY <1>2, <2>2
    <3> QED  BY <2>1, <3>1, <3>2 DEF SubsTo
  <2>4. SavedBy(B, ss, i)
    BY <1>3, <2>3
  <2>5. i \in SubsTo(B, n) /\ \A x \in 1 .. SavesTo(B, n) : r.savestack[x] = ss[x]
    BY <1>1, <2>1, <2>3 DEF SubsTo, m
  <2>8. SavedBy(C, r.savestack, i)
    BY <1>1, <2>4, <2>5, SavedByKept
  <2> QED  BY <1>1, <1>3, <2>3, <2>8
<1>12. Len(C) = n /\ Len(r.scopestack) = s /\ Len(r.savestack) = m
  BY <1>1
<1>13. \A cv \in Cvs : r.padlist[cv] >= 1
  BY <1>1, <1>3
<1> QED  BY <1>8, <1>9, <1>10, <1>11, <1>12, <1>13 DEF Saved, C, a

\* The stacks that are left are as they were.
LEMMA StacksRemain ==
  ASSUME NEW p \in State, Stacks(p), NEW r, NEW n \in Nat, n <= Len(p.cxs),
         NEW s \in Nat, Remains(p, r, n, s), NEW k \in 1 .. Len(p.si), Prefix(p.si, r.si, k),
         \A j \in 2 .. k : p.si[j] < n
  PROVE  Stacks(r)
<1> DEFINE B  == p.cxs
           C  == r.cxs
           sc == p.scopestack
           si == p.si
<1>1. /\ Len(C) = n /\ \A i \in 1 .. n : C[i] = B[i]
      /\ Len(r.scopestack) = s /\ \A i \in 1 .. s : r.scopestack[i] = sc[i]
      /\ \A i \in 1 .. n : B[i].oldscopesp <= s
      /\ Len(r.si) = k /\ \A j \in 1 .. k : r.si[j] = si[j]
  BY DEF Remains, Prefix
<1>2. B \in Seq(Blocks) /\ si \in Seq(Nat) /\ Len(si) \in Nat /\ Len(B) \in Nat
  BY StateFields, LenProperties
<1>3. /\ Stacked(B, si)
      /\ \A j \in 2 .. Len(si) : B[si[j] + 1].cx.multicall \/ ExtraScope(B, sc, si[j] + 1)
  BY DEF Stacks
<1>4. n <= Len(B) /\ k \in Nat \ {0} /\ k <= Len(si) /\ \A j \in 2 .. k : si[j] < n
  OBVIOUS
<1> HIDE DEF B, C, sc, si
<1>5. ASSUME NEW j \in 2 .. k
      PROVE  /\ j \in 1 .. k /\ r.si[j] = si[j] /\ si[j] \in Nat /\ si[j] < n
             /\ C[si[j] + 1] = B[si[j] + 1] /\ si[j] + 1 \in 1 .. n /\ j \in 2 .. Len(si)
             /\ \A l \in 1 .. j - 1 : r.si[l] = si[l]
             /\ \A l \in 2 .. j - 1 : r.si[l] = si[l]
  <2>1. j \in 1 .. k /\ j \in 1 .. Len(si) /\ j \in 2 .. Len(si)
        /\ (\A l \in 1 .. j - 1 : l \in 1 .. k) /\ \A l \in 2 .. j - 1 : l \in 1 .. k
    BY <1>2, <1>4
  <2>2. si[j] \in Nat /\ si[j] < n
    BY <1>2, <1>4, <2>1, ElementOfSeq
  <2> QED  BY <1>1, <2>1, <2>2
<1>6. Stacked(C, r.si)
  <2>1. r.si # <<>> /\ r.si[1] = 0
    <3>1. Len(r.si) # 0 /\ 1 \in 1 .. k
      BY <1>1, <1>4
    <3>2. si[1] = 0
      BY <1>3 DEF Stacked
    <3> QED  BY <1>1, <3>1, <3>2
  <2>2. ASSUME NEW j \in 2 .. k
        PROVE  /\ r.si[j] < n /\ C[r.si[j] + 1].cx.type = "SUB"
               /\ \A l \in 1 .. j - 1 : r.si[l] <= r.si[j]
               /\ \A l \in 2 .. j - 1 : r.si[l] < r.si[j]
    <3>1. /\ B[si[j] + 1].cx.type = "SUB" /\ \A l \in 1 .. j - 1 : si[l] <= si[j]
          /\ \A l \in 2 .. j - 1 : si[l] < si[j]
      BY <1>3, <1>5 DEF Stacked
    <3> QED  BY <1>5, <3>1
  <2> QED  BY <1>1, <2>1, <2>2 DEF Stacked
<1>7. ASSUME NEW j \in 2 .. k
      PROVE  C[r.si[j] + 1].cx.multicall \/ ExtraScope(C, r.scopestack, r.si[j] + 1)
  <2> DEFINE i == si[j] + 1
  <2>1. C[i] = B[i] /\ r.si[j] + 1 = i /\ i \in 1 .. n
    BY <1>5
  <2>2. B[i].cx.multicall \/ ExtraScope(B, sc, i)
    BY <1>3, <1>5
  <2>3. ASSUME ExtraScope(B, sc, i)
        PROVE  ExtraScope(C, r.scopestack, i)
    <3> HIDE DEF i
    <3>1. /\ B[i].oldscopesp >= 2 /\ sc[B[i].oldscopesp - 1] = SavesTo(B, i - 1)
          /\ \A l \in 1 .. i - 1 : B[l].oldscopesp < B[i].oldscopesp - 1
      BY <2>3 DEF ExtraScope
    <3>2. /\ i - 1 \in Int /\ n \in Int /\ i - 1 <= n /\ i \in 1 .. Len(B)
          /\ \A l \in 1 .. i - 1 : l \in 1 .. n
      <4> DEFINE m == Len(B)
      <4>1. m \in Nat /\ n <= m /\ n \in Nat /\ i \in 1 .. n
        BY <1>2, <1>4, <2>1
      <4> HIDE DEF m
      <4>2. i - 1 \in Int /\ n \in Int /\ i - 1 <= n /\ i \in 1 .. m
        BY <4>1
      <4>3. \A l \in 1 .. i - 1 : l \in 1 .. n
        BY <4>1
      <4> QED  BY <4>2, <4>3 DEF m
    <3>3. B[i].oldscopesp \in Nat /\ B[i].oldscopesp <= s
      BY <1>1, <1>2, <2>1, <3>2, ElementOfSeq, BlockTypes
    <3>4. B[i].oldscopesp - 1 \in 1 .. s
      BY <3>1, <3>3
    <3>5. SavesTo(C, i - 1) = SavesTo(B, i - 1)
      BY <1>1, <3>2, SameTo, ZenonT(60)
    <3>6. \A l \in 1 .. i - 1 : C[l] = B[l]
      BY <1>1, <3>2
    <3> QED  BY <1>1, <2>1, <3>1, <3>4, <3>5, <3>6 DEF ExtraScope
  <2> QED  BY <2>1, <2>2, <2>3
<1> QED  BY <1>1, <1>6, <1>7 DEF Stacks, C

-----------------------------------------------------------------------------
(* Leaving a context with its scope.                                       *)

LEMMA LeaveFields ==
  ASSUME NEW q \in State, Len(q.scopestack) > 0, Last(q.scopestack) <= Len(q.savestack)
  PROVE  /\ ScopeLeft(q, LEAVE(q), Last(q.scopestack))
         /\ LEAVE(q).scopestack = Front(q.scopestack)
<1> DEFINE m == Last(q.scopestack)
           a == LEAVE_SCOPE(q, m)
           f == Front(q.scopestack)
           r == [a EXCEPT !.scopestack = f]
<1>1. m \in Nat /\ f \in Seq(Nat)
  BY StateFields, LastFront
<1>2. ScopeLeft(q, a, m) /\ a.scopestack = q.scopestack
  <2> HIDE DEF m, a
  <2>1. m <= Len(q.savestack)
    BY DEF m
  <2>2. a = LEAVE_SCOPE(q, m)
    BY DEF a
  <2> QED  BY <1>1, <2>1, <2>2, LeaveScopeKeeps
<1>3. LEAVE(q) = r
  BY <1>2 DEF LEAVE
<1> HIDE DEF a, m, f, r
<1>4. a \in State /\ Prefix(q.savestack, a.savestack, m) /\ Apart(q, a)
      /\ PadLeft(q.savestack, m, q.comppad, a.comppad) /\ \A cv \in Cvs : Due(a, cv) = Due(q, cv)
  BY <1>2 DEF ScopeLeft
<1>5. /\ r \in State /\ r.scopestack = f /\ Apart(a, r) /\ r.savestack = a.savestack
      /\ r.comppad = a.comppad /\ r.refcnt = a.refcnt
  BY <1>1, <1>4, SetScopestack DEF r, Apart
<1>6. Apart(q, r) /\ \A cv \in Cvs : Due(r, cv) = Due(q, cv)
  BY <1>4, <1>5 DEF Apart, Due
<1>7. ScopeLeft(q, r, m)
  BY <1>4, <1>5, <1>6 DEF ScopeLeft
<1> QED  BY <1>3, <1>5, <1>7 DEF m, f

LEMMA PopBlockFields ==
  ASSUME NEW q \in State, Len(q.cxs) > 0, Last(q.cxs).oldscopesp <= Len(q.scopestack)
  PROVE  LET r == POPBLOCK(q)
             o == Last(q.cxs).oldscopesp
         IN  /\ r \in State /\ r.cxs = Front(q.cxs) /\ Prefix(q.scopestack, r.scopestack, o)
             /\ r.si = q.si /\ r.savestack = q.savestack /\ r.top_env = q.top_env
             /\ r.in_eval = q.in_eval /\ r.comppad = q.comppad /\ r.defav = q.defav
             /\ r.CvDEPTH = q.CvDEPTH /\ r.refcnt = q.refcnt /\ r.padlist = q.padlist
             /\ r.named = q.named
<1> DEFINE o  == Last(q.cxs).oldscopesp
           c  == Front(q.cxs)
           s  == SubSeq(q.scopestack, 1, o)
           q1 == [q EXCEPT !.cxs = c]
           r  == [q1 EXCEPT !.scopestack = s]
<1>1. Last(q.cxs) \in Blocks /\ c \in Seq(Blocks) /\ q.scopestack \in Seq(Nat)
  BY StateFields, LastFront
<1>2. o \in Nat
  BY <1>1, BlockTypes
<1>3. o <= Len(q.scopestack)
  OBVIOUS
<1>4. POPBLOCK(q) = r
  BY DEF POPBLOCK
<1> HIDE DEF o, c, s, q1, r
<1>5. s \in Seq(Nat) /\ Prefix(q.scopestack, s, o)
  BY <1>1, <1>2, <1>3, CutSeq DEF s, Prefix
<1>6. /\ q1 \in State /\ q1.cxs = c /\ q1.scopestack = q.scopestack
      /\ q1.si = q.si /\ q1.savestack = q.savestack /\ q1.top_env = q.top_env
      /\ q1.in_eval = q.in_eval /\ q1.comppad = q.comppad /\ q1.defav = q.defav
      /\ q1.CvDEPTH = q.CvDEPTH /\ q1.refcnt = q.refcnt /\ q1.padlist = q.padlist
      /\ q1.named = q.named
  BY <1>1, SetCxs DEF q1
<1>7. /\ r \in State /\ r.cxs = c /\ r.scopestack = s
      /\ r.si = q.si /\ r.savestack = q.savestack /\ r.top_env = q.top_env
      /\ r.in_eval = q.in_eval /\ r.comppad = q.comppad /\ r.defav = q.defav
      /\ r.CvDEPTH = q.CvDEPTH /\ r.refcnt = q.refcnt /\ r.padlist = q.padlist
      /\ r.named = q.named
  BY <1>5, <1>6, SetScopestack DEF r
<1> QED  BY <1>4, <1>5, <1>7 DEF o, c

\* The last context was left, and the scopes from s + 1 on, since when m values were saved:
\* as by dounwind, but for the references that the save stack held.
Leaves(q, t, m, s) ==
  LET u == Unwound(q)
  IN  /\ t \in State /\ t.cxs = u.cxs /\ t.CvDEPTH = u.CvDEPTH /\ t.defav = u.defav
      /\ t.in_eval = u.in_eval /\ t.named = u.named /\ \A cv \in Cvs : Due(t, cv) = Due(u, cv)
      /\ Prefix(q.savestack, t.savestack, m) /\ PadLeft(q.savestack, m, q.comppad, t.comppad)
      /\ Prefix(q.scopestack, t.scopestack, s) /\ t.padlist = q.padlist

\* POPBLOCK and LEAVE.
LEMMA BlockLeft ==
  ASSUME NEW q \in State, Len(q.cxs) > 0, NEW o, o = Last(q.cxs).oldscopesp,
         o \in 1 .. Len(q.scopestack), NEW m, m = q.scopestack[o], m <= Len(q.savestack),
         NEW v \in BOOLEAN
  PROVE  LET b == [POPBLOCK(q) EXCEPT !.in_eval = v]
             t == LEAVE(b)
         IN  /\ ScopeLeft(b, t, m) /\ Prefix(q.scopestack, t.scopestack, o - 1)
             /\ b \in State /\ b.cxs = Front(q.cxs)
             /\ b.si = q.si /\ b.savestack = q.savestack /\ b.top_env = q.top_env
             /\ b.in_eval = v /\ b.comppad = q.comppad /\ b.defav = q.defav
             /\ b.CvDEPTH = q.CvDEPTH /\ b.refcnt = q.refcnt /\ b.padlist = q.padlist
             /\ b.named = q.named
<1> DEFINE a == POPBLOCK(q)
           b == [a EXCEPT !.in_eval = v]
           t == LEAVE(b)
<1>1. Len(q.scopestack) \in Nat /\ q.scopestack \in Seq(Nat)
  BY StateFields, LenProperties
<1>2. o \in Nat \ {0} /\ o <= Len(q.scopestack)
  BY <1>1
<1>3. /\ a \in State /\ a.cxs = Front(q.cxs) /\ Prefix(q.scopestack, a.scopestack, o)
      /\ a.si = q.si /\ a.savestack = q.savestack /\ a.top_env = q.top_env
      /\ a.comppad = q.comppad /\ a.defav = q.defav
      /\ a.CvDEPTH = q.CvDEPTH /\ a.refcnt = q.refcnt /\ a.padlist = q.padlist
      /\ a.named = q.named
  <2>1. Last(q.cxs).oldscopesp <= Len(q.scopestack)
    BY <1>2
  <2> HIDE DEF a
  <2> QED  BY <2>1, PopBlockFields DEF a
<1>4. /\ b \in State /\ b.cxs = Front(q.cxs) /\ Prefix(q.scopestack, b.scopestack, o)
      /\ b.si = q.si /\ b.savestack = q.savestack /\ b.top_env = q.top_env
      /\ b.in_eval = v /\ b.comppad = q.comppad /\ b.defav = q.defav
      /\ b.CvDEPTH = q.CvDEPTH /\ b.refcnt = q.refcnt /\ b.padlist = q.padlist
      /\ b.named = q.named
  <2> HIDE DEF a, b
  <2> QED  BY <1>3, SetInEval DEF b
<1> HIDE DEF a, b, t
<1>5. /\ Len(b.scopestack) = o /\ \A i \in 1 .. o : b.scopestack[i] = q.scopestack[i]
      /\ b.scopestack \in Seq(Nat) /\ Len(b.scopestack) > 0
  BY <1>2, <1>4, StateFields DEF Prefix
<1>6. /\ Last(b.scopestack) = m /\ Len(Front(b.scopestack)) = o - 1
      /\ \A i \in 1 .. o - 1 : Front(b.scopestack)[i] = b.scopestack[i]
  <2>1. /\ Last(b.scopestack) = b.scopestack[Len(b.scopestack)]
        /\ Len(Front(b.scopestack)) = Len(b.scopestack) - 1
        /\ \A i \in 1 .. Len(b.scopestack) - 1 : Front(b.scopestack)[i] = b.scopestack[i]
    BY <1>5, LastFront
  <2>2. o \in 1 .. o
    BY <1>2
  <2> QED  BY <1>5, <2>1, <2>2
<1>7. Last(b.scopestack) <= Len(b.savestack)
  BY <1>4, <1>6
<1>8. ScopeLeft(b, t, m) /\ t.scopestack = Front(b.scopestack)
  BY <1>4, <1>5, <1>6, <1>7, LeaveFields DEF t
<1>9. Prefix(q.scopestack, t.scopestack, o - 1)
  <2>1. \A i \in 1 .. o - 1 : i \in 1 .. o
    BY <1>2
  <2> QED  BY <1>5, <1>6, <1>8, <2>1 DEF Prefix
<1> QED  BY <1>4, <1>8, <1>9 DEF t, b, a

\* leavetry: the block and its scope are left.
LEMMA EvalLeft ==
  ASSUME NEW q \in State, Len(q.cxs) > 0, NEW o, o = Last(q.cxs).oldscopesp,
         o \in 1 .. Len(q.scopestack), NEW m, m = q.scopestack[o], m <= Len(q.savestack),
         Last(q.cxs).cx.type = "EVAL"
  PROVE  LET t == LEAVE(POPEVAL(POPBLOCK(q), Last(q.cxs).cx))
         IN  Leaves(q, t, m, o - 1) /\ t.si = q.si /\ t.top_env = q.top_env
<1> DEFINE cx == Last(q.cxs).cx
           v == cx.old_in_eval
           b == [POPBLOCK(q) EXCEPT !.in_eval = v]
           t == LEAVE(b)
           u == Unwound(q)
<1>1. LEAVE(POPEVAL(POPBLOCK(q), cx)) = t
  BY DEF POPEVAL
<1>2. v \in BOOLEAN
  <2>1. Last(q.cxs) \in Blocks
    BY StateFields, LastFront
  <2> QED  BY <2>1, BlockTypes
<1>3. /\ u.cxs = Front(q.cxs) /\ u.CvDEPTH = q.CvDEPTH /\ u.defav = q.defav
      /\ u.refcnt = q.refcnt /\ u.in_eval = v /\ u.savestack = q.savestack
      /\ u.named = q.named
  <2> HIDE DEF u
  <2> QED  BY UnwoundFields DEF u
<1>4. /\ ScopeLeft(b, t, m) /\ Prefix(q.scopestack, t.scopestack, o - 1)
      /\ b.cxs = Front(q.cxs)
      /\ b.si = q.si /\ b.savestack = q.savestack /\ b.top_env = q.top_env
      /\ b.in_eval = v /\ b.comppad = q.comppad /\ b.defav = q.defav
      /\ b.CvDEPTH = q.CvDEPTH /\ b.refcnt = q.refcnt /\ b.padlist = q.padlist
      /\ b.named = q.named
  <2> HIDE DEF v, b, t
  <2> QED  BY <1>2, BlockLeft DEF t, b
<1> HIDE DEF b, t, u, v, cx
<1>5. /\ t \in State /\ Prefix(q.savestack, t.savestack, m) /\ Apart(b, t)
      /\ PadLeft(q.savestack, m, q.comppad, t.comppad)
      /\ \A cv \in Cvs : Due(t, cv) = Due(b, cv)
  BY <1>4 DEF ScopeLeft
<1>6. \A cv \in Cvs : Due(b, cv) = Due(u, cv)
  BY <1>3, <1>4 DEF Due
<1>7. Leaves(q, t, m, o - 1) /\ t.si = q.si /\ t.top_env = q.top_env
  BY <1>3, <1>4, <1>5, <1>6 DEF Leaves, Apart, u
<1> QED  BY <1>1, <1>7 DEF cx

\* leaveloop, and last.
LEMMA LoopLeft ==
  ASSUME NEW q \in State, Len(q.cxs) > 0, NEW o, o = Last(q.cxs).oldscopesp,
         o \in 1 .. Len(q.scopestack), NEW m, m = q.scopestack[o], m <= Len(q.savestack),
         Last(q.cxs).cx.type = "LOOP"
  PROVE  LET t == LEAVE(POPBLOCK(q))
         IN  Leaves(q, t, m, o - 1) /\ t.si = q.si /\ t.top_env = q.top_env
<1> DEFINE v == q.in_eval
           b == [POPBLOCK(q) EXCEPT !.in_eval = v]
           t == LEAVE(b)
           u == Unwound(q)
<1>1. LEAVE(POPBLOCK(q)) = t
  <2>1. POPBLOCK(q) \in State /\ POPBLOCK(q).in_eval = v
    <3>1. o <= Len(q.scopestack)
      BY StateFields, LenProperties
    <3> QED  BY <3>1, PopBlockFields
  <2>2. \A a \in State : [a EXCEPT !.in_eval = a.in_eval] = a
    BY DEF State
  <2>3. b = POPBLOCK(q)
    BY <2>1, <2>2
  <2> QED  BY <2>3
<1>2. v \in BOOLEAN
  BY StateFields
<1>3. /\ u.cxs = Front(q.cxs) /\ u.CvDEPTH = q.CvDEPTH /\ u.defav = q.defav
      /\ u.refcnt = q.refcnt /\ u.in_eval = v /\ u.savestack = q.savestack
      /\ u.named = q.named
  <2> HIDE DEF u
  <2> QED  BY UnwoundFields DEF u
<1>4. /\ ScopeLeft(b, t, m) /\ Prefix(q.scopestack, t.scopestack, o - 1)
      /\ b.cxs = Front(q.cxs)
      /\ b.si = q.si /\ b.savestack = q.savestack /\ b.top_env = q.top_env
      /\ b.in_eval = v /\ b.comppad = q.comppad /\ b.defav = q.defav
      /\ b.CvDEPTH = q.CvDEPTH /\ b.refcnt = q.refcnt /\ b.padlist = q.padlist
      /\ b.named = q.named
  <2> HIDE DEF v, b, t
  <2> QED  BY <1>2, BlockLeft DEF t, b
<1> HIDE DEF b, t, u, v
<1>5. /\ t \in State /\ Prefix(q.savestack, t.savestack, m) /\ Apart(b, t)
      /\ PadLeft(q.savestack, m, q.comppad, t.comppad)
      /\ \A cv \in Cvs : Due(t, cv) = Due(b, cv)
  BY <1>4 DEF ScopeLeft
<1>6. \A cv \in Cvs : Due(b, cv) = Due(u, cv)
  BY <1>3, <1>4 DEF Due
<1>7. Leaves(q, t, m, o - 1) /\ t.si = q.si /\ t.top_env = q.top_env
  BY <1>3, <1>4, <1>5, <1>6 DEF Leaves, Apart, u
<1> QED  BY <1>1, <1>7

\* The sub's context is popped as its scope was left.
LEMMA SubPopped ==
  ASSUME NEW p \in State, NEW cx \in SubCx
  PROVE  LET t == LEAVESUB(POPSUB(p, cx), cx)
         IN  /\ t \in State /\ t.cxs = p.cxs /\ t.si = p.si /\ t.savestack = p.savestack
             /\ t.scopestack = p.scopestack /\ t.top_env = p.top_env
             /\ t.in_eval = p.in_eval /\ t.comppad = p.comppad /\ t.padlist = p.padlist
             /\ t.named = p.named /\ t.CvDEPTH = [p.CvDEPTH EXCEPT ![cx.cv] = cx.olddepth]
             /\ t.defav = IF cx.hasargs THEN cx.savearray ELSE p.defav
             /\ t.refcnt = IF cx.olddepth = 0 THEN [p.refcnt EXCEPT ![cx.cv] = @ - 1]
                           ELSE p.refcnt
<1> DEFINE d  == [p.CvDEPTH EXCEPT ![cx.cv] = cx.olddepth]
           a  == IF cx.hasargs THEN cx.savearray ELSE p.defav
           r  == [p.refcnt EXCEPT ![cx.cv] = @ - 1]
           p1 == [p EXCEPT !.CvDEPTH = d]
           p2 == [p1 EXCEPT !.defav = a]
           p3 == IF cx.olddepth = 0 THEN [p2 EXCEPT !.refcnt = r] ELSE p2
<1>1. p.CvDEPTH \in [Cvs -> Int] /\ p.refcnt \in [Cvs -> Int] /\ p.defav \in Pads
  BY StateFields
<1>2. d \in [Cvs -> Int] /\ a \in Pads /\ r \in [Cvs -> Int] /\ cx.hasargs \in BOOLEAN
  BY <1>1 DEF SubCx
<1>3. LEAVESUB(POPSUB(p, cx), cx) = p3
  <2>1. POPSUB(p, cx) = p2
    BY DEF POPSUB
  <2>2. p2.refcnt = p.refcnt
    OBVIOUS
  <2> HIDE DEF p2
  <2> QED  BY <2>1, <2>2 DEF LEAVESUB, SvREFCNT_dec
<1> HIDE DEF d, a, r, p1, p2, p3
<1>4. /\ p1 \in State /\ p1.cxs = p.cxs /\ p1.si = p.si /\ p1.savestack = p.savestack
      /\ p1.scopestack = p.scopestack /\ p1.top_env = p.top_env
      /\ p1.in_eval = p.in_eval /\ p1.comppad = p.comppad /\ p1.padlist = p.padlist
      /\ p1.named = p.named /\ p1.CvDEPTH = d /\ p1.refcnt = p.refcnt
  BY <1>2, SetDepth DEF p1
<1>5. /\ p2 \in State /\ p2.cxs = p.cxs /\ p2.si = p.si /\ p2.savestack = p.savestack
      /\ p2.scopestack = p.scopestack /\ p2.top_env = p.top_env
      /\ p2.in_eval = p.in_eval /\ p2.comppad = p.comppad /\ p2.padlist = p.padlist
      /\ p2.named = p.named /\ p2.CvDEPTH = d /\ p2.refcnt = p.refcnt /\ p2.defav = a
  BY <1>2, <1>4, SetDefav DEF p2
<1>6. /\ p3 \in State /\ p3.cxs = p.cxs /\ p3.si = p.si /\ p3.savestack = p.savestack
      /\ p3.scopestack = p.scopestack /\ p3.top_env = p.top_env
      /\ p3.in_eval = p.in_eval /\ p3.comppad = p.comppad /\ p3.padlist = p.padlist
      /\ p3.named = p.named /\ p3.CvDEPTH = d /\ p3.defav = a
      /\ p3.refcnt = IF cx.olddepth = 0 THEN r ELSE p.refcnt
  BY <1>2, <1>5, SetRefcnt DEF p3
<1> QED  BY <1>3, <1>6 DEF d, a, r

\* leavesub.
LEMMA SubLeft ==
  ASSUME NEW q \in State, Len(q.cxs) > 0, NEW o, o = Last(q.cxs).oldscopesp,
         o \in 1 .. Len(q.scopestack), NEW m, m = q.scopestack[o], m <= Len(q.savestack),
         Last(q.cxs).cx.type = "SUB"
  PROVE  LET t == leavesub(q)
         IN  Leaves(q, t, m, o - 1) /\ t.si = q.si /\ t.top_env = q.top_env
<1> DEFINE cx == Last(q.cxs).cx
           v == q.in_eval
           b == [POPBLOCK(q) EXCEPT !.in_eval = v]
           l == LEAVE(b)
           t == LEAVESUB(POPSUB(l, cx), cx)
           u == Unwound(q)
<1>1. leavesub(q) = t
  <2>1. POPBLOCK(q) \in State /\ POPBLOCK(q).in_eval = v
    <3>1. o <= Len(q.scopestack)
      BY StateFields, LenProperties
    <3> QED  BY <3>1, PopBlockFields
  <2>2. \A a \in State : [a EXCEPT !.in_eval = a.in_eval] = a
    BY DEF State
  <2>3. b = POPBLOCK(q)
    BY <2>1, <2>2
  <2> QED  BY <2>3 DEF leavesub
<1>2. v \in BOOLEAN
  BY StateFields
<1>3. /\ u.cxs = Front(q.cxs) /\ u.CvDEPTH = [q.CvDEPTH EXCEPT ![cx.cv] = cx.olddepth]
      /\ u.defav = IF cx.hasargs THEN cx.savearray ELSE q.defav
      /\ u.refcnt = IF cx.olddepth = 0 THEN [q.refcnt EXCEPT ![cx.cv] = @ - 1] ELSE q.refcnt
      /\ u.in_eval = v /\ u.savestack = q.savestack /\ u.named = q.named
  <2> HIDE DEF u
  <2> QED  BY UnwoundFields DEF u
<1>4. /\ ScopeLeft(b, l, m) /\ Prefix(q.scopestack, l.scopestack, o - 1)
      /\ b.cxs = Front(q.cxs)
      /\ b.si = q.si /\ b.savestack = q.savestack /\ b.top_env = q.top_env
      /\ b.in_eval = v /\ b.comppad = q.comppad /\ b.defav = q.defav
      /\ b.CvDEPTH = q.CvDEPTH /\ b.refcnt = q.refcnt /\ b.padlist = q.padlist
      /\ b.named = q.named
  <2> HIDE DEF v, b, l
  <2> QED  BY <1>2, BlockLeft DEF l, b
<1>5. cx \in SubCx
  <2>1. Last(q.cxs) \in Blocks
    BY StateFields, LastFront
  <2>2. cx \in SubCx \/ cx \in EvalCx \/ cx \in LoopCx
    BY <2>1 DEF Blocks, SubCx, EvalCx, LoopCx
  <2> QED  BY <2>2 DEF EvalCx, LoopCx
<1> HIDE DEF b, l, t, u, v
<1>6. /\ l \in State /\ Prefix(q.savestack, l.savestack, m) /\ Apart(b, l)
      /\ PadLeft(q.savestack, m, q.comppad, l.comppad)
      /\ \A cv \in Cvs : Due(l, cv) = Due(b, cv)
  BY <1>4 DEF ScopeLeft
<1>7. /\ t \in State /\ t.cxs = l.cxs /\ t.si = l.si /\ t.savestack = l.savestack
      /\ t.scopestack = l.scopestack /\ t.top_env = l.top_env
      /\ t.in_eval = l.in_eval /\ t.comppad = l.comppad /\ t.padlist = l.padlist
      /\ t.named = l.named /\ t.CvDEPTH = [l.CvDEPTH EXCEPT ![cx.cv] = cx.olddepth]
      /\ t.defav = IF cx.hasargs THEN cx.savearray ELSE l.defav
      /\ t.refcnt = IF cx.olddepth = 0 THEN [l.refcnt EXCEPT ![cx.cv] = @ - 1] ELSE l.refcnt
  <2> HIDE DEF cx
  <2> QED  BY <1>5, <1>6, SubPopped DEF t
<1> HIDE DEF cx
<1>8. ASSUME NEW cv \in Cvs
      PROVE  Due(t, cv) = Due(u, cv)
  <2> DEFINE a == Cardinality(Frees(l.savestack, cv))
             d == Cardinality(Frees(q.savestack, cv))
  <2>1. l.refcnt[cv] - a = q.refcnt[cv] - d
    BY <1>4, <1>6 DEF Due
  <2>2. /\ l.refcnt \in [Cvs -> Int] /\ q.refcnt \in [Cvs -> Int] /\ a \in Nat /\ d \in Nat
    BY <1>6, StateFields, FreesCount
  <2>3. Due(t, cv) = t.refcnt[cv] - a /\ Due(u, cv) = u.refcnt[cv] - d
    BY <1>3, <1>7 DEF Due
  <2> HIDE DEF a, d
  <2>4. CASE cx.olddepth = 0 /\ cx.cv = cv
    <3>1. t.refcnt[cv] = l.refcnt[cv] - 1 /\ u.refcnt[cv] = q.refcnt[cv] - 1
      BY <1>3, <1>7, <2>2, <2>4
    <3>2. l.refcnt[cv] \in Int /\ q.refcnt[cv] \in Int
      BY <2>2
    <3>3. \A x, y \in Int, e, f \in Nat : x - e = y - f => (x - 1) - e = (y - 1) - f
      OBVIOUS
    <3>4. (l.refcnt[cv] - 1) - a = (q.refcnt[cv] - 1) - d
      BY <2>1, <2>2, <3>2, <3>3
    <3> QED  BY <2>3, <3>1, <3>4
  <2>5. CASE ~(cx.olddepth = 0 /\ cx.cv = cv)
    <3>1. t.refcnt[cv] = l.refcnt[cv] /\ u.refcnt[cv] = q.refcnt[cv]
      BY <1>3, <1>7, <2>2, <2>5
    <3> QED  BY <2>1, <2>3, <3>1
  <2> QED  BY <2>4, <2>5
<1>9. t.CvDEPTH = u.CvDEPTH /\ t.defav = u.defav /\ t.in_eval = u.in_eval
  BY <1>3, <1>4, <1>6, <1>7 DEF Apart
<1>10. Leaves(q, t, m, o - 1) /\ t.si = q.si /\ t.top_env = q.top_env
  BY <1>3, <1>4, <1>6, <1>7, <1>8, <1>9 DEF Leaves, Apart, u
<1> QED  BY <1>1, <1>10

\* The contexts above the i-th were unwound.
UnwoundTo(p, q, i) == Books(q) /\ Prefix(p.cxs, q.cxs, i) /\ Aside(p, q)

\* The i-th context, now the last, can be left.
LEMMA LeaveReady ==
  ASSUME NEW p \in State, Saved(p), NEW i \in 1 .. Len(p.cxs), NEW q, UnwoundTo(p, q, i)
  PROVE  LET o == p.cxs[i].oldscopesp
         IN  /\ q \in State /\ Len(q.cxs) = i /\ Len(q.cxs) > 0 /\ Last(q.cxs) = p.cxs[i]
             /\ o \in 1 .. Len(q.scopestack) /\ q.scopestack[o] = SavesTo(p.cxs, i - 1)
             /\ SavesTo(p.cxs, i - 1) <= Len(q.savestack)
             /\ \A j \in 1 .. i - 1 : p.cxs[j].oldscopesp <= o - 1
<1> DEFINE B == p.cxs
           o == B[i].oldscopesp
<1>1. /\ q \in State /\ Len(q.cxs) = i /\ \A j \in 1 .. i : q.cxs[j] = B[j]
      /\ q.scopestack = p.scopestack /\ q.savestack = p.savestack
  BY DEF UnwoundTo, Books, Prefix, Aside
<1>2. B \in Seq(Blocks) /\ Len(B) \in Nat /\ i \in Nat \ {0} /\ i \in 1 .. i
  BY StateFields, LenProperties
<1>3. Last(q.cxs) = B[i]
  <2>1. q.cxs \in Seq(Blocks) /\ Len(q.cxs) > 0
    BY <1>1, <1>2, StateFields
  <2>2. Last(q.cxs) = q.cxs[Len(q.cxs)]
    BY <2>1, LastFront
  <2> QED  BY <1>1, <1>2, <2>2
<1>4. /\ Scoped(B, p.scopestack)
      /\ \A x \in 1 .. Len(p.scopestack) : p.scopestack[x] <= Len(p.savestack)
  BY DEF Saved
<1>5. /\ o \in 1 .. Len(p.scopestack) /\ p.scopestack[o] = SavesTo(B, i - 1)
      /\ \A j \in 1 .. i - 1 : B[j].oldscopesp < o
  BY <1>4 DEF Scoped
<1>6. ASSUME NEW j \in 1 .. i - 1
      PROVE  B[j].oldscopesp <= o - 1
  <2>1. B[j].oldscopesp \in Nat /\ o \in Nat
    <3>1. j \in 1 .. Len(B)
      BY <1>2
    <3> QED  BY <1>2, <3>1, ElementOfSeq, BlockTypes
  <2> QED  BY <1>5, <2>1
<1>7. SavesTo(B, i - 1) <= Len(p.savestack)
  BY <1>4, <1>5
<1> HIDE DEF B, o
<1>8. q \in State /\ Len(q.cxs) = i /\ Len(q.cxs) > 0
  BY <1>1, <1>2
<1> QED  BY <1>1, <1>3, <1>5, <1>6, <1>7, <1>8 DEF B, o

\* As the i-th context is left, what is left is as it was before that was entered.
LEMMA ContextLeft ==
  ASSUME NEW p \in State, Saved(p), NEW i \in 1 .. Len(p.cxs), NEW q, UnwoundTo(p, q, i),
         NEW s \in Nat, s < p.cxs[i].oldscopesp, \A j \in 1 .. i - 1 : p.cxs[j].oldscopesp <= s,
         NEW t, Leaves(q, t, SavesTo(p.cxs, i - 1), s)
  PROVE  Books(t) /\ Saved(t) /\ Remains(p, t, i - 1, s)
<1> DEFINE B == p.cxs
           n == i - 1
           m == SavesTo(B, n)
           u == Unwound(q)
<1>1. /\ Books(q) /\ Prefix(B, q.cxs, i) /\ q.scopestack = p.scopestack
      /\ q.savestack = p.savestack /\ q.comppad = p.comppad /\ q.padlist = p.padlist
  BY DEF UnwoundTo, Aside
<1>2. /\ i \in Nat \ {0} /\ n \in Nat /\ n <= Len(B) /\ Len(q.cxs) = n + 1 /\ Len(B) \in Nat
  BY <1>1, StateFields, LenProperties DEF Prefix
<1>3. Books(u) /\ Prefix(q.cxs, u.cxs, n)
  <2> HIDE DEF n
  <2> QED  BY <1>1, <1>2, UnwindTurn
<1> HIDE DEF u
<1>4. /\ t \in State /\ t.cxs = u.cxs /\ t.CvDEPTH = u.CvDEPTH /\ t.defav = u.defav
      /\ t.in_eval = u.in_eval /\ t.named = u.named /\ \A cv \in Cvs : Due(t, cv) = Due(u, cv)
      /\ Prefix(p.savestack, t.savestack, m) /\ PadLeft(p.savestack, m, p.comppad, t.comppad)
      /\ Prefix(p.scopestack, t.scopestack, s) /\ t.padlist = p.padlist
  BY <1>1 DEF Leaves, u
<1>5. Books(t)
  BY <1>3, <1>4, BooksDue
<1>6. Prefix(B, t.cxs, n)
  <2>1. \A j \in 1 .. n : j \in 1 .. i
    BY <1>2
  <2> QED  BY <1>1, <1>3, <1>4, <2>1 DEF Prefix
<1>7. Remains(p, t, n, s)
  BY <1>4, <1>6 DEF Remains
<1>8. t.comppad = PadIn(B, SubsTo(B, n))
  <2> HIDE DEF n
  <2> QED  BY <1>2, <1>4, PadRestored
<1>9. s <= Len(p.scopestack) /\ \A x \in 1 .. s : p.scopestack[x] <= m
  <2> DEFINE o == B[i].oldscopesp
             sc == p.scopestack
  <2>1. o \in 1 .. Len(sc) /\ sc[o] = m /\ Len(sc) \in Nat
    <3>1. Scoped(B, sc)
      BY DEF Saved
    <3> QED  BY <3>1, StateFields, LenProperties DEF Scoped
  <2>2. \A x \in 1 .. Len(sc) : \A y \in x .. Len(sc) : sc[x] <= sc[y]
    BY DEF Saved
  <2>3. s < o
    OBVIOUS
  <2> HIDE DEF o, sc, m
  <2>4. s <= Len(sc) /\ \A x \in 1 .. s : x \in 1 .. Len(sc) /\ o \in x .. Len(sc)
    BY <2>1, <2>3
  <2> QED  BY <2>1, <2>2, <2>4 DEF sc
<1>10. Saved(t)
  <2> HIDE DEF n, m
  <2> QED  BY <1>2, <1>4, <1>7, <1>8, <1>9, SavedRemains DEF m
<1> QED  BY <1>5, <1>7, <1>10

-----------------------------------------------------------------------------
(* Entering.                                                               *)

\* A scope was opened, for a context.
Opened(p) ==
  /\ Books(p) /\ Saved(p) /\ Len(p.scopestack) > 0
  /\ p.scopestack[Len(p.scopestack)] = Len(p.savestack)
  /\ \A i \in 1 .. Len(p.cxs) : p.cxs[i].oldscopesp < Len(p.scopestack)

LEMMA EnterFields ==
  ASSUME NEW p \in State
  PROVE  LET r == ENTER(p)
         IN  /\ r \in State /\ r.scopestack = Append(p.scopestack, Len(p.savestack))
             /\ r.cxs = p.cxs /\ r.si = p.si /\ r.savestack = p.savestack /\ r.top_env = p.top_env
             /\ r.in_eval = p.in_eval /\ r.comppad = p.comppad /\ r.defav = p.defav
             /\ r.CvDEPTH = p.CvDEPTH /\ r.refcnt = p.refcnt /\ r.padlist = p.padlist
             /\ r.named = p.named
<1> DEFINE s == Append(p.scopestack, Len(p.savestack))
<1>1. s \in Seq(Nat)
  BY StateFields, LenProperties, Appended
<1> DEFINE r == ENTER(p)
<1>2. r = [p EXCEPT !.scopestack = s]
  BY DEF ENTER
<1> HIDE DEF s, r
<1>3. /\ r \in State /\ r.scopestack = s
      /\ r.cxs = p.cxs /\ r.si = p.si /\ r.savestack = p.savestack /\ r.top_env = p.top_env
      /\ r.in_eval = p.in_eval /\ r.comppad = p.comppad /\ r.defav = p.defav
      /\ r.CvDEPTH = p.CvDEPTH /\ r.refcnt = p.refcnt /\ r.padlist = p.padlist
      /\ r.named = p.named
  BY <1>1, <1>2, SetScopestack
<1> QED  BY <1>3 DEF s, r

\* What was said of a state is so of one that has the same contexts, scopes and saves.
LEMMA SavedSame ==
  ASSUME NEW p, Saved(p), NEW r, r.cxs = p.cxs, r.scopestack = p.scopestack,
         r.savestack = p.savestack, r.comppad = p.comppad, r.padlist = p.padlist
  PROVE  Saved(r)
BY DEF Saved

LEMMA BooksSame ==
  ASSUME NEW p, Books(p), NEW r \in State, r.cxs = p.cxs, r.savestack = p.savestack,
         r.in_eval = p.in_eval, r.defav = p.defav, r.CvDEPTH = p.CvDEPTH, r.refcnt = p.refcnt,
         r.named = p.named
  PROVE  Books(r)
BY DEF Books

LEMMA EnterOpens ==
  ASSUME NEW p, Books(p), Saved(p)
  PROVE  Opened(ENTER(p)) /\ (Stacks(p) => Stacks(ENTER(p)))
<1> DEFINE r  == ENTER(p)
           B  == p.cxs
           sc == p.scopestack
           ss == p.savestack
           l  == Len(sc)
<1>1. p \in State
  BY DEF Books
<1>2. /\ r \in State /\ r.scopestack = Append(sc, Len(ss))
      /\ r.cxs = p.cxs /\ r.si = p.si /\ r.savestack = p.savestack /\ r.top_env = p.top_env
      /\ r.in_eval = p.in_eval /\ r.comppad = p.comppad /\ r.defav = p.defav
      /\ r.CvDEPTH = p.CvDEPTH /\ r.refcnt = p.refcnt /\ r.padlist = p.padlist
      /\ r.named = p.named
  BY <1>1, EnterFields
<1>3. Books(r)
  BY <1>2, BooksSame
<1>4. /\ l \in Nat /\ Len(ss) \in Nat /\ Len(r.scopestack) = l + 1
      /\ r.scopestack[l + 1] = Len(ss) /\ \A x \in 1 .. l : r.scopestack[x] = sc[x]
  BY <1>1, <1>2, StateFields, LenProperties, Appended
<1>5. /\ Scoped(B, sc)
      /\ \A x \in 1 .. l : sc[x] <= Len(ss) /\ \A y \in x .. l : sc[x] <= sc[y]
  BY DEF Saved
<1> HIDE DEF r, l
<1>6. Scoped(B, r.scopestack)
  <2>1. \A x \in 1 .. l : x \in 1 .. l + 1
    BY <1>4
  <2> QED  BY <1>4, <1>5, <2>1 DEF Scoped, l
<1>7. \A x \in 1 .. l + 1 : /\ r.scopestack[x] <= Len(ss)
                            /\ \A y \in x .. l + 1 : r.scopestack[x] <= r.scopestack[y]
  <2> SUFFICES ASSUME NEW x \in 1 .. l + 1
               PROVE  /\ r.scopestack[x] <= Len(ss)
                      /\ \A y \in x .. l + 1 : r.scopestack[x] <= r.scopestack[y]
    OBVIOUS
  <2>1. CASE x = l + 1
    <3>1. \A y \in x .. l + 1 : y = l + 1
      BY <1>4, <2>1
    <3> QED  BY <1>4, <2>1, <3>1
  <2>2. CASE x # l + 1
    <3>1. x \in 1 .. l /\ \A y \in x .. l + 1 : y = l + 1 \/ (y \in x .. l /\ y \in 1 .. l)
      BY <1>4, <2>2
    <3> QED  BY <1>4, <1>5, <3>1
  <2> QED  BY <2>1, <2>2
<1>8. Saved(r)
  <2>1. /\ Len(ss) = SavesTo(B, Len(B)) /\ p.comppad = PadIn(B, SubsTo(B, Len(B)))
        /\ \A cv \in Cvs : p.padlist[cv] >= 1
        /\ \A i \in SubsTo(B, Len(B)) : /\ SavedBy(B, ss, i)
                                        /\ B[i].cx.olddepth + 1 <= p.padlist[B[i].cx.cv]
                                        /\ B[i].cx.hasargs = ~B[i].cx.multicall
    BY DEF Saved
  <2> QED  BY <1>2, <1>4, <1>6, <1>7, <2>1 DEF Saved
<1>9. ASSUME NEW i \in 1 .. Len(B)
      PROVE  B[i].oldscopesp \in 1 .. l /\ B[i].oldscopesp < l + 1
  BY <1>4, <1>5 DEF Scoped, l
<1>10. Opened(r)
  <2>1. \A i \in 1 .. Len(r.cxs) : r.cxs[i].oldscopesp < l + 1
    BY <1>2, <1>9
  <2> QED  BY <1>2, <1>3, <1>4, <1>8, <2>1 DEF Opened
<1>11. ASSUME Stacks(p)
       PROVE  Stacks(r)
  <2>1. ASSUME NEW k \in 2 .. Len(p.si), ExtraScope(B, sc, p.si[k] + 1)
        PROVE  ExtraScope(B, r.scopestack, p.si[k] + 1)
    <3>1. p.si[k] + 1 \in 1 .. Len(B)
      <4>1. p.si[k] \in Nat /\ Len(B) \in Nat
        <5>1. k \in 1 .. Len(p.si) /\ p.si \in Seq(Nat)
          BY <1>1, StateFields, LenProperties
        <5> QED  BY <1>1, <5>1, StateFields, LenProperties, ElementOfSeq
      <4>2. p.si[k] < Len(B)
        BY <1>11 DEF Stacks, Stacked
      <4> QED  BY <4>1, <4>2
    <3>2. B[p.si[k] + 1].oldscopesp - 1 \in 1 .. l
      <4>1. B[p.si[k] + 1].oldscopesp \in 1 .. l
        BY <1>9, <3>1
      <4>2. B[p.si[k] + 1].oldscopesp >= 2
        BY <2>1 DEF ExtraScope
      <4> DEFINE o == B[p.si[k] + 1].oldscopesp
      <4>3. o \in 1 .. l /\ o >= 2
        BY <4>1, <4>2
      <4> HIDE DEF o
      <4>4. o - 1 \in 1 .. l
        BY <1>4, <4>3
      <4> QED  BY <4>4 DEF o
    <3> QED  BY <1>4, <2>1, <3>2 DEF ExtraScope
  <2> QED  BY <1>2, <1>11, <2>1 DEF Stacks
<1> QED  BY <1>10, <1>11 DEF r

LEMMA SameBelow ==
  ASSUME NEW B, NEW C, NEW n \in Int, \A i \in 1 .. n : C[i] = B[i]
  PROVE  \A k \in Int : k <= n =>
           /\ SubsTo(C, k) = SubsTo(B, k) /\ ArgsTo(C, k) = ArgsTo(B, k)
           /\ EvalsTo(C, k) = EvalsTo(B, k) /\ SavesTo(C, k) = SavesTo(B, k)
           /\ \A cv : FramesTo(C, cv, k) = FramesTo(B, cv, k)
BY SameTo, ZenonT(60)

\* One context more: what depends on those below it is the same.
Added(B, b, C, n) == B \in Seq(Blocks) /\ b \in Blocks /\ C = Append(B, b) /\ n = Len(B)

LEMMA AddedSame ==
  ASSUME NEW B, NEW b, NEW C, NEW n, Added(B, b, C, n)
  PROVE  /\ n \in Nat /\ C \in Seq(Blocks) /\ Len(C) = n + 1 /\ C[n + 1] = b
         /\ \A i \in 1 .. n : C[i] = B[i]
         /\ \A k \in Int : k <= n =>
              /\ SubsTo(C, k) = SubsTo(B, k) /\ ArgsTo(C, k) = ArgsTo(B, k)
              /\ EvalsTo(C, k) = EvalsTo(B, k) /\ SavesTo(C, k) = SavesTo(B, k)
              /\ \A cv : FramesTo(C, cv, k) = FramesTo(B, cv, k)
         /\ \A k \in Nat : k <= n => /\ PadIn(C, SubsTo(B, k)) = PadIn(B, SubsTo(B, k))
                                     /\ PadIn(C, ArgsTo(B, k)) = PadIn(B, ArgsTo(B, k))
<1>1. /\ n \in Nat /\ C \in Seq(Blocks) /\ Len(C) = n + 1 /\ C[n + 1] = b
      /\ \A i \in 1 .. n : C[i] = B[i]
  BY Appended DEF Added
<1>2. n \in Int
  BY <1>1
<1>3. \A k \in Int : k <= n =>
        /\ SubsTo(C, k) = SubsTo(B, k) /\ ArgsTo(C, k) = ArgsTo(B, k)
        /\ EvalsTo(C, k) = EvalsTo(B, k) /\ SavesTo(C, k) = SavesTo(B, k)
        /\ \A cv : FramesTo(C, cv, k) = FramesTo(B, cv, k)
  <2>1. \A i \in 1 .. n : C[i] = B[i]
    BY <1>1
  <2> QED  BY <1>2, <2>1, SameBelow, ZenonT(60)
<1>4. ASSUME NEW k \in Nat, k <= n
      PROVE  /\ PadIn(C, SubsTo(B, k)) = PadIn(B, SubsTo(B, k))
             /\ PadIn(C, ArgsTo(B, k)) = PadIn(B, ArgsTo(B, k))
  <2>1. SubsTo(B, k) \in SUBSET (1 .. n) /\ ArgsTo(B, k) \in SUBSET (1 .. n)
    <3>1. SubsTo(B, k) \in SUBSET (1 .. k) /\ ArgsTo(B, k) \in SUBSET (1 .. k)
      BY ToTypes
    <3> QED  BY <1>1, <1>4, <3>1
  <2> QED  BY <1>1, <2>1, SamePad, ZenonT(60)
<1> QED  BY <1>1, <1>3, <1>4

FreeSave(cv)  == [save |-> "FREESV", what |-> cv]
PadSave(pad)  == [save |-> "COMPPAD", what |-> pad]

LEMMA SaveIsTyped ==
  /\ \A cv \in Cvs : FreeSave(cv) \in Saves
  /\ \A pad \in Pads : PadSave(pad) \in Saves
BY DEF Saves, FreeSave, PadSave

\* The context of a sub is pushed, and the sub entered.
SubPushed(e, cv, h) == Deeper(PUSHSUB(PUSHBLOCK(e, SubContext(e, cv, h)), cv), cv)

LEMMA SubPushedFields ==
  ASSUME NEW e \in State, NEW cv \in Cvs, NEW h \in BOOLEAN, NEW d \in Nat, d = e.CvDEPTH[cv]
  PROVE  LET r == SubPushed(e, cv, h)
             b == [oldscopesp |-> Len(e.scopestack), cx |-> SubContext(e, cv, h)]
         IN  /\ r \in State /\ b \in Blocks /\ b.cx \in SubCx /\ r.cxs = Append(e.cxs, b)
             /\ r.si = e.si /\ r.scopestack = e.scopestack /\ r.top_env = e.top_env
             /\ r.in_eval = e.in_eval /\ r.defav = e.defav /\ r.named = e.named
             /\ r.CvDEPTH = [e.CvDEPTH EXCEPT ![cv] = d + 1] /\ r.comppad = <<cv, d + 1>>
             /\ r.refcnt = IF d = 0 THEN [e.refcnt EXCEPT ![cv] = @ + 2] ELSE e.refcnt
             /\ r.savestack = IF d = 0
                              THEN Append(Append(e.savestack, FreeSave(cv)), PadSave(e.comppad))
                              ELSE Append(e.savestack, PadSave(e.comppad))
             /\ \A c \in Cvs : r.padlist[c] >= e.padlist[c]
             /\ e.padlist[cv] >= 1 => r.padlist[cv] >= d + 1
<1> DEFINE b  == [oldscopesp |-> Len(e.scopestack), cx |-> SubContext(e, cv, h)]
           B  == Append(e.cxs, b)
           f  == [e.refcnt EXCEPT ![cv] = @ + 2]
           s  == IF d = 0 THEN Append(e.savestack, FreeSave(cv)) ELSE e.savestack
           s2 == Append(s, PadSave(e.comppad))
           D  == [e.CvDEPTH EXCEPT ![cv] = d + 1]
           l  == IF d + 1 > e.padlist[cv] THEN d + 1 ELSE e.padlist[cv]
           L  == [e.padlist EXCEPT ![cv] = l]
           p1 == [e EXCEPT !.cxs = B]
           p2 == IF d = 0 THEN [p1 EXCEPT !.refcnt = f] ELSE p1
           p3 == IF d = 0 THEN [p2 EXCEPT !.savestack = s] ELSE p2
           p4 == [p3 EXCEPT !.CvDEPTH = D]
           p5 == IF d + 1 >= 2 THEN [p4 EXCEPT !.padlist = L] ELSE p4
           p6 == [p5 EXCEPT !.savestack = s2]
           p7 == [p6 EXCEPT !.comppad = <<cv, d + 1>>]
<1>1. /\ e.cxs \in Seq(Blocks) /\ e.scopestack \in Seq(Nat) /\ e.savestack \in Seq(Saves)
      /\ e.CvDEPTH \in [Cvs -> Int] /\ e.refcnt \in [Cvs -> Int] /\ e.comppad \in Pads
      /\ e.defav \in Pads /\ e.padlist \in [Cvs -> Nat] /\ e.padlist[cv] \in Nat
      /\ Len(e.scopestack) \in Nat
  BY StateFields, LenProperties
<1>2. b.cx \in SubCx /\ b \in Blocks /\ B \in Seq(Blocks)
  <2>1. SubContext(e, cv, h) \in SubCx
    BY <1>1 DEF SubContext, SubCx
  <2>2. b \in Blocks
    BY <1>1, <2>1, NewBlock
  <2> QED  BY <1>1, <2>1, <2>2, Appended
<1>3. f \in [Cvs -> Int] /\ D \in [Cvs -> Int] /\ L \in [Cvs -> Nat] /\ <<cv, d + 1>> \in Pads
  <2>1. f \in [Cvs -> Int] /\ D \in [Cvs -> Int]
    BY <1>1
  <2>2. L \in [Cvs -> Nat]
    <3>1. l \in Nat
      BY <1>1
    <3> HIDE DEF l
    <3> QED  BY <1>1, <3>1
  <2>3. <<cv, d + 1>> \in Pads
    BY DEF Pads
  <2> QED  BY <2>1, <2>2, <2>3
<1>4. s \in Seq(Saves) /\ s2 \in Seq(Saves)
  <2>1. s \in Seq(Saves)
    BY <1>1, SaveIsTyped, Appended
  <2> HIDE DEF s
  <2> QED  BY <1>1, <2>1, SaveIsTyped, Appended
<1>5. SubPushed(e, cv, h) = p7
  <2>1. PUSHBLOCK(e, SubContext(e, cv, h)) = p1
    BY DEF PUSHBLOCK
  <2>2. p1.CvDEPTH = e.CvDEPTH /\ p1.refcnt = e.refcnt /\ p1.savestack = e.savestack
        /\ p1.padlist = e.padlist /\ p1.comppad = e.comppad
    OBVIOUS
  <2> HIDE DEF p1
  <2>3. PUSHSUB(p1, cv) = p3
    <3>1. [p1 EXCEPT !.refcnt[cv] = @ + 2] = [p1 EXCEPT !.refcnt = f]
      BY <2>2
    <3>2. [p1 EXCEPT !.refcnt = f].savestack = e.savestack
      BY <2>2
    <3>3. CASE d = 0
      <4>1. PUSHSUB(p1, cv) = SAVEFREESV([p1 EXCEPT !.refcnt = f], cv)
        BY <2>2, <3>1, <3>3 DEF PUSHSUB
      <4>2. SAVEFREESV([p1 EXCEPT !.refcnt = f], cv)
              = [[p1 EXCEPT !.refcnt = f] EXCEPT !.savestack = s]
        BY <3>2, <3>3 DEF SAVEFREESV, FreeSave
      <4> QED  BY <3>3, <4>1, <4>2
    <3>4. CASE d # 0
      BY <2>2, <3>4 DEF PUSHSUB
    <3> QED  BY <3>3, <3>4
  <2>4. /\ p3.CvDEPTH = e.CvDEPTH /\ p3.savestack = s /\ p3.padlist = e.padlist
        /\ p3.comppad = e.comppad
    BY <2>2
  <2> HIDE DEF p3
  <2>5. [p3 EXCEPT !.CvDEPTH[cv] = @ + 1] = p4
    BY <2>4
  <2>6. /\ p4.CvDEPTH[cv] = d + 1 /\ p4.padlist = e.padlist
        /\ p4.savestack = s /\ p4.comppad = e.comppad
    <3>1. p4.padlist = e.padlist /\ p4.savestack = s /\ p4.comppad = e.comppad
      BY <2>4
    <3>2. p4.CvDEPTH = D
      OBVIOUS
    <3> HIDE DEF p4
    <3> QED  BY <1>1, <3>1, <3>2
  <2> HIDE DEF p4
  <2>7. pad_push(p4, cv) = [p4 EXCEPT !.padlist = L]
    BY <2>6 DEF pad_push
  <2>8. p5.savestack = s /\ p5.comppad = e.comppad
    BY <2>6
  <2>9. Deeper(p3, cv) = [SAVECOMPPAD(p5) EXCEPT !.comppad = <<cv, d + 1>>]
    BY <2>5, <2>6, <2>7 DEF Deeper
  <2> HIDE DEF p5
  <2>10. SAVECOMPPAD(p5) = p6
    BY <2>8 DEF SAVECOMPPAD, PadSave
  <2> QED  BY <2>1, <2>3, <2>9, <2>10 DEF SubPushed
<1> HIDE DEF b, B, f, s, s2, D, L, l, p1, p2, p3, p4, p5, p6, p7
<1>6. /\ p1 \in State /\ p1.cxs = B /\ p1.si = e.si /\ p1.savestack = e.savestack
      /\ p1.scopestack = e.scopestack /\ p1.top_env = e.top_env /\ p1.in_eval = e.in_eval
      /\ p1.defav = e.defav /\ p1.CvDEPTH = e.CvDEPTH /\ p1.refcnt = e.refcnt
      /\ p1.padlist = e.padlist /\ p1.named = e.named
  BY <1>2, SetCxs DEF p1
<1>7. /\ p2 \in State /\ p2.cxs = B /\ p2.si = e.si /\ p2.savestack = e.savestack
      /\ p2.scopestack = e.scopestack /\ p2.top_env = e.top_env /\ p2.in_eval = e.in_eval
      /\ p2.defav = e.defav /\ p2.CvDEPTH = e.CvDEPTH
      /\ p2.refcnt = IF d = 0 THEN f ELSE e.refcnt
      /\ p2.padlist = e.padlist /\ p2.named = e.named
  BY <1>3, <1>6, SetRefcnt DEF p2
<1>8. /\ p3 \in State /\ p3.cxs = B /\ p3.si = e.si
      /\ p3.scopestack = e.scopestack /\ p3.top_env = e.top_env /\ p3.in_eval = e.in_eval
      /\ p3.defav = e.defav /\ p3.CvDEPTH = e.CvDEPTH
      /\ p3.refcnt = IF d = 0 THEN f ELSE e.refcnt
      /\ p3.padlist = e.padlist /\ p3.named = e.named
  BY <1>4, <1>7, SetSavestack DEF p3
<1>9. /\ p4 \in State /\ p4.cxs = B /\ p4.si = e.si
      /\ p4.scopestack = e.scopestack /\ p4.top_env = e.top_env /\ p4.in_eval = e.in_eval
      /\ p4.defav = e.defav /\ p4.CvDEPTH = D
      /\ p4.refcnt = IF d = 0 THEN f ELSE e.refcnt
      /\ p4.padlist = e.padlist /\ p4.named = e.named
  BY <1>3, <1>8, SetDepth DEF p4
<1>10. /\ p5 \in State /\ p5.cxs = B /\ p5.si = e.si
       /\ p5.scopestack = e.scopestack /\ p5.top_env = e.top_env /\ p5.in_eval = e.in_eval
       /\ p5.defav = e.defav /\ p5.CvDEPTH = D
       /\ p5.refcnt = IF d = 0 THEN f ELSE e.refcnt
       /\ p5.padlist = IF d + 1 >= 2 THEN L ELSE e.padlist
       /\ p5.named = e.named
  BY <1>3, <1>9, SetPadlist DEF p5
<1>11. /\ p6 \in State /\ p6.cxs = B /\ p6.si = e.si /\ p6.savestack = s2
       /\ p6.scopestack = e.scopestack /\ p6.top_env = e.top_env /\ p6.in_eval = e.in_eval
       /\ p6.defav = e.defav /\ p6.CvDEPTH = D
       /\ p6.refcnt = IF d = 0 THEN f ELSE e.refcnt
       /\ p6.padlist = IF d + 1 >= 2 THEN L ELSE e.padlist
       /\ p6.named = e.named
  BY <1>4, <1>10, SetSavestack DEF p6
<1>12. /\ p7 \in State /\ p7.cxs = B /\ p7.si = e.si /\ p7.savestack = s2
       /\ p7.scopestack = e.scopestack /\ p7.top_env = e.top_env /\ p7.in_eval = e.in_eval
       /\ p7.defav = e.defav /\ p7.CvDEPTH = D /\ p7.comppad = <<cv, d + 1>>
       /\ p7.refcnt = IF d = 0 THEN f ELSE e.refcnt
       /\ p7.padlist = IF d + 1 >= 2 THEN L ELSE e.padlist
       /\ p7.named = e.named
  BY <1>3, <1>11, SetComppad DEF p7
<1>13. /\ \A c \in Cvs : p7.padlist[c] >= e.padlist[c]
       /\ e.padlist[cv] >= 1 => p7.padlist[cv] >= d + 1
  <2>1. \A c \in Cvs : e.padlist[c] \in Nat
    BY <1>1
  <2>2. l \in Nat /\ l >= e.padlist[cv] /\ l >= d + 1
    BY <1>1 DEF l
  <2>3. \A c \in Cvs : L[c] = IF c = cv THEN l ELSE e.padlist[c]
    BY <1>1 DEF L
  <2>4. CASE d + 1 >= 2
    <3>1. p7.padlist = L
      BY <1>12, <2>4
    <3> QED  BY <2>1, <2>2, <2>3, <3>1
  <2>5. CASE ~(d + 1 >= 2)
    <3>1. p7.padlist = e.padlist /\ d = 0
      BY <1>12, <2>5
    <3> QED  BY <2>1, <3>1
  <2> QED  BY <2>4, <2>5
<1>14. s2 = IF d = 0 THEN Append(Append(e.savestack, FreeSave(cv)), PadSave(e.comppad))
            ELSE Append(e.savestack, PadSave(e.comppad))
  BY DEF s2, s
<1>15. b.cx = SubContext(e, cv, h)
  BY DEF b
<1> QED  BY <1>2, <1>5, <1>12, <1>13, <1>14, <1>15 DEF b, B, f, D

LEMMA FreesAppended ==
  ASSUME NEW ss \in Seq(Saves), NEW x \in Saves, NEW c
  PROVE  /\ Cardinality(Frees(ss, c)) \in Nat
         /\ Cardinality(Frees(Append(ss, x), c))
              = Cardinality(Frees(ss, c)) + (IF x = FreeSave(c) THEN 1 ELSE 0)
<1> DEFINE tt == Append(ss, x)
<1>1. /\ Len(ss) \in Nat /\ Len(tt) = Len(ss) + 1 /\ tt[Len(tt)] = x
      /\ \A i \in 1 .. Len(ss) : tt[i] = ss[i]
  <2>1. /\ Len(ss) \in Nat /\ Len(tt) = Len(ss) + 1 /\ tt[Len(ss) + 1] = x
        /\ \A i \in 1 .. Len(ss) : tt[i] = ss[i]
    BY Appended
  <2> QED  BY <2>1
<1> HIDE DEF tt
<1>2. /\ Len(ss) \in Nat /\ Len(tt) = Len(ss) + 1
      /\ \A i \in 1 .. Len(ss) : tt[i] = ss[i]
  BY <1>1
<1>3. /\ Cardinality(Frees(ss, c)) \in Nat
      /\ Cardinality(Frees(tt, c))
           = Cardinality(Frees(ss, c))
             + (IF tt[Len(tt)] = [save |-> "FREESV", what |-> c] THEN 1 ELSE 0)
  BY <1>2, FreesGrow
<1> QED  BY <1>1, <1>3 DEF FreeSave, tt

\* A sub was entered from e.
SubEntered(e, r, cv, h, b, d) ==
  /\ r \in State /\ b \in Blocks /\ b.oldscopesp = Len(e.scopestack)
  /\ b.cx = SubContext(e, cv, h) /\ r.cxs = Append(e.cxs, b)
  /\ r.scopestack = e.scopestack /\ r.in_eval = e.in_eval /\ r.named = e.named
  /\ r.CvDEPTH = [e.CvDEPTH EXCEPT ![cv] = d + 1] /\ r.comppad = <<cv, d + 1>>
  /\ r.defav = IF h THEN r.comppad ELSE e.defav
  /\ r.refcnt = IF d = 0 THEN [e.refcnt EXCEPT ![cv] = @ + 2] ELSE e.refcnt
  /\ r.savestack = IF d = 0
                   THEN Append(Append(e.savestack, FreeSave(cv)), PadSave(e.comppad))
                   ELSE Append(e.savestack, PadSave(e.comppad))
  /\ \A c \in Cvs : r.padlist[c] >= e.padlist[c]
  /\ e.padlist[cv] >= 1 => r.padlist[cv] >= d + 1

\* The frames, as a sub is added.
LEMMA FramesAdded ==
  ASSUME NEW B, NEW b, NEW C, NEW n, Added(B, b, C, n), b.cx.type = "SUB", NEW c
  PROVE  /\ Cardinality(FramesTo(B, c, n)) \in Nat
         /\ Cardinality(FramesTo(C, c, n + 1))
              = Cardinality(FramesTo(B, c, n)) + (IF c = b.cx.cv THEN 1 ELSE 0)
<1>1. /\ n \in Nat /\ n \in Int /\ n <= n /\ C[n + 1] = b
      /\ FramesTo(C, c, n) = FramesTo(B, c, n)
  BY AddedSame
<1>2. FramesTo(B, c, n) \in SUBSET (1 .. n) /\ Cardinality(FramesTo(B, c, n)) \in Nat
  BY <1>1, ToTypes
<1>3. Cardinality(FramesTo(B, c, n) \cup {n + 1}) = Cardinality(FramesTo(B, c, n)) + 1
  BY <1>1, <1>2, CountAdded, Zenon
<1>4. /\ c = b.cx.cv => FramesTo(C, c, n + 1) = FramesTo(C, c, n) \cup {n + 1}
      /\ c # b.cx.cv => FramesTo(C, c, n + 1) = FramesTo(C, c, n)
  <2>1. LET x == C[n + 1].cx
        IN  x.type = "SUB" =>
              /\ FramesTo(C, x.cv, n + 1) = FramesTo(C, x.cv, n) \cup {n + 1}
              /\ \A cv : cv # x.cv => FramesTo(C, cv, n + 1) = FramesTo(C, cv, n)
    BY <1>1, OneMore
  <2> QED  BY <1>1, <2>1
<1> QED  BY <1>1, <1>2, <1>3, <1>4

LEMMA SubEnteredBooks ==
  ASSUME NEW e, Books(e), NEW r, NEW cv \in Cvs, NEW h \in BOOLEAN, NEW b, NEW d,
         d = e.CvDEPTH[cv], SubEntered(e, r, cv, h, b, d)
  PROVE  Books(r)
<1> DEFINE B == e.cxs
           C == r.cxs
           n == Len(B)
<1>1. /\ e \in State /\ Remembers(B) /\ e.defav = PadIn(B, ArgsTo(B, n))
      /\ e.in_eval = (EvalsTo(B, n) # {}) /\ B \in Seq(Blocks)
      /\ \A c \in Cvs :
           /\ e.CvDEPTH[c] = Cardinality(FramesTo(B, c, n))
           /\ e.refcnt[c] = Refs(e.named[c], Cardinality(FramesTo(B, c, n)), e.savestack, c)
      /\ e.CvDEPTH \in [Cvs -> Int] /\ e.refcnt \in [Cvs -> Int] /\ e.savestack \in Seq(Saves)
      /\ e.comppad \in Pads
  BY StateFields DEF Books
<1>2. /\ r \in State /\ b \in Blocks /\ b.cx = SubContext(e, cv, h) /\ C = Append(B, b)
      /\ r.in_eval = e.in_eval /\ r.named = e.named /\ r.comppad = <<cv, d + 1>>
      /\ r.defav = IF h THEN r.comppad ELSE e.defav
  BY DEF SubEntered
<1>3. /\ b.cx.type = "SUB" /\ b.cx.cv = cv /\ b.cx.olddepth = d /\ b.cx.savearray = e.defav
      /\ b.cx.hasargs = h
  BY <1>2 DEF SubContext
<1>4. Added(B, b, C, n)
  BY <1>1, <1>2 DEF Added
<1>5. d = Cardinality(FramesTo(B, cv, n)) /\ d \in Nat
  BY <1>1, <1>3, <1>4, FramesAdded
<1> HIDE DEF B, C, n
<1>6. /\ n \in Nat /\ n \in Int /\ Len(C) = n + 1 /\ C[n + 1] = b /\ \A i \in 1 .. n : C[i] = B[i]
      /\ ArgsTo(C, n) = ArgsTo(B, n) /\ EvalsTo(C, n) = EvalsTo(B, n)
      /\ PadIn(C, ArgsTo(B, n)) = PadIn(B, ArgsTo(B, n))
      /\ \A c : FramesTo(C, c, n) = FramesTo(B, c, n)
  <2>1. n \in Nat /\ n \in Int /\ n <= n
    BY <1>4, AddedSame
  <2> QED  BY <1>4, <2>1, AddedSame
<1>7. /\ h => ArgsTo(C, n + 1) = ArgsTo(C, n) \cup {n + 1}
      /\ ~h => ArgsTo(C, n + 1) = ArgsTo(C, n)
      /\ EvalsTo(C, n + 1) = EvalsTo(C, n)
  <2>1. LET x == C[n + 1].cx
        IN  /\ x.type = "SUB" =>
                 /\ x.hasargs => ArgsTo(C, n + 1) = ArgsTo(C, n) \cup {n + 1}
                 /\ ~x.hasargs => ArgsTo(C, n + 1) = ArgsTo(C, n)
            /\ x.type # "EVAL" => EvalsTo(C, n + 1) = EvalsTo(C, n)
    BY <1>6, OneMore
  <2> QED  BY <1>3, <1>6, <2>1
<1>8. Remembers(C)
  <2> SUFFICES ASSUME NEW i \in 1 .. n + 1
               PROVE  Remembered(C, i)
    BY <1>6 DEF Remembers
  <2>1. CASE i = n + 1
    <3>1. i - 1 = n
      BY <1>6, <2>1
    <3>2. C[i] = b
      BY <1>6, <2>1
    <3> QED  BY <1>1, <1>3, <1>5, <1>6, <3>1, <3>2 DEF Remembered
  <2>2. CASE i # n + 1
    <3>1. i \in 1 .. n
      BY <1>6, <2>2
    <3>2. Remembered(B, i)
      BY <1>1, <3>1 DEF Remembers, n
    <3> QED  BY <1>6, <3>1, <3>2, RememberedSame
  <2> QED  BY <2>1, <2>2
<1>9. r.defav = PadIn(C, ArgsTo(C, n + 1)) /\ r.in_eval = (EvalsTo(C, n + 1) # {})
  <2>1. ASSUME h
        PROVE  r.defav = PadIn(C, ArgsTo(C, n + 1))
    <3>1. ArgsTo(C, n) \in SUBSET (1 .. n)
      BY <1>6, ToTypes
    <3>2. PadIn(C, ArgsTo(C, n) \cup {n + 1}) = <<C[n + 1].cx.cv, C[n + 1].cx.olddepth + 1>>
      BY <1>6, <3>1, PadAdded
    <3>3. r.defav = <<cv, d + 1>> /\ ArgsTo(C, n + 1) = ArgsTo(C, n) \cup {n + 1}
      BY <1>2, <1>7, <2>1
    <3> QED  BY <1>3, <1>6, <3>2, <3>3
  <2>2. ASSUME ~h
        PROVE  r.defav = PadIn(C, ArgsTo(C, n + 1))
    BY <1>1, <1>2, <1>6, <1>7, <2>2
  <2>3. r.in_eval = (EvalsTo(C, n + 1) # {})
    BY <1>1, <1>2, <1>6, <1>7
  <2> QED  BY <2>1, <2>2, <2>3
<1>10. ASSUME NEW c \in Cvs
       PROVE  /\ r.CvDEPTH[c] = Cardinality(FramesTo(C, c, n + 1))
              /\ r.refcnt[c] = Refs(r.named[c], Cardinality(FramesTo(C, c, n + 1)), r.savestack, c)
  <2> DEFINE was == Cardinality(FramesTo(B, c, n))
             is  == Cardinality(FramesTo(C, c, n + 1))
             f   == Cardinality(Frees(e.savestack, c))
             g   == Cardinality(Frees(r.savestack, c))
  <2>1. was \in Nat /\ is = was + (IF c = cv THEN 1 ELSE 0)
    BY <1>3, <1>4, FramesAdded
  <2>2. e.CvDEPTH[c] = was /\ e.refcnt[c] = Refs(e.named[c], was, e.savestack, c)
    BY <1>1
  <2>3. f \in Nat /\ g = f + (IF c = cv /\ d = 0 THEN 1 ELSE 0)
    <3>1. FreeSave(cv) \in Saves /\ PadSave(e.comppad) \in Saves
      BY <1>1, SaveIsTyped
    <3>2. PadSave(e.comppad) # FreeSave(c) /\ (FreeSave(cv) = FreeSave(c) <=> c = cv)
      BY DEF PadSave, FreeSave
    <3>3. CASE d = 0
      <4> DEFINE s == Append(e.savestack, FreeSave(cv))
      <4>1. s \in Seq(Saves)
        BY <1>1, <3>1, Appended
      <4>2. /\ Cardinality(Frees(e.savestack, c)) \in Nat
            /\ Cardinality(Frees(s, c))
                 = Cardinality(Frees(e.savestack, c))
                   + (IF FreeSave(cv) = FreeSave(c) THEN 1 ELSE 0)
        BY <1>1, <3>1, FreesAppended
      <4> HIDE DEF s
      <4>3. /\ Cardinality(Frees(s, c)) \in Nat
            /\ Cardinality(Frees(Append(s, PadSave(e.comppad)), c))
                 = Cardinality(Frees(s, c))
                   + (IF PadSave(e.comppad) = FreeSave(c) THEN 1 ELSE 0)
        BY <3>1, <4>1, FreesAppended
      <4>4. r.savestack = Append(s, PadSave(e.comppad))
        BY <3>3 DEF SubEntered, s
      <4> QED  BY <3>2, <3>3, <4>2, <4>3, <4>4
    <3>4. CASE d # 0
      <4>1. /\ Cardinality(Frees(e.savestack, c)) \in Nat
            /\ Cardinality(Frees(Append(e.savestack, PadSave(e.comppad)), c))
                 = Cardinality(Frees(e.savestack, c))
                   + (IF PadSave(e.comppad) = FreeSave(c) THEN 1 ELSE 0)
        BY <1>1, <3>1, FreesAppended
      <4>2. r.savestack = Append(e.savestack, PadSave(e.comppad))
        BY <3>4 DEF SubEntered
      <4> QED  BY <3>2, <3>4, <4>1, <4>2
    <3> QED  BY <3>3, <3>4
  <2>4. /\ r.CvDEPTH[c] = e.CvDEPTH[c] + (IF c = cv THEN 1 ELSE 0)
        /\ r.refcnt[c] = e.refcnt[c] + (IF c = cv /\ d = 0 THEN 2 ELSE 0)
    <3>1. /\ r.CvDEPTH = [e.CvDEPTH EXCEPT ![cv] = d + 1]
          /\ r.refcnt = IF d = 0 THEN [e.refcnt EXCEPT ![cv] = @ + 2] ELSE e.refcnt
      BY DEF SubEntered
    <3>2. e.CvDEPTH[c] \in Int /\ e.refcnt[c] \in Int
      BY <1>1
    <3> QED  BY <1>1, <3>1, <3>2
  <2>5. c = cv => d = was
    BY <1>5
  <2>6. r.named[c] = e.named[c]
    BY <1>2
  <2>7. /\ Refs(e.named[c], was, e.savestack, c)
             = (IF e.named[c] THEN 1 ELSE 0) + (IF was > 0 THEN 1 ELSE 0) + f
        /\ Refs(r.named[c], is, r.savestack, c)
             = (IF e.named[c] THEN 1 ELSE 0) + (IF is > 0 THEN 1 ELSE 0) + g
    BY <2>6 DEF Refs
  <2> HIDE DEF was, is, f, g
  <2>8. r.CvDEPTH[c] = is
    BY <2>1, <2>2, <2>4
  <2>9. r.refcnt[c] = Refs(r.named[c], is, r.savestack, c)
    BY <2>1, <2>2, <2>3, <2>4, <2>5, <2>7
  <2> QED  BY <2>8, <2>9 DEF is
<1> QED  BY <1>2, <1>6, <1>8, <1>9, <1>10 DEF Books, C

\* A context with its own scope is added to those that are there.
LEMMA ScopedAdded ==
  ASSUME NEW e, Opened(e), NEW b, NEW C, NEW n, Added(e.cxs, b, C, n),
         b.oldscopesp = Len(e.scopestack)
  PROVE  Scoped(C, e.scopestack)
<1> DEFINE B  == e.cxs
           sc == e.scopestack
<1>1. /\ Scoped(B, sc) /\ Len(e.savestack) = SavesTo(B, Len(B)) /\ Len(sc) > 0
      /\ sc[Len(sc)] = Len(e.savestack) /\ \A i \in 1 .. Len(B) : B[i].oldscopesp < Len(sc)
      /\ Len(sc) \in Nat
  <2>1. e \in State
    BY DEF Opened, Books
  <2>2. Len(sc) \in Nat
    BY <2>1, StateFields, LenProperties
  <2> QED  BY <2>2 DEF Opened, Saved
<1>2. n = Len(B)
  BY DEF Added
<1> HIDE DEF B, sc
<1>3. /\ n \in Nat /\ n \in Int /\ Len(C) = n + 1 /\ C[n + 1] = b
      /\ \A i \in 1 .. n : C[i] = B[i]
      /\ \A k \in Int : k <= n => SavesTo(C, k) = SavesTo(B, k)
  <2>1. Added(B, b, C, n)
    BY DEF B
  <2> QED  BY <2>1, AddedSame
<1> SUFFICES ASSUME NEW i \in 1 .. n + 1
             PROVE  /\ C[i].oldscopesp \in 1 .. Len(sc)
                    /\ sc[C[i].oldscopesp] = SavesTo(C, i - 1)
                    /\ \A j \in 1 .. i - 1 : C[j].oldscopesp < C[i].oldscopesp
  BY <1>3 DEF Scoped, sc
<1>4. CASE i = n + 1
  <2>1. i - 1 = n /\ n <= n /\ C[i].oldscopesp = Len(sc)
    BY <1>3, <1>4 DEF sc
  <2> QED  BY <1>1, <1>2, <1>3, <2>1
<1>5. CASE i # n + 1
  <2>1. /\ i \in 1 .. n /\ i - 1 \in Int /\ i - 1 <= n /\ \A j \in 1 .. i - 1 : j \in 1 .. n
    BY <1>3, <1>5
  <2>2. /\ B[i].oldscopesp \in 1 .. Len(sc) /\ sc[B[i].oldscopesp] = SavesTo(B, i - 1)
        /\ \A j \in 1 .. i - 1 : B[j].oldscopesp < B[i].oldscopesp
    BY <1>1, <1>2, <2>1 DEF Scoped
  <2>3. C[i] = B[i] /\ SavesTo(C, i - 1) = SavesTo(B, i - 1) /\ \A j \in 1 .. i - 1 : C[j] = B[j]
    BY <1>3, <2>1
  <2> QED  BY <2>2, <2>3
<1> QED  BY <1>4, <1>5

LEMMA SubEnteredSaved ==
  ASSUME NEW e, Opened(e), NEW r, NEW cv \in Cvs, NEW h \in BOOLEAN, NEW b, NEW d,
         d = e.CvDEPTH[cv], SubEntered(e, r, cv, h, b, d)
  PROVE  Saved(r)
<1> DEFINE B  == e.cxs
           C  == r.cxs
           n  == Len(B)
           ss == e.savestack
           tt == r.savestack
           sc == e.scopestack
<1>1. /\ e \in State /\ B \in Seq(Blocks) /\ ss \in Seq(Saves) /\ e.comppad \in Pads
      /\ Len(ss) \in Nat /\ Len(sc) \in Nat /\ e.padlist \in [Cvs -> Nat]
  <2>1. e \in State
    BY DEF Opened, Books
  <2> QED  BY <2>1, StateFields, LenProperties
<1>2. /\ Len(ss) = SavesTo(B, n) /\ e.comppad = PadIn(B, SubsTo(B, n))
      /\ \A c \in Cvs : e.padlist[c] >= 1
      /\ \A x \in 1 .. Len(sc) : sc[x] <= Len(ss) /\ \A y \in x .. Len(sc) : sc[x] <= sc[y]
      /\ \A i \in SubsTo(B, n) : /\ SavedBy(B, ss, i)
                                 /\ B[i].cx.olddepth + 1 <= e.padlist[B[i].cx.cv]
                                 /\ B[i].cx.hasargs = ~B[i].cx.multicall
  BY DEF Opened, Saved
<1>3. /\ r \in State /\ b \in Blocks /\ b.oldscopesp = Len(sc) /\ b.cx = SubContext(e, cv, h)
      /\ C = Append(B, b) /\ r.scopestack = sc /\ r.comppad = <<cv, d + 1>>
      /\ tt = (IF d = 0 THEN Append(Append(ss, FreeSave(cv)), PadSave(e.comppad))
               ELSE Append(ss, PadSave(e.comppad)))
      /\ \A c \in Cvs : r.padlist[c] >= e.padlist[c]
      /\ e.padlist[cv] >= 1 => r.padlist[cv] >= d + 1
  BY DEF SubEntered
<1>4. /\ b.cx.type = "SUB" /\ b.cx.cv = cv /\ b.cx.olddepth = d /\ b.cx.hasargs = h
      /\ b.cx.multicall = ~h
  BY <1>3 DEF SubContext
<1>5. Added(B, b, C, n) /\ Scoped(C, sc)
  <2>1. Added(B, b, C, n)
    BY <1>1, <1>3 DEF Added
  <2> QED  BY <1>3, <2>1, ScopedAdded
<1> HIDE DEF B, C, n, ss, tt, sc
<1>6. /\ n \in Nat /\ n \in Int /\ Len(C) = n + 1 /\ C[n + 1] = b /\ \A i \in 1 .. n : C[i] = B[i]
      /\ SubsTo(C, n) = SubsTo(B, n) /\ SavesTo(C, n) = SavesTo(B, n)
      /\ PadIn(C, SubsTo(B, n)) = PadIn(B, SubsTo(B, n))
  <2>1. n \in Nat /\ n \in Int /\ n <= n
    BY <1>5, AddedSame
  <2> QED  BY <1>5, <2>1, AddedSame
<1>7. /\ SubsTo(C, n + 1) = SubsTo(C, n) \cup {n + 1}
      /\ SavesTo(C, n + 1) = Len(ss) + (IF d = 0 THEN 2 ELSE 1)
  <2>1. LET x == C[n + 1].cx
        IN  x.type = "SUB" =>
              /\ SubsTo(C, n + 1) = SubsTo(C, n) \cup {n + 1}
              /\ SavesTo(C, n + 1) = SavesTo(C, n) + (IF x.olddepth = 0 THEN 2 ELSE 1)
    BY <1>6, OneMore
  <2> QED  BY <1>2, <1>4, <1>6, <2>1
<1>8. /\ Len(tt) = Len(ss) + (IF d = 0 THEN 2 ELSE 1)
      /\ \A x \in 1 .. Len(ss) : tt[x] = ss[x]
      /\ d = 0 => tt[Len(ss) + 1] = FreeSave(cv) /\ tt[Len(ss) + 2] = PadSave(e.comppad)
      /\ d # 0 => tt[Len(ss) + 1] = PadSave(e.comppad)
  <2>1. FreeSave(cv) \in Saves /\ PadSave(e.comppad) \in Saves
    BY <1>1, SaveIsTyped
  <2>2. CASE d = 0
    <3> DEFINE s == Append(ss, FreeSave(cv))
    <3>1. /\ s \in Seq(Saves) /\ Len(s) = Len(ss) + 1 /\ s[Len(ss) + 1] = FreeSave(cv)
          /\ \A x \in 1 .. Len(ss) : s[x] = ss[x]
      BY <1>1, <2>1, Appended
    <3>2. tt = Append(s, PadSave(e.comppad))
      BY <1>3, <2>2
    <3> HIDE DEF s
    <3>3. /\ Len(tt) = Len(s) + 1 /\ tt[Len(s) + 1] = PadSave(e.comppad)
          /\ \A x \in 1 .. Len(s) : tt[x] = s[x]
      BY <2>1, <3>1, <3>2, Appended
    <3>4. /\ \A x \in 1 .. Len(ss) : x \in 1 .. Len(s)
          /\ Len(ss) + 1 \in 1 .. Len(s) /\ Len(s) + 1 = Len(ss) + 2
      BY <1>1, <3>1
    <3> QED  BY <2>2, <3>1, <3>3, <3>4
  <2>3. CASE d # 0
    <3>1. tt = Append(ss, PadSave(e.comppad))
      BY <1>3, <2>3
    <3> QED  BY <1>1, <2>1, <2>3, <3>1, Appended
  <2> QED  BY <2>2, <2>3
<1>9. Len(tt) = SavesTo(C, n + 1)
  BY <1>7, <1>8
<1>10. r.comppad = PadIn(C, SubsTo(C, n + 1))
  <2>1. SubsTo(C, n) \in SUBSET (1 .. n)
    BY <1>6, ToTypes
  <2>2. PadIn(C, SubsTo(C, n) \cup {n + 1}) = <<C[n + 1].cx.cv, C[n + 1].cx.olddepth + 1>>
    BY <1>6, <2>1, PadAdded
  <2> QED  BY <1>3, <1>4, <1>6, <1>7, <2>2
<1>11. \A x \in 1 .. Len(sc) : sc[x] <= Len(tt) /\ \A y \in x .. Len(sc) : sc[x] <= sc[y]
  <2> SUFFICES ASSUME NEW x \in 1 .. Len(sc)
               PROVE  sc[x] <= Len(tt)
    BY <1>2
  <2>1. sc[x] <= Len(ss) /\ sc[x] \in Nat
    <3>1. sc \in Seq(Nat)
      BY <1>1, StateFields DEF sc
    <3> QED  BY <1>1, <1>2, <3>1, ElementOfSeq
  <2>2. Len(tt) >= Len(ss) /\ Len(tt) \in Nat
    BY <1>1, <1>8
  <2> QED  BY <1>1, <2>1, <2>2
<1>12. \A c \in Cvs : r.padlist[c] \in Nat /\ r.padlist[c] >= e.padlist[c] /\ r.padlist[c] >= 1
  <2>1. r.padlist \in [Cvs -> Nat]
    BY <1>3, StateFields
  <2> SUFFICES ASSUME NEW c \in Cvs
               PROVE  r.padlist[c] \in Nat /\ r.padlist[c] >= e.padlist[c] /\ r.padlist[c] >= 1
    OBVIOUS
  <2>2. r.padlist[c] \in Nat /\ e.padlist[c] \in Nat /\ r.padlist[c] >= e.padlist[c]
        /\ e.padlist[c] >= 1
    BY <1>1, <1>2, <1>3, <2>1
  <2> QED  BY <2>2
<1>13. ASSUME NEW i \in SubsTo(C, n + 1)
       PROVE  /\ SavedBy(C, tt, i)
              /\ C[i].cx.olddepth + 1 <= r.padlist[C[i].cx.cv]
              /\ C[i].cx.hasargs = ~C[i].cx.multicall
  <2>1. CASE i = n + 1
    <3>1. C[i] = b /\ i - 1 = n
      BY <1>6, <2>1
    <3>2. SavedBy(C, tt, i)
      BY <1>2, <1>4, <1>6, <1>8, <3>1 DEF SavedBy, FreeSave, PadSave
    <3>3. d + 1 <= r.padlist[cv]
      BY <1>2, <1>3
    <3> QED  BY <1>4, <3>1, <3>2, <3>3
  <2>2. CASE i # n + 1
    <3>1. i \in SubsTo(B, n) /\ C[i] = B[i]
      <4>1. i \in SubsTo(B, n)
        BY <1>6, <1>7, <2>2
      <4> QED  BY <1>6, <4>1 DEF SubsTo
    <3>2. SavedBy(C, tt, i)
      <4>1. SavedBy(B, ss, i) /\ \A x \in 1 .. SavesTo(B, n) : tt[x] = ss[x]
        BY <1>2, <1>8, <3>1
      <4> QED  BY <1>6, <3>1, <4>1, SavedByKept
    <3>3. C[i].cx.olddepth + 1 <= r.padlist[C[i].cx.cv] /\ C[i].cx.hasargs = ~C[i].cx.multicall
      <4>1. B[i] \in Blocks /\ B[i].cx.type = "SUB"
        <5>1. i \in 1 .. n /\ B[i].cx.type = "SUB"
          BY <3>1 DEF SubsTo
        <5> QED  BY <1>1, <5>1, ElementOfSeq DEF n
      <4>2. B[i].cx.cv \in Cvs /\ B[i].cx.olddepth \in Nat
        BY <4>1, BlockTypes
      <4>3. B[i].cx.olddepth + 1 <= e.padlist[B[i].cx.cv] /\ B[i].cx.hasargs = ~B[i].cx.multicall
        BY <1>2, <3>1
      <4>4. e.padlist[B[i].cx.cv] \in Nat
        BY <1>1, <4>2
      <4>5. r.padlist[B[i].cx.cv] \in Nat /\ r.padlist[B[i].cx.cv] >= e.padlist[B[i].cx.cv]
        BY <1>12, <4>2
      <4> QED  BY <3>1, <4>2, <4>3, <4>4, <4>5
    <3> QED  BY <3>2, <3>3
  <2> QED  BY <2>1, <2>2
<1> QED  BY <1>3, <1>5, <1>6, <1>9, <1>10, <1>11, <1>12, <1>13 DEF Saved, C, tt

\* An eval or a loop was entered from e.
BlockEntered(e, r, b) ==
  /\ r \in State /\ b \in Blocks /\ b.oldscopesp = Len(e.scopestack)
  /\ r.cxs = Append(e.cxs, b) /\ r.scopestack = e.scopestack /\ r.savestack = e.savestack
  /\ r.comppad = e.comppad /\ r.defav = e.defav /\ r.CvDEPTH = e.CvDEPTH
  /\ r.refcnt = e.refcnt /\ r.padlist = e.padlist /\ r.named = e.named
  /\ \/ b.cx.type = "EVAL" /\ b.cx.old_in_eval = e.in_eval /\ r.in_eval
     \/ b.cx.type = "LOOP" /\ r.in_eval = e.in_eval

LEMMA BlockEnteredBooks ==
  ASSUME NEW e, Books(e), NEW r, NEW b, BlockEntered(e, r, b)
  PROVE  Books(r)
<1> DEFINE B == e.cxs
           C == r.cxs
           n == Len(B)
<1>1. /\ e \in State /\ Remembers(B) /\ e.defav = PadIn(B, ArgsTo(B, n))
      /\ e.in_eval = (EvalsTo(B, n) # {}) /\ B \in Seq(Blocks)
      /\ \A c \in Cvs :
           /\ e.CvDEPTH[c] = Cardinality(FramesTo(B, c, n))
           /\ e.refcnt[c] = Refs(e.named[c], Cardinality(FramesTo(B, c, n)), e.savestack, c)
  BY StateFields DEF Books
<1>2. /\ r \in State /\ b \in Blocks /\ C = Append(B, b) /\ r.savestack = e.savestack
      /\ r.defav = e.defav /\ r.CvDEPTH = e.CvDEPTH /\ r.refcnt = e.refcnt /\ r.named = e.named
      /\ \/ b.cx.type = "EVAL" /\ b.cx.old_in_eval = e.in_eval /\ r.in_eval
         \/ b.cx.type = "LOOP" /\ r.in_eval = e.in_eval
  BY DEF BlockEntered
<1>3. Added(B, b, C, n)
  BY <1>1, <1>2 DEF Added
<1> HIDE DEF B, C, n
<1>4. /\ n \in Nat /\ n \in Int /\ Len(C) = n + 1 /\ C[n + 1] = b /\ \A i \in 1 .. n : C[i] = B[i]
      /\ ArgsTo(C, n) = ArgsTo(B, n) /\ EvalsTo(C, n) = EvalsTo(B, n)
      /\ PadIn(C, ArgsTo(B, n)) = PadIn(B, ArgsTo(B, n))
      /\ \A c : FramesTo(C, c, n) = FramesTo(B, c, n)
  <2>1. n \in Nat /\ n \in Int /\ n <= n
    BY <1>3, AddedSame
  <2> QED  BY <1>3, <2>1, AddedSame
<1>5. /\ ArgsTo(C, n + 1) = ArgsTo(B, n)
      /\ \A c : FramesTo(C, c, n + 1) = FramesTo(B, c, n)
      /\ b.cx.type = "EVAL" => EvalsTo(C, n + 1) = EvalsTo(B, n) \cup {n + 1}
      /\ b.cx.type # "EVAL" => EvalsTo(C, n + 1) = EvalsTo(B, n)
  <2>1. LET x == C[n + 1].cx
        IN  /\ x.type # "SUB" => /\ ArgsTo(C, n + 1) = ArgsTo(C, n)
                                 /\ \A c : FramesTo(C, c, n + 1) = FramesTo(C, c, n)
            /\ x.type = "EVAL" => EvalsTo(C, n + 1) = EvalsTo(C, n) \cup {n + 1}
            /\ x.type # "EVAL" => EvalsTo(C, n + 1) = EvalsTo(C, n)
    BY <1>4, OneMore
  <2> QED  BY <1>2, <1>4, <2>1
<1>6. Remembers(C)
  <2> SUFFICES ASSUME NEW i \in 1 .. n + 1
               PROVE  Remembered(C, i)
    BY <1>4 DEF Remembers
  <2>1. CASE i = n + 1
    <3>1. i - 1 = n /\ C[i] = b
      BY <1>4, <2>1
    <3>2. b.cx.type = "EVAL" => b.cx.old_in_eval = (EvalsTo(B, n) # {})
      BY <1>1, <1>2 DEF n
    <3> QED  BY <1>2, <1>4, <3>1, <3>2 DEF Remembered
  <2>2. CASE i # n + 1
    <3>1. i \in 1 .. n
      BY <1>4, <2>2
    <3>2. Remembered(B, i)
      BY <1>1, <3>1 DEF Remembers, n
    <3> QED  BY <1>4, <3>1, <3>2, RememberedSame
  <2> QED  BY <2>1, <2>2
<1>7. r.defav = PadIn(C, ArgsTo(C, n + 1))
  BY <1>1, <1>2, <1>4, <1>5 DEF n
<1>8. r.in_eval = (EvalsTo(C, n + 1) # {})
  <2>1. CASE b.cx.type = "EVAL"
    <3>1. EvalsTo(C, n + 1) # {} /\ r.in_eval
      BY <1>2, <1>5, <2>1
    <3>2. r.in_eval \in BOOLEAN
      BY <1>2, StateFields
    <3> QED  BY <3>1, <3>2
  <2>2. CASE b.cx.type = "LOOP"
    BY <1>1, <1>2, <1>5, <2>2 DEF n
  <2> QED  BY <1>2, <2>1, <2>2
<1>9. ASSUME NEW c \in Cvs
      PROVE  /\ r.CvDEPTH[c] = Cardinality(FramesTo(C, c, n + 1))
             /\ r.refcnt[c] = Refs(r.named[c], Cardinality(FramesTo(C, c, n + 1)), r.savestack, c)
  BY <1>1, <1>2, <1>5 DEF n
<1> QED  BY <1>2, <1>4, <1>6, <1>7, <1>8, <1>9 DEF Books, C

LEMMA BlockEnteredSaved ==
  ASSUME NEW e, Opened(e), NEW r, NEW b, BlockEntered(e, r, b)
  PROVE  Saved(r)
<1> DEFINE B  == e.cxs
           C  == r.cxs
           n  == Len(B)
           ss == e.savestack
           sc == e.scopestack
<1>1. B \in Seq(Blocks)
  <2>1. e \in State
    BY DEF Opened, Books
  <2> QED  BY <2>1, StateFields
<1>2. /\ Len(ss) = SavesTo(B, n) /\ e.comppad = PadIn(B, SubsTo(B, n))
      /\ \A c \in Cvs : e.padlist[c] >= 1
      /\ \A x \in 1 .. Len(sc) : sc[x] <= Len(ss) /\ \A y \in x .. Len(sc) : sc[x] <= sc[y]
      /\ \A i \in SubsTo(B, n) : /\ SavedBy(B, ss, i)
                                 /\ B[i].cx.olddepth + 1 <= e.padlist[B[i].cx.cv]
                                 /\ B[i].cx.hasargs = ~B[i].cx.multicall
  BY DEF Opened, Saved
<1>3. /\ r \in State /\ b \in Blocks /\ b.oldscopesp = Len(sc) /\ b.cx.type # "SUB"
      /\ C = Append(B, b) /\ r.scopestack = sc /\ r.comppad = e.comppad
      /\ r.savestack = ss /\ r.padlist = e.padlist
  BY DEF BlockEntered
<1>4. Added(B, b, C, n) /\ Scoped(C, sc)
  <2>1. Added(B, b, C, n)
    BY <1>1, <1>3 DEF Added
  <2> QED  BY <1>3, <2>1, ScopedAdded
<1> HIDE DEF B, C, n, ss, sc
<1>5. /\ n \in Nat /\ n \in Int /\ Len(C) = n + 1 /\ C[n + 1] = b /\ \A i \in 1 .. n : C[i] = B[i]
      /\ SubsTo(C, n) = SubsTo(B, n) /\ SavesTo(C, n) = SavesTo(B, n)
      /\ PadIn(C, SubsTo(B, n)) = PadIn(B, SubsTo(B, n))
  <2>1. n \in Nat /\ n \in Int /\ n <= n
    BY <1>4, AddedSame
  <2> QED  BY <1>4, <2>1, AddedSame
<1>6. SubsTo(C, n + 1) = SubsTo(B, n) /\ SavesTo(C, n + 1) = SavesTo(B, n)
  <2>1. LET x == C[n + 1].cx
        IN  x.type # "SUB" => /\ SubsTo(C, n + 1) = SubsTo(C, n)
                              /\ SavesTo(C, n + 1) = SavesTo(C, n)
    BY <1>5, OneMore
  <2> QED  BY <1>3, <1>5, <2>1
<1>7. ASSUME NEW i \in SubsTo(B, n)
      PROVE  C[i] = B[i] /\ SavedBy(C, ss, i)
  <2>1. C[i] = B[i]
    BY <1>5 DEF SubsTo
  <2>2. SavedBy(B, ss, i)
    BY <1>2
  <2>3. SavedBy(C, ss, i)
    BY <1>5, <2>2, SavedByKept
  <2> QED  BY <2>1, <2>3
<1>8. \A i \in SubsTo(C, n + 1) : /\ SavedBy(C, ss, i)
                                  /\ C[i].cx.olddepth + 1 <= r.padlist[C[i].cx.cv]
                                  /\ C[i].cx.hasargs = ~C[i].cx.multicall
  BY <1>2, <1>3, <1>6, <1>7
<1>9. r.comppad = PadIn(C, SubsTo(C, n + 1)) /\ Len(ss) = SavesTo(C, n + 1)
  BY <1>2, <1>3, <1>5, <1>6
<1> QED  BY <1>2, <1>3, <1>4, <1>5, <1>8, <1>9 DEF Saved, C

\* A context more does not change which contexts are the first of their stacks.
LEMMA StacksAdded ==
  ASSUME NEW p \in State, Stacks(p), NEW b, NEW n, NEW r, Added(p.cxs, b, r.cxs, n),
         r.scopestack = p.scopestack
  PROVE  \A k \in 2 .. Len(p.si) :
           /\ p.si[k] < Len(r.cxs) /\ r.cxs[p.si[k] + 1].cx.type = "SUB" /\ p.si[k] < n
           /\ \A l \in 1 .. k - 1 : p.si[l] <= p.si[k]
           /\ \A l \in 2 .. k - 1 : p.si[l] < p.si[k]
           /\ \/ r.cxs[p.si[k] + 1].cx.multicall
              \/ ExtraScope(r.cxs, r.scopestack, p.si[k] + 1)
<1> DEFINE B == p.cxs
           C == r.cxs
<1>1. /\ n \in Nat /\ n \in Int /\ Len(C) = n + 1 /\ \A i \in 1 .. n : C[i] = B[i]
      /\ \A k \in Int : k <= n => SavesTo(C, k) = SavesTo(B, k)
  BY AddedSame
<1>2. n = Len(B)
  BY DEF Added
<1>3. p.si \in Seq(Nat) /\ Len(p.si) \in Nat
  BY StateFields, LenProperties
<1> HIDE DEF B, C
<1> TAKE k \in 2 .. Len(p.si)
<1> DEFINE i == p.si[k] + 1
<1>4. /\ p.si[k] < n /\ B[i].cx.type = "SUB" /\ \A l \in 1 .. k - 1 : p.si[l] <= p.si[k]
      /\ \A l \in 2 .. k - 1 : p.si[l] < p.si[k]
      /\ B[i].cx.multicall \/ ExtraScope(B, p.scopestack, i)
  BY <1>2 DEF Stacks, Stacked, B
<1>5. p.si[k] \in Nat
  <2>1. k \in 1 .. Len(p.si)
    BY <1>3
  <2> QED  BY <1>3, <2>1, ElementOfSeq
<1>6. /\ i \in 1 .. n /\ i - 1 \in Int /\ i - 1 <= n /\ \A l \in 1 .. i - 1 : l \in 1 .. n
      /\ p.si[k] < Len(C)
  BY <1>1, <1>4, <1>5
<1> HIDE DEF i
<1>7. C[i] = B[i] /\ SavesTo(C, i - 1) = SavesTo(B, i - 1) /\ \A l \in 1 .. i - 1 : C[l] = B[l]
  BY <1>1, <1>6
<1>8. ExtraScope(B, p.scopestack, i) => ExtraScope(C, r.scopestack, i)
  BY <1>7 DEF ExtraScope
<1> QED  BY <1>4, <1>6, <1>7, <1>8 DEF i, C

\* On the same stack.
LEMMA StacksGrow ==
  ASSUME NEW p \in State, Stacks(p), NEW b, NEW n, NEW r, Added(p.cxs, b, r.cxs, n),
         r.scopestack = p.scopestack, r.si = p.si
  PROVE  Stacks(r)
<1>1. p.si # <<>> /\ p.si[1] = 0
  BY DEF Stacks, Stacked
<1>2. \A k \in 2 .. Len(p.si) :
        /\ p.si[k] < Len(r.cxs) /\ r.cxs[p.si[k] + 1].cx.type = "SUB" /\ p.si[k] < n
        /\ \A l \in 1 .. k - 1 : p.si[l] <= p.si[k]
        /\ \A l \in 2 .. k - 1 : p.si[l] < p.si[k]
        /\ r.cxs[p.si[k] + 1].cx.multicall \/ ExtraScope(r.cxs, r.scopestack, p.si[k] + 1)
  BY StacksAdded
<1> QED  BY <1>1, <1>2 DEF Stacks, Stacked

\* On a stack of its own.
LEMMA StackPushed ==
  ASSUME NEW p \in State, Stacks(p), NEW b, NEW n, NEW r, Added(p.cxs, b, r.cxs, n),
         r.scopestack = p.scopestack, r.si = Append(p.si, n), b.cx.type = "SUB",
         b.cx.multicall \/ ExtraScope(r.cxs, r.scopestack, n + 1)
  PROVE  Stacks(r)
<1> DEFINE s == p.si
           t == r.si
           m == Len(s)
<1>1. s # <<>> /\ s[1] = 0
  BY DEF Stacks, Stacked
<1>2. \A k \in 2 .. m :
        /\ s[k] < Len(r.cxs) /\ r.cxs[s[k] + 1].cx.type = "SUB" /\ s[k] < n
        /\ \A l \in 1 .. k - 1 : s[l] <= s[k]
        /\ \A l \in 2 .. k - 1 : s[l] < s[k]
        /\ r.cxs[s[k] + 1].cx.multicall \/ ExtraScope(r.cxs, r.scopestack, s[k] + 1)
  BY StacksAdded
<1>3. n \in Nat /\ Len(r.cxs) = n + 1 /\ r.cxs[n + 1] = b
  BY AddedSame
<1>4. s \in Seq(Nat) /\ m \in Nat
  BY StateFields, LenProperties
<1>5. t \in Seq(Nat) /\ Len(t) = m + 1 /\ t[m + 1] = n /\ \A l \in 1 .. m : t[l] = s[l]
  <2>1. t = Append(s, n)
    OBVIOUS
  <2> HIDE DEF s, t
  <2> QED  BY <1>3, <1>4, <2>1, Appended
<1>6. m >= 1 /\ \A l \in 1 .. m : s[l] \in Nat
  <2>1. m # 0
    BY <1>1, <1>4, EmptySeq
  <2> HIDE DEF s
  <2> QED  BY <1>4, <2>1, ElementOfSeq
<1> HIDE DEF s, t, m
<1>7. \A l \in 1 .. m : s[l] <= n
  <2> SUFFICES ASSUME NEW l \in 1 .. m
               PROVE  s[l] <= n
    OBVIOUS
  <2>1. CASE l = 1
    BY <1>1, <1>3, <2>1
  <2>2. CASE l # 1
    <3>1. l \in 2 .. m
      BY <1>6, <2>2
    <3> QED  BY <1>2, <1>3, <1>6, <3>1
  <2> QED  BY <2>1, <2>2
<1>8. t # <<>> /\ t[1] = 0
  <2>1. Len(t) # 0 /\ 1 \in 1 .. m
    BY <1>4, <1>5, <1>6
  <2> QED  BY <1>1, <1>5, <2>1
<1>9. ASSUME NEW k \in 2 .. m + 1
      PROVE  /\ t[k] < Len(r.cxs) /\ r.cxs[t[k] + 1].cx.type = "SUB"
             /\ \A l \in 1 .. k - 1 : t[l] <= t[k]
             /\ \A l \in 2 .. k - 1 : t[l] < t[k]
             /\ r.cxs[t[k] + 1].cx.multicall \/ ExtraScope(r.cxs, r.scopestack, t[k] + 1)
  <2>1. CASE k = m + 1
    <3>1. k - 1 = m /\ t[k] = n /\ n < n + 1 /\ \A l \in 2 .. m : l \in 1 .. m
      BY <1>3, <1>4, <1>5, <2>1
    <3> QED  BY <1>2, <1>3, <1>5, <1>7, <3>1
  <2>2. CASE k # m + 1
    <3>1. /\ k \in 2 .. m /\ k \in 1 .. m
          /\ (\A l \in 1 .. k - 1 : l \in 1 .. m) /\ \A l \in 2 .. k - 1 : l \in 1 .. m
      BY <1>4, <2>2
    <3>2. /\ t[k] = s[k] /\ \A l \in 1 .. k - 1 : t[l] = s[l]
          /\ \A l \in 2 .. k - 1 : t[l] = s[l]
      BY <1>5, <3>1
    <3> QED  BY <1>2, <3>1, <3>2
  <2> QED  BY <2>1, <2>2
<1> QED  BY <1>5, <1>8, <1>9 DEF Stacks, Stacked, t

-----------------------------------------------------------------------------
(* Leaving stacks.                                                         *)

\* POPSTACK, for a stack that has no contexts left.
LEMMA PopStackFields ==
  ASSUME NEW p \in State, Len(p.si) > 0, Len(p.cxs) = Last(p.si)
  PROVE  LET r == POPSTACK(p)
         IN  /\ r \in State /\ r.cxs = p.cxs /\ r.si = Front(p.si)
             /\ r.savestack = p.savestack /\ r.scopestack = p.scopestack
             /\ r.top_env = p.top_env /\ r.in_eval = p.in_eval /\ r.comppad = p.comppad
             /\ r.defav = p.defav /\ r.CvDEPTH = p.CvDEPTH /\ r.refcnt = p.refcnt
             /\ r.padlist = p.padlist /\ r.named = p.named
<1> DEFINE B  == p.cxs
           f  == Front(p.si)
           c  == SubSeq(B, 1, Len(B))
           p1 == [p EXCEPT !.cxs = c]
           p2 == [p1 EXCEPT !.si = f]
           r  == POPSTACK(p)
<1>1. B \in Seq(Blocks) /\ f \in Seq(Nat) /\ Len(B) \in Nat
  BY StateFields, LastFront, LenProperties
<1>2. c = B
  <2>1. /\ c \in Seq(Blocks) /\ Len(c) = Len(B) /\ \A i \in 1 .. Len(B) : c[i] = B[i]
    <3>1. Len(B) <= Len(B)
      BY <1>1
    <3> HIDE DEF B
    <3> QED  BY <1>1, <3>1, CutSeq
  <2> HIDE DEF B, c
  <2> QED  BY <1>1, <2>1, SeqEqual
<1>3. r = p2
  BY DEF POPSTACK, cxbase
<1> HIDE DEF B, f, c, p1, p2, r
<1>4. /\ p1 \in State /\ p1.cxs = B /\ p1.si = p.si
      /\ p1.savestack = p.savestack /\ p1.scopestack = p.scopestack
      /\ p1.top_env = p.top_env /\ p1.in_eval = p.in_eval /\ p1.comppad = p.comppad
      /\ p1.defav = p.defav /\ p1.CvDEPTH = p.CvDEPTH /\ p1.refcnt = p.refcnt
      /\ p1.padlist = p.padlist /\ p1.named = p.named
  BY <1>1, <1>2, SetCxs DEF p1
<1>5. /\ p2 \in State /\ p2.cxs = B /\ p2.si = f
      /\ p2.savestack = p.savestack /\ p2.scopestack = p.scopestack
      /\ p2.top_env = p.top_env /\ p2.in_eval = p.in_eval /\ p2.comppad = p.comppad
      /\ p2.defav = p.defav /\ p2.CvDEPTH = p.CvDEPTH /\ p2.refcnt = p.refcnt
      /\ p2.padlist = p.padlist /\ p2.named = p.named
  BY <1>1, <1>4, SetSi DEF p2
<1> QED  BY <1>3, <1>5 DEF B, f, r

\* How many contexts are on the first k stacks.
Kept(p, k) == IF k = Len(p.si) THEN Len(p.cxs) ELSE p.si[k + 1]

\* Down to the k-th stack.
StacksLeft(p, q, k) ==
  Books(q) /\ Prefix(p.cxs, q.cxs, Kept(p, k)) /\ Prefix(p.si, q.si, k) /\ Aside(p, q)

LEMMA StackBounds ==
  ASSUME NEW p \in State, Stacked(p.cxs, p.si)
  PROVE  /\ Len(p.si) \in Nat \ {0} /\ Len(p.cxs) \in Nat /\ p.si \in Seq(Nat)
         /\ \A k \in 1 .. Len(p.si) : /\ p.si[k] \in Nat /\ Kept(p, k) \in Nat
                                      /\ p.si[k] <= Kept(p, k) /\ Kept(p, k) <= Len(p.cxs)
<1> DEFINE si == p.si
           m  == Len(si)
           n  == Len(p.cxs)
<1>1. si \in Seq(Nat) /\ m \in Nat /\ n \in Nat /\ si # <<>> /\ si[1] = 0
  BY StateFields, LenProperties DEF Stacked
<1>2. m # 0
  <2> HIDE DEF si
  <2> QED  BY <1>1, EmptySeq
<1>3. \A k \in 1 .. m : si[k] \in Nat
  <2> HIDE DEF si
  <2> QED  BY <1>1, ElementOfSeq
<1>4. \A k \in 2 .. m : si[k] < n /\ \A l \in 1 .. k - 1 : si[l] <= si[k]
  BY DEF Stacked
<1> HIDE DEF si, m, n
<1>5. ASSUME NEW k \in 1 .. m
      PROVE  Kept(p, k) \in Nat /\ si[k] <= Kept(p, k) /\ Kept(p, k) <= n
  <2>1. CASE k = m
    <3>1. Kept(p, k) = n
      BY <2>1 DEF Kept, m, n, si
    <3>2. si[k] <= n
      <4>1. k = 1 \/ k \in 2 .. m
        BY <1>1
      <4> QED  BY <1>1, <1>3, <1>4, <4>1
    <3> QED  BY <1>1, <3>1, <3>2
  <2>2. CASE k # m
    <3>1. Kept(p, k) = si[k + 1]
      BY <2>2 DEF Kept, m, si
    <3>2. k + 1 \in 2 .. m /\ k + 1 \in 1 .. m /\ k \in 1 .. (k + 1) - 1
      BY <1>1, <2>2
    <3>3. si[k] <= si[k + 1] /\ si[k + 1] < n /\ si[k + 1] \in Nat
      BY <1>3, <1>4, <3>2
    <3> QED  BY <1>1, <3>1, <3>3
  <2> QED  BY <2>1, <2>2
<1> QED  BY <1>1, <1>2, <1>3, <1>5 DEF si, m, n

\* One turn of POPSTACK_TO.
LEMMA PopStackTurn ==
  ASSUME NEW p \in State, Stacked(p.cxs, p.si), NEW k \in Nat, k >= 1, k < Len(p.si), NEW q,
         StacksLeft(p, q, k + 1)
  PROVE  StacksLeft(p, StackPopped(q), k)
<1> DEFINE m == p.si[k + 1]
           u == dounwind(q, m)
           r == POPSTACK(u)
<1>1. /\ Len(p.si) \in Nat /\ k + 1 \in 1 .. Len(p.si) /\ p.si \in Seq(Nat)
      /\ m \in Nat /\ Kept(p, k + 1) \in Nat /\ m <= Kept(p, k + 1)
  <2>1. Len(p.si) \in Nat /\ p.si \in Seq(Nat)
    BY StateFields, LenProperties
  <2>2. k + 1 \in 1 .. Len(p.si)
    BY <2>1
  <2> QED  BY <2>1, <2>2, StackBounds
<1>2. Kept(p, k) = m
  BY <1>1 DEF Kept
<1>3. /\ Books(q) /\ q \in State /\ Prefix(p.cxs, q.cxs, Kept(p, k + 1))
      /\ Prefix(p.si, q.si, k + 1)
      /\ Aside(p, q)
  BY DEF StacksLeft, Books
<1>4. /\ Len(q.si) = k + 1 /\ \A i \in 1 .. k + 1 : q.si[i] = p.si[i]
      /\ q.si \in Seq(Nat) /\ Len(q.si) > 0 /\ Len(q.cxs) = Kept(p, k + 1)
      /\ \A i \in 1 .. Kept(p, k + 1) : q.cxs[i] = p.cxs[i]
  BY <1>3, StateFields DEF Prefix
<1>5. Last(q.si) = m /\ Len(Front(q.si)) = k /\ \A i \in 1 .. k : Front(q.si)[i] = p.si[i]
  <2>1. /\ Last(q.si) = q.si[Len(q.si)] /\ Len(Front(q.si)) = Len(q.si) - 1
        /\ \A i \in 1 .. Len(q.si) - 1 : Front(q.si)[i] = q.si[i]
    BY <1>4, LastFront
  <2>2. k + 1 \in 1 .. k + 1 /\ (k + 1) - 1 = k /\ \A i \in 1 .. k : i \in 1 .. k + 1
    OBVIOUS
  <2> QED  BY <1>4, <2>1, <2>2
<1>6. StackPopped(q) = r
  BY <1>5 DEF StackPopped, cxbase
<1> HIDE DEF m
<1>7. Books(u) /\ Prefix(q.cxs, u.cxs, m) /\ u.si = q.si /\ Aside(q, u)
  <2>1. m <= Len(q.cxs)
    BY <1>1, <1>4
  <2> QED  BY <1>1, <1>3, <2>1, UnwindKeeps
<1> HIDE DEF u
<1>8. u \in State /\ Len(u.si) > 0 /\ Len(u.cxs) = Last(u.si)
  BY <1>4, <1>5, <1>7 DEF Prefix, Books
<1>9. /\ r \in State /\ r.cxs = u.cxs /\ r.si = Front(u.si)
      /\ r.savestack = u.savestack /\ r.scopestack = u.scopestack
      /\ r.top_env = u.top_env /\ r.in_eval = u.in_eval /\ r.comppad = u.comppad
      /\ r.defav = u.defav /\ r.CvDEPTH = u.CvDEPTH /\ r.refcnt = u.refcnt
      /\ r.padlist = u.padlist /\ r.named = u.named
  BY <1>8, PopStackFields
<1> HIDE DEF r
<1>10. Books(r)
  BY <1>7, <1>9, BooksSame
<1>11. Prefix(p.cxs, r.cxs, m)
  <2>1. \A i \in 1 .. m : i \in 1 .. Kept(p, k + 1)
    BY <1>1
  <2> QED  BY <1>4, <1>7, <1>9, <2>1 DEF Prefix
<1>12. Prefix(p.si, r.si, k) /\ Aside(p, r)
  BY <1>3, <1>5, <1>7, <1>9 DEF Prefix, Aside
<1> QED  BY <1>2, <1>6, <1>10, <1>11, <1>12 DEF StacksLeft

\* The contexts of the stacks above the k-th are unwound, and the stacks gone.
LEMMA PopStackKeeps ==
  ASSUME NEW p, Books(p), Stacked(p.cxs, p.si), NEW k \in 1 .. Len(p.si)
  PROVE  StacksLeft(p, POPSTACK_TO(p, k), k)
<1> DEFINE n == Len(p.si)
<1>1. p \in State /\ n \in Nat \ {0} /\ k \in Nat /\ k >= 1 /\ k <= n
  <2>1. p \in State
    BY DEF Books
  <2>2. n \in Nat \ {0}
    BY <2>1, StackBounds
  <2> QED  BY <2>1, <2>2
<1>2. PICK f : /\ POPSTACK_TO(p, k) = f[k] /\ f[n] = p
               /\ \A i \in k .. n - 1 : f[i] = StackPopped(f[i + 1])
  BY <1>1, PopStackTurns
<1> DEFINE T == {i \in k .. n : StacksLeft(p, f[i], i)}
<1>3. n \in T
  <2>1. Kept(p, n) = Len(p.cxs)
    BY DEF Kept
  <2>2. StacksLeft(p, p, n)
    BY <2>1 DEF StacksLeft, Prefix, Aside
  <2> QED  BY <1>1, <1>2, <2>2
<1>4. ASSUME NEW i \in k .. n - 1, i + 1 \in T
      PROVE  i \in T
  <2>1. i \in Nat /\ i >= 1 /\ i < n /\ i \in k .. n
    BY <1>1
  <2>2. f[i] = StackPopped(f[i + 1])
    BY <1>2
  <2>3. StacksLeft(p, f[i + 1], i + 1)
    BY <1>4
  <2>4. StacksLeft(p, StackPopped(f[i + 1]), i)
    BY <1>1, <2>1, <2>3, PopStackTurn
  <2> QED  BY <2>1, <2>2, <2>4
<1>5. k \in T
  <2>1. k \in k .. n /\ k \in Int /\ n \in Int
    BY <1>1
  <2> HIDE DEF T, n
  <2> QED  BY <1>3, <1>4, <2>1, Down
<1> QED  BY <1>2, <1>5

-----------------------------------------------------------------------------
(* The C functions.                                                        *)

LEMMA CountTypes ==
  ASSUME NEW cs, NEW i \in Int
  PROVE  Envs(cs, i) \in Nat /\ Calls(cs, i) \in Nat
<1>1. /\ {j \in 1 .. i : HasEnv(cs[j])} \in SUBSET (1 .. i)
      /\ {j \in 1 .. i : ~HasEnv(cs[j])} \in SUBSET (1 .. i)
  OBVIOUS
<1> QED  BY <1>1, ToFinite, Zenon DEF Envs, Calls

LEMMA CountNext ==
  ASSUME NEW cs, NEW i \in Nat
  PROVE  /\ Envs(cs, i + 1) = Envs(cs, i) + (IF HasEnv(cs[i + 1]) THEN 1 ELSE 0)
         /\ Calls(cs, i + 1) = Calls(cs, i) + (IF HasEnv(cs[i + 1]) THEN 0 ELSE 1)
<1> DEFINE E(k) == {j \in 1 .. k : HasEnv(cs[j])}
           N(k) == {j \in 1 .. k : ~HasEnv(cs[j])}
<1>1. 1 .. i + 1 = (1 .. i) \cup {i + 1} /\ i \in Int /\ i + 1 \in Int
  OBVIOUS
<1>2. /\ E(i) \in SUBSET (1 .. i) /\ N(i) \in SUBSET (1 .. i)
      /\ E(i + 1) = E(i) \cup (IF HasEnv(cs[i + 1]) THEN {i + 1} ELSE {})
      /\ N(i + 1) = N(i) \cup (IF HasEnv(cs[i + 1]) THEN {} ELSE {i + 1})
  BY <1>1
<1>3. Envs(cs, i) \in Nat /\ Calls(cs, i) \in Nat
  BY <1>1, CountTypes
<1>4. /\ Envs(cs, i) = Cardinality(E(i)) /\ Envs(cs, i + 1) = Cardinality(E(i + 1))
      /\ Calls(cs, i) = Cardinality(N(i)) /\ Calls(cs, i + 1) = Cardinality(N(i + 1))
  BY DEF Envs, Calls
<1> HIDE DEF E, N
<1>5. /\ Cardinality(E(i) \cup {i + 1}) = Cardinality(E(i)) + 1
      /\ Cardinality(N(i) \cup {i + 1}) = Cardinality(N(i)) + 1
  BY <1>2, CountAdded, Zenon
<1>6. CASE HasEnv(cs[i + 1])
  <2>1. E(i + 1) = E(i) \cup {i + 1} /\ N(i + 1) = N(i)
    BY <1>2, <1>6
  <2>2. Envs(cs, i + 1) = Envs(cs, i) + 1 /\ Calls(cs, i + 1) = Calls(cs, i)
    BY <1>4, <1>5, <2>1
  <2> QED  BY <1>6, <2>2, <1>3
<1>7. CASE ~HasEnv(cs[i + 1])
  <2>1. N(i + 1) = N(i) \cup {i + 1} /\ E(i + 1) = E(i)
    BY <1>2, <1>7
  <2>2. Envs(cs, i + 1) = Envs(cs, i) /\ Calls(cs, i + 1) = Calls(cs, i) + 1
    BY <1>4, <1>5, <2>1
  <2> QED  BY <1>7, <2>2, <1>3
<1> QED  BY <1>6, <1>7

LEMMA CountSame ==
  ASSUME NEW cs, NEW ds, NEW i, \A j \in 1 .. i : HasEnv(ds[j]) = HasEnv(cs[j])
  PROVE  Envs(ds, i) = Envs(cs, i) /\ Calls(ds, i) = Calls(cs, i)
BY DEF Envs, Calls

LEMMA CountMore ==
  ASSUME NEW cs, NEW i \in Int, NEW j \in Int, i <= j
  PROVE  Envs(cs, i) <= Envs(cs, j) /\ Calls(cs, i) <= Calls(cs, j)
<1> DEFINE E(k) == {x \in 1 .. k : HasEnv(cs[x])}
           N(k) == {x \in 1 .. k : ~HasEnv(cs[x])}
<1>1. E(i) \subseteq E(j) /\ N(i) \subseteq N(j)
  OBVIOUS
<1>2. E(j) \in SUBSET (1 .. j) /\ N(j) \in SUBSET (1 .. j)
  OBVIOUS
<1>3. /\ Envs(cs, i) = Cardinality(E(i)) /\ Envs(cs, j) = Cardinality(E(j))
      /\ Calls(cs, i) = Cardinality(N(i)) /\ Calls(cs, j) = Cardinality(N(j))
  BY DEF Envs, Calls
<1> HIDE DEF E, N
<1>4. IsFiniteSet(E(j)) /\ IsFiniteSet(N(j))
  BY <1>2, ToFinite, Zenon
<1> QED  BY <1>1, <1>3, <1>4, FS_Subset

\* The j-th C function counts, for those up to it.
LEMMA CountLess ==
  ASSUME NEW cs, NEW i \in Nat, NEW j \in Nat, i < j
  PROVE  /\ HasEnv(cs[j]) => Envs(cs, i) < Envs(cs, j)
         /\ ~HasEnv(cs[j]) => Calls(cs, i) < Calls(cs, j)
<1> DEFINE k == j - 1
<1>1. k \in Nat /\ k \in Int /\ k + 1 = j /\ i \in Int /\ i <= k
  OBVIOUS
<1> HIDE DEF k
<1>2. /\ Envs(cs, k + 1) = Envs(cs, k) + (IF HasEnv(cs[k + 1]) THEN 1 ELSE 0)
      /\ Calls(cs, k + 1) = Calls(cs, k) + (IF HasEnv(cs[k + 1]) THEN 0 ELSE 1)
  BY <1>1, CountNext
<1>3. Envs(cs, i) <= Envs(cs, k) /\ Calls(cs, i) <= Calls(cs, k)
  BY <1>1, CountMore
<1>4. /\ Envs(cs, i) \in Nat /\ Envs(cs, k) \in Nat
      /\ Calls(cs, i) \in Nat /\ Calls(cs, k) \in Nat
  BY <1>1, CountTypes
<1> QED  BY <1>1, <1>2, <1>3, <1>4

\* Those in between do not count.
LEMMA NoneBetween ==
  ASSUME NEW cs, NEW i \in Nat, NEW j \in Nat, i <= j
  PROVE  /\ (\A k \in i + 1 .. j : ~HasEnv(cs[k])) => Envs(cs, j) = Envs(cs, i)
         /\ (\A k \in i + 1 .. j : HasEnv(cs[k])) => Calls(cs, j) = Calls(cs, i)
<1>1. \A x \in 1 .. j : x \in 1 .. i \/ x \in i + 1 .. j
  OBVIOUS
<1>2. \A x \in 1 .. i : x \in 1 .. j
  OBVIOUS
<1>3. ASSUME \A k \in i + 1 .. j : ~HasEnv(cs[k])
      PROVE  Envs(cs, j) = Envs(cs, i)
  <2>1. {x \in 1 .. j : HasEnv(cs[x])} = {x \in 1 .. i : HasEnv(cs[x])}
    BY <1>1, <1>2, <1>3
  <2> QED  BY <2>1 DEF Envs
<1>4. ASSUME \A k \in i + 1 .. j : HasEnv(cs[k])
      PROVE  Calls(cs, j) = Calls(cs, i)
  <2>1. {x \in 1 .. j : ~HasEnv(cs[x])} = {x \in 1 .. i : ~HasEnv(cs[x])}
    BY <1>1, <1>2, <1>4
  <2> QED  BY <2>1 DEF Calls
<1> QED  BY <1>3, <1>4

\* The environment that the k-th C function has, or runs under.
LEMMA LastEnv ==
  ASSUME NEW cs, HasEnv(cs[1]), NEW k \in Nat, k >= 1
  PROVE  \E l \in 1 .. k : /\ HasEnv(cs[l]) /\ Envs(cs, l) = Envs(cs, k)
                           /\ \A x \in l + 1 .. k : ~HasEnv(cs[x])
<1> DEFINE S == {x \in 1 .. k : HasEnv(cs[x])}
           l == Max(S)
<1>1. S \in SUBSET (1 .. k) /\ S # {}
  <2>1. 1 \in S
    OBVIOUS
  <2> QED  BY <2>1
<1>2. l \in S /\ l \in 1 .. k /\ \A x \in S : x <= l
  <2> HIDE DEF S
  <2> QED  BY <1>1, Largest
<1> HIDE DEF l
<1>3. \A x \in l + 1 .. k : ~HasEnv(cs[x])
  <2> SUFFICES ASSUME NEW x \in l + 1 .. k, HasEnv(cs[x])
               PROVE  FALSE
    OBVIOUS
  <2>1. x \in S /\ ~(x <= l)
    BY <1>2
  <2> QED  BY <1>2, <2>1
<1>4. l \in Nat /\ l <= k /\ HasEnv(cs[l])
  BY <1>2
<1>5. Envs(cs, k) = Envs(cs, l)
  BY <1>3, <1>4, NoneBetween
<1> QED  BY <1>2, <1>3, <1>4, <1>5

\* What the environment says that the k-th C function has, or runs under.
LEMMA CatchAt ==
  ASSUME NEW cs, NEW te, Environed(cs, te), HasEnv(cs[1]), NEW k \in Nat, k >= 1,
         Len(cs) \in Nat, k <= Len(cs)
  PROVE  te[1 + Envs(cs, k)] = (~HasEnv(cs[k]) \/ (k < Len(cs) /\ ~HasEnv(cs[k + 1])))
<1>1. PICK l \in 1 .. k : /\ HasEnv(cs[l]) /\ Envs(cs, l) = Envs(cs, k)
                          /\ \A x \in l + 1 .. k : ~HasEnv(cs[x])
  BY LastEnv
<1>2. te[1 + Envs(cs, l)] = (l < Len(cs) /\ ~HasEnv(cs[l + 1]))
  <2>1. l \in 1 .. Len(cs)
    OBVIOUS
  <2> QED  BY <1>1, <2>1 DEF Environed
<1>3. CASE l = k
  BY <1>1, <1>2, <1>3
<1>4. CASE l # k
  <2>1. l + 1 \in l + 1 .. k /\ k \in l + 1 .. k /\ l < Len(cs)
    BY <1>4
  <2> QED  BY <1>1, <1>2, <2>1
<1> QED  BY <1>3, <1>4

\* C functions return, or one is called: what the environment says that is then topmost is
\* set to what is the case.
EnvsSet(cs, te, k, ds, tt) ==
  /\ Len(ds) = k \/ Len(ds) = k + 1
  /\ Len(tt) = 1 + Envs(ds, Len(ds))
  /\ \A j \in 1 .. k : HasEnv(ds[j]) = HasEnv(cs[j]) /\ ds[j].oldcatch = cs[j].oldcatch
  /\ \A x \in 1 .. Envs(cs, k) : tt[x] = te[x]
  /\ tt[1 + Envs(cs, k)] = (~HasEnv(cs[k]) \/ (Len(ds) = k + 1 /\ ~HasEnv(ds[k + 1])))
  /\ Len(ds) = k + 1 => IF HasEnv(ds[k + 1]) THEN tt[1 + Envs(ds, k + 1)] = FALSE
                        ELSE ds[k + 1].oldcatch = ~HasEnv(cs[k])

LEMMA EnvironedAgain ==
  ASSUME NEW cs, NEW te, Environed(cs, te), HasEnv(cs[1]), Len(cs) \in Nat,
         NEW k \in Nat, k >= 1, k <= Len(cs), NEW ds, NEW tt, EnvsSet(cs, te, k, ds, tt)
  PROVE  Environed(ds, tt)
<1> USE DEF EnvsSet
<1> DEFINE m == Len(ds)
<1>1. m \in Nat /\ m >= k /\ m >= 1
  OBVIOUS
<1>2. ASSUME NEW i \in 1 .. k
      PROVE  /\ Envs(ds, i) = Envs(cs, i) /\ i \in Nat /\ i \in 1 .. Len(cs)
             /\ HasEnv(ds[i]) = HasEnv(cs[i]) /\ ds[i].oldcatch = cs[i].oldcatch
  <2>1. \A j \in 1 .. i : HasEnv(ds[j]) = HasEnv(cs[j])
    OBVIOUS
  <2>2. Envs(ds, i) = Envs(cs, i)
    BY <2>1, CountSame
  <2> QED  BY <2>2
<1>3. PICK l \in 1 .. k : /\ HasEnv(cs[l]) /\ Envs(cs, l) = Envs(cs, k)
                          /\ \A x \in l + 1 .. k : ~HasEnv(cs[x])
  BY LastEnv
<1>4. ASSUME NEW i \in 1 .. k, HasEnv(ds[i])
      PROVE  tt[1 + Envs(ds, i)] = (i < m /\ ~HasEnv(ds[i + 1]))
  <2>1. CASE i = l
    <3>1. tt[1 + Envs(ds, i)] = tt[1 + Envs(cs, k)]
      BY <1>2, <1>3, <2>1
    <3>2. CASE l = k
      <4>1. i < m <=> Len(ds) = k + 1
        BY <2>1, <3>2
      <4> QED  BY <1>3, <2>1, <3>1, <3>2, <4>1
    <3>3. CASE l # k
      <4>1. l + 1 \in l + 1 .. k /\ k \in l + 1 .. k /\ l + 1 \in 1 .. k /\ i < m
        BY <1>1, <2>1, <3>3
      <4>2. ~HasEnv(cs[k]) /\ ~HasEnv(cs[l + 1])
        BY <1>3, <4>1
      <4> QED  BY <1>2, <2>1, <3>1, <4>1, <4>2
    <3> QED  BY <3>2, <3>3
  <2>2. CASE i # l
    <3>1. i \in Nat /\ l \in Nat /\ HasEnv(cs[i]) /\ Envs(ds, i) = Envs(cs, i) /\ i \in 1 .. Len(cs)
      BY <1>2, <1>4
    <3>2. i < l
      <4>1. i \notin l + 1 .. k
        BY <1>3, <3>1
      <4> QED  BY <2>2, <3>1, <4>1
    <3>3. Envs(cs, i) < Envs(cs, k) /\ Envs(cs, i) \in Nat /\ Envs(cs, k) \in Nat
      <4>1. Envs(cs, i) < Envs(cs, l)
        BY <1>3, <3>1, <3>2, CountLess
      <4>2. i \in Int /\ k \in Int
        BY <3>1
      <4> QED  BY <1>3, <4>1, <4>2, CountTypes
    <3>4. tt[1 + Envs(ds, i)] = te[1 + Envs(cs, i)]
      <4>1. 1 + Envs(cs, i) \in 1 .. Envs(cs, k)
        BY <3>3
      <4> QED  BY <3>1, <4>1
    <3>5. te[1 + Envs(cs, i)] = (i < Len(cs) /\ ~HasEnv(cs[i + 1]))
      BY <3>1 DEF Environed
    <3>6. i + 1 \in 1 .. k /\ i < m /\ i < Len(cs)
      BY <1>1, <3>1, <3>2
    <3> QED  BY <1>2, <3>4, <3>5, <3>6
  <2> QED  BY <2>1, <2>2
<1>5. ASSUME NEW i \in 1 .. k, ~HasEnv(ds[i])
      PROVE  i > 1 /\ ds[i].oldcatch = ~HasEnv(ds[i - 1])
  <2>1. i > 1 /\ cs[i].oldcatch = ~HasEnv(cs[i - 1])
    BY <1>2, <1>5 DEF Environed
  <2>2. i - 1 \in 1 .. k
    BY <2>1
  <2> QED  BY <1>2, <2>1, <2>2
<1>6. ASSUME NEW i \in 1 .. m, i \notin 1 .. k
      PROVE  /\ HasEnv(ds[i]) => tt[1 + Envs(ds, i)] = (i < m /\ ~HasEnv(ds[i + 1]))
             /\ ~HasEnv(ds[i]) => i > 1 /\ ds[i].oldcatch = ~HasEnv(ds[i - 1])
  <2>1. i = k + 1 /\ m = k + 1 /\ i - 1 = k /\ k \in 1 .. k /\ ~(i < m) /\ i > 1
    BY <1>1, <1>6
  <2> QED  BY <1>2, <2>1
<1>7. \A i \in 1 .. m : i \in 1 .. k \/ i \notin 1 .. k
  OBVIOUS
<1> QED  BY <1>4, <1>5, <1>6, <1>7 DEF Environed

\* An eval that stays, with its run loop and the stacks below it.
LEMMA LoopedAgain ==
  ASSUME NEW B, NEW C, NEW n \in Nat, \A i \in 1 .. n : C[i] = B[i], n <= Len(B),
         Len(B) \in Nat, Len(C) \in Nat,
         NEW cs, NEW ds, NEW k \in Nat, k <= Len(ds), Len(ds) \in Nat,
         \A j \in 1 .. k : HasEnv(ds[j]) = HasEnv(cs[j]),
         NEW si, NEW ti \in Seq(Nat), Looped(B, si, cs),
         \A j \in 1 .. Len(ti) : \/ j <= Len(si) /\ ti[j] = si[j]
                                 \/ ti[j] >= n /\ j > 1 + Calls(cs, k),
         \A i \in EvalsTo(B, n) : B[i].cx.loop <= k,
         \A i \in EvalsTo(C, Len(C)) : i <= n \/ LoopedAt(C, ti, ds, i)
  PROVE  Looped(C, ti, ds)
<1> SUFFICES ASSUME NEW i \in EvalsTo(C, Len(C)), i <= n
             PROVE  LoopedAt(C, ti, ds, i)
  BY DEF Looped
<1> DEFINE l == B[i].cx.loop
<1>1. i \in 1 .. n /\ i \in Int /\ C[i] = B[i] /\ i \in EvalsTo(B, n) /\ i \in EvalsTo(B, Len(B))
  BY DEF EvalsTo
<1>2. /\ l \in 1 .. Len(cs) /\ HasEnv(cs[l]) /\ B[i].cx.cur_top_env = 1 + Envs(cs, l)
      /\ \A j \in 1 .. Len(si) : si[j] < i <=> j <= 1 + Calls(cs, l)
      /\ \A j \in EvalsTo(B, i) : B[j].cx.loop <= l
  BY <1>1 DEF Looped, LoopedAt
<1>3. l \in 1 .. k /\ l \in Nat /\ l \in Int /\ k \in Int /\ l <= k
  <2>1. l <= k
    BY <1>1
  <2> HIDE DEF l
  <2>2. l \in Nat /\ l >= 1
    BY <1>2
  <2> QED  BY <2>1, <2>2
<1> HIDE DEF l
<1>4. Envs(ds, l) = Envs(cs, l) /\ Calls(ds, l) = Calls(cs, l) /\ HasEnv(ds[l])
  <2>1. \A j \in 1 .. l : HasEnv(ds[j]) = HasEnv(cs[j])
    BY <1>3
  <2>2. Envs(ds, l) = Envs(cs, l) /\ Calls(ds, l) = Calls(cs, l)
    BY <2>1, CountSame, Zenon
  <2> QED  BY <1>2, <1>3, <2>2
<1>5. Calls(cs, l) <= Calls(cs, k) /\ Calls(cs, l) \in Nat /\ Calls(cs, k) \in Nat
  BY <1>3, CountMore, CountTypes
<1>6. ASSUME NEW j \in 1 .. Len(ti)
      PROVE  ti[j] < i <=> j <= 1 + Calls(ds, l)
  <2>1. CASE j <= Len(si) /\ ti[j] = si[j]
    <3>1. j \in 1 .. Len(si)
      <4>1. si = si /\ j \in Nat /\ j >= 1
        BY LenProperties
      <4> QED  BY <2>1, <4>1
    <3> QED  BY <1>2, <1>4, <2>1, <3>1
  <2>2. CASE ti[j] >= n /\ j > 1 + Calls(cs, k)
    <3>1. ti[j] \in Nat /\ j \in Nat
      BY ElementOfSeq, LenProperties
    <3> QED  BY <1>1, <1>4, <1>5, <2>2, <3>1, SMTT(30)
  <2> QED  BY <2>1, <2>2
<1>7. EvalsTo(C, i) = EvalsTo(B, i) /\ \A j \in EvalsTo(B, i) : C[j] = B[j]
  <2>1. \A j \in 1 .. i : j \in 1 .. n
    BY <1>1
  <2> QED  BY <2>1 DEF EvalsTo
<1>8. l \in 1 .. Len(ds)
  BY <1>3
<1>9. C[i].cx.loop = l /\ C[i].cx.cur_top_env = 1 + Envs(ds, l)
  BY <1>1, <1>2, <1>4 DEF l
<1>10. \A j \in EvalsTo(C, i) : C[j].cx.loop <= l
  BY <1>2, <1>7
<1> QED  BY <1>4, <1>6, <1>8, <1>9, <1>10 DEF LoopedAt

\* Who has an environment, where a program runs.
LEMMA LevelsFields ==
  ASSUME NEW p \in State, NEW cs, Levels(p, cs), cs # <<>>
  PROVE  /\ cs \in Seq(CFunctions) /\ Len(cs) \in Nat /\ Len(cs) >= 1 /\ HasEnv(cs[1])
         /\ Len(p.si) = 1 + Calls(cs, Len(cs)) /\ Environed(cs, p.top_env)
         /\ Looped(p.cxs, p.si, cs)
         /\ Envs(cs, Len(cs)) \in Nat /\ Calls(cs, Len(cs)) \in Nat
         /\ Len(p.top_env) = 1 + Envs(cs, Len(cs))
<1>1. /\ cs \in Seq(CFunctions) /\ HasEnv(cs[1])
      /\ Len(p.si) = 1 + Calls(cs, Len(cs)) /\ Environed(cs, p.top_env)
      /\ Looped(p.cxs, p.si, cs)
  BY DEF Levels
<1>2. Len(cs) \in Nat /\ Len(cs) # 0
  BY <1>1, LenProperties, EmptySeq
<1>3. Envs(cs, Len(cs)) \in Nat /\ Calls(cs, Len(cs)) \in Nat
  BY <1>2, CountTypes
<1> QED  BY <1>1, <1>2, <1>3 DEF Environed

\* CATCH_GET.
LEMMA CatchIs ==
  ASSUME NEW p \in State, NEW cs, Levels(p, cs), cs # <<>>
  PROVE  CATCH_GET(p) = ~HasEnv(cs[Len(cs)])
<1> DEFINE n  == Len(cs)
           te == p.top_env
<1>1. /\ n \in Nat /\ n >= 1 /\ HasEnv(cs[1]) /\ Environed(cs, te) /\ Envs(cs, n) \in Nat
      /\ Len(te) = 1 + Envs(cs, n)
  BY LevelsFields
<1>2. te \in Seq(BOOLEAN)
  BY StateFields
<1>3. Last(te) = te[1 + Envs(cs, n)]
  <2> HIDE DEF te, n
  <2>1. Len(te) > 0
    BY <1>1
  <2>2. Last(te) = te[Len(te)]
    BY <1>2, <2>1, LastFront
  <2> QED  BY <1>1, <2>2
<1>4. te[1 + Envs(cs, n)] = (~HasEnv(cs[n]) \/ (n < Len(cs) /\ ~HasEnv(cs[n + 1])))
  <2>1. n <= Len(cs)
    BY <1>1
  <2> HIDE DEF te, n
  <2> QED  BY <1>1, <2>1, CatchAt DEF n
<1>5. ~(n < Len(cs))
  BY <1>1
<1> QED  BY <1>3, <1>4, <1>5 DEF CATCH_GET

\* An eval that is entered, by the last run loop.
LEMMA LoopedNow ==
  ASSUME NEW C, NEW i \in Nat, NEW si \in Seq(Nat), \A k \in 1 .. Len(si) : si[k] < i,
         NEW ds, Len(ds) \in Nat, Len(ds) >= 1, HasEnv(ds[Len(ds)]),
         Len(si) = 1 + Calls(ds, Len(ds)), C[i].cx.loop = Len(ds),
         C[i].cx.cur_top_env = 1 + Envs(ds, Len(ds)),
         \A j \in EvalsTo(C, i) : C[j].cx.loop <= Len(ds)
  PROVE  LoopedAt(C, si, ds, i)
<1>1. \A k \in 1 .. Len(si) : si[k] < i <=> k <= 1 + Calls(ds, Len(ds))
  BY LenProperties
<1>2. Len(ds) \in 1 .. Len(ds)
  OBVIOUS
<1> QED  BY <1>1, <1>2 DEF LoopedAt

\* The topmost C function that calls back.
LEMMA CalledBackIs ==
  ASSUME NEW p \in State, Levels(p, c_stack), c_stack # <<>>, Len(p.si) > 1
  PROVE  LET l == CalledBack
         IN  /\ l \in 2 .. Len(c_stack) /\ ~HasEnv(c_stack[l])
             /\ Calls(c_stack, l) = Calls(c_stack, Len(c_stack))
             /\ \A j \in l + 1 .. Len(c_stack) : HasEnv(c_stack[j])
             /\ EnvAt(l) = 1 + Envs(c_stack, l)
<1> DEFINE n == Len(c_stack)
           S == {i \in 1 .. n : ~HasEnv(c_stack[i])}
           l == Max(S)
<1>1. /\ n \in Nat /\ n >= 1 /\ HasEnv(c_stack[1]) /\ Len(p.si) = 1 + Calls(c_stack, n)
      /\ c_stack \in Seq(CFunctions) /\ Calls(c_stack, n) \in Nat
  BY LevelsFields
<1>2. CalledBack = l
  <2>1. DOMAIN c_stack = 1 .. n
    BY <1>1, LenProperties
  <2> QED  BY <2>1 DEF CalledBack
<1>3. S \in SUBSET (1 .. n) /\ Calls(c_stack, n) = Cardinality(S)
  BY DEF Calls
<1> HIDE DEF S
<1>4. S # {}
  <2> SUFFICES ASSUME S = {}
               PROVE  FALSE
    OBVIOUS
  <2>1. Calls(c_stack, n) > 0
    BY <1>1
  <2>2. Cardinality({}) = 0
    BY FS_EmptySet
  <2>3. Calls(c_stack, n) = 0
    BY <1>3, <2>2
  <2> QED  BY <2>1, <2>3
<1>5. l \in S /\ l \in 1 .. n /\ \A j \in S : j <= l
  BY <1>1, <1>3, <1>4, Largest
<1> HIDE DEF l
<1>6. ~HasEnv(c_stack[l]) /\ l \in Nat /\ l <= n /\ l \in 2 .. n
  <2>1. ~HasEnv(c_stack[l])
    BY <1>5 DEF S
  <2>2. l # 1
    BY <1>1, <2>1
  <2> QED  BY <1>5, <2>1, <2>2
<1>7. \A j \in l + 1 .. n : HasEnv(c_stack[j])
  <2> SUFFICES ASSUME NEW j \in l + 1 .. n, ~HasEnv(c_stack[j])
               PROVE  FALSE
    OBVIOUS
  <2>1. j \in 1 .. n /\ ~(j <= l)
    BY <1>6
  <2>2. j \in S
    BY <2>1 DEF S
  <2> QED  BY <1>5, <2>1, <2>2
<1>8. Calls(c_stack, n) = Calls(c_stack, l)
  BY <1>1, <1>6, <1>7, NoneBetween
<1>9. EnvAt(l) = 1 + Envs(c_stack, l)
  BY DEF EnvAt, Envs
<1> QED  BY <1>2, <1>6, <1>7, <1>8, <1>9 DEF n

\* Below the topmost callback there are as many C functions calling back as stacks.
LEMMA BelowCall ==
  ASSUME NEW cs, NEW l \in Nat, l >= 1, ~HasEnv(cs[l])
  PROVE  /\ Calls(cs, l) = 1 + Calls(cs, l - 1) /\ Envs(cs, l - 1) = Envs(cs, l)
         /\ Calls(cs, l - 1) \in Nat /\ Envs(cs, l - 1) \in Nat
<1> DEFINE m == l - 1
<1>1. m \in Nat /\ m \in Int /\ m + 1 = l
  OBVIOUS
<1> HIDE DEF m
<1>2. /\ Envs(cs, m + 1) = Envs(cs, m) + (IF HasEnv(cs[m + 1]) THEN 1 ELSE 0)
      /\ Calls(cs, m + 1) = Calls(cs, m) + (IF HasEnv(cs[m + 1]) THEN 0 ELSE 1)
      /\ Envs(cs, m) \in Nat /\ Calls(cs, m) \in Nat
  BY <1>1, CountNext, CountTypes
<1> QED  BY <1>1, <1>2 DEF m

\* The environment that an eval remembers is that of one C function alone.
LEMMA FrameOfIs ==
  ASSUME Len(c_stack) \in Nat, DOMAIN c_stack = 1 .. Len(c_stack),
         NEW l \in 1 .. Len(c_stack), HasEnv(c_stack[l])
  PROVE  FrameOf(1 + Envs(c_stack, l)) = l
<1> DEFINE e == 1 + Envs(c_stack, l)
<1>1. \A i : EnvAt(i) = 1 + Envs(c_stack, i)
  BY DEF EnvAt, Envs
<1>2. ASSUME NEW i \in DOMAIN c_stack, HasEnv(c_stack[i]), EnvAt(i) = e
      PROVE  i = l
  <2>1. i \in Nat /\ l \in Nat /\ i \in Int /\ l \in Int
    OBVIOUS
  <2>2. Envs(c_stack, i) \in Nat /\ Envs(c_stack, l) \in Nat
    BY <2>1, CountTypes
  <2>3. Envs(c_stack, i) = Envs(c_stack, l)
    BY <1>1, <1>2, <2>2
  <2>4. ~(i < l)
    <3> SUFFICES ASSUME i < l
                 PROVE  FALSE
      OBVIOUS
    <3>1. Envs(c_stack, i) < Envs(c_stack, l)
      BY <2>1, CountLess
    <3> QED  BY <2>2, <2>3, <3>1
  <2>5. ~(l < i)
    <3> SUFFICES ASSUME l < i
                 PROVE  FALSE
      OBVIOUS
    <3>1. Envs(c_stack, l) < Envs(c_stack, i)
      BY <1>2, <2>1, CountLess
    <3> QED  BY <2>2, <2>3, <3>1
  <2> QED  BY <2>1, <2>4, <2>5
<1>3. l \in DOMAIN c_stack /\ HasEnv(c_stack[l]) /\ EnvAt(l) = e
  BY <1>1
<1> HIDE DEF e
<1>4. FrameOf(e) = l
  BY <1>2, <1>3 DEF FrameOf
<1> QED  BY <1>4 DEF e

-----------------------------------------------------------------------------
(* Leaving a context by the ops of the stack it is on.                     *)

LEMMA Bottom ==
  ASSUME NEW p \in State, Stacks(p)
  PROVE  /\ p.cxs \in Seq(Blocks) /\ Len(p.cxs) \in Nat
         /\ p.si \in Seq(Nat) /\ Len(p.si) \in Nat /\ Len(p.si) >= 1
         /\ cxbase(p) = p.si[Len(p.si)] /\ cxbase(p) \in Nat /\ cxbase(p) <= Len(p.cxs)
         /\ \A k \in 1 .. Len(p.si) : p.si[k] \in Nat /\ p.si[k] <= cxbase(p)
         /\ Len(p.si) > 1 => cxbase(p) < Len(p.cxs) /\ p.cxs[cxbase(p) + 1].cx.type = "SUB"
<1> DEFINE si == p.si
           m  == Len(si)
           n  == Len(p.cxs)
<1>1. Stacked(p.cxs, si)
  BY DEF Stacks
<1>2. /\ m \in Nat /\ m >= 1 /\ n \in Nat /\ si \in Seq(Nat) /\ p.cxs \in Seq(Blocks)
      /\ \A k \in 1 .. m : si[k] \in Nat /\ si[k] <= Kept(p, k) /\ Kept(p, k) <= n
  BY <1>1, StackBounds, StateFields
<1>3. cxbase(p) = si[m]
  <2> HIDE DEF si
  <2>1. Len(si) > 0
    BY <1>2
  <2>2. Last(si) = si[Len(si)]
    BY <1>2, <2>1, LastFront
  <2> QED  BY <2>2 DEF cxbase, si
<1>4. \A k \in 2 .. m : si[k] < n /\ p.cxs[si[k] + 1].cx.type = "SUB"
                        /\ \A l \in 1 .. k - 1 : si[l] <= si[k]
  BY <1>1 DEF Stacked
<1> HIDE DEF si, m, n
<1>5. m \in 1 .. m
  BY <1>2
<1>6. si[m] \in Nat /\ si[m] <= n
  <2>1. Kept(p, m) = n
    BY DEF Kept, m, n, si
  <2> QED  BY <1>2, <1>5, <2>1
<1>7. ASSUME NEW k \in 1 .. m
      PROVE  si[k] \in Nat /\ si[k] <= si[m]
  <2>1. CASE k = m
    BY <1>6, <2>1
  <2>2. CASE k # m
    <3>1. m \in 2 .. m /\ k \in 1 .. m - 1
      BY <1>2, <2>2
    <3> QED  BY <1>2, <1>4, <3>1
  <2> QED  BY <2>1, <2>2
<1>8. m > 1 => si[m] < n /\ p.cxs[si[m] + 1].cx.type = "SUB"
  <2> SUFFICES ASSUME m > 1
               PROVE  si[m] < n /\ p.cxs[si[m] + 1].cx.type = "SUB"
    OBVIOUS
  <2>1. m \in 2 .. m
    BY <1>2
  <2> QED  BY <1>4, <2>1
<1> QED  BY <1>2, <1>3, <1>6, <1>7, <1>8 DEF si, m, n

LEMMA InnermostIs ==
  ASSUME pl \in State, Stacks(pl)
  PROVE  /\ Innermost \in cxbase(pl) .. Len(pl.cxs)
         /\ Innermost > cxbase(pl) => pl.cxs[Innermost].cx.type # "LOOP"
         /\ \A i \in Innermost + 1 .. Len(pl.cxs) : pl.cxs[i].cx.type = "LOOP"
         /\ Len(pl.si) > 1 => Innermost >= cxbase(pl) + 1
<1> DEFINE b == cxbase(pl)
           n == Len(pl.cxs)
           S == {b} \cup {i \in b + 1 .. n : pl.cxs[i].cx.type # "LOOP"}
           l == Innermost
<1>1. /\ b \in Nat /\ n \in Nat /\ b <= n
      /\ Len(pl.si) > 1 => b < n /\ pl.cxs[b + 1].cx.type = "SUB"
  BY Bottom
<1>2. l = Max(S)
  BY DEF Innermost
<1> HIDE DEF b, n, l
<1>3. l \in S /\ \A j \in S : j <= l
  <2>1. CASE b >= 1
    <3>1. S \in SUBSET (1 .. n) /\ S # {}
      BY <1>1, <2>1
    <3> HIDE DEF S
    <3> QED  BY <1>1, <1>2, <3>1, Largest
  <2>2. CASE S = {b}
    <3>1. l = b
      <4> HIDE DEF S
      <4>1. l = CHOOSE x \in S : \A y \in S : y <= x
        BY <1>2 DEF Max
      <4>2. \E x \in S : \A y \in S : y <= x
        BY <1>1, <2>2
      <4>3. l \in S
        BY <4>1, <4>2
      <4> QED  BY <2>2, <4>3
    <3> QED  BY <1>1, <2>2, <3>1
  <2>3. CASE b = 0 /\ S # {b}
    <3>1. S \ {0} \in SUBSET (1 .. n) /\ S \ {0} # {} /\ 0 \in S
      BY <1>1, <2>3
    <3> HIDE DEF S
    <3>2. Max(S \ {0}) \in S \ {0} /\ \A j \in S \ {0} : j <= Max(S \ {0})
      BY <1>1, <3>1, Largest
    <3>3. l = CHOOSE x \in S : \A y \in S : y <= x
      BY <1>2 DEF Max
    <3>4. Max(S \ {0}) \in Nat
      BY <3>1, <3>2
    <3>5. \A j \in S : j <= Max(S \ {0})
      BY <3>2, <3>4
    <3>6. \E x \in S : \A y \in S : y <= x
      BY <3>2, <3>5
    <3> QED  BY <3>3, <3>6
  <2> QED  BY <1>1, <2>1, <2>2, <2>3
<1>4. l \in b .. n /\ (l > b => pl.cxs[l].cx.type # "LOOP")
  BY <1>1, <1>3
<1>5. ASSUME NEW i \in l + 1 .. n, pl.cxs[i].cx.type # "LOOP"
      PROVE  FALSE
  <2>1. i \in S /\ ~(i <= l)
    BY <1>1, <1>4, <1>5
  <2> QED  BY <1>3, <2>1
<1>6. ASSUME Len(pl.si) > 1
      PROVE  l >= b + 1
  <2>1. b + 1 \in S
    BY <1>1, <1>6
  <2> QED  BY <1>3, <2>1
<1> QED  BY <1>4, <1>5, <1>6 DEF b, n, l

LEMMA Unwinds ==
  ASSUME NEW p, Books(p), NEW i \in Nat, i <= Len(p.cxs)
  PROVE  UnwoundTo(p, dounwind(p, i), i) /\ dounwind(p, i).si = p.si
         /\ dounwind(p, i).top_env = p.top_env
BY UnwindKeeps DEF UnwoundTo, Aside

\* The same C functions run, on the same stacks.
LEMMA LevelsKept ==
  ASSUME NEW p \in State, NEW cs, Levels(p, cs), cs # <<>>, cs[Len(cs)].running,
         NEW r \in State, r.si = p.si, r.top_env = p.top_env,
         NEW n \in Nat, n <= Len(p.cxs), \A i \in 1 .. n : r.cxs[i] = p.cxs[i],
         \A i \in EvalsTo(r.cxs, Len(r.cxs)) : i <= n \/ LoopedAt(r.cxs, r.si, cs, i)
  PROVE  Levels(r, cs)
<1> DEFINE k  == Len(cs)
           B  == p.cxs
           C  == r.cxs
           ti == r.si
<1>1. /\ cs \in Seq(CFunctions) /\ k \in Nat /\ HasEnv(cs[1]) /\ Len(p.si) = 1 + Calls(cs, k)
      /\ Environed(cs, p.top_env) /\ Looped(B, p.si, cs)
  BY LevelsFields
<1>2. \A i \in 1 .. Len(cs) : i < Len(cs) \/ HasEnv(cs[i]) => cs[i].running
  BY DEF Levels
<1>3. \A i \in EvalsTo(B, n) : B[i].cx.loop <= k
  <2> SUFFICES ASSUME NEW i \in EvalsTo(B, n)
               PROVE  B[i].cx.loop <= k
    OBVIOUS
  <2>1. Len(B) \in Nat
    BY StateFields, LenProperties
  <2>2. i \in EvalsTo(B, Len(B))
    BY <2>1 DEF EvalsTo
  <2>3. B[i].cx.loop \in 1 .. Len(cs)
    BY <1>1, <2>2 DEF Looped, LoopedAt
  <2> DEFINE x == B[i].cx.loop
  <2> HIDE DEF x
  <2>4. x \in 1 .. k => x <= k
    OBVIOUS
  <2> QED  BY <2>3, <2>4 DEF x
<1>4. Looped(C, ti, cs)
  <2>1. /\ ti \in Seq(Nat) /\ Len(B) \in Nat /\ Len(C) \in Nat /\ k <= Len(cs)
        /\ \A j \in 1 .. Len(ti) : j <= Len(p.si) /\ ti[j] = p.si[j]
    BY <1>1, StateFields, LenProperties
  <2>2. \A j \in 1 .. k : HasEnv(cs[j]) = HasEnv(cs[j])
    OBVIOUS
  <2>3. \A j \in 1 .. Len(ti) : \/ j <= Len(p.si) /\ ti[j] = p.si[j]
                                \/ ti[j] >= n /\ j > 1 + Calls(cs, k)
    BY <2>1
  <2>4. /\ n <= Len(B) /\ \A i \in 1 .. n : C[i] = B[i]
        /\ \A i \in EvalsTo(C, Len(C)) : i <= n \/ LoopedAt(C, ti, cs, i)
    OBVIOUS
  <2>5. Len(cs) \in Nat
    BY <1>1
  <2> HIDE DEF B, C, ti, k
  <2> QED  BY <1>1, <1>3, <2>1, <2>2, <2>3, <2>4, <2>5, LoopedAgain
<1> QED  BY <1>1, <1>2, <1>4 DEF Levels

\* As the i-th context is left, the invariant holds of what is left.
LEMMA LeftSame ==
  ASSUME NEW p, NEW cs, Inv(p, cs), cs # <<>>, cs[Len(cs)].running,
         NEW i \in cxbase(p) + 1 .. Len(p.cxs), Len(p.si) > 1 => i > cxbase(p) + 1,
         NEW q, UnwoundTo(p, q, i), q.si = p.si,
         NEW t, Leaves(q, t, SavesTo(p.cxs, i - 1), p.cxs[i].oldscopesp - 1),
         t.si = q.si, t.top_env = q.top_env
  PROVE  Inv(t, cs)
<1> DEFINE B == p.cxs
           s == B[i].oldscopesp - 1
           n == i - 1
           m == Len(p.si)
<1>1. p \in State /\ Books(p) /\ Saved(p) /\ Stacks(p) /\ Levels(p, cs)
  BY DEF Inv, Books
<1>2. /\ cxbase(p) \in Nat /\ Len(B) \in Nat /\ m \in Nat /\ m >= 1
      /\ \A k \in 1 .. m : p.si[k] \in Nat /\ p.si[k] <= cxbase(p)
  BY <1>1, Bottom
<1>3. i \in 1 .. Len(B) /\ n \in Nat /\ n <= Len(B)
  BY <1>2
<1>4. /\ q \in State /\ B[i].oldscopesp \in 1 .. Len(q.scopestack) /\ q.scopestack \in Seq(Nat)
      /\ \A j \in 1 .. i - 1 : B[j].oldscopesp <= B[i].oldscopesp - 1
  <2>1. LET o == B[i].oldscopesp
        IN  /\ q \in State /\ o \in 1 .. Len(q.scopestack)
            /\ \A j \in 1 .. i - 1 : B[j].oldscopesp <= o - 1
    BY <1>1, <1>3, LeaveReady
  <2> QED  BY <2>1, StateFields
<1>5. s \in Nat /\ s < B[i].oldscopesp
  <2> DEFINE o == B[i].oldscopesp
  <2>1. o \in 1 .. Len(q.scopestack) /\ Len(q.scopestack) \in Nat
    BY <1>4, LenProperties
  <2> HIDE DEF o
  <2>2. o - 1 \in Nat /\ o - 1 < o
    BY <2>1
  <2> QED  BY <2>2 DEF o
<1>6. Books(t) /\ Saved(t) /\ Remains(p, t, n, s)
  BY <1>1, <1>3, <1>4, <1>5, ContextLeft
<1>7. t \in State /\ t.si = p.si /\ t.top_env = p.top_env
      /\ Len(t.cxs) = n /\ \A j \in 1 .. n : t.cxs[j] = B[j]
  BY <1>6 DEF Books, Remains, Prefix, UnwoundTo, Aside
<1>8. Stacks(t)
  <2>1. \A j \in 2 .. m : p.si[j] < n
    <3> SUFFICES ASSUME NEW j \in 2 .. m
                 PROVE  p.si[j] < n
      OBVIOUS
    <3>1. m > 1 /\ j \in 1 .. m
      BY <1>2
    <3>2. i > cxbase(p) + 1 /\ p.si[j] \in Nat /\ p.si[j] <= cxbase(p) /\ i \in Nat
      BY <1>2, <1>3, <3>1
    <3> QED  BY <1>2, <3>2
  <2>2. m \in 1 .. m /\ Prefix(p.si, t.si, m)
    BY <1>2, <1>7 DEF Prefix
  <2> HIDE DEF n, s, m
  <2> QED  BY <1>1, <1>3, <1>5, <1>6, <2>1, <2>2, StacksRemain DEF m
<1>9. Levels(t, cs)
  <2>1. \A j \in EvalsTo(t.cxs, Len(t.cxs)) : j <= n
    BY <1>3, <1>7 DEF EvalsTo
  <2> HIDE DEF n
  <2> QED  BY <1>1, <1>3, <1>7, <2>1, LevelsKept
<1> QED  BY <1>6, <1>8, <1>9 DEF Inv

\* The three ways to leave a context with its scope.
LEMMA Leaving ==
  ASSUME NEW p \in State, Saved(p), NEW i \in 1 .. Len(p.cxs), NEW q, UnwoundTo(p, q, i)
  PROVE  LET type == p.cxs[i].cx.type
             Left(t) == /\ Leaves(q, t, SavesTo(p.cxs, i - 1), p.cxs[i].oldscopesp - 1)
                        /\ t.si = q.si /\ t.top_env = q.top_env
         IN  /\ Last(q.cxs) = p.cxs[i]
             /\ type = "SUB" => Left(leavesub(q))
             /\ type = "EVAL" => Left(LEAVE(POPEVAL(POPBLOCK(q), p.cxs[i].cx)))
             /\ type = "LOOP" => Left(LEAVE(POPBLOCK(q)))
<1> DEFINE b == p.cxs[i]
           o == b.oldscopesp
           m == SavesTo(p.cxs, i - 1)
<1>1. /\ q \in State /\ Len(q.cxs) > 0 /\ Last(q.cxs) = b /\ o \in 1 .. Len(q.scopestack)
      /\ m = q.scopestack[o] /\ m <= Len(q.savestack)
  BY LeaveReady
<1>2. o = Last(q.cxs).oldscopesp
  BY <1>1
<1> HIDE DEF b, o, m
<1>3. ASSUME b.cx.type = "SUB"
      PROVE  LET t == leavesub(q)
             IN  Leaves(q, t, m, o - 1) /\ t.si = q.si /\ t.top_env = q.top_env
  BY <1>1, <1>2, <1>3, SubLeft
<1>4. ASSUME b.cx.type = "EVAL"
      PROVE  LET t == LEAVE(POPEVAL(POPBLOCK(q), b.cx))
             IN  Leaves(q, t, m, o - 1) /\ t.si = q.si /\ t.top_env = q.top_env
  <2>1. LET t == LEAVE(POPEVAL(POPBLOCK(q), Last(q.cxs).cx))
        IN  Leaves(q, t, m, o - 1) /\ t.si = q.si /\ t.top_env = q.top_env
    BY <1>1, <1>2, <1>4, EvalLeft
  <2> QED  BY <1>1, <2>1
<1>5. ASSUME b.cx.type = "LOOP"
      PROVE  LET t == LEAVE(POPBLOCK(q))
             IN  Leaves(q, t, m, o - 1) /\ t.si = q.si /\ t.top_env = q.top_env
  BY <1>1, <1>2, <1>5, LoopLeft
<1> QED  BY <1>1, <1>3, <1>4, <1>5 DEF b, o, m

LEMMA RunningIs ==
  ASSUME IInv, Running
  PROVE  /\ Inv(pl, c_stack) /\ c_stack # <<>> /\ c_stack[Len(c_stack)].running
         /\ pl \in State /\ Books(pl) /\ Saved(pl) /\ Stacks(pl) /\ Levels(pl, c_stack)
BY DEF IInv, Inv, Running, Last, Books

LEMMA LeaveSubKeeps ==
  ASSUME IInv, LeaveSub
  PROVE  IInv'
<1> DEFINE i == Innermost
           q == dounwind(pl, i)
<1>1. /\ Inv(pl, c_stack) /\ c_stack # <<>> /\ c_stack[Len(c_stack)].running
      /\ pl \in State /\ Books(pl) /\ Saved(pl) /\ Stacks(pl) /\ Levels(pl, c_stack)
  BY RunningIs DEF LeaveSub
<1>2. /\ i > cxbase(pl) /\ ~OwnSub /\ pl.cxs[i].cx.type = "SUB"
      /\ pl' = leavesub(q) /\ c_stack' = c_stack
  BY DEF LeaveSub
<1>3. cxbase(pl) \in Nat /\ Len(pl.cxs) \in Nat /\ i \in cxbase(pl) .. Len(pl.cxs)
  BY <1>1, Bottom, InnermostIs
<1>4. Len(pl.si) > 1 => i # cxbase(pl) + 1
  BY <1>2 DEF OwnSub
<1> HIDE DEF i
<1>5. /\ i \in cxbase(pl) + 1 .. Len(pl.cxs) /\ i \in 1 .. Len(pl.cxs) /\ i \in Nat
      /\ i <= Len(pl.cxs)
      /\ Len(pl.si) > 1 => i > cxbase(pl) + 1
  BY <1>2, <1>3, <1>4
<1>6. UnwoundTo(pl, q, i) /\ q.si = pl.si
  BY <1>1, <1>5, Unwinds
<1> HIDE DEF q
<1> DEFINE t == leavesub(q)
<1>7. /\ Leaves(q, t, SavesTo(pl.cxs, i - 1), pl.cxs[i].oldscopesp - 1)
      /\ t.si = q.si /\ t.top_env = q.top_env
  BY <1>1, <1>2, <1>5, <1>6, Leaving
<1> HIDE DEF t
<1>8. Inv(t, c_stack)
  BY <1>1, <1>5, <1>6, <1>7, LeftSame
<1> QED  BY <1>2, <1>8 DEF IInv, t

LEMMA LeaveTryKeeps ==
  ASSUME IInv, LeaveTry
  PROVE  IInv'
<1> DEFINE i == Innermost
           q == dounwind(pl, i)
           x == pl.cxs[i].cx
           t == LEAVE(POPEVAL(POPBLOCK(q), x))
<1>1. /\ Inv(pl, c_stack) /\ c_stack # <<>> /\ c_stack[Len(c_stack)].running
      /\ pl \in State /\ Books(pl) /\ Saved(pl) /\ Stacks(pl) /\ Levels(pl, c_stack)
  BY RunningIs DEF LeaveTry
<1>2. /\ i > cxbase(pl) /\ x.type = "EVAL"
      /\ pl' = LEAVE(POPEVAL(POPBLOCK(q), Last(q.cxs).cx)) /\ c_stack' = c_stack
  BY DEF LeaveTry
<1>3. cxbase(pl) \in Nat /\ Len(pl.cxs) \in Nat /\ i \in cxbase(pl) .. Len(pl.cxs)
  BY <1>1, Bottom, InnermostIs
<1>4. Len(pl.si) > 1 => i # cxbase(pl) + 1
  <2>1. Len(pl.si) > 1 => pl.cxs[cxbase(pl) + 1].cx.type = "SUB"
    BY <1>1, Bottom
  <2> QED  BY <1>2, <2>1
<1> HIDE DEF i
<1>5. /\ i \in cxbase(pl) + 1 .. Len(pl.cxs) /\ i \in 1 .. Len(pl.cxs) /\ i \in Nat
      /\ i <= Len(pl.cxs)
      /\ Len(pl.si) > 1 => i > cxbase(pl) + 1
  BY <1>2, <1>3, <1>4
<1>6. UnwoundTo(pl, q, i) /\ q.si = pl.si
  BY <1>1, <1>5, Unwinds
<1> HIDE DEF q
<1>7. /\ Leaves(q, t, SavesTo(pl.cxs, i - 1), pl.cxs[i].oldscopesp - 1)
      /\ t.si = q.si /\ t.top_env = q.top_env /\ Last(q.cxs) = pl.cxs[i]
  BY <1>1, <1>2, <1>5, <1>6, Leaving
<1>8. pl' = t
  BY <1>2, <1>7
<1> HIDE DEF t
<1>9. Inv(t, c_stack)
  BY <1>1, <1>5, <1>6, <1>7, LeftSame
<1> QED  BY <1>2, <1>8, <1>9 DEF IInv

LEMMA LastOutKeeps ==
  ASSUME IInv, NEW i, LastOut(i)
  PROVE  IInv'
<1> DEFINE q == dounwind(pl, i)
           t == LEAVE(POPBLOCK(q))
<1>1. /\ Inv(pl, c_stack) /\ c_stack # <<>> /\ c_stack[Len(c_stack)].running
      /\ pl \in State /\ Books(pl) /\ Saved(pl) /\ Stacks(pl) /\ Levels(pl, c_stack)
  BY RunningIs DEF LastOut
<1>2. /\ i \in cxbase(pl) + 1 .. Len(pl.cxs) /\ pl.cxs[i].cx.type = "LOOP"
      /\ pl' = t /\ c_stack' = c_stack
  BY DEF LastOut
<1>3. cxbase(pl) \in Nat /\ Len(pl.cxs) \in Nat
  BY <1>1, Bottom
<1>4. Len(pl.si) > 1 => i # cxbase(pl) + 1
  <2>1. Len(pl.si) > 1 => pl.cxs[cxbase(pl) + 1].cx.type = "SUB"
    BY <1>1, Bottom
  <2> QED  BY <1>2, <2>1
<1>5. /\ i \in 1 .. Len(pl.cxs) /\ i \in Nat /\ i <= Len(pl.cxs)
      /\ Len(pl.si) > 1 => i > cxbase(pl) + 1
  BY <1>2, <1>3, <1>4
<1>6. UnwoundTo(pl, q, i) /\ q.si = pl.si
  BY <1>1, <1>5, Unwinds
<1> HIDE DEF q
<1>7. /\ Leaves(q, t, SavesTo(pl.cxs, i - 1), pl.cxs[i].oldscopesp - 1)
      /\ t.si = q.si /\ t.top_env = q.top_env
  BY <1>1, <1>2, <1>5, <1>6, Leaving
<1> HIDE DEF t
<1>8. Inv(t, c_stack)
  BY <1>1, <1>2, <1>5, <1>6, <1>7, LeftSame
<1> QED  BY <1>2, <1>8 DEF IInv

-----------------------------------------------------------------------------
(* The C functions, as some return or go on.                               *)

LEMMA LevelsCut ==
  ASSUME NEW p \in State, NEW cs, Levels(p, cs), cs # <<>>, NEW k \in 1 .. Len(cs),
         NEW ds \in Seq(CFunctions), Len(ds) = k,
         \A j \in 1 .. k : /\ HasEnv(ds[j]) = HasEnv(cs[j]) /\ ds[j].oldcatch = cs[j].oldcatch
                           /\ j < k \/ HasEnv(ds[j]) => ds[j].running,
         NEW r \in State, Len(r.top_env) = 1 + Envs(cs, k),
         \A x \in 1 .. Envs(cs, k) : r.top_env[x] = p.top_env[x],
         r.top_env[1 + Envs(cs, k)] = ~HasEnv(cs[k]),
         NEW n \in Nat, n <= Len(p.cxs), Prefix(p.cxs, r.cxs, n),
         Prefix(p.si, r.si, 1 + Calls(cs, k)),
         \A i \in EvalsTo(p.cxs, n) : p.cxs[i].cx.loop <= k,
         ~ds[k].running => Len(r.cxs) = r.si[Len(r.si)] + 1 /\ r.cxs[Len(r.cxs)].cx.multicall
  PROVE  Levels(r, ds)
<1> DEFINE B  == p.cxs
           C  == r.cxs
           si == p.si
           ti == r.si
           te == p.top_env
           tt == r.top_env
<1>1. /\ cs \in Seq(CFunctions) /\ Len(cs) \in Nat /\ HasEnv(cs[1]) /\ Environed(cs, te)
      /\ Len(si) = 1 + Calls(cs, Len(cs)) /\ Looped(B, si, cs)
      /\ Calls(cs, Len(cs)) \in Nat
  BY LevelsFields
<1>2. k \in Nat /\ k >= 1 /\ k <= Len(cs) /\ k \in Int /\ Len(cs) \in Int /\ k \in 1 .. k
  BY <1>1
<1>3. /\ Calls(cs, k) \in Nat /\ Envs(cs, k) \in Nat /\ Calls(cs, k) <= Calls(cs, Len(cs))
  BY <1>2, CountTypes, CountMore
<1>4. Envs(ds, k) = Envs(cs, k) /\ Calls(ds, k) = Calls(cs, k)
  BY CountSame, ZenonT(60)
<1>5. Environed(ds, tt)
  <2>1. ~(Len(ds) = k + 1) /\ Len(tt) = 1 + Envs(ds, Len(ds))
    BY <1>2, <1>4
  <2>2. EnvsSet(cs, te, k, ds, tt)
    BY <2>1 DEF EnvsSet
  <2> HIDE DEF te, tt
  <2> QED  BY <1>1, <1>2, <2>2, EnvironedAgain
<1>6. Looped(C, ti, ds)
  <2>1. /\ ti \in Seq(Nat) /\ Len(B) \in Nat /\ Len(C) \in Nat /\ k <= Len(ds) /\ Len(ds) \in Nat
        /\ \A j \in 1 .. k : HasEnv(ds[j]) = HasEnv(cs[j])
    BY <1>2, StateFields, LenProperties
  <2>2. \A i \in 1 .. n : C[i] = B[i]
    BY DEF Prefix
  <2>3. \A j \in 1 .. Len(ti) : j <= Len(si) /\ ti[j] = si[j]
    <3>1. Len(ti) = 1 + Calls(cs, k) /\ \A j \in 1 .. 1 + Calls(cs, k) : ti[j] = si[j]
      BY DEF Prefix
    <3> HIDE DEF ti, si
    <3> QED  BY <1>1, <1>3, <3>1, SMTT(30)
  <2>4. \A j \in 1 .. Len(ti) : \/ j <= Len(si) /\ ti[j] = si[j]
                                \/ ti[j] >= n /\ j > 1 + Calls(cs, k)
    BY <2>3
  <2>5. \A i \in EvalsTo(C, Len(C)) : i <= n \/ LoopedAt(C, ti, ds, i)
    <3>1. Len(C) = n
      BY DEF Prefix
    <3> QED  BY <3>1 DEF EvalsTo
  <2>6. n <= Len(B) /\ \A i \in EvalsTo(B, n) : B[i].cx.loop <= k
    OBVIOUS
  <2> HIDE DEF B, C, si, ti
  <2> QED  BY <1>1, <1>2, <2>1, <2>2, <2>4, <2>5, <2>6, LoopedAgain
<1>7. ds # <<>> /\ HasEnv(ds[1]) /\ Len(ti) = 1 + Calls(ds, Len(ds))
  <2>1. 1 \in 1 .. k
    BY <1>2
  <2>2. Len(ti) = 1 + Calls(cs, k)
    BY DEF Prefix
  <2>3. ds # <<>>
    BY <1>2, EmptySeq
  <2> QED  BY <1>1, <1>4, <2>1, <2>2, <2>3
<1> QED  BY <1>5, <1>6, <1>7 DEF Levels

LEMMA StacksSame ==
  ASSUME NEW p, Stacks(p), NEW r, r.cxs = p.cxs, r.si = p.si, r.scopestack = p.scopestack
  PROVE  Stacks(r)
BY DEF Stacks

LEMMA LevelsSame ==
  ASSUME NEW p, NEW cs, Levels(p, cs), NEW r, r.cxs = p.cxs, r.si = p.si, r.top_env = p.top_env
  PROVE  Levels(r, cs)
BY DEF Levels

LEMMA ForgetKeeps ==
  ASSUME IInv, NEW cv \in Cvs, Forget(cv)
  PROVE  IInv'
<1> DEFINE d  == [pl.refcnt EXCEPT ![cv] = @ - 1]
           m  == [pl.named EXCEPT ![cv] = FALSE]
           p1 == [pl EXCEPT !.refcnt = d]
           p2 == [p1 EXCEPT !.named = m]
<1>1. /\ pl \in State /\ Books(pl) /\ Saved(pl) /\ Stacks(pl) /\ Levels(pl, c_stack)
      /\ pl.named[cv] /\ c_stack' = c_stack
  BY RunningIs DEF Forget
<1>2. /\ pl.refcnt \in [Cvs -> Int] /\ pl.named \in [Cvs -> BOOLEAN]
      /\ d \in [Cvs -> Int] /\ m \in [Cvs -> BOOLEAN]
  BY <1>1, StateFields
<1>3. pl' = [p1 EXCEPT !.named[cv] = FALSE]
  BY DEF Forget, SvREFCNT_dec
<1> HIDE DEF d, p1, p2
<1>4. /\ p1 \in State /\ p1.refcnt = d /\ p1.named = pl.named
      /\ p1.cxs = pl.cxs /\ p1.si = pl.si /\ p1.savestack = pl.savestack
      /\ p1.scopestack = pl.scopestack /\ p1.top_env = pl.top_env /\ p1.in_eval = pl.in_eval
      /\ p1.comppad = pl.comppad /\ p1.defav = pl.defav
      /\ p1.CvDEPTH = pl.CvDEPTH /\ p1.padlist = pl.padlist
  BY <1>1, <1>2, SetRefcnt DEF p1
<1>5. pl' = p2
  BY <1>3, <1>4 DEF p2
<1> HIDE DEF m
<1>6. /\ p2 \in State /\ p2.refcnt = d /\ p2.named = m
      /\ p2.cxs = pl.cxs /\ p2.si = pl.si /\ p2.savestack = pl.savestack
      /\ p2.scopestack = pl.scopestack /\ p2.top_env = pl.top_env /\ p2.in_eval = pl.in_eval
      /\ p2.comppad = pl.comppad /\ p2.defav = pl.defav
      /\ p2.CvDEPTH = pl.CvDEPTH /\ p2.padlist = pl.padlist
  BY <1>2, <1>4, SetNamed DEF p2
<1>7. Books(p2)
  <2> DEFINE B == pl.cxs
             F(c) == Cardinality(FramesTo(B, c, Len(B)))
             ss == pl.savestack
  <2>1. /\ Remembers(B) /\ pl.defav = PadIn(B, ArgsTo(B, Len(B)))
        /\ pl.in_eval = (EvalsTo(B, Len(B)) # {})
        /\ \A c \in Cvs : pl.CvDEPTH[c] = F(c) /\ pl.refcnt[c] = Refs(pl.named[c], F(c), ss, c)
    BY <1>1 DEF Books
  <2>2. ASSUME NEW c \in Cvs
        PROVE  p2.refcnt[c] = Refs(p2.named[c], F(c), ss, c)
    <3>1. F(c) \in Nat /\ Cardinality(Frees(ss, c)) \in Nat
      <4>1. Len(B) \in Nat /\ ss \in Seq(Saves) /\ Len(ss) \in Nat
        BY <1>1, StateFields, LenProperties
      <4>2. F(c) \in Nat
        <5>1. Len(B) \in Int
          BY <4>1
        <5> HIDE DEF B
        <5> QED  BY <5>1, ToTypes
      <4>3. Frees(ss, c) \in SUBSET (1 .. Len(ss))
        BY DEF Frees
      <4>4. Len(ss) \in Int
        BY <4>1
      <4>5. Cardinality(Frees(ss, c)) \in Nat
        BY <4>3, <4>4, ToFinite, Zenon
      <4> QED  BY <4>2, <4>5
    <3> HIDE DEF F, B, ss
    <3>2. CASE c = cv
      <4>1. d[c] = pl.refcnt[c] - 1 /\ m[c] = FALSE /\ pl.named[c]
        BY <1>1, <1>2, <3>2 DEF d, m
      <4> QED  BY <1>6, <2>1, <3>1, <4>1 DEF Refs
    <3>3. CASE c # cv
      <4>1. d[c] = pl.refcnt[c] /\ m[c] = pl.named[c]
        BY <1>2, <3>3 DEF d, m
      <4> QED  BY <1>6, <2>1, <4>1
    <3> QED  BY <3>2, <3>3
  <2> QED  BY <1>6, <2>1, <2>2 DEF Books
<1>8. Saved(p2) /\ Stacks(p2) /\ Levels(p2, c_stack)
  BY <1>1, <1>6, SavedSame, StacksSame, LevelsSame
<1> QED  BY <1>1, <1>5, <1>7, <1>8 DEF IInv, Inv

LEMMA MulticallKeeps ==
  ASSUME IInv, MULTICALL
  PROVE  IInv'
<1> DEFINE k  == Len(c_stack)
           ds == c_stack'
           n  == Len(pl.cxs)
<1>1. /\ pl \in State /\ Books(pl) /\ Saved(pl) /\ Stacks(pl) /\ Levels(pl, c_stack)
      /\ c_stack # <<>> /\ pl' = pl
      /\ c_stack' = [c_stack EXCEPT ![k].running = TRUE]
  BY DEF IInv, Inv, Books, MULTICALL, InC
<1>2. /\ c_stack \in Seq(CFunctions) /\ k \in Nat /\ k >= 1 /\ HasEnv(c_stack[1])
      /\ Len(pl.si) = 1 + Calls(c_stack, k) /\ Environed(c_stack, pl.top_env)
      /\ Looped(pl.cxs, pl.si, c_stack) /\ Envs(c_stack, k) \in Nat
      /\ Len(pl.top_env) = 1 + Envs(c_stack, k)
  BY <1>1, LevelsFields
<1>3. /\ \A j \in 1 .. k : c_stack[j] \in CFunctions
      /\ DOMAIN c_stack = 1 .. k
  BY <1>2, ElementOfSeq, LenProperties
<1>4. /\ ds \in Seq(CFunctions) /\ Len(ds) = k
      /\ \A j \in 1 .. k : ds[j] = IF j = k THEN [c_stack[j] EXCEPT !.running = TRUE]
                                   ELSE c_stack[j]
  <2>1. DOMAIN ds = 1 .. k
    BY <1>1, <1>3
  <2>2. \A j \in 1 .. k : ds[j] = IF j = k THEN [c_stack[j] EXCEPT !.running = TRUE]
                                  ELSE c_stack[j]
    BY <1>1, <1>3
  <2>3. \A j \in 1 .. k : ds[j] \in CFunctions
    BY <1>3, <2>2 DEF CFunctions
  <2>4. ds = [j \in 1 .. k |-> ds[j]]
    BY <1>1, <2>1
  <2> HIDE DEF ds, k
  <2>5. ds \in Seq(CFunctions) /\ Len(ds) = k
    BY <1>2, <2>1, <2>3, <2>4, IsASeq, LenProperties, SMTT(30)
  <2> QED  BY <2>2, <2>5
<1>5. ASSUME NEW j \in 1 .. k
      PROVE  /\ HasEnv(ds[j]) = HasEnv(c_stack[j]) /\ ds[j].oldcatch = c_stack[j].oldcatch
             /\ ds[j].running
  <2>1. j # k => c_stack[j].running
    BY <1>1, <1>2 DEF Levels
  <2>2. /\ [c_stack[j] EXCEPT !.running = TRUE].kind = c_stack[j].kind
        /\ [c_stack[j] EXCEPT !.running = TRUE].running
        /\ [c_stack[j] EXCEPT !.running = TRUE].oldcatch = c_stack[j].oldcatch
    BY <1>3 DEF CFunctions
  <2> HIDE DEF ds
  <2> QED  BY <1>4, <2>1, <2>2 DEF HasEnv
<1>6. pl.top_env[1 + Envs(c_stack, k)] = ~HasEnv(c_stack[k])
  <2>1. /\ k \in Nat /\ k <= Len(c_stack) /\ ~(k < Len(c_stack))
    BY <1>2
  <2>2. pl.top_env[1 + Envs(c_stack, k)]
          = (~HasEnv(c_stack[k]) \/ (k < Len(c_stack) /\ ~HasEnv(c_stack[k + 1])))
    BY <1>2, <2>1, CatchAt
  <2> QED  BY <2>1, <2>2
<1>7. Prefix(pl.cxs, pl.cxs, n) /\ Prefix(pl.si, pl.si, 1 + Calls(c_stack, k))
  BY <1>2 DEF Prefix
<1>8. \A i \in EvalsTo(pl.cxs, n) : pl.cxs[i].cx.loop <= k
  <2> SUFFICES ASSUME NEW i \in EvalsTo(pl.cxs, n)
               PROVE  pl.cxs[i].cx.loop <= k
    OBVIOUS
  <2> DEFINE l == pl.cxs[i].cx.loop
  <2>1. l \in 1 .. k
    BY <1>2 DEF Looped, LoopedAt
  <2> HIDE DEF l
  <2>2. l <= k
    BY <1>2, <2>1
  <2> QED  BY <2>2 DEF l
<1>9. n \in Nat /\ n <= Len(pl.cxs) /\ k \in 1 .. Len(c_stack)
  BY <1>1, <1>2, StateFields, LenProperties
<1> HIDE DEF ds, n
<1>10. Levels(pl, ds)
  <2>1. k \in 1 .. k
    BY <1>2
  <2> QED  BY <1>1, <1>2, <1>4, <1>5, <1>6, <1>7, <1>8, <1>9, <2>1, LevelsCut
<1> QED  BY <1>1, <1>10 DEF IInv, Inv, ds

-----------------------------------------------------------------------------
(* Entering a context by the ops of the stack it is on.                    *)

\* A sub was entered from e, with @_ or without: b is its context.
SubIn(e, r, h, b) ==
  /\ Books(r) /\ Saved(r) /\ Added(e.cxs, b, r.cxs, Len(e.cxs))
  /\ b.cx.type = "SUB" /\ b.cx.multicall = ~h /\ b.oldscopesp = Len(e.scopestack)
  /\ r.scopestack = e.scopestack /\ r.si = e.si /\ r.top_env = e.top_env

LEMMA SubIsIn ==
  ASSUME NEW e, Opened(e), NEW cv \in Cvs, NEW h \in BOOLEAN, NEW r,
         r = LET s == SubPushed(e, cv, h)
             IN  IF h THEN [s EXCEPT !.defav = s.comppad] ELSE s
  PROVE  \E b : SubIn(e, r, h, b)
<1> DEFINE s == SubPushed(e, cv, h)
           d == e.CvDEPTH[cv]
           b == [oldscopesp |-> Len(e.scopestack), cx |-> SubContext(e, cv, h)]
           n == Len(e.cxs)
<1>1. e \in State /\ Books(e) /\ Saved(e)
  BY DEF Opened, Books
<1>2. d \in Nat
  <2>1. n \in Int
    BY <1>1, StateFields, LenProperties
  <2>2. d = Cardinality(FramesTo(e.cxs, cv, n))
    BY <1>1 DEF Books
  <2> HIDE DEF n, d
  <2> QED  BY <2>1, <2>2, ToTypes
<1>3. /\ s \in State /\ b \in Blocks /\ b.cx \in SubCx /\ s.cxs = Append(e.cxs, b)
      /\ s.si = e.si /\ s.scopestack = e.scopestack /\ s.top_env = e.top_env
      /\ s.in_eval = e.in_eval /\ s.defav = e.defav /\ s.named = e.named
      /\ s.CvDEPTH = [e.CvDEPTH EXCEPT ![cv] = d + 1] /\ s.comppad = <<cv, d + 1>>
      /\ s.refcnt = IF d = 0 THEN [e.refcnt EXCEPT ![cv] = @ + 2] ELSE e.refcnt
      /\ s.savestack = IF d = 0
                       THEN Append(Append(e.savestack, FreeSave(cv)), PadSave(e.comppad))
                       ELSE Append(e.savestack, PadSave(e.comppad))
      /\ \A c \in Cvs : s.padlist[c] >= e.padlist[c]
      /\ e.padlist[cv] >= 1 => s.padlist[cv] >= d + 1
  BY <1>1, <1>2, SubPushedFields, SMTT(30)
<1>4. /\ b.oldscopesp = Len(e.scopestack) /\ b.cx = SubContext(e, cv, h)
      /\ b.cx.type = "SUB" /\ b.cx.multicall = ~h
  BY DEF SubContext
<1> HIDE DEF s, b, d
<1>5. SubEntered(e, r, cv, h, b, d) /\ r.si = e.si /\ r.top_env = e.top_env
  <2>1. CASE h
    <3> DEFINE v == s.comppad
               a == [s EXCEPT !.defav = v]
    <3>1. v \in Pads
      BY <1>3, StateFields
    <3> HIDE DEF v, a
    <3>2. /\ a \in State /\ a.defav = v
          /\ a.cxs = s.cxs /\ a.si = s.si /\ a.savestack = s.savestack
          /\ a.scopestack = s.scopestack /\ a.top_env = s.top_env
          /\ a.in_eval = s.in_eval /\ a.comppad = s.comppad /\ a.CvDEPTH = s.CvDEPTH
          /\ a.refcnt = s.refcnt /\ a.padlist = s.padlist /\ a.named = s.named
      BY <1>3, <3>1, SetDefav DEF a
    <3>3. r = a
      BY <2>1 DEF a, v, s
    <3>4. r.defav = r.comppad
      BY <3>2, <3>3 DEF v
    <3> QED  BY <1>3, <1>4, <2>1, <3>2, <3>3, <3>4 DEF SubEntered
  <2>2. CASE ~h
    <3>1. r = s
      BY <2>2 DEF s
    <3> QED  BY <1>3, <1>4, <2>2, <3>1 DEF SubEntered
  <2> QED  BY <2>1, <2>2
<1>6. Books(r) /\ Saved(r)
  <2>1. d = e.CvDEPTH[cv]
    BY DEF d
  <2> QED  BY <1>1, <1>5, <2>1, SubEnteredBooks, SubEnteredSaved
<1>7. Added(e.cxs, b, r.cxs, n) /\ r.scopestack = e.scopestack
  BY <1>1, <1>3, <1>5, StateFields DEF Added, SubEntered
<1> QED  BY <1>4, <1>5, <1>6, <1>7 DEF SubIn

\* A scope that is opened does not touch the stacks and the C functions.
LEMMA EnterKeeps ==
  ASSUME NEW p, NEW cs, Inv(p, cs)
  PROVE  /\ Opened(ENTER(p)) /\ Inv(ENTER(p), cs) /\ ENTER(p) \in State
         /\ ENTER(p).cxs = p.cxs /\ ENTER(p).si = p.si /\ ENTER(p).top_env = p.top_env
         /\ ENTER(p).in_eval = p.in_eval
<1>1. p \in State /\ Books(p) /\ Saved(p) /\ Stacks(p) /\ Levels(p, cs)
  BY DEF Inv, Books
<1> DEFINE e == ENTER(p)
<1>2. Opened(e) /\ Stacks(e)
  BY <1>1, EnterOpens
<1>3. /\ e \in State /\ e.cxs = p.cxs /\ e.si = p.si /\ e.top_env = p.top_env
      /\ e.in_eval = p.in_eval
  BY <1>1, EnterFields
<1> HIDE DEF e
<1>4. Levels(e, cs)
  BY <1>1, <1>3, LevelsSame
<1>5. Inv(e, cs)
  BY <1>2, <1>4 DEF Inv, Opened
<1> QED  BY <1>2, <1>3, <1>5 DEF e

\* A sub or a loop more, on the same stack.
LEMMA LevelsGrow ==
  ASSUME NEW p \in State, NEW cs, Levels(p, cs), cs # <<>>, cs[Len(cs)].running,
         NEW r \in State, r.si = p.si, r.top_env = p.top_env, NEW b, NEW n,
         Added(p.cxs, b, r.cxs, n), b.cx.type = "EVAL" => LoopedAt(r.cxs, r.si, cs, n + 1)
  PROVE  Levels(r, cs)
<1>1. /\ n \in Nat /\ Len(r.cxs) = n + 1 /\ r.cxs[n + 1] = b
      /\ \A i \in 1 .. n : r.cxs[i] = p.cxs[i]
  BY AddedSame
<1>2. n <= Len(p.cxs)
  BY <1>1 DEF Added
<1>3. \A i \in EvalsTo(r.cxs, Len(r.cxs)) : i <= n \/ LoopedAt(r.cxs, r.si, cs, i)
  <2> SUFFICES ASSUME NEW i \in EvalsTo(r.cxs, Len(r.cxs)), ~(i <= n)
               PROVE  LoopedAt(r.cxs, r.si, cs, i)
    OBVIOUS
  <2>1. i = n + 1 /\ r.cxs[i].cx.type = "EVAL"
    BY <1>1 DEF EvalsTo
  <2> QED  BY <1>1, <2>1
<1> QED  BY <1>1, <1>2, <1>3, LevelsKept

\* entersub, from the scope that it opens.
LEMMA EnterSubIs ==
  ASSUME NEW p \in State, NEW cv \in Cvs
  PROVE  LET s == SubPushed(ENTER(p), cv, TRUE)
         IN  entersub(p, cv) = [s EXCEPT !.defav = s.comppad]
<1>1. ENTER(p).CvDEPTH = p.CvDEPTH /\ ENTER(p).defav = p.defav
  BY EnterFields
<1>2. SubContext(ENTER(p), cv, TRUE) = SubContext(p, cv, TRUE)
  BY <1>1 DEF SubContext
<1> QED  BY <1>2 DEF entersub, SubPushed

LEMMA EnterSubKeeps ==
  ASSUME IInv, NEW cv \in Cvs, EnterSub(cv)
  PROVE  IInv'
<1> DEFINE e == ENTER(pl)
           r == pl'
           n == Len(e.cxs)
<1>1. /\ Inv(pl, c_stack) /\ c_stack # <<>> /\ c_stack[Len(c_stack)].running
      /\ pl \in State /\ c_stack' = c_stack
  BY RunningIs DEF EnterSub
<1>2. Opened(e) /\ Inv(e, c_stack) /\ e \in State
  BY <1>1, EnterKeeps
<1>3. r = LET s == SubPushed(e, cv, TRUE)
          IN  IF TRUE THEN [s EXCEPT !.defav = s.comppad] ELSE s
  BY <1>1, EnterSubIs DEF EnterSub
<1> HIDE DEF e
<1>4. PICK b : SubIn(e, r, TRUE, b)
  BY <1>2, <1>3, SubIsIn
<1> HIDE DEF r
<1>5. /\ Books(r) /\ Saved(r) /\ Added(e.cxs, b, r.cxs, n) /\ b.cx.type = "SUB"
      /\ r.scopestack = e.scopestack /\ r.si = e.si /\ r.top_env = e.top_env /\ r \in State
  BY <1>4 DEF SubIn, Books
<1> HIDE DEF n
<1>6. Stacks(r)
  BY <1>2, <1>5, StacksGrow DEF Inv
<1>7. Levels(r, c_stack)
  BY <1>1, <1>2, <1>5, LevelsGrow DEF Inv
<1> QED  BY <1>1, <1>5, <1>6, <1>7 DEF IInv, Inv, r

\* A block is pushed for an eval or a loop.
LEMMA BlockIsIn ==
  ASSUME NEW e, Opened(e), NEW x, x \in EvalCx \/ x \in LoopCx, NEW v \in BOOLEAN,
         \/ x.type = "EVAL" /\ x.old_in_eval = e.in_eval /\ v
         \/ x.type = "LOOP" /\ v = e.in_eval
  PROVE  LET r == [PUSHBLOCK(e, x) EXCEPT !.in_eval = v]
             b == [oldscopesp |-> Len(e.scopestack), cx |-> x]
         IN  /\ r \in State /\ Books(r) /\ Saved(r) /\ Added(e.cxs, b, r.cxs, Len(e.cxs))
             /\ r.scopestack = e.scopestack /\ r.si = e.si /\ r.top_env = e.top_env
<1> DEFINE b == [oldscopesp |-> Len(e.scopestack), cx |-> x]
           c == Append(e.cxs, b)
           q == [e EXCEPT !.cxs = c]
           r == [q EXCEPT !.in_eval = v]
<1>1. e \in State /\ Books(e)
  BY DEF Opened, Books
<1>2. b \in Blocks
  <2>1. Len(e.scopestack) \in Nat
    BY <1>1, StateFields, LenProperties
  <2> QED  BY <2>1, NewBlock
<1>3. b.oldscopesp = Len(e.scopestack) /\ b.cx = x
  OBVIOUS
<1>4. [PUSHBLOCK(e, x) EXCEPT !.in_eval = v] = r
  BY DEF PUSHBLOCK
<1> HIDE DEF b, q, r
<1>5. c \in Seq(Blocks)
  BY <1>1, <1>2, StateFields, Appended
<1> HIDE DEF c
<1>6. /\ q \in State /\ q.cxs = c
      /\ q.si = e.si /\ q.savestack = e.savestack /\ q.scopestack = e.scopestack
      /\ q.top_env = e.top_env /\ q.comppad = e.comppad
      /\ q.defav = e.defav /\ q.CvDEPTH = e.CvDEPTH /\ q.refcnt = e.refcnt
      /\ q.padlist = e.padlist /\ q.named = e.named
  BY <1>1, <1>5, SetCxs DEF q
<1>7. /\ r \in State /\ r.in_eval = v /\ r.cxs = c
      /\ r.si = e.si /\ r.savestack = e.savestack /\ r.scopestack = e.scopestack
      /\ r.top_env = e.top_env /\ r.comppad = e.comppad
      /\ r.defav = e.defav /\ r.CvDEPTH = e.CvDEPTH /\ r.refcnt = e.refcnt
      /\ r.padlist = e.padlist /\ r.named = e.named
  BY <1>6, SetInEval DEF r
<1>8. BlockEntered(e, r, b)
  BY <1>2, <1>3, <1>7 DEF BlockEntered, c
<1>9. Books(r) /\ Saved(r)
  BY <1>1, <1>8, BlockEnteredBooks, BlockEnteredSaved
<1>10. Added(e.cxs, b, r.cxs, Len(e.cxs))
  BY <1>1, <1>2, <1>7, StateFields DEF Added, c
<1> QED  BY <1>4, <1>7, <1>9, <1>10 DEF b, r

LEMMA EnterLoopKeeps ==
  ASSUME IInv, EnterLoop
  PROVE  IInv'
<1> DEFINE e == ENTER(pl)
           x == [type |-> "LOOP"]
           v == e.in_eval
           r == [PUSHBLOCK(e, x) EXCEPT !.in_eval = v]
           b == [oldscopesp |-> Len(e.scopestack), cx |-> x]
           n == Len(e.cxs)
<1>1. /\ Inv(pl, c_stack) /\ c_stack # <<>> /\ c_stack[Len(c_stack)].running
      /\ pl \in State /\ c_stack' = c_stack /\ pl' = PUSHBLOCK(e, x)
  BY RunningIs DEF EnterLoop
<1>2. Opened(e) /\ Inv(e, c_stack) /\ e \in State
  BY <1>1, EnterKeeps
<1>3. x \in LoopCx /\ x.type = "LOOP" /\ b.cx.type = "LOOP"
  BY DEF LoopCx
<1>4. v \in BOOLEAN
  BY <1>2, StateFields
<1>5. r = PUSHBLOCK(e, x)
  <2> HIDE DEF e
  <2> QED  BY <1>2 DEF PUSHBLOCK, State
<1>6. pl' = r
  BY <1>1, <1>5
<1> HIDE DEF e, x
<1>7. /\ r \in State /\ Books(r) /\ Saved(r) /\ Added(e.cxs, b, r.cxs, n)
      /\ r.scopestack = e.scopestack /\ r.si = e.si /\ r.top_env = e.top_env
  BY <1>2, <1>3, <1>4, BlockIsIn
<1> HIDE DEF r, b, n
<1>8. Stacks(r)
  BY <1>2, <1>7, StacksGrow DEF Inv
<1>9. Levels(r, c_stack)
  BY <1>1, <1>2, <1>3, <1>7, LevelsGrow DEF Inv
<1> QED  BY <1>1, <1>6, <1>7, <1>8, <1>9 DEF IInv, Inv

-----------------------------------------------------------------------------
(* One C function more.                                                    *)

Called(cs, f, ds) == cs \in Seq(CFunctions) /\ f \in CFunctions /\ ds = Append(cs, f)

LEMMA CalledSame ==
  ASSUME NEW cs, NEW f, NEW ds, Called(cs, f, ds), NEW k, k = Len(cs)
  PROVE  /\ ds \in Seq(CFunctions) /\ k \in Nat /\ Len(ds) = k + 1 /\ ds[k + 1] = f
         /\ \A j \in 1 .. k : ds[j] = cs[j]
         /\ Envs(ds, k) = Envs(cs, k) /\ Calls(ds, k) = Calls(cs, k)
         /\ Envs(cs, k) \in Nat /\ Calls(cs, k) \in Nat
         /\ Envs(ds, k + 1) = Envs(cs, k) + (IF HasEnv(f) THEN 1 ELSE 0)
         /\ Calls(ds, k + 1) = Calls(cs, k) + (IF HasEnv(f) THEN 0 ELSE 1)
<1>1. /\ ds \in Seq(CFunctions) /\ k \in Nat /\ Len(ds) = k + 1 /\ ds[k + 1] = f
      /\ \A j \in 1 .. k : ds[j] = cs[j]
  BY Appended DEF Called
<1>2. Envs(ds, k) = Envs(cs, k) /\ Calls(ds, k) = Calls(cs, k)
  BY <1>1, CountSame
<1>3. /\ Envs(ds, k + 1) = Envs(ds, k) + (IF HasEnv(ds[k + 1]) THEN 1 ELSE 0)
      /\ Calls(ds, k + 1) = Calls(ds, k) + (IF HasEnv(ds[k + 1]) THEN 0 ELSE 1)
  BY <1>1, CountNext
<1>4. Envs(cs, k) \in Nat /\ Calls(cs, k) \in Nat
  BY <1>1, CountTypes
<1> QED  BY <1>1, <1>2, <1>3, <1>4

LEMMA LevelsAdded ==
  ASSUME NEW p \in State, NEW cs, Levels(p, cs), cs # <<>>, cs[Len(cs)].running,
         NEW f, NEW ds, Called(cs, f, ds), HasEnv(f) => f.running,
         NEW r \in State, NEW b, NEW n, Added(p.cxs, b, r.cxs, n),
         EnvsSet(cs, p.top_env, Len(cs), ds, r.top_env),
         r.si = IF HasEnv(f) THEN p.si ELSE Append(p.si, n),
         b.cx.type = "EVAL" => LoopedAt(r.cxs, r.si, ds, n + 1),
         ~f.running => b.cx.multicall
  PROVE  Levels(r, ds)
<1> DEFINE k  == Len(cs)
           B  == p.cxs
           C  == r.cxs
           si == p.si
           ti == r.si
<1>1. /\ cs \in Seq(CFunctions) /\ k \in Nat /\ k >= 1 /\ HasEnv(cs[1])
      /\ Environed(cs, p.top_env) /\ Len(si) = 1 + Calls(cs, k) /\ Looped(B, si, cs)
  BY LevelsFields
<1>2. /\ ds \in Seq(CFunctions) /\ Len(ds) = k + 1 /\ ds[k + 1] = f
      /\ \A j \in 1 .. k : ds[j] = cs[j]
      /\ Calls(cs, k) \in Nat
      /\ Calls(ds, k + 1) = Calls(cs, k) + (IF HasEnv(f) THEN 0 ELSE 1)
  BY CalledSame
<1>3. Environed(ds, r.top_env)
  <2>1. k <= Len(cs) /\ Len(cs) \in Nat
    BY <1>1
  <2> QED  BY <1>1, <2>1, EnvironedAgain
<1>4. /\ n \in Nat /\ Len(C) = n + 1 /\ C[n + 1] = b /\ \A i \in 1 .. n : C[i] = B[i]
      /\ n = Len(B)
  BY AddedSame DEF Added
<1>5. /\ ti \in Seq(Nat) /\ si \in Seq(Nat)
      /\ HasEnv(f) => ti = si
      /\ ~HasEnv(f) => /\ Len(ti) = Len(si) + 1 /\ ti[Len(si) + 1] = n
                       /\ \A j \in 1 .. Len(si) : ti[j] = si[j]
  <2>1. ti \in Seq(Nat) /\ si \in Seq(Nat)
    BY StateFields
  <2>2. HasEnv(f) => ti = si
    OBVIOUS
  <2>3. ASSUME ~HasEnv(f)
        PROVE  /\ Len(ti) = Len(si) + 1 /\ ti[Len(si) + 1] = n
               /\ \A j \in 1 .. Len(si) : ti[j] = si[j]
    <3>1. ti = Append(si, n)
      BY <2>3
    <3> HIDE DEF si, ti
    <3> QED  BY <1>4, <2>1, <3>1, Appended
  <2> QED  BY <2>1, <2>2, <2>3
<1> HIDE DEF k, B, C, si, ti
<1>6. Len(ti) = 1 + Calls(ds, Len(ds))
  BY <1>1, <1>2, <1>5
<1>7. \A j \in 1 .. Len(ti) : \/ j <= Len(si) /\ ti[j] = si[j]
                              \/ ti[j] >= n /\ j > 1 + Calls(cs, k)
  <2> SUFFICES ASSUME NEW j \in 1 .. Len(ti)
               PROVE  \/ j <= Len(si) /\ ti[j] = si[j]
                      \/ ti[j] >= n /\ j > 1 + Calls(cs, k)
    OBVIOUS
  <2>1. CASE HasEnv(f)
    <3>1. j <= Len(si) /\ ti[j] = si[j]
      BY <1>1, <1>2, <1>5, <2>1
    <3> QED  BY <3>1
  <2>2. CASE ~HasEnv(f)
    <3>1. j \in 1 .. Len(si) \/ j = Len(si) + 1
      BY <1>1, <1>2, <1>5, <2>2
    <3>2. Len(si) + 1 > 1 + Calls(cs, k) /\ n >= n
      BY <1>1, <1>2, <1>4
    <3> QED  BY <1>1, <1>2, <1>5, <2>2, <3>1, <3>2, SMTT(30)
  <2> QED  BY <2>1, <2>2
<1>8. \A i \in EvalsTo(B, n) : B[i].cx.loop <= k
  <2> SUFFICES ASSUME NEW i \in EvalsTo(B, n)
               PROVE  B[i].cx.loop <= k
    OBVIOUS
  <2> DEFINE l == B[i].cx.loop
  <2>1. l \in 1 .. Len(cs)
    BY <1>1, <1>4 DEF Looped, LoopedAt
  <2> HIDE DEF l
  <2>2. l <= k
    BY <1>1, <2>1 DEF k
  <2> QED  BY <2>2 DEF l
<1>9. \A i \in EvalsTo(C, Len(C)) : i <= n \/ LoopedAt(C, ti, ds, i)
  <2> SUFFICES ASSUME NEW i \in EvalsTo(C, Len(C)), ~(i <= n)
               PROVE  LoopedAt(C, ti, ds, i)
    OBVIOUS
  <2>1. i = n + 1 /\ C[i].cx.type = "EVAL"
    BY <1>4 DEF EvalsTo
  <2>2. b.cx.type = "EVAL"
    BY <1>4, <2>1
  <2> QED  BY <2>1, <2>2 DEF C, ti
<1>10. Looped(C, ti, ds)
  <2>1. /\ Len(B) \in Nat /\ Len(C) \in Nat /\ n <= Len(B) /\ Len(ds) \in Nat /\ k <= Len(ds)
        /\ \A j \in 1 .. k : HasEnv(ds[j]) = HasEnv(cs[j])
    BY <1>1, <1>2, <1>4
  <2> QED  BY <1>1, <1>4, <1>5, <1>7, <1>8, <1>9, <2>1, LoopedAgain
<1>11. ds # <<>> /\ HasEnv(ds[1])
  <2>1. 1 \in 1 .. k /\ Len(ds) # 0
    BY <1>1, <1>2
  <2> QED  BY <1>1, <1>2, <2>1, EmptySeq
<1>12. ASSUME NEW i \in 1 .. k + 1, i < k + 1 \/ HasEnv(ds[i])
       PROVE  ds[i].running
  <2>1. CASE i = k + 1
    BY <1>2, <1>12, <2>1
  <2>2. CASE i # k + 1
    <3>1. i \in 1 .. k
      BY <1>1, <2>2
    <3>2. \A j \in 1 .. Len(cs) : j < Len(cs) \/ HasEnv(cs[j]) => cs[j].running
      BY DEF Levels
    <3>3. i < k \/ i = k
      BY <1>1, <3>1
    <3>4. cs[i].running
      BY <3>1, <3>2, <3>3 DEF k
    <3> QED  BY <1>2, <3>1, <3>4
  <2> QED  BY <2>1, <2>2
<1>13. ~ds[k + 1].running => Len(C) = ti[Len(ti)] + 1 /\ C[Len(C)].cx.multicall
  <2> SUFFICES ASSUME ~f.running
               PROVE  Len(C) = ti[Len(ti)] + 1 /\ C[Len(C)].cx.multicall
    BY <1>2
  <2>1. ~HasEnv(f) /\ b.cx.multicall
    OBVIOUS
  <2> QED  BY <1>4, <1>5, <2>1
<1>14. \A i \in 1 .. Len(ds) : i < Len(ds) \/ HasEnv(ds[i]) => ds[i].running
  BY <1>2, <1>12
<1>15. ~ds[Len(ds)].running => Len(C) = ti[Len(ti)] + 1 /\ C[Len(C)].cx.multicall
  BY <1>2, <1>13
<1> QED  BY <1>2, <1>3, <1>6, <1>10, <1>11, <1>14, <1>15 DEF Levels, C, ti

\* JMPENV_PUSH for an eval in a callback.
LEMMA CatchPushed ==
  ASSUME NEW p \in State, NEW cs, Levels(p, cs), cs # <<>>, CATCH_GET(p),
         NEW f, NEW ds, Called(cs, f, ds), HasEnv(f)
  PROVE  /\ EnvsSet(cs, p.top_env, Len(cs), ds, Append(p.top_env, FALSE))
         /\ Append(p.top_env, FALSE) \in Seq(BOOLEAN)
         /\ Len(Append(p.top_env, FALSE)) = 1 + Envs(ds, Len(ds))
<1> DEFINE k  == Len(cs)
           te == p.top_env
           tt == Append(te, FALSE)
<1>1. /\ k \in Nat /\ Envs(cs, k) \in Nat /\ Len(te) = 1 + Envs(cs, k) /\ te \in Seq(BOOLEAN)
  BY LevelsFields, StateFields
<1>2. /\ Len(ds) = k + 1 /\ ds[k + 1] = f /\ \A j \in 1 .. k : ds[j] = cs[j]
      /\ Envs(ds, k + 1) = Envs(cs, k) + 1
  <2>1. /\ Len(ds) = k + 1 /\ ds[k + 1] = f /\ \A j \in 1 .. k : ds[j] = cs[j]
        /\ Envs(ds, k + 1) = Envs(cs, k) + (IF HasEnv(f) THEN 1 ELSE 0)
    <3>1. k = Len(cs)
      OBVIOUS
    <3> HIDE DEF k
    <3> QED  BY <3>1, CalledSame
  <2> QED  BY <2>1
<1>3. /\ tt \in Seq(BOOLEAN) /\ Len(tt) = Len(te) + 1 /\ tt[Len(te) + 1] = FALSE
      /\ \A x \in 1 .. Len(te) : tt[x] = te[x]
  <2> DEFINE v == FALSE
  <2>1. v \in BOOLEAN
    OBVIOUS
  <2> HIDE DEF te, v
  <2>2. LET s == Append(te, v)
        IN  /\ s \in Seq(BOOLEAN) /\ Len(s) = Len(te) + 1 /\ s[Len(te) + 1] = v
            /\ \A x \in 1 .. Len(te) : s[x] = te[x]
    BY <1>1, <2>1, Appended
  <2> QED  BY <2>2 DEF v
<1>4. CATCH_GET(p) = te[Len(te)] /\ ~HasEnv(cs[k])
  <2>1. CATCH_GET(p) = ~HasEnv(cs[k])
    BY CatchIs
  <2> QED  BY <2>1 DEF CATCH_GET, Last
<1> HIDE DEF k, te, tt
<1>5. tt[1 + Envs(cs, k)] = te[Len(te)]
  BY <1>1, <1>3
<1>6. te[Len(te)] = TRUE
  <2>1. te[Len(te)] \in BOOLEAN
    BY <1>1, ElementOfSeq
  <2>2. te[Len(te)]
    BY <1>4, Zenon
  <2> QED  BY <2>1, <2>2
<1>7. \A x \in 1 .. Envs(cs, k) : tt[x] = te[x]
  BY <1>1, <1>3
<1>8. tt[1 + Envs(ds, k + 1)] = FALSE /\ Len(tt) = 1 + Envs(ds, Len(ds))
  BY <1>1, <1>2, <1>3
<1>9. EnvsSet(cs, te, k, ds, tt)
  BY <1>1, <1>2, <1>4, <1>5, <1>6, <1>7, <1>8 DEF EnvsSet
<1> QED  BY <1>3, <1>8, <1>9 DEF k, te, tt

LEMMA CatchSetFields ==
  ASSUME NEW p \in State, Len(p.top_env) > 0, NEW v \in BOOLEAN
  PROVE  LET r == CATCH_SET(p, v)
         IN  /\ r \in State /\ Len(r.top_env) = Len(p.top_env)
             /\ r.top_env[Len(p.top_env)] = v
             /\ \A x \in 1 .. Len(p.top_env) - 1 : r.top_env[x] = p.top_env[x]
             /\ r.cxs = p.cxs /\ r.si = p.si /\ r.savestack = p.savestack
             /\ r.scopestack = p.scopestack /\ r.in_eval = p.in_eval
             /\ r.comppad = p.comppad /\ r.defav = p.defav /\ r.CvDEPTH = p.CvDEPTH
             /\ r.refcnt = p.refcnt /\ r.padlist = p.padlist /\ r.named = p.named
<1> DEFINE te == p.top_env
           l  == Len(te)
           tt == [te EXCEPT ![l] = v]
           r  == CATCH_SET(p, v)
<1>1. te \in Seq(BOOLEAN) /\ l \in Nat /\ l >= 1 /\ DOMAIN te = 1 .. l
  BY StateFields, LenProperties
<1>2. r = [p EXCEPT !.top_env = tt]
  BY DEF CATCH_SET
<1>3. DOMAIN tt = 1 .. l /\ tt[l] = v /\ \A x \in 1 .. l - 1 : tt[x] = te[x]
  BY <1>1
<1>4. tt \in Seq(BOOLEAN) /\ Len(tt) = l
  <2>1. \A j \in 1 .. l : te[j] \in BOOLEAN
    <3> HIDE DEF te
    <3> QED  BY <1>1, ElementOfSeq
  <2>2. \A j \in 1 .. l : tt[j] \in BOOLEAN
    BY <1>1, <2>1
  <2>3. tt = [j \in 1 .. l |-> tt[j]]
    BY <1>1
  <2> HIDE DEF tt, l
  <2> QED  BY <1>1, <1>3, <2>2, <2>3, IsASeq, LenProperties
<1> HIDE DEF r, tt, l, te
<1>5. /\ r \in State /\ r.top_env = tt
      /\ r.cxs = p.cxs /\ r.si = p.si /\ r.savestack = p.savestack
      /\ r.scopestack = p.scopestack /\ r.in_eval = p.in_eval
      /\ r.comppad = p.comppad /\ r.defav = p.defav /\ r.CvDEPTH = p.CvDEPTH
      /\ r.refcnt = p.refcnt /\ r.padlist = p.padlist /\ r.named = p.named
  BY <1>2, <1>4, SetTopEnv
<1> QED  BY <1>3, <1>4, <1>5 DEF r, l, te

\* CATCH_SET for a callback.
LEMMA CatchSet ==
  ASSUME NEW p \in State, NEW cs, Levels(p, cs), cs # <<>>, NEW f, NEW ds, Called(cs, f, ds),
         ~HasEnv(f), f.oldcatch = CATCH_GET(p), NEW tt, Len(tt) = Len(p.top_env),
         tt[Len(p.top_env)] = TRUE, \A x \in 1 .. Len(p.top_env) - 1 : tt[x] = p.top_env[x]
  PROVE  EnvsSet(cs, p.top_env, Len(cs), ds, tt)
<1> DEFINE k  == Len(cs)
           te == p.top_env
           l  == Len(te)
<1>1. /\ k \in Nat /\ Envs(cs, k) \in Nat /\ l = 1 + Envs(cs, k)
  BY LevelsFields
<1>2. /\ Len(ds) = k + 1 /\ ds[k + 1] = f /\ \A j \in 1 .. k : ds[j] = cs[j]
      /\ Envs(ds, k + 1) = Envs(cs, k)
  <2>1. /\ Len(ds) = k + 1 /\ ds[k + 1] = f /\ \A j \in 1 .. k : ds[j] = cs[j]
        /\ Envs(ds, k + 1) = Envs(cs, k) + (IF HasEnv(f) THEN 1 ELSE 0)
    <3>1. k = Len(cs)
      OBVIOUS
    <3> HIDE DEF k
    <3> QED  BY <3>1, CalledSame
  <2> QED  BY <1>1, <2>1
<1>3. CATCH_GET(p) = ~HasEnv(cs[k])
  BY CatchIs
<1>4. /\ tt[1 + Envs(cs, k)] = TRUE /\ \A x \in 1 .. Envs(cs, k) : tt[x] = te[x]
      /\ Len(tt) = 1 + Envs(ds, Len(ds))
  <2> DEFINE e == Envs(cs, k)
  <2>1. Len(tt) = l /\ tt[l] = TRUE /\ \A x \in 1 .. l - 1 : tt[x] = te[x]
    OBVIOUS
  <2>2. Envs(ds, Len(ds)) = e
    BY <1>2
  <2>3. e \in Nat /\ l = 1 + e
    BY <1>1
  <2> HIDE DEF l, te, e
  <2>4. tt[1 + e] = TRUE /\ Len(tt) = 1 + e
    BY <2>1, <2>3
  <2>5. \A x \in 1 .. e : tt[x] = te[x]
    BY <2>1, <2>3
  <2> QED  BY <2>2, <2>4, <2>5 DEF e
<1>5. f.oldcatch = ~HasEnv(cs[k])
  BY <1>3
<1> HIDE DEF k, te, l
<1>6. EnvsSet(cs, te, k, ds, tt)
  BY <1>1, <1>2, <1>4, <1>5 DEF EnvsSet
<1> QED  BY <1>6 DEF k, te

\* An eval that is entered is run by the last run loop.
LEMMA TryLooped ==
  ASSUME NEW p \in State, Stacks(p), NEW cs, Levels(p, cs), cs # <<>>,
         NEW b, NEW n, NEW C, Added(p.cxs, b, C, n), b.cx.type = "EVAL",
         NEW ds, NEW l \in Nat, l = Len(ds), l >= Len(cs), HasEnv(ds[l]),
         Len(p.si) = 1 + Calls(ds, l), b.cx.loop = l, b.cx.cur_top_env = 1 + Envs(ds, l)
  PROVE  LoopedAt(C, p.si, ds, n + 1)
<1> DEFINE B == p.cxs
<1>1. /\ n \in Nat /\ C[n + 1] = b /\ \A i \in 1 .. n : C[i] = B[i]
      /\ n = Len(B)
  BY AddedSame DEF Added
<1>2. p.si \in Seq(Nat) /\ \A k \in 1 .. Len(p.si) : p.si[k] < n + 1
  <2>1. /\ cxbase(p) \in Nat /\ cxbase(p) <= Len(B) /\ p.si \in Seq(Nat)
        /\ \A k \in 1 .. Len(p.si) : p.si[k] \in Nat /\ p.si[k] <= cxbase(p)
    BY Bottom
  <2> QED  BY <1>1, <2>1, SMTT(30)
<1>3. Looped(B, p.si, cs) /\ Len(cs) \in Nat /\ Len(cs) >= 1
  BY LevelsFields
<1>4. ASSUME NEW j \in EvalsTo(C, n + 1)
      PROVE  C[j].cx.loop <= l
  <2>1. CASE j = n + 1
    BY <1>1, <2>1
  <2>2. CASE j # n + 1
    <3> DEFINE x == B[j].cx.loop
    <3>1. j \in 1 .. n /\ C[j] = B[j] /\ j \in EvalsTo(B, n)
      BY <1>1, <2>2 DEF EvalsTo
    <3>2. x \in 1 .. Len(cs)
      BY <1>1, <1>3, <3>1 DEF Looped, LoopedAt
    <3> HIDE DEF x
    <3>3. x <= l
      BY <1>3, <3>2
    <3> QED  BY <3>1, <3>3 DEF x
  <2> QED  BY <2>1, <2>2
<1>5. /\ n + 1 \in Nat /\ C[n + 1].cx.loop = l /\ C[n + 1].cx.cur_top_env = 1 + Envs(ds, l)
      /\ l >= 1 /\ Len(ds) \in Nat
  BY <1>1, <1>3
<1>6. LoopedAt(C, p.si, ds, n + 1)
  <2>1. /\ Len(ds) \in Nat /\ Len(ds) >= 1 /\ HasEnv(ds[Len(ds)])
        /\ Len(p.si) = 1 + Calls(ds, Len(ds)) /\ C[n + 1].cx.loop = Len(ds)
        /\ C[n + 1].cx.cur_top_env = 1 + Envs(ds, Len(ds))
        /\ \A j \in EvalsTo(C, n + 1) : C[j].cx.loop <= Len(ds)
    BY <1>4, <1>5
  <2> QED  BY <1>2, <1>5, <2>1, LoopedNow
<1> QED  BY <1>6

\* An eval with the context x was entered.
TryPushed(p, x, r) ==
  /\ x \in EvalCx /\ x.old_in_eval = p.in_eval
  /\ r = [PUSHBLOCK(ENTER(p), x) EXCEPT !.in_eval = TRUE]

LEMMA TryIn ==
  ASSUME NEW p, Books(p), Saved(p), Stacks(p), NEW x, NEW r, TryPushed(p, x, r)
  PROVE  \E b : /\ r \in State /\ Books(r) /\ Saved(r) /\ Stacks(r)
                /\ Added(p.cxs, b, r.cxs, Len(p.cxs)) /\ b.cx = x
                /\ r.si = p.si /\ r.top_env = p.top_env
<1> DEFINE e == ENTER(p)
           b == [oldscopesp |-> Len(e.scopestack), cx |-> x]
           v == TRUE
           s == [PUSHBLOCK(e, x) EXCEPT !.in_eval = v]
<1>1. p \in State
  BY DEF Books
<1>2. /\ Opened(e) /\ Stacks(e) /\ e \in State /\ e.cxs = p.cxs /\ e.si = p.si
      /\ e.top_env = p.top_env /\ e.in_eval = p.in_eval
  BY <1>1, EnterOpens, EnterFields
<1>3. x \in EvalCx /\ x.type = "EVAL" /\ v \in BOOLEAN /\ v /\ b.cx = x
  BY DEF EvalCx, TryPushed
<1>4. r = s /\ x.old_in_eval = e.in_eval
  BY <1>2 DEF TryPushed
<1> HIDE DEF e, v
<1>5. /\ s \in State /\ Books(s) /\ Saved(s) /\ Added(e.cxs, b, s.cxs, Len(e.cxs))
      /\ s.scopestack = e.scopestack /\ s.si = e.si /\ s.top_env = e.top_env
  BY <1>2, <1>3, <1>4, BlockIsIn
<1> HIDE DEF b, s
<1>6. Stacks(s)
  BY <1>2, <1>5, StacksGrow
<1> QED  BY <1>2, <1>3, <1>4, <1>5, <1>6

LEMMA FrameType ==
  ASSUME pl \in State, Len(pl.top_env) > 0, NEW k \in {"run", "docatch", "call", "multicall"}
  PROVE  /\ Frame(k) \in CFunctions /\ Frame(k).kind = k /\ Frame(k).running
         /\ Frame(k).oldcatch = CATCH_GET(pl)
<1>1. CATCH_GET(pl) \in BOOLEAN
  BY StateFields, LastFront DEF CATCH_GET
<1> QED  BY <1>1 DEF Frame, CFunctions

LEMMA EnterTryKeeps ==
  ASSUME IInv, EnterTry
  PROVE  IInv'
<1> DEFINE cs == c_stack
           k  == Len(cs)
           r  == pl'
<1>1. /\ Inv(pl, cs) /\ cs # <<>> /\ cs[Len(cs)].running
      /\ pl \in State /\ Books(pl) /\ Saved(pl) /\ Stacks(pl) /\ Levels(pl, cs)
  BY RunningIs DEF EnterTry
<1>2. /\ cs \in Seq(CFunctions) /\ k \in Nat /\ k >= 1 /\ Len(pl.si) = 1 + Calls(cs, k)
      /\ Envs(cs, k) \in Nat /\ Calls(cs, k) \in Nat /\ Len(pl.top_env) = 1 + Envs(cs, k)
  BY <1>1, LevelsFields
<1>3. CATCH_GET(pl) = ~HasEnv(cs[k])
  BY <1>1, CatchIs
<1>4. pl.in_eval \in BOOLEAN
  BY <1>1, StateFields
<1>5. CASE ~CATCH_GET(pl)
  <2> DEFINE x == [type |-> "EVAL", old_in_eval |-> pl.in_eval,
                   cur_top_env |-> Len(pl.top_env), loop |-> k]
  <2>1. r = [PUSHBLOCK(ENTER(pl), x) EXCEPT !.in_eval = TRUE] /\ c_stack' = cs
    BY <1>5 DEF EnterTry
  <2>2. /\ x \in EvalCx /\ x.old_in_eval = pl.in_eval /\ x.type = "EVAL"
        /\ x.cur_top_env = 1 + Envs(cs, k) /\ x.loop = k
    BY <1>2, <1>4 DEF EvalCx
  <2> HIDE DEF x, r
  <2>3. PICK b : /\ r \in State /\ Books(r) /\ Saved(r) /\ Stacks(r)
                 /\ Added(pl.cxs, b, r.cxs, Len(pl.cxs)) /\ b.cx = x
                 /\ r.si = pl.si /\ r.top_env = pl.top_env
    <3>1. TryPushed(pl, x, r)
      BY <2>1, <2>2 DEF TryPushed
    <3> QED  BY <1>1, <3>1, TryIn
  <2>4. HasEnv(cs[k])
    BY <1>3, <1>5
  <2> DEFINE n == Len(pl.cxs)
  <2> HIDE DEF n
  <2>5. Added(pl.cxs, b, r.cxs, n)
    BY <2>3 DEF n
  <2>6. LoopedAt(r.cxs, pl.si, cs, n + 1)
    <3>1. k = Len(cs) /\ k >= Len(cs)
      BY <1>2
    <3>2. b.cx.type = "EVAL" /\ b.cx.loop = k /\ b.cx.cur_top_env = 1 + Envs(cs, k)
      BY <2>2, <2>3
    <3> HIDE DEF k
    <3> QED  BY <1>1, <1>2, <2>4, <2>5, <3>1, <3>2, TryLooped
  <2>7. LoopedAt(r.cxs, r.si, cs, n + 1)
    BY <2>3, <2>6
  <2>8. Levels(r, cs)
    BY <1>1, <2>3, <2>5, <2>7, LevelsGrow
  <2> QED  BY <2>1, <2>3, <2>8 DEF IInv, Inv, r
<1>6. CASE CATCH_GET(pl)
  <2> DEFINE f  == Frame("docatch")
             ds == Append(cs, f)
             te == Append(pl.top_env, FALSE)
             p  == [pl EXCEPT !.top_env = te]
             x  == [type |-> "EVAL", old_in_eval |-> pl.in_eval,
                    cur_top_env |-> Len(p.top_env), loop |-> k + 1]
  <2>1. r = [PUSHBLOCK(ENTER(p), x) EXCEPT !.in_eval = TRUE] /\ c_stack' = ds
    BY <1>6 DEF EnterTry, JMPENV_PUSH
  <2>2. f \in CFunctions /\ HasEnv(f) /\ f.running
    <3>1. Len(pl.top_env) > 0
      BY <1>2
    <3>2. f \in CFunctions /\ f.kind = "docatch" /\ f.running
      BY <1>1, <3>1, FrameType
    <3> QED  BY <3>2 DEF HasEnv
  <2> HIDE DEF f
  <2>3. Called(cs, f, ds)
    BY <1>2, <2>2 DEF Called
  <2> HIDE DEF ds
  <2>4. /\ EnvsSet(cs, pl.top_env, Len(cs), ds, te) /\ te \in Seq(BOOLEAN)
        /\ Len(te) = 1 + Envs(ds, Len(ds))
    BY <1>1, <1>6, <2>2, <2>3, CatchPushed
  <2> HIDE DEF te, p
  <2>5. /\ p \in State /\ p.top_env = te /\ p.cxs = pl.cxs /\ p.si = pl.si
        /\ p.savestack = pl.savestack /\ p.scopestack = pl.scopestack /\ p.in_eval = pl.in_eval
        /\ p.comppad = pl.comppad /\ p.defav = pl.defav /\ p.CvDEPTH = pl.CvDEPTH
        /\ p.refcnt = pl.refcnt /\ p.padlist = pl.padlist /\ p.named = pl.named
    BY <1>1, <2>4, SetTopEnv DEF p
  <2>6. Books(p) /\ Saved(p) /\ Stacks(p)
    BY <1>1, <2>5, BooksSame, SavedSame, StacksSame
  <2>7. /\ Len(ds) = k + 1 /\ ds[k + 1] = f
        /\ Envs(ds, k + 1) = Envs(cs, k) + (IF HasEnv(f) THEN 1 ELSE 0)
        /\ Calls(ds, k + 1) = Calls(cs, k) + (IF HasEnv(f) THEN 0 ELSE 1)
    <3>1. k = Len(cs)
      OBVIOUS
    <3> HIDE DEF k
    <3> QED  BY <2>3, <3>1, CalledSame
  <2>8. Calls(ds, k + 1) = Calls(cs, k) /\ Envs(ds, k + 1) \in Nat
    BY <1>2, <2>2, <2>7
  <2>9. /\ x \in EvalCx /\ x.old_in_eval = p.in_eval /\ x.type = "EVAL"
        /\ x.cur_top_env = 1 + Envs(ds, k + 1) /\ x.loop = k + 1
    BY <1>2, <1>4, <2>4, <2>5, <2>7, <2>8 DEF EvalCx
  <2> HIDE DEF x, r
  <2>10. PICK b : /\ r \in State /\ Books(r) /\ Saved(r) /\ Stacks(r)
                  /\ Added(p.cxs, b, r.cxs, Len(p.cxs)) /\ b.cx = x
                  /\ r.si = p.si /\ r.top_env = p.top_env
    <3>1. TryPushed(p, x, r)
      BY <2>1, <2>9 DEF TryPushed
    <3> QED  BY <2>6, <3>1, TryIn
  <2> DEFINE n == Len(pl.cxs)
             l == k + 1
  <2> HIDE DEF n
  <2>11. Added(pl.cxs, b, r.cxs, n)
    BY <2>5, <2>10 DEF n
  <2>12. /\ l \in Nat /\ l = Len(ds) /\ l >= Len(cs) /\ HasEnv(ds[l])
         /\ Len(pl.si) = 1 + Calls(ds, l)
         /\ b.cx.type = "EVAL" /\ b.cx.loop = l /\ b.cx.cur_top_env = 1 + Envs(ds, l)
    BY <1>2, <2>2, <2>7, <2>8, <2>9, <2>10
  <2> HIDE DEF l
  <2>13. LoopedAt(r.cxs, pl.si, ds, n + 1)
    BY <1>1, <2>11, <2>12, TryLooped
  <2>14. LoopedAt(r.cxs, r.si, ds, n + 1) /\ EnvsSet(cs, pl.top_env, Len(cs), ds, r.top_env)
    BY <2>4, <2>5, <2>10, <2>13
  <2>15. r.si = IF HasEnv(f) THEN pl.si ELSE Append(pl.si, n)
    BY <2>2, <2>5, <2>10
  <2>16. Levels(r, ds)
    BY <1>1, <2>2, <2>3, <2>10, <2>11, <2>14, <2>15, LevelsAdded
  <2> QED  BY <2>1, <2>10, <2>16 DEF IInv, Inv, r
<1> QED  BY <1>5, <1>6

-----------------------------------------------------------------------------
(* Entering a callback.                                                    *)

\* A stack of its own, and an environment that is told.
CallbackOf(a, p) ==
  /\ p \in State /\ Len(p.top_env) = Len(a.top_env) /\ p.top_env[Len(a.top_env)] = TRUE
  /\ \A x \in 1 .. Len(a.top_env) - 1 : p.top_env[x] = a.top_env[x]
  /\ p.si = Append(a.si, Len(a.cxs))
  /\ p.cxs = a.cxs /\ p.savestack = a.savestack /\ p.scopestack = a.scopestack
  /\ p.in_eval = a.in_eval /\ p.comppad = a.comppad /\ p.defav = a.defav
  /\ p.CvDEPTH = a.CvDEPTH /\ p.refcnt = a.refcnt /\ p.padlist = a.padlist
  /\ p.named = a.named

LEMMA PushStackFields ==
  ASSUME NEW p \in State
  PROVE  LET r == PUSHSTACKi(p)
         IN  /\ r \in State /\ r.si = Append(p.si, Len(p.cxs))
             /\ r.cxs = p.cxs /\ r.savestack = p.savestack /\ r.scopestack = p.scopestack
             /\ r.top_env = p.top_env /\ r.in_eval = p.in_eval /\ r.comppad = p.comppad
             /\ r.defav = p.defav /\ r.CvDEPTH = p.CvDEPTH /\ r.refcnt = p.refcnt
             /\ r.padlist = p.padlist /\ r.named = p.named
<1> DEFINE s == Append(p.si, Len(p.cxs))
           r == PUSHSTACKi(p)
<1>1. s \in Seq(Nat)
  BY StateFields, LenProperties, Appended
<1>2. r = [p EXCEPT !.si = s]
  BY DEF PUSHSTACKi
<1> HIDE DEF s, r
<1>3. /\ r \in State /\ r.si = s
      /\ r.cxs = p.cxs /\ r.savestack = p.savestack /\ r.scopestack = p.scopestack
      /\ r.top_env = p.top_env /\ r.in_eval = p.in_eval /\ r.comppad = p.comppad
      /\ r.defav = p.defav /\ r.CvDEPTH = p.CvDEPTH /\ r.refcnt = p.refcnt
      /\ r.padlist = p.padlist /\ r.named = p.named
  BY <1>1, <1>2, SetSi
<1> QED  BY <1>3 DEF s, r

LEMMA CallbackIs ==
  ASSUME NEW a \in State, Len(a.top_env) > 0
  PROVE  /\ CallbackOf(a, CATCH_SET(PUSHSTACKi(a), TRUE))
         /\ CallbackOf(a, PUSHSTACKi(CATCH_SET(a, TRUE)))
<1> DEFINE v == TRUE
           p == PUSHSTACKi(a)
           q == CATCH_SET(a, v)
           c == CATCH_SET(p, v)
           d == PUSHSTACKi(q)
<1>1. v \in BOOLEAN /\ v = TRUE
  OBVIOUS
<1>2. c = CATCH_SET(PUSHSTACKi(a), TRUE) /\ d = PUSHSTACKi(CATCH_SET(a, TRUE))
  OBVIOUS
<1> HIDE DEF v, p, q, c, d
<1>3. /\ p \in State /\ p.si = Append(a.si, Len(a.cxs))
      /\ p.cxs = a.cxs /\ p.savestack = a.savestack /\ p.scopestack = a.scopestack
      /\ p.top_env = a.top_env /\ p.in_eval = a.in_eval /\ p.comppad = a.comppad
      /\ p.defav = a.defav /\ p.CvDEPTH = a.CvDEPTH /\ p.refcnt = a.refcnt
      /\ p.padlist = a.padlist /\ p.named = a.named
  BY PushStackFields DEF p
<1>4. /\ q \in State /\ Len(q.top_env) = Len(a.top_env) /\ q.top_env[Len(a.top_env)] = v
      /\ \A x \in 1 .. Len(a.top_env) - 1 : q.top_env[x] = a.top_env[x]
      /\ q.cxs = a.cxs /\ q.si = a.si /\ q.savestack = a.savestack
      /\ q.scopestack = a.scopestack /\ q.in_eval = a.in_eval
      /\ q.comppad = a.comppad /\ q.defav = a.defav /\ q.CvDEPTH = a.CvDEPTH
      /\ q.refcnt = a.refcnt /\ q.padlist = a.padlist /\ q.named = a.named
  BY <1>1, CatchSetFields DEF q
<1>5. /\ c \in State /\ Len(c.top_env) = Len(p.top_env) /\ c.top_env[Len(p.top_env)] = v
      /\ \A x \in 1 .. Len(p.top_env) - 1 : c.top_env[x] = p.top_env[x]
      /\ c.cxs = p.cxs /\ c.si = p.si /\ c.savestack = p.savestack
      /\ c.scopestack = p.scopestack /\ c.in_eval = p.in_eval
      /\ c.comppad = p.comppad /\ c.defav = p.defav /\ c.CvDEPTH = p.CvDEPTH
      /\ c.refcnt = p.refcnt /\ c.padlist = p.padlist /\ c.named = p.named
  BY <1>1, <1>3, CatchSetFields DEF c
<1>6. /\ d \in State /\ d.si = Append(q.si, Len(q.cxs))
      /\ d.cxs = q.cxs /\ d.savestack = q.savestack /\ d.scopestack = q.scopestack
      /\ d.top_env = q.top_env /\ d.in_eval = q.in_eval /\ d.comppad = q.comppad
      /\ d.defav = q.defav /\ d.CvDEPTH = q.CvDEPTH /\ d.refcnt = q.refcnt
      /\ d.padlist = q.padlist /\ d.named = q.named
  BY <1>4, PushStackFields DEF d
<1>7. CallbackOf(a, c) /\ CallbackOf(a, d)
  BY <1>1, <1>3, <1>4, <1>5, <1>6 DEF CallbackOf
<1> QED  BY <1>2, <1>7

LEMMA OpenedForCallback ==
  ASSUME NEW a, Opened(a), NEW p, CallbackOf(a, p)
  PROVE  Opened(p)
<1>1. p \in State /\ p.cxs = a.cxs /\ p.savestack = a.savestack /\ p.scopestack = a.scopestack
      /\ p.in_eval = a.in_eval /\ p.comppad = a.comppad /\ p.defav = a.defav
      /\ p.CvDEPTH = a.CvDEPTH /\ p.refcnt = a.refcnt /\ p.padlist = a.padlist
      /\ p.named = a.named
  BY DEF CallbackOf
<1>2. Books(p) /\ Saved(p)
  BY <1>1, BooksSame, SavedSame DEF Opened
<1> QED  BY <1>1, <1>2 DEF Opened

\* What the C functions are as a callback has been entered.
LEMMA LevelsCalled ==
  ASSUME NEW p \in State, NEW cs, Levels(p, cs), cs # <<>>, cs[Len(cs)].running,
         NEW f, NEW ds, Called(cs, f, ds), ~HasEnv(f), f.oldcatch = CATCH_GET(p),
         NEW a, a.cxs = p.cxs, a.si = p.si, a.top_env = p.top_env, NEW q, CallbackOf(a, q),
         NEW r \in State, r.si = q.si, r.top_env = q.top_env, NEW b,
         Added(p.cxs, b, r.cxs, Len(p.cxs)), b.cx.type = "SUB", ~f.running => b.cx.multicall
  PROVE  Levels(r, ds)
<1> DEFINE n  == Len(p.cxs)
           te == p.top_env
           tt == r.top_env
<1>1. /\ Len(tt) = Len(te) /\ tt[Len(te)] = TRUE /\ \A x \in 1 .. Len(te) - 1 : tt[x] = te[x]
      /\ r.si = Append(p.si, n)
  BY DEF CallbackOf
<1>2. EnvsSet(cs, te, Len(cs), ds, tt)
  <2> HIDE DEF tt
  <2> QED  BY <1>1, CatchSet
<1>3. r.si = IF HasEnv(f) THEN p.si ELSE Append(p.si, n)
  BY <1>1
<1>4. Added(p.cxs, b, r.cxs, n) /\ (HasEnv(f) => f.running)
      /\ (b.cx.type = "EVAL" => LoopedAt(r.cxs, r.si, ds, n + 1))
  OBVIOUS
<1> HIDE DEF n, te, tt
<1> QED  BY <1>2, <1>3, <1>4, LevelsAdded DEF te, tt

LEMMA MulticallPushKeeps ==
  ASSUME IInv, NEW cv \in Cvs, PUSH_MULTICALL(cv)
  PROVE  IInv'
<1> DEFINE cs == c_stack
           a  == ENTER(pl)
           p  == PUSHSTACKi(CATCH_SET(a, TRUE))
           f  == [Frame("multicall") EXCEPT !.running = FALSE]
           ds == Append(cs, f)
           h  == FALSE
           r  == pl'
           n  == Len(pl.cxs)
<1>1. /\ Inv(pl, cs) /\ cs # <<>> /\ cs[Len(cs)].running
      /\ pl \in State /\ Books(pl) /\ Saved(pl) /\ Stacks(pl) /\ Levels(pl, cs)
  BY RunningIs DEF PUSH_MULTICALL
<1>2. /\ Opened(a) /\ Inv(a, cs) /\ a \in State /\ a.cxs = pl.cxs /\ a.si = pl.si
      /\ a.top_env = pl.top_env
  BY <1>1, EnterKeeps
<1>3. Len(pl.top_env) > 0 /\ cs \in Seq(CFunctions)
  <2>1. Envs(cs, Len(cs)) \in Nat /\ Len(pl.top_env) = 1 + Envs(cs, Len(cs))
        /\ cs \in Seq(CFunctions)
    BY <1>1, LevelsFields
  <2> QED  BY <2>1
<1>4. f \in CFunctions /\ ~HasEnv(f) /\ f.oldcatch = CATCH_GET(pl)
  <2>1. /\ Frame("multicall") \in CFunctions /\ Frame("multicall").kind = "multicall"
        /\ Frame("multicall").oldcatch = CATCH_GET(pl)
    BY <1>1, <1>3, FrameType
  <2> QED  BY <2>1 DEF CFunctions, HasEnv
<1>5. /\ r = SubPushed(p, cv, h) /\ c_stack' = ds /\ h \in BOOLEAN
  BY DEF PUSH_MULTICALL, SubPushed
<1> HIDE DEF a, p
<1>6. CallbackOf(a, p)
  BY <1>2, <1>3, CallbackIs DEF p
<1>7. Opened(p) /\ p.cxs = pl.cxs /\ p.scopestack = a.scopestack /\ p.si = Append(pl.si, n)
  BY <1>2, <1>6, OpenedForCallback DEF CallbackOf
<1>8. r = LET s == SubPushed(p, cv, h)
          IN  IF h THEN [s EXCEPT !.defav = s.comppad] ELSE s
  BY <1>5
<1>9. ~h
  OBVIOUS
<1> HIDE DEF r, f, ds, h
<1>10. PICK b : SubIn(p, r, h, b)
  BY <1>5, <1>7, <1>8, SubIsIn
<1>11. /\ Books(r) /\ Saved(r) /\ r \in State /\ Added(pl.cxs, b, r.cxs, n)
       /\ b.cx.type = "SUB" /\ b.cx.multicall = ~h
       /\ r.scopestack = a.scopestack /\ r.si = p.si /\ r.top_env = p.top_env
  BY <1>7, <1>10 DEF SubIn, Books
<1>12. b.cx.multicall
  BY <1>9, <1>11
<1> HIDE DEF n
<1>13. Stacks(r)
  <2>1. Added(a.cxs, b, r.cxs, n) /\ r.si = Append(a.si, n) /\ Stacks(a)
    BY <1>2, <1>7, <1>11 DEF Inv
  <2> QED  BY <1>2, <1>11, <1>12, <2>1, StackPushed
<1>14. Called(cs, f, ds)
  BY <1>3, <1>4 DEF Called, ds
<1>15. Levels(r, ds)
  <2>1. Added(pl.cxs, b, r.cxs, Len(pl.cxs))
    BY <1>11 DEF n
  <2> QED  BY <1>1, <1>2, <1>4, <1>6, <1>11, <1>12, <1>14, <2>1, LevelsCalled
<1> QED  BY <1>5, <1>11, <1>13, <1>15 DEF IInv, Inv, r

LEMMA CallSvKeeps ==
  ASSUME IInv, NEW cv \in Cvs, CallSv(cv)
  PROVE  IInv'
<1> DEFINE cs == c_stack
           a  == ENTER(pl)
           g  == ENTER(a)
           p  == CATCH_SET(PUSHSTACKi(a), TRUE)
           e  == ENTER(p)
           f  == Frame("call")
           ds == Append(cs, f)
           h  == TRUE
           r  == pl'
           n  == Len(pl.cxs)
<1>1. /\ Inv(pl, cs) /\ cs # <<>> /\ cs[Len(cs)].running
      /\ pl \in State /\ Books(pl) /\ Saved(pl) /\ Stacks(pl) /\ Levels(pl, cs)
  BY RunningIs DEF CallSv
<1>2. /\ Opened(a) /\ Inv(a, cs) /\ a \in State /\ a.cxs = pl.cxs /\ a.si = pl.si
      /\ a.top_env = pl.top_env
  BY <1>1, EnterKeeps
<1>3. Len(pl.top_env) > 0 /\ cs \in Seq(CFunctions)
  <2>1. Envs(cs, Len(cs)) \in Nat /\ Len(pl.top_env) = 1 + Envs(cs, Len(cs))
        /\ cs \in Seq(CFunctions)
    BY <1>1, LevelsFields
  <2> QED  BY <2>1
<1>4. f \in CFunctions /\ ~HasEnv(f) /\ f.oldcatch = CATCH_GET(pl) /\ f.running
  <2>1. /\ f \in CFunctions /\ f.kind = "call" /\ f.oldcatch = CATCH_GET(pl) /\ f.running
    BY <1>1, <1>3, FrameType
  <2> QED  BY <2>1 DEF HasEnv
<1>5. r = entersub(p, cv) /\ c_stack' = ds /\ h \in BOOLEAN /\ h
  BY DEF CallSv
<1> HIDE DEF a, p
<1>6. CallbackOf(a, p)
  BY <1>2, <1>3, CallbackIs DEF p
<1>7. /\ Opened(p) /\ p \in State /\ p.cxs = pl.cxs /\ p.scopestack = a.scopestack
      /\ p.savestack = a.savestack /\ p.si = Append(pl.si, n)
  BY <1>2, <1>6, OpenedForCallback DEF CallbackOf
<1>8. /\ Opened(e) /\ e.cxs = pl.cxs /\ e.si = p.si /\ e.top_env = p.top_env
      /\ e.scopestack = Append(a.scopestack, Len(a.savestack))
  <2>1. Books(p) /\ Saved(p)
    BY <1>7 DEF Opened
  <2> QED  BY <1>7, <2>1, EnterOpens, EnterFields, ZenonT(60)
<1>9. /\ Stacks(g) /\ g \in State /\ g.cxs = pl.cxs /\ g.si = pl.si
      /\ g.scopestack = e.scopestack
  <2>1. Inv(g, cs) /\ g \in State /\ g.cxs = a.cxs /\ g.si = a.si
    BY <1>2, EnterKeeps
  <2>2. g.scopestack = Append(a.scopestack, Len(a.savestack))
    BY <1>2, EnterFields
  <2> QED  BY <1>2, <1>8, <2>1, <2>2 DEF Inv
<1>10. r = LET s == SubPushed(e, cv, h)
           IN  IF h THEN [s EXCEPT !.defav = s.comppad] ELSE s
  BY <1>5, <1>7, EnterSubIs
<1> HIDE DEF e, g, r, f, ds, h
<1>11. PICK b : SubIn(e, r, h, b)
  BY <1>5, <1>8, <1>10, SubIsIn
<1>12. /\ Books(r) /\ Saved(r) /\ r \in State /\ Added(pl.cxs, b, r.cxs, n)
       /\ b.cx.type = "SUB" /\ b.oldscopesp = Len(e.scopestack)
       /\ r.scopestack = e.scopestack /\ r.si = p.si /\ r.top_env = p.top_env
  BY <1>8, <1>11 DEF SubIn, Books
<1> HIDE DEF n
<1>13. ExtraScope(r.cxs, r.scopestack, n + 1)
  <2> DEFINE l == Len(a.scopestack)
             C == r.cxs
  <2>1. /\ l \in Nat /\ Len(e.scopestack) = l + 1 /\ l >= 1
        /\ e.scopestack[l] = a.scopestack[l] /\ a.scopestack[l] = Len(a.savestack)
    <3>1. a.scopestack \in Seq(Nat) /\ Len(a.savestack) \in Nat /\ l > 0
          /\ a.scopestack[l] = Len(a.savestack) /\ l \in Nat
      BY <1>2, StateFields, LenProperties DEF Opened
    <3>2. /\ Len(Append(a.scopestack, Len(a.savestack))) = l + 1
          /\ \A i \in 1 .. l : Append(a.scopestack, Len(a.savestack))[i] = a.scopestack[i]
      <4> DEFINE sc == a.scopestack
                 v == Len(a.savestack)
      <4>1. sc \in Seq(Nat) /\ v \in Nat
        BY <3>1
      <4> HIDE DEF sc, v
      <4>2. /\ Len(Append(sc, v)) = Len(sc) + 1
            /\ \A i \in 1 .. Len(sc) : Append(sc, v)[i] = sc[i]
        BY <4>1, Appended
      <4> QED  BY <4>2 DEF sc, v
    <3> QED  BY <1>8, <3>1, <3>2
  <2>2. /\ n \in Nat /\ C[n + 1] = b /\ n = Len(pl.cxs)
        /\ \A i \in 1 .. n : C[i] = pl.cxs[i]
        /\ \A k \in Int : k <= n => SavesTo(C, k) = SavesTo(pl.cxs, k)
    <3>1. Added(pl.cxs, b, C, n)
      BY <1>12
    <3>2. n = Len(pl.cxs)
      BY <3>1 DEF Added
    <3> HIDE DEF C
    <3> QED  BY <3>1, <3>2, AddedSame
  <2>3. Len(a.savestack) = SavesTo(pl.cxs, n)
    BY <1>2, <2>2 DEF Opened, Saved
  <2>4. \A i \in 1 .. n : pl.cxs[i].oldscopesp < l
    BY <1>2, <2>2 DEF Opened
  <2> HIDE DEF l, C
  <2>5. C[n + 1].oldscopesp = l + 1 /\ (l + 1) - 1 = l /\ (n + 1) - 1 = n /\ n \in Int /\ n <= n
    BY <1>12, <2>1, <2>2
  <2>6. r.scopestack[l] = SavesTo(C, n)
    BY <1>12, <2>1, <2>2, <2>3, <2>5
  <2>7. \A i \in 1 .. n : C[i].oldscopesp < l
    BY <2>2, <2>4
  <2>8. ExtraScope(C, r.scopestack, n + 1)
    BY <2>1, <2>5, <2>6, <2>7 DEF ExtraScope
  <2> QED  BY <2>8 DEF C
<1>14. Stacks(r)
  <2>1. Added(g.cxs, b, r.cxs, n) /\ r.si = Append(g.si, n) /\ r.scopestack = g.scopestack
    BY <1>7, <1>9, <1>12
  <2> QED  BY <1>9, <1>12, <1>13, <2>1, StackPushed
<1>15. Called(cs, f, ds)
  BY <1>3, <1>4 DEF Called, ds
<1>16. Levels(r, ds)
  <2>1. Added(pl.cxs, b, r.cxs, Len(pl.cxs)) /\ (~f.running => b.cx.multicall)
    BY <1>4, <1>12 DEF n
  <2> QED  BY <1>1, <1>2, <1>4, <1>6, <1>12, <1>15, <2>1, LevelsCalled
<1> QED  BY <1>5, <1>12, <1>14, <1>16 DEF IInv, Inv, r

-----------------------------------------------------------------------------
(* A callback returns.                                                     *)

\* The evals below the current stack are run by run loops below the topmost callback.
LEMMA LoopBelow ==
  ASSUME NEW p \in State, Stacks(p), NEW cs, Levels(p, cs), cs # <<>>, NEW l \in 1 .. Len(cs),
         Calls(cs, l) = Calls(cs, Len(cs)), NEW i \in EvalsTo(p.cxs, cxbase(p))
  PROVE  p.cxs[i].cx.loop < l
<1> DEFINE m == Len(p.si)
           k == p.cxs[i].cx.loop
<1>1. /\ cxbase(p) = p.si[m] /\ cxbase(p) \in Nat /\ cxbase(p) <= Len(p.cxs)
      /\ Len(p.cxs) \in Nat /\ m \in Nat /\ m >= 1
  BY Bottom
<1>2. /\ Len(cs) \in Nat /\ m = 1 + Calls(cs, Len(cs)) /\ Looped(p.cxs, p.si, cs)
  BY LevelsFields
<1>3. i \in Nat /\ i <= cxbase(p) /\ i \in EvalsTo(p.cxs, Len(p.cxs))
  BY <1>1 DEF EvalsTo
<1>4. LoopedAt(p.cxs, p.si, cs, i)
  BY <1>2, <1>3 DEF Looped
<1>5. k \in 1 .. Len(cs) /\ (p.si[m] < i <=> m <= 1 + Calls(cs, k))
  BY <1>1, <1>4 DEF LoopedAt
<1>6. k \in Int /\ l \in Int /\ Calls(cs, k) \in Nat /\ Calls(cs, l) \in Nat
  BY <1>2, <1>5, CountTypes
<1> HIDE DEF m, k
<1>7. ~(Calls(cs, l) <= Calls(cs, k))
  BY <1>1, <1>2, <1>3, <1>5, <1>6
<1>8. ~(l <= k)
  BY <1>6, <1>7, CountMore
<1> QED  BY <1>6, <1>8 DEF k

\* The environments above that of the topmost callback are gone.
LEMMA CaughtFields ==
  ASSUME NEW p \in State, Levels(p, c_stack), c_stack # <<>>, Len(p.si) > 1,
         NEW q \in State, q.top_env = p.top_env
  PROVE  LET r == Caught(q)
             e == 1 + Envs(c_stack, CalledBack)
         IN  /\ r \in State /\ e \in Nat /\ Len(r.top_env) = e
             /\ \A x \in 1 .. e : r.top_env[x] = p.top_env[x]
             /\ r.top_env[e] = TRUE
             /\ r.cxs = q.cxs /\ r.si = q.si /\ r.savestack = q.savestack
             /\ r.scopestack = q.scopestack /\ r.in_eval = q.in_eval
             /\ r.comppad = q.comppad /\ r.defav = q.defav /\ r.CvDEPTH = q.CvDEPTH
             /\ r.refcnt = q.refcnt /\ r.padlist = q.padlist /\ r.named = q.named
<1> DEFINE l == CalledBack
           e == 1 + Envs(c_stack, l)
           te == p.top_env
           tt == SubSeq(te, 1, e)
<1>1. l \in 2 .. Len(c_stack) /\ ~HasEnv(c_stack[l]) /\ EnvAt(l) = e
  BY CalledBackIs
<1>2. /\ Len(c_stack) \in Nat /\ HasEnv(c_stack[1]) /\ Environed(c_stack, te)
      /\ Len(te) = 1 + Envs(c_stack, Len(c_stack))
  BY LevelsFields
<1>3. te \in Seq(BOOLEAN)
  BY StateFields
<1>4. Caught(q) = [q EXCEPT !.top_env = tt]
  BY <1>1 DEF Caught
<1> HIDE DEF l, te
<1>5. l \in Nat /\ l >= 1 /\ l <= Len(c_stack) /\ l \in Int /\ Len(c_stack) \in Int
  BY <1>1, <1>2
<1>6. /\ Envs(c_stack, l) \in Nat /\ Envs(c_stack, Len(c_stack)) \in Nat
      /\ Envs(c_stack, l) <= Envs(c_stack, Len(c_stack))
  BY <1>5, CountTypes, CountMore
<1>7. te[e] = TRUE
  <2>1. te[1 + Envs(c_stack, l)]
    BY <1>1, <1>2, <1>5, CatchAt, Zenon
  <2>2. e \in 1 .. Len(te)
    BY <1>2, <1>6
  <2>3. te[e] \in BOOLEAN
    BY <1>3, <2>2, ElementOfSeq
  <2> QED  BY <2>1, <2>3
<1>8. e \in Nat /\ e <= Len(te) /\ e \in 1 .. e
  BY <1>2, <1>6
<1> HIDE DEF e
<1>9. tt \in Seq(BOOLEAN) /\ Len(tt) = e /\ \A x \in 1 .. e : tt[x] = te[x]
  BY <1>3, <1>8, CutSeq
<1> HIDE DEF tt
<1> QED  BY <1>4, <1>7, <1>8, <1>9, SetTopEnv DEF l, e, te

\* Loops are left by dounwind alone: nothing was saved for them.
LEMMA LoopsOff ==
  ASSUME NEW p, Books(p), Saved(p), Stacks(p), NEW i \in 1 .. Len(p.cxs), i > cxbase(p),
         \A j \in i + 1 .. Len(p.cxs) : p.cxs[j].cx.type = "LOOP",
         NEW q, UnwoundTo(p, q, i), q.si = p.si,
         NEW r \in State, r.cxs = q.cxs, r.si = q.si, r.savestack = q.savestack,
         r.scopestack = q.scopestack, r.in_eval = q.in_eval, r.comppad = q.comppad,
         r.defav = q.defav, r.CvDEPTH = q.CvDEPTH, r.refcnt = q.refcnt, r.padlist = q.padlist,
         r.named = q.named
  PROVE  Books(r) /\ Saved(r) /\ Stacks(r)
<1> DEFINE B == p.cxs
           n == Len(B)
           s == Len(p.scopestack)
           m == SavesTo(B, i)
           k == Len(p.si)
<1>1. p \in State /\ n \in Nat /\ s \in Nat /\ i \in Nat /\ i <= n /\ i \in Int /\ n \in Int
  BY StateFields, LenProperties DEF Books
<1>2. /\ k \in 1 .. k
      /\ \A j \in 2 .. k : p.si[j] < i
  <2>1. /\ k \in Nat /\ k >= 1 /\ cxbase(p) \in Nat
        /\ \A j \in 1 .. k : p.si[j] \in Nat /\ p.si[j] <= cxbase(p)
    BY <1>1, Bottom
  <2> HIDE DEF k
  <2> QED  BY <1>1, <2>1
<1>3. Books(r)
  <2>1. Books(q)
    BY DEF UnwoundTo
  <2> QED  BY <2>1, BooksSame
<1>4. SubsTo(B, n) = SubsTo(B, i) /\ SavesTo(B, n) = m
  <2>1. \A j \in i + 1 .. n : B[j].cx.type # "SUB"
    OBVIOUS
  <2> HIDE DEF B, n
  <2> QED  BY <1>1, <2>1, NoSubs
<1>5. /\ \A j \in 1 .. i : B[j].oldscopesp <= s
      /\ \A x \in 1 .. s : p.scopestack[x] <= m
      /\ Len(p.savestack) = m /\ p.comppad = PadIn(B, SubsTo(B, i))
  <2>1. /\ \A j \in 1 .. n : B[j].oldscopesp \in 1 .. s
        /\ \A x \in 1 .. s : p.scopestack[x] <= Len(p.savestack)
        /\ Len(p.savestack) = m /\ p.comppad = PadIn(B, SubsTo(B, i))
    BY <1>4 DEF Saved, Scoped
  <2> HIDE DEF B, n, s, m
  <2> QED  BY <1>1, <2>1
<1>6. /\ Prefix(B, r.cxs, i) /\ Prefix(p.scopestack, r.scopestack, s) /\ r.padlist = p.padlist
      /\ Prefix(p.savestack, r.savestack, m) /\ r.comppad = p.comppad
      /\ Prefix(p.si, r.si, k)
  BY <1>5 DEF UnwoundTo, Aside, Prefix
<1>7. Remains(p, r, i, s)
  BY <1>5, <1>6 DEF Remains
<1>8. s <= s
  BY <1>1
<1> HIDE DEF s
<1>9. Saved(r)
  BY <1>1, <1>5, <1>6, <1>7, <1>8, SavedRemains DEF s
<1>10. Stacks(r)
  BY <1>1, <1>2, <1>6, <1>7, StacksRemain
<1> QED  BY <1>3, <1>9, <1>10

\* The sub that a callback is of ends: the C function that called it.
LEMMA OwnSubIs ==
  ASSUME IInv, Running, OwnSub
  PROVE  LET i == Innermost
             l == CalledBack
         IN  /\ pl \in State /\ Books(pl) /\ Saved(pl) /\ Stacks(pl) /\ Levels(pl, c_stack)
             /\ c_stack # <<>> /\ c_stack \in Seq(CFunctions) /\ Len(c_stack) \in Nat
             /\ Len(pl.si) > 1 /\ i = cxbase(pl) + 1 /\ i \in 1 .. Len(pl.cxs) /\ i > cxbase(pl)
             /\ \A j \in i + 1 .. Len(pl.cxs) : pl.cxs[j].cx.type = "LOOP"
             /\ pl.cxs[i].cx.type = "SUB"
             /\ l \in 2 .. Len(c_stack) /\ ~HasEnv(c_stack[l])
             /\ Len(pl.si) = 1 + Calls(c_stack, l)
             /\ \A j \in 1 .. Len(c_stack) : c_stack[j].running
             /\ \A j \in EvalsTo(pl.cxs, i) : pl.cxs[j].cx.loop < l
<1> DEFINE i == Innermost
           l == CalledBack
           m == Len(c_stack)
<1>1. /\ c_stack # <<>> /\ c_stack[m].running
      /\ pl \in State /\ Books(pl) /\ Saved(pl) /\ Stacks(pl) /\ Levels(pl, c_stack)
  BY RunningIs
<1>2. i = cxbase(pl) + 1 /\ Len(pl.si) > 1
  BY DEF OwnSub
<1>3. /\ cxbase(pl) \in Nat /\ Len(pl.cxs) \in Nat /\ i \in cxbase(pl) .. Len(pl.cxs)
      /\ \A j \in i + 1 .. Len(pl.cxs) : pl.cxs[j].cx.type = "LOOP"
      /\ pl.cxs[cxbase(pl) + 1].cx.type = "SUB"
  BY <1>1, <1>2, Bottom, InnermostIs
<1>4. i > cxbase(pl) /\ i \in 1 .. Len(pl.cxs)
  BY <1>2, <1>3
<1>5. /\ l \in 2 .. m /\ ~HasEnv(c_stack[l]) /\ Calls(c_stack, l) = Calls(c_stack, m)
  BY <1>1, <1>2, CalledBackIs
<1>6. c_stack \in Seq(CFunctions) /\ m \in Nat /\ Len(pl.si) = 1 + Calls(c_stack, m)
  BY <1>1, LevelsFields
<1> HIDE DEF l, m, i
<1>7. \A j \in 1 .. m : c_stack[j].running
  <2>1. \A j \in 1 .. m : j < m => c_stack[j].running
    BY <1>1 DEF Levels, m
  <2> QED  BY <1>1, <1>6, <2>1
<1>8. EvalsTo(pl.cxs, i) = EvalsTo(pl.cxs, cxbase(pl))
  <2> DEFINE b == cxbase(pl)
  <2>1. b \in Nat /\ pl.cxs[b + 1].cx.type = "SUB" /\ i = b + 1
    BY <1>2, <1>3
  <2> HIDE DEF b
  <2>2. pl.cxs[b + 1].cx.type # "EVAL"
    BY <2>1
  <2> QED  BY <2>1, <2>2, OneMore DEF b
<1>9. \A j \in EvalsTo(pl.cxs, i) : pl.cxs[j].cx.loop < l
  <2>1. l \in 1 .. m
    BY <1>5, <1>6
  <2> QED  BY <1>1, <1>5, <1>8, <2>1, LoopBelow DEF m
<1> QED  BY <1>1, <1>2, <1>3, <1>4, <1>5, <1>6, <1>7, <1>9 DEF l, m, i

LEMMA MulticallReturnsKeeps ==
  ASSUME IInv, MulticallReturns
  PROVE  IInv'
<1> DEFINE i  == Innermost
           l  == CalledBack
           q  == dounwind(pl, i)
           r  == Caught(q)
           cs == c_stack
           ct == SubSeq(c_stack, 1, l)
           ds == [ct EXCEPT ![l].running = FALSE]
<1>1. Running /\ OwnSub /\ pl.cxs[i].cx.multicall /\ pl' = r /\ c_stack' = ds
  BY DEF MulticallReturns
<1>2. /\ pl \in State /\ Books(pl) /\ Saved(pl) /\ Stacks(pl) /\ Levels(pl, cs)
      /\ cs # <<>> /\ cs \in Seq(CFunctions) /\ Len(cs) \in Nat
      /\ Len(pl.si) > 1 /\ i = cxbase(pl) + 1 /\ i \in 1 .. Len(pl.cxs) /\ i > cxbase(pl)
      /\ \A j \in i + 1 .. Len(pl.cxs) : pl.cxs[j].cx.type = "LOOP"
      /\ l \in 2 .. Len(cs) /\ ~HasEnv(cs[l])
      /\ Len(pl.si) = 1 + Calls(cs, l)
      /\ \A j \in 1 .. Len(cs) : cs[j].running
      /\ \A j \in EvalsTo(pl.cxs, i) : pl.cxs[j].cx.loop < l
  BY <1>1, OwnSubIs
<1> HIDE DEF i
<1>3. Len(pl.cxs) \in Nat /\ i \in Nat /\ i <= Len(pl.cxs)
  BY <1>2, StateFields, LenProperties
<1>4. UnwoundTo(pl, q, i) /\ q.si = pl.si /\ q.top_env = pl.top_env /\ q \in State
  <2>1. UnwoundTo(pl, q, i) /\ q.si = pl.si /\ q.top_env = pl.top_env
    BY <1>2, <1>3, Unwinds
  <2> QED  BY <2>1 DEF UnwoundTo, Books
<1> HIDE DEF q
<1>5. LET e == 1 + Envs(c_stack, l)
      IN  /\ r \in State /\ Len(r.top_env) = e
          /\ \A x \in 1 .. e : r.top_env[x] = pl.top_env[x]
          /\ r.top_env[e] = TRUE
          /\ r.cxs = q.cxs /\ r.si = q.si /\ r.savestack = q.savestack
          /\ r.scopestack = q.scopestack /\ r.in_eval = q.in_eval
          /\ r.comppad = q.comppad /\ r.defav = q.defav /\ r.CvDEPTH = q.CvDEPTH
          /\ r.refcnt = q.refcnt /\ r.padlist = q.padlist /\ r.named = q.named
  BY <1>2, <1>4, CaughtFields
<1> HIDE DEF r
<1>6. Books(r) /\ Saved(r) /\ Stacks(r)
  BY <1>2, <1>4, <1>5, LoopsOff
<1>7. l \in 1 .. Len(cs) /\ l \in Nat /\ l <= Len(cs) /\ l \in 1 .. l
  BY <1>2
<1> HIDE DEF l
<1>8. ct \in Seq(CFunctions) /\ Len(ct) = l /\ \A j \in 1 .. l : ct[j] = cs[j]
  BY <1>2, <1>7, CutSeq
<1> HIDE DEF ct
<1>9. /\ ds \in Seq(CFunctions) /\ Len(ds) = l
      /\ \A j \in 1 .. l : /\ HasEnv(ds[j]) = HasEnv(cs[j]) /\ ds[j].oldcatch = cs[j].oldcatch
                           /\ j < l \/ HasEnv(ds[j]) => ds[j].running
  <2>1. ct[l] \in CFunctions /\ DOMAIN ct = 1 .. l
    BY <1>7, <1>8, ElementOfSeq, LenProperties
  <2>2. /\ [ct[l] EXCEPT !.running = FALSE] \in CFunctions
        /\ [ct[l] EXCEPT !.running = FALSE].kind = ct[l].kind
        /\ [ct[l] EXCEPT !.running = FALSE].oldcatch = ct[l].oldcatch
    BY <2>1 DEF CFunctions
  <2> DEFINE x == [ct[l] EXCEPT !.running = FALSE]
  <2>3. ds = [ct EXCEPT ![l] = x]
    OBVIOUS
  <2>4. x \in CFunctions /\ HasEnv(x) = HasEnv(cs[l]) /\ x.oldcatch = cs[l].oldcatch
    BY <1>7, <1>8, <2>2 DEF HasEnv
  <2> HIDE DEF x, ds
  <2>5. ds \in Seq(CFunctions) /\ Len(ds) = l
    BY <1>7, <1>8, <2>3, <2>4, ExceptSeq
  <2>6. ds[l] = x /\ \A j \in 1 .. l : j # l => ds[j] = cs[j]
    BY <1>7, <1>8, <2>1, <2>3
  <2> SUFFICES ASSUME NEW j \in 1 .. l
               PROVE  /\ HasEnv(ds[j]) = HasEnv(cs[j]) /\ ds[j].oldcatch = cs[j].oldcatch
                      /\ j < l \/ HasEnv(ds[j]) => ds[j].running
    BY <2>5
  <2>7. CASE j = l
    BY <1>2, <1>7, <2>4, <2>6, <2>7
  <2>8. CASE j # l
    <3>1. j \in 1 .. Len(cs)
      BY <1>7
    <3> QED  BY <1>2, <2>6, <2>8, <3>1
  <2> QED  BY <2>7, <2>8
<1> HIDE DEF ds
<1>10. Levels(r, ds)
  <2>1. Prefix(pl.cxs, r.cxs, i) /\ Prefix(pl.si, r.si, 1 + Calls(cs, l))
    BY <1>2, <1>4, <1>5 DEF UnwoundTo, Prefix
  <2>2. /\ Len(r.top_env) = 1 + Envs(cs, l) /\ r.top_env[1 + Envs(cs, l)] = ~HasEnv(cs[l])
        /\ \A x \in 1 .. Envs(cs, l) : r.top_env[x] = pl.top_env[x]
    <3> DEFINE k == Envs(cs, l)
    <3>1. k \in Nat
      BY <1>7, CountTypes
    <3>2. /\ Len(r.top_env) = 1 + k /\ r.top_env[1 + k] = TRUE
          /\ \A x \in 1 .. 1 + k : r.top_env[x] = pl.top_env[x]
      BY <1>5
    <3> HIDE DEF k
    <3>3. \A x \in 1 .. k : r.top_env[x] = pl.top_env[x]
      BY <3>1, <3>2
    <3>4. ~HasEnv(cs[l]) = TRUE
      BY <1>2
    <3> QED  BY <3>2, <3>3, <3>4 DEF k
  <2>3. \A j \in EvalsTo(pl.cxs, i) : pl.cxs[j].cx.loop <= l
    <3> SUFFICES ASSUME NEW j \in EvalsTo(pl.cxs, i)
                 PROVE  pl.cxs[j].cx.loop <= l
      OBVIOUS
    <3>1. j \in 1 .. Len(pl.cxs) /\ pl.cxs[j].cx.type = "EVAL" /\ pl.cxs \in Seq(Blocks)
      BY <1>2, <1>3, StateFields DEF EvalsTo
    <3>2. pl.cxs[j].cx.loop \in Nat
      BY <3>1, ElementOfSeq, BlockTypes
    <3> QED  BY <1>2, <1>7, <3>2
  <2>4. Len(r.cxs) = r.si[Len(r.si)] + 1 /\ r.cxs[Len(r.cxs)].cx.multicall
    <3>1. Len(r.cxs) = i /\ r.cxs[i] = pl.cxs[i] /\ r.si[Len(r.si)] = cxbase(pl)
      BY <1>2, <1>4, <2>1, <1>5, Bottom DEF Prefix
    <3> QED  BY <1>1, <1>2, <3>1 DEF i
  <2> QED  BY <1>2, <1>3, <1>5, <1>7, <1>9, <2>1, <2>2, <2>3, <2>4, LevelsCut
<1> QED  BY <1>1, <1>6, <1>10 DEF IInv, Inv

\* The first context of the current stack is left, and its stack, as the topmost callback, the
\* l-th C function, returns: the invariant holds of what is left.
LEMMA CallbackLeft ==
  ASSUME pl \in State, Saved(pl), Stacks(pl), Levels(pl, c_stack), c_stack # <<>>,
         NEW i \in 1 .. Len(pl.cxs), i = cxbase(pl) + 1,
         NEW l \in 2 .. Len(c_stack), ~HasEnv(c_stack[l]),
         Len(pl.si) = 1 + Calls(c_stack, l), \A j \in 1 .. l - 1 : c_stack[j].running,
         NEW q, UnwoundTo(pl, q, i),
         NEW s \in Nat, s < pl.cxs[i].oldscopesp, \A j \in 1 .. i - 1 : pl.cxs[j].oldscopesp <= s,
         NEW t, Leaves(q, t, SavesTo(pl.cxs, i - 1), s), t.si = Front(pl.si),
         Len(t.top_env) = 1 + Envs(c_stack, l),
         \A x \in 1 .. Envs(c_stack, l) : t.top_env[x] = pl.top_env[x],
         t.top_env[1 + Envs(c_stack, l)] = c_stack[l].oldcatch
  PROVE  Inv(t, SubSeq(c_stack, 1, l - 1))
<1> DEFINE cs == c_stack
           n  == i - 1
           k  == l - 1
           m  == Len(pl.si)
           ds == SubSeq(cs, 1, k)
<1>1. Books(t) /\ Saved(t) /\ Remains(pl, t, n, s) /\ t \in State
  <2>1. Books(t) /\ Saved(t) /\ Remains(pl, t, n, s)
    BY ContextLeft
  <2> QED  BY <2>1 DEF Books
<1>2. /\ cs \in Seq(CFunctions) /\ Len(cs) \in Nat /\ HasEnv(cs[1]) /\ Environed(cs, pl.top_env)
  BY LevelsFields
<1>3. /\ pl.si \in Seq(Nat) /\ m \in Nat /\ cxbase(pl) = pl.si[m] /\ cxbase(pl) \in Nat
      /\ Len(pl.cxs) \in Nat
  BY Bottom
<1>4. /\ l \in Nat /\ l >= 1 /\ k \in Nat /\ k \in 1 .. Len(cs) /\ k <= Len(cs) /\ k \in Int
      /\ l \in 1 .. Len(cs)
  BY <1>2
<1>5. /\ Calls(cs, l) = 1 + Calls(cs, k) /\ Envs(cs, k) = Envs(cs, l)
      /\ Calls(cs, k) \in Nat /\ Envs(cs, k) \in Nat
  BY <1>4, BelowCall
<1>6. n = cxbase(pl) /\ n \in Nat /\ n <= Len(pl.cxs)
  BY <1>3, SMTT(30)
<1>7. m - 1 \in 1 .. m /\ m - 1 = 1 + Calls(cs, k) /\ m \in 2 .. m /\ m > 1
  <2>1. m = 1 + Calls(cs, l)
    OBVIOUS
  <2> DEFINE c == Calls(cs, k)
  <2>2. c \in Nat /\ m = c + 2
    BY <1>5, <2>1
  <2>3. \A x \in Nat : \A y : y = x + 2 =>
          y - 1 \in 1 .. y /\ y - 1 = 1 + x /\ y \in 2 .. y /\ y > 1
    OBVIOUS
  <2> HIDE DEF m, c
  <2> QED  BY <2>2, <2>3 DEF c
<1>8. Prefix(pl.si, t.si, m - 1)
  <2>1. Len(pl.si) > 0
    BY <1>7
  <2>2. /\ Len(Front(pl.si)) = Len(pl.si) - 1
        /\ \A x \in 1 .. Len(pl.si) - 1 : Front(pl.si)[x] = pl.si[x]
    BY <1>3, <2>1, LastFront
  <2> QED  BY <2>2 DEF Prefix
<1>9. \A j \in 2 .. m - 1 : pl.si[j] < n
  BY <1>3, <1>6, <1>7 DEF Stacks, Stacked
<1> HIDE DEF n, m
<1>10. Stacks(t)
  BY <1>1, <1>6, <1>7, <1>8, <1>9, StacksRemain DEF m
<1>11. /\ ds \in Seq(CFunctions) /\ Len(ds) = k /\ \A j \in 1 .. k : ds[j] = cs[j]
  <2> HIDE DEF k
  <2> QED  BY <1>2, <1>4, CutSeq
<1>12. cs[l].oldcatch = ~HasEnv(cs[k])
  BY <1>4 DEF Environed, k, cs, Levels
<1>13. \A j \in EvalsTo(pl.cxs, n) : pl.cxs[j].cx.loop <= k
  <2> SUFFICES ASSUME NEW j \in EvalsTo(pl.cxs, n)
               PROVE  pl.cxs[j].cx.loop <= k
    OBVIOUS
  <2>1. Calls(cs, l) = Calls(cs, Len(cs))
    <3>1. Len(pl.si) = 1 + Calls(cs, Len(cs)) /\ Calls(cs, Len(cs)) \in Nat
      BY LevelsFields
    <3> QED  BY <1>5, <3>1
  <2>2. j \in EvalsTo(pl.cxs, cxbase(pl))
    BY <1>6
  <2>3. pl.cxs[j].cx.loop < l
    BY <1>4, <2>1, <2>2, LoopBelow
  <2>4. j \in 1 .. Len(pl.cxs) /\ pl.cxs[j].cx.type = "EVAL"
    <3> DEFINE B == pl.cxs
               b == Len(B)
    <3>1. j \in EvalsTo(B, n) /\ n \in Nat /\ b \in Nat /\ n <= b
      BY <1>3, <1>6
    <3> HIDE DEF b, B
    <3>2. j \in 1 .. n /\ B[j].cx.type = "EVAL"
      BY <3>1 DEF EvalsTo
    <3>3. j \in 1 .. b
      BY <3>1, <3>2, Within, Zenon
    <3> QED  BY <3>2, <3>3 DEF b, B
  <2>5. pl.cxs[j].cx.loop \in Nat
    <3>1. pl.cxs \in Seq(Blocks)
      BY <1>3, StateFields
    <3> QED  BY <2>4, <3>1, ElementOfSeq, BlockTypes
  <2> DEFINE x == pl.cxs[j].cx.loop
  <2>6. l = k + 1 /\ k \in Nat /\ x \in Nat /\ x < l
    BY <1>4, <2>3, <2>5
  <2> HIDE DEF x, k
  <2>7. x <= k
    BY <2>6
  <2> QED  BY <2>7 DEF x
<1>14. Levels(t, ds)
  <2>1. Prefix(pl.cxs, t.cxs, n) /\ Prefix(pl.si, t.si, 1 + Calls(cs, k))
    BY <1>1, <1>7, <1>8 DEF Remains
  <2>2. /\ Len(t.top_env) = 1 + Envs(cs, k) /\ t.top_env[1 + Envs(cs, k)] = ~HasEnv(cs[k])
        /\ \A x \in 1 .. Envs(cs, k) : t.top_env[x] = pl.top_env[x]
    BY <1>5, <1>12
  <2>3. \A j \in 1 .. k : /\ HasEnv(ds[j]) = HasEnv(cs[j]) /\ ds[j].oldcatch = cs[j].oldcatch
                          /\ ds[j].running
    BY <1>11
  <2>4. ds[k].running
    BY <1>4, <2>3
  <2> HIDE DEF k, ds
  <2> QED  BY <1>1, <1>4, <1>6, <1>11, <1>13, <2>1, <2>2, <2>3, <2>4, LevelsCut
<1> QED  BY <1>1, <1>10, <1>14 DEF Inv

\* LEAVE, where the last scope began with all there is saved: nothing is restored.
LEMMA NothingRestored ==
  ASSUME NEW p \in State, NEW o \in Nat \ {0}, Len(p.scopestack) = o, NEW m, m = p.scopestack[o],
         Len(p.savestack) = m
  PROVE  LET r == LEAVE(p)
         IN  /\ r \in State /\ Apart(p, r) /\ Prefix(p.savestack, r.savestack, m)
             /\ r.comppad = p.comppad /\ Prefix(p.scopestack, r.scopestack, o - 1)
             /\ \A cv \in Cvs : Due(r, cv) = Due(p, cv)
<1> DEFINE r == LEAVE(p)
<1>1. p.scopestack \in Seq(Nat) /\ Len(p.savestack) \in Nat
  BY StateFields, LenProperties
<1>2. /\ Last(p.scopestack) = m /\ Len(Front(p.scopestack)) = o - 1 /\ Len(p.scopestack) > 0
      /\ \A i \in 1 .. o - 1 : Front(p.scopestack)[i] = p.scopestack[i]
  <2> DEFINE sc == p.scopestack
  <2>1. sc \in Seq(Nat) /\ Len(sc) > 0
    BY <1>1
  <2>2. m = sc[o] /\ Len(sc) = o
    OBVIOUS
  <2> HIDE DEF sc
  <2>3. /\ Last(sc) = sc[Len(sc)] /\ Len(Front(sc)) = Len(sc) - 1
        /\ \A i \in 1 .. Len(sc) - 1 : Front(sc)[i] = sc[i]
    BY <2>1, LastFront
  <2> QED  BY <2>1, <2>2, <2>3 DEF sc
<1>3. m <= Len(p.savestack) /\ m \in Nat
  BY <1>1
<1>4. ScopeLeft(p, r, m) /\ r.scopestack = Front(p.scopestack)
  BY <1>2, <1>3, LeaveFields
<1> HIDE DEF r
<1>5. PadLeft(p.savestack, m, p.comppad, r.comppad)
  BY <1>4 DEF ScopeLeft
<1>6. \A k \in m + 1 .. Len(p.savestack) : FALSE
  BY <1>3
<1>7. r.comppad = p.comppad
  BY <1>5, <1>6 DEF PadLeft
<1> QED  BY <1>2, <1>4, <1>7 DEF ScopeLeft, Prefix, r

\* p is t but for its run loops: the stack infos and the environments.
SameLoop(t, p) ==
  /\ p \in State /\ p.cxs = t.cxs /\ p.CvDEPTH = t.CvDEPTH /\ p.defav = t.defav
  /\ p.in_eval = t.in_eval /\ p.named = t.named /\ p.refcnt = t.refcnt
  /\ p.savestack = t.savestack /\ p.comppad = t.comppad
  /\ p.scopestack = t.scopestack /\ p.padlist = t.padlist

\* What Leaves says depends on some fields alone, and a scope more can be left.
LEMMA LeavesMore ==
  ASSUME NEW q, NEW t, NEW m \in Nat, NEW o \in Nat, o >= 2, Leaves(q, t, m, o - 1),
         q.scopestack[o - 1] = m, NEW p, SameLoop(t, p)
  PROVE  /\ Leaves(q, LEAVE(p), m, o - 2)
         /\ LEAVE(p).si = p.si /\ LEAVE(p).top_env = p.top_env
<1> DEFINE r == LEAVE(p)
           n == o - 1
<1>0. /\ p \in State /\ p.cxs = t.cxs /\ p.CvDEPTH = t.CvDEPTH /\ p.defav = t.defav
      /\ p.in_eval = t.in_eval /\ p.named = t.named /\ p.refcnt = t.refcnt
      /\ p.savestack = t.savestack /\ p.comppad = t.comppad
      /\ p.scopestack = t.scopestack /\ p.padlist = t.padlist
  BY DEF SameLoop
<1>1. n \in Nat \ {0} /\ n \in 1 .. n /\ n - 1 = o - 2 /\ \A i \in 1 .. n - 1 : i \in 1 .. n
  OBVIOUS
<1>2. /\ Len(p.scopestack) = n /\ m = p.scopestack[n] /\ Len(p.savestack) = m
      /\ \A i \in 1 .. n : p.scopestack[i] = q.scopestack[i]
      /\ \A i \in 1 .. m : p.savestack[i] = q.savestack[i]
      /\ PadLeft(q.savestack, m, q.comppad, p.comppad)
  BY <1>0, <1>1 DEF Leaves, Prefix
<1> HIDE DEF n
<1>3. /\ r \in State /\ Apart(p, r) /\ Prefix(p.savestack, r.savestack, m)
      /\ r.comppad = p.comppad /\ Prefix(p.scopestack, r.scopestack, n - 1)
      /\ \A cv \in Cvs : Due(r, cv) = Due(p, cv)
  BY <1>0, <1>1, <1>2, NothingRestored
<1> HIDE DEF r
<1>4. \A cv \in Cvs : Due(p, cv) = Due(t, cv)
  BY <1>0 DEF Due
<1>5. Prefix(q.savestack, r.savestack, m) /\ Prefix(q.scopestack, r.scopestack, o - 2)
  BY <1>1, <1>2, <1>3 DEF Prefix
<1>6. Leaves(q, r, m, o - 2)
  BY <1>0, <1>2, <1>3, <1>4, <1>5 DEF Leaves, Apart
<1> QED  BY <1>0, <1>3, <1>6 DEF Apart, r

LEMMA CallReturnsKeeps ==
  ASSUME IInv, CallReturns
  PROVE  IInv'
<1> DEFINE i  == Innermost
           l  == CalledBack
           q  == dounwind(pl, i)
           cs == c_stack
           v  == cs[l].oldcatch
           o  == pl.cxs[i].oldscopesp
           m  == SavesTo(pl.cxs, i - 1)
           t1 == leavesub(q)
           t2 == Caught(t1)
           t3 == CATCH_SET(t2, v)
           t4 == POPSTACK(t3)
           t5 == LEAVE(t4)
<1>1. /\ Running /\ OwnSub /\ ~pl.cxs[i].cx.multicall
      /\ pl' = t5 /\ c_stack' = SubSeq(c_stack, 1, l - 1)
  BY DEF CallReturns
<1>2. /\ pl \in State /\ Books(pl) /\ Saved(pl) /\ Stacks(pl) /\ Levels(pl, cs)
      /\ cs # <<>> /\ cs \in Seq(CFunctions) /\ Len(cs) \in Nat
      /\ Len(pl.si) > 1 /\ i = cxbase(pl) + 1 /\ i \in 1 .. Len(pl.cxs)
      /\ pl.cxs[i].cx.type = "SUB"
      /\ l \in 2 .. Len(cs) /\ ~HasEnv(cs[l])
      /\ Len(pl.si) = 1 + Calls(cs, l)
      /\ \A j \in 1 .. Len(cs) : cs[j].running
  BY <1>1, OwnSubIs
<1> HIDE DEF i, l
<1>3. Len(pl.cxs) \in Nat /\ i \in Nat /\ i <= Len(pl.cxs)
  BY <1>2, StateFields, LenProperties
<1>4. UnwoundTo(pl, q, i) /\ q.si = pl.si /\ q.top_env = pl.top_env
  BY <1>2, <1>3, Unwinds
<1> HIDE DEF q
<1>5. /\ Leaves(q, t1, m, o - 1) /\ t1.si = q.si /\ t1.top_env = q.top_env
  BY <1>2, <1>4, Leaving
<1> HIDE DEF t1
<1>6. t1 \in State /\ t1.si = pl.si /\ t1.top_env = pl.top_env /\ Len(t1.cxs) = cxbase(pl)
  <2>1. t1 \in State /\ t1.cxs = Unwound(q).cxs /\ t1.si = pl.si /\ t1.top_env = pl.top_env
    BY <1>4, <1>5 DEF Leaves
  <2>2. Books(q) /\ Len(q.cxs) = i
    BY <1>4 DEF UnwoundTo, Prefix
  <2> DEFINE b == cxbase(pl)
  <2>3. b \in Nat /\ i = b + 1
    BY <1>2, Bottom
  <2> HIDE DEF b
  <2>4. Prefix(q.cxs, Unwound(q).cxs, b)
    BY <2>2, <2>3, UnwindTurn
  <2> QED  BY <2>1, <2>4 DEF Prefix, b
<1> DEFINE e == 1 + Envs(cs, l)
<1>7. /\ t2 \in State /\ e \in Nat /\ Len(t2.top_env) = e
      /\ \A x \in 1 .. e : t2.top_env[x] = pl.top_env[x]
      /\ t2.cxs = t1.cxs /\ t2.si = t1.si /\ t2.savestack = t1.savestack
      /\ t2.scopestack = t1.scopestack /\ t2.in_eval = t1.in_eval
      /\ t2.comppad = t1.comppad /\ t2.defav = t1.defav /\ t2.CvDEPTH = t1.CvDEPTH
      /\ t2.refcnt = t1.refcnt /\ t2.padlist = t1.padlist /\ t2.named = t1.named
  BY <1>2, <1>6, CaughtFields, ZenonT(60) DEF l
<1> HIDE DEF t2, v
<1>8. v \in BOOLEAN
  <2>1. l \in 1 .. Len(cs)
    BY <1>2
  <2>2. cs[l] \in CFunctions
    BY <1>2, <2>1, ElementOfSeq
  <2> QED  BY <2>2 DEF CFunctions, v
<1>9. Envs(cs, l) \in Nat /\ l \in Nat
  BY <1>2, CountTypes
<1>10. /\ t3 \in State /\ Len(t3.top_env) = e /\ t3.top_env[e] = v
       /\ \A x \in 1 .. e - 1 : t3.top_env[x] = t2.top_env[x]
       /\ t3.cxs = t2.cxs /\ t3.si = t2.si /\ t3.savestack = t2.savestack
       /\ t3.scopestack = t2.scopestack /\ t3.in_eval = t2.in_eval
       /\ t3.comppad = t2.comppad /\ t3.defav = t2.defav /\ t3.CvDEPTH = t2.CvDEPTH
       /\ t3.refcnt = t2.refcnt /\ t3.padlist = t2.padlist /\ t3.named = t2.named
  <2>1. Len(t2.top_env) > 0
    BY <1>7, <1>9
  <2> HIDE DEF e
  <2> QED  BY <1>7, <1>8, <2>1, CatchSetFields
<1> HIDE DEF t3
<1>11. /\ t4 \in State /\ t4.cxs = t3.cxs /\ t4.si = Front(t3.si)
       /\ t4.savestack = t3.savestack /\ t4.scopestack = t3.scopestack
       /\ t4.top_env = t3.top_env /\ t4.in_eval = t3.in_eval /\ t4.comppad = t3.comppad
       /\ t4.defav = t3.defav /\ t4.CvDEPTH = t3.CvDEPTH /\ t4.refcnt = t3.refcnt
       /\ t4.padlist = t3.padlist /\ t4.named = t3.named
  <2>1. t3.si = pl.si /\ t3.cxs = t1.cxs
    BY <1>6, <1>7, <1>10
  <2>2. Len(t3.si) > 0 /\ Len(t3.cxs) = Last(t3.si)
    BY <1>2, <1>6, <2>1 DEF cxbase
  <2> QED  BY <1>10, <2>2, PopStackFields
<1> HIDE DEF t4
<1>12. /\ o \in Nat /\ o >= 2 /\ q.scopestack[o - 1] = m
       /\ \A j \in 1 .. i - 1 : pl.cxs[j].oldscopesp < o - 1
  <2> DEFINE k == Len(pl.si)
  <2>1. k \in 2 .. k /\ i = pl.si[k] + 1
    <3>1. k \in Nat /\ cxbase(pl) = pl.si[k]
      BY <1>2, Bottom
    <3> QED  BY <1>2, <3>1
  <2>2. ExtraScope(pl.cxs, pl.scopestack, i)
    BY <1>1, <1>2, <2>1 DEF Stacks
  <2>3. q.scopestack = pl.scopestack
    BY <1>4 DEF UnwoundTo, Aside
  <2>4. o \in Nat
    <3>1. pl.cxs[i] \in Blocks
      BY <1>2, StateFields, ElementOfSeq
    <3> QED  BY <3>1, BlockTypes
  <2> QED  BY <2>2, <2>3, <2>4 DEF ExtraScope
<1>13. m \in Nat
  <2>1. i - 1 \in Int
    BY <1>3
  <2> QED  BY <2>1, ToTypes
<1> HIDE DEF o, m
<1>14. Leaves(q, t5, m, o - 2) /\ t5.si = t4.si /\ t5.top_env = t4.top_env
  <2>1. SameLoop(t1, t4)
    BY <1>7, <1>10, <1>11 DEF SameLoop
  <2>2. Leaves(q, t1, m, o - 1)
    BY <1>5
  <2>3. o \in Nat /\ o >= 2 /\ q.scopestack[o - 1] = m
    BY <1>12
  <2> QED  BY <1>13, <2>1, <2>2, <2>3, LeavesMore
<1> HIDE DEF t5
<1>15. /\ o - 2 \in Nat /\ o - 2 < o /\ \A j \in 1 .. i - 1 : pl.cxs[j].oldscopesp <= o - 2
  <2> SUFFICES ASSUME NEW j \in 1 .. i - 1
               PROVE  pl.cxs[j].oldscopesp <= o - 2
    BY <1>12
  <2>1. j \in 1 .. Len(pl.cxs)
    BY <1>3
  <2>2. pl.cxs[j] \in Blocks
    BY <1>2, <2>1, StateFields, ElementOfSeq
  <2>3. pl.cxs[j].oldscopesp \in Nat
    BY <2>2, BlockTypes
  <2> QED  BY <1>12, <2>3
<1>16. /\ t5.si = Front(pl.si) /\ Len(t5.top_env) = 1 + Envs(cs, l)
       /\ t5.top_env[1 + Envs(cs, l)] = cs[l].oldcatch
       /\ \A x \in 1 .. Envs(cs, l) : t5.top_env[x] = pl.top_env[x]
  BY <1>6, <1>7, <1>9, <1>10, <1>11, <1>14, SMTT(30) DEF v
<1>17. \A j \in 1 .. l - 1 : cs[j].running
  BY <1>2, <1>9
<1> DEFINE s == o - 2
<1> HIDE DEF s
<1>18. Inv(t5, SubSeq(cs, 1, l - 1))
  <2>1. /\ s \in Nat /\ s < pl.cxs[i].oldscopesp /\ Leaves(q, t5, SavesTo(pl.cxs, i - 1), s)
        /\ \A j \in 1 .. i - 1 : pl.cxs[j].oldscopesp <= s
    BY <1>14, <1>15 DEF o, m, s
  <2> QED  BY <1>2, <1>4, <1>16, <1>17, <2>1, CallbackLeft
<1> QED  BY <1>1, <1>18 DEF IInv

\* POP_MULTICALL, the CV and its reference: as dounwind.
LEMMA MulticallLeft ==
  ASSUME NEW p, Books(p), Saved(p), NEW n \in Nat, Len(p.cxs) = n + 1,
         p.cxs[n + 1].cx.type = "SUB", p.cxs[n + 1].cx.multicall
  PROVE  LET cv   == Last(p.cxs).cx.cv
             less == [p EXCEPT !.CvDEPTH[cv] = @ - 1]
             left == IF less.CvDEPTH[cv] = 0 THEN SvREFCNT_dec(less, cv) ELSE less
             u    == Unwound(p)
         IN  /\ left \in State /\ left.CvDEPTH = u.CvDEPTH /\ left.refcnt = u.refcnt
             /\ u.defav = p.defav /\ u.in_eval = p.in_eval /\ u.named = p.named
             /\ u.cxs = Front(p.cxs) /\ u.savestack = p.savestack
             /\ left.cxs = p.cxs /\ left.si = p.si /\ left.savestack = p.savestack
             /\ left.scopestack = p.scopestack /\ left.top_env = p.top_env
             /\ left.in_eval = p.in_eval /\ left.comppad = p.comppad /\ left.defav = p.defav
             /\ left.padlist = p.padlist /\ left.named = p.named
<1> DEFINE B    == p.cxs
           cx   == Last(B).cx
           cv   == cx.cv
           d    == p.CvDEPTH[cv]
           D    == [p.CvDEPTH EXCEPT ![cv] = d - 1]
           R    == [p.refcnt EXCEPT ![cv] = @ - 1]
           less == [p EXCEPT !.CvDEPTH = D]
           left == IF D[cv] = 0 THEN [less EXCEPT !.refcnt = R] ELSE less
           u    == Unwound(p)
<1>1. p \in State /\ Remembers(B)
  BY DEF Books
<1>2. /\ B \in Seq(Blocks) /\ p.CvDEPTH \in [Cvs -> Int] /\ p.refcnt \in [Cvs -> Int]
      /\ Len(B) > 0
  BY <1>1, StateFields
<1>3. Last(B) = B[n + 1] /\ Last(B) \in Blocks
  BY <1>2, LastFront
<1>4. cv \in Cvs /\ cx.olddepth \in Nat /\ cx.hasargs = FALSE /\ cx.type = "SUB"
  <2>1. cv \in Cvs /\ cx.olddepth \in Nat /\ cx.hasargs \in BOOLEAN
    BY <1>3, BlockTypes
  <2>2. n + 1 \in SubsTo(B, Len(B))
    BY DEF SubsTo
  <2>3. B[n + 1].cx.hasargs = ~B[n + 1].cx.multicall
    BY <2>2 DEF Saved
  <2> QED  BY <1>3, <2>1, <2>3
<1>5. d = cx.olddepth + 1
  <2>1. n + 1 \in 1 .. Len(B) /\ (n + 1) - 1 = n
    OBVIOUS
  <2>2. cx.olddepth = Cardinality(FramesTo(B, cv, n))
    BY <1>1, <1>3, <1>4, <2>1 DEF Remembers, Remembered
  <2>3. d = Cardinality(FramesTo(B, cv, n + 1))
    BY <1>4 DEF Books
  <2>4. FramesTo(B, cv, n + 1) = FramesTo(B, cv, n) \cup {n + 1}
    <3>1. B[n + 1].cx.type = "SUB" /\ B[n + 1].cx.cv = cv
      BY <1>3, <1>4
    <3> HIDE DEF B, cx, cv
    <3> QED  BY <3>1, OneMore
  <2>5. FramesTo(B, cv, n) \in SUBSET (1 .. n)
    BY DEF FramesTo, SubsTo
  <2>6. Cardinality(FramesTo(B, cv, n) \cup {n + 1}) = Cardinality(FramesTo(B, cv, n)) + 1
    BY <2>5, CountAdded, Zenon
  <2> QED  BY <2>2, <2>3, <2>4, <2>6
<1>6. /\ D = [p.CvDEPTH EXCEPT ![cv] = cx.olddepth] /\ D[cv] = cx.olddepth
      /\ D \in [Cvs -> Int] /\ R \in [Cvs -> Int]
  BY <1>2, <1>4, <1>5, SMTT(30)
<1>7. /\ u.cxs = Front(p.cxs) /\ u.savestack = p.savestack /\ u.named = p.named
      /\ u.CvDEPTH = D /\ u.defav = p.defav /\ u.in_eval = p.in_eval
      /\ u.refcnt = IF cx.olddepth = 0 THEN R ELSE p.refcnt
  <2> HIDE DEF u
  <2> QED  BY <1>1, <1>2, <1>4, <1>6, UnwoundFields DEF u
<1>8. LET less2 == [p EXCEPT !.CvDEPTH[cv] = @ - 1]
      IN  left = IF less2.CvDEPTH[cv] = 0 THEN SvREFCNT_dec(less2, cv) ELSE less2
  <2>1. [p EXCEPT !.CvDEPTH[cv] = @ - 1] = less
    OBVIOUS
  <2>2. less.CvDEPTH = D /\ less.refcnt = p.refcnt
    <3> HIDE DEF D, R
    <3> QED  BY <1>1, <1>6, SetDepth
  <2> HIDE DEF less, D
  <2> QED  BY <2>1, <2>2 DEF SvREFCNT_dec
<1>a. D \in [Cvs -> Int]
  BY <1>6
<1> HIDE DEF D, R, u, less
<1>9. /\ less \in State /\ less.CvDEPTH = D /\ less.refcnt = p.refcnt
      /\ less.cxs = p.cxs /\ less.si = p.si /\ less.savestack = p.savestack
      /\ less.scopestack = p.scopestack /\ less.top_env = p.top_env
      /\ less.in_eval = p.in_eval /\ less.comppad = p.comppad /\ less.defav = p.defav
      /\ less.padlist = p.padlist /\ less.named = p.named
  BY <1>1, <1>a, SetDepth DEF less
<1>10. /\ left \in State /\ left.CvDEPTH = D
       /\ left.refcnt = IF cx.olddepth = 0 THEN R ELSE p.refcnt
       /\ left.cxs = p.cxs /\ left.si = p.si /\ left.savestack = p.savestack
       /\ left.scopestack = p.scopestack /\ left.top_env = p.top_env
       /\ left.in_eval = p.in_eval /\ left.comppad = p.comppad /\ left.defav = p.defav
       /\ left.padlist = p.padlist /\ left.named = p.named
  <2> HIDE DEF left
  <2>1. CASE D[cv] = 0
    <3>1. left = [less EXCEPT !.refcnt = R] /\ cx.olddepth = 0
      BY <1>6, <2>1 DEF left
    <3> QED  BY <1>6, <1>9, <3>1, SetRefcnt
  <2>2. CASE D[cv] # 0
    <3>1. left = less /\ cx.olddepth # 0
      BY <1>6, <2>2 DEF left
    <3> QED  BY <1>9, <3>1
  <2> QED  BY <2>1, <2>2
<1> HIDE DEF left
<1> QED  BY <1>7, <1>8, <1>10 DEF u

\* An XS function that has a MULTICALL sub pushed, and runs no ops.
LEMMA InCIs ==
  ASSUME IInv, InC
  PROVE  LET n == cxbase(pl)
             l == Len(c_stack)
         IN  /\ pl \in State /\ Books(pl) /\ Saved(pl) /\ Stacks(pl) /\ Levels(pl, c_stack)
             /\ c_stack # <<>> /\ c_stack \in Seq(CFunctions) /\ l \in Nat
             /\ n \in Nat /\ Len(pl.cxs) = n + 1 /\ Len(pl.si) > 1
             /\ pl.cxs[n + 1].cx.type = "SUB" /\ pl.cxs[n + 1].cx.multicall
             /\ l \in 2 .. l /\ ~HasEnv(c_stack[l])
             /\ Len(pl.si) = 1 + Calls(c_stack, l)
             /\ \A j \in 1 .. l - 1 : c_stack[j].running
<1> DEFINE l == Len(c_stack)
<1>1. /\ c_stack # <<>> /\ ~c_stack[l].running
      /\ pl \in State /\ Books(pl) /\ Saved(pl) /\ Stacks(pl) /\ Levels(pl, c_stack)
  BY DEF IInv, Inv, InC, Last, Books
<1>2. /\ c_stack \in Seq(CFunctions) /\ l \in Nat /\ l >= 1 /\ HasEnv(c_stack[1])
      /\ Len(pl.si) = 1 + Calls(c_stack, l) /\ Calls(c_stack, l) \in Nat
  BY <1>1, LevelsFields
<1>3. /\ \A i \in 1 .. l : i < l \/ HasEnv(c_stack[i]) => c_stack[i].running
      /\ Len(pl.cxs) = pl.si[Len(pl.si)] + 1 /\ pl.cxs[Len(pl.cxs)].cx.multicall
  BY <1>1 DEF Levels
<1>4. ~HasEnv(c_stack[l]) /\ \A j \in 1 .. l - 1 : c_stack[j].running
  <2> HIDE DEF l
  <2> QED  BY <1>1, <1>2, <1>3
<1>5. l \in 2 .. l
  <2>1. l # 1
    BY <1>2, <1>4
  <2> HIDE DEF l
  <2> QED  BY <1>2, <2>1
<1>6. Calls(c_stack, l) = 1 + Calls(c_stack, l - 1) /\ Calls(c_stack, l - 1) \in Nat
  <2> HIDE DEF l
  <2> QED  BY <1>2, <1>4, BelowCall
<1>7. Len(pl.si) > 1
  BY <1>2, <1>6
<1>8. /\ cxbase(pl) \in Nat /\ cxbase(pl) = pl.si[Len(pl.si)]
      /\ pl.cxs[cxbase(pl) + 1].cx.type = "SUB"
  BY <1>1, <1>7, Bottom
<1>9. Len(pl.cxs) = cxbase(pl) + 1
  BY <1>3, <1>8
<1> HIDE DEF l
<1> QED  BY <1>1, <1>2, <1>3, <1>4, <1>5, <1>7, <1>8, <1>9 DEF l

LEMMA PopMulticallKeeps ==
  ASSUME IInv, POP_MULTICALL
  PROVE  IInv'
<1> DEFINE B    == pl.cxs
           n    == cxbase(pl)
           i    == n + 1
           l    == Len(c_stack)
           cs   == c_stack
           v    == Last(c_stack).oldcatch
           o    == B[i].oldscopesp
           m    == SavesTo(B, n)
           cv   == Last(B).cx.cv
           less == [pl EXCEPT !.CvDEPTH[cv] = @ - 1]
           t1   == IF less.CvDEPTH[cv] = 0 THEN SvREFCNT_dec(less, cv) ELSE less
           t2   == POPBLOCK(t1)
           t3   == POPSTACK(t2)
           t4   == CATCH_SET(t3, v)
           t5   == LEAVE(t4)
           u    == Unwound(pl)
<1>1. InC /\ pl' = t5 /\ c_stack' = Front(c_stack)
  BY DEF POP_MULTICALL
<1>2. /\ pl \in State /\ Books(pl) /\ Saved(pl) /\ Stacks(pl) /\ Levels(pl, cs)
      /\ cs # <<>> /\ cs \in Seq(CFunctions) /\ l \in Nat
      /\ n \in Nat /\ Len(B) = n + 1 /\ Len(pl.si) > 1
      /\ B[n + 1].cx.type = "SUB" /\ B[n + 1].cx.multicall
      /\ l \in 2 .. l /\ ~HasEnv(cs[l])
      /\ Len(pl.si) = 1 + Calls(cs, l)
      /\ \A j \in 1 .. l - 1 : cs[j].running
  BY <1>1, InCIs
<1> HIDE DEF n
<1>3. /\ t1 \in State /\ t1.CvDEPTH = u.CvDEPTH /\ t1.refcnt = u.refcnt
      /\ u.defav = pl.defav /\ u.in_eval = pl.in_eval /\ u.named = pl.named
      /\ u.cxs = Front(pl.cxs) /\ u.savestack = pl.savestack
      /\ t1.cxs = pl.cxs /\ t1.si = pl.si /\ t1.savestack = pl.savestack
      /\ t1.scopestack = pl.scopestack /\ t1.top_env = pl.top_env
      /\ t1.in_eval = pl.in_eval /\ t1.comppad = pl.comppad /\ t1.defav = pl.defav
      /\ t1.padlist = pl.padlist /\ t1.named = pl.named
  BY <1>2, MulticallLeft
<1> HIDE DEF t1, u
<1>4. B \in Seq(Blocks) /\ i \in 1 .. Len(B) /\ i - 1 = n /\ Len(B) > 0 /\ Last(B) = B[i]
  <2>1. B \in Seq(Blocks) /\ Len(B) > 0
    BY <1>2, StateFields
  <2>2. Len(B) = n + 1 /\ n \in Nat
    BY <1>2
  <2> HIDE DEF B
  <2>3. Last(B) = B[Len(B)]
    BY <2>1, LastFront
  <2> QED  BY <2>1, <2>2, <2>3
<1>5. UnwoundTo(pl, pl, i)
  BY <1>2 DEF UnwoundTo, Prefix, Aside
<1>6. /\ o \in 1 .. Len(pl.scopestack) /\ pl.scopestack[o] = m /\ m <= Len(pl.savestack)
      /\ \A j \in 1 .. i - 1 : B[j].oldscopesp <= o - 1
  <2>1. LET oo == pl.cxs[i].oldscopesp
        IN  /\ oo \in 1 .. Len(pl.scopestack) /\ pl.scopestack[oo] = SavesTo(pl.cxs, i - 1)
            /\ SavesTo(pl.cxs, i - 1) <= Len(pl.savestack)
            /\ \A j \in 1 .. i - 1 : pl.cxs[j].oldscopesp <= oo - 1
    BY <1>2, <1>4, <1>5, LeaveReady
  <2> QED  BY <1>4, <2>1
<1>7. o \in Nat \ {0} /\ o <= Len(pl.scopestack)
  <2>1. Len(pl.scopestack) \in Nat
    BY <1>2, StateFields, LenProperties
  <2> HIDE DEF o
  <2> QED  BY <1>6, <2>1
<1>8. /\ t2 \in State /\ t2.cxs = Front(B) /\ Prefix(pl.scopestack, t2.scopestack, o)
      /\ t2.si = pl.si /\ t2.savestack = pl.savestack /\ t2.top_env = pl.top_env
      /\ t2.in_eval = pl.in_eval /\ t2.comppad = pl.comppad /\ t2.defav = pl.defav
      /\ t2.CvDEPTH = t1.CvDEPTH /\ t2.refcnt = t1.refcnt /\ t2.padlist = pl.padlist
      /\ t2.named = pl.named
  <2>1. Len(t1.cxs) > 0 /\ Last(t1.cxs).oldscopesp = o /\ o <= Len(t1.scopestack)
    BY <1>3, <1>4, <1>7
  <2> HIDE DEF o
  <2> QED  BY <1>3, <2>1, PopBlockFields
<1> HIDE DEF t2
<1>9. /\ t3 \in State /\ t3.cxs = t2.cxs /\ t3.si = Front(pl.si)
      /\ t3.savestack = t2.savestack /\ t3.scopestack = t2.scopestack
      /\ t3.top_env = t2.top_env /\ t3.in_eval = t2.in_eval /\ t3.comppad = t2.comppad
      /\ t3.defav = t2.defav /\ t3.CvDEPTH = t2.CvDEPTH /\ t3.refcnt = t2.refcnt
      /\ t3.padlist = t2.padlist /\ t3.named = t2.named
  <2>1. Len(Front(B)) = n
    <3>1. Len(Front(B)) = Len(B) - 1
      BY <1>4, LastFront
    <3> QED  BY <1>2, <3>1
  <2>2. Len(t2.si) > 0 /\ Len(t2.cxs) = Last(t2.si)
    BY <1>2, <1>8, <2>1 DEF cxbase, n
  <2> QED  BY <1>8, <2>2, PopStackFields
<1> HIDE DEF t3, v
<1> DEFINE e == 1 + Envs(cs, l)
<1>10. Envs(cs, l) \in Nat /\ e \in Nat /\ Len(pl.top_env) = e /\ e > 0
  <2>1. Envs(cs, l) \in Nat /\ Len(pl.top_env) = e
    BY <1>2, LevelsFields
  <2> QED  BY <2>1
<1>11. v = cs[l].oldcatch /\ v \in BOOLEAN
  <2>1. v = cs[l].oldcatch
    BY DEF Last, v
  <2> HIDE DEF l
  <2>2. cs[l] \in CFunctions
    BY <1>2, ElementOfSeq DEF l
  <2> QED  BY <2>1, <2>2 DEF CFunctions
<1>12. /\ t4 \in State /\ Len(t4.top_env) = e /\ t4.top_env[e] = v
       /\ \A x \in 1 .. e - 1 : t4.top_env[x] = pl.top_env[x]
       /\ t4.cxs = t3.cxs /\ t4.si = t3.si /\ t4.savestack = t3.savestack
       /\ t4.scopestack = t3.scopestack /\ t4.in_eval = t3.in_eval
       /\ t4.comppad = t3.comppad /\ t4.defav = t3.defav /\ t4.CvDEPTH = t3.CvDEPTH
       /\ t4.refcnt = t3.refcnt /\ t4.padlist = t3.padlist /\ t4.named = t3.named
  <2>1. t3.top_env = pl.top_env /\ Len(t3.top_env) = e /\ Len(t3.top_env) > 0
    BY <1>8, <1>9, <1>10
  <2> HIDE DEF e
  <2>2. /\ t4 \in State /\ Len(t4.top_env) = e /\ t4.top_env[e] = v
        /\ \A x \in 1 .. e - 1 : t4.top_env[x] = t3.top_env[x]
        /\ t4.cxs = t3.cxs /\ t4.si = t3.si /\ t4.savestack = t3.savestack
        /\ t4.scopestack = t3.scopestack /\ t4.in_eval = t3.in_eval
        /\ t4.comppad = t3.comppad /\ t4.defav = t3.defav /\ t4.CvDEPTH = t3.CvDEPTH
        /\ t4.refcnt = t3.refcnt /\ t4.padlist = t3.padlist /\ t4.named = t3.named
    BY <1>9, <1>11, <2>1, CatchSetFields, ZenonT(60)
  <2> HIDE DEF t4
  <2> QED  BY <2>1, <2>2
<1> HIDE DEF t4, o, m
<1>13. /\ ScopeLeft(t4, t5, m) /\ t5.scopestack = Front(t4.scopestack)
       /\ Len(t4.scopestack) = o /\ \A x \in 1 .. o : t4.scopestack[x] = pl.scopestack[x]
       /\ t4.scopestack \in Seq(Nat) /\ Len(t4.scopestack) > 0
  <2>1. /\ Len(t4.scopestack) = o /\ \A x \in 1 .. o : t4.scopestack[x] = pl.scopestack[x]
        /\ t4.scopestack \in Seq(Nat) /\ Len(t4.scopestack) > 0
    BY <1>7, <1>8, <1>9, <1>12, StateFields DEF Prefix
  <2>2. Last(t4.scopestack) = m /\ m <= Len(t4.savestack)
    BY <1>6, <1>7, <1>8, <1>9, <1>12, <2>1 DEF Last
  <2> QED  BY <1>12, <2>1, <2>2, LeaveFields
<1> HIDE DEF t5
<1>14. Prefix(pl.scopestack, t5.scopestack, o - 1)
  <2>1. /\ Len(Front(t4.scopestack)) = o - 1
        /\ \A x \in 1 .. o - 1 : Front(t4.scopestack)[x] = t4.scopestack[x]
    BY <1>13, LastFront
  <2> QED  BY <1>7, <1>13, <2>1 DEF Prefix
<1>15. /\ t5 \in State /\ t5.cxs = u.cxs /\ t5.CvDEPTH = u.CvDEPTH /\ t5.defav = u.defav
       /\ t5.in_eval = u.in_eval /\ t5.named = u.named
       /\ Prefix(pl.savestack, t5.savestack, m) /\ PadLeft(pl.savestack, m, pl.comppad, t5.comppad)
       /\ t5.padlist = pl.padlist /\ t5.si = Front(pl.si) /\ t5.top_env = t4.top_env
       /\ \A c \in Cvs : Due(t5, c) = Due(t4, c)
  BY <1>3, <1>8, <1>9, <1>12, <1>13 DEF ScopeLeft, Apart
<1>16. \A c \in Cvs : Due(t4, c) = Due(u, c)
  BY <1>3, <1>8, <1>9, <1>12 DEF Due
<1>17. Leaves(pl, t5, m, o - 1)
  BY <1>14, <1>15, <1>16 DEF Leaves, u
<1> DEFINE s == o - 1
<1>18. s \in Nat /\ s < o
  BY <1>7
<1> HIDE DEF s
<1>19. Inv(t5, SubSeq(cs, 1, l - 1))
  <2>1. /\ s < pl.cxs[i].oldscopesp /\ Leaves(pl, t5, SavesTo(pl.cxs, i - 1), s)
        /\ \A j \in 1 .. i - 1 : pl.cxs[j].oldscopesp <= s
    BY <1>4, <1>6, <1>17, <1>18 DEF o, m, s
  <2>2. /\ t5.si = Front(pl.si) /\ Len(t5.top_env) = 1 + Envs(c_stack, l)
        /\ \A x \in 1 .. Envs(c_stack, l) : t5.top_env[x] = pl.top_env[x]
        /\ t5.top_env[1 + Envs(c_stack, l)] = c_stack[l].oldcatch
    BY <1>10, <1>11, <1>12, <1>15
  <2> QED  BY <1>2, <1>4, <1>5, <1>18, <2>1, <2>2, CallbackLeft DEF n
<1>20. Front(cs) = SubSeq(cs, 1, l - 1)
  BY DEF Front
<1> QED  BY <1>1, <1>19, <1>20 DEF IInv

-----------------------------------------------------------------------------
(* die and exit.                                                           *)

\* Where a die goes to: the last eval, on the n-th stack, in its run loop.
LEMMA DieTo ==
  ASSUME pl \in State, Books(pl), Stacks(pl), Levels(pl, c_stack), c_stack # <<>>, pl.in_eval
  PROVE  LET B == pl.cxs
             e == Max(Evals)
             n == Max({k \in DOMAIN pl.si : pl.si[k] < e})
             l == B[e].cx.loop
         IN  /\ e \in 1 .. Len(B) /\ B[e].cx.type = "EVAL"
             /\ l \in 1 .. Len(c_stack) /\ HasEnv(c_stack[l])
             /\ B[e].cx.cur_top_env = 1 + Envs(c_stack, l)
             /\ FrameOf(B[e].cx.cur_top_env) = l
             /\ n \in 1 .. Len(pl.si) /\ n = 1 + Calls(c_stack, l)
             /\ \A j \in 2 .. n : pl.si[j] < e - 1
             /\ e <= Kept(pl, n)
             /\ \A j \in EvalsTo(B, e - 1) : B[j].cx.loop <= l
<1> DEFINE B  == pl.cxs
           cs == c_stack
           e  == Max(Evals)
           S  == {k \in DOMAIN pl.si : pl.si[k] < e}
           n  == Max(S)
           l  == B[e].cx.loop
           m  == Len(pl.si)
<1>1. /\ B \in Seq(Blocks) /\ Len(B) \in Nat /\ pl.si \in Seq(Nat) /\ m \in Nat /\ m >= 1
      /\ DOMAIN B = 1 .. Len(B) /\ DOMAIN pl.si = 1 .. m
      /\ \A k \in 1 .. m : pl.si[k] \in Nat
  BY Bottom, LenProperties
<1>2. /\ cs \in Seq(CFunctions) /\ Len(cs) \in Nat /\ m = 1 + Calls(cs, Len(cs))
      /\ Looped(B, pl.si, cs) /\ DOMAIN cs = 1 .. Len(cs)
  BY LevelsFields, LenProperties
<1>3. Evals = EvalsTo(B, Len(B)) /\ Evals # {}
  <2>1. Evals = EvalsTo(B, Len(B))
    BY <1>1 DEF Evals, EvalsTo
  <2>2. EvalsTo(B, Len(B)) # {}
    BY DEF Books
  <2> QED  BY <2>1, <2>2
<1>4. e \in Evals /\ e \in 1 .. Len(B)
  <2>1. Evals \in SUBSET (1 .. Len(B))
    BY <1>3 DEF EvalsTo
  <2> QED  BY <1>1, <1>3, <2>1, Largest
<1>5. B[e].cx.type = "EVAL" /\ LoopedAt(B, pl.si, cs, e)
  BY <1>2, <1>3, <1>4 DEF Looped, EvalsTo
<1> HIDE DEF e, B
<1>6. /\ l \in 1 .. Len(cs) /\ HasEnv(cs[l]) /\ B[e].cx.cur_top_env = 1 + Envs(cs, l)
      /\ \A k \in 1 .. m : pl.si[k] < e <=> k <= 1 + Calls(cs, l)
      /\ \A j \in EvalsTo(B, e) : B[j].cx.loop <= l
  BY <1>5 DEF LoopedAt
<1> HIDE DEF l
<1> DEFINE c == 1 + Calls(cs, l)
<1>7. c \in Nat /\ c >= 1 /\ c <= m
  <2>1. l \in Int /\ Len(cs) \in Int /\ l <= Len(cs)
    BY <1>2, <1>6
  <2>2. /\ Calls(cs, l) \in Nat /\ Calls(cs, Len(cs)) \in Nat /\ Calls(cs, l) <= Calls(cs, Len(cs))
    BY <2>1, CountTypes, CountMore
  <2> QED  BY <1>2, <2>2
<1>8. c \in S /\ S \in SUBSET (1 .. m) /\ \A k \in S : k <= c
  <2> HIDE DEF m
  <2>1. c \in 1 .. m /\ c <= c
    BY <1>1, <1>7
  <2> QED  BY <1>1, <1>6, <2>1
<1> HIDE DEF S, c
<1>9. n = c
  <2>1. n \in S /\ n \in 1 .. m /\ \A k \in S : k <= n
    BY <1>1, <1>8, Largest
  <2> HIDE DEF n, m
  <2> QED  BY <1>7, <1>8, <2>1
<1> HIDE DEF n, m
<1>10. n \in 1 .. m /\ n = 1 + Calls(cs, l) /\ n \in Nat
  BY <1>1, <1>7, <1>9 DEF c
<1>11. ASSUME NEW j \in 2 .. n
       PROVE  pl.si[j] < e - 1
  <2>1. j \in 2 .. m /\ j \in 1 .. m /\ j <= 1 + Calls(cs, l)
    BY <1>1, <1>10
  <2>2. pl.si[j] < e /\ pl.si[j] \in Nat /\ e \in Nat
    BY <1>1, <1>4, <1>6, <2>1
  <2>3. B[pl.si[j] + 1].cx.type = "SUB"
    BY <2>1 DEF Stacks, Stacked, B, m
  <2>4. pl.si[j] + 1 # e
    BY <1>5, <2>3
  <2> QED  BY <2>2, <2>4
<1>12. e <= Kept(pl, n)
  <2>1. CASE n = m
    BY <1>4, <2>1 DEF Kept, m, B
  <2>2. CASE n # m
    <3>1. n + 1 \in 1 .. m /\ ~(n + 1 <= 1 + Calls(cs, l))
      BY <1>1, <1>10, <2>2
    <3>2. ~(pl.si[n + 1] < e) /\ pl.si[n + 1] \in Nat /\ e \in Nat
      BY <1>1, <1>4, <1>6, <3>1
    <3> QED  BY <2>2, <3>2 DEF Kept, m
  <2> QED  BY <2>1, <2>2
<1>13. FrameOf(B[e].cx.cur_top_env) = l
  BY <1>2, <1>6, FrameOfIs
<1>14. \A j \in EvalsTo(B, e - 1) : B[j].cx.loop <= l
  <2>1. \A j \in EvalsTo(B, e - 1) : j \in EvalsTo(B, e)
    BY <1>4 DEF EvalsTo
  <2> QED  BY <1>6, <2>1
<1> QED  BY <1>4, <1>5, <1>6, <1>10, <1>11, <1>12, <1>13, <1>14 DEF l, m, n, S, B, e

LEMMA DieKeeps ==
  ASSUME IInv, Die
  PROVE  IInv'
<1> DEFINE B  == pl.cxs
           cs == c_stack
           e  == Max(Evals)
           n  == Max({k \in DOMAIN pl.si : pl.si[k] < e})
           l  == B[e].cx.loop
           k  == B[e].cx.cur_top_env
           a  == POPSTACK_TO(pl, n)
           q  == dounwind(a, e)
           t  == LEAVE(POPEVAL(POPBLOCK(q), B[e].cx))
           r  == JMPENV_JUMP(t, k)
           ds == SubSeq(cs, 1, l)
           o  == B[e].oldscopesp
           m  == SavesTo(B, e - 1)
<1>1. /\ cs # <<>> /\ pl.in_eval
      /\ pl \in State /\ Books(pl) /\ Saved(pl) /\ Stacks(pl) /\ Levels(pl, cs)
  BY DEF IInv, Inv, Die, Books
<1>2. /\ e \in 1 .. Len(B) /\ B[e].cx.type = "EVAL"
      /\ l \in 1 .. Len(cs) /\ HasEnv(cs[l]) /\ k = 1 + Envs(cs, l) /\ FrameOf(k) = l
      /\ n \in 1 .. Len(pl.si) /\ n = 1 + Calls(cs, l)
      /\ \A j \in 2 .. n : pl.si[j] < e - 1
      /\ e <= Kept(pl, n)
      /\ \A j \in EvalsTo(B, e - 1) : B[j].cx.loop <= l
  BY <1>1, DieTo
<1>3. /\ pl' = JMPENV_JUMP(LEAVE(POPEVAL(POPBLOCK(q), Last(q.cxs).cx)), Last(q.cxs).cx.cur_top_env)
      /\ c_stack' = SubSeq(c_stack, 1, FrameOf(Last(q.cxs).cx.cur_top_env))
  BY DEF Die
<1> HIDE DEF e, n
<1>4. /\ Len(B) \in Nat /\ B \in Seq(Blocks) /\ e \in Nat /\ e <= Len(B) /\ e - 1 \in Nat
      /\ e - 1 <= Len(B) /\ Len(cs) \in Nat /\ cs \in Seq(CFunctions)
      /\ Len(pl.top_env) = 1 + Envs(cs, Len(cs)) /\ pl.top_env \in Seq(BOOLEAN)
  <2>1. B \in Seq(Blocks) /\ pl.top_env \in Seq(BOOLEAN)
    BY <1>1, StateFields
  <2>2. Len(B) \in Nat
    BY <2>1, LenProperties
  <2>3. /\ Len(cs) \in Nat /\ cs \in Seq(CFunctions)
        /\ Len(pl.top_env) = 1 + Envs(cs, Len(cs))
    BY <1>1, LevelsFields
  <2> HIDE DEF B
  <2>4. e \in Nat /\ e <= Len(B) /\ e - 1 \in Nat /\ e - 1 <= Len(B)
    BY <1>2, <2>2
  <2> QED  BY <2>1, <2>2, <2>3, <2>4 DEF B
<1>5. StacksLeft(pl, a, n)
  BY <1>1, <1>2, PopStackKeeps DEF Stacks
<1> HIDE DEF a
<1>6. UnwoundTo(pl, q, e) /\ Prefix(pl.si, q.si, n) /\ q.top_env = pl.top_env
  <2>1. Books(a) /\ Prefix(B, a.cxs, Kept(pl, n)) /\ Prefix(pl.si, a.si, n) /\ Aside(pl, a)
    BY <1>5 DEF StacksLeft
  <2>2. Kept(pl, n) \in Nat
    BY <1>1, <1>2, StackBounds DEF Stacks
  <2>3. e <= Len(a.cxs) /\ \A j \in 1 .. e : a.cxs[j] = B[j]
    <3>1. \A j \in 1 .. e : j \in 1 .. Kept(pl, n)
      BY <1>2, <1>4, <2>2, SMTT(30)
    <3> QED  BY <1>2, <2>1, <3>1 DEF Prefix
  <2>4. Books(q) /\ Prefix(a.cxs, q.cxs, e) /\ q.si = a.si /\ Aside(a, q)
    BY <1>4, <2>1, <2>3, UnwindKeeps
  <2> HIDE DEF q
  <2>5. Prefix(B, q.cxs, e)
    BY <2>3, <2>4 DEF Prefix
  <2>6. Aside(pl, q)
    BY <2>1, <2>4 DEF Aside
  <2>7. Prefix(pl.si, q.si, n) /\ q.top_env = pl.top_env
    BY <2>1, <2>4, <2>6 DEF Aside
  <2> QED  BY <2>4, <2>5, <2>6, <2>7 DEF UnwoundTo
<1> HIDE DEF q
<1>7. /\ Last(q.cxs) = B[e] /\ Leaves(q, t, m, o - 1) /\ t.si = q.si /\ t.top_env = q.top_env
  <2>1. e \in 1 .. Len(pl.cxs) /\ pl.cxs[e].cx.type = "EVAL" /\ Saved(pl) /\ pl \in State
    BY <1>1, <1>2
  <2>2. UnwoundTo(pl, q, e)
    BY <1>6
  <2> QED  BY <2>1, <2>2, Leaving
<1>8. pl' = r /\ c_stack' = ds
  BY <1>2, <1>3, <1>7
<1> HIDE DEF t
<1> DEFINE s == o - 1
<1>9. s \in Nat /\ s < o /\ \A j \in 1 .. e - 1 : B[j].oldscopesp <= s
  <2>1. o \in 1 .. Len(q.scopestack) /\ \A j \in 1 .. e - 1 : B[j].oldscopesp <= o - 1
    BY <1>1, <1>2, <1>6, LeaveReady
  <2>2. o \in Nat
    <3>1. B[e] \in Blocks
      BY <1>2, <1>4, ElementOfSeq
    <3> QED  BY <3>1, BlockTypes
  <2> HIDE DEF o
  <2> QED  BY <2>1, <2>2
<1> HIDE DEF s
<1>10. Books(t) /\ Saved(t) /\ Remains(pl, t, e - 1, s)
  <2>1. Leaves(q, t, m, s)
    BY <1>7 DEF s
  <2> QED  BY <1>1, <1>2, <1>6, <1>9, <2>1, ContextLeft
<1>11. t \in State /\ Prefix(pl.si, t.si, n) /\ t.top_env = pl.top_env
  BY <1>6, <1>7, <1>10 DEF Books
<1>12. Stacks(t)
  BY <1>1, <1>2, <1>4, <1>9, <1>10, <1>11, StacksRemain
<1> DEFINE x  == Envs(cs, l)
           te == pl.top_env
           tt == Append(SubSeq(te, 1, k - 1), FALSE)
<1>13. x \in Nat /\ x + 1 <= Len(te) /\ k - 1 = x
  <2>1. l \in Int /\ Len(cs) \in Int /\ l <= Len(cs)
    BY <1>2, <1>4, SMTT(30)
  <2>2. Envs(cs, l) \in Nat /\ Envs(cs, Len(cs)) \in Nat /\ Envs(cs, l) <= Envs(cs, Len(cs))
    BY <2>1, CountTypes, CountMore
  <2> DEFINE y == Envs(cs, Len(cs))
  <2>3. x \in Nat /\ y \in Nat /\ x <= y /\ k = 1 + x /\ Len(te) = 1 + y
    BY <1>2, <1>4, <2>2
  <2> HIDE DEF x, y, k, te
  <2> QED  BY <2>3
<1>14. /\ tt \in Seq(BOOLEAN) /\ Len(tt) = 1 + x /\ tt[1 + x] = FALSE
       /\ \A y \in 1 .. x : tt[y] = te[y]
  <2> DEFINE u == SubSeq(te, 1, x)
             v == FALSE
  <2>1. v \in BOOLEAN /\ tt = Append(u, v)
    BY <1>13
  <2> HIDE DEF te, tt, x
  <2>2. x <= Len(te) /\ te \in Seq(BOOLEAN)
    <3>1. Len(te) \in Nat /\ te \in Seq(BOOLEAN)
      BY <1>4, LenProperties DEF te
    <3> QED  BY <1>13, <3>1
  <2>3. u \in Seq(BOOLEAN) /\ Len(u) = x /\ \A y \in 1 .. x : u[y] = te[y]
    BY <1>13, <2>2, CutSeq
  <2> HIDE DEF u, v
  <2>4. /\ tt \in Seq(BOOLEAN) /\ Len(tt) = x + 1 /\ tt[x + 1] = v
        /\ \A y \in 1 .. x : tt[y] = u[y]
    BY <2>1, <2>3, Appended
  <2>5. x + 1 = 1 + x
    BY <1>13
  <2> QED  BY <2>3, <2>4, <2>5 DEF v
<1>15. /\ r \in State /\ r.top_env = tt
       /\ r.cxs = t.cxs /\ r.si = t.si /\ r.savestack = t.savestack
       /\ r.scopestack = t.scopestack /\ r.in_eval = t.in_eval
       /\ r.comppad = t.comppad /\ r.defav = t.defav /\ r.CvDEPTH = t.CvDEPTH
       /\ r.refcnt = t.refcnt /\ r.padlist = t.padlist /\ r.named = t.named
  <2>1. r = [t EXCEPT !.top_env = tt]
    BY <1>11 DEF JMPENV_JUMP
  <2> HIDE DEF tt, r
  <2> QED  BY <1>11, <1>14, <2>1, SetTopEnv
<1> HIDE DEF r, tt, te, l, k, ds
<1>16. Books(r) /\ Saved(r) /\ Stacks(r)
  BY <1>10, <1>12, <1>15, BooksSame, SavedSame, StacksSame
<1>17. /\ ds \in Seq(CFunctions) /\ Len(ds) = l /\ \A j \in 1 .. l : ds[j] = cs[j]
       /\ l \in Nat /\ l >= 1 /\ l <= Len(cs)
  <2>1. l \in Nat /\ l >= 1 /\ l <= Len(cs)
    BY <1>2, <1>4
  <2> QED  BY <1>4, <2>1, CutSeq DEF ds
<1>18. \A j \in 1 .. l : cs[j].running
  <2> SUFFICES ASSUME NEW j \in 1 .. l
               PROVE  cs[j].running
    OBVIOUS
  <2>1. j \in 1 .. Len(cs) /\ (j < Len(cs) \/ j = l)
    BY <1>4, <1>17
  <2>2. j < Len(cs) \/ HasEnv(cs[j])
    BY <1>2, <2>1
  <2> QED  BY <1>1, <2>1, <2>2 DEF Levels
<1>19. Levels(r, ds)
  <2>1. Prefix(B, r.cxs, e - 1) /\ Prefix(pl.si, r.si, 1 + Calls(cs, l))
    BY <1>2, <1>10, <1>11, <1>15 DEF Remains
  <2>2. /\ Len(r.top_env) = 1 + Envs(cs, l) /\ r.top_env[1 + Envs(cs, l)] = ~HasEnv(cs[l])
        /\ \A y \in 1 .. Envs(cs, l) : r.top_env[y] = pl.top_env[y]
    <3>1. FALSE = ~HasEnv(cs[l])
      BY <1>2
    <3> QED  BY <1>14, <1>15, <3>1 DEF te
  <2>3. \A j \in 1 .. l : /\ HasEnv(ds[j]) = HasEnv(cs[j]) /\ ds[j].oldcatch = cs[j].oldcatch
                          /\ j < l \/ HasEnv(ds[j]) => ds[j].running
    BY <1>17, <1>18
  <2>4. ds[l].running
    BY <1>17, <1>18
  <2> HIDE DEF x
  <2> QED  BY <1>1, <1>2, <1>4, <1>15, <1>17, <2>1, <2>2, <2>3, <2>4, LevelsCut, ZenonT(60)
<1> QED  BY <1>8, <1>16, <1>19 DEF IInv, Inv

LEMMA ExitKeeps ==
  ASSUME IInv, Exit
  PROVE  IInv'
<1> DEFINE B  == pl.cxs
           a  == POPSTACK_TO(pl, 1)
           q  == dounwind(a, 0)
           u  == LEAVE_SCOPE(q, 0)
           j  == JMPENV_JUMP(u, 2)
           v  == JMPENV_POP(j)
           r  == [v EXCEPT !.scopestack = <<>>]
<1>1. /\ c_stack # <<>> /\ pl' = r /\ c_stack' = <<>>
      /\ pl \in State /\ Books(pl) /\ Saved(pl) /\ Stacks(pl) /\ Levels(pl, c_stack)
  BY DEF IInv, Inv, Exit, Books
<1>2. Len(B) \in Nat /\ Len(pl.si) \in Nat /\ Len(pl.si) >= 1
  BY <1>1, Bottom
<1>3. StacksLeft(pl, a, 1)
  <2>1. 1 \in 1 .. Len(pl.si)
    BY <1>2
  <2> QED  BY <1>1, <2>1, PopStackKeeps DEF Stacks
<1> HIDE DEF a
<1>4. Books(q) /\ Len(q.cxs) = 0 /\ Prefix(pl.si, q.si, 1) /\ Aside(pl, q) /\ q \in State
  <2>1. Books(a) /\ Prefix(pl.si, a.si, 1) /\ Aside(pl, a) /\ Len(a.cxs) \in Nat
    <3>1. Books(a) /\ Prefix(pl.si, a.si, 1) /\ Aside(pl, a)
      BY <1>3 DEF StacksLeft
    <3> QED  BY <3>1, StateFields, LenProperties DEF Books
  <2>2. 0 <= Len(a.cxs)
    BY <2>1
  <2>3. Books(q) /\ Prefix(a.cxs, q.cxs, 0) /\ q.si = a.si /\ Aside(a, q)
    BY <2>1, <2>2, UnwindKeeps
  <2> HIDE DEF q
  <2>4. Aside(pl, q)
    BY <2>1, <2>3 DEF Aside
  <2> QED  BY <2>1, <2>3, <2>4 DEF Prefix, Books
<1> HIDE DEF q
<1>5. ScopeLeft(q, u, 0)
  <2>1. Len(q.savestack) \in Nat
    BY <1>4, StateFields, LenProperties
  <2>2. 0 <= Len(q.savestack)
    BY <2>1
  <2> QED  BY <1>4, <2>2, LeaveScopeKeeps
<1> HIDE DEF u
<1>6. /\ u \in State /\ Len(u.savestack) = 0 /\ u.cxs = q.cxs /\ u.si = q.si
      /\ u.top_env = pl.top_env /\ u.padlist = pl.padlist /\ u.defav = q.defav
      /\ u.in_eval = q.in_eval /\ u.CvDEPTH = q.CvDEPTH /\ u.named = q.named
      /\ PadLeft(pl.savestack, 0, pl.comppad, u.comppad)
      /\ \A cv \in Cvs : Due(u, cv) = Due(q, cv)
  BY <1>4, <1>5 DEF ScopeLeft, Apart, Aside, Prefix
<1>7. Books(u)
  BY <1>4, <1>6, BooksDue
<1> DEFINE te == u.top_env
           t1 == SubSeq(te, 1, 1)
           f  == FALSE
           t2 == Append(t1, f)
<1>8. te \in Seq(BOOLEAN) /\ 1 <= Len(te)
  <2>1. Len(te) = 1 + Envs(c_stack, Len(c_stack)) /\ Envs(c_stack, Len(c_stack)) \in Nat
    BY <1>1, <1>6, LevelsFields
  <2>2. te \in Seq(BOOLEAN)
    BY <1>6, StateFields
  <2> DEFINE k == Envs(c_stack, Len(c_stack))
  <2> HIDE DEF te, k
  <2> QED  BY <2>1, <2>2 DEF k
<1>9. j = [u EXCEPT !.top_env = t2]
  <2>1. 2 - 1 = 1
    OBVIOUS
  <2> QED  BY <2>1 DEF JMPENV_JUMP
<1> HIDE DEF te
<1>10. t1 \in Seq(BOOLEAN) /\ f \in BOOLEAN
  BY <1>8, CutSeq
<1> HIDE DEF t1, f
<1>11. t2 \in Seq(BOOLEAN) /\ Len(t2) > 0
  <2>1. t2 \in Seq(BOOLEAN) /\ Len(t2) = Len(t1) + 1 /\ Len(t1) \in Nat
    BY <1>10, Appended
  <2> HIDE DEF t2
  <2> QED  BY <2>1
<1> HIDE DEF t2, j
<1>12. /\ j \in State /\ j.top_env = t2
       /\ j.cxs = u.cxs /\ j.si = u.si /\ j.savestack = u.savestack
       /\ j.in_eval = u.in_eval /\ j.comppad = u.comppad /\ j.defav = u.defav
       /\ j.CvDEPTH = u.CvDEPTH /\ j.refcnt = u.refcnt /\ j.padlist = u.padlist
       /\ j.named = u.named
  BY <1>6, <1>9, <1>11, SetTopEnv
<1> DEFINE tf == Front(j.top_env)
<1>13. v = [j EXCEPT !.top_env = tf]
  BY DEF JMPENV_POP
<1>14. tf \in Seq(BOOLEAN)
  BY <1>11, <1>12, LastFront
<1> HIDE DEF tf, v
<1>15. /\ v \in State
       /\ v.cxs = u.cxs /\ v.si = u.si /\ v.savestack = u.savestack
       /\ v.in_eval = u.in_eval /\ v.comppad = u.comppad /\ v.defav = u.defav
       /\ v.CvDEPTH = u.CvDEPTH /\ v.refcnt = u.refcnt /\ v.padlist = u.padlist
       /\ v.named = u.named
  BY <1>12, <1>13, <1>14, SetTopEnv
<1> DEFINE w == <<>>
<1>16. w \in Seq(Nat) /\ Len(w) = 0 /\ r = [v EXCEPT !.scopestack = w]
  OBVIOUS
<1> HIDE DEF w, r
<1>17. /\ r \in State /\ Len(r.scopestack) = 0
       /\ r.cxs = u.cxs /\ r.si = u.si /\ r.savestack = u.savestack
       /\ r.in_eval = u.in_eval /\ r.comppad = u.comppad /\ r.defav = u.defav
       /\ r.CvDEPTH = u.CvDEPTH /\ r.refcnt = u.refcnt /\ r.padlist = u.padlist
       /\ r.named = u.named
  BY <1>15, <1>16, SetScopestack, ZenonT(60)
<1>18. Books(r)
  BY <1>7, <1>17, BooksSame
<1>19. Remains(pl, r, 0, 0)
  <2>1. Len(r.cxs) = 0 /\ Len(r.scopestack) = 0 /\ r.padlist = pl.padlist
    BY <1>4, <1>6, <1>17
  <2>2. \A i \in 1 .. 0 : FALSE
    OBVIOUS
  <2> QED  BY <2>1, <2>2 DEF Remains, Prefix
<1>20. SavesTo(B, 0) = 0
  <2>1. SubsTo(B, 0) = {} /\ FirstsTo(B, 0) = {}
    BY DEF SubsTo, FirstsTo
  <2>2. Cardinality({}) = 0
    BY FS_EmptySet
  <2> QED  BY <2>1, <2>2 DEF SavesTo
<1>21. r.comppad = PadIn(B, SubsTo(B, 0))
  <2>1. 0 <= Len(B)
    BY <1>2
  <2> QED  BY <1>1, <1>6, <1>17, <1>20, <2>1, PadRestored
<1>22. Saved(r)
  <2>1. 0 <= Len(B) /\ 0 <= Len(pl.scopestack) /\ \A i \in 1 .. 0 : FALSE
    <3>1. Len(pl.scopestack) \in Nat
      BY <1>1, StateFields, LenProperties
    <3> QED  BY <1>2, <3>1
  <2>2. Prefix(pl.savestack, r.savestack, SavesTo(B, 0))
    BY <1>6, <1>17, <1>20, <2>1 DEF Prefix
  <2>3. \A i \in 1 .. 0 : pl.scopestack[i] <= SavesTo(B, 0)
    BY <2>1
  <2> QED  BY <1>1, <1>17, <1>19, <1>21, <2>1, <2>2, <2>3, SavedRemains
<1>23. Stacks(r)
  <2> DEFINE z == 0
             k == 1
  <2>1. z \in Nat /\ z <= Len(B) /\ k \in 1 .. Len(pl.si) /\ \A i \in 2 .. k : pl.si[i] < z
    BY <1>2
  <2>2. Prefix(pl.si, r.si, k) /\ Remains(pl, r, z, z)
    BY <1>4, <1>6, <1>17, <1>19
  <2> HIDE DEF z, k
  <2> QED  BY <1>1, <1>17, <2>1, <2>2, StacksRemain
<1>24. Levels(r, <<>>)
  <2>1. r.cxs = <<>>
    <3>1. r.cxs \in Seq(Blocks) /\ Len(r.cxs) = 0
      BY <1>4, <1>6, <1>17, StateFields
    <3> QED  BY <3>1, EmptySeq
  <2>2. Len(r.si) = 1
    BY <1>4, <1>6, <1>17 DEF Prefix
  <2>3. <<>> \in Seq(CFunctions)
    OBVIOUS
  <2> QED  BY <2>1, <2>2, <2>3 DEF Levels
<1> QED  BY <1>1, <1>18, <1>22, <1>23, <1>24 DEF IInv, Inv

-----------------------------------------------------------------------------
(* The invariant, and what it says.                                        *)

LEMMA InitBooks ==
  ASSUME Init
  PROVE  Books(pl) /\ Saved(pl) /\ Stacks(pl)
<1> DEFINE B == pl.cxs
<1>1. /\ B = <<>> /\ pl.si = <<0>> /\ pl.savestack = <<>> /\ pl.scopestack = <<>>
      /\ pl.in_eval = FALSE /\ pl.comppad = Main /\ pl.defav = Main
      /\ \A cv \in Cvs : /\ pl.CvDEPTH[cv] = 0 /\ pl.refcnt[cv] = 1
                         /\ pl.padlist[cv] = 1 /\ pl.named[cv] = TRUE
  BY DEF Init
<1>2. pl \in State
  <2>1. /\ <<>> \in Seq(Blocks) /\ <<0>> \in Seq(Nat) /\ <<>> \in Seq(Saves) /\ <<>> \in Seq(Nat)
        /\ <<TRUE, FALSE>> \in Seq(BOOLEAN) /\ Main \in Pads
        /\ [cv \in Cvs |-> 0] \in [Cvs -> Int] /\ [cv \in Cvs |-> 1] \in [Cvs -> Int]
        /\ [cv \in Cvs |-> 1] \in [Cvs -> Nat] /\ [cv \in Cvs |-> TRUE] \in [Cvs -> BOOLEAN]
    BY DEF Pads
  <2> HIDE DEF B
  <2> QED  BY <2>1 DEF Init, State
<1>3. Len(B) = 0 /\ Len(pl.savestack) = 0 /\ Len(pl.scopestack) = 0 /\ Len(pl.si) = 1
  BY <1>1
<1>4. /\ SubsTo(B, 0) = {} /\ ArgsTo(B, 0) = {} /\ FirstsTo(B, 0) = {} /\ EvalsTo(B, 0) = {}
      /\ \A cv : FramesTo(B, cv, 0) = {}
  BY DEF SubsTo, ArgsTo, FirstsTo, EvalsTo, FramesTo
<1>5. Cardinality({}) = 0
  BY FS_EmptySet
<1>6. SavesTo(B, 0) = 0 /\ \A S : S = {} => PadIn(B, S) = Main
  BY <1>4, <1>5 DEF SavesTo, PadIn
<1>7. \A cv : Frees(pl.savestack, cv) = {}
  BY <1>3 DEF Frees
<1> HIDE DEF B
<1>8. Books(pl)
  <2>1. \A cv \in Cvs :
          /\ pl.CvDEPTH[cv] = Cardinality(FramesTo(B, cv, Len(B)))
          /\ pl.refcnt[cv] =
               Refs(pl.named[cv], Cardinality(FramesTo(B, cv, Len(B))), pl.savestack, cv)
    <3> SUFFICES ASSUME NEW cv \in Cvs
                 PROVE  /\ pl.CvDEPTH[cv] = Cardinality(FramesTo(B, cv, Len(B)))
                        /\ pl.refcnt[cv] = Refs(pl.named[cv], Cardinality(FramesTo(B, cv, Len(B))),
                                                pl.savestack, cv)
      OBVIOUS
    <3>1. Cardinality(FramesTo(B, cv, Len(B))) = 0 /\ Cardinality(Frees(pl.savestack, cv)) = 0
      BY <1>3, <1>4, <1>5, <1>7, Zenon
    <3>2. pl.CvDEPTH[cv] = 0 /\ pl.refcnt[cv] = 1 /\ pl.named[cv] = TRUE
      BY <1>1
    <3>3. Refs(TRUE, 0, pl.savestack, cv) = 1
      BY <3>1 DEF Refs
    <3> QED  BY <3>1, <3>2, <3>3
  <2>2. /\ Remembers(B) /\ pl.defav = PadIn(B, ArgsTo(B, Len(B)))
        /\ pl.in_eval = (EvalsTo(B, Len(B)) # {})
    <3>1. ArgsTo(B, Len(B)) = {} /\ EvalsTo(B, Len(B)) = {}
      BY <1>3, <1>4, Zenon
    <3>2. Remembers(B)
      BY <1>3 DEF Remembers
    <3>3. pl.in_eval = (EvalsTo(B, Len(B)) # {})
      BY <1>1, <3>1
    <3> QED  BY <1>1, <1>6, <3>1, <3>2, <3>3
  <2> QED  BY <1>2, <2>1, <2>2 DEF Books, B
<1>9. Saved(pl)
  <2>1. Scoped(B, pl.scopestack)
    BY <1>3 DEF Scoped
  <2>2. Len(pl.savestack) = SavesTo(B, Len(B)) /\ pl.comppad = PadIn(B, SubsTo(B, Len(B)))
    BY <1>1, <1>3, <1>4, <1>6
  <2>3. SubsTo(B, Len(B)) = {} /\ \A cv \in Cvs : pl.padlist[cv] >= 1
    BY <1>1, <1>3, <1>4
  <2> QED  BY <1>3, <2>1, <2>2, <2>3 DEF Saved, B
<1>10. Stacks(pl)
  <2>1. pl.si # <<>> /\ pl.si[1] = 0 /\ \A k \in 2 .. Len(pl.si) : FALSE
    BY <1>1, <1>3
  <2> QED  BY <2>1 DEF Stacks, Stacked
<1> QED  BY <1>8, <1>9, <1>10

LEMMA InitIInv == Init => IInv
<1> SUFFICES ASSUME Init
             PROVE  IInv
  OBVIOUS
<1> DEFINE f  == [kind |-> "run", running |-> TRUE, oldcatch |-> TRUE]
           cs == c_stack
<1>1. /\ cs = <<f>> /\ pl.cxs = <<>> /\ Len(pl.si) = 1 /\ pl.top_env = <<TRUE, FALSE>>
      /\ Len(cs) = 1 /\ cs[1] = f
  BY DEF Init
<1>2. f \in CFunctions /\ HasEnv(f) /\ f.running
  BY DEF CFunctions, HasEnv
<1> HIDE DEF f, cs
<1>3. cs \in Seq(CFunctions) /\ cs # <<>>
  BY <1>1, <1>2
<1>4. Envs(cs, 1) = 1 /\ Calls(cs, 1) = 0
  <2>1. {j \in 1 .. 1 : HasEnv(cs[j])} = {1} /\ {j \in 1 .. 1 : ~HasEnv(cs[j])} = {}
    BY <1>1, <1>2
  <2>2. Cardinality({1}) = 1 /\ Cardinality({}) = 0
    BY FS_EmptySet, FS_Singleton
  <2> QED  BY <2>1, <2>2 DEF Envs, Calls
<1>5. Environed(cs, pl.top_env)
  <2>1. Len(pl.top_env) = 2 /\ pl.top_env[2] = FALSE
    BY <1>1
  <2>2. \A i \in 1 .. Len(cs) : i = 1
    BY <1>1
  <2>3. Len(pl.top_env) = 1 + Envs(cs, Len(cs))
    BY <1>1, <1>4, <2>1
  <2>4. ~(1 < Len(cs)) /\ HasEnv(cs[1]) /\ pl.top_env[1 + Envs(cs, 1)] = FALSE
    <3>1. 1 + Envs(cs, 1) = 2
      BY <1>4
    <3>2. HasEnv(cs[1])
      BY <1>1, <1>2, Zenon
    <3>3. ~(1 < Len(cs))
      BY <1>1
    <3>4. pl.top_env[1 + Envs(cs, 1)] = FALSE
      BY <2>1, <3>1, Zenon
    <3> QED  BY <3>2, <3>3, <3>4
  <2> QED  BY <2>2, <2>3, <2>4 DEF Environed
<1>6. Looped(pl.cxs, pl.si, cs)
  BY <1>1 DEF Looped, EvalsTo
<1>7. Levels(pl, cs)
  BY <1>1, <1>2, <1>3, <1>4, <1>5, <1>6 DEF Levels
<1> QED  BY <1>7, InitBooks DEF IInv, Inv, cs

\* No step loses the invariant: neither the way things are left nor how far is left matters.
LEMMA NextIInv == IInv /\ [Next]_vars => IInv'
<1> SUFFICES ASSUME IInv, [Next]_vars
             PROVE  IInv'
  OBVIOUS
<1>1. ASSUME NEW cv \in Cvs, EnterSub(cv)
      PROVE  IInv'
  BY <1>1, EnterSubKeeps
<1>2. ASSUME NEW cv \in Cvs, CallSv(cv)
      PROVE  IInv'
  BY <1>2, CallSvKeeps
<1>3. ASSUME NEW cv \in Cvs, PUSH_MULTICALL(cv)
      PROVE  IInv'
  BY <1>3, MulticallPushKeeps
<1>4. ASSUME NEW cv \in Cvs, Forget(cv)
      PROVE  IInv'
  BY <1>4, ForgetKeeps
<1>5. CASE LeaveSub
  BY <1>5, LeaveSubKeeps
<1>6. CASE CallReturns
  BY <1>6, CallReturnsKeeps
<1>7. CASE MULTICALL
  BY <1>7, MulticallKeeps
<1>8. CASE MulticallReturns
  BY <1>8, MulticallReturnsKeeps
<1>9. CASE POP_MULTICALL
  BY <1>9, PopMulticallKeeps
<1>10. CASE EnterTry
  BY <1>10, EnterTryKeeps
<1>11. CASE LeaveTry
  BY <1>11, LeaveTryKeeps
<1>12. CASE EnterLoop
  BY <1>12, EnterLoopKeeps
<1>13. ASSUME NEW i \in 1 .. MaxContexts, LastOut(i)
       PROVE  IInv'
  BY <1>13, LastOutKeeps
<1>14. CASE Die
  BY <1>14, DieKeeps
<1>15. CASE Exit
  BY <1>15, ExitKeeps
<1>16. CASE UNCHANGED vars
  BY <1>16 DEF vars, IInv
<1> QED  BY <1>1, <1>2, <1>3, <1>4, <1>5, <1>6, <1>7, <1>8, <1>9, <1>10, <1>11, <1>12, <1>13,
            <1>14, <1>15, <1>16 DEF Next

\* In every state, each context has on the stacks what it needs to be left, and each C function
\* what it needs to return or to be jumped over.
THEOREM Invariant == Spec => []IInv
BY InitIInv, NextIInv, PTL DEF Spec

LEMMA TheParts ==
  ASSUME IInv
  PROVE  /\ pl \in State /\ Books(pl) /\ Saved(pl) /\ Stacks(pl) /\ Levels(pl, c_stack)
         /\ Evals = EvalsTo(pl.cxs, Len(pl.cxs)) /\ Subs = SubsTo(pl.cxs, Len(pl.cxs))
         /\ \A cv : Frames(cv) = FramesTo(pl.cxs, cv, Len(pl.cxs))
         /\ \A cv : FreesOf(cv) = Frees(pl.savestack, cv)
<1>1. /\ pl \in State /\ Books(pl) /\ Saved(pl) /\ Stacks(pl) /\ Levels(pl, c_stack)
  BY DEF IInv, Inv, Books
<1>2. DOMAIN pl.cxs = 1 .. Len(pl.cxs) /\ DOMAIN pl.savestack = 1 .. Len(pl.savestack)
  BY <1>1, StateFields, LenProperties
<1>3. Evals = EvalsTo(pl.cxs, Len(pl.cxs)) /\ Subs = SubsTo(pl.cxs, Len(pl.cxs))
  BY <1>2 DEF Evals, EvalsTo, Subs, SubsTo
<1>4. \A cv : Frames(cv) = FramesTo(pl.cxs, cv, Len(pl.cxs))
  BY <1>3 DEF Frames, FramesTo
<1>5. \A cv : FreesOf(cv) = Frees(pl.savestack, cv)
  BY <1>2 DEF FreesOf, Frees
<1> QED  BY <1>1, <1>3, <1>4, <1>5

LEMMA DepthsExact == IInv => DepthIsFrames
BY TheParts DEF DepthIsFrames, Books

\* While a sub runs, its first frame has had a reference saved.
LEMMA SavedReference ==
  ASSUME IInv, NEW cv \in Cvs, Frames(cv) # {}
  PROVE  FreesOf(cv) # {}
<1> DEFINE B == pl.cxs
           n == Len(B)
           F == FramesTo(B, cv, n)
<1>1. /\ pl \in State /\ Books(pl) /\ Saved(pl) /\ F # {} /\ FreesOf(cv) = Frees(pl.savestack, cv)
  BY TheParts
<1>2. n \in Nat /\ F \in SUBSET Nat /\ F \in SUBSET (1 .. n)
  <2>1. n \in Nat
    BY <1>1, StateFields, LenProperties
  <2> QED  BY <2>1 DEF FramesTo, SubsTo
<1>3. PICK i \in F : \A j \in F : i <= j
  BY <1>1, <1>2, Smallest
<1>4. i \in 1 .. n /\ B[i].cx.type = "SUB" /\ B[i].cx.cv = cv /\ i \in SubsTo(B, n)
  BY <1>2, <1>3 DEF FramesTo, SubsTo
<1>5. B[i].cx.olddepth = 0
  <2>1. FramesTo(B, cv, i - 1) = {}
    <3> SUFFICES ASSUME NEW j \in FramesTo(B, cv, i - 1)
                 PROVE  FALSE
      OBVIOUS
    <3>1. j \in 1 .. n /\ j < i /\ j \in F
      BY <1>2, <1>4 DEF FramesTo, SubsTo
    <3> QED  BY <1>3, <1>4, <3>1
  <2>2. Cardinality({}) = 0
    BY FS_EmptySet
  <2> QED  BY <1>1, <1>4, <2>1, <2>2 DEF Books, Remembers, Remembered
<1> DEFINE old == SavesTo(B, i - 1)
<1>6. pl.savestack[old + 1] = [save |-> "FREESV", what |-> cv]
  BY <1>1, <1>4, <1>5 DEF Saved, SavedBy
<1>7. old + 1 \in 1 .. Len(pl.savestack)
  <2>1. i \in Nat \ {0} /\ i \in Int /\ n \in Int /\ i <= n /\ i - 1 \in Int
    BY <1>2, <1>4
  <2>2. SavesTo(B, i) = old + 2 /\ SavesTo(B, i) <= SavesTo(B, n) /\ old \in Nat
        /\ SavesTo(B, n) \in Nat
    <3>1. SavesTo(B, i) = old + 2
      BY <1>4, <1>5, <2>1, SubSaves
    <3> QED  BY <2>1, <3>1, MoreSaves, ToTypes
  <2>3. Len(pl.savestack) = SavesTo(B, n)
    BY <1>1 DEF Saved
  <2> HIDE DEF old
  <2> QED  BY <2>2, <2>3
<1> QED  BY <1>1, <1>6, <1>7 DEF Frees

LEMMA ReferencesExact == IInv => RefsExact
<1> SUFFICES ASSUME IInv, NEW cv \in Cvs
             PROVE  /\ pl.refcnt[cv] = (IF pl.named[cv] THEN 1 ELSE 0)
                                       + (IF Frames(cv) # {} THEN 1 ELSE 0) + Cardinality(FreesOf(cv))
                    /\ Frames(cv) # {} => pl.refcnt[cv] >= 2
  BY DEF RefsExact
<1> DEFINE c == Cardinality(FreesOf(cv))
           n == Len(pl.cxs)
           x == Cardinality(Frames(cv))
<1>1. /\ pl \in State /\ Books(pl) /\ Frames(cv) = FramesTo(pl.cxs, cv, n)
      /\ FreesOf(cv) = Frees(pl.savestack, cv)
  BY TheParts
<1>2. n \in Int /\ pl.named[cv] \in BOOLEAN
  BY <1>1, StateFields, LenProperties
<1>3. x \in Nat /\ (Frames(cv) # {} <=> x > 0)
  BY <1>1, <1>2, ToTypes
<1>4. pl.refcnt[cv] = (IF pl.named[cv] THEN 1 ELSE 0) + (IF x > 0 THEN 1 ELSE 0) + c
  BY <1>1 DEF Books, Refs
<1>5. c \in Nat
  BY <1>1, FreesCount
<1>6. Frames(cv) # {} => c >= 1
  <2> SUFFICES ASSUME Frames(cv) # {}
               PROVE  c >= 1
    OBVIOUS
  <2>1. FreesOf(cv) # {}
    BY SavedReference
  <2>2. IsFiniteSet(FreesOf(cv))
    <3> DEFINE S == FreesOf(cv)
               k == Len(pl.savestack)
    <3>1. S \in SUBSET (1 .. k) /\ k \in Int
      BY <1>1, StateFields, LenProperties DEF Frees
    <3> HIDE DEF S, k
    <3> QED  BY <3>1, ToFinite, Zenon DEF S
  <2>3. c # 0
    BY <2>1, <2>2, FS_EmptySet
  <2> HIDE DEF c
  <2> QED  BY <1>5, <2>3
<1> HIDE DEF c, x
<1> QED  BY <1>2, <1>3, <1>4, <1>5, <1>6 DEF c

LEMMA TypesKept == IInv => TypeOK
<1> SUFFICES ASSUME IInv
             PROVE  TypeOK
  OBVIOUS
<1> DEFINE B == pl.cxs
<1>1. pl \in State /\ Books(pl) /\ Saved(pl) /\ Stacks(pl) /\ Levels(pl, c_stack)
  BY TheParts
<1>2. pl.CvDEPTH \in [Cvs -> Int] /\ pl.refcnt \in [Cvs -> Int]
  BY <1>1, StateFields
<1>3. ASSUME NEW cv \in Cvs
      PROVE  pl.CvDEPTH[cv] \in Nat /\ pl.refcnt[cv] \in Nat
  <2>1. pl.CvDEPTH[cv] = Cardinality(FramesTo(B, cv, Len(B)))
        /\ pl.refcnt[cv] =
             Refs(pl.named[cv], Cardinality(FramesTo(B, cv, Len(B))), pl.savestack, cv)
    BY <1>1 DEF Books
  <2>2. Cardinality(FramesTo(B, cv, Len(B))) \in Nat
    <3>1. Len(B) \in Int
      BY <1>1, StateFields, LenProperties
    <3> QED  BY <3>1, ToTypes
  <2>3. Cardinality(Frees(pl.savestack, cv)) \in Nat
    BY <1>1, FreesCount
  <2> QED  BY <2>1, <2>2, <2>3 DEF Refs
<1>4. pl.CvDEPTH \in [Cvs -> Nat] /\ pl.refcnt \in [Cvs -> Nat]
  BY <1>2, <1>3
<1>5. pl \in [cxs : Seq(Blocks), si : Seq(Nat), savestack : Seq(Saves), scopestack : Seq(Nat),
              top_env : Seq(BOOLEAN), in_eval : BOOLEAN, comppad : Pads, defav : Pads,
              CvDEPTH : [Cvs -> Nat], refcnt : [Cvs -> Nat], padlist : [Cvs -> Nat],
              named : [Cvs -> BOOLEAN]]
  BY <1>1, <1>4 DEF State
<1>6. pl.si # <<>> /\ \A k \in DOMAIN pl.si : pl.si[k] <= Len(B)
  <2>1. /\ Len(B) \in Nat /\ pl.si \in Seq(Nat) /\ cxbase(pl) \in Nat /\ cxbase(pl) <= Len(B)
        /\ \A k \in 1 .. Len(pl.si) : pl.si[k] \in Nat /\ pl.si[k] <= cxbase(pl)
    BY <1>1, Bottom
  <2>2. pl.si # <<>> /\ DOMAIN pl.si = 1 .. Len(pl.si)
    BY <1>1, <2>1, LenProperties DEF Stacks, Stacked
  <2> DEFINE b == cxbase(pl)
             n == Len(B)
  <2> HIDE DEF b, n
  <2> SUFFICES ASSUME NEW k \in 1 .. Len(pl.si)
               PROVE  pl.si[k] <= n
    BY <2>2 DEF n
  <2>3. pl.si[k] \in Nat /\ pl.si[k] <= b /\ b <= n /\ b \in Nat /\ n \in Nat
    BY <2>1 DEF b, n
  <2> QED  BY <2>3
<1>7. \A i \in DOMAIN B : B[i].oldscopesp \in 1 .. Len(pl.scopestack)
  <2>1. DOMAIN B = 1 .. Len(B)
    BY <1>1, StateFields, LenProperties
  <2> QED  BY <1>1, <2>1 DEF Saved, Scoped
<1>8. \A i \in DOMAIN pl.scopestack : pl.scopestack[i] <= Len(pl.savestack)
  <2>1. DOMAIN pl.scopestack = 1 .. Len(pl.scopestack)
    BY <1>1, StateFields, LenProperties
  <2> QED  BY <1>1, <2>1 DEF Saved
<1>9. c_stack \in Seq([kind : {"run", "docatch", "call", "multicall"},
                       running : BOOLEAN, oldcatch : BOOLEAN])
  BY <1>1 DEF Levels, CFunctions
<1> QED  BY <1>5, <1>6, <1>7, <1>8, <1>9 DEF TypeOK

LEMMA PadsCurrent == IInv => PadAndArgsAreCurrent
<1> SUFFICES ASSUME IInv
             PROVE  PadAndArgsAreCurrent
  OBVIOUS
<1> DEFINE B == pl.cxs
           n == Len(B)
           args == {i \in Subs : pl.cxs[i].cx.hasargs}
<1>1. pl \in State /\ Books(pl) /\ Saved(pl) /\ Subs = SubsTo(B, n) /\ n \in Nat
  BY TheParts, StateFields, LenProperties
<1>2. args = ArgsTo(B, n)
  BY <1>1 DEF ArgsTo
<1>3. pl.comppad = PadIn(B, Subs) /\ pl.defav = PadIn(B, args)
  BY <1>1, <1>2 DEF Books, Saved
<1>4. \A S : PadIn(B, S) = IF S = {} THEN Main ELSE PadOf(Max(S))
  BY DEF PadIn, PadOf
<1>5. Subs # {} => pl.comppad[2] <= pl.padlist[pl.comppad[1]]
  <2> SUFFICES ASSUME Subs # {}
               PROVE  pl.comppad[2] <= pl.padlist[pl.comppad[1]]
    OBVIOUS
  <2> DEFINE k == Max(Subs)
  <2>1. k \in SubsTo(B, n)
    <3>1. Subs \in SUBSET (1 .. n)
      BY <1>1 DEF SubsTo
    <3> QED  BY <1>1, <3>1, Largest
  <2>2. pl.comppad = <<B[k].cx.cv, B[k].cx.olddepth + 1>>
    BY <1>3, <1>4 DEF PadOf
  <2> HIDE DEF k
  <2>3. B[k].cx.olddepth + 1 <= pl.padlist[B[k].cx.cv]
    BY <1>1, <2>1 DEF Saved
  <2> QED  BY <2>2, <2>3
<1> QED  BY <1>3, <1>4, <1>5 DEF PadAndArgsAreCurrent

LEMMA CFunctionFacts ==
  ASSUME IInv
  PROVE  /\ Len(c_stack) \in Nat /\ DOMAIN c_stack = 1 .. Len(c_stack)
         /\ \A i : EnvAt(i) = 1 + Envs(c_stack, i)
<1>1. c_stack \in Seq(CFunctions)
  BY TheParts DEF Levels
<1> QED  BY <1>1, LenProperties DEF EnvAt, Envs

LEMMA ResumesInLoop == IInv => EvalResumesInItsLoop
<1> SUFFICES ASSUME IInv, NEW i \in Evals
             PROVE  LET cx == pl.cxs[i].cx
                    IN  /\ cx.loop \in DOMAIN c_stack /\ HasEnv(c_stack[cx.loop])
                        /\ EnvAt(cx.loop) = cx.cur_top_env
  BY DEF EvalResumesInItsLoop
<1>1. pl \in State /\ Levels(pl, c_stack) /\ i \in EvalsTo(pl.cxs, Len(pl.cxs))
  BY TheParts
<1>2. c_stack # <<>>
  <2> SUFFICES ASSUME c_stack = <<>>
               PROVE  FALSE
    OBVIOUS
  <2>1. Len(pl.cxs) = 0
    BY <1>1 DEF Levels
  <2> QED  BY <1>1, <2>1 DEF EvalsTo
<1>3. LoopedAt(pl.cxs, pl.si, c_stack, i)
  BY <1>1, <1>2, LevelsFields DEF Looped
<1> QED  BY <1>3, CFunctionFacts DEF LoopedAt

LEMMA CatchesInCallback == IInv => MustCatchInCallback
<1> SUFFICES ASSUME IInv, c_stack # <<>>
             PROVE  /\ Len(pl.top_env) = EnvAt(Len(c_stack))
                    /\ \A i \in DOMAIN c_stack : HasEnv(c_stack[i]) =>
                         pl.top_env[EnvAt(i)] = (i < Len(c_stack) /\ ~HasEnv(c_stack[i + 1]))
  BY DEF MustCatchInCallback
<1>1. Environed(c_stack, pl.top_env)
  BY TheParts, LevelsFields
<1> QED  BY <1>1, CFunctionFacts DEF Environed

LEMMA StackPerCallback == IInv => StacksMatchCallbacks
<1> SUFFICES ASSUME IInv
             PROVE  StacksMatchCallbacks
  OBVIOUS
<1>1. pl \in State /\ Books(pl) /\ Levels(pl, c_stack) /\ Evals = EvalsTo(pl.cxs, Len(pl.cxs))
  BY TheParts
<1>2. pl.in_eval = (Evals # {})
  BY <1>1 DEF Books
<1>3. Calls(c_stack, Len(c_stack)) = Cardinality({i \in DOMAIN c_stack : ~HasEnv(c_stack[i])})
  BY CFunctionFacts DEF Calls
<1>4. Len(pl.si) = 1 + Calls(c_stack, Len(c_stack))
  <2>1. CASE c_stack = <<>>
    <3>1. Len(pl.si) = 1 /\ Len(c_stack) = 0
      BY <1>1, <2>1 DEF Levels
    <3>2. Calls(c_stack, 0) = Cardinality({}) /\ Cardinality({}) = 0
      <4>1. {i \in 1 .. 0 : ~HasEnv(c_stack[i])} = {}
        OBVIOUS
      <4> QED  BY <4>1, FS_EmptySet DEF Calls
    <3> QED  BY <3>1, <3>2
  <2>2. CASE c_stack # <<>>
    BY <1>1, <2>2, LevelsFields
  <2> QED  BY <2>1, <2>2
<1> QED  BY <1>2, <1>3, <1>4 DEF StacksMatchCallbacks

-----------------------------------------------------------------------------
\* No scope, stack or jump environment is popped that was not pushed, nothing that is saved is
\* restored twice, and neither a depth nor a reference count gets below zero.
THEOREM TypeCorrect == Spec => []TypeOK
BY Invariant, TypesKept, PTL

\* PUSHSUB and POPSUB: CvDEPTH is the number of frames a sub has, on all stacks, however many
\* of them a die or a last unwound at once.
THEOREM DepthCorrect == Spec => []DepthIsFrames
BY Invariant, DepthsExact, PTL

\* PUSHSUB takes two references and LEAVESUB and LEAVE drop one each, so that a sub whose name
\* is gone lives as long as it runs and no longer.
THEOREM RefsCorrect == Spec => []RefsExact
BY Invariant, ReferencesExact, PTL

\* Scopes and contexts give the pad and @_ back independently: they are those of the same sub.
THEOREM PadCorrect == Spec => []PadAndArgsAreCurrent
BY Invariant, PadsCurrent, PTL

\* docatch: a die into an eval is caught by the run loop that the eval is in.
THEOREM ResumeCorrect == Spec => []EvalResumesInItsLoop
BY Invariant, ResumesInLoop, PTL

\* CATCH_SET: evals set up an environment of their own in callbacks, and nowhere else.
THEOREM CatchCorrect == Spec => []MustCatchInCallback
BY Invariant, CatchesInCallback, PTL

\* PUSHSTACKi and POPSTACK_TO: each callback that has not returned has a stack, and no other.
THEOREM StacksCorrect == Spec => []StacksMatchCallbacks
BY Invariant, StackPerCallback, PTL

=============================================================================
