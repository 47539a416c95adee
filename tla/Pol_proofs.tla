------------------------------ MODULE Pol_proofs ------------------------------
(***************************************************************************)
(* Proofs about the event loop, for any descriptors, any room in POL, any  *)
(* number of registrations and throws, and, but for the last two theorems, *)
(* any nesting of pol.run.                                                 *)
(***************************************************************************)
EXTENDS Pol, SequenceTheorems, FiniteSetTheorems, TLAPS

\* Whoever counts on a fd whose handler is on the stack counts on that
\* handler: what the handler's return takes away is its own.
HandledInv ==
    ~meddled => \A i \in 1 .. Len(stack) : stack[i].kind = "handler" =>
        claim[stack[i].fd] \in {None, Default, stack[i].h}

\* An entry of the table is what the fd's watcher counts on, or loose.
EntryInv ==
    \A f \in Fds : table[f] # None => table[f] = claim[f] \/ f \in loose

PolInv == TypeOK /\ HandledInv /\ ClaimHonoured /\ EntryInv

-----------------------------------------------------------------------------
(* The stack.                                                              *)

\* The kinds of frames, and what a handler's frame holds.
LEMMA FrameKinds ==
    /\ LoopFrame("loop") \in Frames /\ LoopFrame("round") \in Frames
    /\ \A k : /\ LoopFrame(k).kind = k /\ LoopFrame(k).fd = None
    /\ \A fr \in Frames : fr.kind \in {"loop", "round", "handler"}
    /\ \A fr \in Frames : fr.kind = "handler" =>
          fr.fd \in Fds /\ fr.h \in Handlers \cup {Default}
BY DEF LoopFrame, Frames

\* When it is not the script's turn, the top of the stack is a frame.
LEMMA TopFrame ==
    ASSUME TypeOK, Top.kind # "script"
    PROVE  /\ stack # <<>> /\ Len(stack) \in Nat \ {0}
           /\ Top = stack[Len(stack)] /\ Top \in Frames
<1>1. stack # <<>>
  BY FrameKinds DEF Top
<1>2. stack \in Seq(Frames)
  BY DEF TypeOK
<1>3. Len(stack) \in Nat \ {0}
  BY <1>1, <1>2, EmptySeq
<1>4. Top = stack[Len(stack)]
  BY <1>1 DEF Top
<1> QED BY <1>1, <1>2, <1>3, <1>4, ElementOfSeq

\* The frames below the top.
LEMMA Popped ==
    ASSUME TypeOK, Top.kind # "script"
    PROVE  /\ Pop \in Seq(Frames) /\ Len(Pop) = Len(stack) - 1
           /\ \A i \in 1 .. Len(stack) - 1 : Pop[i] = stack[i]
<1>1. Len(stack) \in Nat \ {0} /\ stack \in Seq(Frames)
  BY TopFrame DEF TypeOK
<1>2. \A i \in 1 .. Len(stack) - 1 : stack[i] \in Frames
  BY <1>1, ElementOfSeq
<1>3. Len(stack) - 1 \in Int
  BY <1>1
<1>4. /\ Pop \in Seq(Frames)
      /\ Len(Pop) = IF 1 <= Len(stack) - 1 THEN Len(stack) - 1 - 1 + 1 ELSE 0
      /\ \A i \in 1 .. Len(stack) - 1 - 1 + 1 : Pop[i] = stack[1 + i - 1]
  BY <1>2, <1>3, SubSeqProperties DEF Pop
<1>5. Len(Pop) = Len(stack) - 1
  <2> DEFINE n == Len(stack)
  <2>1. n \in Nat /\ n >= 1
    BY <1>1
  <2>2. Len(Pop) = IF 1 <= n - 1 THEN n - 1 - 1 + 1 ELSE 0
    BY <1>4
  <2> HIDE DEF n
  <2>3. Len(Pop) = n - 1
    BY <2>1, <2>2
  <2> QED BY <2>3 DEF n
<1>6. ASSUME NEW i \in 1 .. Len(stack) - 1
      PROVE  Pop[i] = stack[i]
  <2>1. 1 + i - 1 = i /\ Len(stack) - 1 - 1 + 1 = Len(stack) - 1
    BY <1>1
  <2> QED BY <1>4, <2>1
<1> QED BY <1>4, <1>5, <1>6

\* A step pushes a frame, pops one, changes the loop's on top, or none.
Pushed(fr) == stack' = Append(stack, fr)
Popping == Top.kind # "script" /\ stack' = Pop
Turned(k) == Top.kind \in {"loop", "round"} /\ stack' = Append(Pop, LoopFrame(k))

\* After it, the stack has its type, and every frame that was not there before
\* is the one pushed or a loop's.
LEMMA StackStep ==
    ASSUME TypeOK, NEW fr \in Frames,
           \/ Pushed(fr) \/ Popping \/ UNCHANGED stack
           \/ Turned("loop") \/ Turned("round")
    PROVE  /\ stack' \in Seq(Frames)
           /\ \A j \in 1 .. Len(stack') :
                 \/ j \in 1 .. Len(stack) /\ stack'[j] = stack[j]
                 \/ stack'[j] = fr /\ Pushed(fr)
                 \/ stack'[j].kind \in {"loop", "round"}
<1>1. stack \in Seq(Frames) /\ Len(stack) \in Nat
  BY DEF TypeOK
<1>2. CASE Pushed(fr)
  <2>1. /\ stack' \in Seq(Frames) /\ Len(stack') = Len(stack) + 1
        /\ \A j \in 1 .. Len(stack) : stack'[j] = stack[j]
        /\ stack'[Len(stack) + 1] = fr
    BY <1>1, <1>2, AppendProperties DEF Pushed
  <2> QED BY <1>1, <1>2, <2>1
<1>3. CASE Popping
  BY <1>1, <1>3, Popped DEF Popping
<1>4. CASE UNCHANGED stack
  BY <1>1, <1>4
<1>5. ASSUME NEW k \in {"loop", "round"}, Turned(k)
      PROVE  /\ stack' \in Seq(Frames)
             /\ \A j \in 1 .. Len(stack') :
                   \/ j \in 1 .. Len(stack) /\ stack'[j] = stack[j]
                   \/ stack'[j].kind \in {"loop", "round"}
  <2>1. /\ Pop \in Seq(Frames) /\ Len(Pop) = Len(stack) - 1
        /\ \A i \in 1 .. Len(stack) - 1 : Pop[i] = stack[i]
        /\ Len(stack) \in Nat \ {0}
    BY <1>5, Popped, TopFrame DEF Turned
  <2>2. LoopFrame(k) \in Frames /\ LoopFrame(k).kind = k
    BY FrameKinds
  <2>3. /\ stack' \in Seq(Frames) /\ Len(stack') = Len(Pop) + 1
        /\ \A j \in 1 .. Len(Pop) : stack'[j] = Pop[j]
        /\ stack'[Len(Pop) + 1] = LoopFrame(k)
    BY <1>5, <2>1, <2>2, AppendProperties DEF Turned
  <2> QED BY <2>1, <2>2, <2>3
<1> QED BY <1>2, <1>3, <1>4, <1>5

-----------------------------------------------------------------------------
(* Types.                                                                  *)

\* The numbers the program hands out next.
LEMMA NextNumbers ==
    ASSUME TypeOK
    PROVE  /\ regs < MaxReg => regs + 1 \in Handlers /\ regs + 1 \in 0 .. MaxReg
           /\ thrown < MaxThrow =>
                 thrown + 1 \in Throws /\ thrown + 1 \in 0 .. MaxThrow
           /\ None \notin Handlers /\ Default \notin Handlers /\ None # Default
           /\ None \notin Fds
BY ConstantsAssumption DEF TypeOK, Handlers, Throws, None, Default

\* Everything but the stack keeps its type.
Rest ==
    /\ table \in [Fds -> Handlers \cup {None}]
    /\ dflt \in {None, Default}
    /\ tracked \subseteq Fds
    /\ stopped \in BOOLEAN /\ running \in BOOLEAN /\ freed \in BOOLEAN
    /\ exc \in Throws \cup {None}
    /\ regs \in 0 .. MaxReg /\ thrown \in 0 .. MaxThrow
    /\ claim \in [Fds -> Handlers \cup {None, Default}]
    /\ out \in Throws \cup {None}
    /\ said \in [1 .. MaxRun -> SUBSET Throws]
    /\ loose \subseteq Fds /\ meddled \in BOOLEAN

\* Every step keeps the types of what is not on the stack.
LEMMA RestStep ==
    ASSUME TypeOK, [Next]_vars
    PROVE  Rest'
<1> USE DEF TypeOK, Rest
<1>1. ASSUME NEW f \in Fds, watch(f)
      PROVE  Rest'
  <2>1. regs + 1 \in Handlers /\ regs + 1 \in 0 .. MaxReg
    BY <1>1, NextNumbers DEF watch
  <2>2. table' = [table EXCEPT ![f] = regs + 1] /\ regs' = regs + 1
    BY <1>1 DEF watch
  <2>3. /\ tracked' \in {tracked, tracked \cup {f}}
        /\ claim' \in {claim, [claim EXCEPT ![f] = regs + 1]}
        /\ loose' \in {loose \ {f}, loose \cup {f}}
        /\ meddled' \in BOOLEAN
        /\ UNCHANGED <<dflt, stopped, running, exc, thrown, out, said, freed>>
    BY <1>1 DEF watch
  <2>4. table' \in [Fds -> Handlers \cup {None}]
    BY <2>1, <2>2
  <2>5. claim' \in [Fds -> Handlers \cup {None, Default}]
    BY <2>1, <2>3
  <2> QED BY <2>1, <2>2, <2>3, <2>4, <2>5
<1>2. ASSUME NEW f \in Fds, watchDefault(f) \/ unwatch(f)
      PROVE  Rest'
  BY <1>2 DEF watchDefault, unwatch
<1>3. ASSUME NEW f \in Fds, dispatch(f)
      PROVE  Rest'
  BY <1>3 DEF dispatch
<1>4. ASSUME NEW f \in Fds, dropUnclaimed(f)
      PROVE  Rest'
  BY <1>4 DEF dropUnclaimed
<1>5. CASE setDefault \/ stop \/ run \/ newRound \/ roundEnds \/ returnMask
  BY <1>5 DEF setDefault, stop, run, newRound, roundEnds, returnMask
<1>6. CASE init
  BY <1>6 DEF init, InitRefused
<1>7. CASE returnZero
  <2>1. Top.fd \in Fds
    BY <1>7, TopFrame, FrameKinds DEF returnZero
  <2>2. /\ table' = [table EXCEPT ![Top.fd] = None]
        /\ tracked' = tracked \ {Top.fd} /\ loose' = loose \ {Top.fd}
        /\ claim' \in {claim, [claim EXCEPT ![Top.fd] = None]}
        /\ UNCHANGED <<dflt, stopped, running, exc, regs, thrown, out, said,
                       freed, meddled>>
    BY <1>7, <2>1 DEF returnZero, Released
  <2> QED BY <2>1, <2>2
<1>8. CASE throw
  <2>1. Top.fd \in Fds
    BY <1>8, TopFrame, FrameKinds DEF throw
  <2>2. thrown + 1 \in Throws /\ thrown + 1 \in 0 .. MaxThrow
    BY <1>8, NextNumbers DEF throw
  <2>3. /\ exc' \in Throws \cup {None} /\ thrown' = thrown + 1
        /\ said' \in [1 .. MaxRun -> SUBSET Throws]
    BY <1>8, <2>2 DEF throw, Stashed
  <2>4. /\ claim' = [claim EXCEPT ![Top.fd] = None]
        /\ tracked' = tracked \ {Top.fd} /\ loose' = loose \cup {Top.fd}
        /\ stopped' = TRUE
        /\ UNCHANGED <<table, dflt, running, regs, out, freed, meddled>>
    BY <1>8 DEF throw
  <2> QED BY <2>1, <2>2, <2>3, <2>4
<1>9. CASE runReturns
  BY <1>9 DEF runReturns
<1>10. CASE UNCHANGED vars
  BY <1>10 DEF vars
<1> QED
  BY <1>1, <1>2, <1>3, <1>4, <1>5, <1>6, <1>7, <1>8, <1>9, <1>10 DEF Next

\* How each action moves the stack.
LEMMA StackMoves ==
    ASSUME TypeOK, [Next]_vars
    PROVE  \E fr \in Frames :
              /\ \/ Pushed(fr) \/ Popping \/ UNCHANGED stack
                 \/ Turned("loop") \/ Turned("round")
              /\ Pushed(fr) => \/ fr.kind = "loop"
                               \/ fr.kind = "handler" /\ dispatch(fr.fd)
                                  /\ fr.h = Routed(fr.fd)
<1> USE FrameKinds
<1>1. ASSUME NEW f \in Fds, dispatch(f)
      PROVE  \E fr \in Frames : /\ Pushed(fr) /\ fr.kind = "handler"
                                /\ dispatch(fr.fd) /\ fr.h = Routed(fr.fd)
  <2> DEFINE fr == [kind |-> "handler", fd |-> f, h |-> Routed(f)]
  <2>1. Routed(f) \in Handlers \cup {Default}
    BY <1>1 DEF dispatch, Routed, TypeOK
  <2>2. fr \in Frames
    BY <2>1 DEF Frames
  <2>3. Pushed(fr)
    BY <1>1 DEF dispatch, Pushed
  <2> QED BY <1>1, <2>2, <2>3
<1>2. CASE ~\E f \in Fds : dispatch(f)
  <2>1. \/ Pushed(LoopFrame("loop")) \/ Popping \/ UNCHANGED stack
        \/ Turned("loop") \/ Turned("round")
    BY <1>2
       DEF Next, watch, watchDefault, unwatch, dropUnclaimed, setDefault, stop,
           init, run, newRound, roundEnds, returnMask, returnZero, throw,
           runReturns, vars, Pushed, Popping, Turned
  <2> QED BY <2>1
<1> QED BY <1>1, <1>2

\* A step keeps the types.
LEMMA TypeStep ==
    ASSUME TypeOK, [Next]_vars
    PROVE  TypeOK'
<1>1. stack' \in Seq(Frames)
  BY StackMoves, StackStep
<1> QED BY <1>1, RestStep DEF TypeOK, Rest

-----------------------------------------------------------------------------
(* What a watcher counts on.                                               *)

\* Claims of a fd under a running handler change only to none or to
\* pol.default, unless the handler meddled; a handler is called for a fd whose
\* claim is its own.  Then the stack and the claims still agree.
LEMMA HandledStep ==
    ASSUME TypeOK, HandledInv, [Next]_vars,
           meddled => meddled',
           ~meddled' => \A f \in Fds : Handling(f) =>
                           claim'[f] \in {claim[f], None, Default},
           ~meddled' => \A f \in Fds : dispatch(f) =>
                           claim'[f] \in {None, Default, Routed(f)}
    PROVE  HandledInv'
<1> SUFFICES ASSUME ~meddled', NEW j \in 1 .. Len(stack'),
                    stack'[j].kind = "handler"
             PROVE  claim'[stack'[j].fd] \in {None, Default, stack'[j].h}
  BY DEF HandledInv
<1>1. ~meddled
  OBVIOUS
<1>2. PICK fr \in Frames :
            /\ \/ Pushed(fr) \/ Popping \/ UNCHANGED stack
               \/ Turned("loop") \/ Turned("round")
            /\ Pushed(fr) => \/ fr.kind = "loop"
                             \/ fr.kind = "handler" /\ dispatch(fr.fd)
                                /\ fr.h = Routed(fr.fd)
  BY StackMoves
<1>3. \/ j \in 1 .. Len(stack) /\ stack'[j] = stack[j]
      \/ stack'[j] = fr /\ Pushed(fr)
  BY <1>2, StackStep
<1>4. CASE j \in 1 .. Len(stack) /\ stack'[j] = stack[j]
  <2>1. stack[j] \in Frames
    BY <1>4, ElementOfSeq DEF TypeOK
  <2>2. stack[j].fd \in Fds /\ Handling(stack[j].fd)
    BY <1>4, <2>1, FrameKinds DEF Handling
  <2>3. claim[stack[j].fd] \in {None, Default, stack[j].h}
    BY <1>1, <1>4 DEF HandledInv
  <2> QED BY <1>4, <2>2, <2>3
<1>5. CASE stack'[j] = fr /\ Pushed(fr)
  <2>1. fr.fd \in Fds /\ dispatch(fr.fd) /\ fr.h = Routed(fr.fd)
    BY <1>2, <1>5, FrameKinds
  <2> QED BY <1>5, <2>1
<1> QED BY <1>3, <1>4, <1>5

Claims == ClaimHonoured /\ EntryInv

\* Actions that touch no table keep the claims.
LEMMA SameClaims ==
    ASSUME Claims, UNCHANGED <<table, tracked, claim, loose>>,
           meddled => meddled'
    PROVE  Claims'
BY DEF Claims, ClaimHonoured, ClaimAlwaysHonoured, EntryInv

\* A step honours every claim, and leaves none of the agreements behind.
LEMMA ClaimStep ==
    ASSUME TypeOK, HandledInv, Claims, [Next]_vars
    PROVE  HandledInv' /\ Claims'
<1> USE NextNumbers DEF TypeOK
<1>1. ASSUME NEW f \in Fds, watch(f)
      PROVE  HandledInv' /\ Claims'
  <2>1. /\ table' = [table EXCEPT ![f] = regs + 1] /\ regs + 1 \in Handlers
        /\ meddled' = (meddled \/ Handling(f))
        /\ UNCHANGED stack
    BY <1>1 DEF watch
  <2>2. \/ /\ tracked' = tracked \cup {f}
           /\ claim' = [claim EXCEPT ![f] = regs + 1]
           /\ loose' = loose \ {f}
        \/ /\ f \notin tracked /\ loose' = loose \cup {f}
           /\ UNCHANGED <<tracked, claim>>
    BY <1>1 DEF watch, CanTrack
  <2>3. HandledInv'
    <3>1. ~meddled' => \A g \in Fds : Handling(g) => claim'[g] = claim[g]
      BY <2>1, <2>2
    <3>2. \A g \in Fds : ~dispatch(g)
      BY <1>1 DEF watch, dispatch, UserTurn
    <3> QED BY <2>1, <3>1, <3>2, HandledStep
  <2>4. ClaimHonoured'
    BY <2>1, <2>2 DEF Claims, ClaimHonoured, ClaimAlwaysHonoured
  <2>5. EntryInv'
    BY <2>1, <2>2 DEF Claims, EntryInv
  <2> QED BY <2>3, <2>4, <2>5 DEF Claims
<1>2. ASSUME NEW f \in Fds, watchDefault(f) \/ unwatch(f)
      PROVE  HandledInv' /\ Claims'
  <2>1. HandledInv'
    <3>1. \A g \in Fds : ~dispatch(g)
      BY <1>2 DEF watchDefault, unwatch, dispatch, UserTurn
    <3> QED BY <1>2, <3>1, HandledStep DEF watchDefault, unwatch
  <2>2. ClaimHonoured'
    BY <1>2 DEF watchDefault, unwatch, Claims, ClaimHonoured, ClaimAlwaysHonoured
  <2>3. EntryInv'
    BY <1>2 DEF watchDefault, unwatch, Claims, EntryInv
  <2> QED BY <2>1, <2>2, <2>3 DEF Claims
<1>3. ASSUME NEW f \in Fds, dispatch(f)
      PROVE  HandledInv' /\ Claims'
  <2>1. UNCHANGED <<table, tracked, claim, loose, meddled>>
    BY <1>3 DEF dispatch
  <2>2. ~meddled => \A g \in Fds : dispatch(g) =>
                       claim[g] \in {None, Default, Routed(g)}
    BY DEF Claims, ClaimHonoured, ClaimAlwaysHonoured, Routed
  <2> QED BY <2>1, <2>2, HandledStep, SameClaims
<1>4. ASSUME NEW f \in Fds, dropUnclaimed(f)
      PROVE  HandledInv' /\ Claims'
  <2>1. /\ table[f] = None /\ f \in tracked
        /\ table' = [table EXCEPT ![f] = None] /\ tracked' = tracked \ {f}
        /\ claim' = [claim EXCEPT ![f] = IF @ = Default THEN None ELSE @]
        /\ loose' = loose \ {f} /\ UNCHANGED <<meddled, stack>>
    BY <1>4 DEF dropUnclaimed, Routed
  <2>2. HandledInv'
    BY <2>1 DEF HandledInv
  <2>3. ClaimHonoured'
    BY <2>1 DEF Claims, ClaimHonoured, ClaimAlwaysHonoured
  <2>4. EntryInv'
    BY <2>1 DEF Claims, EntryInv
  <2> QED BY <2>2, <2>3, <2>4 DEF Claims
<1>5. CASE setDefault \/ stop \/ run \/ newRound \/ roundEnds \/ returnMask
  <2>1. UNCHANGED <<table, tracked, claim, loose, meddled>>
    BY <1>5 DEF setDefault, stop, run, newRound, roundEnds, returnMask
  <2>2. ~meddled => \A g \in Fds : dispatch(g) =>
                       claim[g] \in {None, Default, Routed(g)}
    BY DEF Claims, ClaimHonoured, ClaimAlwaysHonoured, Routed
  <2> QED BY <2>1, <2>2, HandledStep, SameClaims
<1>6. CASE init
  <2>1. /\ table' = [g \in Fds |-> None] /\ loose' = {}
        /\ UNCHANGED stack
        /\ meddled => meddled'
        /\ meddled' \/ claim' = [g \in Fds |-> None]
    BY <1>6 DEF init
  <2>2. HandledInv'
    <3>1. ~meddled' => \A g \in Fds : claim'[g] = None
      BY <2>1
    <3> QED BY <2>1, <3>1, HandledStep
  <2> QED BY <2>1, <2>2
          DEF Claims, ClaimHonoured, ClaimAlwaysHonoured, EntryInv
<1>7. CASE returnZero
  <2>1. /\ Top.fd \in Fds /\ Len(stack) \in Nat \ {0}
        /\ Top = stack[Len(stack)] /\ Top.kind = "handler"
    BY <1>7, TopFrame, FrameKinds DEF returnZero
  <2>2. ~meddled => claim[Top.fd] \in {None, Default, Top.h}
    BY <2>1 DEF HandledInv
  <2>3. /\ table' = [table EXCEPT ![Top.fd] = None]
        /\ tracked' = tracked \ {Top.fd} /\ loose' = loose \ {Top.fd}
        /\ claim' = [claim EXCEPT ![Top.fd] = IF @ \in {Top.h, Default}
                                              THEN None ELSE @]
        /\ UNCHANGED meddled
    BY <1>7 DEF returnZero, Released
  <2>4. \A g \in Fds : claim'[g] \in {claim[g], None}
    BY <2>1, <2>3
  <2>5. \A g \in Fds : ~dispatch(g)
    BY <1>7 DEF returnZero, dispatch
  <2>6. HandledInv'
    BY <2>3, <2>4, <2>5, HandledStep
  <2>7. ~meddled => claim'[Top.fd] = None
    BY <2>1, <2>2, <2>3
  <2>8. ClaimHonoured'
    BY <2>1, <2>3, <2>7 DEF Claims, ClaimHonoured, ClaimAlwaysHonoured
  <2>9. EntryInv'
    BY <2>1, <2>3 DEF Claims, EntryInv
  <2> QED BY <2>6, <2>8, <2>9 DEF Claims
<1>8. CASE throw
  <2>1. Top.fd \in Fds
    BY <1>8, TopFrame, FrameKinds DEF throw
  <2>2. /\ claim' = [claim EXCEPT ![Top.fd] = None]
        /\ tracked' = tracked \ {Top.fd} /\ loose' = loose \cup {Top.fd}
        /\ UNCHANGED <<table, meddled>>
    BY <1>8 DEF throw
  <2>3. \A g \in Fds : ~dispatch(g) /\ claim'[g] \in {claim[g], None}
    BY <1>8, <2>1, <2>2 DEF throw, dispatch
  <2>4. HandledInv'
    BY <2>2, <2>3, HandledStep
  <2>5. ClaimHonoured' /\ EntryInv'
    BY <2>1, <2>2 DEF Claims, ClaimHonoured, ClaimAlwaysHonoured, EntryInv
  <2> QED BY <2>4, <2>5 DEF Claims
<1>9. CASE runReturns
  <2>1. UNCHANGED <<table, tracked, claim, loose, meddled>>
    BY <1>9 DEF runReturns
  <2>2. \A g \in Fds : ~dispatch(g)
    BY <1>9 DEF runReturns, dispatch
  <2> QED BY <2>1, <2>2, HandledStep
          DEF Claims, ClaimHonoured, ClaimAlwaysHonoured, EntryInv
<1>10. CASE UNCHANGED vars
  BY <1>10, SameClaims DEF vars, HandledInv
<1> QED
  BY <1>1, <1>2, <1>3, <1>4, <1>5, <1>6, <1>7, <1>8, <1>9, <1>10 DEF Next

-----------------------------------------------------------------------------
(* The theorems.                                                           *)

\* The whole invariant, of any nesting of loops.
THEOREM PolSafe == Spec => []PolInv
<1>1. Init => PolInv
  <2> SUFFICES ASSUME Init PROVE PolInv
    OBVIOUS
  <2>1. regs \in 0 .. MaxReg /\ thrown \in 0 .. MaxThrow
    BY ConstantsAssumption DEF Init
  <2>2. stack \in Seq(Frames) /\ Len(stack) = 0
    BY EmptySeq DEF Init
  <2>3. TypeOK
    BY <2>1, <2>2 DEF Init, TypeOK
  <2>4. HandledInv
    BY <2>2 DEF HandledInv
  <2> QED BY <2>3, <2>4
          DEF Init, PolInv, ClaimHonoured, ClaimAlwaysHonoured, EntryInv
<1>2. PolInv /\ [Next]_vars => PolInv'
  BY TypeStep, ClaimStep DEF PolInv, Claims
<1> QED BY <1>1, <1>2, PTL DEF Spec

\* The loop's state keeps its types.
THEOREM PolTypes == Spec => []TypeOK
<1>1. PolInv => TypeOK
  BY DEF PolInv
<1> QED BY <1>1, PolSafe, PTL

\* No call of pol takes away a registration it was not asked to, as long as no
\* pol.init was refused and no handler watched its own fd anew.
THEOREM ClaimsKept == Spec => []ClaimHonoured
<1>1. PolInv => ClaimHonoured
  BY DEF PolInv
<1> QED BY <1>1, PolSafe, PTL

\* pol._fd calls the handler of the fd's present registration, pol.default, or
\* one that a throw or a refused watch left behind.
THEOREM NoStaleCall == Spec => NoStaleHandler
<1> DEFINE Act == \A f \in Fds : dispatch(f) => \/ Routed(f) \in {claim[f], dflt}
                                                \/ f \in loose
<1>1. PolInv /\ [Next]_vars => [Act]_vars
  BY DEF PolInv, EntryInv, Routed
<1> QED BY <1>1, PolSafe, PTL DEF Spec, NoStaleHandler

-----------------------------------------------------------------------------
(* Without nested loops: what JABC_POL_RUNNING is there for.               *)

\* The one POLLoop is at the bottom of the stack, and the flag says so.
OneLoop ==
    /\ ~freed
    /\ \/ stack = <<>> /\ ~running
       \/ /\ stack # <<>> /\ running /\ stack[1].kind # "handler"
          /\ \A i \in 2 .. Len(stack) : stack[i].kind = "handler"

\* A loop frame on top is then the whole stack.
LEMMA LoopAlone ==
    ASSUME TypeOK, OneLoop, Top.kind \in {"loop", "round"}
    PROVE  Len(stack) = 1 /\ Pop = <<>> /\ stack # <<>> /\ running
<1>1. stack # <<>> /\ Len(stack) \in Nat \ {0} /\ Top = stack[Len(stack)]
  BY TopFrame
<1>2. Len(stack) = 1
  <2>1. Len(stack) = 1 \/ Len(stack) \in 2 .. Len(stack)
    <3>1. \A n \in Nat \ {0} : n = 1 \/ n \in 2 .. n
      OBVIOUS
    <3> QED BY <1>1, <3>1, Zenon
  <2>2. \A i \in 2 .. Len(stack) : stack[i].kind = "handler"
    BY <1>1 DEF OneLoop
  <2>3. stack[Len(stack)].kind # "handler"
    BY <1>1
  <2> QED BY <2>1, <2>2, <2>3
<1>3. Pop \in Seq(Frames) /\ Len(Pop) = 0
  BY <1>2, Popped
<1>4. Pop = <<>>
  BY <1>3, EmptySeq
<1> QED BY <1>1, <1>2, <1>4 DEF OneLoop

\* A stack of one loop.
LEMMA JustLoop ==
    ASSUME NEW k \in {"loop", "round"}, stack' = Append(<<>>, LoopFrame(k)),
           running', ~freed'
    PROVE  OneLoop'
<1>1. LoopFrame(k) \in Frames /\ LoopFrame(k).kind = k
  BY FrameKinds
<1>2. /\ stack' # <<>> /\ Len(stack') = 1 /\ stack'[1] = LoopFrame(k)
  <2>1. <<>> \in Seq(Frames) /\ Len(<<>>) = 0
    BY EmptySeq
  <2> QED BY <1>1, <2>1, AppendProperties
<1> QED BY <1>1, <1>2 DEF OneLoop

\* While pol.run does not nest, the flag is up exactly when a loop is on the
\* stack, so that pol.init refuses to free the heap under it.
LEMMA OneLoopStep ==
    ASSUME MaxRun = 1, TypeOK, OneLoop, [Next]_vars
    PROVE  OneLoop'
<1>1. stack \in Seq(Frames) /\ Len(stack) \in Nat /\ ~freed
  BY DEF TypeOK, OneLoop
<1>2. CASE run
  <2>1. IsFiniteSet(Loops)
    <3>1. IsFiniteSet(1 .. Len(stack))
      BY <1>1, FS_Interval
    <3> QED BY <3>1, FS_Subset DEF Loops
  <2>2. Cardinality(Loops) = 0
    <3>1. Cardinality(Loops) \in Nat /\ Cardinality(Loops) < 1
      BY <1>2, <2>1, FS_CardinalityType DEF run, Depth
    <3> QED BY <3>1
  <2>3. Loops = {}
    BY <2>1, <2>2, FS_EmptySet
  <2>4. stack = <<>>
    <3> SUFFICES ASSUME stack # <<>> PROVE FALSE
      OBVIOUS
    <3>1. Len(stack) \in Nat \ {0}
      BY <1>1, EmptySeq
    <3>2. 1 \in 1 .. Len(stack) /\ stack[1].kind # "handler"
      BY <3>1 DEF OneLoop
    <3> QED BY <2>3, <3>2 DEF Loops
  <2>5. stack' = Append(<<>>, LoopFrame("loop")) /\ running' /\ ~freed'
    BY <1>1, <1>2, <2>4 DEF run
  <2> QED BY <2>5, JustLoop
<1>3. CASE newRound \/ roundEnds
  <2>1. Top.kind \in {"loop", "round"}
    BY <1>3 DEF newRound, roundEnds
  <2>2. Pop = <<>> /\ running
    BY <2>1, LoopAlone
  <2>3. \/ stack' = Append(Pop, LoopFrame("round"))
        \/ stack' = Append(Pop, LoopFrame("loop"))
    BY <1>3 DEF newRound, roundEnds
  <2>4. running' = running /\ freed' = freed
    BY <1>3 DEF newRound, roundEnds
  <2>5. running' /\ ~freed'
    BY <1>1, <2>2, <2>4
  <2> QED BY <2>2, <2>3, <2>5, JustLoop
<1>4. ASSUME NEW f \in Fds, dispatch(f)
      PROVE  OneLoop'
  <2>1. Len(stack) = 1 /\ stack # <<>> /\ running
    BY <1>4, LoopAlone DEF dispatch
  <2> DEFINE fr == [kind |-> "handler", fd |-> f, h |-> Routed(f)]
  <2>2. fr \in Frames /\ fr.kind = "handler"
    BY <1>4 DEF dispatch, Routed, TypeOK, Frames
  <2> HIDE DEF fr
  <2>3. stack' = Append(stack, fr) /\ running' = running /\ freed' = freed
    BY <1>4 DEF dispatch, fr
  <2>4. /\ stack' # <<>> /\ Len(stack') = 2
        /\ stack'[1] = stack[1] /\ stack'[2] = fr
    <3>1. /\ stack' # <<>> /\ Len(stack') = Len(stack) + 1
          /\ \A i \in 1 .. Len(stack) : stack'[i] = stack[i]
          /\ stack'[Len(stack) + 1] = fr
      BY <1>1, <2>2, <2>3, AppendProperties
    <3> QED BY <2>1, <3>1
  <2> QED BY <1>1, <2>1, <2>2, <2>3, <2>4 DEF OneLoop
<1>5. CASE returnMask \/ returnZero \/ throw
  <2>1. Top.kind = "handler" /\ stack' = Pop /\ UNCHANGED <<running, freed>>
    BY <1>5 DEF returnMask, returnZero, throw
  <2>2. Len(stack) \in Nat \ {0} /\ Top = stack[Len(stack)] /\ stack # <<>>
    BY <2>1, TopFrame
  <2>3. Len(stack) # 1 /\ running
    BY <2>1, <2>2 DEF OneLoop
  <2>4. /\ Pop \in Seq(Frames) /\ Len(Pop) = Len(stack) - 1
        /\ \A i \in 1 .. Len(stack) - 1 : Pop[i] = stack[i]
    BY <2>1, Popped
  <2>5. Len(Pop) # 0 /\ Pop[1] = stack[1]
    BY <2>2, <2>3, <2>4
  <2>6. Pop # <<>>
    BY <2>5, EmptySeq
  <2>7. \A i \in 2 .. Len(Pop) : Pop[i].kind = "handler"
    BY <2>2, <2>4 DEF OneLoop
  <2> QED BY <1>1, <2>1, <2>2, <2>3, <2>5, <2>6, <2>7 DEF OneLoop
<1>6. CASE runReturns
  <2>1. stack' = <<>> /\ running' = FALSE /\ ~freed'
    BY <1>1, <1>6, LoopAlone DEF runReturns
  <2> QED BY <2>1 DEF OneLoop
<1>7. CASE init
  <2>1. ~running => Loops = {}
    <3> SUFFICES ASSUME ~running PROVE Loops = {}
      OBVIOUS
    <3>1. Len(stack) = 0
      BY EmptySeq DEF OneLoop
    <3> QED BY <3>1 DEF Loops
  <2>2. UNCHANGED <<stack, running>> /\ ~freed'
    BY <1>1, <1>7, <2>1 DEF init, InitRefused
  <2> QED BY <2>2 DEF OneLoop
<1>8. CASE /\ ~run /\ ~newRound /\ ~roundEnds /\ ~returnMask /\ ~returnZero
           /\ ~throw /\ ~runReturns /\ ~init /\ ~\E f \in Fds : dispatch(f)
  <2>1. UNCHANGED <<stack, running, freed>>
    BY <1>8 DEF Next, watch, watchDefault, unwatch, dropUnclaimed, setDefault,
                stop, vars
  <2> QED BY <2>1 DEF OneLoop
<1> QED BY <1>2, <1>3, <1>4, <1>5, <1>6, <1>7, <1>8

\* In a program that calls pol.run from its script only, pol.init never frees
\* POL's heap under a loop.  (From a handler it can: run Pol_nested.)
THEOREM NotFreedUnnested ==
    ASSUME MaxRun = 1
    PROVE  Spec => []NeverFreedUnderLoop
<1>1. Init => OneLoop
  BY DEF Init, OneLoop
<1>2. TypeOK /\ OneLoop /\ [Next]_vars => OneLoop'
  BY OneLoopStep
<1>3. OneLoop => NeverFreedUnderLoop
  BY DEF OneLoop, NeverFreedUnderLoop
<1> QED BY <1>1, <1>2, <1>3, PolTypes, PTL DEF Spec

\* The stash holds the first throw of the one loop, and is empty without one.
StashInv ==
    /\ stack = <<>> => exc = None
    /\ exc = None => stack = <<>> \/ said[1] = {}
    /\ exc # None => exc \in said[1]
    /\ \A e \in said[1] : e <= thrown /\ (exc # None => exc <= e)

\* With a loop on the stack it is at depth one.
LEMMA OneDeep ==
    ASSUME TypeOK, OneLoop, stack # <<>>
    PROVE  Depth = 1
<1>1. Len(stack) \in Nat \ {0}
  BY EmptySeq DEF TypeOK
<1>2. \A i \in 1 .. Len(stack) : i = 1 \/ i \in 2 .. Len(stack)
  BY <1>1
<1>3. \A i \in 1 .. Len(stack) : stack[i].kind # "handler" <=> i = 1
  BY <1>1, <1>2 DEF OneLoop
<1>4. Loops = {1}
  BY <1>1, <1>3 DEF Loops
<1> QED BY <1>4, FS_Singleton DEF Depth

\* A throw is stashed only if it is the first; a loop begins with an empty
\* stash and its return empties it.
LEMMA StashStep ==
    ASSUME MaxRun = 1, TypeOK, OneLoop, StashInv, [Next]_vars
    PROVE  StashInv'
<1>1. /\ said \in [1 .. 1 -> SUBSET Throws] /\ thrown \in Nat
      /\ \A e \in Throws : e \in Nat /\ e # None
      /\ Throws \subseteq Nat
  BY ConstantsAssumption DEF TypeOK, Throws, None
<1>2. CASE run
  <2>1. exc = None /\ exc' = exc /\ thrown' = thrown
    <3>1. IsFiniteSet(Loops)
      <4>1. IsFiniteSet(1 .. Len(stack))
        BY FS_Interval DEF TypeOK
      <4> QED BY <4>1, FS_Subset DEF Loops
    <3>2. Depth \in Nat /\ Depth < 1
      BY <1>2, <3>1, FS_CardinalityType DEF run, Depth
    <3>3. Depth # 1
      BY <3>2
    <3>4. stack = <<>>
      BY <3>3, OneDeep
    <3> QED BY <1>2, <3>4 DEF run, StashInv
  <2>2. Depth = 0
    <3>1. IsFiniteSet(Loops)
      <4>1. IsFiniteSet(1 .. Len(stack))
        BY FS_Interval DEF TypeOK
      <4> QED BY <4>1, FS_Subset DEF Loops
    <3>2. Depth \in Nat /\ Depth < 1
      BY <1>2, <3>1, FS_CardinalityType DEF run, Depth
    <3> QED BY <3>2
  <2>3. said'[1] = {}
    BY <1>1, <1>2, <2>2 DEF run
  <2> QED BY <2>1, <2>3 DEF StashInv
<1>3. CASE throw
  <2>1. stack # <<>> /\ Depth = 1
    BY <1>3, TopFrame, OneDeep DEF throw
  <2>2. /\ thrown' = thrown + 1 /\ said'[1] = said[1] \cup {thrown + 1}
        /\ exc' = IF exc = None THEN thrown + 1 ELSE exc
        /\ thrown + 1 # None
    BY <1>1, <1>3, <2>1 DEF throw, Stashed, None
  <2>3. stack' # <<>>
    <3>1. running /\ running' = running
      BY <1>3, <2>1 DEF throw, OneLoop
    <3>2. OneLoop'
      BY OneLoopStep
    <3> QED BY <3>1, <3>2 DEF OneLoop
  <2>4. said[1] \subseteq Nat /\ exc \in Nat
    <3>1. 1 \in 1 .. 1 /\ None \in Nat /\ exc \in Throws \cup {None}
      BY DEF TypeOK, None
    <3>2. said[1] \subseteq Throws
      BY <1>1, <3>1
    <3> QED BY <1>1, <3>1, <3>2
  <2>5. exc # None => exc <= thrown
    BY DEF StashInv
  <2>6. exc' # None /\ exc' \in said'[1]
    BY <2>2 DEF StashInv
  <2>7. \A e \in said'[1] : e <= thrown' /\ exc' <= e
    BY <1>1, <2>1, <2>2, <2>4, <2>5 DEF StashInv
  <2> QED BY <2>3, <2>6, <2>7 DEF StashInv
<1>4. CASE runReturns
  <2>1. exc' = None /\ stack' = <<>> /\ UNCHANGED <<said, thrown>>
    BY <1>4, LoopAlone DEF runReturns
  <2> QED BY <2>1 DEF StashInv
<1>5. CASE ~run /\ ~throw /\ ~runReturns
  <2>1. UNCHANGED <<exc, said, thrown>>
    BY <1>5 DEF Next, watch, watchDefault, unwatch, dropUnclaimed, setDefault,
                stop, init, newRound, roundEnds, dispatch, returnMask,
                returnZero, vars
  <2>2. stack' = <<>> <=> stack = <<>>
    <3>1. CASE UNCHANGED running
      <4>1. OneLoop'
        BY OneLoopStep
      <4> QED BY <3>1, <4>1 DEF OneLoop
    <3>2. UNCHANGED running
      BY <1>5 DEF Next, watch, watchDefault, unwatch, dropUnclaimed, setDefault,
                  stop, init, newRound, roundEnds, dispatch, returnMask,
                  returnZero, vars
    <3> QED BY <3>1, <3>2
  <2> QED BY <2>1, <2>2 DEF StashInv
<1> QED BY <1>2, <1>3, <1>4, <1>5

\* In such a program pol.run throws the first exception of the handlers that
\* its loop called, and none if they threw none.  (A pol.run called from a
\* handler may throw what a handler of the outer loop threw.)
THEOREM FirstThrow ==
    ASSUME MaxRun = 1
    PROVE  Spec => FirstThrowSurfaces
<1> DEFINE Act == runReturns => IF said[Depth] = {}
                                THEN out' = None
                                ELSE /\ out' \in said[Depth]
                                     /\ \A e \in said[Depth] : out' <= e
<1>1. Init => OneLoop /\ StashInv
  BY DEF Init, OneLoop, StashInv
<1>2. TypeOK /\ OneLoop /\ StashInv /\ [Next]_vars => OneLoop' /\ StashInv'
  BY OneLoopStep, StashStep
<1>3. TypeOK /\ OneLoop /\ StashInv /\ [Next]_vars => [Act]_vars
  <2> SUFFICES ASSUME TypeOK, OneLoop, StashInv, runReturns PROVE Act
    OBVIOUS
  <2>1. stack # <<>> /\ Depth = 1 /\ out' = exc
    BY LoopAlone, OneDeep DEF runReturns
  <2> QED BY <2>1 DEF StashInv
<1> QED BY <1>1, <1>2, <1>3, PolTypes, PTL DEF Spec, FirstThrowSurfaces

=============================================================================
