------------------------ MODULE RetainedSourceProofs ------------------------
(***************************************************************************)
(* Proofs about RetainedSource and, in the second half, FrozenContext, for *)
(* any sources, trees, operations, graphs, scopes, selections and limits.  *)
(*                                                                         *)
(* A guard is on the source of what the operation has in hand, and the     *)
(* exclusive one excludes all others of that source.  So what an operation *)
(* kept or could read stays until it returns, and what a forget compared   *)
(* with its preview does not change before the deletion.                   *)
(***************************************************************************)
EXTENDS RetainedSource, FrozenContext, FiniteSetTheorems, WellFoundedInduction, TLAPS

stores == <<captures, objects, receipts, investigated>>

OpFits(r) == Shaped(r) /\ Guarded(r) /\ Kept(r) /\ Rechecked(r)

\* Only o moves.
Only(o) == DOMAIN op' = Op /\ \A q \in Op \ {o} : op'[q] = op[q]

\* A guard is kept, dropped, or taken when the others allow it.
LockStep(o) ==
    \/ op'[o].lock = "none"
    \/ op'[o].lock = op[o].lock /\ op'[o].src = op[o].src
    \/ op'[o].lock = "shared" /\ \E s : s = op'[o].src /\ CanShare(s)
    \/ op'[o].lock = "exclusive" /\ \E s : s = op'[o].src /\ CanExclude(s)

\* The parts of a preview, in their order.
LEMMA PartsAre ==
    /\ Len(Parts) = 4
    /\ Parts[1] = "captures" /\ Parts[2] = "receipts"
    /\ Parts[3] = "bindings" /\ Parts[4] = "investigated"
BY DEF Parts

\* An operation at rest fits any stores.
LEMMA RestingFits == OpFits(Resting)
BY DEF OpFits, Shaped, Guarded, Kept, Rechecked, Resting

\* The same in the next state.
LEMMA RestingFitsNext == OpFits(Resting)'
BY DEF OpFits, Shaped, Guarded, Kept, Rechecked, Resting

\* A step of one operation under its guard keeps all operations fitting, if the
\* others still find what they kept and what they compared.
LEMMA Step ==
    ASSUME IndInv, NEW o \in Op, Only(o), LockStep(o), OpFits(op[o])',
           \A q \in Op \ {o} : Kept(op[q])' /\ Rechecked(op[q])'
    PROVE  OpsFit' /\ GuardsExclude'
<1>1. OpsFit'
    <2> SUFFICES ASSUME NEW q \in Op
                 PROVE  Shaped(op[q])' /\ Guarded(op[q])' /\ Kept(op[q])' /\ Rechecked(op[q])'
        BY DEF OpsFit
    <2>1. CASE q = o
        BY <2>1 DEF OpFits
    <2>2. CASE q # o
        BY <2>2 DEF IndInv, OpsFit, Only, Shaped, Guarded
    <2>3. QED  BY <2>1, <2>2
<1>2. GuardsExclude'
    <2> SUFFICES ASSUME NEW p \in Op, NEW q \in Op, p # q,
                        op'[p].lock = "exclusive", op'[q].lock # "none"
                 PROVE  op'[q].src # op'[p].src
        BY DEF GuardsExclude
    <2>1. CASE p # o /\ q # o
        BY <2>1 DEF IndInv, GuardsExclude, Only
    <2>2. CASE p = o
        <3>1. op'[q] = op[q]
            BY <2>2 DEF Only
        <3>2. QED  BY <2>2, <3>1 DEF LockStep, IndInv, GuardsExclude, CanExclude, Holders, OpsFit, Shaped
    <2>3. CASE q = o
        <3>1. op'[p] = op[p]
            BY <2>3 DEF Only
        <3>2. QED  BY <2>3, <3>1 DEF LockStep, IndInv, GuardsExclude, CanExclude, CanShare, Holders
    <2>4. QED  BY <2>1, <2>2, <2>3
<1>3. QED  BY <1>1, <1>2

\* While the stores stay, the others find what they kept and compared.
LEMMA QuietStep ==
    ASSUME IndInv, NEW o \in Op, Only(o), LockStep(o), OpFits(op[o])', UNCHANGED <<stores, forgotten>>,
           BindingsFit', BindingIsBacked'
    PROVE  IndInv'
<1>1. \A q \in Op \ {o} : Kept(op[q])' /\ Rechecked(op[q])'
    <2> SUFFICES ASSUME NEW q \in Op \ {o} PROVE Kept(op[q])' /\ Rechecked(op[q])'
        OBVIOUS
    <2>1. op'[q] = op[q] /\ Kept(op[q]) /\ Rechecked(op[q])
        BY DEF Only, IndInv, OpsFit
    <2>2. Kept(op[q])'
        BY <2>1 DEF Kept, Readable, ReadObject, stores
    <2>3. Rechecked(op[q])'
        <3> SUFFICES ASSUME op[q].at = "rechecking", op[q].same, NEW i \in 1 .. Len(Parts),
                            i < op[q].step, Parts[i] # "bindings"
                     PROVE  Current(op[q].src, Parts[i])' = op[q].shown[Parts[i]]
            BY <2>1, PartsAre DEF Rechecked
        <3>1. Current(op[q].src, Parts[i]) = op[q].shown[Parts[i]]
            BY <2>1 DEF Rechecked
        <3>2. i \in {1, 2, 4}
            BY PartsAre
        <3>3. QED  BY <2>1, <3>1, <3>2, PartsAre DEF Current, Of, stores
    <2>4. QED  BY <2>2, <2>3
<1>2. OpsFit' /\ GuardsExclude'
    BY <1>1, Step
<1>3. RetainedIsComplete' /\ WithinQuota' /\ IsFiniteSet(captures)' /\ IsFiniteSet(objects)'
    BY DEF IndInv, RetainedIsComplete, WithinQuota, StoredRows, stores
<1>4. QED  BY <1>2, <1>3 DEF IndInv, Only

\* Nor are the bindings touched by most steps.
LEMMA BindingsStay ==
    ASSUME IndInv, UNCHANGED <<stores, bound, forgotten>>
    PROVE  BindingsFit' /\ BindingIsBacked'
BY DEF IndInv, BindingsFit, BindingIsBacked, stores

\* An operation that returns.
LEMMA Returns ==
    ASSUME IndInv, NEW o \in Op, Return(o), UNCHANGED <<stores, bound, forgotten>>
    PROVE  IndInv'
<1>1. Only(o) /\ op'[o] = Resting
    BY DEF Return, Only, IndInv
<1>2. OpFits(op[o])' /\ LockStep(o)
    BY <1>1, RestingFits, RestingFitsNext DEF LockStep, Resting
<1>3. QED  BY <1>1, <1>2, QuietStep, BindingsStay

-----------------------------------------------------------------------------
(* The steps that read the stores.                                         *)

\* A read step: it suffices to say where the operation is afterwards.
LEMMA Reads ==
    ASSUME IndInv, NEW o \in Op, NEW r, op' = [op EXCEPT ![o] = r], LockStep(o), OpFits(op[o])',
           UNCHANGED <<stores, bound, forgotten>>
    PROVE  IndInv'
<1>1. Only(o)
    BY DEF Only, IndInv
<1>2. QED  BY <1>1, QuietStep, BindingsStay

\* What every operation is before its step.
LEMMA Before ==
    ASSUME IndInv, NEW o \in Op
    PROVE  /\ OpFits(op[o]) /\ Shaped(op[o]) /\ Guarded(op[o]) /\ Kept(op[o]) /\ Rechecked(op[o])
           /\ DOMAIN op = Op
BY DEF IndInv, OpsFit, OpFits

\* The types of the fields that the proofs compute with.
LEMMA FieldsOf ==
    ASSUME IndInv, NEW o \in Op
    PROVE  /\ op[o].same \in BOOLEAN /\ op[o].lock \in {"none", "shared", "exclusive"}
           /\ op[o].step \in Nat /\ op[o].step + 1 \in Nat
<1>1. op[o].same \in BOOLEAN /\ op[o].lock \in {"none", "shared", "exclusive"} /\ op[o].step \in Nat
    BY DEF IndInv, OpsFit, Shaped
<1>2. QED  BY <1>1

\* A part of a preview is a function of its store.
LEMMA CurrentStays ==
    ASSUME NEW s, NEW i \in {1, 2, 4}, UNCHANGED <<captures, receipts, investigated>>
    PROVE  Current(s, Parts[i])' = Current(s, Parts[i])
<1>1. CASE i = 1  BY <1>1, PartsAre DEF Current, Of
<1>2. CASE i = 2  BY <1>2, PartsAre DEF Current, Of
<1>3. CASE i = 4  BY <1>3, PartsAre DEF Current, Of
<1>4. QED  BY <1>1, <1>2, <1>3

\* An operation that forgets nothing has nothing to compare.
LEMMA NotRechecking == ASSUME NEW o, op'[o].at # "rechecking" PROVE Rechecked(op[o])'
BY DEF Rechecked

\* The shared guard is taken before the working tree is captured.
LEMMA PrepareFits == ASSUME IndInv, NEW o \in Recovery, NEW s \in Source, Prepare(o, s) PROVE IndInv'
<1>1. o \in Op
    BY DEF Op
<1>2. PICK c \in CaptureWorkingTree(s) :
          op' = [op EXCEPT ![o] = [Resting EXCEPT !.at = "captured", !.src = s, !.lock = "shared", !.cap = c]]
    BY DEF Prepare
<1>3. op'[o] = [at |-> "captured", src |-> s, lock |-> "shared", cap |-> c, had |-> FALSE, step |-> 1,
                same |-> TRUE, shown |-> NothingShown, seen |-> EmptyGraph]
    BY <1>1, <1>2, Before DEF Resting
<1>4. c.src = s /\ IsFiniteSet(c.files)
    BY TreesAreFinite DEF CaptureWorkingTree
<1>5. OpFits(op[o])'
    BY <1>3, <1>4 DEF OpFits, Shaped, Guarded, Kept, Rechecked
<1>6. LockStep(o)
    BY <1>3 DEF LockStep, Prepare
<1>7. QED  BY <1>1, <1>2, <1>5, <1>6, Reads DEF Prepare, stores

\* A reader takes the shared guard of the source that it located.
LEMMA LocateFits == ASSUME IndInv, NEW o \in Op, NEW s, Locate(o, s) PROVE IndInv'
<1>1. op'[o] = [at |-> "located", src |-> s, lock |-> "shared", cap |-> NoCapture, had |-> FALSE, step |-> 1,
                same |-> TRUE, shown |-> NothingShown, seen |-> EmptyGraph]
    BY Before DEF Resting, Locate
<1>2. OpFits(op[o])'
    BY <1>1 DEF OpFits, Shaped, Guarded, Kept, Rechecked
<1>3. LockStep(o)
    BY <1>1 DEF LockStep, Locate
<1>4. QED  BY <1>2, <1>3, Reads DEF Locate, stores

\* A selection holds no guard.
LEMMA SelectFits == ASSUME IndInv, NEW o \in Op, NEW s, Select(o, s) PROVE IndInv'
<1>1. op'[o] = [at |-> "selected", src |-> "none", lock |-> "none", cap |-> bound.bind[Fact(s)].receipt,
                had |-> FALSE, step |-> 1, same |-> TRUE, shown |-> NothingShown, seen |-> bound]
    BY Before DEF Resting, Select
<1>2. OpFits(op[o])'
    BY <1>1 DEF OpFits, Shaped, Guarded, Kept, Rechecked
<1>3. LockStep(o)
    BY <1>1 DEF LockStep
<1>4. QED  BY <1>2, <1>3, Reads DEF Select, stores

\* The receipt found under the guard is of the guarded source.
LEMMA BindFits == ASSUME IndInv, NEW o \in Op, Bind(o) PROVE IndInv'
<1>1. CASE Return(o)
    BY <1>1, Returns DEF Bind, stores
<1>2. CASE ~Return(o)
    <2>1. PICK b \in CurrentSourceBinding(bound, Fact(op[o].src)) :
              op' = [op EXCEPT ![o].at = "bound", ![o].cap = b.receipt, ![o].had = Readable(b.receipt)]
        BY <1>2 DEF Bind
    <2>a. op'[o] = [op[o] EXCEPT !.at = "bound", !.cap = b.receipt, !.had = Readable(b.receipt)]
        BY <2>1, Before
    <2>b. op'[o] = [at |-> "bound", src |-> op[o].src, lock |-> op[o].lock, cap |-> b.receipt,
                had |-> Readable(b.receipt), step |-> op[o].step,
                same |-> op[o].same, shown |-> op[o].shown, seen |-> op[o].seen]
        BY <2>a, Before DEF Shaped
    <2>2. /\ op'[o].at = "bound" /\ op'[o].cap = b.receipt /\ op'[o].had = Readable(b.receipt)
          /\ op'[o].src = op[o].src /\ op'[o].lock = op[o].lock
          /\ Shaped(op[o])'
        BY <2>b, FieldsOf DEF Shaped
    <2>3. b.receipt.src = op[o].src
        <3>1. Fact(op[o].src) \in DOMAIN bound.bind /\ b = bound.bind[Fact(op[o].src)]
            BY <2>1 DEF CurrentSourceBinding
        <3>2. Fact(op[o].src) = Fact(b.receipt.src)
            BY <3>1 DEF IndInv, BindingsFit
        <3>3. QED  BY <3>2 DEF Fact, NodeKey
    <2>4. op[o].lock = "shared"
        BY Before DEF Guarded, Bind
    <2>5. Kept(op[o])'
        BY <2>2 DEF Kept, Readable, ReadObject, Bind
    <2>6. OpFits(op[o])'
        BY <2>2, <2>3, <2>4, <2>5, NotRechecking DEF OpFits, Guarded
    <2>7. LockStep(o)
        BY <2>2 DEF LockStep
    <2>8. Only(o) /\ UNCHANGED <<stores, bound, forgotten>>
        BY <2>1, Before DEF Only, Bind, stores
    <2>9. QED  BY <2>6, <2>7, <2>8, QuietStep, BindingsStay
<1>3. QED  BY <1>1, <1>2

\* An investigation takes the guard of the source of its receipt.
LEMMA AcquireFits == ASSUME IndInv, NEW o \in Op, Acquire(o) PROVE IndInv'
<1>a. op'[o] = [op[o] EXCEPT !.at = "acquired", !.src = op[o].cap.src, !.lock = "shared", !.had = Readable(op[o].cap)]
    BY Before DEF Acquire
<1>b. op'[o] = [at |-> "acquired", src |-> op[o].cap.src, lock |-> "shared", cap |-> op[o].cap,
                had |-> Readable(op[o].cap), step |-> op[o].step,
                same |-> op[o].same, shown |-> op[o].shown, seen |-> op[o].seen]
    BY <1>a, Before DEF Shaped
<1>1. /\ op'[o].at = "acquired" /\ op'[o].cap = op[o].cap /\ op'[o].had = Readable(op[o].cap)
      /\ op'[o].src = op[o].cap.src /\ op'[o].lock = "shared"
    BY <1>b, Before DEF Guarded, Acquire
<1>s. Shaped(op[o])'
    BY <1>b, FieldsOf DEF Shaped
<1>2. Kept(op[o])'
    <2>1. UNCHANGED <<captures, objects>>
        BY DEF Acquire
    <2>2. QED  BY <1>1, <2>1 DEF Kept, Readable, ReadObject
<1>3. OpFits(op[o])'
    BY <1>s, <1>1, <1>2, NotRechecking DEF OpFits, Guarded
<1>4. LockStep(o)
    BY <1>1 DEF LockStep, Acquire
<1>5. QED  BY <1>3, <1>4, Reads DEF Acquire, stores

\* A preview takes the shared guard.
LEMMA StartPreviewFits == ASSUME IndInv, NEW o \in Op, NEW s, StartPreview(o, s) PROVE IndInv'
<1>1. op'[o] = [at |-> "looking", src |-> s, lock |-> "shared", cap |-> NoCapture, had |-> FALSE, step |-> 1,
                same |-> TRUE, shown |-> NothingShown, seen |-> EmptyGraph]
    BY Before DEF Resting, StartPreview
<1>2. OpFits(op[o])'
    BY <1>1 DEF OpFits, Shaped, Guarded, Kept, Rechecked
<1>3. LockStep(o)
    BY <1>1 DEF LockStep, StartPreview
<1>4. QED  BY <1>2, <1>3, Reads DEF StartPreview, stores

\* One store is looked at under it.
LEMMA LookAndShowFits == ASSUME IndInv, NEW o \in Op, LookAndShow(o) PROVE IndInv'
<1>a. op'[o] = [op[o] EXCEPT
                !.shown = [op[o].shown EXCEPT ![Parts[op[o].step]] = Current(op[o].src, Parts[op[o].step])],
                !.step = op[o].step + 1]
    BY Before DEF LookAndShow
<1>b. op'[o] = [at |-> op[o].at, src |-> op[o].src, lock |-> op[o].lock, cap |-> op[o].cap,
                had |-> op[o].had, step |-> op[o].step + 1, same |-> op[o].same,
                shown |-> [op[o].shown EXCEPT ![Parts[op[o].step]] = Current(op[o].src, Parts[op[o].step])], seen |-> op[o].seen]
    BY <1>a, Before DEF Shaped
<1>1. /\ op'[o].at = "looking" /\ op'[o].cap = op[o].cap /\ op'[o].step = op[o].step + 1
      /\ op'[o].src = op[o].src /\ op'[o].lock = op[o].lock
    BY <1>b, Before DEF Guarded, LookAndShow
<1>s. Shaped(op[o])'
    BY <1>b, FieldsOf DEF Shaped
<1>2. OpFits(op[o])'
    BY <1>s, <1>1, Before, NotRechecking DEF OpFits, Guarded, Kept, LookAndShow
<1>3. LockStep(o)
    BY <1>1 DEF LockStep
<1>4. QED  BY <1>2, <1>3, Reads DEF LookAndShow, stores

\* The preview is shown without a guard.
LEMMA ShowFits == ASSUME IndInv, NEW o \in Op, Show(o) PROVE IndInv'
<1>1. /\ op'[o].at = "shown" /\ op'[o].step = 1 /\ op'[o].lock = "none"
      /\ Shaped(op[o])'
    BY Before DEF Shaped, Show, Resting
<1>2. OpFits(op[o])'
    BY <1>1, NotRechecking DEF OpFits, Guarded, Kept
<1>3. LockStep(o)
    BY <1>1 DEF LockStep
<1>4. QED  BY <1>2, <1>3, Reads DEF Show, stores

\* The forget takes the exclusive guard of the source shown; nothing is compared yet.
LEMMA StartForgetFits == ASSUME IndInv, NEW o \in Op, StartForget(o) PROVE IndInv'
<1>a. op'[o] = [op[o] EXCEPT !.at = "rechecking", !.src = op[o].cap.src, !.lock = "exclusive"]
    BY Before DEF StartForget
<1>b. op'[o] = [at |-> "rechecking", src |-> op[o].cap.src, lock |-> "exclusive", cap |-> op[o].cap,
                had |-> op[o].had, step |-> op[o].step,
                same |-> op[o].same, shown |-> op[o].shown, seen |-> op[o].seen]
    BY <1>a, Before DEF Shaped
<1>1. /\ op'[o].at = "rechecking" /\ op'[o].step = 1 /\ op'[o].lock = "exclusive"
      /\ op'[o].src = op[o].cap.src /\ op'[o].cap = op[o].cap
    BY <1>b, Before DEF Guarded, StartForget
<1>s. Shaped(op[o])'
    BY <1>b, FieldsOf DEF Shaped
<1>2. Rechecked(op[o])'
    BY <1>1, PartsAre DEF Rechecked
<1>3. OpFits(op[o])'
    BY <1>s, <1>1, <1>2 DEF OpFits, Guarded, Kept
<1>4. LockStep(o)
    BY <1>1 DEF LockStep, StartForget
<1>5. QED  BY <1>3, <1>4, Reads DEF StartForget, stores

\* Under the exclusive guard: what was compared with the preview stays compared.
LEMMA LookAgainFits == ASSUME IndInv, NEW o \in Op, LookAgain(o) PROVE IndInv'
<1>a. op'[o] = [op[o] EXCEPT !.same = op[o].same /\ SamePart(o, Parts[op[o].step]), !.step = op[o].step + 1]
    BY Before DEF LookAgain
<1>b. op'[o] = [at |-> op[o].at, src |-> op[o].src, lock |-> op[o].lock, cap |-> op[o].cap,
                had |-> op[o].had, step |-> op[o].step + 1,
                same |-> (op[o].same /\ SamePart(o, Parts[op[o].step])), shown |-> op[o].shown, seen |-> op[o].seen]
    BY <1>a, Before DEF Shaped
<1>c. (op[o].same /\ SamePart(o, Parts[op[o].step])) \in BOOLEAN
    OBVIOUS
<1>1. /\ op'[o].at = "rechecking" /\ op'[o].step = op[o].step + 1 /\ op'[o].lock = op[o].lock
      /\ op'[o].src = op[o].src /\ op'[o].cap = op[o].cap /\ op'[o].shown = op[o].shown
      /\ op'[o].same = (op[o].same /\ SamePart(o, Parts[op[o].step]))
    BY <1>b DEF LookAgain
<1>s. Shaped(op[o])'
    BY <1>b, <1>c, FieldsOf DEF Shaped
<1>2. Rechecked(op[o])'
    <2> SUFFICES ASSUME op'[o].same, NEW i \in 1 .. Len(Parts), i < op[o].step + 1, Parts[i] # "bindings"
                 PROVE  Current(op[o].src, Parts[i])' = op[o].shown[Parts[i]]
        BY <1>1, PartsAre DEF Rechecked
    <2>1. op[o].same /\ SamePart(o, Parts[op[o].step])
        BY <1>1
    <2>2. Current(op[o].src, Parts[i]) = op[o].shown[Parts[i]]
        <3>1. CASE i < op[o].step
            BY <2>1, <3>1, Before DEF Rechecked, LookAgain
        <3>2. CASE i = op[o].step
            BY <2>1, <3>2 DEF SamePart
        <3>3. QED  BY <3>1, <3>2, FieldsOf, PartsAre
    <2>3. i \in {1, 2, 4}
        BY PartsAre
    <2>4. PICK s : s = op[o].src
        OBVIOUS
    <2>5. Current(s, Parts[i])' = Current(s, Parts[i])
        BY <2>3, CurrentStays DEF LookAgain
    <2>6. QED  BY <1>1, <2>2, <2>4, <2>5
<1>3. OpFits(op[o])'
    BY <1>s, <1>1, <1>2, Before DEF OpFits, Guarded, Kept, LookAgain
<1>4. LockStep(o)
    BY <1>1 DEF LockStep
<1>5. QED  BY <1>3, <1>4, Reads DEF LookAgain, stores

\* A forget that found a difference returns.
LEMMA RefuseForgetFits == ASSUME IndInv, NEW o \in Op, RefuseForget(o) PROVE IndInv'
BY Returns DEF RefuseForget, stores

\* A failure, a cancel or a return drops the guard.
LEMMA StopFits == ASSUME IndInv, NEW o \in Op, Stop(o) PROVE IndInv'
BY Returns DEF Stop, stores

-----------------------------------------------------------------------------
(* The steps that write a store, under the guard of the source they write. *)

\* Nothing of another source than o's changes.
OnlyOf(o) ==
    \A s : s # op[o].src =>
        /\ Of(captures', s) = Of(captures, s)
        /\ Of(receipts', s) = Of(receipts, s)
        /\ Of(investigated', s) = Of(investigated, s)

\* A forget elsewhere has an exclusive guard, so it is of another source.
LEMMA OthersStayCompared ==
    ASSUME IndInv, NEW o \in Op, op[o].lock # "none", Only(o), OnlyOf(o), NEW q \in Op \ {o}
    PROVE  Rechecked(op[q])'
<1>1. op'[q] = op[q] /\ Rechecked(op[q]) /\ Guarded(op[q])
    BY DEF Only, IndInv, OpsFit
<1> SUFFICES ASSUME op[q].at = "rechecking", op[q].same, NEW i \in 1 .. Len(Parts),
                    i < op[q].step, Parts[i] # "bindings"
             PROVE  Current(op[q].src, Parts[i])' = op[q].shown[Parts[i]]
    BY <1>1, PartsAre DEF Rechecked
<1>2. Current(op[q].src, Parts[i]) = op[q].shown[Parts[i]]
    BY <1>1 DEF Rechecked
<1>3. op[q].src # op[o].src
    BY <1>1 DEF Guarded, IndInv, GuardsExclude
<1>4. PICK s : s = op[q].src
    OBVIOUS
<1>5. Of(captures, s)' = Of(captures, s) /\ Of(receipts, s)' = Of(receipts, s)
      /\ Of(investigated, s)' = Of(investigated, s)
    BY <1>3, <1>4 DEF OnlyOf, Of
<1>6. i \in {1, 2, 4}
    BY PartsAre
<1>7. Current(s, Parts[i])' = Current(s, Parts[i])
    <2>1. CASE i = 1  BY <2>1, <1>5, PartsAre DEF Current
    <2>2. CASE i = 2  BY <2>2, <1>5, PartsAre DEF Current
    <2>3. CASE i = 4  BY <2>3, <1>5, PartsAre DEF Current
    <2>4. QED  BY <1>6, <2>1, <2>2, <2>3
<1>8. QED  BY <1>1, <1>2, <1>4, <1>7

\* The place an operation comes to, when only that changes.
LEMMA ToPlace ==
    ASSUME IndInv, NEW o \in Op, NEW at, op' = [op EXCEPT ![o].at = at]
    PROVE  /\ op'[o].at = at /\ op'[o].cap = op[o].cap /\ op'[o].src = op[o].src
           /\ op'[o].lock = op[o].lock
           /\ Only(o) /\ LockStep(o) /\ Shaped(op[o])'
<1>1. op'[o] = [op[o] EXCEPT !.at = at] /\ Only(o)
    BY Before DEF Only
<1>2. op'[o] = [at |-> at, src |-> op[o].src, lock |-> op[o].lock, cap |-> op[o].cap,
                had |-> op[o].had, step |-> op[o].step, same |-> op[o].same,
                shown |-> op[o].shown, seen |-> op[o].seen]
    <2>1. PICK r : r = op[o]
        OBVIOUS
    <2>2. Shaped(r)
        BY <2>1, Before
    <2>3. [r EXCEPT !.at = at] = [at |-> at, src |-> r.src, lock |-> r.lock, cap |-> r.cap, had |-> r.had,
                                  step |-> r.step, same |-> r.same, shown |-> r.shown, seen |-> r.seen]
        BY <2>2 DEF Shaped
    <2>4. QED  BY <1>1, <2>1, <2>3
<1>3. LockStep(o)
    BY <1>2 DEF LockStep
<1>4. Shaped(op[o])'
    BY <1>2, FieldsOf DEF Shaped
<1>5. op'[o].at = at /\ op'[o].cap = op[o].cap /\ op'[o].src = op[o].src /\ op'[o].lock = op[o].lock
    BY <1>2
<1>6. QED  BY <1>1, <1>3, <1>4, <1>5

\* persist keeps the store complete and within its limits.
LEMMA CaptureFits ==
    ASSUME IndInv, NEW c, IsFiniteSet(c.files), c \notin captures, Fits(c),
           captures' = captures \cup {c}, objects' = objects \cup c.files
    PROVE  /\ IsFiniteSet(captures') /\ IsFiniteSet(objects')
           /\ RetainedIsComplete' /\ WithinQuota'
<1>1. IsFiniteSet(captures) /\ IsFiniteSet(objects)
    BY DEF IndInv
<1>2. IsFiniteSet(captures') /\ Cardinality(captures') = Cardinality(captures) + 1
    BY <1>1, FS_AddElement
<1>3. IsFiniteSet(c.files \ objects)
    BY FS_Difference
<1>4. objects' = objects \cup (c.files \ objects) /\ objects \cap (c.files \ objects) = {}
    OBVIOUS
<1>5. /\ IsFiniteSet(objects')
      /\ Cardinality(objects') = Cardinality(objects) + Cardinality(c.files \ objects) - Cardinality({})
    BY <1>1, <1>3, <1>4, FS_Union
<1>6. Cardinality(captures) \in Nat /\ Cardinality(objects) \in Nat /\ Cardinality(c.files \ objects) \in Nat
      /\ Cardinality({}) = 0
    BY <1>1, <1>3, FS_CardinalityType, FS_EmptySet
<1>7. WithinQuota'
    BY <1>2, <1>5, <1>6, LimitsAreCounts DEF WithinQuota, StoredRows, Fits
<1>8. RetainedIsComplete'
    BY DEF IndInv, RetainedIsComplete
<1>9. QED  BY <1>2, <1>5, <1>7, <1>8

\* A capture is added under the shared guard of its source.
LEMMA PersistCaptureFits == ASSUME IndInv, NEW o \in Op, PersistCapture(o) PROVE IndInv'
<1>1. Guarded(op[o]) /\ op[o].at = "captured"
    BY Before DEF PersistCapture
<1>2. CASE Return(o) /\ UNCHANGED <<captures, objects, forgotten>>
    BY <1>2, Returns DEF PersistCapture, stores
<1>3. CASE op[o].cap \in captures /\ op' = [op EXCEPT ![o].at = "stored"]
           /\ UNCHANGED <<captures, objects, forgotten>>
    <2>1. OpFits(op[o])'
        <3>1. /\ op'[o].at = "stored" /\ op'[o].cap = op[o].cap /\ op'[o].src = op[o].src
              /\ op'[o].lock = op[o].lock /\ Shaped(op[o])'
            BY <1>3, ToPlace
        <3>2. Guarded(op[o])'
            BY <1>1, <3>1 DEF Guarded
        <3>3. Kept(op[o])'
            BY <1>1, <1>3, <3>1 DEF Kept
        <3>4. QED  BY <3>1, <3>2, <3>3, NotRechecking DEF OpFits
    <2>2. QED  BY <1>3, <2>1, ToPlace, Reads DEF PersistCapture, stores
<1>4. CASE /\ op[o].cap \notin captures /\ Fits(op[o].cap)
           /\ captures' = captures \cup {op[o].cap} /\ objects' = objects \cup op[o].cap.files
           /\ forgotten' = forgotten \ {op[o].cap}
           /\ op' = [op EXCEPT ![o].at = "stored"]
    <2>1. OpFits(op[o])'
        <3>1. /\ op'[o].at = "stored" /\ op'[o].cap = op[o].cap /\ op'[o].src = op[o].src
              /\ op'[o].lock = op[o].lock /\ Shaped(op[o])'
            BY <1>4, ToPlace
        <3>2. Guarded(op[o])'
            BY <1>1, <3>1 DEF Guarded
        <3>3. Kept(op[o])'
            BY <1>1, <1>4, <3>1 DEF Kept
        <3>4. QED  BY <3>1, <3>2, <3>3, NotRechecking DEF OpFits
    <2>2. UNCHANGED <<receipts, bound, investigated>>
        BY DEF PersistCapture
    <2>3. op[o].lock # "none" /\ op[o].cap.src = op[o].src /\ IsFiniteSet(op[o].cap.files)
        BY <1>1 DEF Guarded
    <2>4. OnlyOf(o)
        BY <1>4, <2>2, <2>3 DEF OnlyOf, Of
    <2>5. ASSUME NEW q \in Op \ {o} PROVE Kept(op[q])' /\ Rechecked(op[q])'
        <3>1. op'[q] = op[q] /\ Kept(op[q])
            BY <1>4, ToPlace DEF Only, IndInv, OpsFit
        <3>2. Kept(op[q])'
            BY <1>4, <2>2, <3>1 DEF Kept, Readable, ReadObject
        <3>3. QED  BY <1>4, <2>3, <2>4, <3>2, ToPlace, OthersStayCompared
    <2>6. OpsFit' /\ GuardsExclude'
        BY <1>4, <2>1, <2>5, ToPlace, Step
    <2>7. /\ IsFiniteSet(captures') /\ IsFiniteSet(objects')
          /\ RetainedIsComplete' /\ WithinQuota'
        BY <1>4, <2>3, CaptureFits
    <2>8. BindingsFit' /\ BindingIsBacked'
        BY <1>4, <2>2 DEF IndInv, BindingsFit, BindingIsBacked
    <2>9. QED  BY <1>4, <2>6, <2>7, <2>8, ToPlace DEF IndInv, Only
<1>5. QED  BY <1>2, <1>3, <1>4 DEF PersistCapture

\* Receipts and citations are only added.
LEMMA PersistReceiptsFits == ASSUME IndInv, NEW o \in Op, PersistReceipts(o) PROVE IndInv'
<1>1. Guarded(op[o]) /\ Kept(op[o]) /\ op[o].at = "stored"
      /\ UNCHANGED <<captures, objects, bound, investigated, forgotten>>
    BY Before DEF PersistReceipts
<1>2. CASE Return(o) /\ UNCHANGED receipts
    BY <1>1, <1>2, Returns DEF stores
<1>3. CASE receipts' = receipts \cup {op[o].cap} /\ op' = [op EXCEPT ![o].at = "receipted"]
    <2>1. OpFits(op[o])'
        <3>1. /\ op'[o].at = "receipted" /\ op'[o].cap = op[o].cap /\ op'[o].src = op[o].src
              /\ op'[o].lock = op[o].lock /\ Shaped(op[o])'
            BY <1>3, ToPlace
        <3>2. Guarded(op[o])'
            BY <1>1, <3>1 DEF Guarded
        <3>3. Kept(op[o])'
            BY <1>1, <1>3, <3>1 DEF Kept
        <3>4. QED  BY <3>1, <3>2, <3>3, NotRechecking DEF OpFits
    <2>2. op[o].lock # "none" /\ op[o].cap.src = op[o].src
        BY <1>1 DEF Guarded
    <2>3. OnlyOf(o)
        BY <1>1, <1>3, <2>2 DEF OnlyOf, Of
    <2>4. ASSUME NEW q \in Op \ {o} PROVE Kept(op[q])' /\ Rechecked(op[q])'
        <3>1. op'[q] = op[q] /\ Kept(op[q])
            BY <1>3, ToPlace DEF Only, IndInv, OpsFit
        <3>2. Kept(op[q])'
            BY <1>1, <1>3, <3>1 DEF Kept, Readable, ReadObject
        <3>3. QED  BY <1>3, <2>2, <2>3, <3>2, ToPlace, OthersStayCompared
    <2>5. OpsFit' /\ GuardsExclude'
        BY <1>3, <2>1, <2>4, ToPlace, Step
    <2>6. /\ IsFiniteSet(captures)' /\ IsFiniteSet(objects)' /\ RetainedIsComplete' /\ WithinQuota'
          /\ BindingsFit' /\ BindingIsBacked'
        BY <1>1, <1>3 DEF IndInv, RetainedIsComplete, WithinQuota, StoredRows, BindingsFit, BindingIsBacked
    <2>7. QED  BY <1>3, <2>5, <2>6, ToPlace DEF IndInv, Only
<1>4. QED  BY <1>2, <1>3 DEF PersistReceipts

\* A citation is added under the shared guard of its source.
LEMMA CiteFits == ASSUME IndInv, NEW o \in Op, Cite(o) PROVE IndInv'
<1>1. Guarded(op[o]) /\ Kept(op[o]) /\ op[o].at = "acquired"
      /\ UNCHANGED <<captures, objects, receipts, bound, forgotten>>
    BY Before DEF Cite
<1>2. CASE Return(o) /\ UNCHANGED investigated
    BY <1>1, <1>2, Returns DEF stores
<1>3. CASE investigated' = investigated \cup {op[o].cap}
           /\ op' = [op EXCEPT ![o].at = "bound", ![o].seen = EmptyGraph]
    <2>1. Only(o) /\ op'[o] = [op[o] EXCEPT !.at = "bound", !.seen = EmptyGraph]
        BY <1>3, Before DEF Only
    <2>2. op'[o] = [at |-> "bound", src |-> op[o].src, lock |-> op[o].lock, cap |-> op[o].cap,
                    had |-> op[o].had, step |-> op[o].step, same |-> op[o].same,
                    shown |-> op[o].shown, seen |-> EmptyGraph]
        BY <2>1, Before DEF Shaped
    <2>3. Shaped(op[o])' /\ LockStep(o)
        BY <2>2, FieldsOf DEF Shaped, LockStep
    <2>4. Kept(op[o])'
        BY <1>1, <2>2 DEF Kept, Readable, ReadObject
    <2>5. OpFits(op[o])'
        BY <1>1, <2>2, <2>3, <2>4, NotRechecking DEF OpFits, Guarded
    <2>6. op[o].lock # "none" /\ op[o].cap.src = op[o].src
        BY <1>1 DEF Guarded
    <2>7. OnlyOf(o)
        BY <1>1, <1>3, <2>6 DEF OnlyOf, Of
    <2>8. ASSUME NEW q \in Op \ {o} PROVE Kept(op[q])' /\ Rechecked(op[q])'
        <3>1. op'[q] = op[q] /\ Kept(op[q])
            BY <2>1 DEF Only, IndInv, OpsFit
        <3>2. Kept(op[q])'
            BY <1>1, <3>1 DEF Kept, Readable, ReadObject
        <3>3. QED  BY <2>1, <2>6, <2>7, <3>2, OthersStayCompared
    <2>9. OpsFit' /\ GuardsExclude'
        BY <2>1, <2>3, <2>5, <2>8, Step
    <2>10. /\ IsFiniteSet(captures)' /\ IsFiniteSet(objects)' /\ RetainedIsComplete' /\ WithinQuota'
           /\ BindingsFit' /\ BindingIsBacked'
        BY <1>1, <1>3 DEF IndInv, RetainedIsComplete, WithinQuota, StoredRows, BindingsFit, BindingIsBacked
    <2>11. QED  BY <2>1, <2>9, <2>10 DEF IndInv, Only
<1>4. QED  BY <1>2, <1>3 DEF Cite

\* A publication binds the fact of the capture to its receipt, and no other fact anew.
LEMMA PublishBinds ==
    ASSUME NEW c, NEW row, NEW binding, DOMAIN binding = {Fact(c.src)},
           binding[Fact(c.src)].receipt = c, BindingsFit,
           bound' = PublishWithBindings(bound, [EmptyPatch EXCEPT !.nodes = row], c.src, binding)
    PROVE  /\ bound' = [facts |-> bound'.facts, bind |-> bound'.bind]
           /\ \A k \in DOMAIN bound'.bind :
                 \/ k = Fact(c.src) /\ bound'.bind[k].receipt = c
                 \/ k \in DOMAIN bound.bind /\ bound'.bind[k] = bound.bind[k]
<1> DEFINE patch == [EmptyPatch EXCEPT !.nodes = row]
           rest == Restrict(bound.bind, {k \in DOMAIN bound.bind : bound.bind[k].repo # c.src})
           others == [bound EXCEPT !.bind = rest]
           gone == Invalidated(others, patch)
           added == [k \in DOMAIN binding |-> [repo |-> c.src, receipt |-> binding[k].receipt,
                                               digest |-> binding[k].digest]]
           left == Without(rest, gone)
<1>1. others = [facts |-> bound.facts, bind |-> rest]
    BY DEF BindingsFit
<1>2. ApplyPatchRows(others, patch) = [facts |-> PatchedFacts(others, patch), bind |-> left]
    BY <1>1 DEF ApplyPatchRows
<1>3. bound' = [facts |-> PatchedFacts(others, patch), bind |-> Over(left, added)]
    BY <1>2 DEF PublishWithBindings
<1>4. \A k \in DOMAIN left : k \in DOMAIN bound.bind /\ left[k] = bound.bind[k]
    BY DEF Without, Restrict
<1>5. \A k \in DOMAIN added : k = Fact(c.src) /\ added[k].receipt = c
    OBVIOUS
<1> HIDE DEF left, added, others, patch
<1>6. QED  BY <1>3, <1>4, <1>5 DEF Over

\* A publication binds to a capture and a receipt that are stored.
LEMMA PublishFits == ASSUME IndInv, NEW o \in Op, Publish(o) PROVE IndInv'
<1>1. PICK c : c = op[o].cap
    OBVIOUS
<1> DEFINE row == [k \in {Fact(c.src)} |-> c.files]
           binding == [k \in {Fact(c.src)} |-> [receipt |-> c, digest |-> c.files]]
<1>2. bound' = PublishWithBindings(bound, [EmptyPatch EXCEPT !.nodes = row], c.src, binding)
    BY <1>1 DEF Publish
<1>3. DOMAIN binding = {Fact(c.src)} /\ binding[Fact(c.src)].receipt = c
    OBVIOUS
<1>4. BindingsFit
    BY DEF IndInv
<1> HIDE DEF row, binding
<1>5. /\ bound' = [facts |-> bound'.facts, bind |-> bound'.bind]
      /\ \A k \in DOMAIN bound'.bind :
            \/ k = Fact(c.src) /\ bound'.bind[k].receipt = c
            \/ k \in DOMAIN bound.bind /\ bound'.bind[k] = bound.bind[k]
    BY <1>2, <1>3, <1>4, PublishBinds
<1>6. Guarded(op[o]) /\ Kept(op[o]) /\ op[o].at = "receipted" /\ op' = [op EXCEPT ![o].at = "published"]
      /\ UNCHANGED <<stores, forgotten>>
    BY Before DEF Publish, stores
<1>7. c \in captures /\ c \in receipts
    BY <1>1, <1>6 DEF Kept
<1>8. BindingsFit'
    BY <1>4, <1>5 DEF BindingsFit
<1>9. BindingIsBacked'
    BY <1>5, <1>6, <1>7 DEF BindingIsBacked, IndInv, stores
<1>10. /\ op'[o].at = "published" /\ op'[o].lock = op[o].lock
       /\ Only(o) /\ LockStep(o) /\ Shaped(op[o])'
    BY <1>6, ToPlace
<1>11. OpFits(op[o])'
    BY <1>6, <1>10, NotRechecking DEF OpFits, Guarded, Kept
<1>12. QED  BY <1>6, <1>8, <1>9, <1>10, <1>11, QuietStep

\* While the stores and the operations stay, the operations fit.
LEMMA AllStay ==
    ASSUME IndInv, UNCHANGED <<stores, op>>
    PROVE  OpsFit'
<1> SUFFICES ASSUME NEW q \in Op
             PROVE  Shaped(op[q])' /\ Guarded(op[q])' /\ Kept(op[q])' /\ Rechecked(op[q])'
    BY DEF OpsFit
<1>1. op'[q] = op[q] /\ Shaped(op[q]) /\ Guarded(op[q]) /\ Kept(op[q]) /\ Rechecked(op[q])
    BY Before
<1>2. Shaped(op[q])' /\ Guarded(op[q])'
    BY <1>1 DEF Shaped, Guarded
<1>3. Kept(op[q])'
    BY <1>1 DEF Kept, Readable, ReadObject, stores
<1>4. Rechecked(op[q])'
    <2> SUFFICES ASSUME op[q].at = "rechecking", op[q].same, NEW i \in 1 .. Len(Parts),
                        i < op[q].step, Parts[i] # "bindings"
                 PROVE  Current(op[q].src, Parts[i])' = op[q].shown[Parts[i]]
        BY <1>1, PartsAre DEF Rechecked
    <2>1. Current(op[q].src, Parts[i]) = op[q].shown[Parts[i]]
        BY <1>1 DEF Rechecked
    <2>2. i \in {1, 2, 4}
        BY PartsAre
    <2>3. PICK s : s = op[q].src
        OBVIOUS
    <2>4. Current(s, Parts[i])' = Current(s, Parts[i])
        BY <2>2, CurrentStays DEF stores
    <2>5. QED  BY <1>1, <2>1, <2>3, <2>4
<1>5. QED  BY <1>2, <1>3, <1>4

\* A clear removes bindings only.
LEMMA ClearBindingsFits == ASSUME IndInv, ClearBindings PROVE IndInv'
<1>1. UNCHANGED <<captures, objects, receipts, investigated, op, forgotten>>
    BY DEF ClearBindings
<1>2. PICK facts, gone : bound' = [facts |-> facts, bind |-> Without(bound.bind, gone)]
    BY DEF ClearBindings, Clear, ApplyPatchRows
<1>3. \A k \in DOMAIN bound'.bind : k \in DOMAIN bound.bind /\ bound'.bind[k] = bound.bind[k]
    BY <1>2 DEF Without, Restrict
<1>4. BindingsFit'
    BY <1>2, <1>3 DEF IndInv, BindingsFit
<1>5. BindingIsBacked'
    BY <1>1, <1>3 DEF IndInv, BindingIsBacked
<1>6. OpsFit'
    BY <1>1, AllStay DEF stores
<1>7. GuardsExclude' /\ RetainedIsComplete' /\ WithinQuota'
    BY <1>1 DEF IndInv, GuardsExclude, RetainedIsComplete, WithinQuota, StoredRows
<1>8. QED  BY <1>1, <1>4, <1>5, <1>6, <1>7 DEF IndInv

\* What another source's captures name is not removable.
LEMMA ForgetKeepsOthers ==
    ASSUME RetainedIsComplete, NEW s, captures' = captures \ Of(captures, s), objects' = objects \ Removable(s)
    PROVE  /\ RetainedIsComplete'
           /\ \A c : c.src # s /\ Readable(c) => Readable(c)'
<1> DEFINE mine == UNION {c.files : c \in Of(captures, s)}
           theirs == UNION {c.files : c \in captures \ Of(captures, s)}
<1>a. Removable(s) = mine \ theirs
    BY DEF Removable
<1>b. \A d : d \in mine <=> \E c \in Of(captures, s) : d \in c.files
    OBVIOUS
<1>c. \A d : d \in theirs <=> \E c \in captures' : d \in c.files
    OBVIOUS
<1> HIDE DEF mine, theirs
<1>1. RetainedIsComplete'
    <2>1. ASSUME NEW d \in objects' PROVE \E c \in captures' : d \in c.files
        <3>1. PICK c \in captures : d \in c.files
            BY <2>1 DEF RetainedIsComplete
        <3>2. CASE c \in Of(captures, s)
            <4>1. d \in theirs
                BY <1>a, <1>b, <2>1, <3>1, <3>2
            <4>2. QED  BY <1>c, <4>1
        <3>3. QED  BY <3>1, <3>2
    <2>2. ASSUME NEW c \in captures', NEW d \in c.files PROVE d \in objects'
        <3>1. d \in objects
            BY <2>2 DEF RetainedIsComplete
        <3>2. d \notin Removable(s)
            BY <1>a, <1>c, <2>2
        <3>3. QED  BY <3>1, <3>2
    <2>3. objects' = UNION {c.files : c \in captures'}
        BY <2>1, <2>2
    <2>4. QED  BY <2>3 DEF RetainedIsComplete
<1>2. ASSUME NEW c, c.src # s, Readable(c) PROVE Readable(c)'
    <2>1. c \in captures'
        BY <1>2 DEF Readable, Of
    <2>2. \A digest \in c.files : digest \in objects'
        BY <1>1, <2>1 DEF RetainedIsComplete
    <2>3. QED  BY <2>1, <2>2 DEF Readable, ReadObject
<1>3. QED  BY <1>1, <1>2

\* A forget takes the captures of a source that nobody else has under guard.
LEMMA ForgetSourceFits == ASSUME IndInv, NEW o \in Op, ForgetSource(o) PROVE IndInv'
<1>1. PICK s : s = op[o].src
    OBVIOUS
<1>2. /\ captures' = captures \ Of(captures, s) /\ objects' = objects \ Removable(s)
      /\ forgotten' = forgotten \cup Of(captures, s) /\ Return(o)
      /\ UNCHANGED <<receipts, bound, investigated>>
    BY <1>1 DEF ForgetSource
<1>3. op[o].lock = "exclusive"
    BY Before DEF Guarded, ForgetSource
<1>4. Only(o) /\ op'[o] = Resting
    BY <1>2 DEF Return, Only, IndInv
<1>5. OpFits(op[o])' /\ LockStep(o)
    BY <1>4, RestingFitsNext DEF LockStep, Resting
<1>6. RetainedIsComplete' /\ \A c : c.src # s /\ Readable(c) => Readable(c)'
    BY <1>2, ForgetKeepsOthers DEF IndInv
<1>7. OnlyOf(o)
    BY <1>1, <1>2 DEF OnlyOf, Of
<1>8. ASSUME NEW q \in Op \ {o} PROVE Kept(op[q])' /\ Rechecked(op[q])'
    <2>1. op'[q] = op[q] /\ Kept(op[q]) /\ Guarded(op[q])
        BY <1>4 DEF Only, IndInv, OpsFit
    <2>2. op[q].lock # "none" => op[q].src # s
        BY <1>1, <1>3 DEF IndInv, GuardsExclude
    <2>3. op[q].at \in {"stored", "receipted", "acquired", "bound"} => op[q].cap.src # s
        BY <2>1, <2>2 DEF Guarded
    <2>4. PICK c : c = op[q].cap
        OBVIOUS
    <2>5. op[q].at \in {"stored", "receipted"} => c \in captures'
        BY <1>2, <2>1, <2>3, <2>4 DEF Kept, Of
    <2>6. op[q].at \in {"acquired", "bound"} /\ op[q].had => Readable(c)'
        BY <1>6, <2>1, <2>3, <2>4 DEF Kept
    <2>7. Kept(op[q])'
        BY <1>2, <2>1, <2>4, <2>5, <2>6 DEF Kept
    <2>8. QED  BY <1>3, <1>4, <1>7, <2>7, OthersStayCompared
<1>9. OpsFit' /\ GuardsExclude'
    BY <1>4, <1>5, <1>8, Step
<1>10. /\ IsFiniteSet(captures') /\ IsFiniteSet(objects')
       /\ Cardinality(captures') <= Cardinality(captures) /\ Cardinality(objects') <= Cardinality(objects)
    BY <1>2, FS_Subset DEF IndInv
<1>11. WithinQuota'
    <2>1. /\ Cardinality(captures) \in Nat /\ Cardinality(objects) \in Nat
          /\ Cardinality(captures') \in Nat /\ Cardinality(objects') \in Nat
        BY <1>10, FS_CardinalityType DEF IndInv
    <2>2. QED  BY <1>10, <2>1, LimitsAreCounts DEF IndInv, WithinQuota, StoredRows
<1>12. BindingsFit' /\ BindingIsBacked'
    BY <1>2 DEF IndInv, BindingsFit, BindingIsBacked
<1>13. QED  BY <1>4, <1>6, <1>9, <1>10, <1>11, <1>12 DEF IndInv, Only

-----------------------------------------------------------------------------
(* The theorems.                                                           *)

\* No operation has begun and the stores are empty.
LEMMA InitFits == Init => IndInv
<1> SUFFICES ASSUME Init PROVE IndInv
    OBVIOUS
<1>1. \A o \in Op : op[o] = Resting
    BY DEF Init
<1>2. OpsFit
    BY <1>1, RestingFits DEF OpsFit, OpFits
<1>3. GuardsExclude
    BY <1>1 DEF GuardsExclude, Resting
<1>4. BindingsFit /\ BindingIsBacked
    BY DEF Init, BindingsFit, BindingIsBacked, EmptyGraph, EmptyFunction
<1>5. IsFiniteSet(captures) /\ IsFiniteSet(objects) /\ WithinQuota
    BY FS_EmptySet, LimitsAreCounts DEF Init, WithinQuota, StoredRows
<1>6. RetainedIsComplete
    BY DEF Init, RetainedIsComplete
<1>7. QED  BY <1>2, <1>3, <1>4, <1>5, <1>6 DEF IndInv, Init

\* Every step keeps the invariant.
LEMMA NextFits == IndInv /\ [Next]_vars => IndInv'
<1> SUFFICES ASSUME IndInv, [Next]_vars PROVE IndInv'
    OBVIOUS
<1>1. ASSUME NEW o \in Recovery,
             (\E s \in Source : Prepare(o, s)) \/ PersistCapture(o) \/ PersistReceipts(o) \/ Publish(o)
      PROVE  IndInv'
    BY <1>1, PrepareFits, PersistCaptureFits, PersistReceiptsFits, PublishFits DEF Op
<1>2. ASSUME NEW o \in Client,
             (\E s \in Asked : Locate(o, s) \/ Select(o, s)) \/ Bind(o) \/ Acquire(o) \/ Cite(o)
      PROVE  IndInv'
    BY <1>2, LocateFits, SelectFits, BindFits, AcquireFits, CiteFits DEF Op
<1>3. ASSUME NEW o \in User,
             \/ \E s \in Asked : StartPreview(o, s)
             \/ LookAndShow(o) \/ Show(o) \/ StartForget(o) \/ LookAgain(o)
             \/ ForgetSource(o) \/ RefuseForget(o)
      PROVE  IndInv'
    BY <1>3, StartPreviewFits, LookAndShowFits, ShowFits, StartForgetFits, LookAgainFits,
       ForgetSourceFits, RefuseForgetFits DEF Op
<1>4. CASE UNCHANGED vars
    <2>1. UNCHANGED <<captures, objects, receipts, bound, investigated, op, forgotten>>
        BY <1>4 DEF vars
    <2>2. OpsFit'
        BY <2>1, AllStay DEF stores
    <2>3. GuardsExclude' /\ RetainedIsComplete' /\ WithinQuota' /\ BindingsFit' /\ BindingIsBacked'
        BY <2>1 DEF IndInv, GuardsExclude, RetainedIsComplete, WithinQuota, StoredRows, BindingsFit,
                    BindingIsBacked
    <2>4. QED  BY <2>1, <2>2, <2>3 DEF IndInv
<1>5. QED
    BY <1>1, <1>2, <1>3, <1>4, StopFits, ClearBindingsFits DEF Next

\* Guards, evidence and bindings fit together in every reachable state.
THEOREM GuardsHold == Spec => []IndInv
BY InitFits, NextFits, PTL DEF Spec

\* The capture store is complete and within its limits, what a reader could read
\* it can read until it returns, and every binding of the graph has its receipt
\* and its capture, or the user forgot it (persist, forget_source, prepare).
THEOREM EvidenceIsBacked == Spec => []RetainedIsBacked
<1>1. IndInv => RetainedIsBacked
    <2> SUFFICES ASSUME IndInv PROVE RetainedIsBacked
        OBVIOUS
    <2>1. HeldIsReadable
        BY DEF IndInv, OpsFit, Kept, HeldIsReadable, Op
    <2>2. QED  BY <2>1 DEF IndInv, RetainedIsBacked
<1>2. QED  BY <1>1, GuardsHold, PTL

\* A forget deletes under the exclusive guard what its preview showed, although
\* the guard was free while the user decided (retention::forget).
THEOREM ForgetsAsShown == Spec => ForgetsWhatWasShown
<1>1. IndInv /\ [Next]_vars =>
        [\A o \in User : ForgetSource(o) =>
          \A p \in {"captures", "receipts", "investigated"} :
              Current(op[o].src, p) = op[o].shown[p]]_vars
    <2> SUFFICES ASSUME IndInv, NEW o \in User, ForgetSource(o),
                        NEW p \in {"captures", "receipts", "investigated"}
                 PROVE  Current(op[o].src, p) = op[o].shown[p]
        OBVIOUS
    <2>1. /\ op[o].at = "rechecking" /\ op[o].same /\ op[o].step > 4
          /\ Rechecked(op[o]) /\ op[o].step \in Nat
        BY Before, FieldsOf, PartsAre DEF Op, ForgetSource
    <2>2. \A i \in 1 .. 4 : Parts[i] # "bindings" => Current(op[o].src, Parts[i]) = op[o].shown[Parts[i]]
        BY <2>1, PartsAre DEF Rechecked
    <2>3. QED  BY <2>2, PartsAre
<1>2. QED  BY <1>1, GuardsHold, PTL DEF Spec, ForgetsWhatWasShown

-----------------------------------------------------------------------------
(***************************************************************************)
(* FrozenContext.  First what a sum, an ordered list of facts, a page and  *)
(* the citations of a page are; then each call in turn: what it builds is  *)
(* a ledger, extends the saved one, and keeps ContextInv.                  *)
(***************************************************************************)

\* The partial sums of a sequence.
Sums(s, f) == f \in [0 .. Len(s) -> Nat] /\ f[0] = 0 /\ \A n \in 1 .. Len(s) : f[n] = f[n - 1] + s[n]

\* A sequence of numbers has partial sums.
LEMMA SumsExist ==
    ASSUME NEW s \in Seq(Nat)
    PROVE  \E f : Sums(s, f)
<1> DEFINE P(k) == \E f : f \in [0 .. k -> Nat] /\ f[0] = 0 /\ \A n \in 1 .. k : f[n] = f[n - 1] + s[n]
           B == {k \in Nat : k <= Len(s) /\ ~P(k)}
<1>1. SUFFICES B = {}
    <2>1. Len(s) \in Nat
        OBVIOUS
    <2>2. B = {} => P(Len(s))
        <3> HIDE DEF P
        <3>1. QED  BY <2>1
    <2>3. QED  BY <2>2 DEF Sums
<1>2. SUFFICES ASSUME B # {} PROVE FALSE
    OBVIOUS
<1> HIDE DEF P
<1>3. PICK k \in B : \A j \in B : ~(<<j, k>> \in OpToRel(<, Nat))
    <2>1. B \subseteq Nat
        OBVIOUS
    <2> HIDE DEF B
    <2>2. QED  BY <1>2, <2>1, WFMin, NatLessThanWellFounded
<1>4. k \in Nat /\ k <= Len(s) /\ ~P(k)
    OBVIOUS
<1>5. CASE k = 0
    <2> DEFINE z == [n \in 0 .. 0 |-> 0]
    <2>1. z \in [0 .. 0 -> Nat] /\ z[0] = 0
        OBVIOUS
    <2> HIDE DEF z
    <2>2. \A n \in 1 .. 0 : z[n] = z[n - 1] + s[n]
        OBVIOUS
    <2>3. P(0)
        BY <2>1, <2>2 DEF P
    <2>4. QED  BY <1>4, <1>5, <2>3
<1>6. CASE k # 0
    <2> DEFINE j == k - 1
    <2>1. j \in Nat /\ j < k /\ j <= Len(s)
        BY <1>4, <1>6
    <2>2. P(j)
        <3>1. <<j, k>> \in OpToRel(<, Nat)
            BY <1>4, <2>1 DEF OpToRel
        <3>2. j \notin B
            BY <1>3, <3>1
        <3>3. QED  BY <2>1, <3>2
    <2>3. PICK f : f \in [0 .. j -> Nat] /\ f[0] = 0 /\ \A n \in 1 .. j : f[n] = f[n - 1] + s[n]
        BY <2>2 DEF P
    <2>4. s[k] \in Nat
        BY <1>4, <1>6
    <2> DEFINE g == [n \in 0 .. k |-> IF n = k THEN f[j] + s[k] ELSE f[n]]
    <2>5. g \in [0 .. k -> Nat]
        BY <1>4, <2>1, <2>3, <2>4
    <2>6. g[0] = 0
        BY <1>6, <2>1, <2>3
    <2>7. \A n \in 1 .. k : g[n] = g[n - 1] + s[n]
        BY <1>4, <1>6, <2>1, <2>3
    <2> HIDE DEF g, j
    <2>8. P(k)
        BY <2>5, <2>6, <2>7 DEF P
    <2>9. QED  BY <1>4, <2>8
<1>7. QED  BY <1>5, <1>6

\* Total is the last one.
LEMMA TotalIs ==
    ASSUME NEW s \in Seq(Nat), NEW f, Sums(s, f)
    PROVE  Total(s) = f[Len(s)]
<1> DEFINE Unrolls(g) == g = [n \in 0 .. Len(s) |-> IF n = 0 THEN 0 ELSE g[n - 1] + s[n]]
           sum == CHOOSE g : Unrolls(g)
<1>1. Total(s) = sum[Len(s)]
    BY DEF Total
<1>2. Len(s) \in Nat
    OBVIOUS
<1>3. Unrolls(f)
    <2> DEFINE h == [n \in 0 .. Len(s) |-> IF n = 0 THEN 0 ELSE f[n - 1] + s[n]]
    <2>1. f \in [0 .. Len(s) -> Nat] /\ f[0] = 0 /\ \A n \in 1 .. Len(s) : f[n] = f[n - 1] + s[n]
        BY DEF Sums
    <2>2. \A n \in 0 .. Len(s) : f[n] = h[n]
        BY <1>2, <2>1
    <2>3. DOMAIN f = 0 .. Len(s) /\ f = [n \in 0 .. Len(s) |-> f[n]]
        BY <2>1
    <2>4. QED  BY <2>2, <2>3
<1>4. Unrolls(sum)
    <2> HIDE DEF Unrolls
    <2>1. QED  BY <1>3
<1>5. /\ \A n \in 0 .. Len(s) : n # 0 => sum[n] = sum[n - 1] + s[n]
      /\ sum[0] = 0
    <2> HIDE DEF sum
    <2>1. \A n \in 0 .. Len(s) : sum[n] = IF n = 0 THEN 0 ELSE sum[n - 1] + s[n]
        BY <1>4
    <2>2. 0 \in 0 .. Len(s)
        BY <1>2
    <2>3. QED  BY <2>1, <2>2
<1> DEFINE B == {k \in Nat : k <= Len(s) /\ sum[k] # f[k]}
<1>6. SUFFICES ASSUME B # {} PROVE FALSE
    <2>1. B = {} => sum[Len(s)] = f[Len(s)]
        BY <1>2
    <2>2. QED  BY <1>1, <2>1
<1> HIDE DEF sum
<1>7. PICK k \in B : \A j \in B : ~(<<j, k>> \in OpToRel(<, Nat))
    <2>1. B \subseteq Nat
        OBVIOUS
    <2> HIDE DEF B
    <2>2. QED  BY <1>6, <2>1, WFMin, NatLessThanWellFounded
<1>8. k \in Nat /\ k <= Len(s) /\ sum[k] # f[k]
    OBVIOUS
<1>9. k # 0
    BY <1>5, <1>8 DEF Sums
<1> DEFINE j == k - 1
<1>10. j \in Nat /\ j < k /\ j <= Len(s)
    BY <1>2, <1>8, <1>9
<1>11. sum[j] = f[j]
    <2>1. <<j, k>> \in OpToRel(<, Nat)
        BY <1>8, <1>10 DEF OpToRel
    <2>2. j \notin B
        BY <1>7, <2>1
    <2>3. QED  BY <1>10, <2>2
<1>12. sum[k] = sum[j] + s[k] /\ f[k] = f[j] + s[k]
    BY <1>2, <1>5, <1>8, <1>9 DEF Sums
<1>13. QED  BY <1>8, <1>11, <1>12

\* The total of a sequence of numbers is a number, at least each of them.
LEMMA TotalType ==
    ASSUME NEW s \in Seq(Nat)
    PROVE  Total(s) \in Nat
<1>1. PICK f : Sums(s, f)
    BY SumsExist
<1>2. Total(s) = f[Len(s)]
    BY <1>1, TotalIs
<1>3. QED  BY <1>1, <1>2 DEF Sums

\* The sum of nothing.
LEMMA TotalEmpty ==
    ASSUME NEW s \in Seq(Nat), Len(s) = 0
    PROVE  Total(s) = 0
<1>1. PICK f : Sums(s, f)
    BY SumsExist
<1>2. QED  BY <1>1, TotalIs DEF Sums

\* A sequence that goes on with zeros.
LEMMA TotalZeros ==
    ASSUME NEW s \in Seq(Nat), NEW t \in Seq(Nat), Len(s) <= Len(t),
           \A n \in 1 .. Len(s) : t[n] = s[n], \A n \in (Len(s) + 1) .. Len(t) : t[n] = 0
    PROVE  Total(t) = Total(s)
<1>1. PICK f : Sums(s, f)
    BY SumsExist
<1> DEFINE a == Len(s)
           b == Len(t)
           g == [n \in 0 .. b |-> IF n <= a THEN f[n] ELSE f[a]]
<1>2. a \in Nat /\ b \in Nat /\ a <= b
    OBVIOUS
<1>3. f \in [0 .. a -> Nat] /\ f[0] = 0 /\ \A n \in 1 .. a : f[n] = f[n - 1] + s[n]
    BY <1>1 DEF Sums
<1>4. g \in [0 .. b -> Nat] /\ g[0] = 0 /\ g[b] = f[a]
    BY <1>2, <1>3
<1>a. \A n \in (a + 1) .. b : t[n] = 0
    OBVIOUS
<1>b. \A n \in 1 .. a : t[n] = s[n]
    OBVIOUS
<1> HIDE DEF a, b
<1>5. \A n \in 1 .. b : g[n] = g[n - 1] + t[n]
    <2> SUFFICES ASSUME NEW n \in 1 .. b PROVE g[n] = g[n - 1] + t[n]
        OBVIOUS
    <2>1. CASE n <= a
        <3>1. n \in 1 .. a /\ n - 1 \in 0 .. b /\ n - 1 <= a
            BY <1>2, <2>1
        <3>2. QED  BY <1>2, <1>3, <1>b, <2>1, <3>1
    <2>2. CASE n = a + 1
        <3>1. g[n] = f[a] /\ g[n - 1] = f[a] /\ t[n] = 0 /\ f[a] \in Nat
            BY <1>2, <1>3, <1>a, <2>2
        <3>2. QED  BY <3>1
    <2>3. CASE n > a + 1
        <3>1. g[n] = f[a] /\ g[n - 1] = f[a] /\ t[n] = 0 /\ f[a] \in Nat
            BY <1>2, <1>3, <1>a, <2>3
        <3>2. QED  BY <3>1
    <2>4. QED  BY <1>2, <2>1, <2>2, <2>3
<1> HIDE DEF g
<1>6. Sums(t, g)
    BY <1>4, <1>5 DEF Sums, b
<1>7. QED  BY <1>1, <1>4, <1>6, TotalIs DEF a, b

\* A sequence with one more number.
LEMMA TotalAppend ==
    ASSUME NEW s \in Seq(Nat), NEW t \in Seq(Nat), Len(t) = Len(s) + 1, \A n \in 1 .. Len(s) : t[n] = s[n]
    PROVE  Total(t) = Total(s) + t[Len(t)]
<1>1. PICK f : Sums(s, f)
    BY SumsExist
<1> DEFINE a == Len(s)
           g == [n \in 0 .. (a + 1) |-> IF n <= a THEN f[n] ELSE f[a] + t[a + 1]]
<1>2. a \in Nat /\ Len(t) = a + 1 /\ t[a + 1] \in Nat
    OBVIOUS
<1>3. f \in [0 .. a -> Nat] /\ f[0] = 0 /\ \A n \in 1 .. a : f[n] = f[n - 1] + s[n]
    BY <1>1 DEF Sums
<1>4. g \in [0 .. (a + 1) -> Nat] /\ g[0] = 0 /\ g[a + 1] = f[a] + t[a + 1]
    BY <1>2, <1>3
<1>5. \A n \in 1 .. (a + 1) : g[n] = g[n - 1] + t[n]
    <2>1. ASSUME NEW n \in 1 .. a PROVE g[n] = g[n - 1] + t[n]
        <3>1. n \in 0 .. (a + 1) /\ n - 1 \in 0 .. (a + 1) /\ n <= a /\ n - 1 <= a
            BY <1>2
        <3>2. t[n] = s[n]
            OBVIOUS
        <3>3. g[n] = f[n] /\ g[n - 1] = f[n - 1]
            BY <3>1
        <3>4. QED  BY <1>3, <3>2, <3>3
    <2>2. g[a] = f[a]
        BY <1>2
    <2> HIDE DEF g
    <2>3. g[a + 1] = g[(a + 1) - 1] + t[a + 1]
        BY <1>2, <1>4, <2>2
    <2>4. \A n \in 1 .. (a + 1) : n \in 1 .. a \/ n = a + 1
        BY <1>2
    <2>5. QED  BY <2>1, <2>3, <2>4
<1> HIDE DEF g
<1>6. Sums(t, g)
    BY <1>2, <1>4, <1>5 DEF Sums
<1>7. QED  BY <1>1, <1>2, <1>4, <1>6, TotalIs

\* The positions of a sequence.
LEMMA IndexesAreFinite ==
    ASSUME NEW n \in Nat
    PROVE  IsFiniteSet(1 .. n) /\ Cardinality(1 .. n) = n
BY FS_Interval

\* InOrder lists each fact of a finite set with keys once: the facts up to its
\* own key say where it is.
LEMMA InOrderLists ==
    ASSUME NEW S, IsFiniteSet(S), \A f \in S : f.key \in Int, \A f, g \in S : f.key = g.key => f = g
    PROVE  /\ Cardinality(S) \in Nat
           /\ InOrder(S) \in Seq(S) /\ Len(InOrder(S)) = Cardinality(S)
           /\ Range(InOrder(S)) = S
           /\ \A i, j \in 1 .. Cardinality(S) : InOrder(S)[i] = InOrder(S)[j] => i = j
<1> DEFINE size == Cardinality(S)
           upto(f) == {g \in S : g.key <= f.key}
           rank == [f \in S |-> Cardinality(upto(f))]
           s == InOrder(S)
<1>1. size \in Nat
    BY FS_CardinalityType
<1> HIDE DEF size
<1>2. ASSUME NEW f \in S PROVE rank[f] = Cardinality(upto(f)) /\ IsFiniteSet(upto(f)) /\ rank[f] \in 1 .. size
    <2>1. upto(f) \in SUBSET S /\ f \in upto(f)
        OBVIOUS
    <2> DEFINE B == upto(f)
    <2> HIDE DEF upto
    <2>2. IsFiniteSet(B) /\ Cardinality(B) <= size
        BY <2>1, FS_Subset DEF size
    <2>3. Cardinality(B) \in Nat /\ Cardinality(B) # 0
        BY <2>1, <2>2, FS_CardinalityType, FS_EmptySet
    <2>4. QED  BY <1>1, <2>2, <2>3
<1>3. ASSUME NEW f \in S, NEW g \in S, g.key < f.key PROVE rank[g] < rank[f]
    <2>1. upto(g) \in SUBSET upto(f) /\ f \in upto(f) /\ f \notin upto(g)
        BY <1>3
    <2> DEFINE B == upto(f)
               C == upto(g)
    <2> HIDE DEF upto
    <2>2. Cardinality(C) <= Cardinality(B) /\ (Cardinality(B) = Cardinality(C) => B = C)
        BY <1>2, <2>1, FS_Subset
    <2>3. Cardinality(B) \in Nat /\ Cardinality(C) \in Nat
        BY <1>2, FS_CardinalityType
    <2>4. QED  BY <1>2, <2>1, <2>2, <2>3
<1>4. rank \in [S -> 1 .. size]
    BY <1>2
<1>5. s = [i \in 1 .. size |-> CHOOSE f \in S : Cardinality(upto(f)) = i]
    BY DEF InOrder, size
<1>6. \A f \in S : Cardinality(upto(f)) = rank[f]
    BY <1>2
<1> HIDE DEF rank, upto, s
<1>7. ASSUME NEW f \in S, NEW g \in S, rank[f] = rank[g] PROVE f = g
    <2>1. ~(rank[f] < rank[g]) /\ ~(rank[g] < rank[f])
        BY <1>1, <1>4, <1>7
    <2>2. ~(f.key < g.key) /\ ~(g.key < f.key) /\ f.key \in Int /\ g.key \in Int
        BY <1>3, <2>1
    <2>3. QED  BY <2>2
<1>8. rank \in Injection(S, 1 .. size)
    BY <1>4, <1>7 DEF Injection, IsInjective
<1>9. rank \in Surjection(S, 1 .. size)
    BY <1>1, <1>8, IndexesAreFinite, FS_Injection DEF size
<1>10. \A i \in 1 .. size : \E f \in S : rank[f] = i
    BY <1>9 DEF Surjection
<1>11. ASSUME NEW i \in 1 .. size PROVE s[i] \in S /\ rank[s[i]] = i
    <2>1. PICK f \in S : rank[f] = i
        BY <1>10
    <2>2. s[i] \in S /\ Cardinality(upto(s[i])) = i
        BY <1>5, <1>6, <2>1
    <2>3. QED  BY <1>6, <2>2
<1>12. s \in Seq(S) /\ Len(s) = size /\ DOMAIN s = 1 .. size
    <2>1. s \in [1 .. size -> S]
        BY <1>5, <1>11
    <2>2. QED  BY <1>1, <2>1
<1>13. ASSUME NEW f \in S PROVE \E i \in 1 .. size : s[i] = f
    <2>1. rank[f] \in 1 .. size
        BY <1>4
    <2>2. s[rank[f]] \in S /\ rank[s[rank[f]]] = rank[f]
        BY <1>11, <2>1
    <2>3. s[rank[f]] = f
        BY <1>7, <2>2
    <2>4. QED  BY <2>1, <2>3
<1>14. Range(s) = S
    BY <1>11, <1>12, <1>13 DEF Range
<1>15. \A i, j \in 1 .. size : s[i] = s[j] => i = j
    BY <1>11
<1>16. QED  BY <1>1, <1>12, <1>14, <1>15 DEF size, s

\* The facts of a scope are facts of the snapshot, and a selection lists some.
LEMMA SelectionLists ==
    ASSUME NEW facts, KeysFit(facts), NEW sel
    PROVE  SelectedFacts(facts, sel) \in Seq(facts)
<1> DEFINE S == {f \in ScopeFacts(facts, sel.scope) :
                    /\ sel.kind = "any" \/ (sel.kind = "node") = (f.ends = {})
                    /\ sel.labels = {} \/ f.label \in sel.labels}
<1>1. S \subseteq facts
    BY DEF ScopeFacts
<1>2. SelectedFacts(facts, sel) = InOrder(S)
    BY DEF SelectedFacts
<1> HIDE DEF S
<1>3. IsFiniteSet(S)
    BY <1>1, FS_Subset DEF KeysFit
<1>4. InOrder(S) \in Seq(S)
    BY <1>1, <1>3, InOrderLists DEF KeysFit
<1>5. QED  BY <1>1, <1>2, <1>4

\* A scope is a part of the graph.
LEMMA ScopeIsPart ==
    ASSUME NEW facts, NEW scope
    PROVE  ScopeFacts(facts, scope) \subseteq facts
BY DEF ScopeFacts

\* Facts have sizes, and offer as many spans as they name.
LEMMA SizesFit ==
    ASSUME NEW facts, KeysFit(facts), NEW s \in Seq(facts)
    PROVE  /\ Total([i \in DOMAIN s |-> s[i].bytes]) \in Nat
           /\ Total([i \in DOMAIN s |-> Len(s[i].spans)]) \in Nat
<1>1. \A i \in DOMAIN s : s[i].bytes \in Nat /\ Len(s[i].spans) \in Nat
    <2> SUFFICES ASSUME NEW i \in DOMAIN s PROVE s[i].bytes \in Nat /\ Len(s[i].spans) \in Nat
        OBVIOUS
    <2>1. s[i] \in facts
        OBVIOUS
    <2>2. s[i].bytes \in Nat /\ s[i].spans \in Seq(Nat)
        BY <2>1 DEF KeysFit
    <2>3. QED  BY <2>2
<1> DEFINE b == [i \in DOMAIN s |-> s[i].bytes]
           c == [i \in DOMAIN s |-> Len(s[i].spans)]
<1>2. b \in Seq(Nat) /\ c \in Seq(Nat)
    BY <1>1
<1> HIDE DEF b, c
<1>3. Total(b) \in Nat /\ Total(c) \in Nat
    BY <1>2, TotalType
<1>4. QED  BY <1>3 DEF b, c

\* A cut of a sequence.
LEMMA CutIs ==
    ASSUME NEW T, NEW s \in Seq(T), NEW off \in Nat, NEW n \in Nat, off + n <= Len(s)
    PROVE  /\ SubSeq(s, off + 1, off + n) \in Seq(T)
           /\ Len(SubSeq(s, off + 1, off + n)) = n
           /\ \A i \in 1 .. n : SubSeq(s, off + 1, off + n)[i] = s[off + i]
<1>1. Len(s) \in Nat /\ \A i \in 1 .. Len(s) : s[i] \in T
    OBVIOUS
<1>2. SubSeq(s, off + 1, off + n) = [i \in 1 .. n |-> s[off + i]]
    OBVIOUS
<1>3. \A i \in 1 .. n : s[off + i] \in T
    BY <1>1
<1>4. QED  BY <1>2, <1>3

\* page is the page of n facts behind the cursor of q.
IsPage(facts, q, page) ==
    LET all == SelectedFacts(facts, q.sel)
        off == q.cursor.offset
        n == Len(page.facts)
    IN  /\ all \in Seq(facts) /\ off \in Nat /\ n \in Nat /\ off + n <= Len(all)
        /\ page = [facts |-> page.facts, next |-> CursorAt(facts, all, q.sel, off + n)]
        /\ page.facts \in Seq(facts) /\ \A i \in 1 .. n : page.facts[i] = all[off + i]

\* A query that is accepted continues within its selection.
LEMMA AcceptedContinues ==
    ASSUME NEW facts, KeysFit(facts), NEW q, QueryAccepted(facts, q), q.cursor.offset \in Nat
    PROVE  /\ SelectedFacts(facts, q.sel) \in Seq(facts)
           /\ q.cursor.offset <= Len(SelectedFacts(facts, q.sel))
<1>1. SelectedFacts(facts, q.sel) \in Seq(facts)
    BY SelectionLists
<1>2. q.cursor = NoCursor => q.cursor.offset = 0
    BY DEF NoCursor
<1>3. QED  BY <1>1, <1>2 DEF QueryAccepted

\* A query returns one page at most, and it fits.
LEMMA QueryPages ==
    ASSUME NEW facts, KeysFit(facts), NEW q, QueryAccepted(facts, q), q.cursor.offset \in Nat,
           NEW most \in Int, NEW page \in ContextQuery(facts, q, most)
    PROVE  /\ IsPage(facts, q, page) /\ Len(page.facts) <= most /\ PageSize(page) <= q.max_bytes
           /\ \A other \in ContextQuery(facts, q, most) : other = page
<1> DEFINE all == SelectedFacts(facts, q.sel)
           off == q.cursor.offset
           fits == FittingCounts(facts, all, q, most)
<1>1. all \in Seq(facts) /\ off <= Len(all) /\ off \in Nat /\ Len(all) \in Nat
    BY AcceptedContinues
<1>2. ContextQuery(facts, q, most) = {Page(facts, all, q, n) : n \in {n \in fits : \A m \in fits : m <= n}}
    BY DEF ContextQuery, PageOf, LongestPage
<1>3. fits = {n \in 0 .. (Len(all) - off) : /\ n <= most
                                            /\ n = 0 => Len(all) - off = 0
                                            /\ \A m \in 0 .. n : m > 0 \/ Len(all) - off = 0 =>
                                                   PageSize(Page(facts, all, q, m)) <= q.max_bytes}
    BY DEF FittingCounts
<1> HIDE DEF all, off, fits
<1>4. PICK n \in fits : page = Page(facts, all, q, n) /\ \A m \in fits : m <= n
    BY <1>2
<1>5. n \in Nat /\ off + n <= Len(all) /\ n <= most
    BY <1>1, <1>3, <1>4
<1>6. PageSize(page) <= q.max_bytes
    <2>1. n \in 0 .. n /\ (n > 0 \/ Len(all) - off = 0)
        BY <1>1, <1>3, <1>5
    <2>2. QED  BY <1>3, <1>4, <2>1
<1>7. page.facts = SubSeq(all, off + 1, off + n) /\ page.next = CursorAt(facts, all, q.sel, off + n)
      /\ page = [facts |-> page.facts, next |-> page.next]
    BY <1>4 DEF Page, off
<1>8. page.facts \in Seq(facts) /\ Len(page.facts) = n /\ \A i \in 1 .. n : page.facts[i] = all[off + i]
    <2> DEFINE cut == SubSeq(all, off + 1, off + n)
    <2>1. cut \in Seq(facts) /\ Len(cut) = n /\ \A i \in 1 .. n : cut[i] = all[off + i]
        BY <1>1, <1>5, CutIs
    <2>2. page.facts = cut
        BY <1>7
    <2> HIDE DEF cut
    <2>3. QED  BY <2>1, <2>2
<1>9. IsPage(facts, q, page)
    BY <1>1, <1>5, <1>7, <1>8 DEF IsPage, all, off
<1>10. ASSUME NEW other \in ContextQuery(facts, q, most) PROVE other = page
    <2>1. PICK m \in fits : other = Page(facts, all, q, m) /\ \A k \in fits : k <= m
        BY <1>2
    <2>2. m <= n /\ n <= m /\ m \in Nat
        BY <1>1, <1>3, <1>4, <2>1
    <2>3. m = n
        BY <1>5, <2>2
    <2>4. QED  BY <1>4, <2>1, <2>3
<1>11. QED  BY <1>5, <1>6, <1>8, <1>9, <1>10

\* A response is a page of the query, not longer than the first one, and fits
\* with the evidence it offers.
LEMMA ResponseIsPage ==
    ASSUME KeysFit(frozen.facts), NEW q, QueryAccepted(frozen.facts, q), q.cursor.offset \in Nat, q.max_facts \in Nat,
           q.max_bytes \in Nat, NEW page \in Response(q)
    PROVE  /\ IsPage(frozen.facts, q, page) /\ Len(page.facts) <= q.max_facts
           /\ ResponseSize(page) \in 1 .. q.max_bytes
           /\ \E first \in ContextQuery(frozen.facts, q, q.max_facts) : KeysOf(page.facts) \subseteq KeysOf(first.facts)
<1>1. PICK first \in ContextQuery(frozen.facts, q, q.max_facts) : page \in Shrunk(q, first)
    BY DEF Response
<1>2. IsPage(frozen.facts, q, first) /\ Len(first.facts) <= q.max_facts
    BY QueryPages
<1>3. ResponseSize(page) <= q.max_bytes
      /\ (page = first \/ \E n \in 1 .. (Len(first.facts) - 1) : page \in ContextQuery(frozen.facts, q, n))
    BY <1>1 DEF Shrunk
<1>4. IsPage(frozen.facts, q, page) /\ Len(page.facts) <= Len(first.facts)
    <2>1. CASE page = first
        BY <1>2, <2>1 DEF IsPage
    <2>2. CASE \E n \in 1 .. (Len(first.facts) - 1) : page \in ContextQuery(frozen.facts, q, n)
        <3>1. PICK n \in 1 .. (Len(first.facts) - 1) : page \in ContextQuery(frozen.facts, q, n)
            BY <2>2
        <3>2. Len(first.facts) \in Nat /\ n \in Int /\ n < Len(first.facts)
            BY <1>2 DEF IsPage
        <3>3. IsPage(frozen.facts, q, page) /\ Len(page.facts) <= n
            BY <3>1, <3>2, QueryPages
        <3>4. Len(page.facts) \in Nat
            BY <3>3 DEF IsPage
        <3>5. QED  BY <3>2, <3>3, <3>4
    <2>3. QED  BY <1>3, <2>1, <2>2
<1>5. KeysOf(page.facts) \subseteq KeysOf(first.facts)
    <2> SUFFICES ASSUME NEW i \in DOMAIN page.facts PROVE page.facts[i].key \in KeysOf(first.facts)
        BY DEF KeysOf
    <2>1. i \in 1 .. Len(page.facts) /\ i \in 1 .. Len(first.facts) /\ DOMAIN first.facts = 1 .. Len(first.facts)
        BY <1>2, <1>4 DEF IsPage
    <2>2. page.facts[i] = first.facts[i]
        BY <1>2, <1>4, <2>1 DEF IsPage
    <2>3. QED  BY <2>1, <2>2 DEF KeysOf
<1>6. ResponseSize(page) \in Nat /\ 1 <= ResponseSize(page)
    <2>1. page.facts \in Seq(frozen.facts)
        BY <1>4 DEF IsPage
    <2> DEFINE b == Total([i \in DOMAIN page.facts |-> page.facts[i].bytes])
               c == Total([i \in DOMAIN page.facts |-> Len(page.facts[i].spans)])
               d == IF page.next = NoCursor THEN 0 ELSE CursorBytes
    <2>2. b \in Nat /\ c \in Nat
        BY <2>1, SizesFit
    <2>3. d \in Nat
        BY DEF CursorBytes
    <2>4. ResponseSize(page) = ((EnvelopeBytes + b) + d) + c
        BY DEF ResponseSize, PageSize
    <2> HIDE DEF b, c, d
    <2>5. QED  BY <2>2, <2>3, <2>4 DEF EnvelopeBytes
<1>7. Len(page.facts) <= q.max_facts
    BY <1>2, <1>4 DEF IsPage
<1>8. QED  BY <1>3, <1>4, <1>5, <1>6, <1>7

Cited(cites) == {i \in DOMAIN cites : cites[i].origin = "graph"}
FactCite(selected, f, n) ==
    [id |-> <<"fact", n>>, key |-> f.key, digest |-> (CHOOSE s \in selected : s.fact.key = f.key).fact,
     span |-> 0, origin |-> "graph", receipt |-> Unbound]

\* grown continues cites with one citation for each given fact that had none.
Grows(cites, selected, given, grown) ==
    LET a == Len(cites)
        b == Len(grown)
        n == Cardinality(Cited(cites))
    IN  /\ a \in Nat /\ b \in Nat /\ a <= b /\ n \in Nat
        /\ IsSeq(grown) /\ DOMAIN grown = 1 .. b
        /\ \A i \in 1 .. a : grown[i] = cites[i]
        /\ \A i \in (a + 1) .. b : \E f \in Range(given) :
              grown[i] = FactCite(selected, f, n + (i - a)) /\ \A j \in Cited(cites) : cites[j].key # f.key
        /\ \A f \in Range(given) : \/ \E j \in Cited(cites) : cites[j].key = f.key
                                   \/ \E i \in (a + 1) .. b : grown[i].key = f.key
        /\ \A i, j \in (a + 1) .. b : grown[i].key = grown[j].key => i = j

\* The positions of a sequence over its own items.
LEMMA RangeFinite ==
    ASSUME NEW s, IsSeq(s)
    PROVE  Len(s) \in Nat /\ DOMAIN s = 1 .. Len(s) /\ IsFiniteSet(DOMAIN s)
<1>1. Len(s) \in Nat /\ DOMAIN s = 1 .. Len(s)
    BY DEF IsSeq
<1>2. QED  BY <1>1, IndexesAreFinite

\* What CitesWith builds continues the citations there are.
LEMMA CitesWithGrows ==
    ASSUME NEW facts, KeysFit(facts), NEW cites, IsSeq(cites), NEW selected, NEW given \in Seq(facts)
    PROVE  Grows(cites, selected, given, CitesWith(cites, selected, given))
<1> DEFINE graph == Cited(cites)
           new == {f \in Range(given) : f.key \notin {cites[i].key : i \in graph}}
           list == InOrder(new)
           n == Cardinality(graph)
           a == Len(cites)
           k == Len(list)
           tail == [i \in DOMAIN list |-> FactCite(selected, list[i], n + i)]
           grown == CitesWith(cites, selected, given)
<1>1. a \in Nat /\ DOMAIN cites = 1 .. a /\ IsFiniteSet(DOMAIN cites)
    BY RangeFinite
<1>2. n \in Nat
    <2>1. IsFiniteSet(graph)
        BY <1>1, FS_Subset DEF Cited
    <2>2. QED  BY <2>1, FS_CardinalityType
<1>3. Range(given) \subseteq facts
    BY DEF Range
<1>4. IsFiniteSet(new) /\ new \subseteq facts
    BY <1>3, FS_Subset DEF KeysFit
<1>5. grown = cites \o tail
    BY DEF CitesWith, Cited, FactCite
<1> HIDE DEF new
<1>6. /\ list \in Seq(new) /\ Range(list) = new /\ k \in Nat /\ DOMAIN list = 1 .. k
      /\ \A i, j \in 1 .. k : list[i] = list[j] => i = j
    <2>1. /\ list \in Seq(new) /\ Range(list) = new /\ Len(list) = Cardinality(new) /\ Cardinality(new) \in Nat
          /\ \A i, j \in 1 .. Cardinality(new) : list[i] = list[j] => i = j
        BY <1>4, InOrderLists DEF KeysFit
    <2> HIDE DEF list
    <2>2. QED  BY <2>1
<1>7. /\ \A i \in 1 .. k : list[i] \in new
      /\ \A f \in new : \E i \in 1 .. k : list[i] = f
    <2> HIDE DEF list
    <2>1. QED  BY <1>6 DEF Range
<1> HIDE DEF list, n, graph, k
<1>8. tail \in Seq(Range(tail)) /\ Len(tail) = k /\ \A i \in 1 .. k : tail[i] = FactCite(selected, list[i], n + i)
    <2>1. DOMAIN tail = 1 .. k /\ tail = [i \in 1 .. k |-> FactCite(selected, list[i], n + i)]
        BY <1>6
    <2> HIDE DEF tail
    <2>2. tail \in [1 .. k -> Range(tail)]
        BY <2>1 DEF Range
    <2>3. QED  BY <1>6, <2>1, <2>2
<1> HIDE DEF tail
<1> DEFINE T == Range(cites) \cup Range(tail)
<1>9. cites \in Seq(T) /\ tail \in Seq(T)
    BY <1>8 DEF IsSeq
<1> HIDE DEF T, grown
<1>10. /\ grown \in Seq(T) /\ Len(grown) = a + k
       /\ \A i \in 1 .. a : grown[i] = cites[i]
       /\ \A i \in (a + 1) .. (a + k) : grown[i] = tail[i - a]
    BY <1>1, <1>5, <1>6, <1>8, <1>9
<1>11. DOMAIN grown = 1 .. (a + k) /\ IsSeq(grown)
    <2>1. DOMAIN grown = 1 .. (a + k) /\ a + k \in Nat
        BY <1>1, <1>6, <1>10
    <2>2. grown \in [1 .. (a + k) -> Range(grown)]
        BY <1>10, <2>1 DEF Range
    <2>3. QED  BY <2>1, <2>2 DEF IsSeq
<1>12. ASSUME NEW i \in (a + 1) .. (a + k)
       PROVE  /\ i - a \in 1 .. k /\ list[i - a] \in new /\ list[i - a] \in Range(given)
              /\ grown[i] = FactCite(selected, list[i - a], n + (i - a)) /\ grown[i].key = list[i - a].key
    <2>1. i - a \in 1 .. k
        BY <1>1, <1>6
    <2>2. list[i - a] \in new /\ list[i - a] \in Range(given)
        BY <1>7, <2>1 DEF new
    <2>3. grown[i] = tail[i - a]
        BY <1>10
    <2>4. grown[i] = FactCite(selected, list[i - a], n + (i - a))
        BY <1>8, <2>1, <2>3
    <2>5. grown[i].key = list[i - a].key
        BY <2>4 DEF FactCite
    <2>6. QED  BY <2>1, <2>2, <2>4, <2>5
<1>13. ASSUME NEW f \in Range(given)
       PROVE  (\E j \in graph : cites[j].key = f.key) \/ \E i \in (a + 1) .. (a + k) : grown[i].key = f.key
    <2>1. CASE f \in new
        <3>1. PICK j \in 1 .. k : list[j] = f
            BY <1>7, <2>1
        <3>2. a + j \in (a + 1) .. (a + k) /\ (a + j) - a = j
            BY <1>1, <1>6
        <3>3. grown[a + j].key = f.key
            BY <1>12, <3>1, <3>2
        <3>4. QED  BY <3>2, <3>3
    <2>2. CASE f \notin new
        BY <2>2 DEF new
    <2>3. QED  BY <2>1, <2>2
<1>14. ASSUME NEW i \in (a + 1) .. (a + k), NEW j \in (a + 1) .. (a + k), grown[i].key = grown[j].key PROVE i = j
    <2>1. list[i - a] = list[j - a]
        BY <1>4, <1>12, <1>14 DEF KeysFit
    <2>2. i - a = j - a
        BY <1>6, <1>12, <2>1
    <2>3. QED  BY <1>1, <1>6, <2>2
<1>15. ASSUME NEW i \in (a + 1) .. (a + k)
       PROVE  \E f \in Range(given) : grown[i] = FactCite(selected, f, n + (i - a)) /\ \A j \in graph : cites[j].key # f.key
    BY <1>12 DEF new
<1>16. a + k \in Nat /\ a <= a + k
    BY <1>1, <1>6
<1>17. QED
    BY <1>1, <1>2, <1>10, <1>11, <1>13, <1>14, <1>15, <1>16 DEF Grows, n, graph, grown

\* The fields of a citation of a fact.
LEMMA FactCiteIs ==
    ASSUME NEW selected, NEW f, NEW n
    PROVE  LET c == FactCite(selected, f, n)
           IN  /\ c.id = <<"fact", n>> /\ c.key = f.key /\ c.span = 0 /\ c.origin = "graph" /\ c.receipt = Unbound
               /\ c.digest = (CHOOSE s \in selected : s.fact.key = f.key).fact
BY DEF FactCite

\* The new citations are of the graph; those of sources stay as they are.
LEMMA GrowsCites ==
    ASSUME NEW l, NEW m, NEW selected, NEW given, IsSeq(l.cites), \A i \in DOMAIN l.cites : l.cites[i].span \in Nat,
           Grows(l.cites, selected, given, m.cites)
    PROVE  /\ SourceCites(m) = SourceCites(l) /\ Validated(m) = Validated(l) /\ SourceBytes(m) = SourceBytes(l)
           /\ GraphCites(m) = GraphCites(l) \cup ((Len(l.cites) + 1) .. Len(m.cites))
           /\ Cardinality(GraphCites(m)) = Cardinality(GraphCites(l)) + (Len(m.cites) - Len(l.cites))
           /\ \A i \in DOMAIN m.cites : m.cites[i].span \in Nat
           /\ {m.cites[i].key : i \in GraphCites(m)} = {l.cites[i].key : i \in GraphCites(l)} \cup {f.key : f \in Range(given)}
           /\ Range(l.cites) \subseteq Range(m.cites)
<1> DEFINE old == l.cites
           grown == m.cites
           a == Len(old)
           b == Len(grown)
           n == Cardinality(Cited(old))
           new == (a + 1) .. b
<1>1. /\ a \in Nat /\ b \in Nat /\ a <= b /\ n \in Nat /\ DOMAIN grown = 1 .. b /\ IsSeq(grown)
      /\ \A i \in 1 .. a : grown[i] = old[i]
      /\ \A i \in new : \E f \in Range(given) :
            grown[i] = FactCite(selected, f, n + (i - a)) /\ \A j \in Cited(old) : old[j].key # f.key
      /\ \A f \in Range(given) : (\E j \in Cited(old) : old[j].key = f.key) \/ \E i \in new : grown[i].key = f.key
    BY DEF Grows
<1>2. DOMAIN old = 1 .. a /\ IsFiniteSet(DOMAIN old)
    BY RangeFinite
<1>3. \A i \in DOMAIN old : old[i].span \in Nat
    OBVIOUS
<1>4. GraphCites(m) = Cited(grown) /\ GraphCites(l) = Cited(old)
    BY DEF GraphCites, Cited
<1>5. SourceCites(m) = DOMAIN grown \ Cited(grown) /\ SourceCites(l) = DOMAIN old \ Cited(old)
    BY <1>4 DEF SourceCites
<1>6. Validated(m) = {i \in DOMAIN grown : grown[i].origin = "captured"} /\ Validated(l) = {i \in DOMAIN old : old[i].origin = "captured"}
    BY DEF Validated
<1>7. SourceBytes(m) = Total([i \in DOMAIN grown |-> grown[i].span]) /\ SourceBytes(l) = Total([i \in DOMAIN old |-> old[i].span])
    BY DEF SourceBytes
<1>8. Range(old) \subseteq Range(grown)
    <2> HIDE DEF old, grown, a, b
    <2>1. \A i \in 1 .. a : i \in 1 .. b
        BY <1>1
    <2>2. QED  BY <1>1, <1>2, <2>1 DEF Range
<1> HIDE DEF old, grown, a, b, n
<1>9. ASSUME NEW i \in new
      PROVE  /\ grown[i].span = 0 /\ grown[i].origin = "graph"
             /\ \E f \in Range(given) : grown[i].key = f.key
    <2>1. PICK f \in Range(given) : grown[i] = FactCite(selected, f, n + (i - a))
        BY <1>1
    <2>2. QED  BY <2>1, FactCiteIs
<1>10. DOMAIN grown = DOMAIN old \cup new /\ DOMAIN old \cap new = {}
    BY <1>1, <1>2
<1>11. \A i \in DOMAIN old : grown[i] = old[i]
    BY <1>1, <1>2
<1>12. Cited(grown) = Cited(old) \cup new
    BY <1>9, <1>10, <1>11 DEF Cited
<1>13. DOMAIN grown \ Cited(grown) = DOMAIN old \ Cited(old)
    BY <1>10, <1>12 DEF Cited
<1>14. {i \in DOMAIN grown : grown[i].origin = "captured"} = {i \in DOMAIN old : old[i].origin = "captured"}
    <2> HIDE DEF new
    <2>1. \A i \in new : grown[i].origin # "captured"
        BY <1>9
    <2>2. QED  BY <1>10, <1>11, <2>1
<1>15. \A i \in DOMAIN grown : grown[i].span \in Nat
    BY <1>3, <1>9, <1>10, <1>11
<1>16. Total([i \in DOMAIN grown |-> grown[i].span]) = Total([i \in DOMAIN old |-> old[i].span])
    <2> DEFINE s == [i \in DOMAIN old |-> old[i].span]
               t == [i \in DOMAIN grown |-> grown[i].span]
    <2>1. s \in Seq(Nat) /\ Len(s) = a
        BY <1>1, <1>2, <1>3
    <2>2. t \in Seq(Nat) /\ Len(t) = b
        BY <1>1, <1>15
    <2>3. \A i \in 1 .. a : t[i] = s[i]
        BY <1>1, <1>2
    <2>4. \A i \in (a + 1) .. b : t[i] = 0
        BY <1>1, <1>9
    <2> HIDE DEF s, t
    <2>5. Total(t) = Total(s)
        BY <1>1, <2>1, <2>2, <2>3, <2>4, TotalZeros
    <2>6. QED  BY <2>5 DEF s, t
<1>17. Cardinality(Cited(grown)) = n + (b - a)
    <2>1. IsFiniteSet(Cited(old))
        BY <1>2, FS_Subset DEF Cited
    <2>2. IsFiniteSet(new) /\ Cardinality(new) = b - a
        <3>1. a + 1 \in Int /\ b \in Int /\ a + 1 <= b + 1
            BY <1>1
        <3>2. CASE a + 1 > b
            <4>1. new = {} /\ b - a = 0
                BY <1>1, <3>2
            <4>2. QED  BY <4>1, FS_EmptySet
        <3>3. CASE a + 1 <= b
            <4>1. IsFiniteSet((a + 1) .. b) /\ Cardinality((a + 1) .. b) = b - (a + 1) + 1
                BY <3>1, <3>3, FS_Interval
            <4>2. b - (a + 1) + 1 = b - a
                BY <1>1
            <4>3. QED  BY <4>1, <4>2
        <3>4. QED  BY <1>1, <3>2, <3>3
    <2>3. Cited(old) \cap new = {}
        BY <1>10 DEF Cited
    <2> DEFINE C == Cited(old)
    <2> HIDE DEF new, C
    <2>4. Cardinality(C \cup new) = Cardinality(C) + Cardinality(new) - Cardinality(C \cap new)
        BY <2>1, <2>2, FS_Union DEF C
    <2>5. Cardinality({}) = 0
        BY FS_EmptySet
    <2>6. Cardinality(C \cap new) = 0 /\ Cardinality(C) = n
        BY <2>3, <2>5 DEF C, n
    <2>7. Cardinality(C \cup new) = n + (b - a)
        BY <1>1, <2>2, <2>4, <2>6
    <2>8. QED  BY <1>12, <2>7 DEF C
<1>18. {grown[i].key : i \in Cited(grown)} = {old[i].key : i \in Cited(old)} \cup {f.key : f \in Range(given)}
    <2>1. ASSUME NEW i \in Cited(grown) PROVE grown[i].key \in {old[j].key : j \in Cited(old)} \cup {f.key : f \in Range(given)}
        <3>1. CASE i \in Cited(old)
            BY <1>11, <3>1 DEF Cited
        <3>2. CASE i \in new
            BY <1>9, <3>2
        <3>3. QED  BY <1>12, <3>1, <3>2
    <2>2. ASSUME NEW i \in Cited(old) PROVE old[i].key \in {grown[j].key : j \in Cited(grown)}
        BY <1>11, <1>12 DEF Cited
    <2>3. ASSUME NEW f \in Range(given) PROVE f.key \in {grown[j].key : j \in Cited(grown)}
        <3>1. CASE \E j \in Cited(old) : old[j].key = f.key
            BY <2>2, <3>1
        <3>2. CASE \E i \in new : grown[i].key = f.key
            BY <1>12, <3>2
        <3>3. QED  BY <1>1, <3>1, <3>2
    <2>4. QED  BY <2>1, <2>2, <2>3
<1>19. SourceCites(m) = SourceCites(l) /\ Validated(m) = Validated(l) /\ SourceBytes(m) = SourceBytes(l)
    BY <1>5, <1>6, <1>7, <1>13, <1>14, <1>16
<1>20. GraphCites(m) = GraphCites(l) \cup new /\ Cardinality(GraphCites(m)) = Cardinality(GraphCites(l)) + (b - a)
    BY <1>4, <1>12, <1>17 DEF n
<1>21. QED  BY <1>4, <1>8, <1>15, <1>18, <1>19, <1>20 DEF old, grown, a, b

\* Facts are numbered on, so no two citations share an identity, and none is
\* cited twice.
LEMMA GrowsIds ==
    ASSUME NEW l, NEW m, NEW selected, NEW given, IsSeq(l.cites), Grows(l.cites, selected, given, m.cites),
           \A i, j \in DOMAIN l.cites : l.cites[i].id = l.cites[j].id => i = j,
           \A i, j \in GraphCites(l) : l.cites[i].key = l.cites[j].key => i = j,
           \A i \in GraphCites(l) : \E n \in 1 .. Cardinality(GraphCites(l)) : l.cites[i].id = <<"fact", n>>,
           \A i \in SourceCites(l) : \E n \in Nat : l.cites[i].id = <<"evidence", n>>,
           Cardinality(GraphCites(m)) = Cardinality(GraphCites(l)) + (Len(m.cites) - Len(l.cites)),
           GraphCites(m) = GraphCites(l) \cup ((Len(l.cites) + 1) .. Len(m.cites))
    PROVE  /\ \A i, j \in DOMAIN m.cites : m.cites[i].id = m.cites[j].id => i = j
           /\ \A i, j \in GraphCites(m) : m.cites[i].key = m.cites[j].key => i = j
           /\ \A i \in GraphCites(m) : \E n \in 1 .. Cardinality(GraphCites(m)) : m.cites[i].id = <<"fact", n>>
<1> DEFINE old == l.cites
           grown == m.cites
           a == Len(old)
           b == Len(grown)
           n == Cardinality(Cited(old))
           new == (a + 1) .. b
<1>1. /\ a \in Nat /\ b \in Nat /\ a <= b /\ n \in Nat /\ DOMAIN grown = 1 .. b
      /\ \A i \in 1 .. a : grown[i] = old[i]
      /\ \A i \in new : \E f \in Range(given) :
            grown[i] = FactCite(selected, f, n + (i - a)) /\ \A j \in Cited(old) : old[j].key # f.key
      /\ \A i, j \in new : grown[i].key = grown[j].key => i = j
    BY DEF Grows
<1>2. DOMAIN old = 1 .. a
    BY RangeFinite
<1>3. GraphCites(l) = Cited(old) /\ SourceCites(l) = DOMAIN old \ Cited(old) /\ Cited(old) \subseteq DOMAIN old
    BY DEF GraphCites, SourceCites, Cited
<1> DEFINE c == GraphCites(m)
           k == Cardinality(c)
<1>4. /\ \A i, j \in DOMAIN old : old[i].id = old[j].id => i = j
      /\ \A i, j \in Cited(old) : old[i].key = old[j].key => i = j
      /\ \A i \in Cited(old) : \E x \in 1 .. n : old[i].id = <<"fact", x>>
      /\ \A i \in DOMAIN old \ Cited(old) : \E x \in Nat : old[i].id = <<"evidence", x>>
      /\ k = n + (b - a) /\ c = Cited(old) \cup new
    BY <1>3
<1> HIDE DEF old, grown, a, b, n, c, k
<1>5. ASSUME NEW i \in new
      PROVE  grown[i].id = <<"fact", n + (i - a)>> /\ \A j \in Cited(old) : old[j].key # grown[i].key
    <2>1. PICK f \in Range(given) : grown[i] = FactCite(selected, f, n + (i - a)) /\ \A j \in Cited(old) : old[j].key # f.key
        BY <1>1
    <2> DEFINE x == n + (i - a)
    <2>2. grown[i] = FactCite(selected, f, x)
        BY <2>1
    <2> HIDE DEF x
    <2>3. grown[i].id = <<"fact", x>> /\ grown[i].key = f.key
        BY <2>2, FactCiteIs
    <2>4. QED  BY <2>1, <2>3 DEF x
<1>6. DOMAIN grown = DOMAIN old \cup new
    BY <1>1, <1>2
<1>7. \A i \in DOMAIN old : grown[i] = old[i]
    BY <1>1, <1>2
<1>8. ASSUME NEW i \in DOMAIN old, NEW j \in new PROVE grown[i].id # grown[j].id
    <2>1. grown[i].id = old[i].id /\ grown[j].id = <<"fact", n + (j - a)>> /\ n + (j - a) \in Int /\ n + (j - a) > n
        BY <1>1, <1>5, <1>7
    <2>2. CASE i \in Cited(old)
        <3>1. PICK x \in 1 .. n : old[i].id = <<"fact", x>>
            BY <1>4, <2>2
        <3>2. x # n + (j - a)
            BY <1>1, <2>1
        <3>3. <<"fact", x>> # <<"fact", n + (j - a)>>
            BY <3>2
        <3>4. QED  BY <2>1, <3>1, <3>3
    <2>3. CASE i \notin Cited(old)
        <3>1. PICK x \in Nat : old[i].id = <<"evidence", x>>
            BY <1>4, <2>3
        <3>2. <<"evidence", x>> # <<"fact", n + (j - a)>>
            OBVIOUS
        <3>3. QED  BY <2>1, <3>1, <3>2
    <2>4. QED  BY <2>2, <2>3
<1>9. ASSUME NEW i \in new, NEW j \in new, grown[i].id = grown[j].id PROVE i = j
    <2>1. n + (i - a) = n + (j - a)
        BY <1>5, <1>9
    <2>2. QED  BY <1>1, <2>1
<1>10. ASSUME NEW i \in DOMAIN grown, NEW j \in DOMAIN grown, grown[i].id = grown[j].id PROVE i = j
    BY <1>4, <1>6, <1>7, <1>8, <1>9, <1>10
<1>11. ASSUME NEW i \in c, NEW j \in c, grown[i].key = grown[j].key PROVE i = j
    <2>1. \A x \in Cited(old) : grown[x] = old[x]
        BY <1>3, <1>7
    <2>2. QED  BY <1>1, <1>4, <1>5, <1>11, <2>1
<1>12. ASSUME NEW i \in c PROVE \E x \in 1 .. k : grown[i].id = <<"fact", x>>
    <2>1. CASE i \in Cited(old)
        <3>1. PICK x \in 1 .. n : old[i].id = <<"fact", x>>
            BY <1>4, <2>1
        <3>2. x \in 1 .. k /\ grown[i] = old[i]
            BY <1>1, <1>3, <1>4, <1>7, <2>1
        <3>3. QED  BY <3>1, <3>2
    <2>2. CASE i \in new
        <3>1. n + (i - a) \in 1 .. k
            BY <1>1, <1>4, <2>2
        <3>2. QED  BY <1>5, <2>2, <3>1
    <2>3. QED  BY <1>4, <2>1, <2>2
<1>13. QED  BY <1>10, <1>11, <1>12 DEF grown, c, k

KeysIn(S) == {s.fact.key : s \in S}
KeyedOnce(S) == \A s, t \in S : s.fact.key = t.fact.key => s = t

\* Selections with different keys are as many as their keys.
LEMMA KeyedCount ==
    ASSUME NEW S, IsFiniteSet(S), KeyedOnce(S)
    PROVE  IsFiniteSet(KeysIn(S)) /\ Cardinality(KeysIn(S)) = Cardinality(S)
<1> DEFINE f == [s \in S |-> s.fact.key]
           K == KeysIn(S)
<1>1. \A s \in S : f[s] = s.fact.key /\ s.fact.key \in K
    BY DEF KeysIn
<1>2. \A k \in K : \E s \in S : f[s] = k
    BY <1>1 DEF KeysIn
<1>3. f \in [S -> K] /\ \A s, t \in S : f[s] = f[t] => s = t
    BY <1>1 DEF KeyedOnce
<1> HIDE DEF f, K
<1>4. f \in Surjection(S, K) /\ f \in Injection(S, K)
    BY <1>2, <1>3 DEF Surjection, Injection, IsInjective
<1>5. QED
    BY <1>4, FS_Surjection DEF K

\* What the live graph selects is a fact of it and its binding.
LEMMA LiveSelectionIs ==
    ASSUME KeysFit(live.facts), NEW keys
    PROVE  /\ IsFiniteSet(LiveSelection(keys)) /\ KeyedOnce(LiveSelection(keys))
           /\ \A s \in LiveSelection(keys) : /\ s.fact \in live.facts /\ s.fact.key \in keys
                                             /\ s = [fact |-> s.fact, receipt |-> s.receipt]
           /\ \A f \in live.facts : f.key \in keys => \E s \in LiveSelection(keys) : s.fact = f
<1> DEFINE F == {g \in live.facts : g.key \in keys}
           L == LiveSelection(keys)
           f == [g \in F |-> [fact |-> g, receipt |-> live.bound[g.key]]]
<1>1. L = {[fact |-> g, receipt |-> live.bound[g.key]] : g \in F}
    BY DEF LiveSelection
<1>2. \A s \in L : \E g \in F : s = [fact |-> g, receipt |-> live.bound[g.key]] /\ f[g] = s
    BY <1>1
<1>3. ASSUME NEW s \in L
      PROVE  /\ s.fact \in live.facts /\ s.fact.key \in keys /\ s = [fact |-> s.fact, receipt |-> s.receipt]
             /\ s = [fact |-> s.fact, receipt |-> live.bound[s.fact.key]]
    <2>1. PICK g \in F : s = [fact |-> g, receipt |-> live.bound[g.key]]
        BY <1>2
    <2>2. s.fact = g /\ s.receipt = live.bound[g.key]
        BY <2>1
    <2>3. QED
        BY <2>1, <2>2
<1>4. f \in [F -> L] /\ \A s \in L : \E g \in F : f[g] = s
    BY <1>1, <1>2
<1>5. IsFiniteSet(F)
    BY FS_Subset DEF KeysFit
<1>6. ASSUME NEW g \in live.facts, g.key \in keys
      PROVE  \E s \in L : s.fact = g
    <2>1. g \in F /\ [fact |-> g, receipt |-> live.bound[g.key]] \in L
        BY <1>1, <1>6
    <2>2. QED
        BY <2>1
<1> HIDE DEF f, F, L
<1>7. IsFiniteSet(L)
    BY <1>4, <1>5, FS_Surjection DEF Surjection
<1>8. KeyedOnce(L)
    BY <1>3 DEF KeyedOnce, KeysFit
<1>9. QED
    BY <1>3, <1>6, <1>7, <1>8 DEF L

\* What a call selects again under its guards: what was selected before, and
\* what the page that it supplies names.
LEMMA Reselected ==
    ASSUME KeysFit(frozen.graph), frozen.facts \subseteq frozen.graph, SelectedAsBefore(EarlyKeys),
           PriorKeys \subseteq EarlyKeys, \A s \in frozen.ledger.selected : s.fact \in frozen.facts,
           NEW given \in Seq(frozen.facts), KeysOf(given) \subseteq EarlyKeys,
           NEW S, S = {s \in call.early : s.fact.key \in PriorKeys \cup KeysOf(given)}
    PROVE  /\ IsFiniteSet(S) /\ KeyedOnce(S) /\ frozen.ledger.selected \subseteq S
           /\ \A s \in S : s.fact \in frozen.facts /\ s = [fact |-> s.fact, receipt |-> s.receipt]
           /\ KeysIn(S) = PriorKeys \cup KeysOf(given)
           /\ IsFiniteSet(EarlyKeys) /\ Cardinality(EarlyKeys) = Cardinality(call.early)
           /\ Cardinality(S) = Cardinality(KeysIn(S)) /\ Cardinality(S) <= Cardinality(EarlyKeys)
<1>1. live.facts = frozen.graph /\ frozen.ledger.selected \subseteq call.early /\ call.early = LiveSelection(EarlyKeys)
    BY DEF SelectedAsBefore, SelectFactsOK
<1>2. /\ IsFiniteSet(call.early) /\ KeyedOnce(call.early)
      /\ \A s \in call.early : s.fact \in frozen.graph /\ s = [fact |-> s.fact, receipt |-> s.receipt]
    BY <1>1, LiveSelectionIs
<1>3. EarlyKeys = KeysIn(call.early)
    BY DEF EarlyKeys, KeysIn
<1>4. IsFiniteSet(S) /\ KeyedOnce(S) /\ S \subseteq call.early
    BY <1>2, FS_Subset DEF KeyedOnce
<1>5. frozen.ledger.selected \subseteq S
    BY <1>1 DEF PriorKeys
<1>6. KeysIn(S) = PriorKeys \cup KeysOf(given)
    BY <1>3 DEF KeysIn
<1>7. ASSUME NEW s \in S
      PROVE  s.fact \in frozen.facts
    <2>1. s \in call.early /\ s.fact \in frozen.graph /\ s.fact.key \in PriorKeys \cup KeysOf(given)
        BY <1>2, <1>4
    <2>2. \E f \in frozen.facts : f.key = s.fact.key
        BY <2>1 DEF PriorKeys, KeysOf
    <2>3. QED
        BY <2>1, <2>2 DEF KeysFit
<1>8. IsFiniteSet(EarlyKeys) /\ Cardinality(EarlyKeys) = Cardinality(call.early)
    BY <1>2, <1>3, KeyedCount
<1>9. Cardinality(S) = Cardinality(KeysIn(S)) /\ Cardinality(S) <= Cardinality(call.early)
    BY <1>2, <1>4, KeyedCount, FS_Subset
<1>10. QED
    BY <1>2, <1>4, <1>5, <1>6, <1>7, <1>8, <1>9

\* A sequence and one item more.
LEMMA Appended ==
    ASSUME NEW s, IsSeq(s), NEW x
    PROVE  LET t == Append(s, x)
           IN  /\ Len(s) \in Nat /\ Len(t) = Len(s) + 1 /\ DOMAIN s = 1 .. Len(s) /\ DOMAIN t = 1 .. (Len(s) + 1)
               /\ \A i \in 1 .. Len(s) : t[i] = s[i]
               /\ t[Len(s) + 1] = x /\ IsSeq(t)
               /\ Range(s) \subseteq Range(t) /\ x \in Range(t)
               /\ \A y \in Range(t) : y \in Range(s) \/ y = x
               /\ IsPrefix(s, t)
<1> DEFINE t == Append(s, x)
<1>1. s \in Seq(Range(s)) /\ Len(s) \in Nat /\ DOMAIN s = 1 .. Len(s)
    BY DEF IsSeq
<1>2. s \in Seq(Range(s) \cup {x})
    BY <1>1
<1>3. t \in Seq(Range(s) \cup {x}) /\ Len(t) = Len(s) + 1 /\ DOMAIN t = 1 .. (Len(s) + 1)
      /\ (\A i \in 1 .. Len(s) : t[i] = s[i]) /\ t[Len(s) + 1] = x
    BY <1>1, <1>2
<1> HIDE DEF t
<1> DEFINE a == Len(s)
<1>4. a \in Nat /\ DOMAIN s = 1 .. a /\ DOMAIN t = 1 .. (a + 1) /\ (\A i \in 1 .. a : t[i] = s[i]) /\ t[a + 1] = x
    BY <1>1, <1>3
<1> HIDE DEF a
<1>5. Range(s) \subseteq Range(t) /\ x \in Range(t)
    BY <1>4 DEF Range
<1>6. \A y \in Range(t) : y \in Range(s) \/ y = x
    BY <1>4 DEF Range
<1>7. IsSeq(t)
    <2>1. Range(t) = Range(s) \cup {x}
        BY <1>5, <1>6
    <2>2. QED
        BY <1>3, <2>1 DEF IsSeq
<1>8. IsPrefix(s, t)
    BY <1>1, <1>3 DEF IsPrefix
<1>9. QED
    BY <1>1, <1>3, <1>5, <1>6, <1>7, <1>8 DEF t

\* Part of a set of facts that fits.
LEMMA PartFits ==
    ASSUME NEW F, KeysFit(F), NEW G \in SUBSET F
    PROVE  KeysFit(G)
BY FS_Subset DEF KeysFit

\* The response to a query that was accepted.
LEMMA ResponseFits ==
    ASSUME ContextInv, call.at = "query", NEW page \in Response(call.query)
    PROVE  LET q == call.query
           IN  /\ KeysFit(frozen.facts) /\ QueryAccepted(frozen.facts, q)
               /\ q.cursor.offset \in Nat /\ q.max_facts \in Nat /\ q.max_bytes \in Nat
               /\ IsPage(frozen.facts, q, page) /\ Len(page.facts) <= q.max_facts
               /\ ResponseSize(page) \in 1 .. q.max_bytes
               /\ KeysOf(page.facts) \subseteq EarlyKeys
<1> DEFINE q == call.query
<1>1. SnapshotFits /\ PagesFit /\ QueryFits
    BY DEF ContextInv
<1>2. KeysFit(frozen.facts) /\ QueryAccepted(frozen.facts, q)
    BY <1>1, PartFits DEF SnapshotFits, QueryFits
<1>3. q.cursor \in Cursors /\ q.max_facts \in Nat /\ q.max_bytes \in Nat
    BY <1>1, ContextAssumption DEF QueryFits, Queries
<1>4. q.cursor.offset \in Nat
    <2>1. NoCursor.offset = 0 /\ \A s : [snapshot |-> frozen.graph, selection |-> s, offset |-> 1].offset = 1
        BY DEF NoCursor
    <2>2. \A p \in Range(frozen.pages) : p.next.offset \in Nat
        BY <1>1 DEF PagesFit, Range
    <2>3. QED
        BY <1>3, <2>1, <2>2 DEF Cursors
<1> HIDE DEF q
<1>5. /\ IsPage(frozen.facts, q, page) /\ Len(page.facts) <= q.max_facts
      /\ ResponseSize(page) \in 1 .. q.max_bytes
      /\ \E first \in ContextQuery(frozen.facts, q, q.max_facts) : KeysOf(page.facts) \subseteq KeysOf(first.facts)
    <2>1. page \in Response(q)
        BY DEF q
    <2>2. QED
        BY <1>2, <1>3, <1>4, <2>1, ResponseIsPage
<1>6. KeysOf(page.facts) \subseteq EarlyKeys
    BY <1>1, <1>5 DEF QueryFits, q
<1>7. QED
    BY <1>2, <1>3, <1>4, <1>5, <1>6 DEF q

SelectedWith(page) == {s \in call.early : s.fact.key \in PriorKeys \cup KeysOf(page.facts)}

\* The ledger that a page makes, part by part.
LEMMA QueryLedger ==
    ASSUME ShapesFit, NEW q, NEW page
    PROVE  LET l == frozen.ledger
               m == LedgerAfterQuery(q, page)
               S == SelectedWith(page)
           IN  /\ m.graph = l.graph /\ m.scope = l.scope /\ m.revision = l.revision + 1
               /\ m.selected = S /\ m.receipts = {s.receipt : s \in S} \ {Unbound}
               /\ m.cites = CitesWith(l.cites, S, page.facts)
               /\ m.queries = Append(l.queries, [query |-> q, bytes |-> ResponseSize(page), returned |-> Len(page.facts),
                                                 total |-> Len(SelectedFacts(frozen.facts, q.sel))])
               /\ m = [graph |-> m.graph, scope |-> m.scope, revision |-> m.revision, selected |-> m.selected,
                       receipts |-> m.receipts, cites |-> m.cites, queries |-> m.queries]
<1> DEFINE l == frozen.ledger
           m == LedgerAfterQuery(q, page)
           S == SelectedWith(page)
           r == {s.receipt : s \in S} \ {Unbound}
           c == CitesWith(l.cites, S, page.facts)
           x == Append(l.queries, [query |-> q, bytes |-> ResponseSize(page), returned |-> Len(page.facts),
                                   total |-> Len(SelectedFacts(frozen.facts, q.sel))])
<1>1. l = [graph |-> l.graph, scope |-> l.scope, revision |-> l.revision, selected |-> l.selected,
           receipts |-> l.receipts, cites |-> l.cites, queries |-> l.queries]
    BY DEF ShapesFit
<1>2. m = [l EXCEPT !.revision = @ + 1, !.selected = S, !.receipts = r, !.cites = c, !.queries = x]
    BY DEF LedgerAfterQuery, SelectedWith
<1> HIDE DEF l, m, S, r, c, x
<1>3. m = [graph |-> l.graph, scope |-> l.scope, revision |-> l.revision + 1, selected |-> S,
           receipts |-> r, cites |-> c, queries |-> x]
    BY <1>1, <1>2
<1>4. QED
    BY <1>3 DEF l, m, S, r, c, x

\* The ledger m is what the call in progress makes of a page.
QueryMade(page, m) ==
    /\ ContextInv /\ call.at = "query" /\ SelectedAsBefore(EarlyKeys)
    /\ page \in Response(call.query) /\ m = LedgerAfterQuery(call.query, page)

\* What the ledger of a page selects is found again under the guards: it holds
\* what was selected before, and no more than the early selection.
LEMMA QuerySelects ==
    ASSUME NEW page, NEW m, QueryMade(page, m)
    PROVE  /\ IsFiniteSet(m.selected) /\ KeyedOnce(m.selected) /\ frozen.ledger.selected \subseteq m.selected
           /\ \A s \in m.selected : s.fact \in frozen.facts /\ s = [fact |-> s.fact, receipt |-> s.receipt]
           /\ KeysIn(m.selected) = PriorKeys \cup KeysOf(page.facts)
           /\ Cardinality(m.selected) = Cardinality(KeysIn(m.selected)) /\ Cardinality(m.selected) <= MaxSelected
           /\ m.receipts = {s.receipt : s \in m.selected} \ {Unbound}
<1>1. /\ KeysFit(frozen.graph) /\ frozen.facts \subseteq frozen.graph /\ PriorKeys \subseteq EarlyKeys
      /\ Cardinality(EarlyKeys) <= MaxSelected /\ IsFiniteSet(call.early)
    BY DEF QueryMade, ContextInv, SnapshotFits, QueryFits
<1>2. \A s \in frozen.ledger.selected : s.fact \in frozen.facts
    BY DEF QueryMade, ContextInv, SnapshotFits
<1>3. page.facts \in Seq(frozen.facts) /\ KeysOf(page.facts) \subseteq EarlyKeys
    BY ResponseFits DEF QueryMade, IsPage
<1> DEFINE S == SelectedWith(page)
<1>4. m.selected = S /\ m.receipts = {s.receipt : s \in S} \ {Unbound}
    <2>1. ShapesFit /\ m = LedgerAfterQuery(call.query, page)
        BY DEF QueryMade, ContextInv
    <2>2. QED
        BY <2>1, QueryLedger
<1> HIDE DEF S
<1>5. /\ IsFiniteSet(S) /\ KeyedOnce(S) /\ frozen.ledger.selected \subseteq S
      /\ \A s \in S : s.fact \in frozen.facts /\ s = [fact |-> s.fact, receipt |-> s.receipt]
      /\ KeysIn(S) = PriorKeys \cup KeysOf(page.facts)
      /\ IsFiniteSet(EarlyKeys)
      /\ Cardinality(S) = Cardinality(KeysIn(S)) /\ Cardinality(S) <= Cardinality(EarlyKeys)
    BY <1>1, <1>2, <1>3, Reselected DEF QueryMade, S, SelectedWith
<1>6. Cardinality(S) <= MaxSelected
    BY <1>1, <1>5, FS_CardinalityType, ContextAssumption
<1>7. QED
    BY <1>4, <1>5, <1>6

\* What the ledger of a page cites: sources as before, each selected fact once.
LEMMA QueryCites ==
    ASSUME NEW page, NEW m, QueryMade(page, m)
    PROVE  LET l == frozen.ledger
           IN  /\ IsSeq(l.cites) /\ IsSeq(m.cites)
               /\ Grows(l.cites, m.selected, page.facts, m.cites)
               /\ SourceCites(m) = SourceCites(l) /\ Validated(m) = Validated(l) /\ SourceBytes(m) = SourceBytes(l)
               /\ \A i \in DOMAIN m.cites : m.cites[i].span \in Nat
               /\ {m.cites[i].key : i \in GraphCites(m)} = KeysIn(m.selected)
               /\ Range(l.cites) \subseteq Range(m.cites)
               /\ \A i, j \in DOMAIN m.cites : m.cites[i].id = m.cites[j].id => i = j
               /\ \A i, j \in GraphCites(m) : m.cites[i].key = m.cites[j].key => i = j
               /\ \A i \in GraphCites(m) : \E n \in 1 .. Cardinality(GraphCites(m)) : m.cites[i].id = <<"fact", n>>
               /\ GraphCites(m) = GraphCites(l) \cup ((Len(l.cites) + 1) .. Len(m.cites))
<1> DEFINE l == frozen.ledger
           S == m.selected
           given == page.facts
<1>1. CitesFit /\ ValidLedger(l) /\ ShapesFit
    BY DEF QueryMade, ContextInv, InputPrepares
<1>2. KeysFit(frozen.facts) /\ given \in Seq(frozen.facts)
    BY ResponseFits DEF QueryMade, IsPage
<1>3. m.cites = CitesWith(l.cites, S, given)
    <2>1. m = LedgerAfterQuery(call.query, page)
        BY DEF QueryMade
    <2>2. m.selected = SelectedWith(page) /\ m.cites = CitesWith(l.cites, SelectedWith(page), given)
        BY <1>1, <2>1, QueryLedger
    <2>3. QED
        BY <2>2
<1>4. IsSeq(l.cites) /\ (\A i \in DOMAIN l.cites : l.cites[i].span \in Nat)
      /\ {l.cites[i].key : i \in GraphCites(l)} = PriorKeys
    BY <1>1 DEF CitesFit, PriorKeys
<1>5. \A i \in GraphCites(l) : \E n \in 1 .. Cardinality(GraphCites(l)) : l.cites[i].id = <<"fact", n>>
    BY <1>1 DEF CitesFit
<1>6. \A i \in SourceCites(l) : \E n \in Nat : l.cites[i].id = <<"evidence", n>>
    BY <1>1 DEF CitesFit
<1>7. (\A i, j \in DOMAIN l.cites : l.cites[i].id = l.cites[j].id => i = j)
      /\ \A i, j \in GraphCites(l) : l.cites[i].key = l.cites[j].key => i = j
    BY <1>1 DEF ValidLedger
<1>8. KeysIn(S) = PriorKeys \cup KeysOf(given)
    BY QuerySelects
<1>9. KeysOf(given) = {f.key : f \in Range(given)}
    BY DEF KeysOf, Range
<1> HIDE DEF l, S, given
<1>10. Grows(l.cites, S, given, m.cites)
    BY <1>2, <1>3, <1>4, CitesWithGrows
<1>11. IsSeq(m.cites)
    BY <1>10 DEF Grows
<1>12. /\ SourceCites(m) = SourceCites(l) /\ Validated(m) = Validated(l) /\ SourceBytes(m) = SourceBytes(l)
       /\ GraphCites(m) = GraphCites(l) \cup ((Len(l.cites) + 1) .. Len(m.cites))
       /\ Cardinality(GraphCites(m)) = Cardinality(GraphCites(l)) + (Len(m.cites) - Len(l.cites))
       /\ \A i \in DOMAIN m.cites : m.cites[i].span \in Nat
       /\ {m.cites[i].key : i \in GraphCites(m)} = {l.cites[i].key : i \in GraphCites(l)} \cup {f.key : f \in Range(given)}
       /\ Range(l.cites) \subseteq Range(m.cites)
    BY <1>4, <1>10, GrowsCites
<1>13. /\ \A i, j \in DOMAIN m.cites : m.cites[i].id = m.cites[j].id => i = j
       /\ \A i, j \in GraphCites(m) : m.cites[i].key = m.cites[j].key => i = j
       /\ \A i \in GraphCites(m) : \E n \in 1 .. Cardinality(GraphCites(m)) : m.cites[i].id = <<"fact", n>>
    BY <1>4, <1>5, <1>6, <1>7, <1>10, <1>12, GrowsIds
<1>14. {m.cites[i].key : i \in GraphCites(m)} = KeysIn(S)
    BY <1>4, <1>8, <1>9, <1>12
<1>15. QED
    BY <1>4, <1>10, <1>11, <1>12, <1>13, <1>14 DEF l, S, given

\* Citations of different facts are as many as the facts.
LEMMA CitesCount ==
    ASSUME NEW l, IsFiniteSet(GraphCites(l)), \A i, j \in GraphCites(l) : l.cites[i].key = l.cites[j].key => i = j
    PROVE  Cardinality({l.cites[i].key : i \in GraphCites(l)}) = Cardinality(GraphCites(l))
<1> DEFINE S == GraphCites(l)
           K == {l.cites[i].key : i \in S}
           f == [i \in S |-> l.cites[i].key]
<1>1. \A i \in S : f[i] = l.cites[i].key /\ f[i] \in K
    OBVIOUS
<1>2. \A k \in K : \E i \in S : f[i] = k
    BY <1>1
<1>3. f \in [S -> K] /\ \A i, j \in S : f[i] = f[j] => i = j
    BY <1>1
<1> HIDE DEF f, K
<1>4. f \in Surjection(S, K) /\ f \in Injection(S, K)
    BY <1>2, <1>3 DEF Surjection, Injection, IsInjective
<1>5. Cardinality(K) = Cardinality(S)
    BY <1>4, FS_Surjection
<1>6. QED
    BY <1>5 DEF K

\* The facts of a page have at most as many keys.
LEMMA KeysCount ==
    ASSUME NEW T, NEW given \in Seq(T)
    PROVE  IsFiniteSet(KeysOf(given)) /\ Cardinality(KeysOf(given)) <= Len(given)
<1> DEFINE K == KeysOf(given)
           S == 1 .. Len(given)
           f == [i \in S |-> given[i].key]
<1>1. Len(given) \in Nat /\ DOMAIN given = S
    OBVIOUS
<1>2. \A i \in S : f[i] = given[i].key /\ f[i] \in K
    BY <1>1 DEF KeysOf
<1>3. \A k \in K : \E i \in S : f[i] = k
    BY <1>1, <1>2 DEF KeysOf
<1>4. IsFiniteSet(S) /\ Cardinality(S) = Len(given)
    BY <1>1, IndexesAreFinite
<1>5. f \in [S -> K]
    BY <1>2
<1> HIDE DEF f, K, S
<1>6. f \in Surjection(S, K)
    BY <1>3, <1>5 DEF Surjection
<1>7. IsFiniteSet(K) /\ Cardinality(K) <= Cardinality(S)
    BY <1>4, <1>6, FS_Surjection
<1>8. QED
    BY <1>4, <1>7 DEF K

Returned(l) == Total([i \in DOMAIN l.queries |-> l.queries[i].returned])

\* The record of the query that a page answers.
LEMMA QueryRecords ==
    ASSUME NEW page, NEW m, QueryMade(page, m)
    PROVE  LET l == frozen.ledger
               k == Len(l.queries) + 1
               r == m.queries[k]
           IN  /\ IsSeq(l.queries) /\ IsSeq(m.queries) /\ Len(l.queries) \in Nat /\ Len(m.queries) = k
               /\ DOMAIN l.queries = 1 .. Len(l.queries) /\ DOMAIN m.queries = 1 .. k
               /\ \A i \in 1 .. Len(l.queries) : m.queries[i] = l.queries[i]
               /\ r.query = call.query /\ r.bytes = ResponseSize(page) /\ r.returned = Len(page.facts)
               /\ r.total = Len(SelectedFacts(frozen.facts, call.query.sel))
               /\ IsPrefix(l.queries, m.queries)
               /\ \A i \in DOMAIN m.queries : {m.queries[i].bytes, m.queries[i].returned} \subseteq Nat
               /\ Returned(l) \in Nat /\ Returned(m) = Returned(l) + Len(page.facts)
<1> DEFINE old == frozen.ledger.queries
           new == m.queries
           x == [query |-> call.query, bytes |-> ResponseSize(page), returned |-> Len(page.facts),
                 total |-> Len(SelectedFacts(frozen.facts, call.query.sel))]
           s == [i \in DOMAIN old |-> old[i].returned]
           t == [i \in DOMAIN new |-> new[i].returned]
           a == Len(old)
<1>1. ShapesFit /\ m = LedgerAfterQuery(call.query, page)
    BY DEF QueryMade, ContextInv
<1>2. new = Append(old, x)
    BY <1>1, QueryLedger
<1>3. IsSeq(old) /\ \A i \in DOMAIN old : {old[i].bytes, old[i].returned} \subseteq Nat
    BY DEF QueryMade, ContextInv, PagesFit
<1>4. Len(page.facts) \in Nat /\ ResponseSize(page) \in Nat
    BY ResponseFits DEF QueryMade, IsPage
<1>5. /\ x.query = call.query /\ x.bytes = ResponseSize(page) /\ x.returned = Len(page.facts)
      /\ x.total = Len(SelectedFacts(frozen.facts, call.query.sel))
    OBVIOUS
<1>6. Returned(frozen.ledger) = Total(s) /\ Returned(m) = Total(t)
    BY DEF Returned
<1> HIDE DEF x, old, new, s, t
<1>7. /\ a \in Nat /\ Len(new) = a + 1 /\ DOMAIN old = 1 .. a /\ DOMAIN new = 1 .. (a + 1)
      /\ (\A i \in 1 .. a : new[i] = old[i]) /\ new[a + 1] = x
      /\ IsSeq(new) /\ IsPrefix(old, new)
    BY <1>2, <1>3, Appended
<1> HIDE DEF a
<1>8. \A i \in DOMAIN new : {new[i].bytes, new[i].returned} \subseteq Nat
    BY <1>3, <1>4, <1>5, <1>7
<1>9. Total(s) \in Nat /\ Total(t) = Total(s) + Len(page.facts)
    <2>1. s \in Seq(Nat) /\ Len(s) = a /\ (\A i \in 1 .. a : s[i] = old[i].returned)
        BY <1>3, <1>7 DEF s
    <2>2. t \in Seq(Nat) /\ Len(t) = a + 1 /\ (\A i \in 1 .. (a + 1) : t[i] = new[i].returned)
        BY <1>7, <1>8 DEF t
    <2>3. (\A i \in 1 .. a : t[i] = s[i]) /\ t[a + 1] = Len(page.facts)
        <3>1. \A i \in 1 .. a : i \in 1 .. (a + 1) /\ new[i] = old[i]
            BY <1>7
        <3>2. a + 1 \in 1 .. (a + 1) /\ new[a + 1].returned = Len(page.facts)
            BY <1>5, <1>7
        <3>3. QED
            BY <2>1, <2>2, <3>1, <3>2
    <2>4. QED
        BY <1>7, <2>1, <2>2, <2>3, TotalAppend, TotalType
<1>10. QED
    BY <1>3, <1>5, <1>6, <1>7, <1>8, <1>9 DEF old, new, a

\* What the call builds is a ledger, if the responses fit the task.
LEMMA QueryValid ==
    ASSUME NEW page, NEW m, QueryMade(page, m), QueryBytes(m) <= MaxTotalBytes
    PROVE  ValidLedger(m)
<1> DEFINE l == frozen.ledger
           q == call.query
           S == m.selected
           k == Len(l.queries) + 1
<1>1. /\ ValidLedger(l) /\ UsageFits /\ QueryFits /\ CitesFit
      /\ l.scope = frozen.facts /\ m.scope = l.scope
    <2>1. ShapesFit /\ m = LedgerAfterQuery(q, page)
        BY DEF QueryMade, ContextInv
    <2>2. m.scope = l.scope
        BY <2>1, QueryLedger
    <2>3. QED
        BY <2>2 DEF QueryMade, ContextInv, InputPrepares, SnapshotFits
<1>2. /\ QueryAccepted(frozen.facts, q) /\ q.cursor.offset \in Nat /\ q.max_facts \in Nat /\ q.max_bytes \in Nat
      /\ IsPage(frozen.facts, q, page) /\ Len(page.facts) <= q.max_facts /\ ResponseSize(page) \in 1 .. q.max_bytes
    BY ResponseFits DEF QueryMade
<1>3. /\ IsFiniteSet(S) /\ KeyedOnce(S) /\ l.selected \subseteq S
      /\ KeysIn(S) = PriorKeys \cup KeysOf(page.facts)
      /\ Cardinality(S) = Cardinality(KeysIn(S)) /\ Cardinality(S) <= MaxSelected
      /\ m.receipts = {s.receipt : s \in S} \ {Unbound}
    BY QuerySelects
<1>4. /\ IsSeq(l.cites) /\ IsSeq(m.cites) /\ Grows(l.cites, S, page.facts, m.cites)
      /\ SourceCites(m) = SourceCites(l) /\ Validated(m) = Validated(l) /\ SourceBytes(m) = SourceBytes(l)
      /\ {m.cites[i].key : i \in GraphCites(m)} = KeysIn(S)
      /\ \A i, j \in DOMAIN m.cites : m.cites[i].id = m.cites[j].id => i = j
      /\ \A i, j \in GraphCites(m) : m.cites[i].key = m.cites[j].key => i = j
      /\ GraphCites(m) = GraphCites(l) \cup ((Len(l.cites) + 1) .. Len(m.cites))
    BY QueryCites
<1>5. /\ IsSeq(l.queries) /\ Len(l.queries) \in Nat /\ Len(m.queries) = k
      /\ DOMAIN l.queries = 1 .. Len(l.queries) /\ DOMAIN m.queries = 1 .. k
      /\ \A i \in 1 .. Len(l.queries) : m.queries[i] = l.queries[i]
      /\ m.queries[k].query = q /\ m.queries[k].bytes = ResponseSize(page) /\ m.queries[k].returned = Len(page.facts)
      /\ m.queries[k].total = Len(SelectedFacts(frozen.facts, q.sel))
      /\ Returned(l) \in Nat /\ Returned(m) = Returned(l) + Len(page.facts)
    BY QueryRecords
<1> HIDE DEF l, q, S, k
<1>6. Cardinality({s.fact.key : s \in S}) = Cardinality(S)
    BY <1>3 DEF KeysIn
<1>7. Cardinality(GraphCites(m)) = Cardinality(S)
    <2>1. IsFiniteSet(GraphCites(m))
        BY <1>4, RangeFinite, FS_Subset DEF GraphCites
    <2>2. QED
        BY <1>3, <1>4, <2>1, CitesCount
<1>8. ASSUME NEW i \in DOMAIN m.cites
      PROVE  ValidCitation(m, m.cites[i])
    <2>1. /\ Len(l.cites) \in Nat /\ DOMAIN l.cites = 1 .. Len(l.cites) /\ DOMAIN m.cites = 1 .. Len(m.cites)
          /\ Len(m.cites) \in Nat /\ \A j \in 1 .. Len(l.cites) : m.cites[j] = l.cites[j]
        BY <1>4, RangeFinite DEF Grows
    <2>2. CASE i \in DOMAIN l.cites
        <3>1. ValidCitation(l, l.cites[i]) /\ m.cites[i] = l.cites[i]
            BY <1>1, <2>1, <2>2 DEF ValidLedger
        <3>2. l.receipts \subseteq m.receipts
            BY <1>1, <1>3 DEF ValidLedger
        <3>3. QED
            BY <1>3, <3>1, <3>2 DEF ValidCitation, S
    <2>3. CASE i \in (Len(l.cites) + 1) .. Len(m.cites)
        <3> DEFINE n == Cardinality(Cited(l.cites)) + (i - Len(l.cites))
        <3>1. PICK f \in Range(page.facts) : m.cites[i] = FactCite(S, f, n)
            BY <1>4, <2>3 DEF Grows
        <3> HIDE DEF n
        <3>2. f.key \in KeysIn(S)
            BY <1>3, <3>1 DEF KeysOf, Range
        <3> DEFINE s == CHOOSE s \in S : s.fact.key = f.key
        <3>3. s \in S /\ s.fact.key = f.key
            BY <3>2 DEF KeysIn
        <3>4. m.cites[i].key = f.key /\ m.cites[i].origin = "graph" /\ m.cites[i].digest = s.fact
            BY <3>1, FactCiteIs
        <3> HIDE DEF s
        <3>5. QED
            BY <3>3, <3>4 DEF ValidCitation, S
    <2>4. QED
        BY <2>1, <2>2, <2>3
<1>9. /\ Cardinality(SourceCites(m)) <= MaxEvidence /\ SourceBytes(m) <= MaxEvidenceBytes
      /\ Cardinality(Validated(m)) <= MaxValidations
    BY <1>1, <1>4 DEF ValidLedger
<1>10. Len(m.queries) <= MaxTools
    <2>1. Len(l.queries) < saved.usage.tools
        BY <1>1 DEF QueryFits, l
    <2>2. saved.usage.tools \in Nat /\ saved.usage.tools <= MaxTools
        BY <1>1 DEF UsageFits
    <2>3. MaxTools \in Nat
        BY ContextAssumption
    <2>4. QED
        BY <1>5, <2>1, <2>2, <2>3 DEF k
<1>11. ASSUME NEW i \in DOMAIN m.queries
       PROVE  LET r == m.queries[i]
              IN  /\ ValidLimits(r.query) /\ r.bytes \in 1 .. r.query.max_bytes
                  /\ r.returned <= r.query.max_facts /\ r.returned <= r.total
                  /\ r.query.cursor # NoCursor => r.query.cursor.snapshot = m.scope
    <2>1. CASE i \in DOMAIN l.queries
        <3>1. m.queries[i] = l.queries[i]
            BY <1>5, <2>1
        <3>2. QED
            BY <1>1, <2>1, <3>1 DEF ValidLedger
    <2>2. CASE i = k
        <3>1. ValidLimits(q) /\ (q.cursor # NoCursor => q.cursor.snapshot = frozen.facts)
            BY <1>2 DEF QueryAccepted
        <3>2. Len(page.facts) <= Len(SelectedFacts(frozen.facts, q.sel))
            BY <1>2 DEF IsPage
        <3>3. QED
            BY <1>1, <1>2, <1>5, <2>2, <3>1, <3>2
    <2>3. QED
        BY <1>5, <2>1, <2>2 DEF k
<1>12. Total([i \in DOMAIN m.queries |-> m.queries[i].bytes]) <= MaxTotalBytes
    BY DEF QueryBytes
<1>13. Returned(m) >= Cardinality(S)
    <2>1. Returned(l) >= Cardinality(l.selected) /\ Cardinality(PriorKeys) = Cardinality(l.selected)
        BY <1>1 DEF ValidLedger, Returned, PriorKeys, l
    <2>2. IsFiniteSet(KeysOf(page.facts)) /\ Cardinality(KeysOf(page.facts)) <= Len(page.facts)
        BY <1>2, KeysCount DEF IsPage
    <2>3. IsFiniteSet(PriorKeys) /\ IsFiniteSet(KeysIn(S))
        BY <1>3, KeyedCount, FS_Subset
    <2>4. Cardinality(PriorKeys \cup KeysOf(page.facts)) <= Cardinality(PriorKeys) + Cardinality(KeysOf(page.facts))
        <3>1. Cardinality(PriorKeys \cup KeysOf(page.facts)) =
                  Cardinality(PriorKeys) + Cardinality(KeysOf(page.facts)) - Cardinality(PriorKeys \cap KeysOf(page.facts))
            BY <2>2, <2>3, FS_Union
        <3>2. IsFiniteSet(PriorKeys \cap KeysOf(page.facts))
            BY <2>3, FS_Subset
        <3>3. /\ Cardinality(PriorKeys \cap KeysOf(page.facts)) \in Nat /\ Cardinality(PriorKeys) \in Nat
              /\ Cardinality(KeysOf(page.facts)) \in Nat
            BY <2>2, <2>3, <3>2, FS_CardinalityType
        <3>4. QED
            BY <3>1, <3>3
    <2>5. /\ Cardinality(PriorKeys \cup KeysOf(page.facts)) \in Nat /\ Cardinality(PriorKeys) \in Nat
          /\ Cardinality(KeysOf(page.facts)) \in Nat /\ Len(page.facts) \in Nat
        BY <1>2, <1>3, <2>2, <2>3, FS_CardinalityType DEF IsPage
    <2>6. QED
        BY <1>3, <1>5, <2>1, <2>2, <2>4, <2>5
<1>14. QED
    BY <1>3, <1>4, <1>6, <1>7, <1>8, <1>9, <1>10, <1>11, <1>12, <1>13 DEF ValidLedger, Returned, S

\* The usage of a query counts what is selected now.
LEMMA QueryAdmits ==
    ASSUME NEW page, NEW m, QueryMade(page, m)
    PROVE  /\ AdmitsInput(m, [saved.usage EXCEPT !.selected = Cardinality(m.selected)])
           /\ m.graph = frozen.ledger.graph /\ m.scope = frozen.ledger.scope /\ m.revision \in Nat
<1> DEFINE l == frozen.ledger
           S == m.selected
           u == [saved.usage EXCEPT !.selected = Cardinality(S)]
<1>1. UsageFits /\ saved.ledger = l /\ ValidLedger(l) /\ l.revision \in Nat
    BY DEF QueryMade, ContextInv, InputPrepares, SnapshotFits
<1>2. m.graph = l.graph /\ m.scope = l.scope /\ m.revision = l.revision + 1
    <2>1. ShapesFit /\ m = LedgerAfterQuery(call.query, page)
        BY DEF QueryMade, ContextInv
    <2>2. QED
        BY <2>1, QueryLedger
<1>3. /\ saved.usage \in [tools : Nat, selected : Nat, items : Nat, bytes : Nat, charged : Nat]
      /\ saved.usage.selected = Cardinality(l.selected) /\ saved.usage.items = Cardinality(SourceCites(l))
      /\ saved.usage.bytes = SourceBytes(l) /\ Cardinality(Validated(l)) <= saved.usage.charged
    BY <1>1 DEF UsageFits
<1>4. /\ u.tools = saved.usage.tools /\ u.charged = saved.usage.charged /\ u.selected = Cardinality(S)
      /\ u.items = saved.usage.items /\ u.bytes = saved.usage.bytes
    BY <1>3
<1>5. IsFiniteSet(S) /\ l.selected \subseteq S /\ m.receipts = {s.receipt : s \in S} \ {Unbound}
    BY QuerySelects
<1>6. SourceCites(m) = SourceCites(l) /\ Validated(m) = Validated(l) /\ SourceBytes(m) = SourceBytes(l)
      /\ Range(l.cites) \subseteq Range(m.cites)
    BY QueryCites
<1>7. IsPrefix(l.queries, m.queries)
    BY QueryRecords
<1>8. l.receipts \subseteq m.receipts
    BY <1>1, <1>5 DEF ValidLedger
<1> HIDE DEF u, l, S
<1>9. Cardinality(l.selected) <= Cardinality(S) /\ Cardinality(S) \in Nat
    BY <1>5, FS_Subset, FS_CardinalityType
<1>10. saved.ledger = l
    BY <1>1
<1>11. /\ u.tools = saved.usage.tools /\ u.charged = saved.usage.charged
       /\ u.selected = Cardinality(m.selected) /\ u.selected >= saved.usage.selected
    BY <1>3, <1>4, <1>9 DEF S
<1>12. /\ u.items = Cardinality(SourceCites(m)) /\ u.items >= saved.usage.items
       /\ u.bytes = SourceBytes(m) /\ u.bytes >= saved.usage.bytes
       /\ Cardinality(Validated(m)) <= u.charged
    BY <1>3, <1>4, <1>6
<1>13. m.revision > l.revision /\ m.revision \in Nat
    BY <1>1, <1>2
<1>14. l.selected \subseteq m.selected
    BY <1>5 DEF S
<1>15. AdmitsInput(m, u)
    BY <1>2, <1>6, <1>7, <1>8, <1>10, <1>11, <1>12, <1>13, <1>14 DEF AdmitsInput
<1>16. QED
    BY <1>2, <1>13, <1>15 DEF u, l, S

\* A page that is kept: with those it continues it is a prefix of the selection.
PageFits(facts, p) ==
    /\ p.facts \in Seq(facts) /\ p.bytes \in Nat
    /\ p.seen \in [known : BOOLEAN, facts : Seq(facts)]
    /\ p.next.offset \in Nat
    /\ p.next # NoCursor => p.next = [snapshot |-> facts, selection |-> p.sel, offset |-> p.next.offset]
    /\ p.next # NoCursor /\ p.seen.known => p.next.offset = Len(p.seen.facts)
    /\ p.seen.known => /\ p.seen.facts = SubSeq(SelectedFacts(facts, p.sel), 1, Len(p.seen.facts))
                       /\ p.next = NoCursor => p.seen.facts = SelectedFacts(facts, p.sel)

\* Two sequences, one after the other.
LEMMA JoinIs ==
    ASSUME NEW T, NEW x \in Seq(T), NEW y \in Seq(T)
    PROVE  /\ x \o y \in Seq(T) /\ Len(x \o y) = Len(x) + Len(y)
           /\ \A i \in 1 .. Len(x) : (x \o y)[i] = x[i]
           /\ \A i \in (Len(x) + 1) .. (Len(x) + Len(y)) : (x \o y)[i] = y[i - Len(x)]
OBVIOUS

\* Sequences with the same items.
LEMMA SameItems ==
    ASSUME NEW T, NEW x \in Seq(T), NEW y \in Seq(T), Len(x) = Len(y), \A i \in 1 .. Len(x) : x[i] = y[i]
    PROVE  x = y
OBVIOUS

\* A record of pages seen, continued.
LEMMA JoinedPart ==
    ASSUME NEW r, NEW a, NEW b, r = [known |-> a, facts |-> b], NEW y
    PROVE  [r EXCEPT !.facts = @ \o y] = [known |-> a, facts |-> b \o y]
<1>1. r.facts = b
    OBVIOUS
<1>2. \A z : [r EXCEPT !.facts = z] = [known |-> a, facts |-> z]
    OBVIOUS
<1>3. [r EXCEPT !.facts = @ \o y] = [r EXCEPT !.facts = b \o y]
    BY <1>1
<1>4. QED
    BY <1>2, <1>3

\* x is a prefix of s and y what follows there.
Follows(s, x, y) == /\ Len(x) + Len(y) <= Len(s) /\ x = SubSeq(s, 1, Len(x))
                    /\ \A i \in 1 .. Len(y) : y[i] = s[Len(x) + i]
PrefixIs(s, z, n) == /\ Len(z) = n /\ z = SubSeq(s, 1, n)
                     /\ n = Len(s) => z = s

\* A prefix and what follows it make a longer prefix.
LEMMA CutsJoin ==
    ASSUME NEW T, NEW s \in Seq(T), NEW x \in Seq(T), NEW y \in Seq(T), Follows(s, x, y)
    PROVE  x \o y \in Seq(T) /\ PrefixIs(s, x \o y, Len(x) + Len(y))
<1> DEFINE a == Len(x)
           b == Len(y)
<1>0. a \in Nat /\ b \in Nat /\ a + b <= Len(s) /\ x = SubSeq(s, 1, a) /\ \A i \in 1 .. b : y[i] = s[a + i]
    BY DEF Follows
<1>1. \A i \in 1 .. a : x[i] = s[i]
    BY <1>0
<1>2. x \o y \in Seq(T) /\ Len(x \o y) = a + b
    BY JoinIs
<1>3. ASSUME NEW i \in 1 .. (a + b)
      PROVE  (x \o y)[i] = s[i]
    <2>1. CASE i <= a
        BY <1>1, <2>1
    <2>2. CASE i > a
        <3>1. i - a \in 1 .. b /\ a + (i - a) = i
            BY <1>0, <2>2
        <3>2. (x \o y)[i] = y[i - a]
            BY <2>2, JoinIs
        <3>3. QED
            BY <1>0, <3>1, <3>2
    <2>3. QED
        BY <2>1, <2>2
<1>4. SubSeq(s, 1, a + b) \in Seq(T) /\ Len(SubSeq(s, 1, a + b)) = a + b
      /\ \A i \in 1 .. (a + b) : SubSeq(s, 1, a + b)[i] = s[i]
    BY <1>0
<1> DEFINE z == x \o y
           c == SubSeq(s, 1, a + b)
<1>5. z \in Seq(T) /\ Len(z) = a + b /\ c \in Seq(T) /\ Len(c) = a + b
      /\ \A i \in 1 .. (a + b) : z[i] = s[i] /\ c[i] = s[i]
    BY <1>2, <1>3, <1>4
<1> HIDE DEF z, c
<1>6. z = c
    BY <1>5, SameItems
<1>7. ASSUME a + b = Len(s)
      PROVE  z = s
    BY <1>5, <1>7, SameItems
<1>8. QED
    BY <1>5, <1>6, <1>7 DEF z, c, PrefixIs

\* The page that is supplied continues what was seen before its cursor.
LEMMA RecordFits ==
    ASSUME NEW page, NEW m, QueryMade(page, m)
    PROVE  LET p == PageRecord(call.query, page)
           IN  PageFits(frozen.facts, p) /\ p.bytes = ResponseSize(page) /\ p.facts = page.facts
<1> DEFINE q == call.query
           F == frozen.facts
           all == SelectedFacts(F, q.sel)
           off == q.cursor.offset
           n == Len(page.facts)
           old == SeenBefore(q.cursor)
           seen == [old EXCEPT !.facts = @ \o page.facts]
           p == PageRecord(q, page)
<1>1. /\ QueryAccepted(F, q) /\ off \in Nat /\ IsPage(F, q, page) /\ ResponseSize(page) \in Nat
    BY ResponseFits DEF QueryMade
<1>2. p = [sel |-> q.sel, facts |-> page.facts, next |-> page.next, bytes |-> ResponseSize(page), seen |-> seen]
    BY DEF PageRecord
<1>3. /\ p.sel = q.sel /\ p.facts = page.facts /\ p.next = page.next /\ p.bytes = ResponseSize(page) /\ p.seen = seen
    BY <1>2
<1>4. /\ all \in Seq(F) /\ off \in Nat /\ n \in Nat /\ off + n <= Len(all)
      /\ page.facts \in Seq(F) /\ \A i \in 1 .. n : page.facts[i] = all[off + i]
    BY <1>1 DEF IsPage
<1>5. page.next = CursorAt(F, all, q.sel, off + n)
    <2>1. page = [facts |-> page.facts, next |-> CursorAt(F, all, q.sel, off + n)]
        BY <1>1 DEF IsPage
    <2>2. QED
        BY <2>1
<1>6. \A i \in DOMAIN frozen.pages : PageFits(F, frozen.pages[i])
    BY DEF QueryMade, ContextInv, PagesFit, NothingSkipped, PageFits
<1>7. q.cursor # NoCursor => q.cursor.selection = q.sel
    BY <1>1 DEF QueryAccepted
<1> HIDE DEF q, F, all, off, n, seen, p
\* What was seen before the cursor is the selection up to it.
<1>8. /\ old \in [known : BOOLEAN, facts : Seq(F)]
      /\ old.known => Len(old.facts) = off /\ old.facts = SubSeq(all, 1, off)
    <2>1. CASE q.cursor = NoCursor
        <3>1. old = [known |-> TRUE, facts |-> <<>>] /\ off = 0
            BY <2>1 DEF SeenBefore, NoCursor, off
        <3>2. <<>> \in Seq(F) /\ Len(<<>>) = 0 /\ SubSeq(all, 1, 0) = <<>>
            BY <1>4
        <3>3. QED
            BY <3>1, <3>2
    <2>2. CASE q.cursor # NoCursor /\ \A i \in DOMAIN frozen.pages : frozen.pages[i].next # q.cursor
        <3>1. old = [known |-> FALSE, facts |-> <<>>]
            BY <2>2 DEF SeenBefore
        <3>2. <<>> \in Seq(F)
            OBVIOUS
        <3>3. QED
            BY <3>1, <3>2
    <2>3. CASE q.cursor # NoCursor /\ \E i \in DOMAIN frozen.pages : frozen.pages[i].next = q.cursor
        <3> DEFINE from == {i \in DOMAIN frozen.pages : frozen.pages[i].next = q.cursor}
                   j == CHOOSE i \in from : TRUE
                   w == frozen.pages[j]
        <3>1. j \in from /\ from # {}
            BY <2>3
        <3>2. old = w.seen
            BY <2>3, <3>1 DEF SeenBefore
        <3>3. PageFits(F, w) /\ w.next = q.cursor
            BY <1>6, <3>1
        <3> HIDE DEF w, j, from
        <3>4. w.next.selection = w.sel
            <4>1. w.next = [snapshot |-> F, selection |-> w.sel, offset |-> w.next.offset]
                BY <2>3, <3>3 DEF PageFits
            <4>2. QED
                BY <4>1
        <3>5. w.sel = q.sel /\ w.next.offset = off
            BY <1>7, <2>3, <3>3, <3>4 DEF off
        <3>6. w.seen \in [known : BOOLEAN, facts : Seq(F)]
              /\ (w.seen.known => w.next.offset = Len(w.seen.facts) /\ w.seen.facts = SubSeq(SelectedFacts(F, w.sel), 1, Len(w.seen.facts)))
            BY <2>3, <3>3 DEF PageFits
        <3>7. QED
            BY <3>2, <3>5, <3>6 DEF all
    <2>4. QED
        BY <2>1, <2>2, <2>3
<1> HIDE DEF old
<1>9. seen = [known |-> old.known, facts |-> old.facts \o page.facts]
    <2>1. old = [known |-> old.known, facts |-> old.facts]
        BY <1>8
    <2>2. QED
        BY <2>1, JoinedPart DEF seen
<1>10. seen.known = old.known /\ seen.facts = old.facts \o page.facts
    BY <1>9
<1>11. seen \in [known : BOOLEAN, facts : Seq(F)]
    <2>1. old.facts \o page.facts \in Seq(F)
        BY <1>4, <1>8
    <2>2. QED
        BY <1>8, <1>9, <2>1
<1>12. old.known => /\ Len(seen.facts) = off + n /\ seen.facts = SubSeq(all, 1, off + n)
                    /\ off + n = Len(all) => seen.facts = all
    <2>1. SUFFICES ASSUME old.known
                   PROVE  /\ Len(old.facts \o page.facts) = off + n /\ old.facts \o page.facts = SubSeq(all, 1, off + n)
                          /\ off + n = Len(all) => old.facts \o page.facts = all
        BY <1>10
    <2>2. old.facts \in Seq(F) /\ Len(old.facts) = off /\ old.facts = SubSeq(all, 1, off) /\ Len(page.facts) = n
        BY <1>8, <2>1 DEF n
    <2> DEFINE x == old.facts
               y == page.facts
    <2>3. x \in Seq(F) /\ y \in Seq(F) /\ Len(x) = off /\ x = SubSeq(all, 1, off) /\ Len(y) = n
          /\ \A i \in 1 .. n : y[i] = all[off + i]
        BY <1>4, <2>2
    <2> HIDE DEF x, y
    <2>6. Follows(all, x, y)
        BY <1>4, <2>3 DEF Follows
    <2>7. PrefixIs(all, x \o y, Len(x) + Len(y))
        BY <1>4, <2>3, <2>6, CutsJoin
    <2>4. Len(x \o y) = off + n /\ x \o y = SubSeq(all, 1, off + n) /\ (off + n = Len(all) => x \o y = all)
        BY <2>3, <2>7 DEF PrefixIs
    <2>5. QED
        BY <2>4 DEF x, y
<1>13. /\ page.next.offset \in Nat
       /\ page.next # NoCursor => page.next = [snapshot |-> F, selection |-> q.sel, offset |-> off + n]
       /\ page.next = NoCursor => off + n = Len(all)
    <2>1. CASE off + n < Len(all)
        <3>1. page.next = [snapshot |-> F, selection |-> q.sel, offset |-> off + n]
            BY <1>5, <2>1 DEF CursorAt
        <3>2. F # {}
            BY <1>4, <2>1
        <3>3. page.next.snapshot = F /\ page.next.offset = off + n /\ NoCursor.snapshot = {}
            BY <3>1 DEF NoCursor
        <3>4. page.next # NoCursor
            BY <3>2, <3>3
        <3>5. QED
            BY <1>4, <3>1, <3>3, <3>4
    <2>2. CASE ~(off + n < Len(all))
        <3>1. page.next = NoCursor /\ NoCursor.offset = 0
            BY <1>5, <2>2 DEF CursorAt, NoCursor
        <3>2. QED
            BY <1>4, <2>2, <3>1
    <2>3. QED
        BY <2>1, <2>2
<1>14. page.next # NoCursor => page.next.offset = off + n
    BY <1>13
<1>15. PageFits(F, p)
    <2>1. p.facts \in Seq(F) /\ p.bytes \in Nat /\ p.seen \in [known : BOOLEAN, facts : Seq(F)] /\ p.next.offset \in Nat
        BY <1>1, <1>3, <1>4, <1>11, <1>13
    <2>2. p.next # NoCursor => p.next = [snapshot |-> F, selection |-> p.sel, offset |-> p.next.offset]
        BY <1>3, <1>13, <1>14
    <2>3. p.next # NoCursor /\ p.seen.known => p.next.offset = Len(p.seen.facts)
        BY <1>3, <1>10, <1>12, <1>14
    <2>4. p.seen.known => /\ p.seen.facts = SubSeq(SelectedFacts(F, p.sel), 1, Len(p.seen.facts))
                          /\ p.next = NoCursor => p.seen.facts = SelectedFacts(F, p.sel)
        BY <1>3, <1>10, <1>12, <1>13 DEF all
    <2>5. QED
        BY <2>1, <2>2, <2>3, <2>4 DEF PageFits
<1>16. QED
    BY <1>3, <1>15 DEF p, q, F

\* Every citation of a fact is of one that a page shows.
LEMMA QueryShown ==
    ASSUME NEW page, NEW m, QueryMade(page, m)
    PROVE  /\ \A i \in GraphCites(m) : \/ \E p \in Range(frozen.pages) : m.cites[i].digest \in Range(p.facts)
                                       \/ m.cites[i].digest \in Range(page.facts)
           /\ \A i \in SourceCites(m) : m.cites[i] = frozen.ledger.cites[i]
<1> DEFINE l == frozen.ledger
           S == m.selected
<1>1. CitesFit /\ KeysFit(frozen.facts) /\ page.facts \in Seq(frozen.facts)
    BY ResponseFits DEF QueryMade, ContextInv, IsPage
<1>2. /\ IsSeq(l.cites) /\ Grows(l.cites, S, page.facts, m.cites) /\ SourceCites(m) = SourceCites(l)
      /\ GraphCites(m) = GraphCites(l) \cup ((Len(l.cites) + 1) .. Len(m.cites))
    BY QueryCites
<1>3. KeysIn(S) = PriorKeys \cup KeysOf(page.facts) /\ \A s \in S : s.fact \in frozen.facts
    BY QuerySelects
<1>4. \A i \in DOMAIN l.cites : m.cites[i] = l.cites[i]
    BY <1>2, RangeFinite DEF Grows
<1> HIDE DEF S
<1>5. ASSUME NEW i \in (Len(l.cites) + 1) .. Len(m.cites)
      PROVE  m.cites[i].digest \in Range(page.facts)
    <2> DEFINE n == Cardinality(Cited(l.cites)) + (i - Len(l.cites))
    <2>1. PICK f \in Range(page.facts) : m.cites[i] = FactCite(S, f, n)
        BY <1>2 DEF Grows
    <2> HIDE DEF n
    <2>2. f.key \in KeysIn(S) /\ f \in frozen.facts
        BY <1>1, <1>3, <2>1 DEF KeysOf, Range
    <2> DEFINE s == CHOOSE s \in S : s.fact.key = f.key
    <2>3. s \in S /\ s.fact.key = f.key
        BY <2>2 DEF KeysIn
    <2>4. m.cites[i].digest = s.fact
        BY <2>1, FactCiteIs
    <2> HIDE DEF s
    <2>5. s.fact = f
        BY <1>1, <1>3, <2>2, <2>3 DEF KeysFit
    <2>6. QED
        BY <2>1, <2>4, <2>5
<1>6. \A i \in GraphCites(l) : \E p \in Range(frozen.pages) : m.cites[i].digest \in Range(p.facts)
    BY <1>1, <1>4 DEF CitesFit, GraphCites
<1>7. \A i \in SourceCites(m) : m.cites[i] = l.cites[i]
    BY <1>2, <1>4 DEF SourceCites
<1>8. QED
    BY <1>2, <1>5, <1>6, <1>7

\* A call that ends, for whatever reason but a refusal.
LEMMA EndsKeeps ==
    ASSUME ContextInv, call.at # "answered", NEW why, why # "refused", Ends(why), UNCHANGED live
    PROVE  ContextInv'
<1>1. /\ call' = [at |-> "ended", why |-> why, query |-> NoQuery, key |-> 0, index |-> 0, early |-> {}]
      /\ frozen' = NoContext /\ saved' = saved /\ answer' = answer /\ live' = live
    BY DEF Ends, NoCall
<1>2. live \in LiveGraphs /\ ShapesFit /\ answer = NoAnswer
    BY DEF ContextInv
<1>3. call'.at = "ended" /\ call'.why = why
    BY <1>1
<1>4. ShapesFit'
    <2>1. NoContext = [graph |-> NoContext.graph, facts |-> NoContext.facts, ledger |-> NoContext.ledger, pages |-> NoContext.pages,
                       evidence |-> NoContext.evidence] /\ NoContext.ledger = NoLedger
        BY DEF NoContext
    <2>2. NoLedger = [graph |-> NoLedger.graph, scope |-> NoLedger.scope, revision |-> NoLedger.revision, selected |-> NoLedger.selected,
                      receipts |-> NoLedger.receipts, cites |-> NoLedger.cites, queries |-> NoLedger.queries]
        BY DEF NoLedger
    <2>3. call' = [at |-> call'.at, why |-> call'.why, query |-> call'.query, key |-> call'.key, index |-> call'.index,
                   early |-> call'.early]
        BY <1>1
    <2>4. saved' = [ledger |-> saved'.ledger, usage |-> saved'.usage]
        BY <1>1, <1>2 DEF ShapesFit
    <2>5. QED
        BY <1>1, <2>1, <2>2, <2>3, <2>4 DEF ShapesFit
<1>5. QED
    BY <1>1, <1>2, <1>3, <1>4 DEF ContextInv

\* What a published ledger, its usage and the context beside it must satisfy.
Publishable(l, u, context) ==
    /\ context = [graph |-> frozen.graph, facts |-> frozen.facts, ledger |-> l, pages |-> context.pages,
                  evidence |-> context.evidence]
    /\ l = [graph |-> l.graph, scope |-> l.scope, revision |-> l.revision, selected |-> l.selected,
            receipts |-> l.receipts, cites |-> l.cites, queries |-> l.queries]
    /\ ValidLedger(l)
    /\ Len(context.pages) = Len(l.queries)
    /\ \A i \in DOMAIN context.pages : context.pages[i].bytes = l.queries[i].bytes
    /\ {<<e.id, e.span>> : e \in Range(context.evidence)} = {<<l.cites[i].id, l.cites[i].span>> : i \in SourceCites(l)}
    /\ l.graph = frozen.graph /\ l.scope = frozen.facts /\ l.revision \in Nat
    /\ l.selected \subseteq [fact : frozen.facts, receipt : {s.receipt : s \in l.selected}]
    /\ IsSeq(context.pages) /\ IsSeq(l.queries)
    /\ \A i \in DOMAIN context.pages : PageFits(frozen.facts, context.pages[i])
    /\ \A i \in DOMAIN l.queries : {l.queries[i].bytes, l.queries[i].returned} \subseteq Nat
    /\ IsSeq(l.cites) /\ IsSeq(context.evidence)
    /\ \A i \in DOMAIN l.cites : l.cites[i].span \in Nat
    /\ {l.cites[i].key : i \in GraphCites(l)} = {s.fact.key : s \in l.selected}
    /\ Len(context.evidence) = Cardinality(SourceCites(l))
    /\ \A i \in GraphCites(l) : /\ \E n \in 1..Cardinality(GraphCites(l)) : l.cites[i].id = <<"fact", n>>
                                /\ \E p \in Range(context.pages) : l.cites[i].digest \in Range(p.facts)
    /\ \A i \in SourceCites(l) : /\ \E n \in 1..Len(context.evidence) : l.cites[i].id = <<"evidence", n>>
                                 /\ \E e \in Range(context.evidence) : e.id = l.cites[i].id /\ e.key = l.cites[i].key
    /\ u \in [tools : Nat, selected : Nat, items : Nat, bytes : Nat, charged : Nat]
    /\ u.selected = Cardinality(l.selected) /\ u.items = Cardinality(SourceCites(l)) /\ u.bytes = SourceBytes(l)
    /\ Len(l.queries) <= u.tools /\ u.tools <= MaxTools
    /\ Cardinality(Validated(l)) <= u.charged /\ u.charged <= MaxValidations

\* A ledger that fits is published beside its context.
LEMMA PublishKeeps ==
    ASSUME ContextInv, call.at \in {"query", "reading"}, NEW l, NEW u, NEW context, Publishable(l, u, context),
           saved' = [ledger |-> l, usage |-> u], frozen' = context, call' = [NoCall EXCEPT !.at = "ready"],
           UNCHANGED <<answer, live>>
    PROVE  ContextInv'
<1>1. /\ call' = [at |-> "ready", why |-> "", query |-> NoQuery, key |-> 0, index |-> 0, early |-> {}]
      /\ call'.at = "ready" /\ call'.why = ""
    BY DEF NoCall
<1>2. saved'.ledger = l /\ saved'.usage = u /\ saved' = [ledger |-> l, usage |-> u]
    OBVIOUS
<1>3. /\ frozen'.graph = frozen.graph /\ frozen'.facts = frozen.facts /\ frozen'.ledger = l
      /\ frozen'.pages = context.pages /\ frozen'.evidence = context.evidence
      /\ frozen' = [graph |-> frozen.graph, facts |-> frozen.facts, ledger |-> l, pages |-> context.pages,
                    evidence |-> context.evidence]
    BY DEF Publishable
<1>4. live \in LiveGraphs /\ answer = NoAnswer /\ answer' = answer /\ live' = live
      /\ KeysFit(frozen.graph) /\ frozen.facts \subseteq frozen.graph
    BY DEF ContextInv, SnapshotFits
<1>5. ShapesFit'
    <2>1. l = [graph |-> l.graph, scope |-> l.scope, revision |-> l.revision, selected |-> l.selected,
            receipts |-> l.receipts, cites |-> l.cites, queries |-> l.queries]
        BY DEF Publishable
    <2>2. call' = [at |-> call'.at, why |-> call'.why, query |-> call'.query, key |-> call'.key, index |-> call'.index,
                   early |-> call'.early]
        BY <1>1
    <2>3. QED
        BY <1>2, <1>3, <2>1, <2>2 DEF ShapesFit
<1>6. InputPrepares'
    BY <1>3 DEF Publishable, InputPrepares
<1>7. SnapshotFits'
    BY <1>3, <1>4 DEF Publishable, SnapshotFits
<1>8. PagesFit'
    <2>1. \A i \in DOMAIN context.pages : PageFits(frozen.facts, context.pages[i])
        BY DEF Publishable
    <2>2. NothingSkipped'
        BY <1>3, <2>1 DEF NothingSkipped, PageFits
    <2>3. IsSeq(context.pages) /\ IsSeq(l.queries)
          /\ \A i \in DOMAIN l.queries : {l.queries[i].bytes, l.queries[i].returned} \subseteq Nat
        BY DEF Publishable
    <2>4. \A i \in DOMAIN frozen'.pages :
              LET p == frozen'.pages[i]
              IN  /\ p.facts \in Seq(frozen'.facts) /\ p.bytes \in Nat
                  /\ p.seen \in [known : BOOLEAN, facts : Seq(frozen'.facts)]
                  /\ p.next.offset \in Nat
                  /\ p.next # NoCursor => p.next = [snapshot |-> frozen'.facts, selection |-> p.sel, offset |-> p.next.offset]
                  /\ p.next # NoCursor /\ p.seen.known => p.next.offset = Len(p.seen.facts)
        BY <1>3, <2>1 DEF PageFits
    <2>5. QED
        BY <1>3, <2>2, <2>3, <2>4 DEF PagesFit
<1>9. CitesFit'
    <2>1. /\ IsSeq(l.cites) /\ IsSeq(context.evidence)
          /\ \A i \in DOMAIN l.cites : l.cites[i].span \in Nat
          /\ {l.cites[i].key : i \in GraphCites(l)} = {s.fact.key : s \in l.selected}
          /\ Len(context.evidence) = Cardinality(SourceCites(l))
        BY DEF Publishable
    <2>2. \A i \in GraphCites(l) : /\ \E n \in 1..Cardinality(GraphCites(l)) : l.cites[i].id = <<"fact", n>>
                                   /\ \E p \in Range(context.pages) : l.cites[i].digest \in Range(p.facts)
        BY DEF Publishable
    <2>3. \A i \in SourceCites(l) : /\ \E n \in 1..Len(context.evidence) : l.cites[i].id = <<"evidence", n>>
                                    /\ \E e \in Range(context.evidence) : e.id = l.cites[i].id /\ e.key = l.cites[i].key
        BY DEF Publishable
    <2> DEFINE k == frozen'.ledger
               e == frozen'.evidence
               w == frozen'.pages
    <2>4. k = l /\ e = context.evidence /\ w = context.pages
        BY <1>3
    <2>5. /\ IsSeq(k.cites) /\ IsSeq(e) /\ \A i \in DOMAIN k.cites : k.cites[i].span \in Nat
          /\ {k.cites[i].key : i \in GraphCites(k)} = {s.fact.key : s \in k.selected}
          /\ Len(e) = Cardinality(SourceCites(k))
        BY <2>1, <2>4
    <2>6. \A i \in GraphCites(k) : /\ \E n \in 1..Cardinality(GraphCites(k)) : k.cites[i].id = <<"fact", n>>
                                   /\ \E p \in Range(w) : k.cites[i].digest \in Range(p.facts)
        BY <2>2, <2>4
    <2>7. \A i \in SourceCites(k) : /\ \E n \in 1..Len(e) : k.cites[i].id = <<"evidence", n>>
                                    /\ \E d \in Range(e) : d.id = k.cites[i].id /\ d.key = k.cites[i].key
        BY <2>3, <2>4
    <2>8. QED
        BY <2>5, <2>6, <2>7 DEF CitesFit
<1>10. UsageFits'
    BY <1>2, <1>3 DEF Publishable, UsageFits
<1>11. QED
    BY <1>1, <1>2, <1>3, <1>4, <1>5, <1>6, <1>7, <1>8, <1>9, <1>10 DEF ContextInv

\* The page is supplied and its ledger published.
LEMMA QueryPublishes ==
    ASSUME NEW page, NEW m, QueryMade(page, m), ValidLedger(m)
    PROVE  Publishable(m, [saved.usage EXCEPT !.selected = Cardinality(m.selected)],
                       [frozen EXCEPT !.ledger = m, !.pages = Append(@, PageRecord(call.query, page))])
<1> DEFINE l == frozen.ledger
           r == PageRecord(call.query, page)
           u == [saved.usage EXCEPT !.selected = Cardinality(m.selected)]
           pages == Append(frozen.pages, r)
           context == [frozen EXCEPT !.ledger = m, !.pages = Append(@, r)]
<1>1. ShapesFit /\ InputPrepares /\ SnapshotFits /\ PagesFit /\ CitesFit /\ UsageFits /\ QueryFits
      /\ m = LedgerAfterQuery(call.query, page)
    BY DEF QueryMade, ContextInv
<1>2. m = [graph |-> m.graph, scope |-> m.scope, revision |-> m.revision, selected |-> m.selected,
           receipts |-> m.receipts, cites |-> m.cites, queries |-> m.queries]
    BY <1>1, QueryLedger
<1>3. context = [graph |-> frozen.graph, facts |-> frozen.facts, ledger |-> m, pages |-> pages, evidence |-> frozen.evidence]
    <2>1. frozen = [graph |-> frozen.graph, facts |-> frozen.facts, ledger |-> frozen.ledger, pages |-> frozen.pages,
                    evidence |-> frozen.evidence]
        BY <1>1 DEF ShapesFit
    <2>2. context = [frozen EXCEPT !.ledger = m, !.pages = pages]
        OBVIOUS
    <2> HIDE DEF context, pages
    <2>3. QED
        BY <2>1, <2>2
<1> HIDE DEF context, r, pages
<1>4. context.pages = pages /\ context.evidence = frozen.evidence /\ context.ledger = m
    BY <1>3
<1>5. m.graph = frozen.graph /\ m.scope = frozen.facts /\ m.revision \in Nat
    BY <1>1, QueryAdmits DEF SnapshotFits
<1>6. m.selected \subseteq [fact : frozen.facts, receipt : {s.receipt : s \in m.selected}]
    <2>1. ASSUME NEW s \in m.selected
          PROVE  s \in [fact : frozen.facts, receipt : {t.receipt : t \in m.selected}]
        <3>1. s.fact \in frozen.facts /\ s = [fact |-> s.fact, receipt |-> s.receipt]
            BY QuerySelects
        <3>2. QED
            BY <3>1
    <2>2. QED
        BY <2>1
\* The pages.
<1>7. PageFits(frozen.facts, r) /\ r.bytes = ResponseSize(page) /\ r.facts = page.facts
    BY RecordFits DEF r
<1>8. /\ IsSeq(frozen.pages) /\ (\A i \in DOMAIN frozen.pages : PageFits(frozen.facts, frozen.pages[i]))
      /\ Len(frozen.pages) = Len(l.queries) /\ \A i \in DOMAIN frozen.pages : frozen.pages[i].bytes = l.queries[i].bytes
    BY <1>1 DEF PagesFit, NothingSkipped, PageFits, InputPrepares
<1> DEFINE a == Len(frozen.pages)
<1>9. /\ a \in Nat /\ Len(pages) = a + 1 /\ DOMAIN frozen.pages = 1 .. a /\ DOMAIN pages = 1 .. (a + 1)
      /\ (\A i \in 1 .. a : pages[i] = frozen.pages[i]) /\ pages[a + 1] = r
      /\ IsSeq(pages) /\ Range(frozen.pages) \subseteq Range(pages) /\ r \in Range(pages)
    BY <1>8, Appended DEF pages
<1>10. /\ IsSeq(m.queries) /\ Len(m.queries) = Len(l.queries) + 1
       /\ \A i \in 1 .. Len(l.queries) : m.queries[i] = l.queries[i]
       /\ m.queries[Len(l.queries) + 1].bytes = ResponseSize(page)
       /\ \A i \in DOMAIN m.queries : {m.queries[i].bytes, m.queries[i].returned} \subseteq Nat
    BY QueryRecords
<1> HIDE DEF a
<1>11. Len(pages) = Len(m.queries)
    BY <1>8, <1>9, <1>10 DEF a
<1>12. \A i \in DOMAIN pages : PageFits(frozen.facts, pages[i]) /\ pages[i].bytes = m.queries[i].bytes
    <2>1. ASSUME NEW i \in 1 .. a
          PROVE  PageFits(frozen.facts, pages[i]) /\ pages[i].bytes = m.queries[i].bytes
        BY <1>8, <1>9, <1>10 DEF a
    <2>2. PageFits(frozen.facts, pages[a + 1]) /\ pages[a + 1].bytes = m.queries[a + 1].bytes
        BY <1>7, <1>8, <1>9, <1>10 DEF a
    <2>3. \A i \in 1 .. (a + 1) : i \in 1 .. a \/ i = a + 1
        BY <1>9
    <2>4. QED
        BY <1>9, <2>1, <2>2, <2>3
\* The citations.
<1>13. /\ IsSeq(m.cites) /\ SourceCites(m) = SourceCites(l) /\ Validated(m) = Validated(l) /\ SourceBytes(m) = SourceBytes(l)
       /\ (\A i \in DOMAIN m.cites : m.cites[i].span \in Nat)
       /\ {m.cites[i].key : i \in GraphCites(m)} = {s.fact.key : s \in m.selected}
       /\ \A i \in GraphCites(m) : \E n \in 1 .. Cardinality(GraphCites(m)) : m.cites[i].id = <<"fact", n>>
    BY QueryCites DEF KeysIn
<1>14. \A i \in SourceCites(m) : m.cites[i] = l.cites[i]
    BY QueryShown
<1>15. \A i \in GraphCites(m) : \E p \in Range(pages) : m.cites[i].digest \in Range(p.facts)
    <2>1. ASSUME NEW i \in GraphCites(m)
          PROVE  \E p \in Range(pages) : m.cites[i].digest \in Range(p.facts)
        <3>1. \/ \E p \in Range(frozen.pages) : m.cites[i].digest \in Range(p.facts)
              \/ m.cites[i].digest \in Range(page.facts)
            BY QueryShown
        <3>2. QED
            BY <1>7, <1>9, <3>1
    <2>2. QED
        BY <2>1
<1>16. /\ IsSeq(frozen.evidence) /\ Len(frozen.evidence) = Cardinality(SourceCites(l))
       /\ \A i \in SourceCites(l) : /\ \E n \in 1 .. Len(frozen.evidence) : l.cites[i].id = <<"evidence", n>>
                                    /\ \E e \in Range(frozen.evidence) : e.id = l.cites[i].id /\ e.key = l.cites[i].key
       /\ {<<e.id, e.span>> : e \in Range(frozen.evidence)} = {<<l.cites[i].id, l.cites[i].span>> : i \in SourceCites(l)}
    BY <1>1 DEF CitesFit, InputPrepares
<1>17. {<<e.id, e.span>> : e \in Range(frozen.evidence)} = {<<m.cites[i].id, m.cites[i].span>> : i \in SourceCites(m)}
    <2>1. {<<l.cites[i].id, l.cites[i].span>> : i \in SourceCites(l)} = {<<m.cites[i].id, m.cites[i].span>> : i \in SourceCites(m)}
        BY <1>13, <1>14
    <2>2. QED
        BY <1>16, <2>1
<1>18. \A i \in SourceCites(m) : /\ \E n \in 1 .. Len(frozen.evidence) : m.cites[i].id = <<"evidence", n>>
                                 /\ \E e \in Range(frozen.evidence) : e.id = m.cites[i].id /\ e.key = m.cites[i].key
    BY <1>13, <1>14, <1>16
\* The usage.
<1>19. /\ u \in [tools : Nat, selected : Nat, items : Nat, bytes : Nat, charged : Nat]
       /\ u.selected = Cardinality(m.selected) /\ u.items = Cardinality(SourceCites(m)) /\ u.bytes = SourceBytes(m)
       /\ Len(m.queries) <= u.tools /\ u.tools <= MaxTools
       /\ Cardinality(Validated(m)) <= u.charged /\ u.charged <= MaxValidations
    <2>1. /\ saved.usage \in [tools : Nat, selected : Nat, items : Nat, bytes : Nat, charged : Nat]
          /\ saved.usage.items = Cardinality(SourceCites(l)) /\ saved.usage.bytes = SourceBytes(l)
          /\ saved.usage.tools <= MaxTools
          /\ Cardinality(Validated(l)) <= saved.usage.charged /\ saved.usage.charged <= MaxValidations
          /\ Len(l.queries) < saved.usage.tools /\ Len(l.queries) \in Nat
        BY <1>1, <1>8, <1>9 DEF UsageFits, QueryFits, a
    <2>2. Cardinality(m.selected) \in Nat
        BY QuerySelects, FS_CardinalityType
    <2>3. /\ u = [tools |-> saved.usage.tools, selected |-> Cardinality(m.selected), items |-> saved.usage.items,
                  bytes |-> saved.usage.bytes, charged |-> saved.usage.charged]
          /\ saved.usage.tools \in Nat /\ saved.usage.items \in Nat /\ saved.usage.bytes \in Nat /\ saved.usage.charged \in Nat
        BY <2>1
    <2> HIDE DEF u
    <2>4. /\ u.tools = saved.usage.tools /\ u.selected = Cardinality(m.selected) /\ u.items = saved.usage.items
          /\ u.bytes = saved.usage.bytes /\ u.charged = saved.usage.charged
          /\ u \in [tools : Nat, selected : Nat, items : Nat, bytes : Nat, charged : Nat]
        BY <2>2, <2>3
    <2>5. QED
        BY <1>10, <1>13, <2>1, <2>3, <2>4
<1> HIDE DEF u
<1>20. Publishable(m, u, context)
    BY <1>2, <1>3, <1>4, <1>5, <1>6, <1>9, <1>10, <1>11, <1>12, <1>13, <1>15, <1>16, <1>17, <1>18, <1>19 DEF Publishable
<1>21. QED
    BY <1>20 DEF u, context, r

\* The second half of a query.
LEMMA FinishQueryStep ==
    ASSUME ContextInv, FinishQuery
    PROVE  ContextInv'
<1>1. call.at = "query" /\ live' = live
    BY DEF FinishQuery
<1>2. CASE Ends("changed") \/ Ends("limit")
    <2>1. call.at # "answered" /\ "changed" # "refused" /\ "limit" # "refused" /\ UNCHANGED live
        BY <1>1
    <2>2. QED
        BY <1>2, <2>1, EndsKeeps
<1>3. ASSUME SelectedAsBefore(EarlyKeys), NEW page \in Response(call.query),
             SupplyPage(call.query, page, LedgerAfterQuery(call.query, page))
      PROVE  ContextInv'
    <2> DEFINE m == LedgerAfterQuery(call.query, page)
               u == [saved.usage EXCEPT !.selected = Cardinality(m.selected)]
               context == [frozen EXCEPT !.ledger = m, !.pages = Append(@, PageRecord(call.query, page))]
    <2>1. QueryMade(page, m)
        BY <1>1, <1>3 DEF QueryMade
    <2>2. Ends("limit") \/ (QueryBytes(m) <= MaxTotalBytes /\ PublishInput(m, u, context))
        BY <1>3 DEF SupplyPage
    <2> HIDE DEF m, u, context
    <2>3. CASE QueryBytes(m) <= MaxTotalBytes /\ PublishInput(m, u, context)
        <3>1. ValidLedger(m)
            BY <2>1, <2>3, QueryValid
        <3>2. AdmitsInput(m, u)
            BY <2>1, QueryAdmits DEF u
        <3>3. /\ saved' = [ledger |-> m, usage |-> u] /\ frozen' = context
              /\ call' = [NoCall EXCEPT !.at = "ready"] /\ answer' = answer
            BY <2>3, <3>1, <3>2 DEF PublishInput
        <3>4. Publishable(m, u, context)
            BY <2>1, <3>1, QueryPublishes DEF u, context
        <3>5. QED
            BY <1>1, <3>3, <3>4, PublishKeeps
    <2>4. QED
        BY <1>2, <2>2, <2>3
<1>4. QED
    BY <1>2, <1>3 DEF FinishQuery, EarlyKeys

UsageIs(u, l) ==
    /\ u \in [tools : Nat, selected : Nat, items : Nat, bytes : Nat, charged : Nat]
    /\ u.selected = Cardinality(l.selected) /\ u.items = Cardinality(SourceCites(l)) /\ u.bytes = SourceBytes(l)
    /\ Len(l.queries) <= u.tools /\ u.tools <= MaxTools
    /\ Cardinality(Validated(l)) <= u.charged /\ u.charged <= MaxValidations

CallIs(c) == c = [at |-> c.at, why |-> c.why, query |-> c.query, key |-> c.key, index |-> c.index, early |-> c.early]

\* What is said of the context stays true while it stays.
LEMMA FrozenKeeps ==
    ASSUME UNCHANGED frozen
    PROVE  /\ InputPrepares' = InputPrepares /\ SnapshotFits' = SnapshotFits
           /\ PagesFit' = PagesFit /\ CitesFit' = CitesFit
<1>1. InputPrepares' = InputPrepares /\ SnapshotFits' = SnapshotFits
    BY DEF InputPrepares, SnapshotFits
<1>2. PagesFit' = PagesFit
    BY DEF PagesFit, NothingSkipped
<1>3. CitesFit' = CitesFit
    BY DEF CitesFit
<1>4. QED
    BY <1>1, <1>2, <1>3

\* A step that charges the usage and leaves what was supplied as it is.
LEMMA ChargeKeeps ==
    ASSUME ContextInv, call.at \in {"ready", "evidence"}, NEW u, UsageIs(u, frozen.ledger),
           saved' = [ledger |-> saved.ledger, usage |-> u], UNCHANGED <<frozen, answer, live>>,
           CallIs(call'), call'.why # "refused", call'.at \in {"query", "evidence", "reading"},
           call'.at = "query" => QueryFits', call'.at \in {"evidence", "reading"} => EvidenceCallFits'
    PROVE  ContextInv'
<1>1. /\ live \in LiveGraphs /\ ShapesFit /\ answer = NoAnswer /\ frozen.ledger = saved.ledger
      /\ InputPrepares /\ SnapshotFits /\ PagesFit /\ CitesFit
    BY DEF ContextInv
<1>2. saved'.ledger = saved.ledger /\ saved'.usage = u /\ frozen' = frozen /\ answer' = answer /\ live' = live
    OBVIOUS
<1>3. ShapesFit'
    BY <1>1, <1>2 DEF ShapesFit, CallIs
<1>4. InputPrepares' = InputPrepares /\ SnapshotFits' = SnapshotFits /\ CitesFit' = CitesFit
    BY FrozenKeeps
<1>5. PagesFit' = PagesFit
    BY FrozenKeeps
<1>6. UsageFits'
    BY <1>2 DEF UsageIs, UsageFits
<1>7. QED
    BY <1>1, <1>2, <1>3, <1>4, <1>5, <1>6 DEF ContextInv

\* The graph store moves on; the context does not.
LEMMA GraphMovesStep ==
    ASSUME ContextInv, GraphMoves
    PROVE  ContextInv'
<1>1. live' \in LiveGraphs /\ UNCHANGED <<frozen, saved, call, answer>>
    BY DEF GraphMoves
<1>2. ShapesFit' = ShapesFit /\ InputPrepares' = InputPrepares /\ SnapshotFits' = SnapshotFits
    BY <1>1 DEF ShapesFit, InputPrepares, SnapshotFits
<1>3. PagesFit' = PagesFit
    BY <1>1 DEF PagesFit, NothingSkipped
<1>4. CitesFit' = CitesFit /\ UsageFits' = UsageFits
    BY <1>1 DEF CitesFit, UsageFits
<1>5. QueryFits' = QueryFits
    BY <1>1 DEF QueryFits, Queries, Cursors, EarlyKeys, PriorKeys
<1>6. EvidenceCallFits' = EvidenceCallFits
    BY <1>1 DEF EvidenceCallFits, EvidenceFits, SpanOf, IsCaptured, SelectedAt, PriorKeys
<1>7. AnswerIsBacked' = AnswerIsBacked
    BY <1>1 DEF AnswerIsBacked
<1>8. QED
    BY <1>1, <1>2, <1>3, <1>4, <1>5, <1>6, <1>7 DEF ContextInv

\* Nothing changes.
LEMMA StutterStep ==
    ASSUME ContextInv, UNCHANGED contextVars
    PROVE  ContextInv'
<1>1. UNCHANGED <<live, frozen, saved, call, answer>>
    BY DEF contextVars
<1>2. ShapesFit' = ShapesFit /\ InputPrepares' = InputPrepares /\ SnapshotFits' = SnapshotFits
    BY <1>1 DEF ShapesFit, InputPrepares, SnapshotFits
<1>3. PagesFit' = PagesFit
    BY <1>1 DEF PagesFit, NothingSkipped
<1>4. CitesFit' = CitesFit /\ UsageFits' = UsageFits
    BY <1>1 DEF CitesFit, UsageFits
<1>5. QueryFits' = QueryFits
    BY <1>1 DEF QueryFits, Queries, Cursors, EarlyKeys, PriorKeys
<1>6. EvidenceCallFits' = EvidenceCallFits
    BY <1>1 DEF EvidenceCallFits, EvidenceFits, SpanOf, IsCaptured, SelectedAt, PriorKeys
<1>7. AnswerIsBacked' = AnswerIsBacked
    BY <1>1 DEF AnswerIsBacked
<1>8. QED
    BY <1>1, <1>2, <1>3, <1>4, <1>5, <1>6, <1>7 DEF ContextInv

\* An answer rests on the citations of the last ledger.
LEMMA AdmitResultStep ==
    ASSUME ContextInv, NEW cites, AdmitResult(cites)
    PROVE  ContextInv'
<1>1. call.at = "ready" /\ live' = live
    BY DEF AdmitResult
<1>2. CASE Ends("invalid response")
    <2>1. call.at # "answered" /\ "invalid response" # "refused" /\ UNCHANGED live
        BY <1>1
    <2>2. QED
        BY <1>2, <2>1, EndsKeeps
<1>3. CASE /\ cites \subseteq {c.id : c \in Range(frozen.ledger.cites)}
           /\ answer' = [graph |-> frozen.ledger.graph, ledger |-> frozen.ledger.revision, cites |-> cites]
           /\ call' = [NoCall EXCEPT !.at = "answered"]
           /\ UNCHANGED <<frozen, saved>>
    <2>1. /\ live \in LiveGraphs /\ ShapesFit /\ frozen.ledger = saved.ledger
          /\ InputPrepares /\ SnapshotFits /\ PagesFit /\ CitesFit /\ UsageFits
        BY <1>1 DEF ContextInv
    <2>2. /\ call' = [at |-> "answered", why |-> "", query |-> NoQuery, key |-> 0, index |-> 0, early |-> {}]
          /\ call'.at = "answered" /\ call'.why = "" /\ frozen' = frozen /\ saved' = saved
          /\ answer'.cites = cites /\ answer'.graph = frozen.ledger.graph
        BY <1>3 DEF NoCall
    <2>3. ShapesFit'
        BY <2>1, <2>2 DEF ShapesFit
    <2>4. InputPrepares' /\ SnapshotFits'
        BY <2>1, <2>2 DEF InputPrepares, SnapshotFits
    <2>5. PagesFit'
        BY <2>1, <2>2 DEF PagesFit, NothingSkipped
    <2>6. CitesFit' /\ UsageFits'
        BY <2>1, <2>2 DEF CitesFit, UsageFits
    <2>7. AnswerIsBacked'
        <3>1. ASSUME NEW id \in cites
              PROVE  \E c \in Range(frozen.ledger.cites) :
                        /\ c.id = id
                        /\ \/ c.origin = "graph" /\ \E p \in Range(frozen.pages) : c.digest \in Range(p.facts)
                           \/ \E e \in Range(frozen.evidence) : e.id = id /\ e.key = c.key
            <4>1. PICK c \in Range(frozen.ledger.cites) : c.id = id
                BY <1>3, <3>1
            <4>2. PICK i \in DOMAIN frozen.ledger.cites : c = frozen.ledger.cites[i]
                BY <4>1 DEF Range
            <4>3. CASE i \in GraphCites(frozen.ledger)
                BY <2>1, <4>1, <4>2, <4>3 DEF CitesFit, GraphCites
            <4>4. CASE i \in SourceCites(frozen.ledger)
                BY <2>1, <4>1, <4>2, <4>4 DEF CitesFit
            <4>5. QED
                BY <4>2, <4>3, <4>4 DEF SourceCites
        <3>2. QED
            <4> DEFINE k == saved'.ledger
                       w == frozen'.pages
                       v == frozen'.evidence
            <4>1. /\ k = frozen.ledger /\ w = frozen.pages /\ v = frozen.evidence
                  /\ answer'.cites = cites /\ answer'.graph = k.graph
                BY <2>1, <2>2
            <4>2. \A id \in answer'.cites : \E c \in Range(k.cites) :
                      /\ c.id = id /\ answer'.graph = k.graph
                      /\ \/ c.origin = "graph" /\ \E p \in Range(w) : c.digest \in Range(p.facts)
                         \/ \E e \in Range(v) : e.id = id /\ e.key = c.key
                BY <3>1, <4>1
            <4>3. QED
                BY <4>2 DEF AnswerIsBacked
    <2>8. QED
        BY <1>1, <2>1, <2>2, <2>3, <2>4, <2>5, <2>6, <2>7 DEF ContextInv
<1>4. QED
    BY <1>2, <1>3 DEF AdmitResult

\* The ledger of a context that was just frozen.
FirstLedger(graph, facts) ==
    [graph |-> graph, scope |-> facts, revision |-> 0, selected |-> {}, receipts |-> {}, cites |-> <<>>, queries |-> <<>>]

\* The ledger of a context that was just frozen is a ledger.
LEMMA FirstFits ==
    ASSUME NEW graph, NEW facts
    PROVE  LET l == FirstLedger(graph, facts)
           IN  /\ l.graph = graph /\ l.scope = facts /\ l.revision = 0 /\ l.selected = {} /\ l.receipts = {}
               /\ l.cites = <<>> /\ l.queries = <<>>
               /\ GraphCites(l) = {} /\ SourceCites(l) = {} /\ Validated(l) = {} /\ SourceBytes(l) = 0
               /\ ValidLedger(l)
<1> DEFINE l == FirstLedger(graph, facts)
<1>1. /\ l.graph = graph /\ l.scope = facts /\ l.revision = 0 /\ l.selected = {} /\ l.receipts = {}
      /\ l.cites = <<>> /\ l.queries = <<>>
    BY DEF FirstLedger
<1> HIDE DEF l
<1>2. DOMAIN l.cites = {} /\ DOMAIN l.queries = {} /\ Len(l.queries) = 0
    BY <1>1
<1>3. GraphCites(l) = {} /\ SourceCites(l) = {} /\ Validated(l) = {}
    BY <1>2 DEF GraphCites, SourceCites, Validated
<1>4. ASSUME NEW s, s \in Seq(Nat), Len(s) = 0
      PROVE  Total(s) = 0
    BY <1>4, TotalEmpty
<1> DEFINE spans == [i \in DOMAIN l.cites |-> l.cites[i].span]
           bytes == [i \in DOMAIN l.queries |-> l.queries[i].bytes]
           returned == [i \in DOMAIN l.queries |-> l.queries[i].returned]
<1>5. spans = <<>> /\ bytes = <<>> /\ returned = <<>>
    BY <1>2
<1> HIDE DEF spans, bytes, returned
<1>6. Total(spans) = 0 /\ Total(bytes) = 0 /\ Total(returned) = 0
    <2>1. <<>> \in Seq(Nat) /\ Len(<<>>) = 0
        OBVIOUS
    <2>2. Total(<<>>) = 0
        BY <2>1, TotalEmpty
    <2>3. QED
        BY <1>5, <2>2
<1>7. SourceBytes(l) = 0
    BY <1>6 DEF SourceBytes, spans
<1>8. Cardinality({}) = 0
    BY FS_EmptySet
<1>9. /\ 0 <= MaxTools /\ 0 <= MaxSelected /\ 0 <= MaxTotalBytes /\ 0 <= MaxEvidence /\ 0 <= MaxEvidenceBytes
      /\ 0 <= MaxValidations
    BY ContextAssumption
<1>10. {s.fact.key : s \in l.selected} = {} /\ {s.receipt : s \in l.selected} = {}
    BY <1>1
<1>11. ValidLedger(l)
    <2>1. /\ Cardinality(l.selected) <= MaxSelected
          /\ Cardinality({s.fact.key : s \in l.selected}) = Cardinality(l.selected)
          /\ l.receipts = {s.receipt : s \in l.selected} \ {Unbound}
        BY <1>1, <1>8, <1>9, <1>10
    <2>2. /\ \A i \in DOMAIN l.cites : ValidCitation(l, l.cites[i])
          /\ \A i, j \in DOMAIN l.cites : l.cites[i].id = l.cites[j].id => i = j
          /\ \A i, j \in GraphCites(l) : l.cites[i].key = l.cites[j].key => i = j
        BY <1>2, <1>3
    <2>3. /\ Cardinality(GraphCites(l)) = Cardinality(l.selected)
          /\ Cardinality(SourceCites(l)) <= MaxEvidence /\ SourceBytes(l) <= MaxEvidenceBytes
          /\ Cardinality(Validated(l)) <= MaxValidations /\ Len(l.queries) <= MaxTools
        BY <1>1, <1>2, <1>3, <1>7, <1>8, <1>9
    <2>4. /\ Total(bytes) <= MaxTotalBytes /\ Total(returned) >= Cardinality(l.selected)
        BY <1>1, <1>6, <1>8, <1>9
    <2>5. QED
        BY <1>2, <2>1, <2>2, <2>3, <2>4 DEF ValidLedger, bytes, returned
<1>12. QED
    BY <1>1, <1>3, <1>7, <1>11 DEF l

\* The scope is frozen from a graph whose keys are unique.
LEMMA FreezeStep ==
    ASSUME ContextInv, NEW scope, NEW expected, FreezeContext(scope, expected)
    PROVE  ContextInv'
<1>1. call.at = "start" /\ live' = live /\ live \in LiveGraphs /\ KeysFit(live.facts)
    BY ContextAssumption DEF FreezeContext, ContextInv
<1>2. CASE Ends("changed") \/ Ends("invalid")
    <2>1. call.at # "answered" /\ "changed" # "refused" /\ "invalid" # "refused" /\ UNCHANGED live
        BY <1>1
    <2>2. QED
        BY <1>2, <2>1, EndsKeeps
<1> DEFINE facts == ScopeFacts(live.facts, scope)
           first == [NoLedger EXCEPT !.graph = live.facts, !.scope = facts]
<1>3. CASE /\ frozen' = [frozen EXCEPT !.graph = live.facts, !.facts = facts, !.ledger = first]
           /\ saved' = [saved EXCEPT !.ledger = first]
           /\ call' = [NoCall EXCEPT !.at = "ready"]
           /\ UNCHANGED answer
    <2>1. facts \subseteq live.facts
        BY <1>1, ScopeIsPart
    <2> HIDE DEF facts
    <2>2. first = FirstLedger(live.facts, facts)
        <3> DEFINE n == NoLedger
                   g == live.facts
                   r == [graph |-> g, scope |-> facts, revision |-> n.revision, selected |-> n.selected,
                         receipts |-> n.receipts, cites |-> n.cites, queries |-> n.queries]
        <3>1. n = [graph |-> n.graph, scope |-> n.scope, revision |-> n.revision, selected |-> n.selected,
                   receipts |-> n.receipts, cites |-> n.cites, queries |-> n.queries]
            BY DEF NoLedger
        <3>2. n.revision = 0 /\ n.selected = {} /\ n.receipts = {} /\ n.cites = <<>> /\ n.queries = <<>>
            BY DEF NoLedger
        <3>3. first = [n EXCEPT !.graph = g, !.scope = facts]
            OBVIOUS
        <3> HIDE DEF n, g, first
        <3>4. first = r
            BY <3>1, <3>3
        <3>5. QED
            BY <3>2, <3>4 DEF FirstLedger, g
    <2> HIDE DEF first
    <2>3. frozen = NoContext /\ saved = [ledger |-> NoLedger, usage |-> NoUsage] /\ answer = NoAnswer
        BY <1>1 DEF ContextInv
    <2>4. frozen' = [graph |-> live.facts, facts |-> facts, ledger |-> first, pages |-> <<>>, evidence |-> <<>>]
        BY <1>3, <2>3 DEF NoContext
    <2>5. saved' = [ledger |-> first, usage |-> NoUsage]
        BY <1>3, <2>3
    <2>6. call' = [at |-> "ready", why |-> "", query |-> NoQuery, key |-> 0, index |-> 0, early |-> {}]
        BY <1>3 DEF NoCall
    <2>7. /\ frozen'.graph = live.facts /\ frozen'.facts = facts /\ frozen'.ledger = first
          /\ frozen'.pages = <<>> /\ frozen'.evidence = <<>>
          /\ saved'.ledger = first /\ saved'.usage = NoUsage
          /\ call'.at = "ready" /\ call'.why = "" /\ answer' = NoAnswer
        <3>1. /\ frozen'.graph = live.facts /\ frozen'.facts = facts /\ frozen'.ledger = first
              /\ frozen'.pages = <<>> /\ frozen'.evidence = <<>>
            BY <2>4
        <3>2. saved'.ledger = first /\ saved'.usage = NoUsage
            BY <2>5
        <3>3. call'.at = "ready" /\ call'.why = ""
            BY <2>6
        <3>4. answer' = NoAnswer
            BY <1>3, <2>3
        <3>5. QED
            BY <3>1, <3>2, <3>3, <3>4
    <2>8. /\ first.graph = live.facts /\ first.scope = facts /\ first.revision = 0 /\ first.selected = {} /\ first.receipts = {}
          /\ first.cites = <<>> /\ first.queries = <<>>
          /\ GraphCites(first) = {} /\ SourceCites(first) = {} /\ Validated(first) = {} /\ SourceBytes(first) = 0
          /\ ValidLedger(first)
        BY <2>2, FirstFits
    <2>9. ShapesFit'
        <3>1. first = [graph |-> first.graph, scope |-> first.scope, revision |-> first.revision, selected |-> first.selected,
                       receipts |-> first.receipts, cites |-> first.cites, queries |-> first.queries]
            BY <2>2, <2>8 DEF FirstLedger
        <3>2. QED
            BY <2>4, <2>5, <2>6, <2>7, <3>1 DEF ShapesFit
    <2>10. DOMAIN <<>> = {} /\ Len(<<>>) = 0 /\ IsSeq(<<>>) /\ Range(<<>>) = {} /\ Cardinality({}) = 0
        <3>1. DOMAIN <<>> = {} /\ Len(<<>>) = 0 /\ \A T : <<>> \in Seq(T)
            OBVIOUS
        <3>2. Range(<<>>) = {}
            BY <3>1 DEF Range
        <3>3. IsSeq(<<>>)
            BY <3>1 DEF IsSeq
        <3>4. QED
            BY <3>1, <3>2, <3>3, FS_EmptySet
    <2>11. InputPrepares'
        <3>1. {<<e.id, e.span>> : e \in Range(<<>>)} = {} /\ {<<first.cites[i].id, first.cites[i].span>> : i \in SourceCites(first)} = {}
            BY <2>8, <2>10
        <3>2. QED
            BY <2>7, <2>8, <2>10, <3>1 DEF InputPrepares
    <2>12. SnapshotFits'
        <3>1. KeysFit(frozen'.graph) /\ frozen'.facts \subseteq frozen'.graph
            BY <1>1, <2>1, <2>7
        <3>2. /\ frozen'.ledger.graph = frozen'.graph /\ frozen'.ledger.scope = frozen'.facts
              /\ frozen'.ledger.revision \in Nat /\ frozen'.ledger.selected = {}
            <4> DEFINE l == frozen'.ledger
            <4>1. l = first /\ frozen'.graph = live.facts /\ frozen'.facts = facts
                BY <2>7
            <4> HIDE DEF l
            <4>2. l.graph = live.facts /\ l.scope = facts /\ l.revision = 0 /\ l.selected = {}
                BY <2>8, <4>1
            <4>3. QED
                BY <4>1, <4>2 DEF l
        <3>3. QED
            BY <3>1, <3>2 DEF SnapshotFits
    <2>13. PagesFit'
        <3>1. DOMAIN frozen'.pages = {} /\ DOMAIN frozen'.ledger.queries = {} /\ IsSeq(frozen'.pages) /\ IsSeq(frozen'.ledger.queries)
            BY <2>7, <2>8, <2>10
        <3>2. NothingSkipped'
            BY <3>1 DEF NothingSkipped
        <3>3. QED
            BY <3>1, <3>2 DEF PagesFit
    <2>14. CitesFit'
        <3>1. /\ DOMAIN frozen'.ledger.cites = {} /\ IsSeq(frozen'.ledger.cites) /\ IsSeq(frozen'.evidence)
              /\ Len(frozen'.evidence) = Cardinality(SourceCites(frozen'.ledger))
            BY <2>7, <2>8, <2>10
        <3>2. /\ GraphCites(frozen'.ledger) = {} /\ SourceCites(frozen'.ledger) = {} /\ frozen'.ledger.selected = {}
            BY <2>7, <2>8
        <3>3. QED
            BY <3>1, <3>2 DEF CitesFit
    <2>15. UsageFits'
        <3>1. NoUsage \in [tools : Nat, selected : Nat, items : Nat, bytes : Nat, charged : Nat]
              /\ NoUsage.tools = 0 /\ NoUsage.selected = 0 /\ NoUsage.items = 0 /\ NoUsage.bytes = 0 /\ NoUsage.charged = 0
            BY DEF NoUsage
        <3>2. 0 <= MaxTools /\ 0 <= MaxValidations
            BY ContextAssumption
        <3>3. QED
            <4> DEFINE l == frozen'.ledger
                       u == saved'.usage
            <4>1. l = first /\ u = NoUsage
                BY <2>7
            <4>2. /\ Cardinality(l.selected) = 0 /\ Cardinality(SourceCites(l)) = 0 /\ SourceBytes(l) = 0
                  /\ Cardinality(Validated(l)) = 0 /\ Len(l.queries) = 0
                BY <2>8, <2>10, <4>1
            <4> HIDE DEF l, u
            <4>3. /\ u \in [tools : Nat, selected : Nat, items : Nat, bytes : Nat, charged : Nat]
                  /\ u.selected = Cardinality(l.selected) /\ u.items = Cardinality(SourceCites(l)) /\ u.bytes = SourceBytes(l)
                  /\ Len(l.queries) <= u.tools /\ u.tools <= MaxTools
                  /\ Cardinality(Validated(l)) <= u.charged /\ u.charged <= MaxValidations
                BY <3>1, <3>2, <4>1, <4>2
            <4>4. QED
                BY <4>3 DEF UsageFits, l, u
    <2>16. QED
        BY <1>1, <2>7, <2>9, <2>11, <2>12, <2>13, <2>14, <2>15 DEF ContextInv
<1>4. QED
    BY <1>2, <1>3 DEF FreezeContext

\* One more tool is charged.
LEMMA ToolCharged ==
    ASSUME ContextInv, call.at = "ready", saved.usage.tools < MaxTools
    PROVE  /\ UsageIs(Usage(1), frozen.ledger) /\ Len(frozen.ledger.queries) < Usage(1).tools
           /\ [saved EXCEPT !.usage = Usage(1)] = [ledger |-> saved.ledger, usage |-> Usage(1)]
<1> DEFINE l == frozen.ledger
           u == saved.usage
           v == Usage(1)
<1>1. /\ u \in [tools : Nat, selected : Nat, items : Nat, bytes : Nat, charged : Nat]
      /\ u.selected = Cardinality(l.selected) /\ u.items = Cardinality(SourceCites(l)) /\ u.bytes = SourceBytes(l)
      /\ Len(l.queries) <= u.tools /\ u.tools <= MaxTools
      /\ Cardinality(Validated(l)) <= u.charged /\ u.charged <= MaxValidations
    BY DEF ContextInv, UsageFits
<1>2. IsSeq(l.queries) /\ saved = [ledger |-> saved.ledger, usage |-> saved.usage]
    BY DEF ContextInv, PagesFit, ShapesFit
<1>3. Len(l.queries) \in Nat /\ MaxTools \in Nat
    BY <1>2, RangeFinite, ContextAssumption
<1>4. /\ v = [tools |-> u.tools + 1, selected |-> u.selected, items |-> u.items, bytes |-> u.bytes, charged |-> u.charged]
      /\ u.tools \in Nat /\ u.selected \in Nat /\ u.items \in Nat /\ u.bytes \in Nat /\ u.charged \in Nat
    BY <1>1 DEF Usage
<1> HIDE DEF v
<1>5. /\ v.tools = u.tools + 1 /\ v.selected = u.selected /\ v.items = u.items /\ v.bytes = u.bytes /\ v.charged = u.charged
      /\ v \in [tools : Nat, selected : Nat, items : Nat, bytes : Nat, charged : Nat]
    BY <1>4
<1>6. UsageIs(v, l) /\ Len(l.queries) < v.tools
    BY <1>1, <1>3, <1>4, <1>5 DEF UsageIs
<1>7. [saved EXCEPT !.usage = v] = [ledger |-> saved.ledger, usage |-> v]
    BY <1>2
<1>8. QED
    BY <1>6, <1>7 DEF v

\* The first half of a query: what it selects early covers its first page.
LEMMA StartQueryStep ==
    ASSUME ContextInv, NEW q \in Queries, StartQuery(q)
    PROVE  ContextInv'
<1>1. call.at = "ready" /\ live' = live /\ saved.usage.tools < MaxTools
    BY DEF StartQuery
<1>2. CASE Ends("changed") \/ Ends("limit") \/ Ends("invalid")
    <2>1. call.at # "answered" /\ "changed" # "refused" /\ "limit" # "refused" /\ "invalid" # "refused" /\ UNCHANGED live
        BY <1>1
    <2>2. QED
        BY <1>2, <2>1, EndsKeeps
<1>3. ASSUME QueryAccepted(frozen.facts, q), NEW page \in ContextQuery(frozen.facts, q, q.max_facts),
             Begins(q, PriorKeys \cup KeysOf(page.facts)), ~Ends("limit"), ~Ends("changed")
      PROVE  ContextInv'
    <2> DEFINE keys == PriorKeys \cup KeysOf(page.facts)
    <2>1. /\ Cardinality(keys) <= MaxSelected /\ SelectFactsOK(keys)
          /\ call' = [NoCall EXCEPT !.at = "query", !.query = q, !.early = LiveSelection(keys)]
          /\ saved' = [saved EXCEPT !.usage = Usage(1)]
          /\ UNCHANGED <<frozen, answer>>
        BY <1>3 DEF Begins
    <2>2. /\ call' = [at |-> "query", why |-> "", query |-> q, key |-> 0, index |-> 0, early |-> LiveSelection(keys)]
        BY <2>1 DEF NoCall
    <2>3. call'.at = "query" /\ call'.why = "" /\ call'.query = q /\ call'.early = LiveSelection(keys)
        BY <2>2
    <2>4. CallIs(call')
        BY <2>2 DEF CallIs
    <2>5. /\ UsageIs(Usage(1), frozen.ledger) /\ Len(frozen.ledger.queries) < Usage(1).tools
          /\ saved' = [ledger |-> saved.ledger, usage |-> Usage(1)]
        BY <1>1, <2>1, ToolCharged
    <2>6. /\ KeysFit(frozen.graph) /\ frozen.facts \subseteq frozen.graph /\ SnapshotFits /\ PagesFit /\ ValidLedger(frozen.ledger)
        BY <1>1 DEF ContextInv, SnapshotFits, InputPrepares
    <2>7. q.cursor.offset \in Nat /\ q.max_facts \in Nat /\ KeysFit(frozen.facts)
        <3>1. q.cursor \in Cursors /\ q.max_facts \in Nat
            BY ContextAssumption DEF Queries
        <3>2. NoCursor.offset = 0 /\ \A s : [snapshot |-> frozen.graph, selection |-> s, offset |-> 1].offset = 1
            BY DEF NoCursor
        <3>3. \A p \in Range(frozen.pages) : p.next.offset \in Nat
            BY <2>6 DEF PagesFit, Range
        <3>4. QED
            BY <2>6, <3>1, <3>2, <3>3, PartFits DEF Cursors
    <2>8. /\ page.facts \in Seq(frozen.facts)
          /\ \A other \in ContextQuery(frozen.facts, q, q.max_facts) : other = page
        <3>1. IsPage(frozen.facts, q, page) /\ \A other \in ContextQuery(frozen.facts, q, q.max_facts) : other = page
            BY <1>3, <2>7, QueryPages
        <3>2. QED
            BY <3>1 DEF IsPage
    <2>9. live.facts = frozen.graph /\ frozen.ledger.selected \subseteq LiveSelection(keys)
        BY <2>1 DEF SelectFactsOK
    <2>10. /\ IsFiniteSet(LiveSelection(keys)) /\ KeysIn(LiveSelection(keys)) \subseteq keys
           /\ \A f \in frozen.graph : f.key \in keys => f.key \in KeysIn(LiveSelection(keys))
        <3>1. KeysFit(live.facts)
            BY <2>6, <2>9
        <3>2. QED
            BY <2>9, <3>1, LiveSelectionIs DEF KeysIn
    <2>11. IsFiniteSet(keys)
        <3>1. IsFiniteSet(KeysOf(page.facts))
            BY <2>8, KeysCount
        <3>2. PriorKeys \subseteq KeysIn(LiveSelection(keys))
            BY <2>9 DEF PriorKeys, KeysIn
        <3>3. KeyedOnce(LiveSelection(keys))
            BY <2>6, <2>9, LiveSelectionIs
        <3>4. IsFiniteSet(KeysIn(LiveSelection(keys)))
            BY <2>10, <3>3, KeyedCount
        <3>5. IsFiniteSet(PriorKeys)
            BY <3>2, <3>4, FS_Subset
        <3>6. QED
            BY <3>1, <3>5, FS_Union
    <2> HIDE DEF keys
    <2>12. Cardinality(KeysIn(LiveSelection(keys))) <= MaxSelected
        <3>1. /\ Cardinality(KeysIn(LiveSelection(keys))) <= Cardinality(keys) /\ IsFiniteSet(KeysIn(LiveSelection(keys)))
            BY <2>10, <2>11, FS_Subset
        <3>2. Cardinality(KeysIn(LiveSelection(keys))) \in Nat /\ Cardinality(keys) \in Nat /\ MaxSelected \in Nat
            BY <2>11, <3>1, FS_CardinalityType, ContextAssumption
        <3>3. QED
            BY <2>1, <3>1, <3>2
    <2>13. PriorKeys \subseteq KeysIn(LiveSelection(keys))
        BY <2>9 DEF PriorKeys, KeysIn
    <2>14. KeysOf(page.facts) \subseteq KeysIn(LiveSelection(keys))
        <3>1. ASSUME NEW k \in KeysOf(page.facts)
              PROVE  k \in KeysIn(LiveSelection(keys))
            <4>1. PICK i \in DOMAIN page.facts : k = page.facts[i].key
                BY <3>1 DEF KeysOf
            <4>2. page.facts[i] \in frozen.graph
                BY <2>6, <2>8, <4>1
            <4>3. k \in keys
                BY <3>1 DEF keys
            <4>4. QED
                BY <2>10, <4>1, <4>2, <4>3
        <3>2. QED
            BY <3>1
    <2>15. QueryFits'
        <3>1. EarlyKeys' = KeysIn(LiveSelection(keys))
            BY <2>3 DEF EarlyKeys, KeysIn
        <3>2. Queries' = Queries /\ PriorKeys' = PriorKeys /\ frozen' = frozen
            BY <2>1 DEF Queries, Cursors, PriorKeys
        <3>3. saved'.usage = Usage(1)
            BY <2>5
        <3>4. \A other \in ContextQuery(frozen.facts, q, q.max_facts) : KeysOf(other.facts) \subseteq KeysIn(LiveSelection(keys))
            BY <2>8, <2>14
        <3>5. QED
            BY <1>3, <2>3, <2>5, <2>10, <2>12, <2>13, <3>1, <3>2, <3>3, <3>4 DEF QueryFits
    <2>16. call'.why # "refused" /\ call'.at \in {"query", "evidence", "reading"} /\ call'.at \notin {"evidence", "reading"}
           /\ UNCHANGED <<frozen, answer, live>>
        BY <1>1, <2>1, <2>3
    <2>17. QED
        BY <1>1, <2>4, <2>5, <2>15, <2>16, ChargeKeeps
<1>4. QED
    BY <1>2, <1>3 DEF StartQuery

\* A span that was selected may be read next.
LEMMA StartEvidenceStep ==
    ASSUME ContextInv, NEW key, NEW index, StartEvidence(key, index)
    PROVE  ContextInv'
<1>1. call.at = "ready" /\ live' = live /\ saved.usage.tools < MaxTools
    BY DEF StartEvidence
<1>2. CASE Ends("changed") \/ Ends("limit") \/ Ends("invalid") \/ Ends("unavailable")
    <2>1. /\ call.at # "answered" /\ "changed" # "refused" /\ "limit" # "refused" /\ "invalid" # "refused"
          /\ "unavailable" # "refused" /\ UNCHANGED live
        BY <1>1
    <2>2. QED
        BY <1>2, <2>1, EndsKeeps
<1>3. CASE /\ key \in PriorKeys /\ Len(frozen.evidence) < MaxEvidence
           /\ call' = [NoCall EXCEPT !.at = "evidence", !.key = key, !.index = index, !.early = LiveSelection(PriorKeys)]
           /\ saved' = [saved EXCEPT !.usage = Usage(1)]
           /\ UNCHANGED <<frozen, answer>>
    <2>1. call' = [at |-> "evidence", why |-> "", query |-> NoQuery, key |-> key, index |-> index,
                   early |-> LiveSelection(PriorKeys)]
        BY <1>3 DEF NoCall
    <2>2. CallIs(call') /\ call'.at = "evidence" /\ call'.why = "" /\ call'.key = key
        BY <2>1 DEF CallIs
    <2>3. UsageIs(Usage(1), frozen.ledger) /\ saved' = [ledger |-> saved.ledger, usage |-> Usage(1)]
        BY <1>1, <1>3, ToolCharged
    <2>4. EvidenceCallFits'
        <3>1. PriorKeys' = PriorKeys /\ frozen' = frozen /\ call'.at # "reading"
            BY <1>3, <2>2 DEF PriorKeys
        <3>4. key \in PriorKeys /\ Len(frozen.evidence) < MaxEvidence
            BY <1>3
        <3>5. call'.key = key /\ PriorKeys' = PriorKeys /\ frozen' = frozen
            BY <2>2, <3>1
        <3>2. call'.key \in PriorKeys' /\ Len(frozen'.evidence) < MaxEvidence
            BY <3>4, <3>5
        <3>3. QED
            BY <3>1, <3>2 DEF EvidenceCallFits
    <2>5. /\ call'.why # "refused" /\ call'.at \in {"query", "evidence", "reading"} /\ call'.at # "query"
          /\ UNCHANGED <<frozen, answer, live>>
        BY <1>1, <1>3, <2>2
    <2>6. QED
        BY <1>1, <2>2, <2>3, <2>4, <2>5, ChargeKeeps
<1>4. QED
    BY <1>2, <1>3 DEF StartEvidence

\* A captured file is charged before it is read.
LEMMA ReserveStep ==
    ASSUME ContextInv, ReserveValidation
    PROVE  ContextInv'
<1>1. call.at = "evidence" /\ live' = live
    BY DEF ReserveValidation
<1>2. CASE Ends("changed") \/ Ends("limit")
    <2>1. call.at # "answered" /\ "changed" # "refused" /\ "limit" # "refused" /\ UNCHANGED live
        BY <1>1
    <2>2. QED
        BY <1>2, <2>1, EndsKeeps
<1> DEFINE more == IF IsCaptured(call.key) THEN 1 ELSE 0
           charged == saved.usage.charged + more
           l == frozen.ledger
           u == saved.usage
           v == [saved.usage EXCEPT !.charged = charged]
<1>3. CASE /\ EvidenceFits /\ charged <= MaxValidations
           /\ saved' = [saved EXCEPT !.usage.charged = charged]
           /\ call' = [call EXCEPT !.at = "reading"]
           /\ UNCHANGED <<frozen, answer>>
    <2>1. /\ UsageFits /\ ShapesFit /\ EvidenceCallFits /\ call.why # "refused"
        BY <1>1 DEF ContextInv
    <2>2. /\ u \in [tools : Nat, selected : Nat, items : Nat, bytes : Nat, charged : Nat]
          /\ u.selected = Cardinality(l.selected) /\ u.items = Cardinality(SourceCites(l)) /\ u.bytes = SourceBytes(l)
          /\ Len(l.queries) <= u.tools /\ u.tools <= MaxTools
          /\ Cardinality(Validated(l)) <= u.charged /\ u.charged <= MaxValidations
        BY <2>1 DEF UsageFits
    <2>3. more \in 0 .. 1
        OBVIOUS
    <2>4. charged \in Nat /\ charged >= u.charged /\ charged = u.charged + more
        BY <2>2, <2>3
    <2>5. saved' = [ledger |-> saved.ledger, usage |-> v]
        BY <1>3, <2>1 DEF ShapesFit
    <2>6. call' = [at |-> "reading", why |-> call.why, query |-> call.query, key |-> call.key, index |-> call.index,
                   early |-> call.early]
        BY <1>3, <2>1 DEF ShapesFit
    <2>7. CallIs(call') /\ call'.at = "reading" /\ call'.why = call.why /\ call'.key = call.key /\ call'.index = call.index
        BY <2>6 DEF CallIs
    <2> HIDE DEF charged, more
    <2>8. v = [tools |-> u.tools, selected |-> u.selected, items |-> u.items, bytes |-> u.bytes, charged |-> charged]
          /\ u.tools \in Nat /\ u.selected \in Nat /\ u.items \in Nat /\ u.bytes \in Nat /\ u.charged \in Nat
        BY <2>2
    <2> HIDE DEF v
    <2>9. /\ v.tools = u.tools /\ v.selected = u.selected /\ v.items = u.items /\ v.bytes = u.bytes /\ v.charged = charged
          /\ v \in [tools : Nat, selected : Nat, items : Nat, bytes : Nat, charged : Nat]
        BY <2>4, <2>8
    <2>10. IsFiniteSet(Validated(l))
        <3>1. IsSeq(l.cites)
            BY <1>1 DEF ContextInv, CitesFit
        <3>2. QED
            BY <3>1, RangeFinite, FS_Subset DEF Validated
    <2>11. Cardinality(Validated(l)) \in Nat
        BY <2>10, FS_CardinalityType
    <2>12. UsageIs(v, l)
        BY <1>3, <2>2, <2>4, <2>9, <2>11 DEF UsageIs
    <2>13. EvidenceCallFits'
        <3>1. PriorKeys' = PriorKeys /\ SelectedAt(call.key)' = SelectedAt(call.key) /\ SpanOf(call.key, call.index)' = SpanOf(call.key, call.index)
            BY <1>3, <2>7 DEF PriorKeys, SelectedAt, SpanOf
        <3>2. IsCaptured(call.key)' = IsCaptured(call.key)
            BY <3>1 DEF IsCaptured
        <3>3. saved'.usage.bytes = saved.usage.bytes /\ saved'.usage.charged = charged
            BY <2>5, <2>9
        <3>4. EvidenceFits'
            BY <1>3, <3>1, <3>3 DEF EvidenceFits
        <3>5. call.key \in PriorKeys /\ Len(frozen.evidence) < MaxEvidence
            BY <2>1 DEF EvidenceCallFits
        <3>6. Cardinality(Validated(l)) + more <= charged
            BY <2>2, <2>3, <2>4, <2>11
        <3>7. frozen' = frozen
            BY <1>3
        <3>8. QED
            BY <2>7, <3>1, <3>2, <3>3, <3>4, <3>5, <3>6, <3>7 DEF EvidenceCallFits, more
    <2>14. /\ call'.why # "refused" /\ call'.at \in {"query", "evidence", "reading"} /\ call'.at # "query"
           /\ UNCHANGED <<frozen, answer, live>>
        BY <1>1, <1>3, <2>1, <2>7
    <2>15. QED
        BY <1>1, <2>5, <2>7, <2>12, <2>13, <2>14, ChargeKeeps
<1>4. QED
    BY <1>2, <1>3 DEF ReserveValidation

\* The citation that a span gets.
EvidenceMade(m, c) ==
    /\ ContextInv /\ call.at = "reading"
    /\ m = LedgerAfterEvidence(<<"evidence", Len(frozen.evidence) + 1>>)
    /\ c = [id |-> <<"evidence", Len(frozen.evidence) + 1>>, key |-> call.key, digest |-> SelectedAt(call.key).fact,
            span |-> SpanOf(call.key, call.index),
            origin |-> IF IsCaptured(call.key) THEN "captured" ELSE "tree", receipt |-> SelectedAt(call.key).receipt]

\* The ledger that a span makes, part by part.
LEMMA EvidenceLedger ==
    ASSUME NEW m, NEW c, EvidenceMade(m, c)
    PROVE  LET l == frozen.ledger
           IN  /\ m.graph = l.graph /\ m.scope = l.scope /\ m.revision = l.revision + 1 /\ m.selected = l.selected
               /\ m.receipts = l.receipts /\ m.cites = Append(l.cites, c) /\ m.queries = l.queries
               /\ m = [graph |-> m.graph, scope |-> m.scope, revision |-> m.revision, selected |-> m.selected,
                       receipts |-> m.receipts, cites |-> m.cites, queries |-> m.queries]
<1> DEFINE l == frozen.ledger
           x == Append(l.cites, c)
<1>1. l = [graph |-> l.graph, scope |-> l.scope, revision |-> l.revision, selected |-> l.selected,
           receipts |-> l.receipts, cites |-> l.cites, queries |-> l.queries]
    BY DEF EvidenceMade, ContextInv, ShapesFit
<1>2. m = [l EXCEPT !.revision = @ + 1, !.cites = x]
    BY DEF EvidenceMade, LedgerAfterEvidence
<1> HIDE DEF l, x
<1>3. m = [graph |-> l.graph, scope |-> l.scope, revision |-> l.revision + 1, selected |-> l.selected,
           receipts |-> l.receipts, cites |-> x, queries |-> l.queries]
    BY <1>1, <1>2
<1>4. QED
    BY <1>3 DEF l, x

\* The fact that is read is selected, and its span fits.
LEMMA EvidenceCite ==
    ASSUME NEW m, NEW c, EvidenceMade(m, c)
    PROVE  /\ c.id = <<"evidence", Len(frozen.evidence) + 1>> /\ c.key = call.key
           /\ c.span = SpanOf(call.key, call.index) /\ c.span \in 1 .. MaxSpan /\ c.span \in Nat
           /\ c.origin = (IF IsCaptured(call.key) THEN "captured" ELSE "tree")
           /\ SelectedAt(call.key) \in frozen.ledger.selected /\ SelectedAt(call.key).fact.key = call.key
           /\ c.digest = SelectedAt(call.key).fact /\ c.receipt = SelectedAt(call.key).receipt
           /\ IsCaptured(call.key) <=> c.receipt # Unbound
           /\ saved.usage.bytes + c.span <= MaxEvidenceBytes
<1> DEFINE s == SelectedAt(call.key)
           span == SpanOf(call.key, call.index)
<1>1. EvidenceCallFits /\ call.at = "reading"
    BY DEF EvidenceMade, ContextInv
<1>2. s \in frozen.ledger.selected /\ s.fact.key = call.key
    BY <1>1 DEF EvidenceCallFits, PriorKeys, SelectedAt
<1>3. span \in 1 .. MaxSpan /\ saved.usage.bytes + span <= MaxEvidenceBytes
    BY <1>1 DEF EvidenceCallFits, EvidenceFits
<1>4. IsCaptured(call.key) <=> s.receipt # Unbound
    BY DEF IsCaptured
<1> HIDE DEF s, span
<1>5. c = [id |-> <<"evidence", Len(frozen.evidence) + 1>>, key |-> call.key, digest |-> s.fact, span |-> span,
           origin |-> IF IsCaptured(call.key) THEN "captured" ELSE "tree", receipt |-> s.receipt]
    BY DEF EvidenceMade, s, span
<1>6. /\ c.id = <<"evidence", Len(frozen.evidence) + 1>> /\ c.key = call.key /\ c.digest = s.fact /\ c.span = span
      /\ c.origin = (IF IsCaptured(call.key) THEN "captured" ELSE "tree") /\ c.receipt = s.receipt
    BY <1>5
<1>7. QED
    BY <1>2, <1>3, <1>4, <1>6, ContextAssumption DEF s, span

AppendedCite(m, c) ==
    LET l == frozen.ledger
        n == Len(l.cites) + 1
    IN  /\ IsSeq(l.cites) /\ IsSeq(m.cites) /\ Len(l.cites) \in Nat /\ DOMAIN l.cites = 1 .. Len(l.cites) /\ DOMAIN m.cites = 1 .. n
        /\ \A i \in DOMAIN l.cites : m.cites[i] = l.cites[i]
        /\ m.cites[n] = c /\ n \notin DOMAIN l.cites
        /\ Range(l.cites) \subseteq Range(m.cites)
        /\ \A i \in DOMAIN m.cites : m.cites[i].span \in Nat
        /\ GraphCites(m) = GraphCites(l) /\ SourceCites(m) = SourceCites(l) \cup {n}
        /\ Validated(m) = Validated(l) \cup (IF IsCaptured(call.key) THEN {n} ELSE {})
        /\ SourceBytes(m) = SourceBytes(l) + c.span

\* The citation of a span follows those there are.
LEMMA EvidenceCites ==
    ASSUME NEW m, NEW c, EvidenceMade(m, c)
    PROVE  AppendedCite(m, c)
<1> DEFINE old == frozen.ledger.cites
           new == m.cites
           a == Len(old)
           n == a + 1
           s == [i \in DOMAIN old |-> old[i].span]
           t == [i \in DOMAIN new |-> new[i].span]
<1>1. IsSeq(old) /\ \A i \in DOMAIN old : old[i].span \in Nat
    BY DEF EvidenceMade, ContextInv, CitesFit
<1>2. new = Append(old, c)
    BY EvidenceLedger
<1>3. c.span \in Nat /\ c.origin = (IF IsCaptured(call.key) THEN "captured" ELSE "tree")
    BY EvidenceCite
<1>4. /\ SourceBytes(frozen.ledger) = Total(s) /\ SourceBytes(m) = Total(t)
      /\ GraphCites(frozen.ledger) = {i \in DOMAIN old : old[i].origin = "graph"}
      /\ GraphCites(m) = {i \in DOMAIN new : new[i].origin = "graph"}
      /\ SourceCites(frozen.ledger) = DOMAIN old \ GraphCites(frozen.ledger) /\ SourceCites(m) = DOMAIN new \ GraphCites(m)
      /\ Validated(frozen.ledger) = {i \in DOMAIN old : old[i].origin = "captured"}
      /\ Validated(m) = {i \in DOMAIN new : new[i].origin = "captured"}
    BY DEF SourceBytes, GraphCites, SourceCites, Validated
<1> HIDE DEF old, new, s, t
<1>5. /\ a \in Nat /\ DOMAIN old = 1 .. a /\ DOMAIN new = 1 .. (a + 1)
      /\ (\A i \in 1 .. a : new[i] = old[i]) /\ new[a + 1] = c
      /\ IsSeq(new) /\ Range(old) \subseteq Range(new) /\ Len(new) = a + 1
    BY <1>1, <1>2, Appended
<1> HIDE DEF a
<1>6. DOMAIN new = DOMAIN old \cup {n} /\ n \notin DOMAIN old
    BY <1>5
<1>7. \A i \in DOMAIN new : new[i].span \in Nat
    BY <1>1, <1>3, <1>5, <1>6
<1>8. new[n].origin # "graph" /\ (new[n].origin = "captured" <=> IsCaptured(call.key))
    BY <1>3, <1>5
<1>9. \A i \in DOMAIN old : new[i] = old[i]
    BY <1>5
<1> HIDE DEF n
<1>10. GraphCites(m) = GraphCites(frozen.ledger)
    BY <1>4, <1>6, <1>8, <1>9
<1>11. SourceCites(m) = SourceCites(frozen.ledger) \cup {n}
    BY <1>4, <1>6, <1>10
<1>12. Validated(m) = Validated(frozen.ledger) \cup (IF IsCaptured(call.key) THEN {n} ELSE {})
    BY <1>4, <1>6, <1>8, <1>9
<1>13. SourceBytes(m) = SourceBytes(frozen.ledger) + c.span
    <2>1. s \in Seq(Nat) /\ Len(s) = a /\ (\A i \in 1 .. a : s[i] = old[i].span)
        BY <1>1, <1>5 DEF s
    <2>2. t \in Seq(Nat) /\ Len(t) = a + 1 /\ (\A i \in 1 .. (a + 1) : t[i] = new[i].span)
        BY <1>5, <1>7 DEF t
    <2>3. (\A i \in 1 .. a : t[i] = s[i]) /\ t[a + 1] = c.span
        <3>1. \A i \in 1 .. a : i \in 1 .. (a + 1) /\ new[i] = old[i]
            BY <1>5
        <3>2. a + 1 \in 1 .. (a + 1) /\ new[a + 1].span = c.span
            BY <1>5
        <3>3. QED
            BY <2>1, <2>2, <3>1, <3>2
    <2>4. QED
        BY <1>4, <1>5, <2>1, <2>2, <2>3, TotalAppend
<1>14. QED
    BY <1>1, <1>5, <1>6, <1>7, <1>9, <1>10, <1>11, <1>12, <1>13 DEF AppendedCite, old, new, a, n

\* One more than there are.
LEMMA OneMore ==
    ASSUME NEW S, IsFiniteSet(S), NEW x, x \notin S
    PROVE  Cardinality(S \cup {x}) = Cardinality(S) + 1 /\ Cardinality(S) \in Nat
BY FS_AddElement, FS_CardinalityType

\* One more span keeps to the limits that were tested before it was read.
LEMMA EvidenceCounts ==
    ASSUME NEW m, NEW c, EvidenceMade(m, c)
    PROVE  LET l == frozen.ledger
           IN  /\ Cardinality(SourceCites(m)) = Cardinality(SourceCites(l)) + 1 /\ Cardinality(SourceCites(l)) \in Nat
               /\ Cardinality(SourceCites(m)) <= MaxEvidence /\ SourceBytes(m) <= MaxEvidenceBytes
               /\ Cardinality(Validated(m)) <= saved.usage.charged /\ saved.usage.charged <= MaxValidations
               /\ Len(frozen.evidence) = Cardinality(SourceCites(l))
<1> DEFINE l == frozen.ledger
           n == Len(l.cites) + 1
<1>1. /\ SourceCites(m) = SourceCites(l) \cup {n} /\ n \notin DOMAIN l.cites /\ IsSeq(l.cites)
      /\ Validated(m) = Validated(l) \cup (IF IsCaptured(call.key) THEN {n} ELSE {})
      /\ SourceBytes(m) = SourceBytes(l) + c.span
    BY EvidenceCites DEF AppendedCite
<1>2. /\ saved.usage.bytes = SourceBytes(l) /\ saved.usage.charged <= MaxValidations
      /\ Len(frozen.evidence) = Cardinality(SourceCites(l)) /\ Len(frozen.evidence) < MaxEvidence
      /\ Cardinality(Validated(l)) + (IF IsCaptured(call.key) THEN 1 ELSE 0) <= saved.usage.charged
    BY DEF EvidenceMade, ContextInv, UsageFits, CitesFit, EvidenceCallFits
<1>3. saved.usage.bytes + c.span <= MaxEvidenceBytes
    BY EvidenceCite
<1> HIDE DEF n
<1>4. /\ IsFiniteSet(SourceCites(l)) /\ n \notin SourceCites(l) /\ IsFiniteSet(Validated(l)) /\ n \notin Validated(l)
    BY <1>1, RangeFinite, FS_Subset DEF SourceCites, Validated
<1> HIDE DEF l
<1>5. Cardinality(SourceCites(m)) = Cardinality(SourceCites(l)) + 1 /\ Cardinality(SourceCites(l)) \in Nat
    BY <1>1, <1>4, OneMore
<1>6. Cardinality(Validated(m)) <= saved.usage.charged
    <2>1. CASE IsCaptured(call.key)
        <3>1. Cardinality(Validated(m)) = Cardinality(Validated(l)) + 1
            BY <1>1, <1>4, <2>1, OneMore
        <3>2. QED
            BY <1>2, <2>1, <3>1
    <2>2. CASE ~IsCaptured(call.key)
        <3>1. Validated(m) = Validated(l) /\ Cardinality(Validated(l)) \in Nat
            BY <1>1, <1>4, <2>2, FS_CardinalityType
        <3>2. QED
            BY <1>2, <2>2, <3>1
    <2>3. QED
        BY <2>1, <2>2
<1>7. QED
    BY <1>1, <1>2, <1>3, <1>5, <1>6, ContextAssumption DEF l

\* What the call builds is a ledger.
LEMMA EvidenceValid ==
    ASSUME NEW m, NEW c, EvidenceMade(m, c)
    PROVE  ValidLedger(m)
<1> DEFINE l == frozen.ledger
           n == Len(l.cites) + 1
<1>1. ValidLedger(l) /\ CitesFit
    BY DEF EvidenceMade, ContextInv, InputPrepares
<1>2. /\ m.scope = l.scope /\ m.selected = l.selected /\ m.receipts = l.receipts /\ m.queries = l.queries
    BY EvidenceLedger
<1>3. /\ Len(l.cites) \in Nat /\ DOMAIN l.cites = 1 .. Len(l.cites) /\ DOMAIN m.cites = 1 .. n
      /\ (\A i \in DOMAIN l.cites : m.cites[i] = l.cites[i]) /\ m.cites[n] = c /\ n \notin DOMAIN l.cites
      /\ GraphCites(m) = GraphCites(l) /\ SourceCites(m) = SourceCites(l) \cup {n}
    BY EvidenceCites DEF AppendedCite
<1>4. /\ c.id = <<"evidence", Len(frozen.evidence) + 1>> /\ c.key = call.key /\ c.span \in 1 .. MaxSpan
      /\ c.origin = (IF IsCaptured(call.key) THEN "captured" ELSE "tree")
      /\ SelectedAt(call.key) \in l.selected /\ SelectedAt(call.key).fact.key = call.key
      /\ c.digest = SelectedAt(call.key).fact /\ c.receipt = SelectedAt(call.key).receipt
      /\ IsCaptured(call.key) <=> c.receipt # Unbound
    BY EvidenceCite
<1>5. ValidCitation(m, c)
    <2>1. c.receipt # Unbound => c.receipt \in l.receipts
        BY <1>1, <1>4 DEF ValidLedger
    <2>2. QED
        BY <1>2, <1>4, <2>1 DEF ValidCitation
<1>6. \A i \in DOMAIN l.cites : ValidCitation(m, m.cites[i])
    <2>1. ASSUME NEW i \in DOMAIN l.cites
          PROVE  ValidCitation(m, m.cites[i])
        <3>1. ValidCitation(l, l.cites[i]) /\ m.cites[i] = l.cites[i]
            BY <1>1, <1>3, <2>1 DEF ValidLedger
        <3>2. QED
            BY <1>2, <3>1 DEF ValidCitation
    <2>2. QED
        BY <2>1
<1>7. \A i \in DOMAIN m.cites : i \in DOMAIN l.cites \/ i = n
    BY <1>3
<1>8. \A i \in DOMAIN l.cites : l.cites[i].id # c.id
    <2>1. ASSUME NEW i \in GraphCites(l)
          PROVE  l.cites[i].id # c.id
        <3>1. \E k \in 1 .. Cardinality(GraphCites(l)) : l.cites[i].id = <<"fact", k>>
            BY <1>1, <2>1 DEF CitesFit
        <3>2. QED
            BY <1>4, <3>1
    <2>2. ASSUME NEW i \in SourceCites(l)
          PROVE  l.cites[i].id # c.id
        <3>1. \E k \in 1 .. Len(frozen.evidence) : l.cites[i].id = <<"evidence", k>>
            BY <1>1, <2>2 DEF CitesFit
        <3>2. Len(frozen.evidence) \in Nat
            BY <1>1, RangeFinite DEF CitesFit
        <3>3. QED
            BY <1>4, <3>1, <3>2
    <2>3. QED
        BY <2>1, <2>2 DEF SourceCites
<1>9. \A i, j \in DOMAIN m.cites : m.cites[i].id = m.cites[j].id => i = j
    <2>1. \A i, j \in DOMAIN l.cites : l.cites[i].id = l.cites[j].id => i = j
        BY <1>1 DEF ValidLedger
    <2>2. QED
        BY <1>3, <1>7, <1>8, <2>1
<1>10. /\ \A i, j \in GraphCites(m) : m.cites[i].key = m.cites[j].key => i = j
       /\ Cardinality(GraphCites(m)) = Cardinality(m.selected)
    <2>1. \A i, j \in GraphCites(l) : l.cites[i].key = l.cites[j].key => i = j
        BY <1>1 DEF ValidLedger
    <2>2. Cardinality(GraphCites(l)) = Cardinality(l.selected)
        BY <1>1 DEF ValidLedger
    <2>3. GraphCites(l) \subseteq DOMAIN l.cites
        BY DEF GraphCites
    <2>4. QED
        BY <1>2, <1>3, <2>1, <2>2, <2>3
<1>11. /\ Cardinality(SourceCites(m)) <= MaxEvidence /\ SourceBytes(m) <= MaxEvidenceBytes
       /\ Cardinality(Validated(m)) <= MaxValidations
    <2>1. /\ Cardinality(SourceCites(m)) <= MaxEvidence /\ SourceBytes(m) <= MaxEvidenceBytes
          /\ Cardinality(Validated(m)) <= saved.usage.charged /\ saved.usage.charged <= MaxValidations
        BY EvidenceCounts
    <2>2. saved.usage.charged \in Nat /\ Cardinality(Validated(m)) \in Nat
        <3>1. saved.usage.charged \in Nat
            BY DEF EvidenceMade, ContextInv, UsageFits
        <3>2. IsSeq(m.cites)
            BY EvidenceCites DEF AppendedCite
        <3>3. IsFiniteSet(Validated(m))
            BY <3>2, RangeFinite, FS_Subset DEF Validated
        <3>4. QED
            BY <3>1, <3>3, FS_CardinalityType
    <2>3. QED
        BY <2>1, <2>2, ContextAssumption
<1>12. \A i \in DOMAIN m.cites : ValidCitation(m, m.cites[i])
    BY <1>3, <1>5, <1>6, <1>7
<1>13. /\ Cardinality(m.selected) <= MaxSelected
       /\ Cardinality({s.fact.key : s \in m.selected}) = Cardinality(m.selected)
       /\ m.receipts = {s.receipt : s \in m.selected} \ {Unbound}
    BY <1>1, <1>2 DEF ValidLedger
<1>14. /\ Len(m.queries) <= MaxTools
       /\ \A i \in DOMAIN m.queries :
             LET r == m.queries[i]
             IN  /\ ValidLimits(r.query)
                 /\ r.bytes \in 1 .. r.query.max_bytes
                 /\ r.returned <= r.query.max_facts /\ r.returned <= r.total
                 /\ r.query.cursor # NoCursor => r.query.cursor.snapshot = m.scope
       /\ Total([i \in DOMAIN m.queries |-> m.queries[i].bytes]) <= MaxTotalBytes
       /\ Total([i \in DOMAIN m.queries |-> m.queries[i].returned]) >= Cardinality(m.selected)
    BY <1>1, <1>2 DEF ValidLedger
<1>15. QED
    BY <1>9, <1>10, <1>11, <1>12, <1>13, <1>14 DEF ValidLedger

EvidenceUsage(c) == [saved.usage EXCEPT !.items = @ + 1, !.bytes = @ + c.span]

\* The usage of a span counts it and its bytes.
LEMMA EvidenceUses ==
    ASSUME NEW m, NEW c, EvidenceMade(m, c)
    PROVE  LET u == saved.usage
               v == EvidenceUsage(c)
           IN  /\ v.tools = u.tools /\ v.selected = u.selected /\ v.items = u.items + 1 /\ v.bytes = u.bytes + c.span
               /\ v.charged = u.charged
               /\ u \in [tools : Nat, selected : Nat, items : Nat, bytes : Nat, charged : Nat]
               /\ UsageIs(v, m)
<1> DEFINE l == frozen.ledger
           u == saved.usage
           v == EvidenceUsage(c)
<1>1. /\ u \in [tools : Nat, selected : Nat, items : Nat, bytes : Nat, charged : Nat]
      /\ u.selected = Cardinality(l.selected) /\ u.items = Cardinality(SourceCites(l)) /\ u.bytes = SourceBytes(l)
      /\ Len(l.queries) <= u.tools /\ u.tools <= MaxTools
    BY DEF EvidenceMade, ContextInv, UsageFits
<1>2. c.span \in Nat
    BY EvidenceCite
<1>3. v = [tools |-> u.tools, selected |-> u.selected, items |-> u.items + 1, bytes |-> u.bytes + c.span, charged |-> u.charged]
    <2>1. u = [tools |-> u.tools, selected |-> u.selected, items |-> u.items, bytes |-> u.bytes, charged |-> u.charged]
        BY <1>1
    <2>2. v = [u EXCEPT !.items = @ + 1, !.bytes = @ + c.span]
        BY DEF EvidenceUsage
    <2> HIDE DEF u, v
    <2>3. QED
        BY <2>1, <2>2
<1>4. u.tools \in Nat /\ u.selected \in Nat /\ u.items \in Nat /\ u.bytes \in Nat /\ u.charged \in Nat
    BY <1>1
<1> HIDE DEF v
<1>5. /\ v.tools = u.tools /\ v.selected = u.selected /\ v.items = u.items + 1 /\ v.bytes = u.bytes + c.span
      /\ v.charged = u.charged
      /\ v \in [tools : Nat, selected : Nat, items : Nat, bytes : Nat, charged : Nat]
    BY <1>2, <1>3, <1>4
<1>6. m.selected = l.selected /\ m.queries = l.queries
    BY EvidenceLedger
<1>7. SourceBytes(m) = SourceBytes(l) + c.span
    BY EvidenceCites DEF AppendedCite
<1>8. /\ Cardinality(SourceCites(m)) = Cardinality(SourceCites(l)) + 1
      /\ Cardinality(Validated(m)) <= u.charged /\ u.charged <= MaxValidations
    BY EvidenceCounts
<1>9. UsageIs(v, m)
    BY <1>1, <1>5, <1>6, <1>7, <1>8 DEF UsageIs
<1>10. QED
    BY <1>1, <1>5, <1>9 DEF v

\* The job store takes it for an extension of the saved one.
LEMMA EvidenceAdmits ==
    ASSUME NEW m, NEW c, EvidenceMade(m, c)
    PROVE  AdmitsInput(m, EvidenceUsage(c))
<1> DEFINE l == frozen.ledger
           u == saved.usage
           v == EvidenceUsage(c)
<1>1. saved.ledger = l /\ l.revision \in Nat /\ IsSeq(l.queries)
    BY DEF EvidenceMade, ContextInv, SnapshotFits, PagesFit
<1>2. /\ v.tools = u.tools /\ v.selected = u.selected /\ v.items = u.items + 1 /\ v.bytes = u.bytes + c.span
      /\ v.charged = u.charged /\ u \in [tools : Nat, selected : Nat, items : Nat, bytes : Nat, charged : Nat]
    BY EvidenceUses
<1>3. /\ v.selected = Cardinality(m.selected) /\ v.items = Cardinality(SourceCites(m)) /\ v.bytes = SourceBytes(m)
      /\ Cardinality(Validated(m)) <= v.charged
    BY EvidenceUses DEF UsageIs
<1>4. /\ m.graph = l.graph /\ m.scope = l.scope /\ m.revision = l.revision + 1 /\ m.selected = l.selected
      /\ m.receipts = l.receipts /\ m.queries = l.queries
    BY EvidenceLedger
<1>5. Range(l.cites) \subseteq Range(m.cites)
    BY EvidenceCites DEF AppendedCite
<1>6. IsPrefix(l.queries, m.queries)
    <2>1. Len(l.queries) \in Nat
        BY <1>1, RangeFinite
    <2>2. QED
        BY <1>4, <2>1 DEF IsPrefix
<1>7. c.span \in Nat
    BY EvidenceCite
<1> HIDE DEF l, v
<1>8. v.selected >= u.selected /\ v.items >= u.items /\ v.bytes >= u.bytes
    BY <1>2, <1>7
<1>9. m.revision > l.revision
    BY <1>1, <1>4
<1>10. saved.ledger = l
    BY <1>1
<1>11. AdmitsInput(m, v)
    BY <1>2, <1>3, <1>4, <1>5, <1>6, <1>8, <1>9, <1>10 DEF AdmitsInput
<1>12. QED
    BY <1>11 DEF v

\* The span is supplied and its ledger published.
LEMMA EvidencePublishes ==
    ASSUME NEW m, NEW c, EvidenceMade(m, c),
           NEW context, context = [frozen EXCEPT !.ledger = m,
                                                 !.evidence = Append(@, [id |-> c.id, key |-> c.key, span |-> c.span])]
    PROVE  Publishable(m, EvidenceUsage(c), context)
<1> DEFINE l == frozen.ledger
           e == [id |-> c.id, key |-> c.key, span |-> c.span]
           evidence == Append(frozen.evidence, e)
           a == Len(frozen.evidence)
           n == Len(l.cites) + 1
<1>1. ShapesFit /\ InputPrepares /\ SnapshotFits /\ PagesFit /\ CitesFit
    BY DEF EvidenceMade, ContextInv
<1>2. context = [graph |-> frozen.graph, facts |-> frozen.facts, ledger |-> m, pages |-> frozen.pages, evidence |-> evidence]
    <2>1. frozen = [graph |-> frozen.graph, facts |-> frozen.facts, ledger |-> frozen.ledger, pages |-> frozen.pages,
                    evidence |-> frozen.evidence]
        BY <1>1 DEF ShapesFit
    <2>2. context = [frozen EXCEPT !.ledger = m, !.evidence = evidence]
        OBVIOUS
    <2> HIDE DEF evidence
    <2>3. QED
        BY <2>1, <2>2
<1>3. e.id = c.id /\ e.key = c.key /\ e.span = c.span
    OBVIOUS
<1> HIDE DEF evidence, e
<1>4. context.pages = frozen.pages /\ context.evidence = evidence
    <2> DEFINE r == [graph |-> frozen.graph, facts |-> frozen.facts, ledger |-> m, pages |-> frozen.pages, evidence |-> evidence]
    <2>1. r.pages = frozen.pages /\ r.evidence = evidence
        OBVIOUS
    <2>2. context = r
        BY <1>2
    <2> HIDE DEF r
    <2>3. QED
        BY <2>1, <2>2
<1>5. /\ m.graph = l.graph /\ m.scope = l.scope /\ m.revision = l.revision + 1 /\ m.selected = l.selected
      /\ m.receipts = l.receipts /\ m.queries = l.queries
      /\ m = [graph |-> m.graph, scope |-> m.scope, revision |-> m.revision, selected |-> m.selected,
              receipts |-> m.receipts, cites |-> m.cites, queries |-> m.queries]
    BY EvidenceLedger
<1>6. /\ IsSeq(l.cites) /\ IsSeq(m.cites) /\ Len(l.cites) \in Nat /\ DOMAIN l.cites = 1 .. Len(l.cites) /\ DOMAIN m.cites = 1 .. n
      /\ (\A i \in DOMAIN l.cites : m.cites[i] = l.cites[i]) /\ m.cites[n] = c
      /\ (\A i \in DOMAIN m.cites : m.cites[i].span \in Nat)
      /\ GraphCites(m) = GraphCites(l) /\ SourceCites(m) = SourceCites(l) \cup {n}
    BY EvidenceCites DEF AppendedCite
<1> HIDE DEF n
<1>7. c.id = <<"evidence", a + 1>>
    BY EvidenceCite
<1>8. IsSeq(frozen.evidence)
    BY <1>1 DEF CitesFit
<1>9. /\ a \in Nat /\ Len(evidence) = a + 1 /\ IsSeq(evidence)
      /\ Range(frozen.evidence) \subseteq Range(evidence) /\ e \in Range(evidence)
      /\ \A x \in Range(evidence) : x \in Range(frozen.evidence) \/ x = e
    BY <1>8, Appended DEF evidence
<1>10. /\ Cardinality(SourceCites(m)) = Cardinality(SourceCites(l)) + 1
       /\ a = Cardinality(SourceCites(l))
    BY EvidenceCounts
<1> HIDE DEF a, l
<1>11. /\ {<<x.id, x.span>> : x \in Range(frozen.evidence)} = {<<l.cites[i].id, l.cites[i].span>> : i \in SourceCites(l)}
       /\ Len(frozen.pages) = Len(l.queries)
       /\ \A i \in DOMAIN frozen.pages : frozen.pages[i].bytes = l.queries[i].bytes
    BY <1>1 DEF InputPrepares, l
<1>12. GraphCites(l) \subseteq DOMAIN l.cites /\ SourceCites(l) \subseteq DOMAIN l.cites
    BY DEF GraphCites, SourceCites
<1>13. {<<x.id, x.span>> : x \in Range(evidence)} = {<<m.cites[i].id, m.cites[i].span>> : i \in SourceCites(m)}
    <2> DEFINE A == {<<x.id, x.span>> : x \in Range(frozen.evidence)}
               B == {<<l.cites[i].id, l.cites[i].span>> : i \in SourceCites(l)}
               A1 == {<<x.id, x.span>> : x \in Range(evidence)}
               B1 == {<<m.cites[i].id, m.cites[i].span>> : i \in SourceCites(m)}
    <2>1. A1 = A \cup {<<c.id, c.span>>}
        BY <1>3, <1>9
    <2>2. B1 = B \cup {<<c.id, c.span>>}
        <3>1. \A i \in SourceCites(l) : m.cites[i] = l.cites[i]
            BY <1>6, <1>12
        <3>2. QED
            BY <1>6, <3>1
    <2>3. A = B
        BY <1>11
    <2> HIDE DEF A, B, A1, B1
    <2>4. A1 = B1
        BY <2>1, <2>2, <2>3
    <2>5. QED
        BY <2>4 DEF A1, B1
<1>14. \A i \in SourceCites(m) : /\ \E k \in 1 .. Len(evidence) : m.cites[i].id = <<"evidence", k>>
                                 /\ \E x \in Range(evidence) : x.id = m.cites[i].id /\ x.key = m.cites[i].key
    <2>1. ASSUME NEW i \in SourceCites(l)
          PROVE  /\ \E k \in 1 .. Len(evidence) : m.cites[i].id = <<"evidence", k>>
                 /\ \E x \in Range(evidence) : x.id = m.cites[i].id /\ x.key = m.cites[i].key
        <3>1. m.cites[i] = l.cites[i]
            BY <1>6, <1>12, <2>1
        <3>2. /\ \E k \in 1 .. a : l.cites[i].id = <<"evidence", k>>
              /\ \E x \in Range(frozen.evidence) : x.id = l.cites[i].id /\ x.key = l.cites[i].key
            BY <1>1, <2>1 DEF CitesFit, l, a
        <3>3. QED
            BY <1>9, <3>1, <3>2
    <2>2. /\ \E k \in 1 .. Len(evidence) : m.cites[n].id = <<"evidence", k>>
          /\ \E x \in Range(evidence) : x.id = m.cites[n].id /\ x.key = m.cites[n].key
        <3>1. a + 1 \in 1 .. Len(evidence) /\ m.cites[n].id = <<"evidence", a + 1>>
            BY <1>6, <1>7, <1>9
        <3>2. QED
            BY <1>3, <1>6, <1>9, <3>1
    <2>3. QED
        BY <1>6, <2>1, <2>2
<1>15. \A i \in GraphCites(m) : /\ \E k \in 1 .. Cardinality(GraphCites(m)) : m.cites[i].id = <<"fact", k>>
                                /\ \E p \in Range(frozen.pages) : m.cites[i].digest \in Range(p.facts)
    <2>1. ASSUME NEW i \in GraphCites(l)
          PROVE  /\ \E k \in 1 .. Cardinality(GraphCites(l)) : m.cites[i].id = <<"fact", k>>
                 /\ \E p \in Range(frozen.pages) : m.cites[i].digest \in Range(p.facts)
        <3>1. m.cites[i] = l.cites[i]
            BY <1>6, <1>12, <2>1
        <3>2. /\ \E k \in 1 .. Cardinality(GraphCites(l)) : l.cites[i].id = <<"fact", k>>
              /\ \E p \in Range(frozen.pages) : l.cites[i].digest \in Range(p.facts)
            BY <1>1, <2>1 DEF CitesFit, l
        <3>3. QED
            BY <3>1, <3>2
    <2>2. QED
        BY <1>6, <2>1
<1>16. {m.cites[i].key : i \in GraphCites(m)} = {s.fact.key : s \in m.selected}
    <2>1. {l.cites[i].key : i \in GraphCites(l)} = {s.fact.key : s \in l.selected}
        BY <1>1 DEF CitesFit, l
    <2>2. \A i \in GraphCites(l) : m.cites[i].key = l.cites[i].key
        BY <1>6, <1>12
    <2>3. {m.cites[i].key : i \in GraphCites(l)} = {l.cites[i].key : i \in GraphCites(l)}
        BY <2>2
    <2>4. QED
        BY <1>5, <1>6, <2>1, <2>3
<1>17. /\ IsSeq(frozen.pages) /\ IsSeq(l.queries)
       /\ (\A i \in DOMAIN frozen.pages : PageFits(frozen.facts, frozen.pages[i]))
       /\ \A i \in DOMAIN l.queries : {l.queries[i].bytes, l.queries[i].returned} \subseteq Nat
    BY <1>1 DEF PagesFit, NothingSkipped, PageFits, l
<1>18. /\ l.graph = frozen.graph /\ l.scope = frozen.facts /\ l.revision \in Nat
       /\ l.selected \subseteq [fact : frozen.facts, receipt : {s.receipt : s \in l.selected}]
    BY <1>1 DEF SnapshotFits, l
<1>19. m.revision \in Nat
    BY <1>5, <1>18
<1>20. ValidLedger(m)
    BY EvidenceValid
<1>21. UsageIs(EvidenceUsage(c), m)
    BY EvidenceUses
<1> DEFINE u == EvidenceUsage(c)
<1>22. /\ u \in [tools : Nat, selected : Nat, items : Nat, bytes : Nat, charged : Nat]
       /\ u.selected = Cardinality(m.selected) /\ u.items = Cardinality(SourceCites(m)) /\ u.bytes = SourceBytes(m)
       /\ Len(m.queries) <= u.tools /\ u.tools <= MaxTools
       /\ Cardinality(Validated(m)) <= u.charged /\ u.charged <= MaxValidations
    BY <1>21 DEF UsageIs
<1> HIDE DEF u
<1>23. Len(context.evidence) = Cardinality(SourceCites(m))
    BY <1>4, <1>9, <1>10
<1>24. context = [graph |-> frozen.graph, facts |-> frozen.facts, ledger |-> m, pages |-> context.pages,
                  evidence |-> context.evidence]
    BY <1>2, <1>4
<1>25. Publishable(m, u, context)
    <2> DEFINE p == context.pages
               w == context.evidence
    <2>1. p = frozen.pages /\ w = evidence
        BY <1>4
    <2>2. /\ Len(p) = Len(m.queries) /\ \A i \in DOMAIN p : p[i].bytes = m.queries[i].bytes
        BY <1>5, <1>11, <2>1
    <2>3. /\ m.graph = frozen.graph /\ m.scope = frozen.facts /\ m.revision \in Nat
          /\ m.selected \subseteq [fact : frozen.facts, receipt : {s.receipt : s \in m.selected}]
        BY <1>5, <1>18, <1>19
    <2>4. /\ IsSeq(p) /\ IsSeq(m.queries) /\ (\A i \in DOMAIN p : PageFits(frozen.facts, p[i]))
          /\ \A i \in DOMAIN m.queries : {m.queries[i].bytes, m.queries[i].returned} \subseteq Nat
        BY <1>5, <1>17, <2>1
    <2>5. IsSeq(m.cites) /\ IsSeq(w) /\ \A i \in DOMAIN m.cites : m.cites[i].span \in Nat
        BY <1>6, <1>9, <2>1
    <2>6. {<<x.id, x.span>> : x \in Range(w)} = {<<m.cites[i].id, m.cites[i].span>> : i \in SourceCites(m)}
        BY <1>13, <2>1
    <2>7. \A i \in SourceCites(m) : /\ \E k \in 1 .. Len(w) : m.cites[i].id = <<"evidence", k>>
                                    /\ \E x \in Range(w) : x.id = m.cites[i].id /\ x.key = m.cites[i].key
        BY <1>14, <2>1
    <2>8. \A i \in GraphCites(m) : /\ \E k \in 1 .. Cardinality(GraphCites(m)) : m.cites[i].id = <<"fact", k>>
                                   /\ \E d \in Range(p) : m.cites[i].digest \in Range(d.facts)
        BY <1>15, <2>1
    <2>9. m = [graph |-> m.graph, scope |-> m.scope, revision |-> m.revision, selected |-> m.selected,
               receipts |-> m.receipts, cites |-> m.cites, queries |-> m.queries]
        BY <1>5
    <2>10. QED
        BY <1>16, <1>20, <1>22, <1>23, <1>24, <2>2, <2>3, <2>4, <2>5, <2>6, <2>7, <2>8, <2>9 DEF Publishable
<1>26. QED
    BY <1>25 DEF u

\* The second half of an evidence call.
LEMMA FinishEvidenceStep ==
    ASSUME ContextInv, FinishEvidence
    PROVE  ContextInv'
<1>1. call.at = "reading" /\ live' = live
    BY DEF FinishEvidence
<1>2. CASE Ends("unavailable")
    <2>1. call.at # "answered" /\ "unavailable" # "refused" /\ UNCHANGED live
        BY <1>1
    <2>2. QED
        BY <1>2, <2>1, EndsKeeps
<1> DEFINE id == <<"evidence", Len(frozen.evidence) + 1>>
           span == SpanOf(call.key, call.index)
           m == LedgerAfterEvidence(id)
           c == [id |-> id, key |-> call.key, digest |-> SelectedAt(call.key).fact, span |-> span,
                 origin |-> IF IsCaptured(call.key) THEN "captured" ELSE "tree", receipt |-> SelectedAt(call.key).receipt]
           u == [saved.usage EXCEPT !.items = @ + 1, !.bytes = @ + span]
           context == [frozen EXCEPT !.ledger = m, !.evidence = Append(@, [id |-> id, key |-> call.key, span |-> span])]
<1>3. CASE PublishInput(m, u, context)
    <2>1. EvidenceMade(m, c)
        BY <1>1 DEF EvidenceMade
    <2>2. c.id = id /\ c.key = call.key /\ c.span = span
        OBVIOUS
    <2>3. u = EvidenceUsage(c)
        BY <2>2 DEF EvidenceUsage
    <2>4. context = [frozen EXCEPT !.ledger = m, !.evidence = Append(@, [id |-> c.id, key |-> c.key, span |-> c.span])]
        BY <2>2
    <2> HIDE DEF m, c, u, context
    <2>5. ValidLedger(m) /\ AdmitsInput(m, u) /\ Publishable(m, u, context)
        BY <2>1, <2>3, <2>4, EvidenceValid, EvidenceAdmits, EvidencePublishes
    <2>6. /\ saved' = [ledger |-> m, usage |-> u] /\ frozen' = context
          /\ call' = [NoCall EXCEPT !.at = "ready"] /\ answer' = answer
        BY <1>3, <2>5 DEF PublishInput
    <2>7. QED
        BY <1>1, <2>5, <2>6, PublishKeeps
<1>4. QED
    BY <1>2, <1>3 DEF FinishEvidence

\* Before anything is frozen.
LEMMA ContextInitFits ==
    ASSUME ContextInit
    PROVE  ContextInv
<1>1. live \in LiveGraphs /\ frozen = NoContext /\ saved = [ledger |-> NoLedger, usage |-> NoUsage] /\ answer = NoAnswer
    BY DEF ContextInit
<1>2. call = [at |-> "start", why |-> "", query |-> NoQuery, key |-> 0, index |-> 0, early |-> {}]
    BY DEF ContextInit, NoCall
<1>3. ShapesFit
    <2>1. NoContext = [graph |-> NoContext.graph, facts |-> NoContext.facts, ledger |-> NoContext.ledger, pages |-> NoContext.pages,
                       evidence |-> NoContext.evidence] /\ NoContext.ledger = NoLedger
        BY DEF NoContext
    <2>2. NoLedger = [graph |-> NoLedger.graph, scope |-> NoLedger.scope, revision |-> NoLedger.revision, selected |-> NoLedger.selected,
                      receipts |-> NoLedger.receipts, cites |-> NoLedger.cites, queries |-> NoLedger.queries]
        BY DEF NoLedger
    <2>3. QED
        BY <1>1, <1>2, <2>1, <2>2 DEF ShapesFit
<1>4. call.at = "start" /\ call.why = ""
    BY <1>2
<1>5. QED
    BY <1>1, <1>3, <1>4 DEF ContextInv

\* The context that one investigation works from, its saved ledger and its usage
\* fit one another after every step (context.rs, evidence.rs, agents/investigation).
THEOREM ContextInvariance == ContextSpec => []ContextInv
<1>1. ContextInit => ContextInv
    BY ContextInitFits
<1>2. ASSUME ContextInv, [ContextNext]_contextVars
      PROVE  ContextInv'
    <2>1. ASSUME NEW scope \in TaskScopes, NEW g \in LiveGraphs, FreezeContext(scope, g.facts)
          PROVE  ContextInv'
        BY <1>2, <2>1, FreezeStep
    <2>2. ASSUME NEW q \in Queries, StartQuery(q)
          PROVE  ContextInv'
        BY <1>2, <2>2, StartQueryStep
    <2>3. CASE FinishQuery
        BY <1>2, <2>3, FinishQueryStep
    <2>4. ASSUME NEW f \in frozen.graph, NEW i \in 1..2, StartEvidence(f.key, i)
          PROVE  ContextInv'
        BY <1>2, <2>4, StartEvidenceStep
    <2>5. CASE ReserveValidation
        BY <1>2, <2>5, ReserveStep
    <2>6. CASE FinishEvidence
        BY <1>2, <2>6, FinishEvidenceStep
    <2>7. ASSUME NEW cites, AdmitResult(cites)
          PROVE  ContextInv'
        BY <1>2, <2>7, AdmitResultStep
    <2>8. CASE GraphMoves
        BY <1>2, <2>8, GraphMovesStep
    <2>9. CASE UNCHANGED contextVars
        BY <1>2, <2>9, StutterStep
    <2>10. QED
        BY <1>2, <2>1, <2>2, <2>3, <2>4, <2>5, <2>6, <2>7, <2>8, <2>9 DEF ContextNext
<1>3. QED
    BY <1>1, <1>2, PTL DEF ContextSpec

\* What the invariant says of pages, ledger and answer.
LEMMA ContextInvIsWhole ==
    ASSUME ContextInv
    PROVE  ContextIsWhole
<1>1. CASE call.at \in {"start", "ended"}
    <2>1. frozen = NoContext /\ answer = NoAnswer /\ call.why # "refused" /\ call.at # "ready"
        BY <1>1 DEF ContextInv
    <2>2. frozen.pages = <<>> /\ frozen.ledger = NoLedger /\ frozen.facts = {} /\ frozen.graph = {}
        BY <2>1 DEF NoContext
    <2>3. NothingSkipped
        BY <2>2 DEF NothingSkipped
    <2>4. ScopeKept
        BY <2>2 DEF ScopeKept, NoLedger
    <2>5. AnswerIsBacked
        BY <2>1 DEF AnswerIsBacked, NoAnswer
    <2>6. QED
        BY <2>1, <2>3, <2>4, <2>5 DEF ContextIsWhole, BuiltIsAdmitted
<1>2. CASE call.at \notin {"start", "ended"}
    <2>1. /\ frozen.ledger = saved.ledger /\ InputPrepares /\ SnapshotFits /\ PagesFit /\ call.why # "refused"
        BY <1>2 DEF ContextInv
    <2>2. NothingSkipped
        BY <2>1 DEF PagesFit
    <2>3. ScopeKept
        <3>1. \A i \in DOMAIN frozen.pages : frozen.pages[i].facts \in Seq(frozen.facts)
            BY <2>1 DEF PagesFit
        <3>2. \A i \in DOMAIN frozen.pages : Range(frozen.pages[i].facts) \subseteq frozen.facts
            <4>1. ASSUME NEW s, s \in Seq(frozen.facts)
                  PROVE  Range(s) \subseteq frozen.facts
                BY <4>1 DEF Range
            <4>2. QED
                BY <3>1, <4>1
        <3>3. (\A s \in frozen.ledger.selected : s.fact \in frozen.facts) /\ frozen.facts \subseteq frozen.graph
            BY <2>1 DEF SnapshotFits
        <3>4. QED
            BY <3>2, <3>3 DEF ScopeKept
    <2>4. AnswerIsBacked
        <3>1. CASE call.at = "answered"
            BY <3>1 DEF ContextInv
        <3>2. CASE call.at # "answered"
            <4>1. answer = NoAnswer
                BY <3>2 DEF ContextInv
            <4>2. QED
                BY <4>1 DEF AnswerIsBacked, NoAnswer
        <3>3. QED
            BY <3>1, <3>2
    <2>5. QED
        BY <2>1, <2>2, <2>3, <2>4 DEF ContextIsWhole, BuiltIsAdmitted
<1>3. QED
    BY <1>1, <1>2

\* For any graphs, scopes, selections and limits: the cursors skip nothing, only
\* facts of the allowed scope are supplied, what a call builds is never refused,
\* and an answer rests on what was shown.
THEOREM ContextWhole == ContextSpec => []ContextIsWhole
BY ContextInvariance, ContextInvIsWhole, PTL
=============================================================================
