------------------------- MODULE SourceAccessProofs -------------------------
(***************************************************************************)
(* Proofs about SourceAccess, for any sources, commands, processes and     *)
(* number of crashes.  IndInv is inductive; the argument is that of the    *)
(* code's comments: locks are exclusive, every lock of the plan is held    *)
(* before anything is written, and what is written is withdrawn first.     *)
(***************************************************************************)
EXTENDS SourceAccess, WellFoundedInduction, TLAPS

-----------------------------------------------------------------------------
(* Facts the steps share. *)

\* The order of acquire is defined: a set of identifiers has a first one.
LEMMA FirstInSet ==
    ASSUME NEW S \in SUBSET Source, S # {}
    PROVE  First(S) \in S
<1>1. S \subseteq Nat
    BY SourceAssumption
<1>2. PICK s \in S : \A t \in S : ~(<<t, s>> \in OpToRel(<, Nat))
    BY <1>1, WFMin, NatLessThanWellFounded
<1>3. \A t \in S : ~(t < s)
    BY <1>1, <1>2 DEF OpToRel
<1>4. \A t \in S : s <= t
    BY <1>1, <1>3
<1>5. QED  BY <1>4 DEF First

\* What a guarded command writes is unavailable, and outside every other
\* guarded plan.
LEMMA WriterAlone ==
    ASSUME IndInv, NEW o \in Op, pc[o] \in Guarded, NEW s \in Writes(o)
    PROVE  /\ s \in Source /\ s \in plan[o] /\ s \in held[o] /\ s \notin ready
           /\ \A q \in Op \ {o} : s \notin held[q] /\ (pc[q] \in Guarded => s \notin plan[q])
BY TargetAssumption
   DEF IndInv, StoresCoherent, TypeOK, PlansLocked, LocksExclude, WritesWithdrawn, Writes

\* Where a command replaces a checkout it is alone with it.
LEMMA ReplacesAlone ==
    ASSUME IndInv, NEW o \in Op, pc[o] \in {"parking", "swapping"}
    PROVE  /\ o \in Add /\ cur[o] \in Target[o] /\ cur[o] \in Source /\ cur[o] \notin ready
           /\ \A q \in Op \ {o} : pc[q] \in Guarded => cur[o] \notin plan[q]
<1>1. o \in Add /\ cur[o] \in Writes(o) /\ Writes(o) = Target[o] /\ pc[o] \in Guarded
    BY DEF IndInv, StepsFit, Cloning, Writes, Guarded, Label, Rest
<1>2. QED  BY <1>1, WriterAlone

\* Where a command reads a checkout, the source is in its plan, and has one.
LEMMA ReadsPlanned ==
    ASSUME IndInv, NEW q \in Op, pc[q] \in {"reading", "loading"}
    PROVE  pc[q] \in Guarded /\ cur[q] \in plan[q] /\ cur[q] \in Source
BY TargetAssumption
   DEF IndInv, StoresCoherent, TypeOK, StepsFit, PlansLocked, Writes, Guarded, Label, Rest, Op

-----------------------------------------------------------------------------
(* IndInv is inductive: one lemma per action. *)

\* Initially nothing is registered, locked or on disk.
LEMMA InitIndInv == Init => IndInv
<1> SUFFICES ASSUME Init PROVE IndInv
    OBVIOUS
<1> USE OpAssumption, TargetAssumption DEF Init, Op, Content, Label, Rest, Guarded, Cloning, Publishing
<1>1. StoresCoherent
    BY DEF StoresCoherent, TypeOK, AvailableIsCoherent
<1>2. ReadsAreStable /\ StepsFit
    BY DEF ReadsAreStable, StepsFit
<1>3. PlansLocked /\ LocksExclude /\ WritesWithdrawn /\ ReadsHaveRoots
    BY DEF PlansLocked, LocksExclude, WritesWithdrawn, ReadsHaveRoots, Writes
<1>4. TargetsProgress
    BY DEF TargetsProgress, CloneProgress
<1>5. QED  BY <1>1, <1>2, <1>3, <1>4 DEF IndInv

\* Rows are added; a new row is unavailable.
LEMMA RegisterKeeps ==
    ASSUME IndInv, NEW o \in Op, Register(o)
    PROVE  IndInv'
<1> USE OpAssumption, TargetAssumption
    DEF IndInv, StoresCoherent, Register, Goto, stores, disk, Op, Content, Label, Rest,
        Guarded, Cloning, Publishing, Writes
<1>1. StoresCoherent'
    BY DEF StoresCoherent, TypeOK, AvailableIsCoherent
<1>2. ReadsAreStable' /\ StepsFit'
    BY DEF ReadsAreStable, StepsFit, TypeOK
<1>3. PlansLocked' /\ LocksExclude'
    BY DEF PlansLocked, LocksExclude, TypeOK
<1>4. WritesWithdrawn' /\ ReadsHaveRoots'
    BY DEF WritesWithdrawn, ReadsHaveRoots, TypeOK
<1>5. TargetsProgress'
    BY DEF TargetsProgress, CloneProgress, Pending, TypeOK
<1>6. QED  BY <1>1, <1>2, <1>3, <1>4, <1>5

\* The plan covers the targets, and no lock is held yet.
LEMMA PlanAddKeeps ==
    ASSUME IndInv, NEW o \in Op, PlanAdd(o)
    PROVE  IndInv'
<1> USE OpAssumption, TargetAssumption
    DEF IndInv, StoresCoherent, PlanAdd, Planned, InGraph, Goto, stores, disk, Op, Content, Label, Rest,
        Guarded, Cloning, Publishing, Writes
<1>1. StoresCoherent'
    BY DEF StoresCoherent, TypeOK, AvailableIsCoherent, StepsFit
<1>2. ReadsAreStable' /\ StepsFit'
    BY DEF ReadsAreStable, StepsFit, TypeOK
<1>3. PlansLocked'
    BY DEF PlansLocked, TypeOK
<1>4. LocksExclude' /\ WritesWithdrawn'
    BY DEF LocksExclude, WritesWithdrawn, TypeOK
<1>5. ReadsHaveRoots'
    BY DEF ReadsHaveRoots, TypeOK
<1>6. TargetsProgress'
    BY DEF TargetsProgress, CloneProgress, Pending, TypeOK
<1>7. QED  BY <1>1, <1>2, <1>3, <1>4, <1>5, <1>6

\* The plan covers the source to ingest.
LEMMA PlanIngestKeeps ==
    ASSUME IndInv, NEW o \in Op, PlanIngest(o)
    PROVE  IndInv'
<1> USE OpAssumption, TargetAssumption
    DEF IndInv, StoresCoherent, PlanIngest, Planned, InGraph, Goto, stores, disk, Op, Content, Label, Rest,
        Guarded, Cloning, Publishing, Writes
<1>1. StoresCoherent'
    BY DEF StoresCoherent, TypeOK, AvailableIsCoherent
<1>2. ReadsAreStable' /\ StepsFit'
    BY DEF ReadsAreStable, StepsFit, TypeOK
<1>3. PlansLocked'
    BY DEF PlansLocked, TypeOK
<1>4. LocksExclude' /\ WritesWithdrawn'
    BY DEF LocksExclude, WritesWithdrawn, TypeOK
<1>5. ReadsHaveRoots'
    BY DEF ReadsHaveRoots, TypeOK
<1>6. TargetsProgress'
    BY DEF TargetsProgress, CloneProgress, Pending, TypeOK
<1>7. QED  BY <1>1, <1>2, <1>3, <1>4, <1>5, <1>6

\* The plan of a reader writes nothing.
LEMMA PlanReadKeeps ==
    ASSUME IndInv, NEW o \in Op, PlanRead(o)
    PROVE  IndInv'
<1> USE OpAssumption, TargetAssumption
    DEF IndInv, StoresCoherent, PlanRead, Planned, InGraph, Goto, stores, disk, Op, Content, Label, Rest,
        Guarded, Cloning, Publishing, Writes
<1>1. StoresCoherent'
    BY DEF StoresCoherent, TypeOK, AvailableIsCoherent
<1>2. ReadsAreStable' /\ StepsFit'
    BY DEF ReadsAreStable, StepsFit, TypeOK
<1>3. PlansLocked'
    BY DEF PlansLocked, TypeOK
<1>4. LocksExclude' /\ WritesWithdrawn'
    BY DEF LocksExclude, WritesWithdrawn, TypeOK
<1>5. ReadsHaveRoots'
    BY DEF ReadsHaveRoots, TypeOK
<1>6. TargetsProgress'
    BY DEF TargetsProgress, CloneProgress, Pending, TypeOK
<1>7. QED  BY <1>1, <1>2, <1>3, <1>4, <1>5, <1>6

\* A lock is granted beside shared ones, or alone.
LEMMA LockKeeps ==
    ASSUME IndInv, NEW o \in Op, Lock(o)
    PROVE  IndInv'
<1> DEFINE s == First(todo[o])
<1> USE DEF IndInv, StoresCoherent
<1>1. s \in todo[o] /\ s \in Source
    BY FirstInSet DEF Lock, TypeOK
<1>2. /\ pc[o] = "locking" /\ LockFree(o, s)
      /\ held' = [held EXCEPT ![o] = @ \cup {s}]
      /\ todo' = [todo EXCEPT ![o] = @ \ {s}]
      /\ UNCHANGED <<registered, ready, graph, slot, root, parked, pc, plan, cur, prev, seen, snap,
                     job, crashes>>
    BY DEF Lock, stores, disk
<1> HIDE DEF s
<1>3. StoresCoherent'
    BY <1>1, <1>2 DEF TypeOK, AvailableIsCoherent
<1>4. ReadsAreStable' /\ StepsFit'
    BY <1>1, <1>2 DEF ReadsAreStable, StepsFit, TypeOK, Cloning, Publishing, Guarded, Rest
<1>5. PlansLocked'
    BY <1>1, <1>2 DEF PlansLocked, TypeOK, Guarded, Rest, Writes
<1>6. LocksExclude'
    BY <1>1, <1>2 DEF LocksExclude, TypeOK, LockFree, Writes
<1>7. WritesWithdrawn' /\ ReadsHaveRoots'
    BY <1>1, <1>2 DEF WritesWithdrawn, ReadsHaveRoots, TypeOK, Writes, Guarded, Rest
<1>8. TargetsProgress'
    BY <1>1, <1>2 DEF TargetsProgress, CloneProgress, Pending, TypeOK, Op, Cloning, Publishing
<1>9. QED  BY <1>3, <1>4, <1>5, <1>6, <1>7, <1>8

\* A command that ends without touching a store drops its locks and leaves
\* every other command as it was.
LEMMA LeaveKeeps ==
    ASSUME IndInv, NEW o \in Op, NEW l \in {"failed", "ended"}, Leave(o, l),
           UNCHANGED <<registered, ready, graph, slot, root, parked>>,
           NEW v \in {"none", "running", "done", "failed", "cancelled"}, job' = [job EXCEPT ![o] = v]
    PROVE  IndInv'
<1> USE OpAssumption, TargetAssumption
    DEF IndInv, StoresCoherent, Leave, Op, Content, Label, Rest, Guarded, Cloning, Publishing, Writes
<1>1. StoresCoherent'
    BY DEF TypeOK, AvailableIsCoherent
<1>2. ReadsAreStable' /\ StepsFit'
    BY DEF ReadsAreStable, StepsFit, TypeOK
<1>3. PlansLocked' /\ LocksExclude'
    BY DEF PlansLocked, LocksExclude, TypeOK
<1>4. WritesWithdrawn' /\ ReadsHaveRoots'
    BY DEF WritesWithdrawn, ReadsHaveRoots, TypeOK
<1>5. TargetsProgress'
    BY DEF TargetsProgress, CloneProgress, Pending, TypeOK
<1>6. QED  BY <1>1, <1>2, <1>3, <1>4, <1>5

\* The endings that leave the stores alone: a busy or unavailable source, the
\* end of a read, a changed context, a cancel, an error.
LEMMA EndingsKeep ==
    ASSUME IndInv, NEW o \in Op,
           Busy(o) \/ Refuse(o) \/ EndRead(o) \/ ContextChanged(o) \/ Stop(o) \/ Error(o)
    PROVE  IndInv'
<1>1. /\ Leave(o, "failed") \/ Leave(o, "ended")
      /\ UNCHANGED <<registered, ready, graph, slot, root, parked>>
    BY DEF Busy, Refuse, EndRead, ContextChanged, Stop, Error, stores, disk
<1>2. job \in [Op -> {"none", "running", "done", "failed", "cancelled"}]
    BY DEF IndInv, StoresCoherent, TypeOK
<1>3. job' = [job EXCEPT ![o] = job[o]] \/ job' = [job EXCEPT ![o] = "failed"]
    BY <1>2 DEF Busy, Refuse, EndRead, ContextChanged, Stop, Error, Failing
<1>4. QED  BY <1>1, <1>2, <1>3, LeaveKeeps

\* With the plan locked, what it writes is withdrawn.
LEMMA InvalidateKeeps ==
    ASSUME IndInv, NEW o \in Op, Invalidate(o)
    PROVE  IndInv'
<1> USE OpAssumption, TargetAssumption
    DEF IndInv, StoresCoherent, Invalidate, Goto, stores, disk, Op, Content, Label, Rest,
        Guarded, Cloning, Publishing, Writes
<1>1. StoresCoherent'
    BY DEF StoresCoherent, TypeOK, AvailableIsCoherent
<1>2. ReadsAreStable' /\ StepsFit'
    BY DEF ReadsAreStable, StepsFit, TypeOK
<1>3. PlansLocked' /\ LocksExclude'
    BY DEF PlansLocked, LocksExclude, TypeOK
<1>4. WritesWithdrawn'
    BY DEF WritesWithdrawn, TypeOK
<1>5. ReadsHaveRoots'
    BY DEF ReadsHaveRoots, TypeOK
<1>6. TargetsProgress'
    BY DEF TargetsProgress, CloneProgress, Pending, TypeOK
<1>7. QED  BY <1>1, <1>2, <1>3, <1>4, <1>5, <1>6

\* A read source is validated, or a slot initialised.
LEMMA ValidateKeeps ==
    ASSUME IndInv, NEW o \in Op, Validate(o)
    PROVE  IndInv'
<1> DEFINE s == First(todo[o])
<1> USE DEF IndInv, StoresCoherent
<1>1. s \in todo[o] /\ s \in Source
    BY FirstInSet DEF Validate, TypeOK
<1>2. /\ pc[o] = "validating" /\ (s \in Writes(o) \/ root[s] # None)
      /\ slot' = slot \cup (Writes(o) \cap {s})
      /\ todo' = [todo EXCEPT ![o] = @ \ {s}]
      /\ UNCHANGED <<registered, ready, graph, root, parked, pc, plan, held, cur, prev, seen, snap,
                     job, crashes>>
    BY DEF Validate, Readable, stores
<1> HIDE DEF s
<1>3. StoresCoherent'
    BY <1>1, <1>2 DEF TypeOK, AvailableIsCoherent
<1>4. ReadsAreStable' /\ StepsFit'
    BY <1>1, <1>2 DEF ReadsAreStable, StepsFit, TypeOK, Cloning, Publishing, Guarded, Rest
<1>5. PlansLocked' /\ LocksExclude'
    BY <1>1, <1>2 DEF PlansLocked, LocksExclude, TypeOK, Guarded, Rest, Writes
<1>6. WritesWithdrawn'
    BY <1>1, <1>2 DEF WritesWithdrawn, Writes
<1>7. ReadsHaveRoots'
    BY <1>1, <1>2 DEF ReadsHaveRoots, TypeOK, Writes, Guarded, Rest
<1>8. TargetsProgress'
    BY <1>1, <1>2 DEF TargetsProgress, CloneProgress, Pending, TypeOK, Op, Cloning, Publishing
<1>9. QED  BY <1>3, <1>4, <1>5, <1>6, <1>7, <1>8

\* Every target is still to be cloned.
LEMMA AdmitAddKeeps ==
    ASSUME IndInv, NEW o \in Op, AdmitAdd(o)
    PROVE  IndInv'
<1> USE OpAssumption, TargetAssumption
    DEF IndInv, StoresCoherent, AdmitAdd, Goto, stores, disk, Op, Content, Label, Rest,
        Guarded, Cloning, Publishing, Writes
<1>1. StoresCoherent'
    BY DEF StoresCoherent, TypeOK, AvailableIsCoherent
<1>2. ReadsAreStable' /\ StepsFit'
    BY DEF ReadsAreStable, StepsFit, TypeOK
<1>3. PlansLocked' /\ LocksExclude'
    BY DEF PlansLocked, LocksExclude, TypeOK
<1>4. WritesWithdrawn' /\ ReadsHaveRoots'
    BY DEF WritesWithdrawn, ReadsHaveRoots, TypeOK
<1>5. TargetsProgress'
    BY DEF TargetsProgress, CloneProgress, Pending, TypeOK
<1>6. QED  BY <1>1, <1>2, <1>3, <1>4, <1>5

\* The source to ingest is in the plan and was validated.
LEMMA AdmitIngestKeeps ==
    ASSUME IndInv, NEW o \in Op, AdmitIngest(o)
    PROVE  IndInv'
<1> USE OpAssumption, TargetAssumption
    DEF IndInv, StoresCoherent, AdmitIngest, Goto, stores, disk, Op, Content, Label, Rest,
        Guarded, Cloning, Publishing, Writes
<1>1. StoresCoherent'
    BY DEF StoresCoherent, TypeOK, AvailableIsCoherent, StepsFit, PlansLocked
<1>2. ReadsAreStable' /\ StepsFit'
    BY DEF ReadsAreStable, StepsFit, TypeOK
<1>3. PlansLocked' /\ LocksExclude'
    BY DEF PlansLocked, LocksExclude, StepsFit, TypeOK
<1>4. WritesWithdrawn' /\ ReadsHaveRoots'
    BY DEF WritesWithdrawn, ReadsHaveRoots, TypeOK
<1>5. TargetsProgress'
    BY DEF TargetsProgress, CloneProgress, Pending, TypeOK
<1>6. QED  BY <1>1, <1>2, <1>3, <1>4, <1>5

\* A planned source was validated, so there is a checkout to read.
LEMMA AdmitReadKeeps ==
    ASSUME IndInv, NEW o \in Op, AdmitRead(o)
    PROVE  IndInv'
<1> USE OpAssumption, TargetAssumption
    DEF IndInv, StoresCoherent, AdmitRead, Goto, stores, disk, Op, Content, Label, Rest,
        Guarded, Cloning, Publishing, Writes
<1>1. StoresCoherent'
    BY DEF StoresCoherent, TypeOK, AvailableIsCoherent
<1>2. ReadsAreStable'
    BY DEF ReadsAreStable, ReadsHaveRoots, PlansLocked, TypeOK
<1>3. StepsFit'
    BY DEF StepsFit, TypeOK
<1>4. PlansLocked' /\ LocksExclude'
    BY DEF PlansLocked, LocksExclude, TypeOK
<1>5. WritesWithdrawn' /\ ReadsHaveRoots'
    BY DEF WritesWithdrawn, ReadsHaveRoots, TypeOK
<1>6. TargetsProgress'
    BY DEF TargetsProgress, CloneProgress, Pending, TypeOK
<1>7. QED  BY <1>1, <1>2, <1>3, <1>4, <1>5, <1>6

\* The clone of one target is under way.
LEMMA StageKeeps ==
    ASSUME IndInv, NEW o \in Op, Stage(o)
    PROVE  IndInv'
<1> USE OpAssumption, TargetAssumption
    DEF IndInv, StoresCoherent, Stage, Goto, stores, disk, Op, Content, Label, Rest,
        Guarded, Cloning, Publishing, Writes
<1>1. StoresCoherent'
    BY DEF StoresCoherent, TypeOK, AvailableIsCoherent
<1>2. ReadsAreStable' /\ StepsFit'
    BY DEF ReadsAreStable, StepsFit, TypeOK
<1>3. PlansLocked' /\ LocksExclude'
    BY DEF PlansLocked, LocksExclude, TypeOK
<1>4. WritesWithdrawn' /\ ReadsHaveRoots'
    BY DEF WritesWithdrawn, ReadsHaveRoots, TypeOK
<1>5. TargetsProgress'
    BY DEF TargetsProgress, CloneProgress, Pending, TypeOK
<1>6. QED  BY <1>1, <1>2, <1>3, <1>4, <1>5

\* The checkout leaves its place: nobody reads it and it is not available.
LEMMA ParkKeeps ==
    ASSUME IndInv, NEW o \in Op, Park(o)
    PROVE  IndInv'
<1> DEFINE s == cur[o]
<1> USE OpAssumption, TargetAssumption DEF IndInv, StoresCoherent, Park, Goto, stores, disk
<1>0. /\ o \in Add /\ s \in Target[o] /\ s \in Source /\ s \notin ready
      /\ Target[o] \in SUBSET Source
      /\ \A q \in Op \ {o} : pc[q] \in Guarded => s \notin plan[q]
    BY ReplacesAlone DEF Op
<1>1. TypeOK'
    BY <1>0 DEF TypeOK, Content, Op, Label
<1>2. AvailableIsCoherent'
    BY <1>0 DEF AvailableIsCoherent, TypeOK
<1>3. ReadsAreStable'
    BY <1>0, ReadsPlanned DEF ReadsAreStable, TypeOK
<1>4. StepsFit'
    BY <1>0 DEF StepsFit, TypeOK, Op, Label, Rest, Guarded, Cloning, Publishing
<1>5. PlansLocked' /\ LocksExclude'
    BY <1>0 DEF PlansLocked, LocksExclude, TypeOK, Op, Label, Rest, Guarded, Writes
<1>6. WritesWithdrawn'
    BY DEF WritesWithdrawn, TypeOK, Op, Label, Rest, Guarded, Writes
<1>7. ReadsHaveRoots'
    <2>1. \A q \in Op \ {o} : pc'[q] = pc[q] /\ plan'[q] = plan[q] /\ todo'[q] = todo[q]
        BY DEF TypeOK
    <2>2. \A t \in Source \ {s} : root'[t] = root[t]
        BY <1>0 DEF TypeOK
    <2>3. \A q \in Op : plan'[q] \subseteq Source /\ pc[o] \in Guarded /\ s \in Writes(o)
        BY <1>0, <1>1 DEF TypeOK, Guarded, Label, Rest, Writes
    <2>4. pc'[o] \in Guarded => pc'[o] # "validating" /\ pc[o] # "validating" /\ plan'[o] = plan[o]
        BY DEF TypeOK, Guarded, Label, Rest
    <2>5. QED  BY <1>0, <2>1, <2>2, <2>3, <2>4 DEF ReadsHaveRoots, Writes
<1>8. TargetsProgress'
    <2>1. CloneProgress(o)'
        BY <1>0 DEF TargetsProgress, CloneProgress, Pending, TypeOK, Cloning, Publishing, StepsFit
    <2>2. ASSUME NEW q \in Add, q # o
          PROVE  CloneProgress(q)'
        <3>1. /\ pc'[q] = pc[q] /\ todo'[q] = todo[q] /\ cur'[q] = cur[q] /\ q \in Op
              /\ pc[q] \in Guarded => Target[q] \subseteq plan[q]
            BY <2>2 DEF TypeOK, Op, PlansLocked, Writes
        <3>2. pc[q] \in Guarded => \A t \in Target[q] : root'[t] = root[t]
            BY <1>0, <2>2, <3>1 DEF TypeOK
        <3>3. QED
            BY <2>2, <3>1, <3>2 DEF TargetsProgress, CloneProgress, Pending, StepsFit, Cloning,
               Publishing, Guarded, Label, Rest
    <2>3. QED  BY <2>1, <2>2 DEF TargetsProgress
<1>9. QED  BY <1>1, <1>2, <1>3, <1>4, <1>5, <1>6, <1>7, <1>8

\* The clone takes the place; with the last target all have the command's clone.
LEMMA SwapKeeps ==
    ASSUME IndInv, NEW o \in Op, Swap(o)
    PROVE  IndInv'
<1> DEFINE s == cur[o]
<1> USE OpAssumption, TargetAssumption DEF IndInv, StoresCoherent, Swap, Goto, stores, disk
<1>0. /\ o \in Add /\ s \in Target[o] /\ s \in Source /\ s \notin ready
      /\ Target[o] \in SUBSET Source
      /\ \A q \in Op \ {o} : pc[q] \in Guarded => s \notin plan[q]
    BY ReplacesAlone DEF Op
<1>1. TypeOK'
    BY <1>0 DEF TypeOK, Content, Op, Label
<1>2. AvailableIsCoherent'
    BY <1>0 DEF AvailableIsCoherent, TypeOK
<1>3. ReadsAreStable'
    BY <1>0, ReadsPlanned DEF ReadsAreStable, TypeOK
<1>4. StepsFit'
    BY <1>0 DEF StepsFit, TypeOK, Op, Label, Rest, Guarded, Cloning, Publishing
<1>5. PlansLocked' /\ LocksExclude'
    BY <1>0 DEF PlansLocked, LocksExclude, TypeOK, Op, Label, Rest, Guarded, Writes
<1>6. WritesWithdrawn'
    BY DEF WritesWithdrawn, TypeOK, Op, Label, Rest, Guarded, Writes
<1>7. ReadsHaveRoots'
    <2>1. \A q \in Op \ {o} : pc'[q] = pc[q] /\ plan'[q] = plan[q] /\ todo'[q] = todo[q]
        BY DEF TypeOK
    <2>2. \A t \in Source \ {s} : root'[t] = root[t]
        BY <1>0 DEF TypeOK
    <2>3. \A q \in Op : plan'[q] \subseteq Source /\ pc[o] \in Guarded /\ s \in Writes(o)
        BY <1>0, <1>1 DEF TypeOK, Guarded, Label, Rest, Writes
    <2>4. pc'[o] \in Guarded => pc'[o] # "validating" /\ pc[o] # "validating" /\ plan'[o] = plan[o]
        BY DEF TypeOK, Guarded, Label, Rest
    <2>5. QED  BY <1>0, <2>1, <2>2, <2>3, <2>4 DEF ReadsHaveRoots, Writes
<1>8. TargetsProgress'
    <2>1. CloneProgress(o)'
        BY <1>0 DEF TargetsProgress, CloneProgress, Pending, TypeOK, Cloning, Publishing, StepsFit
    <2>2. ASSUME NEW q \in Add, q # o
          PROVE  CloneProgress(q)'
        <3>1. /\ pc'[q] = pc[q] /\ todo'[q] = todo[q] /\ cur'[q] = cur[q] /\ q \in Op
              /\ pc[q] \in Guarded => Target[q] \subseteq plan[q]
            BY <2>2 DEF TypeOK, Op, PlansLocked, Writes
        <3>2. pc[q] \in Guarded => \A t \in Target[q] : root'[t] = root[t]
            BY <1>0, <2>2, <3>1 DEF TypeOK
        <3>3. QED
            BY <2>2, <3>1, <3>2 DEF TargetsProgress, CloneProgress, Pending, StepsFit, Cloning,
               Publishing, Guarded, Label, Rest
    <2>3. QED  BY <2>1, <2>2 DEF TargetsProgress
<1>9. QED  BY <1>1, <1>2, <1>3, <1>4, <1>5, <1>6, <1>7, <1>8

\* What is in the place stays unavailable.
LEMMA SwapFailsKeeps ==
    ASSUME IndInv, NEW o \in Op, SwapFails(o)
    PROVE  IndInv'
<1> DEFINE s == cur[o]
<1> USE OpAssumption, TargetAssumption DEF IndInv, StoresCoherent, SwapFails, Leave, Failing, stores, disk
<1>0. /\ o \in Add /\ s \in Target[o] /\ s \in Source /\ s \notin ready
      /\ Target[o] \in SUBSET Source
      /\ \A q \in Op \ {o} : pc[q] \in Guarded => s \notin plan[q]
    BY ReplacesAlone DEF Op
<1>1. TypeOK'
    <2>1. /\ o \in Op /\ prev[o] \in Content
          /\ job' \in [Op -> {"none", "running", "done", "failed", "cancelled"}]
        BY DEF TypeOK
    <2>2. root' \in [Source -> Content] /\ parked' \in [Source -> SUBSET Op]
        <3>1. CASE UNCHANGED <<root, parked>>
            BY <3>1 DEF TypeOK
        <3>2. CASE /\ root' = [root EXCEPT ![s] = prev[o]]
                   /\ parked' = [parked EXCEPT ![s] = @ \ {prev[o]}]
            BY <1>0, <2>1, <3>2 DEF TypeOK
        <3>3. QED  BY <3>1, <3>2
    <2>3. QED  BY <2>1, <2>2 DEF TypeOK, Content, Label
<1>2. AvailableIsCoherent'
    BY <1>0 DEF AvailableIsCoherent, TypeOK
<1>3. ReadsAreStable'
    BY <1>0, ReadsPlanned DEF ReadsAreStable, TypeOK
<1>4. StepsFit'
    BY <1>0 DEF StepsFit, TypeOK, Op, Label, Rest, Guarded, Cloning, Publishing
<1>5. PlansLocked' /\ LocksExclude'
    BY <1>0 DEF PlansLocked, LocksExclude, TypeOK, Op, Label, Rest, Guarded, Writes
<1>6. WritesWithdrawn'
    BY DEF WritesWithdrawn, TypeOK, Op, Label, Rest, Guarded, Writes
<1>7. ReadsHaveRoots'
    <2>1. \A q \in Op \ {o} : pc'[q] = pc[q] /\ plan'[q] = plan[q] /\ todo'[q] = todo[q]
        BY DEF TypeOK
    <2>2. \A t \in Source \ {s} : root'[t] = root[t]
        BY <1>0 DEF TypeOK
    <2>3. \A q \in Op : plan'[q] \subseteq Source /\ pc[o] \in Guarded /\ s \in Writes(o)
        BY <1>0, <1>1 DEF TypeOK, Guarded, Label, Rest, Writes
    <2>4. pc'[o] \in Guarded => pc'[o] # "validating" /\ pc[o] # "validating" /\ plan'[o] = plan[o]
        BY DEF TypeOK, Guarded, Label, Rest
    <2>5. QED  BY <1>0, <2>1, <2>2, <2>3, <2>4 DEF ReadsHaveRoots, Writes
<1>8. TargetsProgress'
    <2>1. CloneProgress(o)'
        BY <1>0 DEF TargetsProgress, CloneProgress, Pending, TypeOK, Cloning, Publishing, StepsFit
    <2>2. ASSUME NEW q \in Add, q # o
          PROVE  CloneProgress(q)'
        <3>1. /\ pc'[q] = pc[q] /\ todo'[q] = todo[q] /\ cur'[q] = cur[q] /\ q \in Op
              /\ pc[q] \in Guarded => Target[q] \subseteq plan[q]
            BY <2>2 DEF TypeOK, Op, PlansLocked, Writes
        <3>2. pc[q] \in Guarded => \A t \in Target[q] : root'[t] = root[t]
            BY <1>0, <2>2, <3>1 DEF TypeOK
        <3>3. QED
            BY <2>2, <3>1, <3>2 DEF TargetsProgress, CloneProgress, Pending, StepsFit, Cloning,
               Publishing, Guarded, Label, Rest
    <2>3. QED  BY <2>1, <2>2 DEF TargetsProgress
<1>9. QED  BY <1>1, <1>2, <1>3, <1>4, <1>5, <1>6, <1>7, <1>8

\* The facts are read from the checkout of a planned source, which has one.
LEMMA ExtractKeeps ==
    ASSUME IndInv, NEW o \in Op, Extract(o)
    PROVE  IndInv'
<1> USE OpAssumption, TargetAssumption
    DEF IndInv, StoresCoherent, Extract, Goto, stores, disk, Op, Content, Label, Rest,
        Guarded, Cloning, Publishing, Writes
<1>1. StoresCoherent'
    BY DEF StoresCoherent, TypeOK, AvailableIsCoherent
<1>2. ReadsAreStable'
    BY DEF ReadsAreStable, ReadsHaveRoots, PlansLocked, StepsFit, TargetsProgress, CloneProgress, TypeOK
<1>3. StepsFit'
    BY DEF StepsFit, PlansLocked, TypeOK
<1>4. PlansLocked' /\ LocksExclude'
    BY DEF PlansLocked, LocksExclude, TypeOK
<1>5. WritesWithdrawn' /\ ReadsHaveRoots'
    BY DEF WritesWithdrawn, ReadsHaveRoots, TypeOK
<1>6. TargetsProgress'
    BY DEF TargetsProgress, CloneProgress, Pending, TypeOK
<1>7. QED  BY <1>1, <1>2, <1>3, <1>4, <1>5, <1>6

\* The graph gets the facts of the checkout that is in the place.
LEMMA LoadKeeps ==
    ASSUME IndInv, NEW o \in Op, Load(o)
    PROVE  IndInv'
<1> DEFINE s == cur[o]
<1> USE OpAssumption, TargetAssumption DEF IndInv, StoresCoherent, Load, Goto, disk
<1>1. s \in plan[o] /\ s \in Source /\ pc[o] \in Guarded /\ seen[o] = root[s]
    BY ReadsPlanned DEF ReadsAreStable
<1>2. \A q \in Add \ {o} : pc[q] \in Guarded => s \notin Target[q]
    BY <1>1, WriterAlone DEF Op, Writes
<1>3. TypeOK'
    <2>1. graph' \in [Source -> Content] /\ seen' \in [Op -> Content] /\ pc' \in [Op -> Label]
        BY <1>1 DEF TypeOK, Label, Content
    <2>2. QED  BY <2>1 DEF TypeOK
<1>4. AvailableIsCoherent'
    BY <1>1 DEF AvailableIsCoherent, TypeOK
<1>5. ReadsAreStable' /\ StepsFit'
    BY DEF ReadsAreStable, StepsFit, TypeOK, Cloning, Publishing, Guarded, Label, Rest
<1>6. PlansLocked' /\ LocksExclude'
    BY DEF PlansLocked, LocksExclude, TypeOK, Guarded, Label, Rest, Writes
<1>7. WritesWithdrawn' /\ ReadsHaveRoots'
    BY DEF WritesWithdrawn, ReadsHaveRoots, TypeOK, Guarded, Label, Rest, Writes
<1>8. TargetsProgress'
    <2>1. ASSUME o \in Add
          PROVE  CloneProgress(o)'
        BY <1>1, <2>1 DEF TargetsProgress, CloneProgress, Pending, TypeOK, Cloning, Publishing, StepsFit
    <2>2. ASSUME NEW q \in Add, q # o
          PROVE  CloneProgress(q)'
        <3>1. pc'[q] = pc[q] /\ todo'[q] = todo[q] /\ cur'[q] = cur[q]
            BY <2>2 DEF TypeOK, Op
        <3>2. pc[q] \in Guarded => \A t \in Target[q] : graph'[t] = graph[t]
            BY <1>1, <1>2, <2>2 DEF TypeOK
        <3>3. QED
            BY <2>2, <3>1, <3>2 DEF TargetsProgress, CloneProgress, Pending, Cloning, Publishing,
               Guarded, Label, Rest
    <2>3. QED  BY <2>1, <2>2 DEF TargetsProgress
<1>9. QED  BY <1>3, <1>4, <1>5, <1>6, <1>7, <1>8

\* A snapshot is taken.
LEMMA RelinkKeeps ==
    ASSUME IndInv, NEW o \in Op, Relink(o)
    PROVE  IndInv'
<1> USE OpAssumption, TargetAssumption
    DEF IndInv, StoresCoherent, Relink, Goto, stores, disk, Op, Content, Label, Rest,
        Guarded, Cloning, Publishing, Writes
<1>1. StoresCoherent'
    BY DEF StoresCoherent, TypeOK, AvailableIsCoherent
<1>2. ReadsAreStable' /\ StepsFit'
    BY DEF ReadsAreStable, StepsFit, TypeOK
<1>3. PlansLocked' /\ LocksExclude'
    BY DEF PlansLocked, LocksExclude, TypeOK
<1>4. WritesWithdrawn' /\ ReadsHaveRoots'
    BY DEF WritesWithdrawn, ReadsHaveRoots, TypeOK
<1>5. TargetsProgress'
    BY DEF TargetsProgress, CloneProgress, Pending, TypeOK
<1>6. QED  BY <1>1, <1>2, <1>3, <1>4, <1>5

\* A patch changes no facts of a checkout.
LEMMA PatchKeeps ==
    ASSUME IndInv, NEW o \in Op, Patch(o)
    PROVE  IndInv'
<1> USE OpAssumption, TargetAssumption
    DEF IndInv, StoresCoherent, Patch, Goto, stores, disk, Op, Content, Label, Rest,
        Guarded, Cloning, Publishing, Writes
<1>1. StoresCoherent'
    BY DEF StoresCoherent, TypeOK, AvailableIsCoherent
<1>2. ReadsAreStable' /\ StepsFit'
    BY DEF ReadsAreStable, StepsFit, TypeOK
<1>3. PlansLocked' /\ LocksExclude'
    BY DEF PlansLocked, LocksExclude, TypeOK
<1>4. WritesWithdrawn' /\ ReadsHaveRoots'
    BY DEF WritesWithdrawn, ReadsHaveRoots, TypeOK
<1>5. TargetsProgress'
    BY DEF TargetsProgress, CloneProgress, Pending, TypeOK
<1>6. QED  BY <1>1, <1>2, <1>3, <1>4, <1>5

\* A replacing command keeps its locks until it has published; an ingest ends.
LEMMA SettleKeeps ==
    ASSUME IndInv, NEW o \in Op, Settle(o)
    PROVE  IndInv'
<1>1. CASE o \in Add
    <2>0. /\ pc[o] = "finishing" /\ pc' = [pc EXCEPT ![o] = "settled"]
          /\ job' = [job EXCEPT ![o] = "done"]
          /\ UNCHANGED <<registered, ready, slot, root, parked, graph, plan, held, todo, cur, prev,
                         seen, snap, crashes>>
        BY <1>1 DEF Settle, Goto, stores, disk
    <2> USE <1>1, <2>0, OpAssumption, TargetAssumption
        DEF IndInv, StoresCoherent, Op, Content, Label, Rest, Guarded, Cloning, Publishing, Writes
    <2>1. StoresCoherent'
        BY DEF TypeOK, AvailableIsCoherent
    <2>2. ReadsAreStable' /\ StepsFit'
        BY DEF ReadsAreStable, StepsFit, TypeOK
    <2>3. PlansLocked' /\ LocksExclude'
        BY DEF PlansLocked, LocksExclude, TypeOK
    <2>4. WritesWithdrawn' /\ ReadsHaveRoots'
        BY DEF WritesWithdrawn, ReadsHaveRoots, TypeOK
    <2>5. TargetsProgress'
        BY DEF TargetsProgress, CloneProgress, Pending, TypeOK
    <2>6. QED  BY <2>1, <2>2, <2>3, <2>4, <2>5
<1>2. CASE o \notin Add
    BY <1>2, LeaveKeeps DEF Settle, stores, disk
<1>3. QED  BY <1>1, <1>2

\* What becomes available was cloned and loaded by one command, alone.
LEMMA PublishReadyKeeps ==
    ASSUME IndInv, NEW o \in Op, PublishReady(o)
    PROVE  IndInv'
<1> USE OpAssumption, TargetAssumption
    DEF IndInv, StoresCoherent, PublishReady, Leave, disk
<1>1. /\ o \in Add /\ Target[o] \subseteq Source
      /\ \A s \in Target[o] : root[s] = o /\ graph[s] \in {None, o}
    BY DEF StepsFit, TargetsProgress, CloneProgress, Pending
<1>2. \A q \in Op \ {o} : pc[q] \in Guarded => Target[o] \cap Writes(q) = {}
    BY <1>1, WriterAlone DEF Writes, Guarded, Label, Rest, PlansLocked
<1>3. TypeOK'
    <2>1. ready' \subseteq Source
        BY <1>1 DEF TypeOK
    <2>2. QED  BY <2>1 DEF TypeOK, Label, Content
<1>4. AvailableIsCoherent'
    BY <1>1 DEF AvailableIsCoherent, TypeOK, Op
<1>5. ReadsAreStable' /\ StepsFit'
    BY DEF ReadsAreStable, StepsFit, TypeOK, Cloning, Publishing, Guarded, Label, Rest
<1>6. PlansLocked' /\ LocksExclude'
    BY DEF PlansLocked, LocksExclude, TypeOK, Guarded, Label, Rest, Writes
<1>7. WritesWithdrawn'
    BY <1>1, <1>2 DEF WritesWithdrawn, TypeOK, Guarded, Label, Rest, Writes
<1>8. ReadsHaveRoots'
    BY DEF ReadsHaveRoots, TypeOK, Guarded, Label, Rest, Writes
<1>9. TargetsProgress'
    BY DEF TargetsProgress, CloneProgress, Pending, TypeOK, Cloning, Publishing, Op
<1>10. QED  BY <1>3, <1>4, <1>5, <1>6, <1>7, <1>8, <1>9

\* Only a running job is cancelled, so never a settled one.
LEMMA CancelKeeps ==
    ASSUME IndInv, NEW o \in Op, Cancel(o)
    PROVE  IndInv'
<1> USE OpAssumption, TargetAssumption
    DEF IndInv, StoresCoherent, Cancel, stores, disk, Op, Content, Label, Rest,
        Guarded, Cloning, Publishing, Writes
<1>1. StoresCoherent'
    BY DEF StoresCoherent, TypeOK, AvailableIsCoherent
<1>2. ReadsAreStable' /\ StepsFit'
    BY DEF ReadsAreStable, StepsFit, TypeOK
<1>3. PlansLocked' /\ LocksExclude'
    BY DEF PlansLocked, LocksExclude, TypeOK
<1>4. WritesWithdrawn' /\ ReadsHaveRoots'
    BY DEF WritesWithdrawn, ReadsHaveRoots, TypeOK
<1>5. TargetsProgress'
    BY DEF TargetsProgress, CloneProgress, Pending, TypeOK
<1>6. QED  BY <1>1, <1>2, <1>3, <1>4, <1>5

\* The commands of a process end and their locks are gone; the stores stay.
LEMMA CrashKeeps ==
    ASSUME IndInv, NEW p \in Proc, Crash(p)
    PROVE  IndInv'
<1> USE OpAssumption, TargetAssumption
    DEF IndInv, StoresCoherent, Crash, stores, disk, Op, Content, Label, Rest,
        Guarded, Cloning, Publishing, Writes
<1>1. StoresCoherent'
    BY DEF StoresCoherent, TypeOK, AvailableIsCoherent
<1>2. ReadsAreStable' /\ StepsFit'
    BY DEF ReadsAreStable, StepsFit, TypeOK
<1>3. PlansLocked' /\ LocksExclude'
    BY DEF PlansLocked, LocksExclude, TypeOK
<1>4. WritesWithdrawn' /\ ReadsHaveRoots'
    BY DEF WritesWithdrawn, ReadsHaveRoots, TypeOK
<1>5. TargetsProgress'
    BY DEF TargetsProgress, CloneProgress, Pending, TypeOK
<1>6. QED  BY <1>1, <1>2, <1>3, <1>4, <1>5

\* Without facts the graph agrees with every checkout.
LEMMA ClearGraphKeeps ==
    ASSUME IndInv, ClearGraph
    PROVE  IndInv'
<1> USE OpAssumption, TargetAssumption DEF IndInv, StoresCoherent, ClearGraph, disk
<1>1. StoresCoherent'
    BY DEF TypeOK, AvailableIsCoherent, Content
<1>2. ReadsAreStable' /\ StepsFit' /\ PlansLocked' /\ LocksExclude'
    BY DEF ReadsAreStable, StepsFit, PlansLocked, LocksExclude
<1>3. WritesWithdrawn' /\ ReadsHaveRoots'
    BY DEF WritesWithdrawn, ReadsHaveRoots
<1>4. TargetsProgress'
    BY DEF TargetsProgress, CloneProgress, Pending, TypeOK
<1>5. QED  BY <1>1, <1>2, <1>3, <1>4

\* Every step keeps IndInv.
LEMMA NextKeeps == IndInv /\ [Next]_vars => IndInv'
<1> SUFFICES ASSUME IndInv, [Next]_vars
             PROVE  IndInv'
    OBVIOUS
<1>1. CASE UNCHANGED vars
    BY <1>1 DEF vars, IndInv, StoresCoherent, TypeOK, AvailableIsCoherent, ReadsAreStable, StepsFit,
       PlansLocked, LocksExclude, WritesWithdrawn, ReadsHaveRoots, TargetsProgress, CloneProgress,
       Pending, Writes
<1>2. ASSUME NEW o \in Op,
             OpStep(o) \/ PlanIngest(o) \/ PlanRead(o) \/ Cancel(o) \/ Error(o)
      PROVE  IndInv'
    BY <1>2, RegisterKeeps, PlanAddKeeps, PlanIngestKeeps, PlanReadKeeps, LockKeeps, EndingsKeep,
       InvalidateKeeps, ValidateKeeps, AdmitAddKeeps, AdmitIngestKeeps, AdmitReadKeeps, StageKeeps,
       ParkKeeps, SwapKeeps, SwapFailsKeeps, ExtractKeeps, LoadKeeps, RelinkKeeps, PatchKeeps,
       SettleKeeps, PublishReadyKeeps, CancelKeeps
       DEF OpStep, AddStep
<1>3. QED  BY <1>1, <1>2, CrashKeeps, ClearGraphKeeps DEF Next

-----------------------------------------------------------------------------
(* The theorems. *)

\* IndInv holds throughout.
THEOREM Invariant == Spec => []IndInv
BY InitIndInv, NextKeeps, PTL DEF Spec

\* The variables keep their types.
THEOREM TypeCorrect == Spec => []TypeOK
<1>1. IndInv => TypeOK
    BY DEF IndInv, StoresCoherent
<1>2. QED  BY <1>1, Invariant, PTL

\* What the registry calls available has a checkout, and the graph holds its
\* facts or none: no failure, cancel, crash or race of commands leaves an
\* available mixture (acquire, finish_source_operation).
THEOREM AvailableSourcesAgree == Spec => []StoresCoherent
<1>1. IndInv => StoresCoherent
    BY DEF IndInv
<1>2. QED  BY <1>1, Invariant, PTL

\* No checkout is replaced under a read pass or between the extraction of its
\* facts and their load (with_registered_read, run_ingest).
THEOREM ReadersUndisturbed == Spec => []ReadsAreStable
<1>1. IndInv => ReadsAreStable
    BY DEF IndInv
<1>2. QED  BY <1>1, Invariant, PTL

\* No step removes the only checkout of a source from disk (clone_from).
THEOREM CheckoutNeverLost == Spec => CheckoutKept
<1>1. IndInv /\ [Next]_vars => [\A s \in Source : OnDisk(s) => OnDisk(s)']_vars
    <2> SUFFICES ASSUME IndInv, Next, NEW s \in Source, OnDisk(s)
                 PROVE  OnDisk(s)'
        OBVIOUS
    <2> USE DEF IndInv, StoresCoherent, OnDisk
    <2>1. ASSUME NEW o \in Op, Park(o) \/ Swap(o) \/ SwapFails(o)
          PROVE  OnDisk(s)'
        <3>1. o \in Add /\ cur[o] \in Source /\ (pc[o] = "swapping" => root[cur[o]] = None)
            BY <2>1, ReplacesAlone DEF TargetsProgress, CloneProgress, Park, Swap, SwapFails
        <3>2. CASE Park(o)
            BY <3>1, <3>2, OpAssumption DEF Park, TypeOK, Content
        <3>3. CASE Swap(o)
            BY <3>1, <3>3, OpAssumption DEF Swap, TypeOK, Content, Op
        <3>4. CASE SwapFails(o)
            <4>1. prev[o] \in Op \/ (prev[o] = None /\ None \notin parked[cur[o]])
                BY <3>1, OpAssumption DEF TypeOK, Content
            <4>2. QED  BY <3>1, <3>4, <4>1, OpAssumption DEF SwapFails, TypeOK, Content
        <3>5. QED  BY <2>1, <3>2, <3>3, <3>4
    <2>2. CASE UNCHANGED <<root, parked>>
        BY <2>2
    <2>3. \/ UNCHANGED <<root, parked>>
          \/ \E o \in Op : Park(o) \/ Swap(o) \/ SwapFails(o)
        BY DEF Next, OpStep, AddStep, Register, PlanAdd, PlanIngest, PlanRead, Planned, Lock, Busy,
           Invalidate, Validate, Refuse, AdmitAdd, AdmitIngest, AdmitRead, EndRead, Stage, Extract,
           Load, Relink, Patch, ContextChanged, Settle, PublishReady, Cancel, Stop, Error, Crash,
           ClearGraph, disk, stores
    <2>4. QED  BY <2>1, <2>2, <2>3
<1>2. QED  BY <1>1, Invariant, PTL DEF Spec, CheckoutKept

\* Only two steps change what is available.
LEMMA ReadyChanges ==
    ASSUME Next
    PROVE  ready' = ready \/ \E o \in Op : Invalidate(o) \/ PublishReady(o)
BY DEF Next, OpStep, AddStep, Register, PlanAdd, PlanIngest, PlanRead, Planned, Lock, Busy,
   Validate, Refuse, AdmitAdd, AdmitIngest, AdmitRead, EndRead, Stage, Park, Swap, SwapFails,
   Extract, Load, Relink, Patch, ContextChanged, Settle, Cancel, Stop, Error, Crash, ClearGraph,
   disk, stores

\* Sources become available together, by a command that is done and holds
\* their locks (finish_source_operation).
THEOREM PublishedTogether == Spec => AvailableTogether
<1>1. IndInv /\ [Next]_vars =>
        [\A s \in ready' \ ready : \E o \in Add :
            /\ s \in Target[o] /\ Target[o] \subseteq ready' /\ Target[o] \subseteq held[o]
            /\ job[o] = "done"]_vars
    <2> SUFFICES ASSUME IndInv, Next, NEW s \in ready' \ ready
                 PROVE  \E o \in Add :
                          /\ s \in Target[o] /\ Target[o] \subseteq ready'
                          /\ Target[o] \subseteq held[o] /\ job[o] = "done"
        OBVIOUS
    <2>1. PICK o \in Op : PublishReady(o)
        BY ReadyChanges DEF Invalidate
    <2>2. o \in Add /\ job[o] = "done" /\ Writes(o) \subseteq held[o] /\ Writes(o) = Target[o]
        BY <2>1 DEF PublishReady, IndInv, StepsFit, PlansLocked, Guarded, Label, Rest, Writes
    <2>3. s \in Target[o] /\ Target[o] \subseteq ready'
        BY <2>1 DEF PublishReady
    <2>4. QED  BY <2>2, <2>3
<1>2. QED  BY <1>1, Invariant, PTL DEF Spec, AvailableTogether

\* A source is withdrawn only under the whole lock plan (acquire).
THEOREM WithdrawnUnderPlan == Spec => InvalidatedUnderPlan
<1>1. IndInv /\ [Next]_vars =>
        [\A s \in ready \ ready' : \E o \in Add :
            s \in Target[o] /\ Target[o] \cup plan[o] \subseteq held[o]]_vars
    <2> SUFFICES ASSUME IndInv, Next, NEW s \in ready \ ready'
                 PROVE  \E o \in Add : s \in Target[o] /\ Target[o] \cup plan[o] \subseteq held[o]
        OBVIOUS
    <2>1. PICK o \in Op : Invalidate(o)
        BY ReadyChanges DEF PublishReady
    <2>2. o \in Add /\ s \in Target[o] /\ Writes(o) = Target[o]
        BY <2>1 DEF Invalidate, Writes
    <2>3. plan[o] \subseteq held[o] /\ Writes(o) \subseteq plan[o]
        BY <2>1 DEF Invalidate, IndInv, PlansLocked
    <2>4. QED  BY <2>2, <2>3
<1>2. QED  BY <1>1, Invariant, PTL DEF Spec, InvalidatedUnderPlan

\* No step loses a checkout, publishes half of a system or withdraws a source
\* without its plan.
THEOREM CheckoutsAreSafe == Spec => CheckoutsSafe
BY CheckoutNeverLost, PublishedTogether, WithdrawnUnderPlan DEF CheckoutsSafe
=============================================================================
