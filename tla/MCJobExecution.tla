--------------------------- MODULE MCJobExecution ---------------------------
(***************************************************************************)
(* Small instances of the two ways in which a worker is let in: the claim  *)
(* of a job, by threads of one and of two processes, and the admission of  *)
(* an investigation to a live slot.  What Investigation assumes of a job   *)
(* is the subject of JobExecution; here the two share no state, and a      *)
(* behaviour exercises one of them, `part`, while the other rests.         *)
(***************************************************************************)
EXTENDS JobExecution, TLC

CONSTANTS p1, p2, t1, t2, t3, i1, i2

MCHome == (t1 :> p1) @@ (t2 :> p1) @@ (t3 :> p2)

VARIABLES
    part, task, job, worker, home, live, preview, seen, proc, cand, call, called, granted,
    taskCrashes, faults

slotVars == <<task, job, worker, home, live, preview, seen, proc, cand, call, called, granted,
              taskCrashes, faults>>

\* Two investigations compete for one slot, in a process that may crash once.
Slots == INSTANCE Investigation WITH
    Task <- {i1, i2}, Proc <- {p1}, MaxLive <- 1, MaxEvents <- 10, MaxInvocations <- 1,
    MaxCrashes <- 1, MaxFaults <- 0, crashes <- taskCrashes

\* LiveWithinCap of Investigation, for the instance of this module.
LiveWithinCap == Slots!LiveWithinCap

TaskSymmetry == Permutations({i1, i2})

WorkersInit ==
    /\ Init /\ Slots!Init
    /\ \/ part = "jobs"
       \/ part = "slots" /\ \A j \in Legacy : status[j] = "done"

WorkersNext ==
    \/ part = "jobs" /\ Next /\ UNCHANGED <<slotVars, part>>
    \/ part = "slots" /\ Slots!Next /\ UNCHANGED <<vars, part>>

WorkersSpec == WorkersInit /\ [][WorkersNext]_<<vars, slotVars, part>>
=============================================================================
