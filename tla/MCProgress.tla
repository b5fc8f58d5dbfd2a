----------------------------- MODULE MCProgress -----------------------------
(***************************************************************************)
(* What must eventually happen to the rows of dead workers and to the      *)
(* commands that hold source locks.  Jobs and sources share no state here: *)
(* a behaviour exercises one of them, `part`, while the other rests in a   *)
(* state in which none of its fair steps is enabled.                       *)
(***************************************************************************)
EXTENDS JobExecution, TLC

CONSTANTS p1, t1, t2

MCHomeOne == (t1 :> p1) @@ (t2 :> p1)

VARIABLES
    part, registered, ready, slot, root, parked, graph, opAt, opPlan, held, todo, cur, prev,
    seen, snap, job, opCrashes

Commands == INSTANCE SourceAccess WITH
    Source <- {1, 2}, Add <- {"a1", "a2"}, Ingest <- {"i1"}, Reader <- {}, Proc <- {"p1"},
    Target <- [o \in {"a1", "a2"} |-> IF o = "a1" THEN {1} ELSE {2}],
    Home <- [o \in {"a1", "a2", "i1"} |-> "p1"], MaxCrashes <- 1,
    pc <- opAt, plan <- opPlan, crashes <- opCrashes

commandVars == <<registered, ready, slot, root, parked, graph, opAt, opPlan, held, todo, cur,
                 prev, seen, snap, job, opCrashes>>

\* The application runs and has no jobs.
NoJobs ==
    /\ status = [j \in Job |-> "none"] /\ attempt = [j \in Job |-> None]
    /\ detail = [j \in Job |-> 0] /\ minted = 0
    /\ lockFile = [j \in Job |-> "absent"] /\ holder = [j \in Job |-> None]
    /\ phase = [p \in Proc |-> "up"] /\ candidates = [p \in Proc |-> {}]
    /\ pc = [t \in Thread |-> "idle"] /\ plan = [t \in Thread |-> None] /\ exec = plan
    /\ crashes = 0

ProgressInit ==
    /\ Commands!Init
    /\ \/ part = "sources" /\ NoJobs
       \/ part = "jobs" /\ Init

ProgressNext ==
    \/ part = "sources" /\ Commands!Next /\ UNCHANGED <<vars, part>>
    \/ part = "jobs" /\ Next /\ UNCHANGED <<commandVars, part>>

ProgressSpec ==
    /\ ProgressInit /\ [][ProgressNext]_<<vars, commandVars, part>>
    /\ Fairness /\ Commands!Fairness

\* Every command that was given ends, and with it its locks: CommandsEnd of
\* SourceAccess, for the instance of this module.
CommandsEnd == Commands!CommandsEnd
=============================================================================
