---------------------------- MODULE JobLifecycle ----------------------------
(***************************************************************************)
(* What the job store promises, without processes, plans or locks          *)
(* (docs/SPEC-07, ADR-0025): a job has a status, a generation and at most  *)
(* one live execution.  An execution begins with a claim that starts the   *)
(* next generation and never while another execution of the job is live;   *)
(* only the live execution settles the job; only a job without one is      *)
(* interrupted; a cancellation or a clear never ends an execution.         *)
(***************************************************************************)
EXTENDS Naturals

CONSTANTS Job, Legacy, MaxGeneration

VARIABLES status,      \* [Job -> status shown to the user]
          generation,  \* [Job -> executions begun so far]
          live         \* SUBSET Job: jobs some thread is executing

lifecycleVars == <<status, generation, live>>

LifecycleInit ==
    /\ status \in [Job -> {"none", "queued", "running", "done", "failed",
                           "cancelled", "interrupted"}]
    /\ generation = [j \in Job |-> 0]
    /\ live = {}

Submit(j) ==
    /\ status[j] = "none"
    /\ status' = [status EXCEPT ![j] = "queued"]
    /\ UNCHANGED <<generation, live>>

\* One execution begins, from queued or from an outcome that may be retried.
Begin(j) ==
    /\ j \notin live /\ j \notin Legacy
    /\ \/ status[j] = "queued" /\ generation[j] = 0
       \/ status[j] \in {"failed", "cancelled", "interrupted"}
    /\ generation[j] < MaxGeneration
    /\ status' = [status EXCEPT ![j] = "running"]
    /\ generation' = [generation EXCEPT ![j] = @ + 1]
    /\ live' = live \cup {j}

\* The live execution settles the job it still owns.
Settle(j) ==
    /\ j \in live /\ status[j] = "running"
    /\ \E s \in {"done", "failed"} : status' = [status EXCEPT ![j] = s]
    /\ UNCHANGED <<generation, live>>

UserCancel(j) ==
    /\ status[j] \in {"queued", "running"}
    /\ status' = [status EXCEPT ![j] = "cancelled"]
    /\ UNCHANGED <<generation, live>>

UserClear ==
    /\ status' = [j \in Job |-> IF status[j] \in {"done", "failed", "cancelled"}
                                THEN "cleared" ELSE status[j]]
    /\ generation' = [j \in Job |-> IF status[j] \in {"done", "failed", "cancelled"}
                                    THEN 0 ELSE generation[j]]
    /\ UNCHANGED live

\* Startup finds a running job that nobody executes.
Interrupt(j) ==
    /\ j \notin live /\ j \notin Legacy
    /\ status[j] = "running"
    /\ status' = [status EXCEPT ![j] = "interrupted"]
    /\ UNCHANGED <<generation, live>>

\* Executions end: a worker returns, or processes die with their workers.
End ==
    /\ live' \in SUBSET live
    /\ UNCHANGED <<status, generation>>

LifecycleNext ==
    \/ \E j \in Job : Submit(j) \/ Begin(j) \/ Settle(j) \/ UserCancel(j) \/ Interrupt(j)
    \/ UserClear
    \/ End

LifecycleSpec == LifecycleInit /\ [][LifecycleNext]_lifecycleVars

=============================================================================
