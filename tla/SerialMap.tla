------------------------------ MODULE SerialMap ------------------------------
(***************************************************************************)
(* What map_ordered promises (crates/source-walk/src/parallel.rs, its doc  *)
(* comment): the observable behaviour of the serial loop                   *)
(*     for item { merge(item, work(item)?)? }                              *)
(* Items are merged one by one in item order, and the first item whose     *)
(* work or merge does not succeed decides the result.                      *)
(***************************************************************************)
EXTENDS Naturals

CONSTANTS
    N,      \* number of items
    None    \* no result yet

VARIABLES
    work,   \* [1..N -> what work(item) does], fixed
    merge,  \* [1..N -> what merge(item, value) does], fixed
    done,   \* items merged so far
    result  \* outcome of the loop, None while it runs

svars == <<work, merge, done, result>>

Item == 1 .. N
Effect == {"ok", "error", "panic"}

SerialInit ==
    /\ work \in [Item -> Effect] /\ merge \in [Item -> Effect]
    /\ done = 0
    /\ result = None

MergeOne ==
    /\ result = None /\ done < N
    /\ work[done + 1] = "ok" /\ merge[done + 1] = "ok"
    /\ done' = done + 1
    /\ UNCHANGED <<work, merge, result>>

Fail ==
    /\ result = None /\ done < N
    /\ result' = IF work[done + 1] # "ok"
                 THEN [item |-> done + 1, by |-> "work", kind |-> work[done + 1]]
                 ELSE [item |-> done + 1, by |-> "merge", kind |-> merge[done + 1]]
    /\ result'.kind # "ok"
    /\ UNCHANGED <<work, merge, done>>

Finish ==
    /\ result = None /\ done = N
    /\ result' = [item |-> N, by |-> "loop", kind |-> "ok"]
    /\ UNCHANGED <<work, merge, done>>

SerialSpec == SerialInit /\ [][MergeOne \/ Fail \/ Finish]_svars
=============================================================================
