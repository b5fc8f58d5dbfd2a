--------------------------- MODULE RecoveryProofs ---------------------------
(***************************************************************************)
(* For every number of items, workers and window: map_ordered loses and    *)
(* repeats no item, keeps its backlog within the window, and merges as the *)
(* serial loop does.  For every graph, depth bound, similarity and floor:  *)
(* a trace misses neither an entry point nor a hop without saying so, and  *)
(* a semantic overlay only fills gaps.  For every repository, build and    *)
(* corpus: a recovery assembles what gated plugins answered.               *)
(***************************************************************************)
EXTENDS OrderedMap, FlowPreview, PluginGate, FiniteSetTheorems, TLAPS

\* The thread that merges has taken one item more than it has merged, and has
\* decided nothing yet.
CallerProgress ==
    /\ caller \in {"take", "waiting"} => result = None /\ done = merged
    /\ caller \in {"notify", "merge"} => result = None /\ merged = done + 1

\* Claims stay ahead of the merges, by the window at most.
ClaimsAhead == merged <= next /\ next <= merged + Window

IndInv == TypeOK /\ NothingLost /\ ClaimsAhead /\ CallerProgress

-----------------------------------------------------------------------------

LEMMA WindowType == Window \in Nat
<1>1. Cardinality(Worker) \in Nat
    BY WorkerAssumption, FS_CardinalityType
<1>2. QED
    BY <1>1, AheadAssumption DEF Window

\* The threads that compute stay the same: nothing is claimed or delivered.
LEMMA SameWorking ==
    ASSUME NothingLost, next' = next, merged' = merged, ready' = ready, item' = item,
           \A w \in Worker : at'[w] = "working" <=> at[w] = "working"
    PROVE  NothingLost'
<1>1. Working' = Working
    BY DEF Working
<1>2. Claimed' = Claimed
    BY <1>1 DEF Claimed
<1>3. QED
    BY <1>1, <1>2 DEF NothingLost

\* Waking everyone who waits keeps the places well-typed.
LEMMA AwakeType ==
    ASSUME TypeOK, NEW w \in Worker
    PROVE  /\ Awake(w) \in {"claim", "waiting", "working", "notify", "gone"}
           /\ Awake(w) = "working" <=> at[w] = "working"
BY DEF TypeOK, Awake

LEMMA InitIndInv == Init => IndInv
<1> SUFFICES ASSUME Init PROVE IndInv
    OBVIOUS
<1>1. TypeOK
  <2>1. 0 \in 0 .. N
      BY NAssumption
  <2>2. at \in [Worker -> {"claim", "waiting", "working", "notify", "gone"}]
      BY DEF Init
  <2>3. item \in [Worker -> 0 .. N]
      BY <2>1 DEF Init
  <2>4. QED
      BY <2>1, <2>2, <2>3 DEF Init, TypeOK
<1>2. NothingLost
  <2>1. Working = {}
      BY DEF Init, Working
  <2>2. Claimed = {}
      BY <2>1 DEF Claimed
  <2>3. QED
      BY <2>1, <2>2 DEF Init, NothingLost
<1>3. ClaimsAhead
    BY WindowType DEF Init, ClaimsAhead
<1>4. QED
    BY <1>1, <1>2, <1>3 DEF Init, IndInv, CallerProgress

LEMMA ClaimKeeps ==
    ASSUME IndInv, NEW w \in Worker, Claim(w) PROVE IndInv'
<1> USE DEF IndInv
<1>1. next \in 0 .. N /\ merged \in 0 .. N /\ next < N /\ N \in Nat /\ merged <= next
    BY NAssumption DEF TypeOK, Claim, ClaimsAhead
<1>2. TypeOK'
    BY <1>1 DEF TypeOK, Claim, closures
<1>3. NothingLost'
  <2>1. at[w] # "working" /\ at'[w] = "working" /\ item'[w] = next + 1
      BY DEF TypeOK, Claim
  <2>2. \A v \in Worker \ {w} : at'[v] = at[v] /\ item'[v] = item[v]
      BY DEF TypeOK, Claim
  <2>3. Working' = Working \cup {w}
      BY <2>1, <2>2 DEF Working
  <2>4. w \notin Working
      BY <2>1 DEF Working
  <2>5. Claimed' = Claimed \cup {next + 1}
      BY <2>1, <2>2, <2>3, <2>4 DEF Claimed, Working
  <2>6. merged' + 1 .. next' = (merged + 1 .. next) \cup {next + 1}
      BY <1>1 DEF Claim
  <2>7. next + 1 \notin ready /\ next + 1 \notin Claimed
      BY <1>1 DEF NothingLost
  <2>8. \A u, v \in Working' : item'[u] = item'[v] => u = v
    <3> SUFFICES ASSUME NEW u \in Working', NEW v \in Working', item'[u] = item'[v]
                 PROVE  u = v
        OBVIOUS
    <3>1. \A x \in Working : item'[x] = item[x] /\ item[x] # next + 1
        BY <2>2, <2>4, <2>7 DEF Working, Claimed
    <3>2. QED
        BY <2>1, <2>3, <3>1 DEF NothingLost
  <2>9. ready' = ready
      BY DEF Claim
  <2>10. QED
      BY <2>5, <2>6, <2>7, <2>8, <2>9 DEF NothingLost
<1>4. ClaimsAhead'
    BY <1>1, WindowType DEF Claim, MayClaim, ClaimsAhead, Window
<1>5. CallerProgress'
    BY DEF Claim, CallerProgress
<1>6. QED
    BY <1>2, <1>3, <1>4, <1>5

LEMMA DeliverKeeps ==
    ASSUME IndInv, NEW w \in Worker, Deliver(w) PROVE IndInv'
<1> USE DEF IndInv
<1>1. w \in Working
    BY DEF Deliver, Working
<1>2. item[w] \in merged + 1 .. next
    BY <1>1 DEF NothingLost, Claimed
<1>3. TypeOK'
  <2>1. item[w] \in Item
      BY <1>2, NAssumption DEF TypeOK, Item
  <2>2. QED
      BY <2>1 DEF TypeOK, Deliver, closures
<1>4. NothingLost'
  <2>1. Working' = Working \ {w}
      BY DEF Working, Deliver, TypeOK
  <2>2. Claimed' = Claimed \ {item[w]}
    <3>1. \A v \in Working \ {w} : item[v] # item[w]
        BY <1>1 DEF NothingLost
    <3>2. item' = item
        BY DEF Deliver
    <3>3. QED
        BY <1>1, <2>1, <3>1, <3>2 DEF Claimed
  <2>3. item[w] \in Claimed
      BY <1>1 DEF Claimed
  <2>4. ready' = ready \cup {item[w]} /\ merged' = merged /\ next' = next /\ item' = item
      BY DEF Deliver
  <2>5. QED
      BY <2>1, <2>2, <2>3, <2>4 DEF NothingLost
<1>5. ClaimsAhead' /\ CallerProgress'
    BY DEF Deliver, ClaimsAhead, CallerProgress, Window
<1>6. QED
    BY <1>3, <1>4, <1>5

LEMMA TakeKeeps ==
    ASSUME IndInv, Take PROVE IndInv'
<1> USE DEF IndInv
<1>1. merged \in 0 .. N /\ next \in 0 .. N /\ merged < N /\ N \in Nat /\ done = merged
    BY NAssumption DEF TypeOK, Take, CallerProgress
<1>2. merged + 1 <= next /\ merged + 1 \notin Claimed
    BY <1>1 DEF NothingLost, Take
<1>3. TypeOK'
    BY <1>1 DEF TypeOK, Take, closures
<1>4. NothingLost'
  <2>1. Working' = Working
      BY DEF Working, Take
  <2>2. Claimed' = Claimed
      BY <2>1 DEF Claimed, Take
  <2>3. merged' + 1 .. next' = (merged + 1 .. next) \ {merged + 1}
      BY <1>1 DEF Take
  <2>4. ready' = ready \ {merged + 1} /\ item' = item
      BY DEF Take
  <2>5. QED
      BY <1>2, <2>1, <2>2, <2>3, <2>4 DEF NothingLost
<1>5. ClaimsAhead'
    BY <1>1, <1>2, WindowType DEF Take, ClaimsAhead, Window
<1>6. CallerProgress'
    BY <1>1 DEF Take, CallerProgress
<1>7. QED
    BY <1>3, <1>4, <1>5, <1>6

\* The other steps of a worker move it between places where it computes nothing.
LEMMA WorkerMoveKeeps ==
    ASSUME IndInv, NEW w \in Worker, Wait(w) \/ Leave(w) \/ NotifyFinished(w) PROVE IndInv'
<1> USE DEF IndInv
<1>1. TypeOK'
    BY DEF TypeOK, Wait, Leave, NotifyFinished, closures
<1>2. \A v \in Worker : at'[v] = "working" <=> at[v] = "working"
    BY DEF TypeOK, Wait, Leave, NotifyFinished
<1>3. NothingLost'
    BY <1>2, SameWorking DEF Wait, Leave, NotifyFinished
<1>4. ClaimsAhead'
    BY DEF Wait, Leave, NotifyFinished, ClaimsAhead, Window
<1>5. CallerProgress'
    BY DEF Wait, Leave, NotifyFinished, CallerProgress
<1>6. QED
    BY <1>1, <1>3, <1>4, <1>5

\* Steps of the caller that take nothing.
LEMMA CallerMoveKeeps ==
    ASSUME IndInv,
           WaitFinished \/ NotifyClaimable \/ Merge \/ MergeFails \/ AllMerged \/ Stop \/ Join
    PROVE  IndInv'
<1> USE DEF IndInv
<1>1. CASE WaitFinished \/ Join
  <2>1. TypeOK' /\ ClaimsAhead' /\ CallerProgress'
      BY <1>1 DEF TypeOK, WaitFinished, Join, closures, ClaimsAhead, Window, CallerProgress
  <2>2. NothingLost'
      BY <1>1, SameWorking DEF WaitFinished, Join
  <2>3. QED
      BY <2>1, <2>2
<1>2. CASE NotifyClaimable \/ Stop
  <2>1. at' = [w \in Worker |-> Awake(w)]
      BY <1>2 DEF NotifyClaimable, Stop
  <2>2. at' \in [Worker -> {"claim", "waiting", "working", "notify", "gone"}]
      BY <2>1, AwakeType
  <2>3. TypeOK' /\ ClaimsAhead' /\ CallerProgress'
      BY <1>2, <2>2 DEF TypeOK, NotifyClaimable, Stop, closures, ClaimsAhead, Window, CallerProgress
  <2>4. \A w \in Worker : at'[w] = "working" <=> at[w] = "working"
      BY <2>1, AwakeType
  <2>5. NothingLost'
      BY <1>2, <2>4, SameWorking DEF NotifyClaimable, Stop
  <2>6. QED
      BY <2>3, <2>5
<1>3. CASE Merge
  <2>1. merged \in 0 .. N /\ done \in 0 .. N /\ merged = done + 1 /\ N \in Nat
      BY <1>3, NAssumption DEF TypeOK, Merge, CallerProgress
  <2>2. TypeOK'
      BY <1>3, <2>1 DEF TypeOK, Merge, closures
  <2>3. ClaimsAhead' /\ CallerProgress'
      BY <1>3, <2>1 DEF Merge, ClaimsAhead, Window, CallerProgress
  <2>4. NothingLost'
      BY <1>3, SameWorking DEF Merge
  <2>5. QED
      BY <2>2, <2>3, <2>4
<1>4. CASE MergeFails \/ AllMerged
  <2>1. PICK i \in 0 .. N, by \in {"work", "merge", "loop"}, kind \in Effect : Decide(i, by, kind)
    <3>1. CASE MergeFails
      <4>1. merged \in Item /\ merged \in 0 .. N
          BY <3>1, NAssumption DEF TypeOK, MergeFails, CallerProgress, Item
      <4>2. work[merged] \in Effect /\ merge[merged] \in Effect
          BY <4>1 DEF TypeOK
      <4>3. QED
          BY <3>1, <4>1, <4>2 DEF MergeFails
    <3>2. CASE AllMerged
      <4>1. N \in 0 .. N /\ "ok" \in Effect
          BY NAssumption DEF Effect
      <4>2. QED
          BY <3>2, <4>1 DEF AllMerged
    <3>3. QED
        BY <1>4, <3>1, <3>2
  <2>2. TypeOK'
      BY <2>1 DEF TypeOK, Decide, closures
  <2>3. ClaimsAhead' /\ CallerProgress'
      BY <2>1 DEF Decide, ClaimsAhead, Window, CallerProgress
  <2>4. NothingLost'
      BY <2>1, SameWorking DEF Decide
  <2>5. QED
      BY <2>2, <2>3, <2>4
<1>5. QED
    BY <1>1, <1>2, <1>3, <1>4

LEMMA StutterKeeps ==
    ASSUME IndInv, UNCHANGED vars PROVE IndInv'
<1> USE DEF IndInv
<1>1. TypeOK' /\ ClaimsAhead' /\ CallerProgress'
    BY DEF vars, TypeOK, ClaimsAhead, Window, CallerProgress
<1>2. NothingLost'
    BY SameWorking DEF vars
<1>3. QED
    BY <1>1, <1>2

LEMMA NextKeeps == IndInv /\ [Next]_vars => IndInv'
<1> SUFFICES ASSUME IndInv, [Next]_vars PROVE IndInv'
    OBVIOUS
<1>1. CASE UNCHANGED vars
    BY <1>1, StutterKeeps
<1>2. CASE \E w \in Worker : WorkerStep(w)
    BY <1>2, ClaimKeeps, DeliverKeeps, WorkerMoveKeeps DEF WorkerStep
<1>3. CASE CallerStep
    BY <1>3, TakeKeeps, CallerMoveKeeps DEF CallerStep
<1>4. QED
    BY <1>1, <1>2, <1>3 DEF Next, Returned

\* The inductive invariant holds of every execution of map_ordered.
THEOREM Inductive == Spec => []IndInv
BY InitIndInv, NextKeeps, PTL DEF Spec

\* Each claimed item is with exactly one worker or ready until it is taken.
THEOREM NoItemLost == Spec => []NothingLost
BY Inductive, PTL DEF IndInv

\* Finished and running results together never exceed the window.
THEOREM BacklogWithinWindow == Spec => []BacklogBounded
<1>1. IndInv => BacklogBounded
  <2> SUFFICES ASSUME IndInv PROVE BacklogBounded
      OBVIOUS
  <2>1. ready \cup Claimed = merged + 1 .. next
      BY DEF IndInv, NothingLost
  <2>2. merged \in Nat /\ next \in Nat /\ merged <= next /\ next <= merged + Window
      BY NAssumption DEF IndInv, TypeOK, ClaimsAhead
  <2>3. merged + 1 \in Int /\ next \in Int
      BY <2>2
  <2>4. Cardinality(merged + 1 .. next) = IF merged + 1 > next THEN 0 ELSE next - (merged + 1) + 1
      BY <2>3, FS_Interval
  <2>5. Cardinality(merged + 1 .. next) <= Window
      BY <2>2, <2>4, WindowType
  <2>6. QED
      BY <2>1, <2>5 DEF BacklogBounded
<1>2. QED
    BY Inductive, <1>1, PTL

\* One step of map_ordered is one step of the serial loop, or none of it.
LEMMA StepImplements ==
    IndInv /\ [Next]_vars => [Serial!MergeOne \/ Serial!Fail \/ Serial!Finish]_(Serial!svars)
<1> SUFFICES ASSUME IndInv, Next, ~UNCHANGED Serial!svars
             PROVE  Serial!MergeOne \/ Serial!Fail \/ Serial!Finish
    BY DEF vars, Serial!svars
<1>1. Merge \/ MergeFails \/ AllMerged
    BY DEF Next, WorkerStep, CallerStep, Returned, Claim, Wait, Leave, Deliver, NotifyFinished, Take,
           WaitFinished, NotifyClaimable, Stop, Join, closures, vars, Serial!svars
<1>2. merged \in 0 .. N /\ done \in 0 .. N /\ N \in Nat
    BY NAssumption DEF IndInv, TypeOK
<1>3. CASE Merge
    BY <1>2, <1>3 DEF IndInv, CallerProgress, Merge, closures, Serial!MergeOne
<1>4. CASE MergeFails
  <2>1. merged = done + 1 /\ result = None /\ done < N
      BY <1>2, <1>4 DEF IndInv, CallerProgress, MergeFails
  <2>2. QED
      BY <1>4, <2>1 DEF MergeFails, Decide, closures, Serial!Fail
<1>5. CASE AllMerged
    BY <1>2, <1>5 DEF IndInv, CallerProgress, AllMerged, Decide, closures, Serial!Finish
<1>6. QED
    BY <1>1, <1>3, <1>4, <1>5

\* Merging in parallel is indistinguishable from the serial loop, in the order of
\* the merges and in the failure that is returned or resumed.
THEOREM Refines == Spec => ImplementsSerial
<1>1. Init => Serial!SerialInit
    BY DEF Init, Serial!SerialInit, Item, Effect, Serial!Item, Serial!Effect
<1>2. QED
    BY Inductive, StepImplements, <1>1, PTL DEF Spec, ImplementsSerial, Serial!SerialSpec

\* The window of results stays bounded and holds every claimed item exactly once.
THEOREM BacklogIsSound == Spec => []BacklogSound
<1>1. IndInv => TypeOK
    BY DEF IndInv
<1>2. QED
    BY <1>1, Inductive, NoItemLost, BacklogWithinWindow, PTL DEF BacklogSound

-----------------------------------------------------------------------------
\* A relation puts any two elements of a set in an order.
Orders(R, S) ==
    /\ \A x \in S : <<x, x>> \notin R
    /\ \A x, y, z \in S : <<x, y>> \in R /\ <<y, z>> \in R => <<x, z>> \in R
    /\ \A x, y \in S : x = y \/ <<x, y>> \in R \/ <<y, x>> \in R

LEMMA IndexesFinite ==
    ASSUME NEW n \in Nat
    PROVE  IsFiniteSet(1 .. n) /\ Cardinality(1 .. n) = n /\ IsFiniteSet(0 .. n)
BY FS_Interval

\* Sorted lists each element of a finite set once.
LEMMA SortedLists ==
    ASSUME NEW S, IsFiniteSet(S), NEW R, Orders(R, S)
    PROVE  /\ Cardinality(S) \in Nat
           /\ Sorted(S, R) \in [1 .. Cardinality(S) -> S]
           /\ \A x \in S : \E i \in 1 .. Cardinality(S) : Sorted(S, R)[i] = x
           /\ \A i, j \in 1 .. Cardinality(S) : i < j => <<Sorted(S, R)[i], Sorted(S, R)[j]>> \in R
           /\ IsInjective(Sorted(S, R))
<1> DEFINE size == Cardinality(S)
           below(x) == {y \in S : <<y, x>> \in R}
           rank == [x \in S |-> Cardinality(below(x)) + 1]
           s == Sorted(S, R)
<1>1. size \in Nat
    BY FS_CardinalityType
<1> HIDE DEF size
<1>2. ASSUME NEW x \in S PROVE rank[x] = Cardinality(below(x)) + 1 /\ IsFiniteSet(below(x)) /\ rank[x] \in 1 .. size
    <2>1. below(x) \in SUBSET S /\ below(x) # S
        BY DEF Orders
    <2> DEFINE B == below(x)
    <2> HIDE DEF below
    <2>2. IsFiniteSet(B) /\ Cardinality(B) <= size /\ (size = Cardinality(B) => S = B)
        BY <2>1, FS_Subset DEF size
    <2>3. Cardinality(B) \in Nat
        BY <2>2, FS_CardinalityType
    <2>4. QED  BY <1>1, <2>1, <2>2, <2>3
<1>3. ASSUME NEW x \in S, NEW y \in S, <<y, x>> \in R PROVE rank[y] < rank[x]
    <2>1. below(y) \in SUBSET below(x) /\ y \in below(x) /\ y \notin below(y)
        BY <1>3 DEF Orders
    <2> DEFINE B == below(x)
               C == below(y)
    <2> HIDE DEF below
    <2>2. Cardinality(C) <= Cardinality(B) /\ (Cardinality(B) = Cardinality(C) => B = C)
        BY <1>2, <2>1, FS_Subset
    <2>3. Cardinality(B) \in Nat /\ Cardinality(C) \in Nat
        BY <1>2, FS_CardinalityType
    <2>4. QED  BY <1>2, <2>1, <2>2, <2>3
<1>4. rank \in [S -> 1 .. size]
    BY <1>2
<1>5. s = [i \in 1 .. size |-> CHOOSE x \in S : Cardinality(below(x)) = i - 1]
    BY DEF Sorted, size
<1>6. \A x \in S : Cardinality(below(x)) = rank[x] - 1
    BY <1>1, <1>2, FS_CardinalityType
<1> HIDE DEF rank, below, s
<1>7. ASSUME NEW x \in S, NEW y \in S, rank[x] = rank[y] PROVE x = y
    <2>1. ~(rank[x] < rank[y]) /\ ~(rank[y] < rank[x])
        BY <1>1, <1>4, <1>7
    <2>2. QED  BY <1>3, <2>1 DEF Orders
<1>8. rank \in Injection(S, 1 .. size)
    BY <1>4, <1>7 DEF Injection, IsInjective
<1>9. rank \in Surjection(S, 1 .. size)
    <2>1. IsFiniteSet(1 .. size) /\ Cardinality(1 .. size) = size
        BY <1>1, FS_Interval
    <2>2. QED  BY <1>8, <2>1, FS_Injection DEF size
<1>10. \A i \in 1 .. size : \E x \in S : rank[x] = i
    BY <1>9 DEF Surjection
<1>11. ASSUME NEW i \in 1 .. size PROVE s[i] \in S /\ rank[s[i]] = i
    <2>1. PICK x \in S : rank[x] = i
        BY <1>10
    <2>2. s[i] \in S /\ Cardinality(below(s[i])) = i - 1
        BY <1>5, <1>6, <2>1
    <2>3. QED  BY <1>1, <1>4, <1>6, <2>2
<1>12. s \in [1 .. size -> S]
    BY <1>5, <1>11
<1>13. ASSUME NEW x \in S PROVE \E i \in 1 .. size : s[i] = x
    <2>1. rank[x] \in 1 .. size
        BY <1>4
    <2>2. s[rank[x]] \in S /\ rank[s[rank[x]]] = rank[x]
        BY <1>11, <2>1
    <2>3. s[rank[x]] = x
        BY <1>7, <2>2
    <2>4. QED  BY <2>1, <2>3
<1>14. ASSUME NEW i \in 1 .. size, NEW j \in 1 .. size, i < j PROVE <<s[i], s[j]>> \in R
    <2>1. s[i] \in S /\ s[j] \in S /\ rank[s[i]] = i /\ rank[s[j]] = j
        BY <1>11
    <2>2. s[i] # s[j] /\ ~(<<s[j], s[i]>> \in R)
        BY <1>1, <1>3, <1>14, <2>1
    <2>3. QED  BY <2>1, <2>2 DEF Orders
<1>15. IsInjective(s)
    <2>1. DOMAIN s = 1 .. size
        BY <1>12
    <2>2. \A i, j \in 1 .. size : s[i] = s[j] => i = j
        BY <1>11
    <2>3. QED  BY <2>1, <2>2 DEF IsInjective
<1>16. QED  BY <1>1, <1>12, <1>13, <1>14, <1>15 DEF size, s

-----------------------------------------------------------------------------
(* Sequences as sets. *)

LEMMA SetOfSeq ==
    ASSUME NEW T, NEW s \in Seq(T)
    PROVE  /\ ToSet(s) \subseteq T
           /\ \A i \in 1 .. Len(s) : s[i] \in ToSet(s)
           /\ \A x \in ToSet(s) : \E i \in 1 .. Len(s) : s[i] = x
           /\ s = <<>> <=> ToSet(s) = {}
BY DEF ToSet

LEMMA SetOfConcat ==
    ASSUME NEW T, NEW s \in Seq(T), NEW t \in Seq(T)
    PROVE  s \o t \in Seq(T) /\ ToSet(s \o t) = ToSet(s) \cup ToSet(t)
<1>1. s \o t \in Seq(T) /\ Len(s \o t) = Len(s) + Len(t)
    OBVIOUS
<1>2. \A i \in 1 .. Len(s \o t) : (s \o t)[i] = IF i <= Len(s) THEN s[i] ELSE t[i - Len(s)]
    OBVIOUS
<1>3. \A i \in 1 .. Len(s) : (s \o t)[i] = s[i] /\ i \in 1 .. Len(s \o t)
    BY <1>1, <1>2
<1>4. \A i \in 1 .. Len(t) : (s \o t)[i + Len(s)] = t[i] /\ i + Len(s) \in 1 .. Len(s \o t)
    BY <1>1, <1>2
<1>5. \A i \in 1 .. Len(s \o t) : i \in 1 .. Len(s) \/ i - Len(s) \in 1 .. Len(t)
    BY <1>1
<1>6. ASSUME NEW x \in ToSet(s \o t) PROVE x \in ToSet(s) \cup ToSet(t)
    <2>1. PICK i \in 1 .. Len(s \o t) : (s \o t)[i] = x
        BY <1>1, <1>6, SetOfSeq
    <2>2. CASE i <= Len(s)
        <3>1. s[i] = x /\ i \in 1 .. Len(s)
            BY <1>2, <2>1, <2>2
        <3>2. QED  BY <3>1, SetOfSeq
    <2>3. CASE ~(i <= Len(s))
        <3>1. t[i - Len(s)] = x /\ i - Len(s) \in 1 .. Len(t)
            BY <1>2, <1>5, <2>1, <2>3
        <3>2. QED  BY <3>1, SetOfSeq
    <2>4. QED  BY <2>2, <2>3
<1>7. ASSUME NEW x \in ToSet(s) \cup ToSet(t) PROVE x \in ToSet(s \o t)
    <2>1. CASE x \in ToSet(s)
        <3>1. PICK i \in 1 .. Len(s) : s[i] = x
            BY <2>1, SetOfSeq
        <3>2. (s \o t)[i] = x /\ i \in 1 .. Len(s \o t)
            BY <3>1, <1>3
        <3>3. QED  BY <3>2, <1>1, SetOfSeq
    <2>2. CASE x \in ToSet(t)
        <3>1. PICK i \in 1 .. Len(t) : t[i] = x
            BY <2>2, SetOfSeq
        <3>2. (s \o t)[i + Len(s)] = x /\ i + Len(s) \in 1 .. Len(s \o t)
            BY <3>1, <1>4
        <3>3. QED  BY <3>2, <1>1, SetOfSeq
    <2>3. QED  BY <1>7, <2>1, <2>2
<1>8. QED  BY <1>1, <1>6, <1>7

LEMMA InjectiveConcat ==
    ASSUME NEW T, NEW s \in Seq(T), NEW t \in Seq(T), IsInjective(s), IsInjective(t), ToSet(s) \cap ToSet(t) = {}
    PROVE  IsInjective(s \o t)
<1>1. DOMAIN (s \o t) = 1 .. Len(s) + Len(t) /\ Len(s) \in Nat /\ Len(t) \in Nat
    OBVIOUS
<1>2. \A i \in 1 .. Len(s) + Len(t) : (s \o t)[i] = IF i <= Len(s) THEN s[i] ELSE t[i - Len(s)]
    OBVIOUS
<1>3. \A i \in 1 .. Len(s) : s[i] \in ToSet(s)
    BY SetOfSeq
<1>4. \A i \in 1 .. Len(t) : t[i] \in ToSet(t)
    BY SetOfSeq
<1>5. \A i, j \in 1 .. Len(s) : s[i] = s[j] => i = j
    BY DEF IsInjective
<1>6. \A i, j \in 1 .. Len(t) : t[i] = t[j] => i = j
    BY DEF IsInjective
<1>7. ASSUME NEW i \in 1 .. Len(s) + Len(t), NEW j \in 1 .. Len(s) + Len(t), (s \o t)[i] = (s \o t)[j] PROVE i = j
    <2>1. (i <= Len(s) => i \in 1 .. Len(s)) /\ (j <= Len(s) => j \in 1 .. Len(s))
          /\ (~(i <= Len(s)) => i - Len(s) \in 1 .. Len(t)) /\ (~(j <= Len(s)) => j - Len(s) \in 1 .. Len(t))
        BY <1>1
    <2>2. CASE i <= Len(s) /\ j <= Len(s)
        BY <1>2, <1>5, <1>7, <2>1, <2>2
    <2>3. CASE i <= Len(s) /\ ~(j <= Len(s))
        BY <1>2, <1>3, <1>4, <1>7, <2>1, <2>3
    <2>4. CASE ~(i <= Len(s)) /\ j <= Len(s)
        BY <1>2, <1>3, <1>4, <1>7, <2>1, <2>4
    <2>5. CASE ~(i <= Len(s)) /\ ~(j <= Len(s))
        <3>1. t[i - Len(s)] = t[j - Len(s)]
            BY <1>2, <1>7, <2>5
        <3>2. i - Len(s) = j - Len(s)
            BY <1>6, <2>1, <2>5, <3>1
        <3>3. QED  BY <1>1, <3>2
    <2>6. QED  BY <2>2, <2>3, <2>4, <2>5
<1>8. QED  BY <1>1, <1>7 DEF IsInjective

\* An injective sequence is as long as its set is large.
LEMMA InjectiveCounts ==
    ASSUME NEW T, NEW s \in Seq(T)
    PROVE  /\ IsFiniteSet(ToSet(s)) /\ Cardinality(ToSet(s)) \in Nat
           /\ IsInjective(s) <=> Len(s) = Cardinality(ToSet(s))
<1>1. IsFiniteSet(1 .. Len(s)) /\ Cardinality(1 .. Len(s)) = Len(s)
    <2>1. Len(s) \in Nat
        OBVIOUS
    <2>2. QED  BY <2>1, IndexesFinite
<1>2. s \in [1 .. Len(s) -> ToSet(s)]
    BY SetOfSeq
<1>3. s \in Surjection(1 .. Len(s), ToSet(s))
    BY <1>2, SetOfSeq DEF Surjection
<1>4. IsFiniteSet(ToSet(s)) /\ (Cardinality(ToSet(s)) = Cardinality(1 .. Len(s)) <=> s \in Injection(1 .. Len(s), ToSet(s)))
    BY <1>1, <1>3, FS_Surjection
<1>5. s \in Injection(1 .. Len(s), ToSet(s)) <=> IsInjective(s)
    BY <1>2 DEF Injection
<1>6. QED  BY <1>1, <1>4, <1>5, FS_CardinalityType

LEMMA SetOfReverse ==
    ASSUME NEW T, NEW s \in Seq(T)
    PROVE  Reverse(s) \in Seq(T) /\ ToSet(Reverse(s)) = ToSet(s)
<1> DEFINE r == [i \in 1 .. Len(s) |-> s[(Len(s) - i) + 1]]
<1>1. Reverse(s) = r
    BY DEF Reverse
<1>2. \A i \in 1 .. Len(s) : (Len(s) - i) + 1 \in 1 .. Len(s) /\ (Len(s) - ((Len(s) - i) + 1)) + 1 = i
    OBVIOUS
<1>3. \A i \in 1 .. Len(s) : r[i] = s[(Len(s) - i) + 1] /\ r[i] \in T
    BY <1>2
<1>4. r \in Seq(T) /\ Len(r) = Len(s)
    BY <1>3
<1> HIDE DEF r
<1>5. \A i \in 1 .. Len(s) : s[i] = r[(Len(s) - i) + 1]
    BY <1>2, <1>3
<1>6. ToSet(r) = ToSet(s)
    <2>1. ASSUME NEW x \in ToSet(r) PROVE x \in ToSet(s)
        <3>1. PICK i \in 1 .. Len(s) : r[i] = x
            BY <1>4, <2>1 DEF ToSet
        <3>2. s[(Len(s) - i) + 1] = x /\ (Len(s) - i) + 1 \in 1 .. Len(s)
            BY <1>2, <1>3, <3>1
        <3>3. QED  BY <3>2, SetOfSeq
    <2>2. ASSUME NEW x \in ToSet(s) PROVE x \in ToSet(r)
        BY <1>2, <1>4, <1>5 DEF ToSet
    <2>3. QED  BY <2>1, <2>2
<1>7. QED  BY <1>1, <1>4, <1>6

LEMMA FrontAndLast ==
    ASSUME NEW T, NEW s \in Seq(T), s # <<>>
    PROVE  /\ Front(s) \in Seq(T) /\ Last(s) \in T
           /\ ToSet(s) = ToSet(Front(s)) \cup {Last(s)}
<1>1. Len(s) \in Nat /\ Len(s) >= 1
    OBVIOUS
<1> DEFINE f == SubSeq(s, 1, Len(s) - 1)
<1>2. f \in Seq(T) /\ Len(f) = Len(s) - 1 /\ \A i \in 1 .. Len(s) - 1 : f[i] = s[i]
    BY <1>1
<1>3. Front(s) = f /\ Last(s) = s[Len(s)]
    BY DEF Front, Last
<1> HIDE DEF f
<1>4. \A i \in 1 .. Len(s) : i \in 1 .. Len(f) \/ i = Len(s)
    BY <1>1, <1>2
<1>5. s[Len(s)] \in T /\ Len(s) \in 1 .. Len(s)
    BY <1>1
<1>6. ASSUME NEW x \in ToSet(s) PROVE x \in ToSet(f) \cup {s[Len(s)]}
    BY <1>2, <1>4, SetOfSeq
<1>7. ASSUME NEW x \in ToSet(f) PROVE x \in ToSet(s)
    <2>1. PICK i \in 1 .. Len(f) : f[i] = x
        BY <1>2, <1>7, SetOfSeq
    <2>2. s[i] = x /\ i \in 1 .. Len(s)
        BY <1>1, <1>2, <2>1
    <2>3. QED  BY <2>2, SetOfSeq
<1>8. s[Len(s)] \in ToSet(s)
    BY <1>5, SetOfSeq
<1>9. QED  BY <1>2, <1>3, <1>5, <1>6, <1>7, <1>8

LEMMA InIdOrderLists ==
    ASSUME NEW P \in SUBSET Int, IsFiniteSet(P)
    PROVE  /\ Cardinality(P) \in Nat
           /\ InIdOrder(P) \in Seq(P) /\ DOMAIN InIdOrder(P) = 1 .. Cardinality(P)
           /\ ToSet(InIdOrder(P)) = P /\ IsInjective(InIdOrder(P))
<1> DEFINE R == {p \in P \X P : p[1] < p[2]}
<1>1. \A x, y \in P : <<x, y>> \in R <=> x < y
    OBVIOUS
<1> HIDE DEF R
<1>2. Orders(R, P)
    BY <1>1 DEF Orders
<1>3. InIdOrder(P) = Sorted(P, R)
    BY DEF InIdOrder, R
<1>4. /\ Cardinality(P) \in Nat
      /\ InIdOrder(P) \in [1 .. Cardinality(P) -> P]
      /\ \A x \in P : \E i \in 1 .. Cardinality(P) : InIdOrder(P)[i] = x
      /\ IsInjective(InIdOrder(P))
    BY <1>2, <1>3, SortedLists
<1>5. ToSet(InIdOrder(P)) = P
    BY <1>4 DEF ToSet
<1>6. QED  BY <1>4, <1>5

LEMMA PickedLists ==
    ASSUME NEW T, NEW s \in Seq(T), NEW P \in SUBSET (1 .. Len(s))
    PROVE  /\ Picked(s, P) \in Seq(T)
           /\ ToSet(Picked(s, P)) = {s[i] : i \in P}
           /\ (\A i, j \in P : s[i] = s[j] => i = j) => IsInjective(Picked(s, P))
<1> DEFINE picks == InIdOrder(P)
<1>1. IsFiniteSet(P)
    <2>1. Len(s) \in Nat /\ IsFiniteSet(1 .. Len(s))
        BY FS_Interval
    <2>2. QED  BY <2>1, FS_Subset
<1>2. Cardinality(P) \in Nat /\ picks \in Seq(P) /\ DOMAIN picks = 1 .. Cardinality(P) /\ ToSet(picks) = P /\ IsInjective(picks)
    BY <1>1, InIdOrderLists
<1>3. Picked(s, P) = [i \in DOMAIN picks |-> s[picks[i]]]
    BY DEF Picked
<1> HIDE DEF picks
<1>4. \A i \in DOMAIN picks : picks[i] \in P /\ s[picks[i]] \in T
    <2>1. \A i \in DOMAIN picks : picks[i] \in P
        BY <1>2 DEF ToSet
    <2>2. \A i \in P : s[i] \in T
        OBVIOUS
    <2>3. QED  BY <2>1, <2>2
<1>5. Picked(s, P) \in Seq(T) /\ DOMAIN Picked(s, P) = DOMAIN picks
    BY <1>2, <1>3, <1>4
<1>6. ToSet(Picked(s, P)) = {s[picks[i]] : i \in DOMAIN picks}
    BY <1>3, <1>5 DEF ToSet
<1>7. P = {picks[i] : i \in DOMAIN picks}
    BY <1>2 DEF ToSet
<1>8. {s[picks[i]] : i \in DOMAIN picks} = {s[i] : i \in P}
    BY <1>7
<1>9. ASSUME \A i, j \in P : s[i] = s[j] => i = j PROVE IsInjective(Picked(s, P))
    <2>1. ASSUME NEW i \in DOMAIN picks, NEW j \in DOMAIN picks, s[picks[i]] = s[picks[j]] PROVE i = j
        BY <1>2, <1>4, <1>9, <2>1 DEF IsInjective
    <2>2. QED  BY <1>3, <1>5, <2>1 DEF IsInjective
<1>10. QED  BY <1>5, <1>6, <1>8, <1>9

LEMMA FiniteImage ==
    ASSUME NEW A, IsFiniteSet(A), NEW f, f = [x \in A |-> f[x]]
    PROVE  IsFiniteSet({f[x] : x \in A})
<1>1. f \in Surjection(A, {f[x] : x \in A})
    BY DEF Surjection
<1>2. QED  BY <1>1, FS_Surjection

Labels == {"CALLS", "DEPENDS_ON", "ENTRY", "FETCHES", "HANDLES", "PUBLISHES", "RENDERS", "SUBSCRIBES", "DEFINED_IN"}

LEMMA RankOrders ==
    /\ \A l \in Labels : Rank(l) \in Nat
    /\ \A l, m \in Labels : Rank(l) = Rank(m) => l = m
<1>1. LabelOrder \in Seq(Labels) /\ DOMAIN LabelOrder = 1 .. 9
    BY DEF LabelOrder, Labels
<1>2. \A l \in Labels : \E i \in DOMAIN LabelOrder : LabelOrder[i] = l
    <2>1. /\ LabelOrder[1] = "CALLS" /\ LabelOrder[2] = "DEPENDS_ON" /\ LabelOrder[3] = "ENTRY" /\ LabelOrder[4] = "FETCHES"
          /\ LabelOrder[5] = "HANDLES" /\ LabelOrder[6] = "PUBLISHES" /\ LabelOrder[7] = "RENDERS" /\ LabelOrder[8] = "SUBSCRIBES"
          /\ LabelOrder[9] = "DEFINED_IN"
        BY DEF LabelOrder
    <2>2. QED  BY <1>1, <2>1 DEF Labels
<1>3. \A l \in Labels : Rank(l) \in DOMAIN LabelOrder /\ LabelOrder[Rank(l)] = l
    BY <1>2 DEF Rank
<1>4. QED  BY <1>1, <1>3

LEMMA OutgoingFits ==
    ASSUME NEW g, SliceFits(g), NEW id
    PROVE  /\ IsFiniteSet(Outgoing(g, id))
           /\ \A o \in Outgoing(g, id) :
                 /\ o = [hop |-> o.hop, guess |-> o.guess] /\ o.guess \in BOOLEAN
                 /\ o.hop.label \in Labels /\ o.hop.src = id /\ o.hop.dst \in IdsOf(g) /\ id \in IdsOf(g)
                 /\ o.hop = [label |-> o.hop.label, src |-> id, dst |-> o.hop.dst, conf |-> o.hop.conf]
           /\ \A o, p \in Outgoing(g, id) : Parallel(o.hop, p.hop) /\ o.guess = p.guess => o = p
<1> DEFINE out == {f \in g.edges : Walked(g, f) /\ f.src = id}
           in == {f \in g.edges : f.label \in {"SUBSCRIBES", "DEFINED_IN"} /\ f.dst = id}
           F == [e \in out |-> [hop |-> Hop(e, e.src, e.dst), guess |-> e.guess]]
           B == [e \in in |-> [hop |-> Hop(e, e.dst, e.src), guess |-> e.guess]]
<1>1. Outgoing(g, id) = {F[e] : e \in out} \cup {B[e] : e \in in}
    BY DEF Outgoing
<1>2. out \in SUBSET g.edges /\ in \in SUBSET g.edges /\ IsFiniteSet(g.edges)
    BY DEF SliceFits
<1>3. IsFiniteSet(out) /\ IsFiniteSet(in)
    BY <1>2, FS_Subset
<1>4. \A e \in out : e.label \in Labels \ {"SUBSCRIBES", "DEFINED_IN"}
    BY DEF Walked, Labels
<1>5. \A e \in in : e.label \in {"SUBSCRIBES", "DEFINED_IN"}
    OBVIOUS
<1>6. \A e \in out \cup in : e.src \in IdsOf(g) /\ e.dst \in IdsOf(g) /\ e.guess \in BOOLEAN
    BY <1>2 DEF SliceFits, IdsOf
<1>7. \A e \in out : e.src = id
    OBVIOUS
<1>8. \A e \in in : e.dst = id
    OBVIOUS
<1>9. F = [e \in out |-> F[e]] /\ B = [e \in in |-> B[e]]
    OBVIOUS
<1>10. \A e \in out : F[e] = [hop |-> [label |-> e.label, src |-> id, dst |-> e.dst, conf |-> Confidence(e)], guess |-> e.guess]
    BY <1>7 DEF Hop
<1>11. \A e \in in : B[e] = [hop |-> [label |-> e.label, src |-> id, dst |-> e.src, conf |-> Confidence(e)], guess |-> e.guess]
    BY <1>8 DEF Hop
<1>17. ASSUME NEW e \in out PROVE F[e].hop.label = e.label /\ F[e].hop.dst = e.dst /\ F[e].guess = e.guess
    BY <1>7 DEF Hop
<1>18. ASSUME NEW e \in in PROVE B[e].hop.label = e.label /\ B[e].hop.dst = e.src /\ B[e].guess = e.guess
    BY <1>8 DEF Hop
<1>12. \A e, f \in g.edges : e.label = f.label /\ e.src = f.src /\ e.dst = f.dst /\ e.guess = f.guess => e = f
    BY DEF SliceFits, Parallel
<1> HIDE DEF out, in, F, B
<1>13. IsFiniteSet(Outgoing(g, id))
    <2>1. IsFiniteSet({F[e] : e \in out})
        BY <1>3, <1>9, FiniteImage
    <2>2. IsFiniteSet({B[e] : e \in in})
        BY <1>3, <1>9, FiniteImage
    <2>3. QED  BY <1>1, <2>1, <2>2, FS_Union
<1>14. ASSUME NEW o \in Outgoing(g, id)
       PROVE  /\ o = [hop |-> o.hop, guess |-> o.guess] /\ o.guess \in BOOLEAN
              /\ o.hop.label \in Labels /\ o.hop.src = id /\ o.hop.dst \in IdsOf(g) /\ id \in IdsOf(g)
              /\ o.hop = [label |-> o.hop.label, src |-> id, dst |-> o.hop.dst, conf |-> o.hop.conf]
    <2>1. CASE \E e \in out : o = F[e]
        <3>1. PICK e \in out : o = F[e]
            BY <2>1
        <3>2. o = [hop |-> [label |-> e.label, src |-> id, dst |-> e.dst, conf |-> Confidence(e)], guess |-> e.guess]
            BY <1>10, <3>1
        <3>3. QED  BY <3>2, <1>4, <1>6, <1>7
    <2>2. CASE \E e \in in : o = B[e]
        <3>1. PICK e \in in : o = B[e]
            BY <2>2
        <3>2. o = [hop |-> [label |-> e.label, src |-> id, dst |-> e.src, conf |-> Confidence(e)], guess |-> e.guess]
            BY <1>11, <3>1
        <3>3. e.label \in Labels
            BY <1>5 DEF Labels
        <3>4. QED  BY <3>2, <3>3, <1>6, <1>8
    <2>3. QED  BY <1>1, <2>1, <2>2
<1>15. ASSUME NEW o \in Outgoing(g, id), NEW p \in Outgoing(g, id), Parallel(o.hop, p.hop), o.guess = p.guess
       PROVE  o = p
    <2>1. o.hop.label = p.hop.label /\ o.hop.dst = p.hop.dst
        BY <1>15 DEF Parallel
    <2>2. CASE \E e \in out : o = F[e]
        <3>1. PICK e \in out : o = F[e]
            BY <2>2
        <3>2. o.hop.label = e.label /\ o.hop.dst = e.dst /\ o.guess = e.guess
            BY <1>17, <3>1
        <3>3. ASSUME NEW f \in in, p = B[f] PROVE FALSE
            <4>1. p.hop.label = f.label
                BY <1>18, <3>3
            <4>2. QED  BY <1>4, <1>5, <2>1, <3>2, <4>1
        <3>4. PICK f \in out : p = F[f]
            BY <1>1, <3>3
        <3>5. p.hop.label = f.label /\ p.hop.dst = f.dst /\ p.guess = f.guess
            BY <1>17, <3>4
        <3>6. e = f
            BY <1>2, <1>7, <1>12, <1>15, <2>1, <3>2, <3>5
        <3>7. QED  BY <3>1, <3>4, <3>6
    <2>3. CASE \E e \in in : o = B[e]
        <3>1. PICK e \in in : o = B[e]
            BY <2>3
        <3>2. o.hop.label = e.label /\ o.hop.dst = e.src /\ o.guess = e.guess
            BY <1>18, <3>1
        <3>3. ASSUME NEW f \in out, p = F[f] PROVE FALSE
            <4>1. p.hop.label = f.label
                BY <1>17, <3>3
            <4>2. QED  BY <1>4, <1>5, <2>1, <3>2, <4>1
        <3>4. PICK f \in in : p = B[f]
            BY <1>1, <3>3
        <3>5. p.hop.label = f.label /\ p.hop.dst = f.src /\ p.guess = f.guess
            BY <1>18, <3>4
        <3>6. e = f
            BY <1>2, <1>8, <1>12, <1>15, <2>1, <3>2, <3>5
        <3>7. QED  BY <3>1, <3>4, <3>6
    <2>4. QED  BY <1>1, <2>2, <2>3
<1>16. QED  BY <1>13, <1>14, <1>15

ListsOnward(g, id, s) ==
    /\ Len(s) = Len(Onward(g, id)) /\ Onward(g, id) = [i \in 1 .. Len(s) |-> s[i].hop]
    /\ \A o \in Outgoing(g, id) : \E i \in 1 .. Len(s) : s[i] = o
    /\ \A i, j \in 1 .. Len(s) : s[i] = s[j] => i = j
    /\ \A i, j \in 1 .. Len(s) : Parallel(s[i].hop, s[j].hop) /\ ~s[i].guess /\ s[j].guess => i < j

\* The hops of a node, in order: of two parallel ones the stored one is first.
LEMMA OnwardLists ==
    ASSUME NEW g, SliceFits(g), NEW id
    PROVE  \E s \in Seq(Outgoing(g, id)) : ListsOnward(g, id, s)
<1> DEFINE all == Outgoing(g, id)
           R == {p \in all \X all : Before(p[1], p[2])}
           s == Sorted(all, R)
           size == Cardinality(all)
<1>1. \A a, b \in all : <<a, b>> \in R <=> Before(a, b)
    OBVIOUS
<1>2. /\ IsFiniteSet(all)
      /\ \A o \in all : o.guess \in BOOLEAN /\ o.hop.label \in Labels /\ o.hop.dst \in Int /\ o.hop.src = id
      /\ \A o, p \in all : Parallel(o.hop, p.hop) /\ o.guess = p.guess => o = p
    BY OutgoingFits DEF SliceFits
<1> HIDE DEF all
<1>3. Orders(R, all)
    <2>1. \A x \in all : ~Before(x, x)
        BY <1>2, RankOrders DEF Before
    <2>2. ASSUME NEW x \in all, NEW y \in all, NEW z \in all, Before(x, y), Before(y, z) PROVE Before(x, z)
        BY <1>2, <2>2, RankOrders DEF Before
    <2>3. ASSUME NEW x \in all, NEW y \in all, x # y PROVE Before(x, y) \/ Before(y, x)
        <3>1. ~(x.hop.label = y.hop.label /\ x.hop.dst = y.hop.dst /\ x.guess = y.guess)
            BY <1>2, <2>3 DEF Parallel
        <3>2. QED  BY <1>2, <3>1, RankOrders DEF Before
    <2> HIDE DEF R
    <2>4. QED  BY <1>1, <2>1, <2>2, <2>3 DEF Orders
<1>4. Onward(g, id) = [i \in DOMAIN s |-> s[i].hop]
    BY DEF Onward, all
<1> HIDE DEF R, s, size
<1>5. /\ size \in Nat /\ s \in [1 .. size -> all]
      /\ \A x \in all : \E i \in 1 .. size : s[i] = x
      /\ \A i, j \in 1 .. size : i < j => <<s[i], s[j]>> \in R
      /\ IsInjective(s)
    <2>1. IsFiniteSet(all)
        BY <1>2
    <2>2. QED  BY <1>3, <2>1, SortedLists DEF s, size
<1>6. s \in Seq(all) /\ Len(s) = size /\ DOMAIN s = 1 .. size
    BY <1>5
<1>7. Len(Onward(g, id)) = size
    BY <1>4, <1>5
<1>8. \A i, j \in 1 .. size : s[i] = s[j] => i = j
    BY <1>6, <1>5 DEF IsInjective
<1>9. ASSUME NEW i \in 1 .. size, NEW j \in 1 .. size, Parallel(s[i].hop, s[j].hop), ~s[i].guess, s[j].guess PROVE i < j
    <2>1. s[i] \in all /\ s[j] \in all
        BY <1>5
    <2>2. Before(s[i], s[j]) /\ ~Before(s[j], s[i])
        BY <1>2, <1>9, <2>1, RankOrders DEF Before, Parallel
    <2>3. i # j /\ ~(j < i)
        BY <1>1, <1>5, <1>9, <2>1, <2>2
    <2>4. QED  BY <1>5, <2>3
<1>10. QED  BY <1>4, <1>5, <1>6, <1>7, <1>8, <1>9 DEF all, ListsOnward

\* What a node leads to starts at it.
LEMMA LeadsFit ==
    ASSUME NEW g, SliceFits(g), NEW id
    PROVE  /\ \A h \in Leads(g, id) : h.src = id /\ id \in IdsOf(g) /\ h.dst \in IdsOf(g)
           /\ \A h \in Leads(g, id) : \E o \in Outgoing(g, id) : h = o.hop
           /\ id \notin NodesOf(g, {"Gap"}) => \A o \in Outgoing(g, id) : \E h \in Leads(g, id) : h.dst = o.hop.dst
<1>1. \A h \in Leads(g, id) : \E o \in Outgoing(g, id) : h = o.hop
    BY DEF Leads
<1>2. ASSUME id \notin NodesOf(g, {"Gap"}), NEW o \in Outgoing(g, id) PROVE \E h \in Leads(g, id) : h.dst = o.hop.dst
    <2>1. CASE o.guess => \A p \in Outgoing(g, id) : Parallel(p.hop, o.hop) => p.guess
        BY <1>2, <2>1 DEF Leads
    <2>2. CASE ~(o.guess => \A p \in Outgoing(g, id) : Parallel(p.hop, o.hop) => p.guess)
        <3>1. PICK p \in Outgoing(g, id) : Parallel(p.hop, o.hop) /\ ~p.guess
            BY <2>2
        <3>2. p.hop \in Leads(g, id) /\ p.hop.dst = o.hop.dst
            BY <1>2, <3>1 DEF Leads, Parallel
        <3>3. QED  BY <3>2
    <2>3. QED  BY <2>1, <2>2
<1>3. ASSUME NEW h \in Leads(g, id) PROVE h.src = id /\ id \in IdsOf(g) /\ h.dst \in IdsOf(g)
    <2>1. PICK o \in Outgoing(g, id) : h = o.hop
        BY <1>1
    <2>2. o.hop.src = id /\ o.hop.dst \in IdsOf(g) /\ id \in IdsOf(g)
        BY OutgoingFits
    <2>3. QED  BY <2>1, <2>2
<1>4. QED  BY <1>1, <1>2, <1>3

LEMMA ReachedFits ==
    ASSUME NEW g, SliceFits(g), NEW id \in IdsOf(g)
    PROVE  /\ id \in Reached(g, id) /\ Reached(g, id) \subseteq IdsOf(g)
           /\ \A n \in Reached(g, id) : \A h \in Leads(g, n) : h.dst \in Reached(g, id)
           /\ \A ids \in SUBSET IdsOf(g) :
                 id \in ids /\ (\A n \in ids : \A h \in Leads(g, n) : h.dst \in ids) => Reached(g, id) \subseteq ids
<1> DEFINE ends == [n \in IdsOf(g) |-> {h.dst : h \in Leads(g, n)}]
           closed == {ids \in SUBSET IdsOf(g) : id \in ids /\ \A n \in ids : ends[n] \subseteq ids}
<1>1. Reached(g, id) = {n \in IdsOf(g) : \A ids \in closed : n \in ids}
    BY DEF Reached
<1>2. \A n \in IdsOf(g) : \A h \in Leads(g, n) : h.dst \in ends[n] /\ h.dst \in IdsOf(g)
    BY LeadsFit
<1>3. \A n \in IdsOf(g) : \A m \in ends[n] : \E h \in Leads(g, n) : m = h.dst
    OBVIOUS
<1> HIDE DEF ends
<1>4. \A ids \in closed : id \in ids /\ ids \subseteq IdsOf(g) /\ \A n \in ids : ends[n] \subseteq ids
    OBVIOUS
<1>5. \A ids \in SUBSET IdsOf(g) : id \in ids /\ (\A n \in ids : ends[n] \subseteq ids) => ids \in closed
    OBVIOUS
<1> HIDE DEF closed
<1>6. ASSUME NEW n \in Reached(g, id), NEW h \in Leads(g, n) PROVE h.dst \in Reached(g, id)
    <2>1. n \in IdsOf(g) /\ h.dst \in ends[n] /\ h.dst \in IdsOf(g)
        BY <1>1, <1>2
    <2>2. ASSUME NEW ids \in closed PROVE h.dst \in ids
        BY <1>1, <1>4, <2>1
    <2>3. QED  BY <1>1, <2>1, <2>2
<1>7. ASSUME NEW ids \in SUBSET IdsOf(g), id \in ids, \A n \in ids : \A h \in Leads(g, n) : h.dst \in ids
      PROVE  Reached(g, id) \subseteq ids
    <2>1. \A n \in ids : ends[n] \subseteq ids
        BY <1>3, <1>7
    <2>2. ids \in closed
        BY <1>5, <1>7, <2>1
    <2>3. QED  BY <1>1, <2>2
<1>8. QED  BY <1>1, <1>4, <1>6, <1>7

\* Of the hops of a node that was not visited, the walk takes what the node leads to.
LEMMA TakesLeads ==
    ASSUME NEW g, SliceFits(g), NEW id, id \notin NodesOf(g, {"Gap"}), NEW T, NEW hops \in Seq(T), \A h \in ToSet(hops) : h.src # id
    PROVE  LET onward == Onward(g, id)
               taken == Picked(onward, Unseen(hops, onward))
           IN  /\ onward \in Seq({o.hop : o \in Outgoing(g, id)}) /\ taken \in Seq(Leads(g, id))
               /\ {h.dst : h \in ToSet(onward)} = {h.dst : h \in Leads(g, id)}
               /\ ToSet(taken) = Leads(g, id) /\ IsInjective(taken)
<1>0. PICK s \in Seq(Outgoing(g, id)) : ListsOnward(g, id, s)
    BY OnwardLists
<1>1. /\ Len(s) = Len(Onward(g, id)) /\ Onward(g, id) = [i \in 1 .. Len(s) |-> s[i].hop]
      /\ \A o \in Outgoing(g, id) : \E i \in 1 .. Len(s) : s[i] = o
      /\ \A i, j \in 1 .. Len(s) : s[i] = s[j] => i = j
      /\ \A i, j \in 1 .. Len(s) : Parallel(s[i].hop, s[j].hop) /\ ~s[i].guess /\ s[j].guess => i < j
    BY <1>0 DEF ListsOnward
<1> DEFINE onward == Onward(g, id)
           all == Outgoing(g, id)
           P == Unseen(hops, onward)
           taken == Picked(onward, P)
<1> DEFINE size == Len(s)
<1>2. /\ \A o \in all : o.guess \in BOOLEAN /\ o.hop.src = id
      /\ \A o, p \in all : Parallel(o.hop, p.hop) /\ o.guess = p.guess => o = p
    BY OutgoingFits
<1>3. size \in Nat /\ DOMAIN onward = 1 .. size /\ \A i \in 1 .. size : s[i] \in all /\ onward[i] = s[i].hop
    BY <1>1
<1>4. onward \in Seq({o.hop : o \in all})
    BY <1>1, <1>3
<1>5. ToSet(onward) = {o.hop : o \in all}
    <2> HIDE DEF onward, all, size
    <2>1. ASSUME NEW h \in ToSet(onward) PROVE \E o \in all : h = o.hop
        <3>1. PICK i \in 1 .. size : h = onward[i]
            BY <1>3 DEF ToSet
        <3>2. QED  BY <1>3, <3>1
    <2>2. ASSUME NEW o \in all PROVE o.hop \in ToSet(onward)
        <3>1. PICK i \in 1 .. size : s[i] = o
            BY <1>1 DEF size, all, onward
        <3>2. QED  BY <1>3, <3>1 DEF ToSet
    <2>3. QED  BY <2>1, <2>2
<1>6. \A h \in Leads(g, id) : h \in {o.hop : o \in all}
    BY LeadsFit
<1>7. {h.dst : h \in ToSet(onward)} = {h.dst : h \in Leads(g, id)}
    <2>1. \A o \in all : \E h \in Leads(g, id) : h.dst = o.hop.dst
        BY LeadsFit
    <2>2. QED  BY <1>5, <1>6, <2>1
<1>8. P = {i \in 1 .. size : \A h \in ToSet(hops) \cup {onward[j] : j \in 1 .. (i - 1)} : ~Parallel(h, onward[i])}
    BY <1>3 DEF Unseen
<1> HIDE DEF onward, all, size
<1>9. \A i \in 1 .. size, h \in ToSet(hops) : ~Parallel(h, onward[i])
    BY <1>2, <1>3 DEF Parallel
<1>10. P \subseteq 1 .. size /\ \A i \in 1 .. size : i \in P <=> \A j \in 1 .. (i - 1) : ~Parallel(onward[j], onward[i])
    BY <1>8, <1>9
<1> HIDE DEF P
<1>11. \A i, j \in P : onward[i] = onward[j] => i = j
    <2>1. ASSUME NEW i \in P, NEW j \in P, i < j PROVE onward[i] # onward[j]
        <3>1. i \in 1 .. size /\ j \in 1 .. size
            BY <1>10, <2>1
        <3>2. i \in Nat /\ j \in Nat /\ 1 <= i /\ i <= j - 1
            BY <1>3, <2>1, <3>1
        <3>3. i \in 1 .. (j - 1)
            BY <3>2
        <3>4. QED  BY <1>10, <3>3 DEF Parallel
    <2>2. \A i, j \in P : i \in Int /\ j \in Int
        BY <1>3, <1>10
    <2>3. \A i, j \in P : i < j \/ j < i \/ i = j
        BY <2>2
    <2>4. QED  BY <2>1, <2>3
<1>12. ASSUME NEW i \in P PROVE onward[i] \in Leads(g, id)
    <2>1. i \in 1 .. size /\ s[i] \in all
        BY <1>3, <1>10
    <2>2. ASSUME s[i].guess, NEW p \in all, Parallel(p.hop, s[i].hop), ~p.guess PROVE FALSE
        <3>1. PICK j \in 1 .. size : s[j] = p
            BY <1>1 DEF size, all, onward
        <3>2. j < i
            BY <1>1, <2>1, <2>2, <3>1 DEF size
        <3>3. j \in 1 .. (i - 1)
            BY <1>3, <2>1, <3>2
        <3>4. ~Parallel(s[j].hop, s[i].hop)
            BY <1>3, <1>10, <2>1, <3>3
        <3>5. QED  BY <2>2, <3>1, <3>4
    <2>3. s[i].guess => \A p \in all : Parallel(p.hop, s[i].hop) => p.guess
        BY <2>2
    <2>4. s[i].hop \in Leads(g, id)
        BY <2>1, <2>3 DEF Leads, all
    <2>5. QED  BY <1>3, <2>1, <2>4
<1>13. ASSUME NEW h \in Leads(g, id) PROVE \E i \in P : onward[i] = h
    <2>1. PICK o \in all : h = o.hop /\ (o.guess => \A p \in all : Parallel(p.hop, o.hop) => p.guess)
        BY DEF Leads, all
    <2>2. PICK i \in 1 .. size : s[i] = o
        BY <1>1 DEF size, all, onward
    <2>3. ASSUME NEW j \in 1 .. (i - 1), Parallel(onward[j], onward[i]) PROVE FALSE
        <3>1. j \in 1 .. size /\ s[j] \in all /\ j # i /\ ~(i < j)
            BY <1>3, <2>2
        <3>2. Parallel(s[j].hop, o.hop) /\ Parallel(o.hop, s[j].hop)
            BY <1>3, <2>2, <2>3, <3>1 DEF Parallel
        <3>3. s[j] # o
            BY <1>1, <2>2, <3>1 DEF size
        <3>4. s[j].guess # o.guess /\ s[j].guess \in BOOLEAN /\ o.guess \in BOOLEAN
            BY <1>2, <3>1, <3>2, <3>3
        <3>5. s[j].guess /\ ~o.guess
            BY <2>1, <3>1, <3>2, <3>4
        <3>6. i < j
            BY <1>1, <2>2, <3>1, <3>2, <3>5 DEF size
        <3>7. QED  BY <3>1, <3>6
    <2>4. QED  BY <1>3, <1>10, <2>1, <2>2, <2>3
<1>14. Len(onward) = size
    BY <1>1 DEF size, all, onward
<1>15. {onward[i] : i \in P} = Leads(g, id)
    BY <1>12, <1>13
<1>16. taken \in Seq({o.hop : o \in all}) /\ ToSet(taken) = Leads(g, id) /\ IsInjective(taken)
    <2> HIDE DEF taken
    <2>1. P \in SUBSET (1 .. Len(onward)) /\ taken = Picked(onward, P)
        BY <1>10, <1>14 DEF taken
    <2> DEFINE T2 == {o.hop : o \in all}
    <2>2. onward \in Seq(T2)
        BY <1>4
    <2> HIDE DEF T2
    <2>3. taken \in Seq(T2) /\ ToSet(taken) = {onward[i] : i \in P} /\ ((\A i, j \in P : onward[i] = onward[j] => i = j) => IsInjective(taken))
        BY <2>1, <2>2, PickedLists
    <2>4. QED  BY <1>11, <1>15, <2>3 DEF T2
<1>17. taken \in Seq(Leads(g, id))
    <2> HIDE DEF taken
    <2>1. \A i \in 1 .. Len(taken) : taken[i] \in Leads(g, id)
        BY <1>16, SetOfSeq
    <2>2. QED  BY <1>16, <2>1
<1>18. QED  BY <1>4, <1>7, <1>16, <1>17 DEF onward, P, all

\* One step of a walk keeps what is known of it.
LEMMA PopFits ==
    ASSUME SliceFits(slice), NEW w \in WalkRecords(slice), WalkFits(slice, w), w.stack # <<>>
    PROVE  Pop(w) \in WalkRecords(slice) /\ WalkFits(slice, Pop(w)) /\ Pop(w).trigger = w.trigger
<1> DEFINE E == [id : IdsOf(slice), depth : Nat]
           top == Last(w.stack)
           front == Front(w.stack)
           rest == [w EXCEPT !.stack = front]
           ids(s) == {e.id : e \in ToSet(s)}
           L(n) == Leads(slice, n)
           R == Reached(slice, w.trigger)
<1>1. /\ w.trigger \in DOMAIN slice.node /\ w.stack \in Seq(E) /\ w.visited \subseteq IdsOf(slice)
      /\ w.hops \in Seq(HopRecords(slice)) /\ w.limited \in BOOLEAN
      /\ w = [trigger |-> w.trigger, stack |-> w.stack, visited |-> w.visited, hops |-> w.hops, limited |-> w.limited]
    BY DEF WalkRecords
<1>2. /\ w.visited \cup ids(w.stack) \subseteq R
      /\ ToSet(w.hops) = UNION {L(n) : n \in w.visited}
      /\ IsInjective(w.hops)
      /\ w.limited \/ \A id \in {w.trigger} \cup {h.dst : h \in ToSet(w.hops)} : id \in w.visited \cup ids(w.stack) \/ L(id) = {}
    BY DEF WalkFits
<1>3. front \in Seq(E) /\ top \in E /\ ToSet(w.stack) = ToSet(front) \cup {top}
    BY <1>1, FrontAndLast
<1>4. /\ rest = [trigger |-> w.trigger, stack |-> front, visited |-> w.visited, hops |-> w.hops, limited |-> w.limited]
      /\ rest.trigger = w.trigger /\ rest.stack = front /\ rest.visited = w.visited /\ rest.hops = w.hops /\ rest.limited = w.limited
    BY <1>1
<1>5. top.id \in IdsOf(slice) /\ top.depth \in Nat
    BY <1>3
<1> HIDE DEF E, top, front, rest
<1>6. ids(w.stack) = ids(front) \cup {top.id}
    BY <1>3
<1>7. w.trigger \in IdsOf(slice)
    BY <1>1 DEF IdsOf
<1>8. top.id \in NodesOf(slice, {"Gap"}) => L(top.id) = {}
    BY DEF Leads
<1>9. CASE top.depth >= MAX_DEPTH
    <2>1. Pop(w) = TooDeep(rest, top)
        BY <1>9, <1>5, FlowAssumption DEF Pop, top, rest, front
    <2> DEFINE lim == w.limited \/ Onward(slice, top.id) # <<>>
    <2>2. Pop(w) = [trigger |-> w.trigger, stack |-> front, visited |-> w.visited, hops |-> w.hops, limited |-> lim]
        BY <1>4, <2>1 DEF TooDeep
    <2>3. Onward(slice, top.id) = <<>> => L(top.id) = {}
        <3>1. SUFFICES ASSUME Onward(slice, top.id) = <<>>, top.id \notin NodesOf(slice, {"Gap"}) PROVE L(top.id) = {}
            BY <1>8
        <3>2. <<>> \in Seq({}) /\ ToSet(<<>>) = {}
            BY DEF ToSet
        <3>3. {h.dst : h \in ToSet(Onward(slice, top.id))} = {h.dst : h \in L(top.id)}
            BY <3>1, <3>2, TakesLeads
        <3>4. QED  BY <3>1, <3>2, <3>3
    <2>4. lim \in BOOLEAN /\ (lim \/ (~w.limited /\ L(top.id) = {}))
        BY <1>1, <2>3
    <2> HIDE DEF lim
    <2>5. Pop(w) \in WalkRecords(slice)
        BY <1>1, <1>3, <2>2, <2>4 DEF WalkRecords, E
    <2>6. /\ Pop(w).trigger = w.trigger /\ Pop(w).stack = front /\ Pop(w).visited = w.visited
          /\ Pop(w).hops = w.hops /\ Pop(w).limited = lim
        BY <2>2
    <2>7. lim \/ \A id \in {w.trigger} \cup {h.dst : h \in ToSet(w.hops)} : id \in w.visited \cup ids(front) \/ L(id) = {}
        BY <1>2, <1>6, <2>4
    <2>8. WalkFits(slice, Pop(w))
        BY <1>2, <1>6, <2>6, <2>7 DEF WalkFits
    <2>9. QED  BY <2>5, <2>6, <2>8
<1>10. CASE top.depth < MAX_DEPTH /\ top.id \in w.visited
    <2>1. Pop(w) = rest
        BY <1>10, <1>5, FlowAssumption DEF Pop, top, rest, front
    <2>2. rest \in WalkRecords(slice)
        BY <1>1, <1>3, <1>4 DEF WalkRecords, E
    <2>3. WalkFits(slice, rest)
        BY <1>2, <1>4, <1>6, <1>10 DEF WalkFits
    <2>4. QED  BY <1>4, <2>1, <2>2, <2>3
<1>11. CASE top.depth < MAX_DEPTH /\ top.id \notin w.visited /\ top.id \in NodesOf(slice, {"Gap"})
    <2> DEFINE vis == w.visited \cup {top.id}
    <2>1. Pop(w) = [rest EXCEPT !.visited = @ \cup {top.id}]
        BY <1>11, <1>5, FlowAssumption DEF Pop, top, rest, front
    <2>2. Pop(w) = [trigger |-> w.trigger, stack |-> front, visited |-> vis, hops |-> w.hops, limited |-> w.limited]
        BY <1>4, <2>1
    <2>3. vis \subseteq IdsOf(slice)
        BY <1>1, <1>5
    <2>4. vis \cup ids(front) \subseteq R /\ UNION {L(n) : n \in vis} = UNION {L(n) : n \in w.visited}
        <3>1. L(top.id) = {}
            BY <1>11, <1>8
        <3>2. vis \cup ids(front) \subseteq R
            BY <1>2, <1>6, <1>8
        <3>3. UNION {L(n) : n \in vis} = UNION {L(n) : n \in w.visited}
            BY <3>1
        <3>4. QED  BY <3>2, <3>3
    <2>5. w.limited \/ \A id \in {w.trigger} \cup {h.dst : h \in ToSet(w.hops)} : id \in vis \cup ids(front) \/ L(id) = {}
        BY <1>2, <1>6
    <2> HIDE DEF vis
    <2>6. Pop(w) \in WalkRecords(slice)
        BY <1>1, <1>3, <2>2, <2>3 DEF WalkRecords, E
    <2>7. /\ Pop(w).trigger = w.trigger /\ Pop(w).stack = front /\ Pop(w).visited = vis
          /\ Pop(w).hops = w.hops /\ Pop(w).limited = w.limited
        BY <2>2
    <2>8. WalkFits(slice, Pop(w))
        BY <1>2, <2>4, <2>5, <2>7 DEF WalkFits
    <2>9. QED  BY <2>6, <2>7, <2>8
<1>12. CASE top.depth < MAX_DEPTH /\ top.id \notin w.visited /\ top.id \notin NodesOf(slice, {"Gap"})
    <2> DEFINE step == Onward(slice, top.id)
               taken == Picked(step, Unseen(w.hops, step))
               entries == [i \in DOMAIN step |-> [id |-> step[i].dst, depth |-> top.depth + 1]]
               vis == w.visited \cup {top.id}
               hops == w.hops \o taken
               stack == front \o Reverse(entries)
    <2>1. Pop(w) = Expand(rest, top)
        BY <1>12, <1>5, FlowAssumption DEF Pop, top, rest, front
    <2>2. Pop(w) = [trigger |-> w.trigger, stack |-> stack, visited |-> vis, hops |-> hops, limited |-> w.limited]
        BY <1>4, <2>1 DEF Expand
    <2>3. \A h \in ToSet(w.hops) : h.src # top.id
        BY <1>2, <1>12, LeadsFit
    <2>4. /\ step \in Seq({o.hop : o \in Outgoing(slice, top.id)}) /\ taken \in Seq(L(top.id))
          /\ {h.dst : h \in ToSet(step)} = {h.dst : h \in L(top.id)}
          /\ ToSet(taken) = L(top.id) /\ IsInjective(taken)
        BY <1>1, <1>12, <2>3, TakesLeads
    <2> HIDE DEF taken, step
    <2>5. hops \in Seq(HopRecords(slice)) /\ ToSet(hops) = ToSet(w.hops) \cup L(top.id)
        <3>1. L(top.id) \subseteq HopRecords(slice)
            BY <1>5 DEF HopRecords
        <3>2. taken \in Seq(HopRecords(slice))
            BY <2>4, <3>1
        <3>3. QED  BY <1>1, <2>4, <3>2, SetOfConcat
    <2>6. IsInjective(hops)
        <3>1. L(top.id) \subseteq HopRecords(slice)
            BY <1>5 DEF HopRecords
        <3>2. taken \in Seq(HopRecords(slice))
            BY <2>4, <3>1
        <3>3. ToSet(w.hops) \cap ToSet(taken) = {}
            BY <2>3, <2>4, LeadsFit
        <3>4. QED  BY <1>1, <1>2, <2>4, <3>2, <3>3, InjectiveConcat
    <2>7. entries \in Seq(E) /\ ids(entries) = {h.dst : h \in L(top.id)}
        <3>1. step \in Seq({o.hop : o \in Outgoing(slice, top.id)})
            BY <2>4
        <3>2. DOMAIN step = 1 .. Len(step) /\ DOMAIN entries = 1 .. Len(step) /\ Len(step) \in Nat
            BY <3>1
        <3>3. \A h \in ToSet(step) : h.dst \in IdsOf(slice)
            <4>1. {h.dst : h \in ToSet(step)} = {h.dst : h \in L(top.id)}
                BY <2>4
            <4>2. \A h \in L(top.id) : h.dst \in IdsOf(slice)
                BY LeadsFit
            <4>3. ASSUME NEW h \in ToSet(step) PROVE \E k \in L(top.id) : h.dst = k.dst
                BY <4>1
            <4>4. QED  BY <4>2, <4>3
        <3>4. \A i \in 1 .. Len(step) : step[i] \in ToSet(step)
            BY <3>2 DEF ToSet
        <3>5. \A i \in 1 .. Len(step) : entries[i] = [id |-> step[i].dst, depth |-> top.depth + 1] /\ entries[i] \in E
            BY <1>5, <3>2, <3>3, <3>4 DEF E
        <3>6. entries \in Seq(E)
            BY <3>2, <3>5
        <3>7. ids(entries) = {h.dst : h \in ToSet(step)}
            <4>1. ASSUME NEW e \in ToSet(entries) PROVE \E h \in ToSet(step) : e.id = h.dst
                <5>1. PICK i \in 1 .. Len(step) : e = entries[i]
                    BY <3>2 DEF ToSet
                <5>2. QED  BY <3>4, <3>5, <5>1
            <4>2. ASSUME NEW h \in ToSet(step) PROVE \E e \in ToSet(entries) : e.id = h.dst
                <5>1. PICK i \in 1 .. Len(step) : h = step[i]
                    BY <3>2 DEF ToSet
                <5>2. entries[i] \in ToSet(entries) /\ entries[i].id = h.dst
                    BY <3>2, <3>5, <5>1 DEF ToSet
                <5>3. QED  BY <5>2
            <4> HIDE DEF entries
            <4>3. QED  BY <4>1, <4>2
        <3>8. QED  BY <2>4, <3>6, <3>7
    <2> HIDE DEF entries
    <2>8. stack \in Seq(E) /\ ids(stack) = ids(front) \cup {h.dst : h \in L(top.id)}
        <3>1. Reverse(entries) \in Seq(E) /\ ToSet(Reverse(entries)) = ToSet(entries)
            BY <2>7, SetOfReverse
        <3>2. stack \in Seq(E) /\ ToSet(stack) = ToSet(front) \cup ToSet(entries)
            BY <1>3, <3>1, SetOfConcat
        <3> HIDE DEF stack
        <3>3. QED  BY <2>7, <3>2
    <2>9. vis \subseteq IdsOf(slice)
        BY <1>1, <1>5
    <2>10. vis \cup ids(stack) \subseteq R
        <3>1. \A h \in L(top.id) : h.dst \in R
            BY <1>2, <1>6, <1>7, ReachedFits
        <3>2. QED  BY <1>2, <1>6, <2>8, <3>1
    <2>11. ToSet(hops) = UNION {L(n) : n \in vis}
        BY <1>2, <2>5
    <2>12. w.limited \/ \A id \in {w.trigger} \cup {h.dst : h \in ToSet(hops)} : id \in vis \cup ids(stack) \/ L(id) = {}
        BY <1>2, <1>6, <2>5, <2>8
    <2> HIDE DEF vis, hops, stack
    <2>13. Pop(w) \in WalkRecords(slice)
        BY <1>1, <2>2, <2>5, <2>8, <2>9 DEF WalkRecords, E
    <2>14. /\ Pop(w).trigger = w.trigger /\ Pop(w).stack = stack /\ Pop(w).visited = vis
           /\ Pop(w).hops = hops /\ Pop(w).limited = w.limited
        BY <2>2
    <2>15. WalkFits(slice, Pop(w))
        BY <2>6, <2>10, <2>11, <2>12, <2>14 DEF WalkFits
    <2>16. QED  BY <2>13, <2>14, <2>15
<1>13. QED  BY <1>5, <1>9, <1>10, <1>11, <1>12, FlowAssumption

\* The mean weight is the greatest only of hops that are all confirmed.
LEMMA ScoreFits ==
    ASSUME NEW T, NEW hops \in Seq(T)
    PROVE  /\ Score(hops) = [sum |-> Score(hops).sum, of |-> Len(hops)]
           /\ Score(hops).sum \in Int
           /\ Score(hops).sum = 10 * Len(hops) <=> \A h \in ToSet(hops) : h.conf = "Confirmed"
<1> DEFINE of(conf) == {i \in DOMAIN hops : hops[i].conf = conf}
           c == of("Confirmed")
           s == of("InferredStrong")
           k == of("InferredWeak")
           D == 1 .. Len(hops)
<1>1. Len(hops) \in Nat /\ DOMAIN hops = D
    OBVIOUS
<1>2. IsFiniteSet(D) /\ Cardinality(D) = Len(hops)
    <2>1. Len(hops) \in Nat
        OBVIOUS
    <2>2. QED  BY <2>1, FS_Interval
<1>3. c \subseteq D /\ s \subseteq D /\ k \subseteq D /\ c \cap s = {} /\ c \cap k = {} /\ s \cap k = {}
    BY <1>1
<1>4. Score(hops) = [sum |-> 10 * Cardinality(c) + 6 * Cardinality(s) + 3 * Cardinality(k), of |-> Len(hops)]
    <2>1. HopWeight("Confirmed") = 10 /\ HopWeight("InferredStrong") = 6 /\ HopWeight("InferredWeak") = 3
        BY DEF HopWeight
    <2>2. QED  BY <2>1 DEF Score
<1>5. c = D <=> \A h \in ToSet(hops) : h.conf = "Confirmed"
    BY <1>1 DEF ToSet
<1> HIDE DEF c, s, k, D
<1>6. /\ IsFiniteSet(c) /\ IsFiniteSet(s) /\ IsFiniteSet(k)
      /\ Cardinality(c) \in Nat /\ Cardinality(s) \in Nat /\ Cardinality(k) \in Nat
    BY <1>2, <1>3, FS_Subset, FS_CardinalityType
<1>7. Cardinality(c) + Cardinality(s) + Cardinality(k) <= Cardinality(D)
    <2> DEFINE cs == c \cup s
    <2>1. IsFiniteSet(cs) /\ Cardinality(cs) = Cardinality(c) + Cardinality(s)
        <3>1. Cardinality(c \cap s) = 0
            BY <1>3, FS_EmptySet
        <3>2. IsFiniteSet(c \cup s) /\ Cardinality(c \cup s) = Cardinality(c) + Cardinality(s) - Cardinality(c \cap s)
            BY <1>6, FS_Union
        <3>3. QED  BY <1>6, <3>1, <3>2
    <2>2. cs \cap k = {} /\ cs \cup k \subseteq D
        BY <1>3
    <2> HIDE DEF cs
    <2>3. Cardinality(cs \cup k) = Cardinality(cs) + Cardinality(k)
        <3>1. Cardinality(cs \cap k) = 0
            BY <2>2, FS_EmptySet
        <3>2. Cardinality(cs) \in Nat
            BY <1>6, <2>1
        <3>3. Cardinality(cs \cup k) = Cardinality(cs) + Cardinality(k) - Cardinality(cs \cap k)
            BY <1>6, <2>1, FS_Union
        <3>4. QED  BY <1>6, <3>1, <3>2, <3>3
    <2>4. Cardinality(cs \cup k) <= Cardinality(D)
        BY <1>2, <2>2, FS_Subset
    <2>5. QED  BY <2>1, <2>3, <2>4
<1>8. Cardinality(c) = Cardinality(D) <=> c = D
    BY <1>2, <1>3, FS_Subset
<1>9. 10 * Cardinality(c) + 6 * Cardinality(s) + 3 * Cardinality(k) = 10 * Len(hops) <=> Cardinality(c) = Len(hops)
    BY <1>1, <1>2, <1>6, <1>7
<1>10. QED  BY <1>2, <1>4, <1>5, <1>6, <1>8, <1>9

\* The flow of a walk that has nothing left to take.
LEMMA EndedFits ==
    ASSUME SliceFits(slice), NEW w \in WalkRecords(slice), WalkFits(slice, w), w.stack = <<>>
    PROVE  Flow(w) \in FlowRecords(slice) /\ FlowFits(slice, Flow(w))
<1> DEFINE L(n) == Leads(slice, n)
           R == Reached(slice, w.trigger)
           all == AllHops(slice, w.trigger)
           hops == ToSet(w.hops)
<1>1. /\ w.trigger \in DOMAIN slice.node /\ w.visited \subseteq IdsOf(slice)
      /\ w.hops \in Seq(HopRecords(slice)) /\ w.limited \in BOOLEAN
    BY DEF WalkRecords
<1>2. /\ w.visited \subseteq R
      /\ hops = UNION {L(n) : n \in w.visited}
      /\ IsInjective(w.hops)
      /\ w.limited \/ \A id \in {w.trigger} \cup {h.dst : h \in hops} : id \in w.visited \/ L(id) = {}
    <2>1. {e.id : e \in ToSet(w.stack)} = {}
        BY DEF ToSet
    <2>2. QED  BY <2>1 DEF WalkFits
<1>3. w.trigger \in IdsOf(slice)
    BY <1>1 DEF IdsOf
<1>4. all = UNION {L(n) : n \in R}
    BY DEF AllHops
<1>5. hops \subseteq all /\ Len(w.hops) = Cardinality(hops)
    BY <1>1, <1>2, <1>4, InjectiveCounts
<1>6. ASSUME ~w.limited PROVE hops = all
    <2> DEFINE C == {n \in R : n \in w.visited \/ L(n) = {}}
    <2>1. w.trigger \in R /\ R \subseteq IdsOf(slice) /\ \A n \in R : \A h \in L(n) : h.dst \in R
        BY <1>3, ReachedFits
    <2>2. C \in SUBSET IdsOf(slice) /\ w.trigger \in C
        BY <1>2, <1>6, <2>1
    <2>3. ASSUME NEW n \in C, NEW h \in L(n) PROVE h.dst \in C
        <3>1. n \in w.visited /\ h \in hops
            BY <1>2, <2>3
        <3>2. QED  BY <1>2, <1>6, <2>1, <3>1
    <2>4. R \subseteq C
        <3> HIDE DEF C
        <3>1. QED  BY <1>3, <2>2, <2>3, ReachedFits
    <2>5. all \subseteq hops
        BY <1>2, <1>4, <2>4
    <2>6. QED  BY <1>5, <2>5
<1>7. HasGap(w.hops) <=> \E h \in hops : h.conf = "Gap" \/ h.dst \in NodesOf(slice, {"Gap"})
    BY DEF HasGap
<1>8. w.hops = <<>> <=> hops = {}
    BY <1>1, SetOfSeq
<1>9. /\ Score(w.hops) \in [sum : Int, of : Nat] /\ Score(w.hops).of = Len(w.hops)
      /\ Score(w.hops).sum = 10 * Score(w.hops).of <=> \A h \in hops : h.conf = "Confirmed"
    <2>1. Score(w.hops) = [sum |-> Score(w.hops).sum, of |-> Len(w.hops)]
        BY <1>1, ScoreFits
    <2>2. Score(w.hops).of = Len(w.hops) /\ Len(w.hops) \in Nat
        BY <1>1, <2>1
    <2>3. Score(w.hops).sum \in Int /\ (Score(w.hops).sum = 10 * Len(w.hops) <=> \A h \in hops : h.conf = "Confirmed")
        BY <1>1, ScoreFits
    <2>4. QED  BY <2>1, <2>2, <2>3
<1>10. /\ Status(w) \in {"Partial", "Verified", "Inferred"}
       /\ Status(w) = "Partial" <=> HasGap(w.hops) \/ w.hops = <<>> \/ w.limited
       /\ Status(w) = "Verified" <=> Status(w) # "Partial" /\ \A h \in hops : h.conf = "Confirmed"
    BY DEF Status
<1>11. /\ Flow(w).trigger = w.trigger /\ Flow(w).hops = w.hops /\ Flow(w).status = Status(w)
       /\ Flow(w).score = Score(w.hops) /\ Flow(w).depth_limited = w.limited
    BY DEF Flow
<1>12. Flow(w) \in FlowRecords(slice)
    BY <1>1, <1>9, <1>10 DEF Flow, FlowRecords
<1> HIDE DEF hops, all
<1>13. FlowFits(slice, Flow(w))
    BY <1>5, <1>6, <1>7, <1>8, <1>9, <1>10, <1>11 DEF FlowFits, hops, all
<1>14. QED  BY <1>12, <1>13

\* The triggers are nodes of the slice.
LEMMA TriggerSets ==
    ASSUME NEW g, SliceFits(g)
    PROVE  /\ DOMAIN g.node \subseteq Int /\ DOMAIN g.node \subseteq IdsOf(g)
           /\ \A labels : NodesOf(g, labels) \subseteq DOMAIN g.node
           /\ Anchors(g) \subseteq DOMAIN g.node /\ ExternalChannels(g) \subseteq DOMAIN g.node
           /\ \A traced : RestTriggers(g, traced) \subseteq DOMAIN g.node
           /\ \A ids \in SUBSET DOMAIN g.node :
                 /\ IsFiniteSet(ids) /\ InIdOrder(ids) \in Seq(DOMAIN g.node)
                 /\ ToSet(InIdOrder(ids)) = ids /\ IsInjective(InIdOrder(ids))
<1>1. DOMAIN g.node \subseteq Int /\ DOMAIN g.node \subseteq IdsOf(g) /\ IsFiniteSet(DOMAIN g.node)
    BY DEF SliceFits, IdsOf
<1>2. \A labels : NodesOf(g, labels) \subseteq DOMAIN g.node
    BY DEF NodesOf
<1>3. /\ Anchors(g) \subseteq DOMAIN g.node /\ ExternalChannels(g) \subseteq DOMAIN g.node
      /\ \A traced : RestTriggers(g, traced) \subseteq DOMAIN g.node
    BY <1>2 DEF Anchors, ExternalChannels, RestTriggers
<1>4. ASSUME NEW ids \in SUBSET DOMAIN g.node
      PROVE  /\ IsFiniteSet(ids) /\ InIdOrder(ids) \in Seq(DOMAIN g.node)
             /\ ToSet(InIdOrder(ids)) = ids /\ IsInjective(InIdOrder(ids))
    <2>1. ids \in SUBSET Int /\ IsFiniteSet(ids)
        BY <1>1, FS_Subset
    <2>2. InIdOrder(ids) \in Seq(ids) /\ ToSet(InIdOrder(ids)) = ids /\ IsInjective(InIdOrder(ids))
        BY <2>1, InIdOrderLists
    <2>3. QED  BY <2>1, <2>2
<1>5. QED  BY <1>1, <1>2, <1>3, <1>4

\* Nothing is there before the first trace.
LEMMA IdleIsEmpty ==
    ASSUME TraceInv, phase = "idle"
    PROVE  todo = <<>> /\ walk = {} /\ flows = <<>>
<1>1. {f.trigger : f \in ToSet(flows)} = {} /\ ToSet(todo) = {} /\ {w.trigger : w \in walk} = {}
    BY DEF TraceInv, TriggersFit
<1>2. ToSet(flows) = {} /\ walk = {}
    BY <1>1
<1>3. todo \in Seq(DOMAIN slice.node) /\ flows \in Seq(FlowRecords(slice))
    BY DEF TraceInv
<1>4. QED  BY <1>1, <1>2, <1>3, SetOfSeq

\* Nothing was traced: the invariant is that of the slice.
LEMMA NothingFits ==
    ASSUME SliceFits(slice), phase = "idle", todo = <<>>, walk = {}, flows = <<>>
    PROVE  TraceInv
<1>1. todo \in Seq(DOMAIN slice.node) /\ flows \in Seq(FlowRecords(slice))
    OBVIOUS
<1>2. ToSet(todo) = {} /\ ToSet(flows) = {} /\ DOMAIN flows = {} /\ DOMAIN todo = {}
    BY DEF ToSet
<1>3. TriggersFit
    BY <1>2 DEF TriggersFit, IsInjective
<1>4. QED  BY <1>1, <1>2, <1>3 DEF TraceInv

LEMMA FlowInitFits == FlowInit => TraceInv
<1>1. SUFFICES ASSUME FlowInit PROVE TraceInv
    OBVIOUS
<1>2. SliceFits(slice)
    BY <1>1, FlowAssumption DEF FlowInit
<1>3. QED  BY <1>1, <1>2, NothingFits DEF FlowInit

LEMMA TraceKeeps ==
    ASSUME TraceInv, NEW g, SliceFits(g), Trace(g)
    PROVE  TraceInv'
<1>1. todo = <<>> /\ walk = {} /\ flows = <<>>
    BY IdleIsEmpty DEF Trace
<1>2. slice' = g /\ phase' = "anchors" /\ todo' = InIdOrder(Anchors(g)) /\ walk' = {} /\ flows' = <<>>
    BY <1>1 DEF Trace
<1>3. Anchors(g) \in SUBSET DOMAIN g.node
    BY TriggerSets
<1>4. todo' \in Seq(DOMAIN g.node) /\ ToSet(todo') = Anchors(g) /\ IsInjective(todo')
    BY <1>2, <1>3, TriggerSets
<1>5. ToSet(flows') = {} /\ DOMAIN flows' = {} /\ flows' \in Seq(FlowRecords(g))
    BY <1>2 DEF ToSet
<1>6. TriggersFit'
    BY <1>2, <1>4, <1>5 DEF TriggersFit
<1>7. QED  BY <1>2, <1>4, <1>5, <1>6 DEF TraceInv

LEMMA BeginKeeps ==
    ASSUME TraceInv, Begin
    PROVE  TraceInv'
<1> DEFINE w == [trigger |-> Head(todo), stack |-> <<[id |-> Head(todo), depth |-> 0]>>, visited |-> {}, hops |-> <<>>, limited |-> FALSE]
<1>1. walk = {} /\ todo # <<>> /\ walk' = {w} /\ todo' = Tail(todo) /\ slice' = slice /\ phase' = phase /\ flows' = flows
    BY DEF Begin
<1>2. SliceFits(slice) /\ todo \in Seq(DOMAIN slice.node) /\ TriggersFit
    BY DEF TraceInv
<1>3. /\ Head(todo) \in DOMAIN slice.node /\ Tail(todo) \in Seq(DOMAIN slice.node)
      /\ ToSet(todo) = {Head(todo)} \cup ToSet(Tail(todo))
      /\ IsInjective(Tail(todo)) /\ Head(todo) \notin ToSet(Tail(todo))
    <2>1. Len(todo) \in Nat /\ Len(todo) >= 1 /\ DOMAIN todo = 1 .. Len(todo) /\ Head(todo) = todo[1]
        BY <1>1, <1>2
    <2>2. Head(todo) \in DOMAIN slice.node /\ Tail(todo) \in Seq(DOMAIN slice.node) /\ Len(Tail(todo)) = Len(todo) - 1
        BY <1>1, <1>2
    <2>3. DOMAIN Tail(todo) = 1 .. Len(todo) - 1 /\ \A i \in 1 .. Len(todo) - 1 : Tail(todo)[i] = todo[i + 1]
        BY <1>1, <1>2, <2>2
    <2>4. \A i, j \in 1 .. Len(todo) : todo[i] = todo[j] => i = j
        BY <1>2, <2>1 DEF TriggersFit, IsInjective
    <2>5. IsInjective(Tail(todo))
        BY <2>1, <2>3, <2>4 DEF IsInjective
    <2>6. Head(todo) \notin ToSet(Tail(todo))
        BY <2>1, <2>3, <2>4 DEF ToSet
    <2>7. \A i \in 1 .. Len(todo) : i = 1 \/ (i - 1 \in 1 .. Len(todo) - 1 /\ todo[i] = Tail(todo)[i - 1])
        BY <2>1, <2>3
    <2>8. ToSet(todo) = {Head(todo)} \cup ToSet(Tail(todo))
        <3>1. \A x \in ToSet(todo) : x = Head(todo) \/ x \in ToSet(Tail(todo))
            <4>1. ASSUME NEW x \in ToSet(todo), x # Head(todo) PROVE x \in ToSet(Tail(todo))
                <5>1. PICK i \in 1 .. Len(todo) : x = todo[i]
                    BY <2>1 DEF ToSet
                <5>2. i - 1 \in 1 .. Len(todo) - 1 /\ x = Tail(todo)[i - 1]
                    BY <2>1, <2>7, <4>1, <5>1
                <5>3. QED  BY <2>3, <5>2 DEF ToSet
            <4>2. QED  BY <4>1
        <3>2. \A x \in ToSet(Tail(todo)) : x \in ToSet(todo)
            <4>1. ASSUME NEW x \in ToSet(Tail(todo)) PROVE x \in ToSet(todo)
                <5>1. PICK i \in 1 .. Len(todo) - 1 : x = Tail(todo)[i]
                    BY <2>3 DEF ToSet
                <5>2. i + 1 \in 1 .. Len(todo) /\ x = todo[i + 1]
                    BY <2>1, <2>3, <5>1
                <5>3. QED  BY <2>1, <5>2 DEF ToSet
            <4>2. QED  BY <4>1
        <3>3. Head(todo) \in ToSet(todo)
            BY <2>1 DEF ToSet
        <3>4. QED  BY <3>1, <3>2, <3>3
    <2>9. QED  BY <2>2, <2>5, <2>6, <2>8
<1>4. Head(todo) \in IdsOf(slice)
    BY <1>3 DEF IdsOf
<1>5. w \in WalkRecords(slice)
    <2>1. w.stack \in Seq([id : IdsOf(slice), depth : Nat]) /\ w.hops \in Seq(HopRecords(slice))
        BY <1>4
    <2>2. QED  BY <1>3, <2>1 DEF WalkRecords
<1>6. WalkFits(slice, w)
    <2>1. ToSet(w.hops) = {} /\ IsInjective(w.hops)
        BY DEF ToSet, IsInjective
    <2>2. {e.id : e \in ToSet(w.stack)} = {Head(todo)}
        BY DEF ToSet
    <2>3. Head(todo) \in Reached(slice, Head(todo))
        BY <1>2, <1>4, ReachedFits
    <2>4. w.trigger = Head(todo) /\ w.visited = {}
        OBVIOUS
    <2> HIDE DEF w
    <2>5. QED  BY <2>1, <2>2, <2>3, <2>4 DEF WalkFits
<1>7. w.trigger = Head(todo)
    OBVIOUS
<1> HIDE DEF w
<1>8. TriggersFit'
    <2>1. {v.trigger : v \in walk'} = {Head(todo)} /\ {v.trigger : v \in walk} = {}
        BY <1>1, <1>7
    <2>2. ToSet(todo') \cup {v.trigger : v \in walk'} = ToSet(todo) \cup {v.trigger : v \in walk}
        BY <1>1, <1>3, <2>1
    <2>3. IsInjective(todo') /\ \A v \in walk' : v.trigger \notin ToSet(todo')
        BY <1>1, <1>3, <1>7
    <2>4. QED  BY <1>1, <1>2, <2>2, <2>3 DEF TriggersFit
<1>9. QED  BY <1>1, <1>3, <1>5, <1>6, <1>8 DEF TraceInv

LEMMA PopEntryKeeps ==
    ASSUME TraceInv, PopEntry
    PROVE  TraceInv'
<1>1. slice' = slice /\ phase' = phase /\ todo' = todo /\ flows' = flows
    BY DEF PopEntry
<1>2. PICK w \in walk : w.stack # <<>> /\ walk' = {Pop(w)}
    BY DEF PopEntry
<1>3. SliceFits(slice) /\ w \in WalkRecords(slice) /\ WalkFits(slice, w) /\ TriggersFit /\ walk = {w}
    BY <1>2 DEF TraceInv
<1>4. Pop(w) \in WalkRecords(slice) /\ WalkFits(slice, Pop(w)) /\ Pop(w).trigger = w.trigger
    BY <1>2, <1>3, PopFits
<1>5. {v.trigger : v \in walk'} = {v.trigger : v \in walk} /\ \A v \in walk' : v.trigger = w.trigger
    BY <1>2, <1>3, <1>4
<1>6. TriggersFit'
    BY <1>1, <1>3, <1>5 DEF TriggersFit
<1>7. QED  BY <1>1, <1>2, <1>4, <1>6 DEF TraceInv

LEMMA EndWalkKeeps ==
    ASSUME TraceInv, EndWalk
    PROVE  TraceInv'
<1>1. slice' = slice /\ phase' = phase /\ todo' = todo /\ walk' = {}
    BY DEF EndWalk
<1>2. PICK w \in walk : w.stack = <<>> /\ flows' = Append(flows, Flow(w))
    BY DEF EndWalk
<1>3. /\ SliceFits(slice) /\ w \in WalkRecords(slice) /\ WalkFits(slice, w) /\ TriggersFit /\ walk = {w}
      /\ flows \in Seq(FlowRecords(slice)) /\ \A f \in ToSet(flows) : FlowFits(slice, f) /\ f.score = Score(f.hops)
    BY <1>2 DEF TraceInv
<1>4. /\ Flow(w) \in FlowRecords(slice) /\ FlowFits(slice, Flow(w)) /\ Flow(w).trigger = w.trigger
      /\ Flow(w).score = Score(Flow(w).hops)
    BY <1>2, <1>3, EndedFits DEF Flow
<1>5. /\ flows' \in Seq(FlowRecords(slice)) /\ Len(flows) \in Nat /\ DOMAIN flows = 1 .. Len(flows)
      /\ DOMAIN flows' = 1 .. Len(flows) + 1
      /\ flows'[Len(flows) + 1] = Flow(w) /\ \A i \in 1 .. Len(flows) : flows'[i] = flows[i]
    BY <1>2, <1>3, <1>4
<1>6. ToSet(flows') = ToSet(flows) \cup {Flow(w)}
    <2>1. \A i \in 1 .. Len(flows) + 1 : i \in 1 .. Len(flows) \/ i = Len(flows) + 1
        BY <1>5
    <2>2. QED  BY <1>5, <2>1 DEF ToSet
<1>7. \A f \in ToSet(flows') : FlowFits(slice, f) /\ f.score = Score(f.hops)
    BY <1>3, <1>4, <1>6
<1>8. {v.trigger : v \in walk} = {w.trigger} /\ {v.trigger : v \in walk'} = {}
    BY <1>1, <1>3
<1>9. {f.trigger : f \in ToSet(flows')} = {f.trigger : f \in ToSet(flows)} \cup {w.trigger}
    BY <1>4, <1>6
<1>10. w.trigger \notin ToSet(todo) /\ w.trigger \notin {f.trigger : f \in ToSet(flows)}
    BY <1>3, <1>8 DEF TriggersFit
<1>11. \A i, j \in DOMAIN flows' : flows'[i].trigger = flows'[j].trigger => i = j
    <2>1. \A i \in 1 .. Len(flows) : flows[i].trigger \in {f.trigger : f \in ToSet(flows)}
        BY <1>5 DEF ToSet
    <2>2. \A i, j \in 1 .. Len(flows) : flows[i].trigger = flows[j].trigger => i = j
        BY <1>3, <1>5 DEF TriggersFit
    <2>3. \A i \in 1 .. Len(flows) + 1 : i \in 1 .. Len(flows) \/ i = Len(flows) + 1
        BY <1>5
    <2>4. QED  BY <1>4, <1>5, <1>10, <2>1, <2>2, <2>3
<1>12. HopsOf(flows) \subseteq HopsOf(flows')
    BY <1>6 DEF HopsOf
<1>13. TriggersFit'
    <2>1. /\ IsInjective(todo) /\ phase # "idle" /\ phase # "done"
          /\ {f.trigger : f \in ToSet(flows)} \cap (ToSet(todo) \cup {w.trigger}) = {}
          /\ phase = "anchors" => {f.trigger : f \in ToSet(flows)} \cup (ToSet(todo) \cup {w.trigger}) = Anchors(slice)
          /\ phase = "rest" =>
                /\ Anchors(slice) \cup ExternalChannels(slice) \subseteq {f.trigger : f \in ToSet(flows)} \cup (ToSet(todo) \cup {w.trigger})
                /\ {f.trigger : f \in ToSet(flows)} \cup (ToSet(todo) \cup {w.trigger})
                       \subseteq Anchors(slice) \cup ExternalChannels(slice) \cup NodesOf(slice, {"Endpoint"})
                /\ NodesOf(slice, {"Endpoint"}) \subseteq
                       {f.trigger : f \in ToSet(flows)} \cup (ToSet(todo) \cup {w.trigger}) \cup {h.dst : h \in HopsOf(flows)}
        BY <1>3, <1>8 DEF TriggersFit
    <2> DEFINE old == {f.trigger : f \in ToSet(flows)}
               new == {f.trigger : f \in ToSet(flows')}
               dst == {h.dst : h \in HopsOf(flows)}
               dst2 == {h.dst : h \in HopsOf(flows')}
    <2>2. dst \subseteq dst2
        BY <1>12
    <2>3. new = old \cup {w.trigger}
        BY <1>9
    <2> HIDE DEF old, new, dst, dst2
    <2>4. /\ IsInjective(todo') /\ \A v \in walk' : v.trigger \notin ToSet(todo')
          /\ new \cap (ToSet(todo') \cup {v.trigger : v \in walk'}) = {}
        BY <1>1, <1>8, <1>10, <2>1, <2>3 DEF old
    <2>5. phase' = "anchors" => new \cup (ToSet(todo') \cup {v.trigger : v \in walk'}) = Anchors(slice')
        BY <1>1, <1>8, <2>1, <2>3 DEF old
    <2>6. phase' = "rest" =>
              /\ Anchors(slice') \cup ExternalChannels(slice') \subseteq new \cup (ToSet(todo') \cup {v.trigger : v \in walk'})
              /\ new \cup (ToSet(todo') \cup {v.trigger : v \in walk'})
                     \subseteq Anchors(slice') \cup ExternalChannels(slice') \cup NodesOf(slice', {"Endpoint"})
              /\ NodesOf(slice', {"Endpoint"}) \subseteq new \cup (ToSet(todo') \cup {v.trigger : v \in walk'}) \cup dst2
        BY <1>1, <1>8, <2>1, <2>2, <2>3 DEF old, dst
    <2>7. phase' # "idle" /\ phase' # "done"
        BY <1>1, <2>1
    <2>8. QED  BY <1>11, <2>4, <2>5, <2>6, <2>7 DEF TriggersFit, new, dst2
<1>14. QED  BY <1>1, <1>5, <1>7, <1>13 DEF TraceInv

LEMMA TraceRestKeeps ==
    ASSUME TraceInv, TraceRest
    PROVE  TraceInv'
<1> DEFINE rest == RestTriggers(slice, flows)
           old == {f.trigger : f \in ToSet(flows)}
           dst == {h.dst : h \in HopsOf(flows)}
<1>1. /\ phase = "anchors" /\ walk = {} /\ todo = <<>> /\ phase' = "rest" /\ todo' = InIdOrder(rest)
      /\ slice' = slice /\ walk' = walk /\ flows' = flows
    BY DEF TraceRest
<1>2. SliceFits(slice) /\ TriggersFit
    BY DEF TraceInv
<1>3. rest \in SUBSET DOMAIN slice.node
    BY <1>2, TriggerSets
<1>4. todo' \in Seq(DOMAIN slice.node) /\ ToSet(todo') = rest /\ IsInjective(todo')
    BY <1>1, <1>2, <1>3, TriggerSets
<1>5. ToSet(todo) = {} /\ {w.trigger : w \in walk} = {}
    BY <1>1 DEF ToSet
<1>6. old = Anchors(slice) /\ \A i, j \in DOMAIN flows : flows[i].trigger = flows[j].trigger => i = j
    BY <1>1, <1>2, <1>5 DEF TriggersFit
<1>7. /\ rest \cap Anchors(slice) = {} /\ ExternalChannels(slice) \subseteq rest
      /\ rest \subseteq ExternalChannels(slice) \cup NodesOf(slice, {"Endpoint"})
      /\ NodesOf(slice, {"Endpoint"}) \subseteq rest \cup dst
    BY DEF RestTriggers, Anchors, ExternalChannels, NodesOf
<1>8. {w.trigger : w \in walk'} = {}
    BY <1>1
<1> HIDE DEF rest, old, dst
<1>9. /\ phase' = "rest" /\ old = Anchors(slice') /\ ToSet(todo') = rest
      /\ rest \cap Anchors(slice') = {} /\ ExternalChannels(slice') \subseteq rest
      /\ rest \subseteq ExternalChannels(slice') \cup NodesOf(slice', {"Endpoint"})
      /\ NodesOf(slice', {"Endpoint"}) \subseteq rest \cup dst
      /\ \A w \in walk' : w.trigger \notin ToSet(todo')
      /\ \A i, j \in DOMAIN flows' : flows'[i].trigger = flows'[j].trigger => i = j
      /\ old = {f.trigger : f \in ToSet(flows')} /\ dst = {h.dst : h \in HopsOf(flows')}
    BY <1>1, <1>4, <1>6, <1>7 DEF old, dst
<1>10. TriggersFit'
    BY <1>4, <1>8, <1>9 DEF TriggersFit
<1>11. QED  BY <1>1, <1>4, <1>10 DEF TraceInv

LEMMA ReturnKeeps ==
    ASSUME TraceInv, Return
    PROVE  TraceInv'
<1> DEFINE D == DOMAIN flows
           B == {p \in D \X D : \/ flows[p[1]].trigger < flows[p[2]].trigger
                                \/ flows[p[1]].trigger = flows[p[2]].trigger /\ p[1] < p[2]}
           order == Sorted(D, B)
           size == Cardinality(D)
<1>1. /\ phase = "rest" /\ walk = {} /\ todo = <<>> /\ phase' = "done" /\ slice' = slice /\ todo' = todo /\ walk' = walk
      /\ flows' = [i \in DOMAIN order |-> flows[order[i]]]
    BY DEF Return
<1>2. SliceFits(slice) /\ TriggersFit /\ flows \in Seq(FlowRecords(slice)) /\ \A f \in ToSet(flows) : FlowFits(slice, f) /\ f.score = Score(f.hops)
    BY DEF TraceInv
<1>3. Len(flows) \in Nat /\ D = 1 .. Len(flows)
    BY <1>2
<1>4. IsFiniteSet(D) /\ size = Len(flows)
    <2>1. IsFiniteSet(1 .. Len(flows)) /\ Cardinality(1 .. Len(flows)) = Len(flows)
        <3>1. Len(flows) \in Nat
            BY <1>3
        <3>2. QED  BY <3>1, IndexesFinite
    <2>2. QED  BY <1>3, <2>1
<1>5. \A i \in D : flows[i] \in FlowRecords(slice) /\ flows[i].trigger \in Int
    <2>1. ASSUME NEW i \in D PROVE flows[i] \in FlowRecords(slice)
        BY <1>2, <1>3
    <2>2. DOMAIN slice.node \subseteq Int
        BY <1>2, TriggerSets
    <2>3. QED  BY <2>1, <2>2 DEF FlowRecords
<1>6. \A i, j \in D : <<i, j>> \in B <=> flows[i].trigger < flows[j].trigger \/ (flows[i].trigger = flows[j].trigger /\ i < j)
    OBVIOUS
<1>7. \A i \in D : i \in Int
    BY <1>3
<1> HIDE DEF B, D
<1>8. Orders(B, D)
    BY <1>5, <1>6, <1>7 DEF Orders
<1>9. /\ order \in [1 .. size -> D] /\ \A x \in D : \E i \in 1 .. size : order[i] = x
      /\ \A i, j \in 1 .. size : order[i] = order[j] => i = j
    <2>1. /\ Sorted(D, B) \in [1 .. Cardinality(D) -> D]
          /\ \A x \in D : \E i \in 1 .. Cardinality(D) : Sorted(D, B)[i] = x
          /\ IsInjective(Sorted(D, B))
        BY <1>4, <1>8, SortedLists
    <2>2. QED  BY <2>1 DEF IsInjective
<1> HIDE DEF order, size
<1>10. DOMAIN flows' = 1 .. size /\ size \in Nat /\ \A i \in 1 .. size : flows'[i] = flows[order[i]] /\ order[i] \in D
    BY <1>1, <1>3, <1>4, <1>9
<1>11. flows' \in Seq(FlowRecords(slice)) /\ Len(flows') = size
    <2>1. flows' = [i \in 1 .. size |-> flows[order[i]]]
        BY <1>1, <1>9
    <2>2. \A i \in 1 .. size : flows[order[i]] \in FlowRecords(slice)
        BY <1>5, <1>10
    <2>3. QED  BY <1>10, <2>1, <2>2
<1>12. ToSet(flows') = ToSet(flows)
    <2>1. ASSUME NEW f \in ToSet(flows') PROVE f \in ToSet(flows)
        <3>1. PICK i \in 1 .. size : f = flows'[i]
            BY <1>10 DEF ToSet
        <3>2. QED  BY <1>10, <3>1 DEF ToSet, D
    <2>2. ASSUME NEW f \in ToSet(flows) PROVE f \in ToSet(flows')
        <3>1. PICK k \in D : f = flows[k]
            BY DEF ToSet, D
        <3>2. PICK i \in 1 .. size : order[i] = k
            BY <1>9
        <3>3. QED  BY <1>10, <3>1, <3>2 DEF ToSet
    <2>3. QED  BY <2>1, <2>2
<1>13. \A i, j \in DOMAIN flows' : flows'[i].trigger = flows'[j].trigger => i = j
    <2>1. \A i, j \in D : flows[i].trigger = flows[j].trigger => i = j
        BY <1>2 DEF TriggersFit, D
    <2>2. QED  BY <1>9, <1>10, <2>1
<1>14. HopsOf(flows') = HopsOf(flows)
    BY <1>12 DEF HopsOf
<1>15. ToSet(todo) = {} /\ {w.trigger : w \in walk} = {}
    BY <1>1 DEF ToSet
<1>16. TriggersFit'
    <2>1. {f.trigger : f \in ToSet(flows')} = {f.trigger : f \in ToSet(flows)} /\ ToSet(todo') = ToSet(todo) /\ {w.trigger : w \in walk'} = {w.trigger : w \in walk}
        BY <1>1, <1>12
    <2>2. IsInjective(todo')
        BY <1>1 DEF IsInjective
    <2>3. QED  BY <1>1, <1>2, <1>13, <1>14, <1>15, <2>1, <2>2 DEF TriggersFit
<1>17. \A f \in ToSet(flows') : FlowFits(slice, f) /\ f.score = Score(f.hops)
    BY <1>2, <1>12
<1>18. QED  BY <1>1, <1>2, <1>11, <1>16, <1>17 DEF TraceInv

LEMMA TraceStepKeeps == TraceInv /\ TraceStep => TraceInv'
BY BeginKeeps, PopEntryKeeps, EndWalkKeeps, TraceRestKeeps, ReturnKeeps DEF TraceStep

LEMMA InvIsWhole == TraceInv => TraceIsWhole
<1>1. SUFFICES ASSUME TraceInv, phase = "done" PROVE FlowIsWhole /\ TriggersCovered
    BY DEF TraceIsWhole, FlowIsWhole, TriggersCovered
<1>2. FlowIsWhole
    BY <1>1 DEF TraceInv, FlowIsWhole
<1> DEFINE triggers == {f.trigger : f \in ToSet(flows)}
           dst == {h.dst : h \in HopsOf(flows)}
<1>3. SliceFits(slice) /\ TriggersFit /\ flows \in Seq(FlowRecords(slice)) /\ Len(flows) \in Nat /\ DOMAIN flows = 1 .. Len(flows)
    BY <1>1 DEF TraceInv
<1>4. /\ ToSet(todo) \cup {w.trigger : w \in walk} = {}
      /\ Anchors(slice) \cup ExternalChannels(slice) \subseteq triggers
      /\ triggers \subseteq Anchors(slice) \cup ExternalChannels(slice) \cup NodesOf(slice, {"Endpoint"})
      /\ NodesOf(slice, {"Endpoint"}) \subseteq triggers \cup dst
      /\ \A i, j \in DOMAIN flows : flows[i].trigger = flows[j].trigger => i = j
    BY <1>1, <1>3 DEF TriggersFit
<1>5. Len(flows) = Cardinality(triggers)
    <2> DEFINE s == [i \in 1 .. Len(flows) |-> flows[i].trigger]
    <2>1. s \in Seq(triggers) /\ Len(s) = Len(flows) /\ DOMAIN s = 1 .. Len(flows)
        <3>1. \A i \in 1 .. Len(flows) : flows[i].trigger \in triggers
            BY <1>3 DEF ToSet
        <3> HIDE DEF triggers
        <3>2. QED  BY <1>3, <3>1
    <2>2. IsInjective(s)
        BY <1>3, <1>4, <2>1 DEF IsInjective
    <2>3. ToSet(s) = triggers
        BY <1>3, <2>1 DEF ToSet
    <2> HIDE DEF s, triggers
    <2>4. QED  BY <2>1, <2>2, <2>3, InjectiveCounts
<1>6. flows = <<>> <=> triggers = {}
    <2>1. flows = <<>> <=> ToSet(flows) = {}
        BY <1>3, SetOfSeq
    <2>2. QED  BY <2>1
<1>7. flows = <<>> => dst = {}
    <2>1. flows = <<>> => ToSet(flows) = {}
        BY <1>3, SetOfSeq
    <2>2. QED  BY <2>1 DEF HopsOf
<1>8. triggers = {} <=> Anchors(slice) = {} /\ ExternalChannels(slice) = {} /\ NodesOf(slice, {"Endpoint"}) = {}
    BY <1>4, <1>6, <1>7
<1>9. Anchors(slice) = {} <=> \A k \in {"Screen", "ExtensionContext", "Command"} : NodesOf(slice, {k}) = {}
    BY DEF Anchors, NodesOf
<1>10. \A ids \in SUBSET DOMAIN slice.node : Cardinality(ids) = 0 <=> ids = {}
    <2>1. ASSUME NEW ids \in SUBSET DOMAIN slice.node PROVE Cardinality(ids) = 0 <=> ids = {}
        <3>1. IsFiniteSet(ids)
            BY <1>3, TriggerSets
        <3>2. QED  BY <3>1, FS_EmptySet
    <2>2. QED  BY <2>1
<1>11. ExternalChannels(slice) \in SUBSET DOMAIN slice.node /\ \A k : NodesOf(slice, {k}) \in SUBSET DOMAIN slice.node
    BY <1>3, TriggerSets
<1>12. (\A k \in DOMAIN AnchorProbes(slice) : AnchorProbes(slice)[k] = 0) <=>
           /\ \A k \in {"Screen", "ExtensionContext", "Command"} : NodesOf(slice, {k}) = {}
           /\ ExternalChannels(slice) = {} /\ NodesOf(slice, {"Endpoint"}) = {}
    <2>1. DOMAIN AnchorProbes(slice) = {"Screen", "ExtensionContext", "Command", "Endpoint", "Channel"}
        BY DEF AnchorProbes
    <2>2. AnchorProbes(slice)["Channel"] = Cardinality(ExternalChannels(slice))
        BY DEF AnchorProbes
    <2>3. \A k \in {"Screen", "ExtensionContext", "Command", "Endpoint"} : AnchorProbes(slice)[k] = Cardinality(NodesOf(slice, {k}))
        BY DEF AnchorProbes
    <2>4. AnchorProbes(slice)["Channel"] = 0 <=> ExternalChannels(slice) = {}
        BY <1>10, <1>11, <2>2
    <2>5. \A k \in {"Screen", "ExtensionContext", "Command", "Endpoint"} : AnchorProbes(slice)[k] = 0 <=> NodesOf(slice, {k}) = {}
        BY <1>10, <1>11, <2>3
    <2>6. QED  BY <2>1, <2>4, <2>5
<1>13. TriggersCovered
    <2>1. flows = <<>> <=> \A k \in DOMAIN AnchorProbes(slice) : AnchorProbes(slice)[k] = 0
        BY <1>6, <1>8, <1>9, <1>12
    <2>2. QED  BY <1>4, <1>5, <2>1 DEF TriggersCovered
<1>14. QED  BY <1>2, <1>13

\* The first of a finite set in an order.
LEMMA FirstIsThere ==
    ASSUME NEW S, IsFiniteSet(S), S # {}, NEW R, Orders(R, S)
    PROVE  \E x \in S : \A y \in S \ {x} : <<x, y>> \in R
<1> DEFINE s == Sorted(S, R)
           size == Cardinality(S)
<1>1. /\ size \in Nat /\ s \in [1 .. size -> S]
      /\ \A x \in S : \E i \in 1 .. size : s[i] = x
      /\ \A i, j \in 1 .. size : i < j => <<s[i], s[j]>> \in R
    BY SortedLists
<1>2. size # 0
    BY FS_EmptySet
<1> HIDE DEF s, size
<1>3. 1 \in 1 .. size /\ s[1] \in S
    BY <1>1, <1>2
<1>4. ASSUME NEW y \in S \ {s[1]} PROVE <<s[1], y>> \in R
    <2>1. PICK i \in 1 .. size : s[i] = y
        BY <1>1
    <2>2. i # 1 /\ 1 < i
        BY <2>1, <1>1, <1>4
    <2>3. QED  BY <1>1, <1>3, <2>1, <2>2
<1>5. QED  BY <1>3, <1>4

PairSeqs == Seq([score : 0..10, match : BOOLEAN])

LEMMA PairsFit ==
    ASSUME NEW pairs \in PairSeqs
    PROVE  /\ Len(pairs) \in Nat /\ DOMAIN pairs = 1 .. Len(pairs) /\ IsFiniteSet(DOMAIN pairs)
           /\ \A i \in DOMAIN pairs : pairs[i].score \in 0..10 /\ pairs[i].match \in BOOLEAN
<1> DEFINE T == [score : 0..10, match : BOOLEAN]
<1>1. \A p \in T : p.score \in 0..10 /\ p.match \in BOOLEAN
    OBVIOUS
<1>2. pairs \in Seq(T)
    BY DEF PairSeqs
<1> HIDE DEF T
<1>3. Len(pairs) \in Nat /\ DOMAIN pairs = 1 .. Len(pairs) /\ \A i \in DOMAIN pairs : pairs[i] \in T
    BY <1>2
<1>4. QED  BY <1>1, <1>3, IndexesFinite

\* Every threshold splits the matching pairs into those it finds and those it misses.
LEMMA CountsFit ==
    ASSUME NEW pairs \in PairSeqs, NEW t
    PROVE  /\ Counts(pairs, t).tp \in Nat /\ Counts(pairs, t).fp \in Nat /\ Counts(pairs, t).fn \in Nat
           /\ Counts(pairs, t) = [tp |-> Counts(pairs, t).tp, fp |-> Counts(pairs, t).fp, fn |-> Counts(pairs, t).fn]
           /\ Counts(pairs, t).tp + Counts(pairs, t).fn = Cardinality({i \in DOMAIN pairs : pairs[i].match})
           /\ Counts(pairs, t).tp > 0 => \E i \in DOMAIN pairs : pairs[i].score >= t
<1> DEFINE D == DOMAIN pairs
           a == {i \in D : pairs[i].match = TRUE /\ (pairs[i].score >= t) = TRUE}
           b == {i \in D : pairs[i].match = TRUE /\ (pairs[i].score >= t) = FALSE}
           x == {i \in D : pairs[i].match = FALSE /\ (pairs[i].score >= t) = TRUE}
           positives == {i \in D : pairs[i].match}
<1>1. IsFiniteSet(D) /\ \A i \in D : pairs[i].match \in BOOLEAN
    BY PairsFit
<1>2. Counts(pairs, t) = [tp |-> Cardinality(a), fp |-> Cardinality(x), fn |-> Cardinality(b)]
    BY DEF Counts
<1>3. a \subseteq D /\ b \subseteq D /\ x \subseteq D
    OBVIOUS
<1>4. a \cup b = positives /\ a \cap b = {}
    BY <1>1
<1>5. a # {} => \E i \in D : pairs[i].score >= t
    OBVIOUS
<1> HIDE DEF a, b, x, D, positives
<1>6. IsFiniteSet(a) /\ IsFiniteSet(b) /\ IsFiniteSet(x)
    BY <1>1, <1>3, FS_Subset
<1>7. Cardinality(a) \in Nat /\ Cardinality(b) \in Nat /\ Cardinality(x) \in Nat
    BY <1>6, FS_CardinalityType
<1>8. Cardinality(a) + Cardinality(b) = Cardinality(positives)
    <2>1. Cardinality(a \cup b) = Cardinality(a) + Cardinality(b) - Cardinality(a \cap b)
        BY <1>6, FS_Union
    <2>2. Cardinality(a \cap b) = 0
        BY <1>4, FS_EmptySet
    <2>3. Cardinality(a \cup b) = Cardinality(positives)
        BY <1>4
    <2>4. QED  BY <1>7, <2>1, <2>2, <2>3
<1>9. Cardinality(a) > 0 => a # {}
    BY <1>7, FS_EmptySet
<1>10. QED  BY <1>2, <1>5, <1>7, <1>8, <1>9 DEF positives, D

\* Reports at two thresholds, compared by what they count.
LEMMA BetterFits ==
    ASSUME NEW pairs \in PairSeqs, NEW t \in 0..10, NEW u \in 0..10
    PROVE  Better(Report(pairs, t), Report(pairs, u)) <=>
               \/ Counts(pairs, t).tp > Counts(pairs, u).tp
               \/ Counts(pairs, t).tp = Counts(pairs, u).tp /\ Counts(pairs, t).fp < Counts(pairs, u).fp
               \/ Counts(pairs, t).tp = Counts(pairs, u).tp /\ Counts(pairs, t).fp = Counts(pairs, u).fp /\ t > u
<1>1. Counts(pairs, t) = Counts(pairs, u) <=>
          Counts(pairs, t).tp = Counts(pairs, u).tp /\ Counts(pairs, t).fp = Counts(pairs, u).fp
    <2>1. ASSUME Counts(pairs, t).tp = Counts(pairs, u).tp, Counts(pairs, t).fp = Counts(pairs, u).fp
          PROVE  Counts(pairs, t) = Counts(pairs, u)
        <3> DEFINE P == Cardinality({i \in DOMAIN pairs : pairs[i].match})
        <3>1. /\ Counts(pairs, t).tp + Counts(pairs, t).fn = P /\ Counts(pairs, u).tp + Counts(pairs, u).fn = P
              /\ Counts(pairs, t).tp \in Nat /\ Counts(pairs, u).tp \in Nat /\ Counts(pairs, t).fn \in Nat /\ Counts(pairs, u).fn \in Nat
            BY CountsFit
        <3> HIDE DEF P
        <3>2. Counts(pairs, t).fn = Counts(pairs, u).fn
            BY <2>1, <3>1
        <3>3. /\ Counts(pairs, t) = [tp |-> Counts(pairs, t).tp, fp |-> Counts(pairs, t).fp, fn |-> Counts(pairs, t).fn]
              /\ Counts(pairs, u) = [tp |-> Counts(pairs, u).tp, fp |-> Counts(pairs, u).fp, fn |-> Counts(pairs, u).fn]
            BY CountsFit
        <3>4. QED  BY <2>1, <3>2, <3>3
    <2>2. QED  BY <2>1
<1>2. QED  BY <1>1 DEF Better, Report

\* There is a best report, and it recalls the most.
LEMMA BestReport ==
    ASSUME NEW pairs \in PairSeqs, NEW meeting \in SUBSET (0..10), meeting # {}
    PROVE  LET t == CHOOSE t \in meeting : \A u \in meeting \ {t} : Better(Report(pairs, t), Report(pairs, u))
           IN  t \in meeting /\ \A u \in meeting : Counts(pairs, u).tp <= Counts(pairs, t).tp
<1> DEFINE R == {p \in meeting \X meeting : Better(Report(pairs, p[1]), Report(pairs, p[2]))}
           first == CHOOSE t \in meeting : \A u \in meeting \ {t} : Better(Report(pairs, t), Report(pairs, u))
           tp == [t \in 0..10 |-> Counts(pairs, t).tp]
           fp == [t \in 0..10 |-> Counts(pairs, t).fp]
<1>1. \A t, u \in meeting : <<t, u>> \in R <=> Better(Report(pairs, t), Report(pairs, u))
    OBVIOUS
<1>2. \A t \in meeting : t \in Int /\ tp[t] \in Nat /\ fp[t] \in Nat
    <2>1. ASSUME NEW t \in meeting PROVE t \in Int /\ tp[t] \in Nat /\ fp[t] \in Nat
        <3>1. t \in 0..10
            OBVIOUS
        <3>2. tp[t] = Counts(pairs, t).tp /\ fp[t] = Counts(pairs, t).fp
            BY <3>1
        <3>3. Counts(pairs, t).tp \in Nat /\ Counts(pairs, t).fp \in Nat
            BY CountsFit
        <3>4. QED  BY <3>1, <3>2, <3>3
    <2>2. QED  BY <2>1
<1>3. \A t, u \in meeting : Better(Report(pairs, t), Report(pairs, u)) <=>
          \/ tp[t] > tp[u] \/ (tp[t] = tp[u] /\ fp[t] < fp[u]) \/ (tp[t] = tp[u] /\ fp[t] = fp[u] /\ t > u)
    BY BetterFits
<1>4. IsFiniteSet(meeting)
    BY IndexesFinite, FS_Subset
<1>5. \A t \in meeting : tp[t] = Counts(pairs, t).tp
    OBVIOUS
<1> HIDE DEF R, tp, fp
<1>6. \A t, u \in meeting : <<t, u>> \in R <=>
          \/ tp[t] > tp[u] \/ (tp[t] = tp[u] /\ fp[t] < fp[u]) \/ (tp[t] = tp[u] /\ fp[t] = fp[u] /\ t > u)
    BY <1>1, <1>3
<1>7. Orders(R, meeting)
    BY <1>2, <1>6 DEF Orders
<1>8. PICK t \in meeting : \A u \in meeting \ {t} : <<t, u>> \in R
    BY <1>4, <1>7, FirstIsThere
<1>9. first \in meeting /\ \A u \in meeting \ {first} : Better(Report(pairs, first), Report(pairs, u))
    BY <1>1, <1>8
<1> HIDE DEF first
<1>10. \A u \in meeting : tp[u] <= tp[first]
    BY <1>2, <1>3, <1>9
<1>11. QED  BY <1>5, <1>9, <1>10 DEF first

\* A gate that opens: its threshold meets the floor and recalls the most.
LEMMA GateOpens ==
    ASSUME NEW pairs \in PairSeqs, NEW floor, Evaluate(pairs, floor).passed
    PROVE  LET t == Evaluate(pairs, floor).threshold
               passing == {u \in 0..10 : MeetsFloor(Counts(pairs, u), floor)}
           IN  t \in passing /\ \A u \in passing : Counts(pairs, u).tp <= Counts(pairs, t).tp
<1> DEFINE scores == {pairs[i].score : i \in DOMAIN pairs}
           meeting == {t \in scores : MeetsFloor(Counts(pairs, t), floor)}
           passing == {u \in 0..10 : MeetsFloor(Counts(pairs, u), floor)}
           first == CHOOSE t \in meeting : \A u \in meeting \ {t} : Better(Report(pairs, t), Report(pairs, u))
<1>1. \A i \in DOMAIN pairs : pairs[i].score \in 0..10
    BY PairsFit
<1>2. scores \subseteq 0..10
    BY <1>1
<1>3. meeting # {} /\ Evaluate(pairs, floor) = Report(pairs, first)
    <2>1. Rejected(pairs).passed = FALSE
        BY DEF Rejected
    <2>2. QED  BY <2>1 DEF Evaluate
<1>4. Evaluate(pairs, floor).threshold = first
    <2> HIDE DEF first
    <2>1. QED  BY <1>3 DEF Report
<1>5. meeting \in SUBSET (0..10)
    BY <1>2
<1>6. \A u : u \in meeting <=> u \in scores /\ MeetsFloor(Counts(pairs, u), floor)
    OBVIOUS
<1>7. \A i \in DOMAIN pairs : pairs[i].score \in scores
    OBVIOUS
<1> HIDE DEF meeting, scores
<1>8. first \in meeting /\ \A u \in meeting : Counts(pairs, u).tp <= Counts(pairs, first).tp
    BY <1>3, <1>5, BestReport
<1> HIDE DEF first
<1>9. ASSUME NEW u \in passing PROVE Counts(pairs, u).tp <= Counts(pairs, first).tp
    <2>1. u \in 0..10 /\ MeetsFloor(Counts(pairs, u), floor) /\ Counts(pairs, u).tp > 0
        BY DEF MeetsFloor
    <2>2. PICK k \in DOMAIN pairs : pairs[k].score >= u
        BY <2>1, CountsFit
    <2> DEFINE above == {s \in scores : s >= u}
               Lt == {p \in above \X above : p[1] < p[2]}
    <2>3. \A x, y \in above : <<x, y>> \in Lt <=> x < y
        OBVIOUS
    <2>4. \A x : x \in above <=> x \in scores /\ x >= u
        OBVIOUS
    <2> HIDE DEF Lt, above
    <2>5. above \in SUBSET (0..10) /\ above # {}
        BY <1>2, <1>7, <2>2, <2>4
    <2>6. IsFiniteSet(above)
        BY <2>5, IndexesFinite, FS_Subset
    <2>7. Orders(Lt, above)
        BY <2>3, <2>5 DEF Orders
    <2>8. PICK s \in above : \A y \in above \ {s} : <<s, y>> \in Lt
        BY <2>5, <2>6, <2>7, FirstIsThere
    <2>9. s \in 0..10 /\ s >= u /\ s \in scores
        BY <2>4, <2>5
    <2>10. \A y \in above : y >= s
        <3>1. ASSUME NEW y \in above PROVE y >= s
            <4>1. y = s \/ s < y
                BY <2>3, <2>8
            <4>2. QED  BY <2>5, <4>1
        <3>2. QED  BY <3>1
    <2>11. \A i \in DOMAIN pairs : pairs[i].score >= u <=> pairs[i].score >= s
        BY <1>1, <1>7, <2>1, <2>4, <2>9, <2>10
    <2>12. Counts(pairs, u) = Counts(pairs, s)
        <3>1. \A i \in DOMAIN pairs : (pairs[i].score >= u) = (pairs[i].score >= s)
            BY <2>11
        <3>2. \A m, p \in BOOLEAN : {i \in DOMAIN pairs : pairs[i].match = m /\ (pairs[i].score >= u) = p}
                                       = {i \in DOMAIN pairs : pairs[i].match = m /\ (pairs[i].score >= s) = p}
            BY <3>1
        <3>3. QED  BY <3>2 DEF Counts
    <2>13. s \in meeting
        BY <1>6, <2>1, <2>9, <2>12
    <2>14. QED  BY <1>8, <2>12, <2>13
<1>10. first \in passing
    BY <1>5, <1>6, <1>8
<1>11. QED  BY <1>4, <1>9, <1>10

ProposalFits(g, p) == p.source \in IdsOf(g) /\ p.target \in Int /\ p.as \subseteq Int \ GapIds /\ IsFiniteSet(p.as)

\* Of a finite slice there are finitely many proposals.
LEMMA ProposeFits ==
    ASSUME NEW g \in FlowGraphs, NEW sim
    PROVE  IsFiniteSet(Propose(g, sim)) /\ \A p \in Propose(g, sim) : ProposalFits(g, p)
<1>1. SliceFits(g) /\ IsFiniteSet(DOMAIN g.node) /\ IsFiniteSet(g.edges) /\ IdsOf(g) \subseteq Int
    BY FlowAssumption DEF SliceFits
<1> DEFINE hops == UnresolvedHops(g)
           cands == FillCandidates(g)
<1>2. IsFiniteSet(hops) /\ \A h \in hops : h.source \in IdsOf(g)
    <2> DEFINE U == {f \in g.edges : UnresolvedEdge(g, f)}
               F == [e \in U |-> [gap |-> e.dst, source |-> e.src, label |-> e.label,
                                  key |-> <<HopKind(e.label), Subtype(g, HopKind(e.label), e.dst)>>]]
    <2>1. U \subseteq g.edges
        OBVIOUS
    <2>2. hops = {F[e] : e \in U}
        BY DEF UnresolvedHops
    <2>3. \A e \in U : F[e].source = e.src /\ e.src \in IdsOf(g)
        BY DEF IdsOf
    <2>4. F = [e \in U |-> F[e]]
        OBVIOUS
    <2> HIDE DEF U, F, hops
    <2>5. IsFiniteSet(U)
        BY <1>1, <2>1, FS_Subset
    <2>6. IsFiniteSet(hops)
        BY <2>2, <2>4, <2>5, FiniteImage
    <2>7. QED  BY <2>2, <2>3, <2>6
<1>3. IsFiniteSet(cands) /\ \A c \in cands : c.id \in Int /\ c.as \subseteq Int \ GapIds /\ IsFiniteSet(c.as)
    <2> DEFINE cited(labels) == {n \in NodesOf(g, labels) : g.node[n].cited}
               A == cited({"Channel"})
               B == cited({"Symbol", "Component"})
               C == {r \in cited({"Resource"}) : g.node[r].sub # ""}
               FA == [n \in A |-> [id |-> n, key |-> <<"channel", g.node[n].sub>>, as |-> {}]]
               FB == [n \in B |-> [id |-> n, key |-> <<"call", "">>, as |-> {}]]
               FC == [n \in C |-> [id |-> MaterialisedId[n], key |-> <<"channel", g.node[n].sub>>, as |-> {MaterialisedId[n]}]]
    <2>1. cands = {FA[n] : n \in A} \cup {FB[n] : n \in B} \cup {FC[n] : n \in C}
        BY DEF FillCandidates
    <2>2. A \subseteq DOMAIN g.node /\ B \subseteq DOMAIN g.node /\ C \subseteq DOMAIN g.node
        BY DEF NodesOf
    <2>3. DOMAIN g.node \subseteq Int
        BY <1>1, TriggerSets
    <2>4. \A n \in C : MaterialisedId[n] \in Int \ GapIds
        BY SemanticAssumption
    <2>5. FA = [n \in A |-> FA[n]] /\ FB = [n \in B |-> FB[n]] /\ FC = [n \in C |-> FC[n]]
        OBVIOUS
    <2>6. IsFiniteSet({}) /\ \A x : IsFiniteSet({x})
        BY FS_EmptySet, FS_Singleton
    <2>7. \A n \in A : FA[n].id = n /\ FA[n].as = {}
        OBVIOUS
    <2>8. \A n \in B : FB[n].id = n /\ FB[n].as = {}
        OBVIOUS
    <2>9. \A n \in C : FC[n].id = MaterialisedId[n] /\ FC[n].as = {MaterialisedId[n]}
        OBVIOUS
    <2> HIDE DEF A, B, C, FA, FB, FC, cands
    <2>10. IsFiniteSet(A) /\ IsFiniteSet(B) /\ IsFiniteSet(C)
        BY <1>1, <2>2, FS_Subset
    <2>11. IsFiniteSet({FA[n] : n \in A})
        BY <2>5, <2>10, FiniteImage
    <2>12. IsFiniteSet({FB[n] : n \in B})
        BY <2>5, <2>10, FiniteImage
    <2>13. IsFiniteSet({FC[n] : n \in C})
        BY <2>5, <2>10, FiniteImage
    <2>14. IsFiniteSet({FA[n] : n \in A} \cup {FB[n] : n \in B})
        BY <2>11, <2>12, FS_Union
    <2>15. IsFiniteSet(cands)
        BY <2>1, <2>13, <2>14, FS_Union
    <2>16. ASSUME NEW c \in cands PROVE c.id \in Int /\ c.as \subseteq Int \ GapIds /\ IsFiniteSet(c.as)
        <3>1. CASE \E n \in A : c = FA[n]
            <4>1. PICK n \in A : c = FA[n]
                BY <3>1
            <4>2. n \in Int /\ c.id = n /\ c.as = {}
                BY <2>2, <2>3, <2>7, <4>1
            <4>3. QED  BY <2>6, <4>2
        <3>2. CASE \E n \in B : c = FB[n]
            <4>1. PICK n \in B : c = FB[n]
                BY <3>2
            <4>2. n \in Int /\ c.id = n /\ c.as = {}
                BY <2>2, <2>3, <2>8, <4>1
            <4>3. QED  BY <2>6, <4>2
        <3>3. CASE \E n \in C : c = FC[n]
            <4>1. PICK n \in C : c = FC[n]
                BY <3>3
            <4>2. c.id \in Int \ GapIds /\ c.as = {c.id}
                BY <2>4, <2>9, <4>1
            <4>3. QED  BY <2>6, <4>2
        <3>4. QED  BY <2>1, <3>1, <3>2, <3>3
    <2>17. QED  BY <2>15, <2>16
<1> HIDE DEF hops, cands
<1>4. ASSUME NEW h \in hops
      PROVE  IsFiniteSet(Nearest(g, h, sim)) /\ \A p \in Nearest(g, h, sim) : ProposalFits(g, p)
    <2> DEFINE K == {d \in cands : d.key = h.key}
               F == [c \in K |-> [gap |-> h.gap, source |-> h.source, label |-> h.label, target |-> c.id,
                                  sim |-> sim[<<h.gap, c.id>>], as |-> c.as]]
               all == {F[c] : c \in K}
    <2>1. Nearest(g, h, sim) \subseteq all
        BY DEF Nearest, cands
    <2>2. K \subseteq cands /\ F = [c \in K |-> F[c]]
        OBVIOUS
    <2>3. \A c \in K : F[c].source = h.source /\ F[c].target = c.id /\ F[c].as = c.as
        OBVIOUS
    <2>4. \A p \in all : \E c \in K : p = F[c]
        OBVIOUS
    <2> HIDE DEF K, F
    <2>5. IsFiniteSet(K)
        BY <1>3, <2>2, FS_Subset
    <2>6. IsFiniteSet(all)
        BY <2>2, <2>5, FiniteImage
    <2> HIDE DEF all
    <2>7. IsFiniteSet(Nearest(g, h, sim))
        BY <2>1, <2>6, FS_Subset
    <2>8. ASSUME NEW p \in all PROVE ProposalFits(g, p)
        <3>1. PICK c \in K : p = F[c]
            BY <2>4
        <3>2. c \in cands
            BY <2>2
        <3>3. QED  BY <1>2, <1>3, <2>3, <3>1, <3>2 DEF ProposalFits
    <2>9. QED  BY <2>1, <2>7, <2>8
<1>5. Propose(g, sim) = UNION {Nearest(g, h, sim) : h \in hops}
    BY DEF Propose, hops
<1> DEFINE F == [h \in hops |-> Nearest(g, h, sim)]
<1>6. {Nearest(g, h, sim) : h \in hops} = {F[h] : h \in hops} /\ F = [h \in hops |-> F[h]]
    OBVIOUS
<1>7. \A T \in {Nearest(g, h, sim) : h \in hops} : IsFiniteSet(T)
    BY <1>4
<1> HIDE DEF F
<1>8. IsFiniteSet({F[h] : h \in hops})
    BY <1>2, <1>6, FiniteImage
<1>9. IsFiniteSet(Propose(g, sim))
    <2> DEFINE Fam == {Nearest(g, h, sim) : h \in hops}
    <2>1. IsFiniteSet(Fam) /\ \A T \in Fam : IsFiniteSet(T)
        BY <1>6, <1>7, <1>8
    <2> HIDE DEF Fam
    <2>2. IsFiniteSet(UNION Fam)
        BY <2>1, FS_UNION
    <2>3. QED  BY <1>5, <2>2 DEF Fam
<1>10. QED  BY <1>4, <1>5, <1>9

\* The overlay of a stored slice.
LEMMA OverlayFits ==
    ASSUME NEW g \in FlowGraphs, NEW approved, IsFiniteSet(approved), \A p \in approved : ProposalFits(g, p)
    PROVE  SliceFits(Overlay(g, approved))
<1> DEFINE applied == Applied(g, approved)
           filled == {p.gap : p \in applied}
           kept == DOMAIN g.node \ filled
           new == (UNION {p.as : p \in applied}) \ kept
           stored == {e \in g.edges : e.dst \notin filled}
           guesses == {AsEdge(p) : p \in applied}
           o == Overlay(g, approved)
<1>1. SliceFits(g) /\ IsFiniteSet(DOMAIN g.node) /\ IsFiniteSet(g.edges) /\ IdsOf(g) \subseteq Int /\ \A e \in g.edges : ~e.guess
    BY FlowAssumption DEF SliceFits
<1>2. DOMAIN o.node = kept \cup new /\ o.edges = stored \cup guesses
    BY DEF Overlay
<1>3. applied \subseteq approved /\ kept \subseteq DOMAIN g.node /\ stored \subseteq g.edges /\ new \subseteq UNION {p.as : p \in applied}
    BY DEF Applied
<1>4. DOMAIN g.node \subseteq Int /\ \A e \in g.edges : e.src \in Int /\ e.dst \in Int
    BY <1>1 DEF IdsOf
<1>5. \A p \in applied : p.source \in Int /\ p.target \in Int /\ p.as \subseteq Int /\ IsFiniteSet(p.as)
    BY <1>1, <1>3 DEF ProposalFits
<1>6. IsFiniteSet(applied)
    BY <1>3, FS_Subset
<1>7. IsFiniteSet(guesses)
    <2> DEFINE F == [p \in applied |-> AsEdge(p)]
    <2>1. guesses = {F[p] : p \in applied} /\ F = [p \in applied |-> F[p]]
        OBVIOUS
    <2> HIDE DEF F, guesses, applied
    <2>2. QED  BY <1>6, <2>1, FiniteImage
<1>8. IsFiniteSet(UNION {p.as : p \in applied})
    <2> DEFINE F == [p \in applied |-> p.as]
               Fam == {p.as : p \in applied}
    <2>1. Fam = {F[p] : p \in applied} /\ F = [p \in applied |-> F[p]]
        OBVIOUS
    <2>2. \A T \in Fam : IsFiniteSet(T)
        BY <1>5
    <2> HIDE DEF F, Fam, applied
    <2>3. IsFiniteSet(Fam)
        BY <1>6, <2>1, FiniteImage
    <2>4. IsFiniteSet(UNION Fam)
        BY <2>2, <2>3, FS_UNION
    <2>5. QED  BY <2>4 DEF Fam
<1>9. \A e \in guesses : \E p \in applied : e = [src |-> p.source, dst |-> p.target, label |-> p.label, conf |-> "InferredStrong", rule |-> FALSE, guess |-> TRUE]
    BY DEF AsEdge
<1>10. UNION {p.as : p \in applied} \subseteq Int
    BY <1>5
<1> HIDE DEF applied, kept, new, stored, guesses, o
<1>11. IsFiniteSet(kept) /\ IsFiniteSet(new) /\ IsFiniteSet(stored)
    BY <1>1, <1>3, <1>8, FS_Subset
<1>12. IsFiniteSet(DOMAIN o.node) /\ IsFiniteSet(o.edges)
    <2>1. IsFiniteSet(kept \cup new)
        BY <1>11, FS_Union
    <2>2. IsFiniteSet(stored \cup guesses)
        BY <1>7, <1>11, FS_Union
    <2>3. QED  BY <1>2, <2>1, <2>2
<1>13. ASSUME NEW e \in guesses PROVE e.src \in Int /\ e.dst \in Int /\ e.guess = TRUE /\ \E p \in applied : e = AsEdge(p)
    <2>1. PICK p \in applied : e = [src |-> p.source, dst |-> p.target, label |-> p.label, conf |-> "InferredStrong", rule |-> FALSE, guess |-> TRUE]
        BY <1>9
    <2>2. QED  BY <1>5, <2>1 DEF AsEdge
<1>14. \A e \in stored : e.src \in Int /\ e.dst \in Int /\ e.guess \in BOOLEAN /\ ~e.guess
    BY <1>1, <1>3, <1>4 DEF SliceFits
<1>15. IdsOf(o) \subseteq Int
    <2>1. kept \subseteq Int /\ new \subseteq Int
        BY <1>3, <1>4, <1>10
    <2>2. QED  BY <1>2, <1>13, <1>14, <2>1 DEF IdsOf
<1>16. \A e \in o.edges : e.guess \in BOOLEAN
    BY <1>2, <1>13, <1>14
<1>17. ASSUME NEW e \in o.edges, NEW f \in o.edges, Parallel(e, f), e.guess = f.guess PROVE e = f
    <2>1. CASE e \in stored /\ f \in stored
        <3>1. e \in g.edges /\ f \in g.edges
            BY <1>3, <2>1
        <3>2. QED  BY <1>1, <1>17, <3>1 DEF SliceFits
    <2>2. CASE e \in guesses /\ f \in guesses
        <3>1. PICK p \in applied : e = [src |-> p.source, dst |-> p.target, label |-> p.label, conf |-> "InferredStrong", rule |-> FALSE, guess |-> TRUE]
            BY <1>9, <2>2
        <3>2. PICK q \in applied : f = [src |-> q.source, dst |-> q.target, label |-> q.label, conf |-> "InferredStrong", rule |-> FALSE, guess |-> TRUE]
            BY <1>9, <2>2
        <3>3. p.source = q.source /\ p.target = q.target /\ p.label = q.label
            BY <1>17, <3>1, <3>2 DEF Parallel
        <3>4. QED  BY <3>1, <3>2, <3>3
    <2>3. CASE e \in stored /\ f \in guesses
        BY <1>13, <1>14, <1>17, <2>3
    <2>4. CASE e \in guesses /\ f \in stored
        BY <1>13, <1>14, <1>17, <2>4
    <2>5. QED  BY <1>2, <2>1, <2>2, <2>3, <2>4
<1>18. QED  BY <1>12, <1>15, <1>16, <1>17 DEF SliceFits, o

\* What a node leads to comes of an edge.
LEMMA LeadsEdge ==
    ASSUME NEW g, NEW n, NEW h \in Leads(g, n)
    PROVE  /\ n \notin NodesOf(g, {"Gap"})
           /\ \E e \in g.edges : \/ Walked(g, e) /\ e.src = n /\ h = Hop(e, e.src, e.dst)
                                 \/ e.label \in {"SUBSCRIBES", "DEFINED_IN"} /\ e.dst = n /\ h = Hop(e, e.dst, e.src)
<1>1. n \notin NodesOf(g, {"Gap"})
    BY DEF Leads
<1>2. PICK o \in Outgoing(g, n) : h = o.hop
    BY DEF Leads
<1>3. QED  BY <1>1, <1>2 DEF Outgoing

LEMMA EdgeLeads ==
    ASSUME NEW g, NEW n, n \notin NodesOf(g, {"Gap"}), NEW e \in g.edges, ~e.guess,
           NEW h, \/ Walked(g, e) /\ e.src = n /\ h = Hop(e, e.src, e.dst)
                  \/ e.label \in {"SUBSCRIBES", "DEFINED_IN"} /\ e.dst = n /\ h = Hop(e, e.dst, e.src)
    PROVE  h \in Leads(g, n)
<1> DEFINE o == [hop |-> h, guess |-> e.guess]
<1>1. o \in Outgoing(g, n)
    BY DEF Outgoing
<1>2. o.hop = h /\ ~o.guess
    OBVIOUS
<1> HIDE DEF o
<1>3. QED  BY <1>1, <1>2 DEF Leads

\* The overlay keeps the hops that end at no filled gap, and its confirmed
\* hops are hops of the stored slice.
LEMMA OverlayLeads ==
    ASSUME NEW g \in FlowGraphs, NEW approved, \A p \in approved : ProposalFits(g, p)
    PROVE  LET filled == {p.gap : p \in Applied(g, approved)}
               o == Overlay(g, approved)
           IN  /\ \A n \in filled : n \in NodesOf(g, {"Gap"})
               /\ \A n : \A h \in Leads(g, n) : h.dst \notin filled => h \in Leads(o, n)
               /\ \A n : \A h \in Leads(o, n) : h.conf = "Confirmed" => h \in Leads(g, n)
<1> DEFINE applied == Applied(g, approved)
           filled == {p.gap : p \in applied}
           kept == DOMAIN g.node \ filled
           new == (UNION {p.as : p \in applied}) \ kept
           stored == {e \in g.edges : e.dst \notin filled}
           guesses == {AsEdge(p) : p \in applied}
           o == Overlay(g, approved)
<1>1. filled \subseteq NodesOf(g, {"Gap"})
    BY DEF Applied
<1>2. o = [node |-> [n \in kept \cup new |-> IF n \in kept THEN g.node[n] ELSE MaterialisedChannel], edges |-> stored \cup guesses]
    BY DEF Overlay
<1>3. DOMAIN o.node = kept \cup new /\ o.edges = stored \cup guesses
    BY <1>2
<1>4. \A n \in kept : o.node[n] = g.node[n]
    BY <1>2
<1>5. \A n \in new : n \notin kept /\ o.node[n].label = "Channel"
    BY <1>2 DEF MaterialisedChannel
<1>6. \A e \in guesses : e.conf = "InferredStrong"
    BY DEF AsEdge
<1>7. \A e \in stored : e \in g.edges /\ e.dst \notin filled
    OBVIOUS
<1>8. \A e \in g.edges : e.dst \notin filled => e \in stored
    OBVIOUS
<1>9. kept \subseteq DOMAIN g.node /\ \A n \in DOMAIN g.node : n \notin filled => n \in kept
    OBVIOUS
<1>10. \A n \in kept : n \notin filled
    OBVIOUS
<1> HIDE DEF applied, filled, kept, new, stored, guesses, o
<1>11. NodesOf(o, {"Gap"}) = NodesOf(g, {"Gap"}) \ filled
    BY <1>3, <1>4, <1>5, <1>9, <1>10 DEF NodesOf
<1>12. \A e \in g.edges : ~e.guess /\ (e.src \in NodesOf(g, {"Gap"}) => e.conf # "Confirmed")
    BY FlowAssumption, SemanticAssumption
<1>13. \A n \in kept : o.node[n].rule = g.node[n].rule
    BY <1>4
<1>14. \A n \in NodesOf(g, {"Gap"}) : n \notin filled => n \in kept
    BY <1>9 DEF NodesOf
<1>15. \A e \in stored : Walked(o, e) <=> Walked(g, e)
    <2>1. \A c \in new : c \notin GapIds
        BY DEF new, applied, Applied, ProposalFits
    <2>2. \A id : id \notin filled /\ id \in GapIds => (id \in DOMAIN o.node <=> id \in DOMAIN g.node)
        BY <1>3, <1>9, <2>1
    <2>3. \A id : id \notin filled => (ExecutionGap(o, id) <=> ExecutionGap(g, id))
        BY <1>11, <1>13, <1>14, <2>2 DEF ExecutionGap
    <2>4. QED  BY <1>7, <2>3 DEF Walked
<1>16. ASSUME NEW n, NEW h \in Leads(g, n), h.dst \notin filled PROVE h \in Leads(o, n)
    <2>1. n \notin NodesOf(g, {"Gap"}) /\ n \notin filled /\ n \notin NodesOf(o, {"Gap"})
        BY <1>1, <1>11, LeadsEdge
    <2>2. PICK e \in g.edges : \/ Walked(g, e) /\ e.src = n /\ h = Hop(e, e.src, e.dst)
                               \/ e.label \in {"SUBSCRIBES", "DEFINED_IN"} /\ e.dst = n /\ h = Hop(e, e.dst, e.src)
        BY LeadsEdge
    <2>3. e.dst \notin filled
        BY <1>16, <2>1, <2>2 DEF Hop
    <2>4. e \in o.edges /\ e \in stored /\ ~e.guess
        BY <1>3, <1>8, <1>12, <2>3
    <2>5. \/ Walked(o, e) /\ e.src = n /\ h = Hop(e, e.src, e.dst)
          \/ e.label \in {"SUBSCRIBES", "DEFINED_IN"} /\ e.dst = n /\ h = Hop(e, e.dst, e.src)
        BY <1>15, <2>2, <2>4
    <2>6. QED  BY <2>1, <2>4, <2>5, EdgeLeads
<1>17. ASSUME NEW n, NEW h \in Leads(o, n), h.conf = "Confirmed" PROVE h \in Leads(g, n)
    <2>1. n \notin NodesOf(o, {"Gap"})
        BY LeadsEdge
    <2>2. PICK e \in o.edges : \/ Walked(o, e) /\ e.src = n /\ h = Hop(e, e.src, e.dst)
                               \/ e.label \in {"SUBSCRIBES", "DEFINED_IN"} /\ e.dst = n /\ h = Hop(e, e.dst, e.src)
        BY LeadsEdge
    <2>3. e.conf = "Confirmed"
        BY <1>17, <2>2 DEF Hop, Confidence
    <2>4. e \in stored /\ e \in g.edges /\ e.dst \notin filled /\ ~e.guess
        BY <1>3, <1>6, <1>7, <1>12, <2>3
    <2>5. n \notin NodesOf(g, {"Gap"})
        BY <1>11, <1>12, <2>1, <2>2, <2>3, <2>4
    <2>6. \/ Walked(g, e) /\ e.src = n /\ h = Hop(e, e.src, e.dst)
          \/ e.label \in {"SUBSCRIBES", "DEFINED_IN"} /\ e.dst = n /\ h = Hop(e, e.dst, e.src)
        BY <1>15, <2>2, <2>4
    <2>7. QED  BY <2>4, <2>5, <2>6, EdgeLeads
<1>18. QED  BY <1>1, <1>16, <1>17 DEF filled, applied, o

\* What a trigger of both leads to, in the stored slice and in the overlay.
LEMMA OverlayHops ==
    ASSUME NEW g \in FlowGraphs, NEW approved, SliceFits(Overlay(g, approved)), \A p \in approved : ProposalFits(g, p),
           NEW t \in DOMAIN g.node, t \in DOMAIN Overlay(g, approved).node
    PROVE  LET filled == {p.gap : p \in Applied(g, approved)}
               o == Overlay(g, approved)
           IN  /\ \A h \in AllHops(g, t) : h.dst \in filled \/ h \in AllHops(o, t)
               /\ (\A h \in AllHops(o, t) : h.conf = "Confirmed") => AllHops(o, t) \subseteq AllHops(g, t)
<1> DEFINE filled == {p.gap : p \in Applied(g, approved)}
           o == Overlay(g, approved)
           RG == Reached(g, t)
           RO == Reached(o, t)
<1>1. SliceFits(g) /\ t \in IdsOf(g) /\ t \in IdsOf(o)
    BY FlowAssumption DEF IdsOf
<1>2. /\ \A n \in filled : n \in NodesOf(g, {"Gap"})
      /\ \A n : \A h \in Leads(g, n) : h.dst \notin filled => h \in Leads(o, n)
      /\ \A n : \A h \in Leads(o, n) : h.conf = "Confirmed" => h \in Leads(g, n)
    BY OverlayLeads
<1>3. \A n \in filled : Leads(g, n) = {}
    BY <1>2 DEF Leads
<1> HIDE DEF filled, o
<1>4. SliceFits(o)
    BY DEF o
<1>5. /\ t \in RG /\ RG \subseteq IdsOf(g) /\ \A n \in RG : \A h \in Leads(g, n) : h.dst \in RG
      /\ \A ids \in SUBSET IdsOf(g) : t \in ids /\ (\A n \in ids : \A h \in Leads(g, n) : h.dst \in ids) => RG \subseteq ids
    BY <1>1, ReachedFits
<1>6. /\ t \in RO /\ RO \subseteq IdsOf(o) /\ \A n \in RO : \A h \in Leads(o, n) : h.dst \in RO
      /\ \A ids \in SUBSET IdsOf(o) : t \in ids /\ (\A n \in ids : \A h \in Leads(o, n) : h.dst \in ids) => RO \subseteq ids
    BY <1>1, <1>4, ReachedFits
<1>7. AllHops(g, t) = UNION {Leads(g, n) : n \in RG} /\ AllHops(o, t) = UNION {Leads(o, n) : n \in RO}
    BY DEF AllHops
<1> HIDE DEF RG, RO
<1>8. ASSUME NEW h \in AllHops(g, t) PROVE h.dst \in filled \/ h \in AllHops(o, t)
    <2> DEFINE C == {n \in RG : n \in RO \/ n \in filled}
    <2>1. C \in SUBSET IdsOf(g) /\ t \in C
        BY <1>5, <1>6
    <2>2. ASSUME NEW n \in C, NEW k \in Leads(g, n) PROVE k.dst \in C
        <3>1. n \in RG /\ n \in RO
            BY <1>3, <2>2
        <3>2. QED  BY <1>2, <1>5, <1>6, <2>2, <3>1
    <2>3. RG \subseteq C
        <3> HIDE DEF C
        <3>1. QED  BY <1>5, <2>1, <2>2
    <2>4. PICK n \in RG : h \in Leads(g, n)
        BY <1>7
    <2>5. n \in RO
        BY <1>3, <2>3, <2>4
    <2>6. QED  BY <1>2, <1>7, <2>4, <2>5
<1>9. ASSUME \A h \in AllHops(o, t) : h.conf = "Confirmed" PROVE AllHops(o, t) \subseteq AllHops(g, t)
    <2> DEFINE C == {n \in RO : n \in RG}
    <2>1. \A n \in RO : \A h \in Leads(o, n) : h \in Leads(g, n)
        BY <1>2, <1>7, <1>9
    <2>2. C \in SUBSET IdsOf(o) /\ t \in C
        BY <1>5, <1>6
    <2>3. \A n \in C : \A h \in Leads(o, n) : h.dst \in C
        BY <1>5, <1>6, <2>1
    <2>4. RO \subseteq C
        <3> HIDE DEF C
        <3>1. QED  BY <1>6, <2>2, <2>3
    <2>5. QED  BY <1>7, <2>1, <2>4
<1>10. QED  BY <1>8, <1>9 DEF filled, o

-----------------------------------------------------------------------------
LEMMA ApprovedFits ==
    ASSUME NEW g \in FlowGraphs, NEW sim, NEW eval
    PROVE  /\ SliceFits(Overlay(g, GatedProposals(Propose(g, sim), eval)))
           /\ \A p \in GatedProposals(Propose(g, sim), eval) : eval.passed /\ p.sim >= eval.threshold /\ ProposalFits(g, p)
<1> DEFINE A == GatedProposals(Propose(g, sim), eval)
<1>1. A \subseteq Propose(g, sim) /\ \A p \in A : eval.passed /\ p.sim >= eval.threshold
    BY DEF GatedProposals
<1>2. IsFiniteSet(Propose(g, sim)) /\ \A p \in Propose(g, sim) : ProposalFits(g, p)
    BY ProposeFits
<1> HIDE DEF A
<1>3. IsFiniteSet(A) /\ \A p \in A : ProposalFits(g, p)
    BY <1>1, <1>2, FS_Subset
<1>4. SliceFits(Overlay(g, A))
    BY <1>3, OverlayFits
<1>5. QED  BY <1>1, <1>3, <1>4 DEF A

LEMMA PreviewInitFits == PreviewInit => PreviewInv
BY FlowInitFits DEF PreviewInit, PreviewInv, FlowInit

LEMMA ListFlowsKeeps == PreviewInv /\ ListFlows => PreviewInv'
<1>1. SUFFICES ASSUME PreviewInv, ListFlows PROVE PreviewInv'
    OBVIOUS
<1>2. TraceInv /\ phase = "idle" /\ slice \in FlowGraphs /\ preview = {} /\ preview' = {} /\ Trace(slice) /\ phase' = "anchors"
    BY <1>1 DEF PreviewInv, ListFlows, Trace
<1>3. SliceFits(slice)
    BY <1>2 DEF TraceInv
<1>4. TraceInv'
    BY <1>2, <1>3, TraceKeeps
<1>5. QED  BY <1>2, <1>4 DEF PreviewInv

LEMMA SemanticPreviewKeeps == PreviewInv /\ SemanticPreview => PreviewInv'
<1>1. SUFFICES ASSUME PreviewInv, SemanticPreview PROVE PreviewInv'
    OBVIOUS
<1>2. PICK sim \in Similarities, pairs \in EvalSets, floor \in Floors :
          LET eval == Evaluate(pairs, floor)
              approved == GatedProposals(Propose(slice, sim), eval)
          IN  /\ EvalValid(pairs, floor)
              /\ Trace(Overlay(slice, approved))
              /\ preview' = {[stored |-> slice, pairs |-> pairs, floor |-> floor, eval |-> eval, approved |-> approved]}
    BY <1>1 DEF SemanticPreview
<1> DEFINE eval == Evaluate(pairs, floor)
           approved == GatedProposals(Propose(slice, sim), eval)
           v == [stored |-> slice, pairs |-> pairs, floor |-> floor, eval |-> eval, approved |-> approved]
<1>3. EvalValid(pairs, floor) /\ Trace(Overlay(slice, approved)) /\ preview' = {v}
    BY <1>2
<1>4. v.stored = slice /\ v.pairs = pairs /\ v.floor = floor /\ v.eval = eval /\ v.approved = approved
    OBVIOUS
<1> HIDE DEF v
<1>5. TraceInv /\ phase = "idle" /\ slice \in FlowGraphs
    BY <1>1, <1>3 DEF PreviewInv, Trace
<1>6. SliceFits(Overlay(slice, approved))
    BY <1>5, ApprovedFits
<1>7. slice' = Overlay(slice, approved) /\ phase' = "anchors"
    BY <1>3 DEF Trace
<1>8. TraceInv'
    BY <1>3, <1>5, <1>6, TraceKeeps
<1>9. /\ v.stored \in FlowGraphs /\ slice' = Overlay(v.stored, v.approved)
      /\ v.pairs \in EvalSets /\ EvalValid(v.pairs, v.floor) /\ v.eval = Evaluate(v.pairs, v.floor)
      /\ v.approved = GatedProposals(Propose(v.stored, sim), v.eval)
    BY <1>3, <1>4, <1>5, <1>7
<1>10. QED  BY <1>3, <1>7, <1>8, <1>9 DEF PreviewInv

LEMMA TraceStepKeepsPreview == PreviewInv /\ TraceStep /\ UNCHANGED preview => PreviewInv'
<1>1. SUFFICES ASSUME PreviewInv, TraceStep, UNCHANGED preview PROVE PreviewInv'
    OBVIOUS
<1>2. TraceInv'
    BY <1>1, TraceStepKeeps DEF PreviewInv
<1>3. slice' = slice /\ (phase' = phase \/ phase' \in {"rest", "done"}) /\ preview' = preview
    BY <1>1 DEF TraceStep, Begin, PopEntry, EndWalk, TraceRest, Return
<1>4. QED  BY <1>1, <1>2, <1>3 DEF PreviewInv

\* An unchanged step of the trace and the preview.
LEMMA PreviewStutters == PreviewInv /\ UNCHANGED previewVars => PreviewInv'
<1>1. SUFFICES ASSUME PreviewInv, UNCHANGED previewVars PROVE PreviewInv'
    OBVIOUS
<1>2. slice' = slice /\ phase' = phase /\ todo' = todo /\ walk' = walk /\ flows' = flows /\ preview' = preview
    BY <1>1 DEF previewVars, flowVars
<1>3. TriggersFit' <=> TriggersFit
    BY <1>2 DEF TriggersFit
<1>4. TraceInv'
    BY <1>1, <1>2, <1>3 DEF PreviewInv, TraceInv
<1>5. QED  BY <1>1, <1>2, <1>4 DEF PreviewInv

THEOREM PreviewInvariance == PreviewSpec => []PreviewInv
<1>1. PreviewInv /\ [PreviewNext]_previewVars => PreviewInv'
    BY ListFlowsKeeps, SemanticPreviewKeeps, TraceStepKeepsPreview, PreviewStutters DEF PreviewNext
<1>2. QED  BY <1>1, PreviewInitFits, PTL DEF PreviewSpec

THEOREM TraceWhole == PreviewSpec => []TraceIsWhole
<1>1. PreviewInv => TraceIsWhole
    BY InvIsWhole DEF PreviewInv
<1>2. QED  BY <1>1, PreviewInvariance, PTL

LEMMA InvOnlyFills == PreviewInv => OverlayOnlyFills
<1>1. SUFFICES ASSUME PreviewInv, phase = "done", NEW v \in preview
               PROVE  LET filled == {p.gap : p \in Applied(v.stored, v.approved)}
                          passing == {t \in 0..10 : MeetsFloor(Counts(v.pairs, t), v.floor)}
                      IN  /\ \A p \in v.approved :
                                /\ p.sim >= v.eval.threshold /\ v.eval.threshold \in passing
                                /\ \A t \in passing : Counts(v.pairs, t).tp <= Counts(v.pairs, v.eval.threshold).tp
                          /\ \A f \in ToSet(flows) : f.trigger \in DOMAIN v.stored.node =>
                                LET before == AllHops(v.stored, f.trigger)
                                IN  /\ ~f.depth_limited => \A h \in before : h.dst \in filled \/ h \in ToSet(f.hops)
                                    /\ f.status = "Verified" => ToSet(f.hops) \subseteq before
    BY DEF OverlayOnlyFills
<1> DEFINE filled == {p.gap : p \in Applied(v.stored, v.approved)}
           passing == {t \in 0..10 : MeetsFloor(Counts(v.pairs, t), v.floor)}
<1>2. /\ v.stored \in FlowGraphs /\ slice = Overlay(v.stored, v.approved)
      /\ v.pairs \in PairSeqs /\ v.eval = Evaluate(v.pairs, v.floor)
      /\ \E sim \in Similarities : v.approved = GatedProposals(Propose(v.stored, sim), v.eval)
    BY <1>1, PreviewAssumption DEF PreviewInv, PairSeqs
<1>3. TraceInv /\ SliceFits(slice)
    BY <1>1 DEF PreviewInv, TraceInv
<1>4. ASSUME NEW p \in v.approved
      PROVE  /\ p.sim >= v.eval.threshold /\ v.eval.threshold \in passing
             /\ \A t \in passing : Counts(v.pairs, t).tp <= Counts(v.pairs, v.eval.threshold).tp
    <2>1. v.eval.passed /\ p.sim >= v.eval.threshold
        BY <1>2, ApprovedFits
    <2>2. QED  BY <1>2, <2>1, GateOpens
<1>5. ASSUME NEW f \in ToSet(flows), f.trigger \in DOMAIN v.stored.node
      PROVE  /\ ~f.depth_limited => \A h \in AllHops(v.stored, f.trigger) : h.dst \in filled \/ h \in ToSet(f.hops)
             /\ f.status = "Verified" => ToSet(f.hops) \subseteq AllHops(v.stored, f.trigger)
    <2>1. FlowFits(slice, f) /\ f \in FlowRecords(slice) /\ f.score = Score(f.hops)
        <3>1. flows \in Seq(FlowRecords(slice))
            BY <1>3 DEF TraceInv
        <3>2. QED  BY <1>3, <3>1, SetOfSeq DEF TraceInv
    <2>2. f.trigger \in DOMAIN slice.node
        BY <2>1 DEF FlowRecords
    <2>3. /\ \A h \in AllHops(v.stored, f.trigger) : h.dst \in filled \/ h \in AllHops(slice, f.trigger)
          /\ (\A h \in AllHops(slice, f.trigger) : h.conf = "Confirmed") => AllHops(slice, f.trigger) \subseteq AllHops(v.stored, f.trigger)
        <3>1. \A p \in v.approved : ProposalFits(v.stored, p)
            BY <1>2, ApprovedFits
        <3>2. QED  BY <1>2, <1>3, <1>5, <2>2, <3>1, OverlayHops
    <2>4. ~f.depth_limited => ToSet(f.hops) = AllHops(slice, f.trigger)
        BY <2>1 DEF FlowFits
    <2>5. f.status = "Verified" => ToSet(f.hops) = AllHops(slice, f.trigger)
        BY <2>1 DEF FlowFits
    <2>6. f.status = "Verified" => \A h \in ToSet(f.hops) : h.conf = "Confirmed"
        <3>1. f.hops \in Seq(HopRecords(slice))
            BY <2>1 DEF FlowRecords
        <3>2. f.score = [sum |-> Score(f.hops).sum, of |-> Len(f.hops)]
            BY <2>1, <3>1, ScoreFits
        <3>3. f.score.sum = Score(f.hops).sum /\ f.score.of = Len(f.hops)
            BY <3>2
        <3>4. f.status = "Verified" => Score(f.hops).sum = 10 * Len(f.hops)
            BY <2>1, <3>3 DEF FlowFits
        <3>5. QED  BY <3>1, <3>4, ScoreFits
    <2>7. QED  BY <2>3, <2>4, <2>5, <2>6
<1>6. QED  BY <1>4, <1>5

THEOREM OverlayFills == PreviewSpec => []OverlayOnlyFills
BY InvOnlyFills, PreviewInvariance, PTL

-----------------------------------------------------------------------------
(* Plugins: what a published recovery assembled.                           *)

\* A copy that wins is one in the repository or one of the user.
LEMMA WinnerHere ==
    ASSUME NEW root, NEW id, NEW p \in Winner(<<root>>, id)
    PROVE  p \in {User, root}
<1> DEFINE I == {i \in 1..Len(<<root>>) : disk[<<root>>[i]][id] # Nothing}
<1>1. Len(<<root>>) = 1 /\ <<root>>[1] = root
    OBVIOUS
<1>2. I \subseteq {1}
    BY <1>1
<1>3. CASE I = {}
  <2>1. SelectInSeq(<<root>>, LAMBDA r : disk[r][id] # Nothing) = 0
      BY <1>3 DEF SelectInSeq
  <2>2. QED  BY <2>1 DEF Winner
<1>4. CASE I # {}
  <2>1. I = {1}
      BY <1>2, <1>4
  <2>2. SelectInSeq(<<root>>, LAMBDA r : disk[r][id] # Nothing) = 1
    <3>1. Min(I) = 1
        BY <2>1 DEF Min
    <3>2. QED  BY <1>4, <3>1 DEF SelectInSeq
  <2>3. QED  BY <1>1, <2>2 DEF Winner
<1>5. QED  BY <1>3, <1>4

\* A finite set listed in some order is a sequence of its elements.
LEMMA ListingOfSet ==
    ASSUME NEW S, IsFiniteSet(S)
    PROVE  /\ SetToSeq(S) \in Seq(S)
           /\ DOMAIN SetToSeq(S) = 1..Len(SetToSeq(S)) /\ Len(SetToSeq(S)) \in Nat
           /\ ToSet(SetToSeq(S)) \subseteq S
<1>1. Cardinality(S) \in Nat /\ ExistsBijection(1..Cardinality(S), S)
    BY FS_CardinalityType
<1>2. PICK f \in Bijection(1..Cardinality(S), S) : TRUE
    BY <1>1 DEF ExistsBijection
<1>3. f \in [1..Cardinality(S) -> S] /\ IsInjective(f)
    BY <1>2 DEF Bijection, Injection, IsInjective
<1>4. SetToSeq(S) \in [1..Cardinality(S) -> S]
    BY <1>3 DEF SetToSeq
<1>5. SetToSeq(S) \in Seq(S) /\ Len(SetToSeq(S)) = Cardinality(S)
    BY <1>1, <1>4
<1>6. QED  BY <1>1, <1>4, <1>5 DEF ToSet

\* One entry for each plugin at one place: finitely many.
LEMMA ListedAtFinite ==
    ASSUME NEW place
    PROVE  IsFiniteSet({Listed(id, place) : id \in PluginIds})
<1> DEFINE T == {Listed(id, place) : id \in PluginIds}
           f == [id \in PluginIds |-> Listed(id, place)]
<1>1. f \in Surjection(PluginIds, T)
    BY DEF Surjection
<1>2. QED  BY <1>1, PluginAssumption, FS_Surjection

\* What a recovery lists is a sequence of enabled copies that passed.
LEMMA ListingFits ==
    ASSUME NEW root
    PROVE  /\ DOMAIN ActivePlugins(root) = 1..Len(ActivePlugins(root)) /\ Len(ActivePlugins(root)) \in Nat
           /\ \A a \in ToSet(ActivePlugins(root)) :
                 \E id \in PluginIds, p \in {User, root} : Active(root, id, p) /\ a = Listed(id, p)
<1> DEFINE W(id) == {p \in Winner(<<root>>, id) : Active(root, id, p)}
           All == UNION {{Listed(id, p) : p \in W(id)} : id \in PluginIds}
           At(place) == {Listed(id, place) : id \in PluginIds}
<1>1. \A a \in All : \E id \in PluginIds, p \in {User, root} : Active(root, id, p) /\ a = Listed(id, p)
    BY WinnerHere
<1>2. All \subseteq At(User) \cup At(root)
    BY <1>1
<1>3. IsFiniteSet(All)
  <2>1. IsFiniteSet(At(User) \cup At(root))
      BY ListedAtFinite, FS_Union
  <2>2. QED  BY <1>2, <2>1, FS_Subset
<1>4. ActivePlugins(root) = SetToSeq(All)
    BY DEF ActivePlugins
<1> HIDE DEF All
<1>5. /\ DOMAIN SetToSeq(All) = 1..Len(SetToSeq(All)) /\ Len(SetToSeq(All)) \in Nat
      /\ ToSet(SetToSeq(All)) \subseteq All
    BY <1>3, ListingOfSet
<1>6. QED  BY <1>1, <1>4, <1>5


\* Nothing is vouched for, enabled or listed at first.
LEMMA GateInvInit == PluginInit => GateInv
<1> SUFFICES ASSUME PluginInit PROVE GateInv
    OBVIOUS
<1>1. /\ rec = NoRecovery /\ rec.active = <<>> /\ rec.facts = <<>>
      /\ gate = NoGate /\ gate.at = "idle" /\ published = {}
    BY DEF PluginInit, NoRecovery, NoGate
<1>2. ToSet(rec.active) = {} /\ DOMAIN rec.active = 1..0 /\ Len(rec.active) = 0
    BY <1>1 DEF ToSet
<1>3. VerdictsFit
    BY DEF PluginInit, VerdictsFit
<1>4. EnablementsFit
    BY DEF PluginInit, EnablementsFit
<1>5. LoadsFit
    BY <1>1, <1>2 DEF LoadsFit
<1>6. AnswersAreGated
    BY <1>1 DEF AnswersAreGated
<1>7. TestFits /\ ListedGated
    BY <1>1, <1>2 DEF TestFits, ListedGated
<1>8. QED  BY <1>3, <1>4, <1>5, <1>6, <1>7 DEF GateInv

\* A cause does not go away.
LEMMA StaysGated ==
    ASSUME vouched \subseteq vouched', granted \subseteq granted', NEW root, NEW id, NEW build, Gated(root, id, build)
    PROVE  Gated(root, id, build)'
BY DEF Gated

\* What was published stays an assembly of gated answers.
LEMMA PublishedKept ==
    ASSUME AnswersAreGated, published' = published, found' = found, vouched \subseteq vouched', granted \subseteq granted'
    PROVE  AnswersAreGated'
BY StaysGated DEF AnswersAreGated

\* A recovery that does not move keeps what it listed and loaded.
LEMMA RecoveryKept ==
    ASSUME LoadsFit, ListedGated, rec' = rec, vouched \subseteq vouched', granted \subseteq granted'
    PROVE  LoadsFit' /\ ListedGated'
<1>1. LoadsFit'
    BY DEF LoadsFit
<1>2. ListedGated'
    BY StaysGated DEF ListedGated
<1>3. QED  BY <1>1, <1>2

\* Artifacts vouch for nothing; what is enabled is remembered as granted.
LEMMA SettingsSteps ==
    ASSUME GateInv,
           \/ \E p \in Places, id \in PluginIds : ReplaceArtifact(p, id)
           \/ \E p \in Places, id \in PluginIds, b \in DOMAIN Builds, on \in BOOLEAN : SetPluginEnabled(p, id, b, on)
    PROVE  GateInv'
<1>1. /\ verdicts' = verdicts /\ gate' = gate /\ rec' = rec /\ found' = found /\ published' = published
      /\ vouched' = vouched /\ granted \subseteq granted'
    BY DEF ReplaceArtifact, SetPluginEnabled
<1>2. VerdictsFit' /\ TestFits'
    BY <1>1 DEF GateInv, VerdictsFit, TestFits
<1>3. LoadsFit' /\ ListedGated' /\ AnswersAreGated'
    BY <1>1, RecoveryKept, PublishedKept DEF GateInv
<1>4. EnablementsFit'
  <2>1. CASE \E p \in Places, id \in PluginIds : ReplaceArtifact(p, id)
      BY <2>1 DEF ReplaceArtifact, GateInv, EnablementsFit
  <2>2. ASSUME NEW p \in Places, NEW id \in PluginIds, NEW b \in DOMAIN Builds, NEW on \in BOOLEAN, SetPluginEnabled(p, id, b, on)
        PROVE  EnablementsFit'
    <3>1. /\ enabled' = [enabled EXCEPT ![p][id] = [build |-> b, on |-> on]]
          /\ granted' = IF on THEN granted \cup {<<p, id, b>>} ELSE granted
        BY <2>2 DEF SetPluginEnabled
    <3>2. EnablementsFit
        BY DEF GateInv
    <3>3. enabled' \in [Places -> [PluginIds -> [build : DOMAIN Builds \cup {"none"}, on : BOOLEAN]]]
        BY <3>1, <3>2 DEF EnablementsFit
    <3>4. ASSUME NEW q \in Places, NEW i \in PluginIds, enabled'[q][i].on
          PROVE  enabled'[q][i].build \in DOMAIN Builds /\ <<q, i, enabled'[q][i].build>> \in granted'
      <4>1. CASE q = p /\ i = id
          BY <3>1, <3>2, <3>4, <4>1 DEF EnablementsFit
      <4>2. CASE ~(q = p /\ i = id)
        <5>1. enabled'[q][i] = enabled[q][i]
            BY <3>1, <3>2, <4>2 DEF EnablementsFit
        <5>2. QED  BY <3>1, <3>2, <3>4, <5>1 DEF EnablementsFit
      <4>3. QED  BY <4>1, <4>2
    <3>5. QED  BY <3>3, <3>4 DEF EnablementsFit
  <2>3. QED  BY <2>1, <2>2
<1>5. QED  BY <1>2, <1>3, <1>4 DEF GateInv

\* A verdict is recorded for the bytes that were run, whatever is on disk now.
LEMMA GateSteps ==
    ASSUME GateInv, (\E id \in PluginIds : DiscoverForGate(id)) \/ ReadForGate \/ TestForGate \/ RecordGate \/ StopGate
    PROVE  GateInv'
<1>1. /\ enabled' = enabled /\ rec' = rec /\ found' = found /\ published' = published
      /\ vouched \subseteq vouched' /\ granted' = granted
    BY DEF DiscoverForGate, ReadForGate, TestForGate, RecordGate, StopGate, GateUnchanged
<1>2. EnablementsFit' /\ LoadsFit' /\ ListedGated' /\ AnswersAreGated'
    BY <1>1, RecoveryKept, PublishedKept DEF GateInv, EnablementsFit
<1>3. /\ VerdictsFit /\ TestFits
      /\ DOMAIN gate = {"id", "at", "place", "build", "passed"}
    BY DEF GateInv, TestFits, NoGate
<1>4. VerdictsFit' /\ TestFits'
  <2>1. ASSUME gate' = NoGate, verdicts' = verdicts
        PROVE  VerdictsFit' /\ TestFits'
      BY <1>1, <1>3, <2>1 DEF NoGate, VerdictsFit, TestFits
  <2>2. ASSUME NEW id \in PluginIds, DiscoverForGate(id)
        PROVE  VerdictsFit' /\ TestFits'
    <3>1. PICK p \in Winner(Roots, id) :
              gate' = [NoGate EXCEPT !.id = id, !.at = "found", !.place = p, !.build = disk[p][id].build]
        BY <2>2 DEF DiscoverForGate
    <3>2. DOMAIN gate' = DOMAIN NoGate /\ gate'.at = "found"
        BY <3>1 DEF NoGate
    <3>3. QED  BY <1>1, <1>3, <2>2, <3>2 DEF DiscoverForGate, NoGate, VerdictsFit, TestFits
  <2>3. CASE ReadForGate
    <3>1. gate' = [gate EXCEPT !.at = "read", !.build = disk[gate.place][gate.id].build]
        BY <2>3 DEF ReadForGate
    <3>2. DOMAIN gate' = DOMAIN gate /\ gate'.at = "read"
        BY <1>3, <3>1
    <3>3. QED  BY <1>1, <1>3, <2>3, <3>2 DEF ReadForGate, NoGate, VerdictsFit, TestFits
  <2>4. CASE TestForGate
    <3>1. PICK ok \in {FALSE, Conforms(gate.id, gate.build, disk[gate.place][gate.id].corpus)} :
              /\ gate' = [gate EXCEPT !.at = "tested", !.passed = ok]
              /\ vouched' = IF ok THEN vouched \cup {<<gate.id, gate.build>>} ELSE vouched
        BY <2>4 DEF TestForGate
    <3>2. /\ DOMAIN gate' = DOMAIN gate /\ gate'.passed = ok
          /\ gate'.id = gate.id /\ gate'.build = gate.build
        BY <1>3, <3>1
    <3>3. TestFits'
        BY <1>3, <3>1, <3>2 DEF TestFits, NoGate
    <3>4. VerdictsFit'
        BY <1>1, <1>3, <2>4 DEF TestForGate, VerdictsFit
    <3>5. QED  BY <3>3, <3>4
  <2>5. CASE RecordGate
    <3>1. /\ verdicts' = [verdicts EXCEPT ![gate.id][gate.build] = IF gate.passed THEN "passed" ELSE "failed"]
          /\ gate.at = "tested" /\ gate' = NoGate /\ vouched' = vouched
        BY <2>5 DEF RecordGate
    <3>2. verdicts' \in [PluginIds -> [DOMAIN Builds -> {"none", "passed", "failed"}]]
        BY <1>3, <3>1 DEF VerdictsFit
    <3>3. ASSUME NEW i \in PluginIds, NEW b \in DOMAIN Builds, verdicts'[i][b] = "passed"
          PROVE  <<i, b>> \in vouched'
      <4>1. CASE i = gate.id /\ b = gate.build
        <5>1. verdicts'[i][b] = IF gate.passed THEN "passed" ELSE "failed"
            BY <1>3, <3>1, <4>1 DEF VerdictsFit
        <5>2. QED  BY <1>3, <3>1, <3>3, <4>1, <5>1 DEF TestFits
      <4>2. CASE ~(i = gate.id /\ b = gate.build)
        <5>1. verdicts'[i][b] = verdicts[i][b]
            BY <1>3, <3>1, <4>2 DEF VerdictsFit
        <5>2. QED  BY <1>1, <1>3, <3>3, <5>1 DEF VerdictsFit
      <4>3. QED  BY <4>1, <4>2
    <3>4. QED  BY <3>1, <3>2, <3>3 DEF VerdictsFit, TestFits, NoGate
  <2>6. CASE StopGate
      BY <2>1, <2>6 DEF StopGate
  <2>7. QED  BY <2>2, <2>3, <2>4, <2>5, <2>6
<1>5. QED  BY <1>2, <1>4 DEF GateInv

\* What is listed is enabled and has passed, at the hash on disk.
LEMMA ListActiveStep ==
    ASSUME GateInv, NEW r \in ToSet(Roots), ListActive(r)
    PROVE  GateInv'
<1>1. /\ enabled' = enabled /\ verdicts' = verdicts /\ gate' = gate /\ vouched' = vouched /\ granted' = granted
      /\ rec' = [at |-> "loading", root |-> r, active |-> ActivePlugins(r), facts |-> <<>>] /\ published' = {}
    BY DEF ListActive, RecoveryUnchanged
<1>2. VerdictsFit' /\ EnablementsFit' /\ TestFits' /\ AnswersAreGated'
    BY <1>1 DEF GateInv, VerdictsFit, EnablementsFit, TestFits, AnswersAreGated
<1>3. LoadsFit'
  <2>1. /\ DOMAIN rec' = DOMAIN NoRecovery /\ rec'.active = ActivePlugins(r) /\ rec'.facts = <<>>
      BY <1>1 DEF NoRecovery
  <2>2. DOMAIN rec'.active = 1..Len(rec'.active) /\ Len(rec'.active) \in Nat
      BY <2>1, ListingFits
  <2>3. rec'.facts \in Seq(UNION {ExtractClaimed(a, a.build) : a \in ToSet(rec'.active)}) /\ Len(rec'.facts) = 0 /\ DOMAIN rec'.facts = {}
      BY <2>1
  <2>4. QED  BY <2>1, <2>2, <2>3 DEF LoadsFit
<1>4. ListedGated'
  <2>1. SUFFICES ASSUME NEW a \in ToSet(ActivePlugins(r)) PROVE Gated(r, a.id, a.build)
      BY <1>1 DEF ListedGated, Gated
  <2>2. PICK id \in PluginIds, p \in {User, r} : Active(r, id, p) /\ a = Listed(id, p)
      BY ListingFits
  <2>3. a.id = id /\ a.build = disk[p][id].build
      BY <2>2 DEF Listed
  <2>4. /\ enabled[p][id] = [build |-> a.build, on |-> TRUE]
        /\ verdicts[id][a.build] = "passed"
      BY <2>2, <2>3 DEF Active
  <2>5. p \in Places
      BY DEF Places
  <2>6. <<p, id, a.build>> \in granted
      BY <2>4, <2>5 DEF GateInv, EnablementsFit
  <2>7. <<id, a.build>> \in vouched
    <3>1. enabled[p][id].on = TRUE /\ enabled[p][id].build = a.build
        BY <2>4
    <3>2. a.build \in DOMAIN Builds
        BY <2>5, <3>1 DEF GateInv, EnablementsFit
    <3>3. QED  BY <2>4, <3>2 DEF GateInv, VerdictsFit
  <2>8. QED  BY <2>2, <2>3, <2>6, <2>7 DEF Gated
<1>5. QED  BY <1>2, <1>3, <1>4 DEF GateInv

\* The bytes that are loaded are the listed ones: their answer is appended.
LEMMA LoadPluginStep ==
    ASSUME GateInv, LoadPlugin
    PROVE  GateInv'
<1> DEFINE p == rec.active[Len(rec.facts) + 1]
           All == UNION {ExtractClaimed(a, a.build) : a \in ToSet(rec.active)}
<1>1. /\ enabled' = enabled /\ verdicts' = verdicts /\ gate' = gate /\ vouched' = vouched /\ granted' = granted
      /\ found' = found /\ published' = published /\ Len(rec.facts) < Len(rec.active)
    BY DEF LoadPlugin, RecoveryUnchanged
<1>2. VerdictsFit' /\ EnablementsFit' /\ TestFits' /\ AnswersAreGated'
    BY <1>1, PublishedKept DEF GateInv, VerdictsFit, EnablementsFit, TestFits
<1>3. PICK b \in Loadable(p) : \E f \in ExtractClaimed(p, b) : rec' = [rec EXCEPT !.facts = Append(@, f)]
    BY DEF LoadPlugin
<1>4. b = p.build
    BY <1>3 DEF Loadable
<1>5. PICK f \in ExtractClaimed(p, p.build) : rec' = [rec EXCEPT !.facts = Append(@, f)]
    BY <1>3, <1>4
<1>6. LoadsFit
    BY DEF GateInv
<1>7. /\ DOMAIN rec' = DOMAIN rec /\ rec'.active = rec.active /\ rec'.root = rec.root
      /\ rec'.facts = Append(rec.facts, f)
    BY <1>5, <1>6 DEF LoadsFit, NoRecovery
<1>8. rec.facts \in Seq(All) /\ Len(rec.facts) \in Nat /\ DOMAIN rec.facts = 1..Len(rec.facts)
    BY <1>6 DEF LoadsFit
<1>9. Len(rec.facts) + 1 \in DOMAIN rec.active
    BY <1>1, <1>6, <1>8 DEF LoadsFit
<1>10. f \in All
    BY <1>5, <1>9 DEF ToSet
<1>11. LoadsFit'
  <2> HIDE DEF All, p
  <2>1. rec'.facts \in Seq(All) /\ Len(rec'.facts) = Len(rec.facts) + 1
      BY <1>7, <1>8, <1>10
  <2>2. ASSUME NEW i \in DOMAIN rec'.facts
        PROVE  rec'.facts[i] \in ExtractClaimed(rec'.active[i], rec'.active[i].build)
    <3>1. CASE i = Len(rec.facts) + 1
      <4>1. rec'.facts[i] = f
          BY <1>7, <1>8, <1>10, <3>1
      <4>2. QED  BY <1>5, <1>7, <3>1, <4>1 DEF p
    <3>2. CASE i # Len(rec.facts) + 1
      <4>1. i \in DOMAIN rec.facts /\ rec'.facts[i] = rec.facts[i]
          BY <1>7, <1>8, <1>10, <2>1, <2>2, <3>2
      <4>2. QED  BY <1>6, <1>7, <4>1 DEF LoadsFit
    <3>3. QED  BY <3>1, <3>2
  <2>3. All = UNION {ExtractClaimed(a, a.build) : a \in ToSet(rec'.active)}
      BY <1>7 DEF All
  <2>4. Len(rec'.facts) <= Len(rec'.active)
      BY <1>1, <1>6, <1>7, <1>8, <2>1 DEF LoadsFit
  <2>5. QED  BY <1>6, <1>7, <2>1, <2>2, <2>3, <2>4 DEF LoadsFit
<1>12. ListedGated'
    BY <1>1, <1>7 DEF GateInv, ListedGated, Gated
<1>13. QED  BY <1>2, <1>11, <1>12 DEF GateInv

\* A recovery that is over, by publishing or by failing, holds nothing.
LEMMA RecoveryOver ==
    ASSUME GateInv, rec' = NoRecovery, RecoveryUnchanged
    PROVE  VerdictsFit' /\ EnablementsFit' /\ TestFits' /\ LoadsFit' /\ ListedGated'
<1>1. VerdictsFit' /\ EnablementsFit' /\ TestFits'
    BY DEF RecoveryUnchanged, GateInv, VerdictsFit, EnablementsFit, TestFits
<1>2. rec'.active = <<>> /\ rec'.facts = <<>>
    BY DEF NoRecovery
<1>3. ToSet(rec'.active) = {} /\ DOMAIN rec'.active = 1..0 /\ Len(rec'.active) = 0
      /\ Len(rec'.facts) = 0 /\ DOMAIN rec'.facts = {}
    BY <1>2 DEF ToSet
<1>4. LoadsFit' /\ ListedGated'
    BY <1>2, <1>3 DEF LoadsFit, ListedGated
<1>5. QED  BY <1>1, <1>4

\* When every listed plugin has answered, the answers are what is assembled.
LEMMA PublishStep ==
    ASSUME GateInv, Publish
    PROVE  GateInv'
<1> DEFINE all == [i \in DOMAIN rec.active |-> AllAnswers(rec.active[i], rec.active[i].build)]
<1>1. rec' = NoRecovery /\ RecoveryUnchanged /\ Len(rec.facts) = Len(rec.active)
    BY DEF Publish
<1>2. PICK layers \in LayerSets :
          published' = {[root |-> rec.root, layers |-> layers, active |-> rec.active, graph |-> Assemble(found, layers, rec.facts, Commit)]}
    BY DEF Publish
<1>3. LoadsFit /\ ListedGated
    BY DEF GateInv
<1>4. ASSUME NEW i \in DOMAIN rec.active
      PROVE  /\ Answered(rec.active[i], rec.active[i].build)
             /\ rec.facts[i] = AllAnswers(rec.active[i], rec.active[i].build)
  <2>1. i \in DOMAIN rec.facts
      BY <1>1, <1>3 DEF LoadsFit
  <2>2. rec.facts[i] \in ExtractClaimed(rec.active[i], rec.active[i].build)
      BY <1>3, <2>1 DEF LoadsFit
  <2>3. QED  BY <2>2 DEF ExtractClaimed
<1>5. rec.facts = all
  <2>1. DOMAIN rec.facts = DOMAIN rec.active
      BY <1>1, <1>3 DEF LoadsFit
  <2>2. rec.facts = [i \in DOMAIN rec.facts |-> rec.facts[i]]
      BY <1>3 DEF LoadsFit
  <2>3. QED  BY <1>4, <2>1, <2>2
<1>6. found' = found /\ vouched' = vouched /\ granted' = granted
    BY <1>1 DEF RecoveryUnchanged
<1>7. ASSUME NEW a \in ToSet(rec.active)
      PROVE  Gated(rec.root, a.id, a.build) /\ Answered(a, a.build)
  <2>1. PICK i \in DOMAIN rec.active : a = rec.active[i]
      BY <1>7 DEF ToSet
  <2>2. QED  BY <1>3, <1>4, <1>7, <2>1 DEF ListedGated
<1>8. AnswersAreGated'
  <2>1. SUFFICES ASSUME NEW q \in published'
                 PROVE  /\ \A a \in ToSet(q.active) : Gated(q.root, a.id, a.build)' /\ Answered(a, a.build)
                        /\ q.graph = Assemble(found, q.layers, [i \in DOMAIN q.active |-> AllAnswers(q.active[i], q.active[i].build)], Commit)
      BY <1>6 DEF AnswersAreGated, Gated
  <2>2. q.root = rec.root /\ q.layers = layers /\ q.active = rec.active /\ q.graph = Assemble(found, layers, rec.facts, Commit)
      BY <1>2, <2>1
  <2>3. q.graph = Assemble(found, q.layers, [i \in DOMAIN q.active |-> AllAnswers(q.active[i], q.active[i].build)], Commit)
      BY <1>5, <2>2
  <2>4. ASSUME NEW a \in ToSet(q.active)
        PROVE  Gated(q.root, a.id, a.build)' /\ Answered(a, a.build)
    <3>1. Gated(q.root, a.id, a.build) /\ Answered(a, a.build)
        BY <1>7, <2>2, <2>4
    <3>2. QED  BY <1>6, <3>1, StaysGated
  <2>5. QED  BY <2>3, <2>4
<1>9. QED  BY <1>1, <1>8, RecoveryOver DEF GateInv

\* A recovery that fails publishes nothing.
LEMMA FailRecoveryStep ==
    ASSUME GateInv, FailRecovery
    PROVE  GateInv'
<1>1. rec' = NoRecovery /\ RecoveryUnchanged /\ published' = published
    BY DEF FailRecovery
<1>2. AnswersAreGated'
    BY <1>1, PublishedKept DEF GateInv, RecoveryUnchanged
<1>3. QED  BY <1>1, <1>2, RecoveryOver DEF GateInv

\* The gate, the settings and a recovery agree at every step: the inductive
\* invariant.
THEOREM PluginInvariance == PluginSpec => []GateInv
<1>1. GateInv /\ [PluginNext]_pluginVars => GateInv'
  <2> SUFFICES ASSUME GateInv, [PluginNext]_pluginVars PROVE GateInv'
      OBVIOUS
  <2>1. CASE \/ \E p \in Places, id \in PluginIds : ReplaceArtifact(p, id)
             \/ \E p \in Places, id \in PluginIds, b \in DOMAIN Builds, on \in BOOLEAN : SetPluginEnabled(p, id, b, on)
      BY <2>1, SettingsSteps
  <2>2. CASE (\E id \in PluginIds : DiscoverForGate(id)) \/ ReadForGate \/ TestForGate \/ RecordGate \/ StopGate
      BY <2>2, GateSteps
  <2>3. CASE \E r \in ToSet(Roots) : ListActive(r)
      BY <2>3, ListActiveStep
  <2>4. CASE LoadPlugin
      BY <2>4, LoadPluginStep
  <2>5. CASE Publish
      BY <2>5, PublishStep
  <2>6. CASE FailRecovery
      BY <2>6, FailRecoveryStep
  <2>7. CASE UNCHANGED pluginVars
    <3>1. /\ verdicts' = verdicts /\ enabled' = enabled /\ gate' = gate /\ rec' = rec /\ found' = found
          /\ published' = published /\ vouched' = vouched /\ granted' = granted
        BY <2>7 DEF pluginVars
    <3>2. VerdictsFit' /\ EnablementsFit' /\ TestFits'
        BY <3>1 DEF GateInv, VerdictsFit, EnablementsFit, TestFits
    <3>3. LoadsFit' /\ ListedGated' /\ AnswersAreGated'
        BY <3>1, RecoveryKept, PublishedKept DEF GateInv
    <3>4. QED  BY <3>2, <3>3 DEF GateInv
  <2>8. QED  BY <2>1, <2>2, <2>3, <2>4, <2>5, <2>6, <2>7 DEF PluginNext
<1>2. QED  BY <1>1, GateInvInit, PTL DEF PluginSpec

\* Whatever happens on disk and to the settings, a published recovery is the
\* assembly of one answer of each listed plugin, by bytes that a gate ran with
\* success and that were enabled for that repository or the user.
THEOREM PublishedAnswersGated == PluginSpec => []AnswersAreGated
<1>1. GateInv => AnswersAreGated
    BY DEF GateInv
<1>2. QED  BY <1>1, PluginInvariance, PTL
=============================================================================
