------------------------- MODULE PreflightRunsProofs -------------------------
(***************************************************************************)
(* Proofs about PreflightRuns, for any sets of runs, recoveries and        *)
(* repositories: IndInv and RegisterRecorded are inductive.                *)
(***************************************************************************)
EXTENDS PreflightRuns, TLAPS

-----------------------------------------------------------------------------
(* IndInv is inductive: one lemma per action. *)

\* Initially nothing has an epoch.
LEMMA InitIndInv == Init => IndInv
BY ActorsAssumption, TargetsAssumption
   DEF Init, IndInv, TypeOK, ActorsEquipped, StampsDistinct, NewestRuns, AdmittedIsNewest,
       WrittenWasClaimed, AnswersFollow, WriteSection, Label, Flag, Actor

\* A new run takes a fresh epoch and cancels the run before it.
LEMMA BeginKeeps ==
    ASSUME IndInv, NEW r \in Run, NEW y \in Repo, Begin(r, y)
    PROVE  IndInv'
<1> USE ActorsAssumption DEF Actor, IndInv, WriteSection, Label, Flag, Begin, Goto, CancelCurrent, Visible, state, history
<1>1. TypeOK'
    BY DEF TypeOK
<1>2. ActorsEquipped'
    BY DEF TypeOK, ActorsEquipped
<1>3. StampsDistinct'
    BY DEF TypeOK, StampsDistinct
<1>4. NewestRuns'
    BY DEF TypeOK, NewestRuns, StampsDistinct
<1>5. AdmittedIsNewest'
    BY DEF TypeOK, AdmittedIsNewest, StampsDistinct
<1>6. WrittenWasClaimed'
    BY DEF TypeOK, WrittenWasClaimed
<1>7. AnswersFollow'
    BY DEF TypeOK, AnswersFollow, StampsDistinct
<1>8. QED  BY <1>1, <1>2, <1>3, <1>4, <1>5, <1>6, <1>7

\* A cancel only moves the current run out of RUNNING.
LEMMA CancelKeeps ==
    ASSUME IndInv, Cancel
    PROVE  IndInv'
<1> USE ActorsAssumption DEF Actor, IndInv, WriteSection, Label, Flag, Cancel, Goto, CancelCurrent, state, history
<1>1. TypeOK'
    BY DEF TypeOK, NewestRuns, WrittenWasClaimed
<1>2. ActorsEquipped'
    BY DEF ActorsEquipped
<1>3. StampsDistinct'
    BY DEF StampsDistinct
<1>4. NewestRuns'
    BY DEF TypeOK, NewestRuns
<1>5. AdmittedIsNewest'
    BY DEF AdmittedIsNewest
<1>6. WrittenWasClaimed'
    BY DEF WrittenWasClaimed
<1>7. AnswersFollow'
    BY DEF AnswersFollow
<1>8. QED  BY <1>1, <1>2, <1>3, <1>4, <1>5, <1>6, <1>7

\* A cancelled scan ends.
LEMMA ScanStopsKeeps ==
    ASSUME IndInv, NEW r \in Run, ScanStops(r)
    PROVE  IndInv'
<1> USE ActorsAssumption DEF Actor, IndInv, WriteSection, Label, Flag, ScanStops, Goto, state, history
<1>1. TypeOK'
    BY DEF TypeOK
<1>2. ActorsEquipped'
    BY DEF ActorsEquipped
<1>3. StampsDistinct'
    BY DEF StampsDistinct
<1>4. NewestRuns'
    BY DEF NewestRuns
<1>5. AdmittedIsNewest'
    BY DEF AdmittedIsNewest
<1>6. WrittenWasClaimed'
    BY DEF WrittenWasClaimed
<1>7. AnswersFollow'
    BY DEF AnswersFollow
<1>8. QED  BY <1>1, <1>2, <1>3, <1>4, <1>5, <1>6, <1>7

\* A scan that ends queues for the write lock.
LEMMA ScanEndsKeeps ==
    ASSUME IndInv, NEW r \in Run, ScanEnds(r)
    PROVE  IndInv'
<1> USE ActorsAssumption DEF Actor, IndInv, WriteSection, Label, Flag, ScanEnds, Goto, state, history
<1>1. TypeOK'
    BY DEF TypeOK
<1>2. ActorsEquipped'
    BY DEF ActorsEquipped
<1>3. StampsDistinct'
    BY DEF StampsDistinct
<1>4. NewestRuns'
    BY DEF NewestRuns
<1>5. AdmittedIsNewest'
    BY DEF AdmittedIsNewest
<1>6. WrittenWasClaimed'
    BY DEF WrittenWasClaimed
<1>7. AnswersFollow'
    BY DEF AnswersFollow
<1>8. QED  BY <1>1, <1>2, <1>3, <1>4, <1>5, <1>6, <1>7

\* Taking the write lock starts the section nobody else is in.
LEMMA LockWritesKeeps ==
    ASSUME IndInv, NEW a \in Actor, LockWrites(a)
    PROVE  IndInv'
<1> USE ActorsAssumption DEF Actor, IndInv, WriteSection, Label, Flag, LockWrites, Goto, state, history
<1>1. TypeOK'
    BY DEF TypeOK
<1>2. ActorsEquipped'
    BY DEF ActorsEquipped
<1>3. StampsDistinct'
    BY DEF StampsDistinct
<1>4. NewestRuns'
    BY DEF NewestRuns
<1>5. AdmittedIsNewest'
    BY DEF AdmittedIsNewest
<1>6. WrittenWasClaimed'
    BY DEF WrittenWasClaimed
<1>7. AnswersFollow'
    BY DEF AnswersFollow
<1>8. QED  BY <1>1, <1>2, <1>3, <1>4, <1>5, <1>6, <1>7

\* Under the lock a run ends, is answered by a newer reconciliation, or goes on to stage.
LEMMA CheckRunKeeps ==
    ASSUME IndInv, NEW r \in Run, CheckRun(r)
    PROVE  IndInv'
<1> USE ActorsAssumption DEF Actor, IndInv, WriteSection, Label, Flag, CheckRun, Goto, state, history
<1>1. TypeOK'
    BY DEF TypeOK, ActorsEquipped
<1>2. ActorsEquipped'
    BY DEF TypeOK, ActorsEquipped
<1>3. StampsDistinct'
    BY DEF TypeOK, StampsDistinct
<1>4. NewestRuns'
    BY DEF TypeOK, NewestRuns
<1>5. AdmittedIsNewest'
    BY DEF TypeOK, AdmittedIsNewest
<1>6. WrittenWasClaimed'
    BY DEF WrittenWasClaimed
<1>7. AnswersFollow'
    BY DEF TypeOK, AnswersFollow, ActorsEquipped, StampsDistinct, NewestRuns
<1>8. QED  BY <1>1, <1>2, <1>3, <1>4, <1>5, <1>6, <1>7

\* Only the newest run is still RUNNING, so that the one that claims its commit is newer
\* than every persisted epoch.
LEMMA ClaimCommitKeeps ==
    ASSUME IndInv, NEW r \in Run, ClaimCommit(r)
    PROVE  IndInv'
<1> USE ActorsAssumption DEF Actor, IndInv, WriteSection, Label, Flag, ClaimCommit, Goto, state, history
<1>1. TypeOK'
    BY DEF TypeOK
<1>2. ActorsEquipped'
    BY DEF ActorsEquipped
<1>3. StampsDistinct'
    BY DEF StampsDistinct
<1>4. NewestRuns'
    BY DEF TypeOK, NewestRuns
<1>5. AdmittedIsNewest'
    BY DEF TypeOK, AdmittedIsNewest, ActorsEquipped, NewestRuns
<1>6. WrittenWasClaimed'
    BY DEF WrittenWasClaimed
<1>7. AnswersFollow'
    BY DEF AnswersFollow
<1>8. QED  BY <1>1, <1>2, <1>3, <1>4, <1>5, <1>6, <1>7

\* The transaction of an admitted write.
LEMMA CommitKeeps ==
    ASSUME IndInv, NEW a \in Actor, Commit(a)
    PROVE  IndInv'
<1> USE ActorsAssumption DEF Actor, IndInv, WriteSection, Label, Flag, Commit, Goto, state, history
<1>1. TypeOK'
    BY DEF TypeOK
<1>2. ActorsEquipped'
    BY DEF TypeOK, ActorsEquipped
<1>3. StampsDistinct'
    BY DEF TypeOK, StampsDistinct
<1>4. NewestRuns'
    BY DEF TypeOK, NewestRuns
<1>5. AdmittedIsNewest'
    BY DEF TypeOK, AdmittedIsNewest
<1>6. WrittenWasClaimed'
    BY DEF TypeOK, WrittenWasClaimed, StampsDistinct, NewestRuns
<1>7. AnswersFollow'
    BY DEF TypeOK, AnswersFollow
<1>8. QED  BY <1>1, <1>2, <1>3, <1>4, <1>5, <1>6, <1>7

\* A failed read back leaves the write section and records nothing.
LEMMA ReadbackErrorKeeps ==
    ASSUME IndInv, NEW a \in Actor, ReadbackError(a)
    PROVE  IndInv'
<1> USE ActorsAssumption DEF Actor, IndInv, WriteSection, Label, Flag, ReadbackError, Goto, state, history
<1>1. TypeOK'
    BY DEF TypeOK
<1>2. ActorsEquipped'
    BY DEF ActorsEquipped
<1>3. StampsDistinct'
    BY DEF StampsDistinct
<1>4. NewestRuns'
    BY DEF NewestRuns
<1>5. AdmittedIsNewest'
    BY DEF AdmittedIsNewest
<1>6. WrittenWasClaimed'
    BY DEF WrittenWasClaimed
<1>7. AnswersFollow'
    BY DEF AnswersFollow
<1>8. QED  BY <1>1, <1>2, <1>3, <1>4, <1>5, <1>6, <1>7

\* A run records the epoch it wrote.
LEMMA RecordRunKeeps ==
    ASSUME IndInv, NEW r \in Run, RecordRun(r)
    PROVE  IndInv'
<1> USE ActorsAssumption DEF Actor, IndInv, WriteSection, Label, Flag, RecordRun, Goto, Bigger, state, history
<1>1. TypeOK'
    BY DEF TypeOK
<1>2. ActorsEquipped'
    BY DEF ActorsEquipped
<1>3. StampsDistinct'
    BY DEF StampsDistinct
<1>4. NewestRuns'
    BY DEF NewestRuns
<1>5. AdmittedIsNewest'
    BY DEF TypeOK, AdmittedIsNewest
<1>6. WrittenWasClaimed'
    BY DEF WrittenWasClaimed
<1>7. AnswersFollow'
    BY DEF TypeOK, AnswersFollow
<1>8. QED  BY <1>1, <1>2, <1>3, <1>4, <1>5, <1>6, <1>7

\* A recovery takes its fence.
LEMMA ReserveKeeps ==
    ASSUME IndInv, NEW x \in Recovery, Reserve(x)
    PROVE  IndInv'
<1> USE ActorsAssumption DEF Actor, IndInv, WriteSection, Label, Flag, Reserve, Goto, state, history
<1>1. TypeOK'
    BY DEF TypeOK
<1>2. ActorsEquipped'
    BY DEF ActorsEquipped
<1>3. StampsDistinct'
    BY DEF TypeOK, StampsDistinct
<1>4. NewestRuns'
    BY DEF NewestRuns
<1>5. AdmittedIsNewest'
    BY DEF AdmittedIsNewest
<1>6. WrittenWasClaimed'
    BY DEF TypeOK, WrittenWasClaimed
<1>7. AnswersFollow'
    BY DEF AnswersFollow
<1>8. QED  BY <1>1, <1>2, <1>3, <1>4, <1>5, <1>6, <1>7

\* The recovery's job shows done, or was cancelled.
LEMMA SettleKeeps ==
    ASSUME IndInv, NEW x \in Recovery, Settle(x)
    PROVE  IndInv'
<1> USE ActorsAssumption DEF Actor, IndInv, WriteSection, Label, Flag, Settle, Goto, state, history
<1>1. TypeOK'
    BY DEF TypeOK
<1>2. ActorsEquipped'
    BY DEF TypeOK, ActorsEquipped
<1>3. StampsDistinct'
    BY DEF TypeOK, StampsDistinct
<1>4. NewestRuns'
    BY DEF TypeOK, NewestRuns
<1>5. AdmittedIsNewest'
    BY DEF TypeOK, AdmittedIsNewest
<1>6. WrittenWasClaimed'
    BY DEF WrittenWasClaimed
<1>7. AnswersFollow'
    BY DEF TypeOK, AnswersFollow
<1>8. QED  BY <1>1, <1>2, <1>3, <1>4, <1>5, <1>6, <1>7

\* The next repository of a recovery.
LEMMA ReconcileKeeps ==
    ASSUME IndInv, NEW x \in Recovery, NEW y \in Repo, Reconcile(x, y)
    PROVE  IndInv'
<1> USE ActorsAssumption DEF Actor, IndInv, WriteSection, Label, Flag, Reconcile, Goto, state, history
<1>1. TypeOK'
    BY DEF TypeOK
<1>2. ActorsEquipped'
    BY DEF TypeOK, ActorsEquipped
<1>3. StampsDistinct'
    BY DEF StampsDistinct
<1>4. NewestRuns'
    BY DEF NewestRuns
<1>5. AdmittedIsNewest'
    BY DEF TypeOK, AdmittedIsNewest, ActorsEquipped, StampsDistinct, NewestRuns
<1>6. WrittenWasClaimed'
    BY DEF WrittenWasClaimed
<1>7. AnswersFollow'
    BY DEF AnswersFollow
<1>8. QED  BY <1>1, <1>2, <1>3, <1>4, <1>5, <1>6, <1>7

\* Under the lock a reconciliation is refused or admitted.
LEMMA CheckRecoveryKeeps ==
    ASSUME IndInv, NEW x \in Recovery, CheckRecovery(x)
    PROVE  IndInv'
<1> USE ActorsAssumption DEF Actor, IndInv, WriteSection, Label, Flag, CheckRecovery, Goto, NewerWritten, state, history
<1>1. TypeOK'
    BY DEF TypeOK
<1>2. ActorsEquipped'
    BY DEF ActorsEquipped
<1>3. StampsDistinct'
    BY DEF StampsDistinct
<1>4. NewestRuns'
    BY DEF NewestRuns
<1>5. AdmittedIsNewest'
    BY DEF TypeOK, AdmittedIsNewest, ActorsEquipped
<1>6. WrittenWasClaimed'
    BY DEF WrittenWasClaimed
<1>7. AnswersFollow'
    BY DEF AnswersFollow
<1>8. QED  BY <1>1, <1>2, <1>3, <1>4, <1>5, <1>6, <1>7

\* A recovery records the epoch it wrote.
LEMMA RecordRecoveryKeeps ==
    ASSUME IndInv, NEW x \in Recovery, RecordRecovery(x)
    PROVE  IndInv'
<1> USE ActorsAssumption DEF Actor, IndInv, WriteSection, Label, Flag, RecordRecovery, Goto, state, history
<1>1. TypeOK'
    BY DEF TypeOK
<1>2. ActorsEquipped'
    BY DEF ActorsEquipped
<1>3. StampsDistinct'
    BY DEF StampsDistinct
<1>4. NewestRuns'
    BY DEF NewestRuns
<1>5. AdmittedIsNewest'
    BY DEF TypeOK, AdmittedIsNewest
<1>6. WrittenWasClaimed'
    BY DEF WrittenWasClaimed
<1>7. AnswersFollow'
    BY DEF AnswersFollow
<1>8. QED  BY <1>1, <1>2, <1>3, <1>4, <1>5, <1>6, <1>7

\* Every step keeps the inductive invariant.
LEMMA NextKeeps == IndInv /\ [Next]_vars => IndInv'
<1> SUFFICES ASSUME IndInv, [Next]_vars PROVE IndInv'
    OBVIOUS
<1>1. CASE \E r \in Run, y \in Repo : Begin(r, y)
    BY <1>1, BeginKeeps
<1>2. CASE Cancel
    BY <1>2, CancelKeeps
<1>3. CASE \E r \in Run : ScanStops(r)
    BY <1>3, ScanStopsKeeps
<1>4. CASE \E r \in Run : ScanEnds(r)
    BY <1>4, ScanEndsKeeps
<1>5. CASE \E a \in Actor : LockWrites(a)
    BY <1>5, LockWritesKeeps
<1>6. CASE \E r \in Run : CheckRun(r)
    BY <1>6, CheckRunKeeps
<1>7. CASE \E r \in Run : ClaimCommit(r)
    BY <1>7, ClaimCommitKeeps
<1>8. CASE \E a \in Actor : Commit(a)
    BY <1>8, CommitKeeps
<1>9. CASE \E a \in Actor : ReadbackError(a)
    BY <1>9, ReadbackErrorKeeps
<1>10. CASE \E r \in Run : RecordRun(r)
    BY <1>10, RecordRunKeeps
<1>11. CASE \E x \in Recovery : Reserve(x)
    BY <1>11, ReserveKeeps
<1>12. CASE \E x \in Recovery : Settle(x)
    BY <1>12, SettleKeeps
<1>13. CASE \E x \in Recovery, y \in Repo : Reconcile(x, y)
    BY <1>13, ReconcileKeeps
<1>14. CASE \E x \in Recovery : CheckRecovery(x)
    BY <1>14, CheckRecoveryKeeps
<1>15. CASE \E x \in Recovery : RecordRecovery(x)
    BY <1>15, RecordRecoveryKeeps
<1>16. CASE UNCHANGED vars
    BY <1>16 DEF vars, IndInv, TypeOK, ActorsEquipped, StampsDistinct, NewestRuns,
       AdmittedIsNewest, WrittenWasClaimed, AnswersFollow
<1>17. QED
    BY <1>1, <1>2, <1>3, <1>4, <1>5, <1>6, <1>7, <1>8, <1>9, <1>10, <1>11, <1>12, <1>13, <1>14, <1>15, <1>16 DEF Next, RunStep, RecoveryStep, Write, Actor

\* The invariant holds in every reachable state.
THEOREM Inductive == Spec => []IndInv
BY InitIndInv, NextKeeps, PTL DEF Spec

\* Types, and the write section: whoever checks, stages, commits or records holds the
\* write lock.
THEOREM TypeCorrect == Spec => []TypeOK
BY Inductive, PTL DEF IndInv

\* RunState: "a commit can never follow a successful cancel", also where the read back
\* may fail.
THEOREM CancelHolds == Spec => []CancelledWritesNothing
<1>1. IndInv => CancelledWritesNothing
    BY DEF IndInv, TypeOK, NewestRuns, WrittenWasClaimed, CancelledWritesNothing
<1>2. QED
    BY Inductive, <1>1, PTL

-----------------------------------------------------------------------------
(* The order of the register. *)

\* Initially the register and both epochs are 0.
LEMMA RecordedInit == Init => RegisterRecorded
BY DEF Init, RegisterRecorded, Actor

\* A write reaches the register only when both epochs of its repository are at most
\* its own, and they are what the register holds.
LEMMA RecordedStep ==
    ASSUME IndInv, RegisterRecorded, [Next]_vars
    PROVE  RegisterRecorded' /\ \A y \in Repo : register'[y] >= register[y] \/ Unrecorded(y)
<1> USE ActorsAssumption DEF Actor, IndInv, TypeOK, ActorsEquipped, RegisterRecorded, Unrecorded, WriteSection, Goto
<1>1. CASE \E r \in Run, y \in Repo : Begin(r, y)
    BY <1>1 DEF Begin, StampsDistinct, state, history
<1>2. CASE Cancel
    BY <1>2 DEF Cancel, state, history
<1>3. CASE \E r \in Run : ScanStops(r)
    BY <1>3 DEF ScanStops, state, history
<1>4. CASE \E r \in Run : ScanEnds(r)
    BY <1>4 DEF ScanEnds, state, history
<1>5. CASE \E a \in Actor : LockWrites(a)
    BY <1>5 DEF LockWrites, state, history
<1>6. CASE \E r \in Run : CheckRun(r)
    BY <1>6 DEF CheckRun, state, history
<1>7. CASE \E r \in Run : ClaimCommit(r)
    BY <1>7 DEF ClaimCommit, state, history
<1>8. CASE \E a \in Actor : Commit(a)
    BY <1>8 DEF Commit, AdmittedIsNewest, state, history
<1>9. CASE \E r \in Run : RecordRun(r)
    BY <1>9 DEF RecordRun, AdmittedIsNewest, Bigger, state, history
<1>10. CASE \E x \in Recovery : Reserve(x)
    BY <1>10 DEF Reserve, StampsDistinct, state, history
<1>11. CASE \E x \in Recovery : Settle(x)
    BY <1>11 DEF Settle, state, history
<1>12. CASE \E x \in Recovery, y \in Repo : Reconcile(x, y)
    BY <1>12 DEF Reconcile, state, history
<1>13. CASE \E x \in Recovery : CheckRecovery(x)
    BY <1>13 DEF CheckRecovery, state, history
<1>14. CASE \E x \in Recovery : RecordRecovery(x)
    BY <1>14 DEF RecordRecovery, AdmittedIsNewest, state, history
<1>15. CASE \E a \in Actor : ReadbackError(a)
    BY <1>15 DEF ReadbackError, state, history
<1>16. CASE UNCHANGED vars
    BY <1>16 DEF vars
<1>17. QED
    BY <1>1, <1>2, <1>3, <1>4, <1>5, <1>6, <1>7, <1>8, <1>9, <1>10, <1>11, <1>12, <1>13, <1>14, <1>15, <1>16 DEF Next, RunStep, RecoveryStep, Write

\* The epochs kept per repository say what the register holds.
LEMMA Recorded == Spec => []RegisterRecorded
<1>1. IndInv /\ RegisterRecorded /\ [Next]_vars => RegisterRecorded'
    BY RecordedStep
<1>2. QED
    BY RecordedInit, <1>1, Inductive, PTL DEF Spec

\* RegisterStamp: "the register holds the write with the highest epoch".
THEOREM RegisterKeepsOrder == Spec => RegisterOrdered
<1>1. IndInv /\ RegisterRecorded /\ [Next]_vars =>
        [\A y \in Repo : register[y] <= register'[y] \/ Unrecorded(y)]_vars
    BY RecordedStep
<1>2. QED
    BY <1>1, Inductive, Recorded, PTL DEF Spec, RegisterOrdered

\* PreflightResult: a run is answered with what the register holds at that moment.
THEOREM AnswersMatch == Spec => AnswerIsRegister
<1>1. IndInv /\ RegisterRecorded /\ [Next]_vars =>
        [\A r \in Run : answer'[r] # answer[r] =>
            answer'[r] = register'[repo[r]] \/ Unrecorded(repo[r])]_vars
  <2> SUFFICES ASSUME IndInv, RegisterRecorded, Next, NEW r \in Run, answer'[r] # answer[r]
               PROVE  answer'[r] = register'[repo[r]] \/ Unrecorded(repo[r])
      BY DEF vars
  <2> USE ActorsAssumption DEF Actor, IndInv, TypeOK
  <2>1. CheckRun(r) \/ RecordRun(r)
    BY DEF Next, RunStep, RecoveryStep, Write, Begin, Cancel, ScanStops, ScanEnds, LockWrites,
           CheckRun, ClaimCommit, Commit, ReadbackError, RecordRun, Reserve, Settle, Reconcile,
           CheckRecovery, RecordRecovery, state, history
  <2>2. CASE RecordRun(r)
    BY <2>2 DEF RecordRun, RegisterRecorded
  <2>3. CASE CheckRun(r)
    <3>1. /\ flag[r] = "RUNNING" /\ reconciled[repo[r]] > stamp[r]
          /\ answer'[r] = reconciled[repo[r]] /\ register' = register /\ repo[r] \in Repo
      BY <2>3 DEF CheckRun, Goto, NewestRuns, ActorsEquipped, WriteSection
    <3>2. persisted[repo[r]] <= stamp[r]
      BY <3>1 DEF NewestRuns, AdmittedIsNewest
    <3>3. ~ \E a \in Actor : pc[a] = "record"
      BY <2>3 DEF CheckRun, WriteSection
    <3>4. QED
      BY <3>1, <3>2, <3>3 DEF RegisterRecorded
  <2>4. QED
    BY <2>1, <2>2, <2>3
<1>2. QED
    BY <1>1, Inductive, Recorded, PTL DEF Spec, AnswerIsRegister

\* ReconcileFence: a preflight begun after a recovery showed done is neither answered
\* with that recovery's report nor overwritten by it.
THEOREM LaterRunWins == Spec => StartedAfterDoneWins
<1>1. IndInv /\ RegisterRecorded /\ [Next]_vars /\ IndInv' =>
        [\A r \in Run : \A x \in sawDone[r] :
            /\ answer'[r] # stamp[x]
            /\ repo[r] # None /\ register[repo[r]] = stamp[r] =>
                  register'[repo[r]] # stamp[x] \/ Unrecorded(repo[r])]_vars
  <2> SUFFICES ASSUME IndInv, RegisterRecorded, Next, IndInv', NEW r \in Run, NEW x \in sawDone[r]
               PROVE  /\ answer'[r] # stamp[x]
                      /\ repo[r] # None /\ register[repo[r]] = stamp[r] =>
                            register'[repo[r]] # stamp[x] \/ Unrecorded(repo[r])
      BY DEF vars
  <2>1. /\ x \in Recovery /\ stamp[x] \in Nat \ {0} /\ stamp[r] \in Nat /\ stamp[x] < stamp[r]
        /\ answer'[r] \in Nat
    BY ActorsAssumption DEF IndInv, TypeOK, StampsDistinct, AnswersFollow, Actor
  <2>2. stamp'[r] >= stamp[r]
    <3>1. \/ stamp'[r] = stamp[r]
          \/ stamp'[r] = epoch + 1
      BY ActorsAssumption
         DEF IndInv, TypeOK, Actor, Next, RunStep, RecoveryStep, Write, Begin, Cancel,
             ScanStops, ScanEnds, LockWrites, CheckRun, ClaimCommit, Commit, ReadbackError, RecordRun,
             Reserve, Settle, Reconcile, CheckRecovery, RecordRecovery, state, history
    <3>2. QED
      BY <3>1 DEF IndInv, TypeOK, StampsDistinct, Actor
  <2>3. answer'[r] # stamp[x]
    BY <2>1, <2>2 DEF IndInv, TypeOK, AnswersFollow, Actor
  <2>4. ASSUME repo[r] # None, register[repo[r]] = stamp[r]
        PROVE  register'[repo[r]] # stamp[x] \/ Unrecorded(repo[r])
    <3>1. register'[repo[r]] >= register[repo[r]] \/ Unrecorded(repo[r])
      BY <2>4, RecordedStep DEF IndInv, TypeOK, Actor
    <3>2. QED
      BY <2>1, <2>4, <3>1 DEF IndInv, TypeOK, Actor
  <2>5. QED
    BY <2>3, <2>4
<1>2. QED
    BY <1>1, Inductive, Recorded, PTL DEF Spec, StartedAfterDoneWins

\* The register can be trusted: but for a write that its author reported as failed,
\* it moves forward only, every answer is what it holds, and a later run wins.
THEOREM RegisterIsTrusted == Spec => RegisterTrusted
BY RegisterKeepsOrder, AnswersMatch, LaterRunWins, PTL DEF RegisterTrusted

=============================================================================
