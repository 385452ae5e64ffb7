------------------------- MODULE JobCompletionProofs -------------------------
(***************************************************************************)
(* Proofs about JobCompletion, for any set of targets: what the row locks  *)
(* protect suffices for CompletedMeansDone and DoneStaysDone, although     *)
(* settleParentJob reads rows it has not locked, and for each transaction  *)
(* to be one step of JobOutcome. Last, who holds which lock, and so which   *)
(* circles of waiting transactions there can be.                           *)
(***************************************************************************)
EXTENDS JobCompletion, TLAPS

\* While the transaction of a result runs it holds its target's row, which
\* is therefore as it was when it was read.
ResultHoldsRow ==
    \A t \in Targets :
        /\ report[t] # "none" =>
              /\ lock[t] = t /\ saw[t] = state[t]
              /\ state[t] \in {"PACKAGING", "CANCEL_REQUESTED"}
        /\ report[t] \notin {"none", "read"} => state[t] = "PACKAGING"

\* The same of the rows a cancel has locked.
CancelHoldsRows ==
    \A t \in Targets : lock[t] = CancelTx => cancelSaw[t] = state[t]

\* A transaction on its way to the job's row found all other targets at
\* rest, and they are still.
SettlersSawTheEnd ==
    \A t \in Targets : report[t] \in {"wants job", "settles job"} =>
        \A u \in Targets \ {t} : state[u] \in TerminalStates

Inv == /\ TypeOK /\ ResultHoldsRow /\ CancelHoldsRows
       /\ SettlersSawTheEnd /\ CompletedMeansDone

LEMMA TerminalRests ==
    /\ TerminalStates \cap {"PACKAGING", "NEEDS_REVIEW", "CANCEL_REQUESTED"} = {}
    /\ \A s \in TerminalStates : Cancelled(s) = {s}
BY DEF TerminalStates, Cancelled, IsWorking, WorkingStates

LEMMA InitInv == Init => Inv
<1> SUFFICES ASSUME Init  PROVE Inv
  OBVIOUS
<1>1. state \in [Targets -> States]
  <2>1. {"PACKAGING", "NEEDS_REVIEW"} \subseteq States
    BY DEF States
  <2> QED  BY <2>1 DEF Init
<1>2. TypeOK
  BY <1>1 DEF Init, TypeOK, ReportSteps
<1>3. ResultHoldsRow /\ CancelHoldsRows
  BY CompletionAssumption DEF Init, ResultHoldsRow, CancelHoldsRows
<1>4. SettlersSawTheEnd /\ CompletedMeansDone
  BY DEF Init, SettlersSawTheEnd, CompletedMeansDone
<1> QED  BY <1>2, <1>3, <1>4 DEF Inv

\* A commit of t's result that leaves every other target alone.
LEMMA CommitKeeps ==
    ASSUME Inv, NEW t \in Targets, report[t] # "none", NEW to \in States,
           Commit(t, to), to = state[t] \/ to \in TerminalStates,
           saw' = saw, cancel' = cancel, cancelSaw' = cancelSaw,
           jobLock' \in Targets \cup {CancelTx, Nobody}, completed' \in BOOLEAN,
           completed' => completed \/ (/\ report[t] = "settles job"
                                       /\ to \in TerminalStates)
    PROVE  Inv'
<1>1. TypeOK'
  BY DEF Inv, TypeOK, Commit, Becomes, ReportSteps
<1>2. ResultHoldsRow'
  BY DEF Inv, TypeOK, ResultHoldsRow, Commit, Becomes
<1>3. CancelHoldsRows'
  BY CompletionAssumption DEF Inv, TypeOK, CancelHoldsRows, Commit
<1>4. SettlersSawTheEnd'
  BY DEF Inv, TypeOK, SettlersSawTheEnd, Commit, Becomes
<1>5. CompletedMeansDone'
  BY DEF Inv, TypeOK, SettlersSawTheEnd, CompletedMeansDone, Commit, Becomes
<1> QED  BY <1>1, <1>2, <1>3, <1>4, <1>5 DEF Inv

\* Every step of a result's transaction keeps the invariant.
LEMMA ReportInv ==
    ASSUME Inv, NEW t \in Targets, ReportStep(t)  PROVE Inv'
<1>1. CASE LockTarget(t)
  <2>1. /\ UNCHANGED <<state, completed, cancel, cancelSaw, jobLock>>
        /\ state[t] \in {"PACKAGING", "CANCEL_REQUESTED"}
        /\ lock' = [lock EXCEPT ![t] = t] /\ saw' = [saw EXCEPT ![t] = state[t]]
        /\ report' = [report EXCEPT ![t] = "read"]
    BY <1>1 DEF LockTarget, Becomes
  <2>2. TypeOK'
    BY <2>1 DEF Inv, TypeOK, ReportSteps
  <2>3. ResultHoldsRow'
    BY <2>1 DEF Inv, TypeOK, ResultHoldsRow
  <2>4. CancelHoldsRows'
    BY <2>1, CompletionAssumption DEF Inv, TypeOK, CancelHoldsRows
  <2>5. SettlersSawTheEnd' /\ CompletedMeansDone'
    BY <2>1 DEF Inv, TypeOK, SettlersSawTheEnd, CompletedMeansDone
  <2> QED  BY <2>2, <2>3, <2>4, <2>5 DEF Inv
<1>2. CASE EndWithoutJob(t)
  <2> DEFINE to == IF saw[t] = "CANCEL_REQUESTED" THEN "CANCELLED" ELSE "FAILED"
  <2>1. to \in TerminalStates /\ to \in States
    BY DEF TerminalStates, States
  <2> QED  BY <1>2, <2>1, CommitKeeps DEF EndWithoutJob, At, Inv, TypeOK
<1>3. CASE WriteComplete(t)
  BY ZenonT(60), <1>3 DEF WriteComplete, At, Becomes, Inv, TypeOK, ReportSteps,
              ResultHoldsRow, CancelHoldsRows, SettlersSawTheEnd,
              CompletedMeansDone
<1>4. CASE ReadTargets(t)
  <2> DEFINE step == IF AllTargetsDone(t) THEN "wants job" ELSE "leaves job"
  <2>1. report' = [report EXCEPT ![t] = step] /\ step \in ReportSteps
    BY <1>4 DEF ReadTargets, Becomes, ReportSteps
  <2>2. step = "wants job" => \A u \in Targets \ {t} : state[u] \in TerminalStates
    BY DEF AllTargetsDone
  <2>3. step \notin {"none", "read", "settles job"}
    OBVIOUS
  <2> HIDE DEF step
  <2>4. report[t] = "wrote COMPLETE"
    BY <1>4 DEF ReadTargets, At
  <2>5. UNCHANGED <<state, completed, saw, cancel, cancelSaw, lock, jobLock>>
    BY <1>4 DEF ReadTargets
  <2> QED
    BY ZenonT(60), <2>1, <2>2, <2>3, <2>4, <2>5 DEF Inv, TypeOK, ResultHoldsRow,
         CancelHoldsRows, SettlersSawTheEnd, CompletedMeansDone
<1>5. "COMPLETE" \in TerminalStates /\ "COMPLETE" \in States
  BY DEF TerminalStates, States
<1>6. CASE LeaveJob(t)
  BY <1>5, <1>6, CommitKeeps DEF LeaveJob, At, Inv, TypeOK
<1>7. CASE LockJob(t)
  BY ZenonT(60), <1>7 DEF LockJob, At, Becomes, Inv, TypeOK, ReportSteps, ResultHoldsRow,
              CancelHoldsRows, SettlersSawTheEnd, CompletedMeansDone
<1>8. CASE CommitJob(t)
  BY <1>5, <1>8, CommitKeeps DEF CommitJob, At, Inv, TypeOK
<1>9. CASE AbortReport(t)
  BY <1>9, CommitKeeps DEF AbortReport, InCircle, At, Inv, TypeOK
<1> QED  BY <1>1, <1>2, <1>3, <1>4, <1>6, <1>7, <1>8, <1>9 DEF ReportStep

LEMMA CommitCancelMoves ==
    ASSUME Inv, CommitCancel, NEW t \in Targets
    PROVE  /\ report[t] = "none"
           /\ state[t] \in TerminalStates => state'[t] = state[t]
<1>1. lock[t] = CancelTx /\ cancelSaw[t] = state[t] /\ lock[t] # t
  BY CompletionAssumption DEF CommitCancel, Inv, CancelHoldsRows
<1> QED  BY <1>1, TerminalRests DEF CommitCancel, Inv, ResultHoldsRow

LEMMA CommitCancelInv == ASSUME Inv, CommitCancel  PROVE Inv'
<1>1. \A t \in Targets : report[t] = "none" /\ report'[t] = "none"
  BY CommitCancelMoves DEF CommitCancel
<1>2. \A t \in Targets : state[t] \in TerminalStates => state'[t] = state[t]
  BY CommitCancelMoves
<1>3. TypeOK'
  BY DEF CommitCancel, Inv, TypeOK
<1>4. ResultHoldsRow' /\ SettlersSawTheEnd'
  BY <1>1 DEF ResultHoldsRow, SettlersSawTheEnd
<1>5. CancelHoldsRows'
  BY CompletionAssumption DEF CommitCancel, CancelHoldsRows
<1>6. CompletedMeansDone'
  BY <1>2 DEF CommitCancel, Inv, CompletedMeansDone
<1> QED  BY <1>3, <1>4, <1>5, <1>6 DEF Inv

LEMMA NextInv == ASSUME Inv, [Next]_vars  PROVE Inv'
<1>1. CASE \E t \in Targets : ReportStep(t)
  BY <1>1, ReportInv
<1>2. ASSUME NEW t \in Targets, CancelLocks(t)  PROVE Inv'
  BY ZenonT(60), <1>2, CompletionAssumption DEF CancelLocks, Inv, TypeOK, ResultHoldsRow, CancelHoldsRows,
              SettlersSawTheEnd, CompletedMeansDone
<1>3. ASSUME NEW t \in Targets, Approve(t)  PROVE Inv'
  <2>1. "PACKAGING" \in States /\ "NEEDS_REVIEW" \notin TerminalStates
    BY DEF States, TerminalStates
  <2>2. report[t] = "none" /\ ~completed
    BY <1>3, <2>1 DEF Approve, Inv, ResultHoldsRow, CompletedMeansDone
  <2>3. TypeOK'
    BY <1>3, <2>1 DEF Approve, Inv, TypeOK
  <2>4. ResultHoldsRow' /\ CompletedMeansDone'
    BY <1>3, <2>2 DEF Approve, Inv, TypeOK, ResultHoldsRow, CompletedMeansDone
  <2>6. CancelHoldsRows'
    BY <1>3, CompletionAssumption DEF Approve, Inv, TypeOK, CancelHoldsRows
  <2>5. SettlersSawTheEnd'
    BY <1>3, <2>1, <2>2 DEF Approve, Inv, TypeOK, SettlersSawTheEnd
  <2> QED  BY <2>3, <2>4, <2>5, <2>6 DEF Inv
<1>4. CASE BeginCancel
  BY <1>4 DEF BeginCancel, Inv, TypeOK, ResultHoldsRow, CancelHoldsRows,
              SettlersSawTheEnd, CompletedMeansDone
<1>5. CASE CommitCancel
  BY <1>5, CommitCancelInv
<1>6. CASE AbortCancel
  <2>1. \A t \in Targets : /\ lock'[t] # CancelTx
                            /\ lock[t] # CancelTx => lock'[t] = lock[t]
    BY <1>6, CompletionAssumption DEF AbortCancel
  <2>2. TypeOK'
    BY <1>6 DEF AbortCancel, Inv, TypeOK
  <2>3. ResultHoldsRow'
    BY <1>6, <2>1, CompletionAssumption DEF AbortCancel, Inv, ResultHoldsRow
  <2>4. CancelHoldsRows' /\ SettlersSawTheEnd' /\ CompletedMeansDone'
    BY <1>6, <2>1 DEF AbortCancel, Inv, CancelHoldsRows, SettlersSawTheEnd,
                      CompletedMeansDone
  <2> QED  BY <2>2, <2>3, <2>4 DEF Inv
<1>7. CASE UNCHANGED vars
  BY <1>7 DEF vars, Inv, TypeOK, ResultHoldsRow, CancelHoldsRows,
              SettlersSawTheEnd, CompletedMeansDone
<1> QED  BY <1>1, <1>2, <1>3, <1>4, <1>5, <1>6, <1>7 DEF Next

LEMMA AlwaysInv == Spec => []Inv
<1>1. Init => Inv
  BY InitInv
<1>2. Inv /\ [Next]_vars => Inv'
  BY NextInv
<1> QED  BY <1>1, <1>2, PTL DEF Spec

\* A step of a result's transaction is nothing the rows show, or its commit.
LEMMA ReportIsOneStep ==
    ASSUME Inv, NEW t \in Targets, ReportStep(t)
    PROVE  \/ UNCHANGED <<state, completed>>
           \/ Outcome!Deliver(t) \/ Outcome!Fail(t) \/ Outcome!FinishCancel(t)
<1>1. CASE LockTarget(t) \/ WriteComplete(t) \/ ReadTargets(t) \/ LockJob(t)
  BY <1>1 DEF LockTarget, WriteComplete, ReadTargets, LockJob
<1>2. CASE AbortReport(t)
  <2>1. state' = [state EXCEPT ![t] = state[t]] /\ UNCHANGED completed
    BY <1>2 DEF AbortReport, Commit
  <2> QED  BY <2>1 DEF Inv, TypeOK
<1>3. CASE EndWithoutJob(t)
  <2>1. saw[t] = state[t] /\ state[t] \in {"PACKAGING", "CANCEL_REQUESTED"}
    BY <1>3 DEF EndWithoutJob, At, Inv, ResultHoldsRow
  <2> QED
    BY <1>3, <2>1 DEF EndWithoutJob, Commit, Outcome!Fail,
         Outcome!FinishCancel, Outcome!Becomes
<1>4. CASE LeaveJob(t)
  <2>1. state[t] = "PACKAGING"
    BY <1>4 DEF LeaveJob, At, Inv, ResultHoldsRow
  <2> QED
    BY <1>4, <2>1 DEF LeaveJob, Commit, Outcome!Deliver, Outcome!Becomes
<1>5. CASE CommitJob(t)
  <2>1. state[t] = "PACKAGING"
    BY <1>5 DEF CommitJob, At, Inv, ResultHoldsRow
  <2>2. \A u \in Targets \ {t} : Outcome!AtRest(u)
    BY <1>5 DEF CommitJob, At, Inv, SettlersSawTheEnd, Outcome!AtRest,
         TerminalStates
  <2> QED
    BY <1>5, <2>1, <2>2 DEF CommitJob, Commit, Outcome!Deliver,
         Outcome!Becomes
<1> QED  BY <1>1, <1>2, <1>3, <1>4, <1>5 DEF ReportStep

\* A cancel holds all rows when it writes them: they are as it read them.
LEMMA CancelIsOneStep ==
    ASSUME Inv, CommitCancel  PROVE Outcome!Cancel
<1> DEFINE underWay == {t \in Targets : state[t] = "PACKAGING" /\ state'[t] = "CANCEL_REQUESTED"}
<1>1. \A t \in Targets : cancelSaw[t] = state[t] /\ state[t] \in States
  BY DEF CommitCancel, Inv, CancelHoldsRows, TypeOK
<1>2. ASSUME NEW t \in Targets
      PROVE  state'[t] = IF t \in underWay THEN "CANCEL_REQUESTED"
                         ELSE IF state[t] \in {"PACKAGING", "NEEDS_REVIEW"} THEN "CANCELLED"
                         ELSE state[t]
  <2>1. state'[t] \in Cancelled(state[t])
    BY <1>1 DEF CommitCancel
  <2> QED
    BY <1>1, <2>1 DEF Cancelled, IsWorking, WorkingStates, States,
         TerminalStates
<1>3. state' = [t \in Targets |-> state'[t]] /\ UNCHANGED completed
  BY DEF CommitCancel
<1>4. underWay \in SUBSET {t \in Targets : state[t] = "PACKAGING"}
  OBVIOUS
<1> HIDE DEF underWay
<1> QED  BY <1>2, <1>3, <1>4 DEF Outcome!Cancel

LEMMA NextRefines == Inv /\ [Next]_vars => [Outcome!Next]_(Outcome!rows)
<1> SUFFICES ASSUME Inv, [Next]_vars  PROVE [Outcome!Next]_(Outcome!rows)
  OBVIOUS
<1>1. ASSUME NEW t \in Targets, ReportStep(t)
      PROVE  [Outcome!Next]_(Outcome!rows)
  BY <1>1, ReportIsOneStep DEF Outcome!Next, Outcome!rows
<1>2. ASSUME NEW t \in Targets, Approve(t)  PROVE Outcome!Approve(t)
  BY <1>2 DEF Approve, Outcome!Approve, Outcome!Becomes
<1>3. CASE \/ BeginCancel \/ AbortCancel \/ UNCHANGED vars
           \/ \E t \in Targets : CancelLocks(t)
  BY <1>3 DEF BeginCancel, AbortCancel, vars, CancelLocks, Outcome!rows
<1>4. CASE CommitCancel
  BY <1>4, CancelIsOneStep DEF Outcome!Next
<1> QED  BY <1>1, <1>2, <1>3, <1>4 DEF Next, Outcome!Next

\* Every row, lock and unlocked read of the three transactions keeps its type,
\* whatever the number of targets.
THEOREM TypeCorrect == Spec => []TypeOK
<1>1. Inv => TypeOK
  BY DEF Inv
<1> QED  BY AlwaysInv, <1>1, PTL

\* completed_at is set only when every target of the job has come to rest:
\* the unlocked reads of settleParentJob (orchestrator/local.ts) are safe,
\* because a target it sees at rest stays there.
THEOREM CompletionIsSound == Spec => []CompletedMeansDone
<1>1. Inv => CompletedMeansDone
  BY DEF Inv
<1> QED  BY AlwaysInv, <1>1, PTL

\* No transaction that began while a target could move (a cancel, a result)
\* overwrites the outcome another one committed meanwhile: the row locks of
\* loadTarget and of JobsService.cancel.
THEOREM OutcomesAreFinal == Spec => DoneStaysDone
<1>1. ASSUME Inv, [Next]_vars, NEW t \in Targets, state[t] \in TerminalStates
      PROVE  state'[t] = state[t]
  <2>1. ASSUME NEW u \in Targets, ReportStep(u)  PROVE state'[t] = state[t]
    <3>1. CASE report[u] # "none"
      <4>1. u # t
        BY <1>1, <3>1, TerminalRests DEF Inv, ResultHoldsRow
      <4> QED
        BY <1>1, <2>1, <4>1 DEF ReportStep, LockTarget, EndWithoutJob,
             WriteComplete, ReadTargets, LeaveJob, LockJob, CommitJob,
             AbortReport, Commit, Inv, TypeOK
    <3>2. CASE report[u] = "none"
      BY <2>1, <3>2 DEF ReportStep, LockTarget, EndWithoutJob, WriteComplete,
           ReadTargets, LeaveJob, LockJob, CommitJob, AbortReport, InCircle, At
    <3> QED  BY <3>1, <3>2
  <2>2. ASSUME NEW u \in Targets, Approve(u)  PROVE state'[t] = state[t]
    BY <1>1, <2>2, TerminalRests DEF Approve, Inv, TypeOK
  <2>3. CASE CommitCancel
    BY <1>1, <2>3, CommitCancelMoves
  <2>4. CASE BeginCancel \/ AbortCancel \/ UNCHANGED vars
                \/ \E u \in Targets : CancelLocks(u)
    BY <2>4 DEF BeginCancel, AbortCancel, vars, CancelLocks
  <2> QED  BY <1>1, <2>1, <2>2, <2>3, <2>4 DEF Next
<1>2. Inv /\ [Next]_vars =>
        [\A t \in Targets : state[t] \in TerminalStates
                               => state'[t] = state[t]]_vars
  BY <1>1
<1> QED  BY AlwaysInv, <1>2, PTL DEF Spec, DoneStaysDone

\* However results and cancels interleave at READ COMMITTED, for any number of
\* targets, each is one step on the rows as they are committed: what the other
\* modules rely on when they take a handler for one action.
THEOREM TransactionsAreSteps == Spec => ImplementsOutcome
<1>1. Init => Outcome!Init
  BY DEF Init, Outcome!Init
<1> QED
  BY <1>1, NextRefines, AlwaysInv, PTL DEF Spec, ImplementsOutcome, Outcome!Spec

-----------------------------------------------------------------------------
(* Who holds what, and who waits for whom.                                  *)

Holders ==
    /\ \A t \in Targets :
          /\ lock[t] # Nobody => \/ lock[t] = t /\ report[t] # "none"
                                 \/ lock[t] = CancelTx /\ cancel = "locking"
          /\ At(t, "settles job") => jobLock = t
    /\ \A t \in Targets : jobLock = t => At(t, "settles job")
    /\ jobLock = CancelTx <=> cancel = "locking"

LEMMA CommitHolders ==
    ASSUME Inv, Holders, NEW t \in Targets, NEW to, Commit(t, to), cancel' = cancel,
           \/ jobLock' = jobLock /\ ~At(t, "settles job")
           \/ jobLock' = Nobody /\ At(t, "settles job")
    PROVE  Holders'
<1>1. /\ lock' = [lock EXCEPT ![t] = Nobody] /\ report' = [report EXCEPT ![t] = "none"]
      /\ lock \in [Targets -> Targets \cup {CancelTx, Nobody}]
      /\ report \in [Targets -> ReportSteps]
  BY DEF Commit, Becomes, Inv, TypeOK
<1>2. /\ report'[t] = "none" /\ lock'[t] = Nobody
      /\ \A u \in Targets \ {t} : report'[u] = report[u] /\ lock'[u] = lock[u]
  BY <1>1
<1>3. CASE jobLock' = jobLock /\ ~At(t, "settles job")
  BY <1>2, <1>3 DEF Holders, At
<1>4. CASE jobLock' = Nobody /\ At(t, "settles job")
  <2>1. jobLock = t /\ cancel # "locking"
    BY <1>4, CompletionAssumption DEF Holders
  <2> QED  BY <1>2, <1>4, <2>1, CompletionAssumption DEF Holders, At
<1> QED  BY <1>3, <1>4

LEMMA HoldersNext == ASSUME Inv, Holders, [Next]_vars  PROVE Holders'
<1>0. /\ lock \in [Targets -> Targets \cup {CancelTx, Nobody}]
      /\ report \in [Targets -> ReportSteps]
  BY DEF Inv, TypeOK
<1>1. ASSUME NEW t \in Targets, EndWithoutJob(t) \/ LeaveJob(t) \/ AbortReport(t) \/ CommitJob(t)
      PROVE  Holders'
  BY <1>1, CommitHolders DEF EndWithoutJob, LeaveJob, AbortReport, CommitJob, InCircle, At
<1>2. ASSUME NEW t \in Targets, LockTarget(t) \/ WriteComplete(t) \/ ReadTargets(t)
      PROVE  Holders'
  <2>1. /\ report'[t] \notin {"none", "settles job"} /\ report[t] # "settles job"
        /\ \A u \in Targets \ {t} : report'[u] = report[u] /\ lock'[u] = lock[u]
        /\ lock'[t] = lock[t] \/ lock'[t] = t
        /\ UNCHANGED <<jobLock, cancel>>
    BY <1>0, <1>2 DEF LockTarget, WriteComplete, ReadTargets, Becomes, At
  <2> QED  BY <2>1 DEF Holders, At
<1>3. ASSUME NEW t \in Targets, LockJob(t)  PROVE Holders'
  <2>1. /\ report'[t] = "settles job" /\ jobLock = Nobody /\ jobLock' = t
        /\ \A u \in Targets \ {t} : report'[u] = report[u]
        /\ UNCHANGED <<lock, cancel>>
    BY <1>0, <1>3 DEF LockJob, Becomes
  <2> QED  BY <2>1, CompletionAssumption DEF Holders, At
<1>4. ASSUME NEW t \in Targets, CancelLocks(t)  PROVE Holders'
  <2>1. /\ lock'[t] = CancelTx /\ cancel = "locking"
        /\ \A u \in Targets \ {t} : lock'[u] = lock[u]
        /\ UNCHANGED <<report, cancel, jobLock>>
    BY <1>0, <1>4 DEF CancelLocks
  <2> QED  BY <2>1 DEF Holders, At
<1>5. CASE BeginCancel
  BY <1>5, CompletionAssumption DEF BeginCancel, Holders, At
<1>6. CASE CommitCancel
  <2>1. \A t \in Targets : lock'[t] = Nobody /\ report'[t] = report[t]
    BY <1>6 DEF CommitCancel
  <2>2. jobLock = CancelTx /\ jobLock' = Nobody /\ cancel' = "none"
    BY <1>6 DEF CommitCancel, Holders
  <2> QED  BY <2>1, <2>2, CompletionAssumption DEF Holders, At
<1>7. CASE AbortCancel
  <2>1. jobLock = CancelTx /\ jobLock' = Nobody /\ cancel' = "none" /\ report' = report
    BY <1>7 DEF AbortCancel, InCircle, Holders
  <2>2. \A t \in Targets : lock'[t] = IF lock[t] = CancelTx THEN Nobody ELSE lock[t]
    BY <1>7 DEF AbortCancel
  <2> QED  BY <2>1, <2>2, CompletionAssumption DEF Holders, At
<1>8. ASSUME UNCHANGED <<report, cancel, lock, jobLock>>  PROVE Holders'
  BY <1>8 DEF Holders, At
<1> QED  BY <1>1, <1>2, <1>3, <1>4, <1>5, <1>6, <1>7, <1>8 DEF Next, ReportStep, Approve, vars

\* With any number of targets, whatever order the cancel takes their rows in:
\* transactions wait in a circle only if one is the cancel and another a result
\* that wants the job, which the database breaks (services/jobs.ts:441).
THEOREM NoOtherCircle == Spec => []OnlyCircle
<1>1. Init => Holders
  BY CompletionAssumption DEF Init, Holders, At
<1>2. Inv /\ Holders => OnlyCircle
  <2> SUFFICES ASSUME Inv, Holders  PROVE OnlyCircle
    OBVIOUS
  <2>1. ASSUME NEW t \in Targets, At(t, "wants job"), jobLock # Nobody
        PROVE  InCircle(t) \/ \E u \in Targets : jobLock = u /\ At(u, "settles job")
    <3>1. lock[t] = t
      BY <2>1 DEF Inv, ResultHoldsRow, At
    <3>2. jobLock \in Targets \/ jobLock = CancelTx
      BY <2>1 DEF Inv, TypeOK
    <3> QED  BY <2>1, <3>1, <3>2 DEF InCircle, Holders
  <2> QED  BY <2>1 DEF OnlyCircle, Holders
<1>3. Inv /\ Holders /\ [Next]_vars => Inv' /\ Holders'
  BY NextInv, HoldersNext
<1>4. Init => Inv
  BY InitInv
<1> QED  BY <1>1, <1>2, <1>3, <1>4, PTL DEF Spec
==============================================================================
