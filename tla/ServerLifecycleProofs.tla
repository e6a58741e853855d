------------------------- MODULE ServerLifecycleProofs -------------------------
(***************************************************************************)
(* Proofs about the process lifecycle of registerLifecycle's OnStop hook:  *)
(* the wallet handle is closed only after the server has drained or the    *)
(* stop deadline has passed, and a process that exits after OnStop holds   *)
(* no handle, for every set of connections, users, amounts and --bin       *)
(* values and whichever start, serve and close failures happen.            *)
(***************************************************************************)
EXTENDS ServerLifecycle, TLAPS

(* The position of OnStop's program counter against the state it has      *)
(* changed: before OnStop begins nothing is closed; while it runs, a        *)
(* handle is closed exactly when OnStop has passed its step; once          *)
(* ShutdownWithContext has returned the listener is closed and either no   *)
(* request is open or the deadline has passed.                             *)
StopPcBefore == phase \in {"starting", "running", "failed"} => stopPc = 1

RunningOpen == phase = "running" => \A h \in Handles : open[h]

ClosedUpToPc ==
    phase = "stopping" =>
        \A i \in 1 .. Len(StopSteps) :
            StopSteps[i] \in Handles => (open[StopSteps[i]] <=> stopPc <= i)

DrainedAfterShutdown ==
    (phase = "stopping" /\ stopPc > 1)
        => ~listening /\ (ctxDone \/ \A c \in Conns : ~Active(c))

StopInv ==
    /\ StopPcBefore
    /\ RunningOpen
    /\ ClosedUpToPc
    /\ DrainedAfterShutdown
    /\ StopReleasesHandles

(* The inductive invariant of the lifecycle proofs.                        *)
LifeInv == TypeOK /\ StopInv

-----------------------------------------------------------------------------
(* OnStop's step list: five steps, the handles among them once each.       *)
LEMMA StopStepsShape ==
    /\ Len(StopSteps) = 5
    /\ StopSteps[1] = "shutdown" /\ StopSteps[2] = "wait_serve"
    /\ StopSteps[3] = "db_auth" /\ StopSteps[4] = "db_wallet" /\ StopSteps[5] = "redis"
    /\ \A h \in Handles : \E i \in 1 .. 5 : StopSteps[i] = h
    /\ \A i \in 1 .. 5 : StopSteps[i] \in Handles <=> i \in 3 .. 5
BY DEF StopSteps, Handles

(* The step OnStop is at: the entry of StopSteps at stopPc, or "returned"  *)
(* once it has run them all.                                               *)
LEMMA StepAt ==
    ASSUME stopPc \in 1 .. Len(StopSteps) + 1
    PROVE  /\ Step # "returned" => stopPc \in 1 .. 5 /\ Step = StopSteps[stopPc]
           /\ Step = "returned" => stopPc = 6
BY StopStepsShape DEF Step

(* A withdrawal transaction keeps the wallet tables well-formed.           *)
LEMMA WithdrawTxTyping ==
    ASSUME WalletTypeOK, NEW u \in Users, NEW a \in Amounts, NEW by \in Requesters,
           NEW out, WithdrawTx(u, a, by, out)
    PROVE  WalletTypeOK'
<1>1. CASE /\ a > 0 /\ CanDebit(u, a)
           /\ balance' = [balance EXCEPT ![u] = @ - a]
           /\ ledger' = Append(ledger, LedgerEntry(u, a, by))
  <2>1. u \in WalletUsers /\ a \in Int
    BY <1>1, ParamsAssumption DEF CanDebit
  <2>2. LedgerEntry(u, a, by) \in Entry
    BY <2>1 DEF WalletTypeOK, LedgerEntry, Entry
  <2>3. QED
    BY <1>1, <2>1, <2>2 DEF WalletTypeOK
<1>2. CASE UNCHANGED walletVars
  BY <1>2 DEF walletVars, WalletTypeOK
<1>3. QED
  BY <1>1, <1>2 DEF WithdrawTx

(* A step that leaves the wallet tables alone keeps them well-formed.      *)
LEMMA WalletFrame ==
    ASSUME WalletTypeOK, UNCHANGED walletVars
    PROVE  WalletTypeOK'
BY DEF WalletTypeOK, walletVars

(* Answering a connection keeps conn and code typed.                       *)
LEMMA AnswerTyping ==
    ASSUME TypeOK, NEW c \in Conns, NEW status \in Codes, Answer(c, status)
    PROVE  /\ conn' \in [Conns -> {"none", "received", "in_tx", "answered", "cut"}]
           /\ code' \in [Conns -> Codes]
BY DEF Answer, TypeOK

(* Every step keeps the variables typed.                                    *)
LEMMA TypeStep == TypeOK /\ [Next]_vars => TypeOK'
<1> SUFFICES ASSUME TypeOK, [Next]_vars PROVE TypeOK'
  OBVIOUS
<1>0. WalletTypeOK
  BY DEF TypeOK
<1>1. CASE Start
  <2>1. WalletTypeOK'
    BY <1>0, <1>1, WalletFrame DEF Start, walletVars
  <2>2. QED
    BY <1>1, <2>1 DEF Start, TypeOK
<1>2. CASE StartFails
  <2>1. WalletTypeOK'
    BY <1>0, <1>2, WalletFrame DEF StartFails, walletVars
  <2>2. open' \in [Handles -> BOOLEAN]
    <3>1. CASE UNCHANGED open
      BY <3>1 DEF TypeOK
    <3>2. ASSUME NEW opened \in SUBSET Handles, open' = [h \in Handles |-> h \in opened]
          PROVE  open' \in [Handles -> BOOLEAN]
      BY <3>2
    <3>3. QED
      BY <1>2, <3>1, <3>2 DEF StartFails
  <2>3. QED
    BY <1>2, <2>1, <2>2 DEF StartFails, TypeOK
<1>3. ASSUME NEW c \in Conns, Accept(c) PROVE TypeOK'
  <2>1. WalletTypeOK'
    BY <1>0, <1>3, WalletFrame DEF Accept, walletVars
  <2>2. QED
    BY <1>3, <2>1 DEF Accept, TypeOK
<1>4. ASSUME NEW c \in Conns, Dispatch(c) PROVE TypeOK'
  <2>0. WalletTypeOK'
    BY <1>0, <1>4, WalletFrame DEF Dispatch, walletVars
  <2>1. req[c] \in Requests
    BY DEF TypeOK
  <2>2. CASE req[c].kind \notin Routes(bin) /\ Answer(c, "404")
    BY <1>4, <2>0, <2>2, AnswerTyping DEF Dispatch, Codes, TypeOK
  <2>3. ASSUME NEW dbFails \in BOOLEAN, Answer(c, InquiryCode(req[c].user, dbFails))
        PROVE  TypeOK'
    <3>1. InquiryCode(req[c].user, dbFails) \in Codes
      BY DEF InquiryCode, Codes
    <3>2. QED
      BY <1>4, <2>0, <2>3, <3>1, AnswerTyping DEF Dispatch, TypeOK
  <2>4. CASE BeginWithdraw(c)
    <3>1. CASE Answer(c, "400") \/ Answer(c, "500")
      BY <1>4, <2>0, <3>1, AnswerTyping DEF Dispatch, Codes, TypeOK
    <3>2. CASE conn' = [conn EXCEPT ![c] = "in_tx"] /\ UNCHANGED code
      BY <1>4, <2>0, <3>2 DEF Dispatch, TypeOK
    <3>3. QED
      BY <2>4, <3>1, <3>2 DEF BeginWithdraw
  <2>5. QED
    BY <1>4, <2>2, <2>3, <2>4, Zenon DEF Dispatch
<1>5. ASSUME NEW c \in Conns, CommitWithdraw(c) PROVE TypeOK'
  <2>1. PICK out \in TxOutcomes : WithdrawTx(req[c].user, req[c].amount, c, out)
                                  /\ Answer(c, StatusOf(out))
    BY <1>5 DEF CommitWithdraw
  <2>2. req[c].user \in Users /\ req[c].amount \in Amounts
    BY DEF TypeOK, Requests
  <2>3. WalletTypeOK'
    BY <1>0, <2>1, <2>2, WithdrawTxTyping DEF Conns
  <2>4. StatusOf(out) \in Codes
    BY DEF StatusOf, Codes
  <2>5. QED
    BY <1>5, <2>1, <2>3, <2>4, AnswerTyping DEF CommitWithdraw, TypeOK
<1>6. CASE ServeReturns
  <2>1. WalletTypeOK'
    BY <1>0, <1>6, WalletFrame DEF ServeReturns, walletVars
  <2>2. QED
    BY <1>6, <2>1, Zenon DEF ServeReturns, TypeOK
<1>7. CASE StopBegin
  <2>1. WalletTypeOK'
    BY <1>0, <1>7, WalletFrame DEF StopBegin, walletVars
  <2>2. QED
    BY <1>7, <2>1 DEF StopBegin, TypeOK
<1>8. CASE Deadline
  <2>1. WalletTypeOK'
    BY <1>0, <1>8, WalletFrame DEF Deadline, walletVars
  <2>2. QED
    BY <1>8, <2>1 DEF Deadline, TypeOK
<1>9. CASE CloseListener
  <2>1. WalletTypeOK'
    BY <1>0, <1>9, WalletFrame DEF CloseListener, walletVars
  <2>2. QED
    BY <1>9, <2>1, Zenon DEF CloseListener, TypeOK
<1>10. CASE ShutdownDone
  <2>1. WalletTypeOK'
    BY <1>0, <1>10, WalletFrame DEF ShutdownDone, walletVars
  <2>2. stopPc \in 1 .. 5
    BY <1>10, StepAt DEF ShutdownDone, TypeOK
  <2>3. QED
    BY <1>10, <2>1, <2>2, StopStepsShape DEF ShutdownDone, TypeOK
<1>11. CASE WaitServe
  <2>1. WalletTypeOK'
    BY <1>0, <1>11, WalletFrame DEF WaitServe, walletVars
  <2>2. stopPc \in 1 .. 5
    BY <1>11, StepAt DEF WaitServe, TypeOK
  <2>3. stopPc' \in 1 .. Len(StopSteps) + 1
    BY <1>11, <2>2, StopStepsShape DEF WaitServe
  <2>4. QED
    BY <1>11, <2>1, <2>3, Zenon DEF WaitServe, TypeOK
<1>12. CASE CloseStep
  <2>1. WalletTypeOK'
    BY <1>0, <1>12, WalletFrame DEF CloseStep, walletVars
  <2>2. stopPc \in 3 .. 5 /\ Step = StopSteps[stopPc]
    BY <1>12, StepAt, StopStepsShape DEF CloseStep, TypeOK, Handles
  <2>3. QED
    BY <1>12, <2>1, <2>2, StopStepsShape DEF CloseStep, CloseHandle, TypeOK, Handles
<1>13. CASE Exit
  <2>1. WalletTypeOK'
    BY <1>0, <1>13, WalletFrame DEF Exit, walletVars
  <2>2. QED
    BY <1>13, <2>1 DEF Exit, TypeOK, Active
<1>14. CASE UNCHANGED vars
  <2>1. WalletTypeOK'
    BY <1>0, <1>14, WalletFrame DEF vars, walletVars
  <2>2. QED
    BY <1>14, <2>1 DEF vars, lifeVars, TypeOK
<1>15. QED
  BY <1>1, <1>2, <1>3, <1>4, <1>5, <1>6, <1>7, <1>8, <1>9, <1>10, <1>11, <1>12,
     <1>13, <1>14 DEF Next, StopActions

-----------------------------------------------------------------------------
(* Steps that touch none of the variables StopInv speaks of keep it.        *)
LEMMA StopInvFrame ==
    ASSUME StopInv, UNCHANGED <<phase, open, listening, stopPc, ctxDone, conn>>
    PROVE  StopInv'
BY DEF StopInv, StopPcBefore, RunningOpen, ClosedUpToPc, DrainedAfterShutdown,
       StopReleasesHandles, Active

(* A request step needs an open request or an open listener, so once       *)
(* ShutdownWithContext has returned without the deadline, none happens;    *)
(* any other change to conn keeps StopInv.                                  *)
LEMMA RequestStepKeepsStopInv ==
    ASSUME TypeOK, StopInv, NEW c \in Conns,
           listening \/ Active(c),
           conn' \in [Conns -> {"none", "received", "in_tx", "answered", "cut"}],
           \A d \in Conns : d # c => conn'[d] = conn[d],
           UNCHANGED <<phase, open, listening, stopPc, ctxDone>>
    PROVE  StopInv'
<1>1. (phase = "stopping" /\ stopPc > 1) => ctxDone
  BY DEF StopInv, DrainedAfterShutdown
<1>2. QED
  BY <1>1 DEF StopInv, StopPcBefore, RunningOpen, ClosedUpToPc, DrainedAfterShutdown,
             StopReleasesHandles

(* Closing the listener, by Shutdown or by a serve error, keeps StopInv.   *)
LEMMA ListenerClosedKeepsStopInv ==
    ASSUME StopInv, ~listening', UNCHANGED <<phase, open, stopPc, ctxDone, conn>>
    PROVE  StopInv'
<1>1. StopPcBefore' /\ RunningOpen' /\ ClosedUpToPc' /\ StopReleasesHandles'
  BY DEF StopInv, StopPcBefore, RunningOpen, ClosedUpToPc, StopReleasesHandles
<1>2. DrainedAfterShutdown'
  BY DEF StopInv, DrainedAfterShutdown, Active
<1>3. QED
  BY <1>1, <1>2 DEF StopInv

(* OnStop moving from shutdown to wait_serve, or on to the first Close,    *)
(* with the listener closed and the server drained or the deadline past,   *)
(* keeps StopInv: no handle has been closed yet.                            *)
LEMMA EarlyAdvanceKeepsStopInv ==
    ASSUME StopInv, phase = "stopping", stopPc \in {1, 2}, stopPc' = stopPc + 1,
           ~listening, ctxDone \/ \A c \in Conns : ~Active(c),
           UNCHANGED <<phase, open, listening, ctxDone, conn>>
    PROVE  StopInv'
<1>1. StopPcBefore' /\ RunningOpen' /\ StopReleasesHandles'
  BY DEF StopPcBefore, RunningOpen, StopReleasesHandles
<1>2. ClosedUpToPc'
  <2> SUFFICES ASSUME NEW i \in 1 .. Len(StopSteps), StopSteps[i] \in Handles
               PROVE  open[StopSteps[i]] /\ stopPc' <= i
    BY DEF ClosedUpToPc
  <2>1. i \in 3 .. 5
    BY StopStepsShape
  <2>2. QED
    BY <2>1 DEF StopInv, ClosedUpToPc
<1>3. DrainedAfterShutdown'
  BY DEF DrainedAfterShutdown, Active
<1>4. QED
  BY <1>1, <1>2, <1>3 DEF StopInv

(* Every step keeps StopInv.                                                *)
LEMMA StopStep == TypeOK /\ StopInv /\ [Next]_vars => StopInv'
<1> SUFFICES ASSUME TypeOK, StopInv, [Next]_vars PROVE StopInv'
  OBVIOUS
<1>0. /\ stopPc \in 1 .. 6
      /\ open \in [Handles -> BOOLEAN]
      /\ conn \in [Conns -> {"none", "received", "in_tx", "answered", "cut"}]
  BY StopStepsShape DEF TypeOK
<1>1. CASE Start
  BY <1>1 DEF Start, StopInv, StopPcBefore, RunningOpen, ClosedUpToPc,
              DrainedAfterShutdown, StopReleasesHandles
<1>2. CASE StartFails
  BY <1>2 DEF StartFails, StopInv, StopPcBefore, RunningOpen, ClosedUpToPc,
              DrainedAfterShutdown, StopReleasesHandles
<1>3. ASSUME NEW c \in Conns, Accept(c) PROVE StopInv'
  BY <1>0, <1>3, RequestStepKeepsStopInv DEF Accept
<1>4. ASSUME NEW c \in Conns, Dispatch(c) PROVE StopInv'
  <2>1. conn' \in [Conns -> {"none", "received", "in_tx", "answered", "cut"}]
    BY <1>4, TypeStep DEF TypeOK
  <2>2. \A d \in Conns : d # c => conn'[d] = conn[d]
    <3>1. \E v \in {"answered", "in_tx"} : conn' = [conn EXCEPT ![c] = v]
      BY <1>4, Zenon DEF Dispatch, BeginWithdraw, Answer
    <3>2. QED
      BY <1>0, <3>1
  <2>3. QED
    BY <1>4, <2>1, <2>2, RequestStepKeepsStopInv DEF Dispatch, Active
<1>5. ASSUME NEW c \in Conns, CommitWithdraw(c) PROVE StopInv'
  <2>1. conn' \in [Conns -> {"none", "received", "in_tx", "answered", "cut"}]
    BY <1>5, TypeStep DEF TypeOK
  <2>2. \A d \in Conns : d # c => conn'[d] = conn[d]
    BY <1>0, <1>5 DEF CommitWithdraw, Answer
  <2>3. QED
    BY <1>5, <2>1, <2>2, RequestStepKeepsStopInv DEF CommitWithdraw, Active
<1>6. CASE ServeReturns
  BY <1>6, ListenerClosedKeepsStopInv DEF ServeReturns
<1>7. CASE StopBegin
  BY <1>0, <1>7 DEF StopBegin, StopInv, StopPcBefore, RunningOpen, ClosedUpToPc,
                    DrainedAfterShutdown, StopReleasesHandles
<1>8. CASE Deadline
  BY <1>8 DEF Deadline, StopInv, StopPcBefore, RunningOpen, ClosedUpToPc,
              DrainedAfterShutdown, StopReleasesHandles
<1>9. CASE CloseListener
  BY <1>9 DEF CloseListener, StopInv, StopPcBefore, RunningOpen, ClosedUpToPc,
              DrainedAfterShutdown, StopReleasesHandles
<1>10. CASE ShutdownDone
  <2>1. stopPc = 1
    BY <1>0, <1>10, StepAt, StopStepsShape DEF ShutdownDone, TypeOK
  <2>2. QED
    BY <1>10, <2>1, EarlyAdvanceKeepsStopInv DEF ShutdownDone, ShutdownGivesUp
<1>11. CASE WaitServe
  <2>1. stopPc = 2
    BY <1>0, <1>11, StepAt, StopStepsShape DEF WaitServe, TypeOK
  <2>2. ~listening /\ (ctxDone \/ \A c \in Conns : ~Active(c))
    BY <1>11, <2>1 DEF WaitServe, StopInv, DrainedAfterShutdown
  <2>3. QED
    BY <1>11, <2>1, <2>2, EarlyAdvanceKeepsStopInv DEF WaitServe
<1>12. CASE CloseStep
  <2>1. stopPc \in 3 .. 5 /\ Step = StopSteps[stopPc]
    BY <1>0, <1>12, StepAt, StopStepsShape DEF CloseStep, TypeOK, Handles
  <2>2. /\ open' = [open EXCEPT ![StopSteps[stopPc]] = FALSE]
        /\ stopPc' = stopPc + 1
        /\ UNCHANGED <<phase, listening, ctxDone, conn>>
    BY <1>12, <2>1 DEF CloseStep, CloseHandle
  <2>3. ClosedUpToPc'
    <3> SUFFICES ASSUME NEW i \in 1 .. Len(StopSteps), StopSteps[i] \in Handles
                 PROVE  open'[StopSteps[i]] <=> stopPc' <= i
      BY <2>2 DEF ClosedUpToPc
    <3>1. CASE i = stopPc
      BY <1>0, <2>1, <2>2, <3>1, StopStepsShape
    <3>2. CASE i # stopPc
      <4>1. StopSteps[i] # StopSteps[stopPc]
        BY <2>1, <3>2, StopStepsShape
      <4>2. open'[StopSteps[i]] = open[StopSteps[i]]
        BY <1>0, <2>2, <4>1
      <4>3. QED
        BY <1>12, <2>1, <2>2, <3>2, <4>2, StopStepsShape DEF CloseStep, StopInv, ClosedUpToPc
    <3>3. QED
      BY <3>1, <3>2
  <2>4. StopPcBefore' /\ RunningOpen' /\ StopReleasesHandles'
    BY <1>12, <2>2 DEF CloseStep, StopPcBefore, RunningOpen, StopReleasesHandles
  <2>5. DrainedAfterShutdown'
    BY <1>12, <2>1, <2>2 DEF CloseStep, StopInv, DrainedAfterShutdown, Active
  <2>6. QED
    BY <2>3, <2>4, <2>5 DEF StopInv
<1>13. CASE Exit
  <2>1. stopPc = 6
    BY <1>0, <1>13, StepAt, StopStepsShape DEF Exit, TypeOK
  <2>2. \A h \in Handles : ~open[h]
    BY <1>13, <2>1, StopStepsShape DEF Exit, StopInv, ClosedUpToPc
  <2>3. QED
    BY <1>13, <2>2 DEF Exit, StopInv, StopPcBefore, RunningOpen, ClosedUpToPc,
       DrainedAfterShutdown, StopReleasesHandles
<1>14. CASE UNCHANGED vars
  BY <1>14, StopInvFrame DEF vars, lifeVars
<1>15. QED
  BY <1>1, <1>2, <1>3, <1>4, <1>5, <1>6, <1>7, <1>8, <1>9, <1>10, <1>11, <1>12,
     <1>13, <1>14 DEF Next, StopActions

-----------------------------------------------------------------------------
(* The initial state: nothing is open and OnStop has not begun.            *)
LEMMA LifeInit == Init => LifeInv
<1> SUFFICES ASSUME Init PROVE LifeInv
  OBVIOUS
<1>1. WalletTypeOK
  BY WalletAssumption DEF Init, WalletInit, WalletTypeOK
<1>2. stopPc \in 1 .. Len(StopSteps) + 1
  BY StopStepsShape DEF Init
<1>3. TypeOK
  BY <1>1, <1>2 DEF Init, TypeOK, Codes
<1>4. StopInv
  BY DEF Init, StopInv, StopPcBefore, RunningOpen, ClosedUpToPc, DrainedAfterShutdown,
         StopReleasesHandles
<1>5. QED
  BY <1>3, <1>4 DEF LifeInv

(* Type correctness of the lifecycle model: the phase, the handles, OnStop's *)
(* program counter, the connections and the wallet tables stay in their     *)
(* domains in every reachable state.                                        *)
THEOREM TypeCorrect == Spec => []TypeOK
<1>1. Init => TypeOK
  BY LifeInit DEF LifeInv
<1>2. TypeOK /\ [Next]_vars => TypeOK'
  BY TypeStep
<1>3. QED
  BY <1>1, <1>2, PTL DEF Spec

(* The lifecycle invariant holds in every reachable state.                 *)
LEMMA LifeInvariant == Spec => []LifeInv
<1>1. Init => LifeInv
  BY LifeInit
<1>2. LifeInv /\ [Next]_vars => LifeInv'
  BY TypeStep, StopStep DEF LifeInv
<1>3. QED
  BY <1>1, <1>2, PTL DEF Spec

(* Drain before close, for every configuration: registerLifecycle's OnStop *)
(* closes the wallet handle only after ShutdownWithContext has seen every   *)
(* request answered or its deadline pass, however requests, serve errors,  *)
(* close errors and the deadline interleave.                               *)
THEOREM ClosedAfterDrainHolds == Spec => []ClosedAfterDrain
<1>1. LifeInv => ClosedAfterDrain
  <2> SUFFICES ASSUME LifeInv, phase = "stopping", ~open["db_wallet"]
               PROVE  ctxDone \/ \A c \in Conns : ~Active(c)
    BY DEF ClosedAfterDrain
  <2>1. stopPc > 4
    BY StopStepsShape DEF LifeInv, TypeOK, StopInv, ClosedUpToPc, Handles
  <2>2. QED
    BY <2>1 DEF LifeInv, TypeOK, StopInv, DrainedAfterShutdown
<1>2. QED
  BY <1>1, LifeInvariant, PTL

(* A stop that returns has closed everything, for every configuration:     *)
(* when the process exits after OnStop, both database handles and the      *)
(* Redis client are closed, also after a timed-out Shutdown, a serve error *)
(* or a failing Close.                                                      *)
THEOREM StopReleasesHandlesHolds == Spec => []StopReleasesHandles
<1>1. LifeInv => StopReleasesHandles
  BY DEF LifeInv, StopInv
<1>2. QED
  BY <1>1, LifeInvariant, PTL
=============================================================================
