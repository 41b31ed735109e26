---------------------------- MODULE CqLoopProofs ----------------------------
(***************************************************************************)
(* The sequencer in the automatic CQ loop. The loop's steps are steps of   *)
(* the sequencer, or leave it alone; but for the tick that calls anew and  *)
(* is stopped at once by the idle timeout (TickFailedTooLate), which is    *)
(* two of them in one. So what SequencerProofs shows holds beside the      *)
(* loop, which in turn never interrupts an exchange.                       *)
(***************************************************************************)
EXTENDS CqLoop, SequencerProofs, TLAPS

\* While the sequencer sends it has no reason not to: what the loop's table
\* reads of an active sequencer is never a reason to re-arm.
NoReasonWhileActive == state \in Active => disarm_reason = NoReason

LoopInv == SeqInv /\ NoReasonWhileActive

LEMMA LoopStepIsSequencerStep ==
  ASSUME [Next]_vars, ~TickFailedTooLate
  PROVE  [SeqNext]_seqVars
<1>1. CASE \E kind \in Requests : Request(kind) \/ ArmRefused(kind)
  BY <1>1 DEF Request, ArmRefused
<1>2. CASE CqArmed \/ LoopArmed
  BY <1>2 DEF CqArmed, LoopArmed, SeqNext
<1>3. CASE ReplyArmed
  BY <1>3 DEF ReplyArmed, SeqNext
<1>4. CASE OperatorStops \/ FaultStops \/ DeadManStops \/ ReleaseLease
  BY <1>4 DEF OperatorStops, FaultStops, DeadManStops, ReleaseLease, DisarmBy, SeqNext
<1>5. CASE AcquireLease \/ LoseLease \/ IdleElapses
  BY <1>5 DEF AcquireLease, LoseLease, IdleElapses
<1>6. CASE TickLeaseLost \/ TickStopped \/ TickObserves
  BY <1>6 DEF TickLeaseLost, TickStopped, TickObserves
<1>7. CASE TickDone \/ TickFailed
  BY <1>7 DEF TickDone, TickFailed, Restart, SeqNext
<1>8. CASE TickTimeout
  BY <1>8 DEF TickTimeout, SeqNext
<1>9. CASE Exchange
  BY <1>9 DEF Exchange, SeqNext
<1>10. CASE UNCHANGED vars
  BY <1>10 DEF vars
<1> QED
  BY <1>1, <1>2, <1>3, <1>4, <1>5, <1>6, <1>7, <1>8, <1>9, <1>10 DEF Next, Tick

\* The start_cq() and the stop() of the tick that comes too late.
LEMMA TooLateKeeps ==
  ASSUME SeqInv, TickFailedTooLate
  PROVE  SeqInv'
<1> USE DEF IDLE, CALLING, REPLYING, REPORT, ROGER_REPORT, ROGERS, SIGNOFF, DONE
<1>1. SeqFlagsOK'
  BY Zenon DEF SeqInv, SeqFlagsOK, TickFailedTooLate, ResetPartner
<1>2. SeqDataOK'
  BY RetryAssumption
  DEF SeqInv, SeqDataOK, TickFailedTooLate, ResetPartner, States, Active, Exchanging, Reasons
<1>3. EnabledIffActive' /\ PartnerKnown' /\ SignedOffIsLogged' /\ FreshUnlogged'
  BY DEF TickFailedTooLate, ResetPartner, EnabledIffActive, PartnerKnown, SignedOffIsLogged,
     FreshUnlogged, Unwritten, Active, Exchanging
<1>4. OneCourtesyEach' /\ CourtesyAllowed'
  BY DEF TickFailedTooLate, ResetPartner, OneCourtesyEach, CourtesyAllowed
<1> QED
  BY <1>1, <1>2, <1>3, <1>4 DEF SeqInv

LEMMA ReasonStep ==
  ASSUME LoopInv, [Next]_vars
  PROVE  NoReasonWhileActive'
<1> USE DEF IDLE, CALLING, REPLYING, REPORT, ROGER_REPORT, ROGERS, SIGNOFF, DONE
<1>1. CASE TickFailedTooLate
  BY <1>1 DEF TickFailedTooLate, NoReasonWhileActive, Active, Exchanging
<1>2. CASE ~TickFailedTooLate
  <2>1. [SeqNext]_seqVars
    BY <1>2, LoopStepIsSequencerStep
  <2>2. ASSUME disarm_reason' = NoReason
        PROVE  NoReasonWhileActive'
    BY <2>2 DEF NoReasonWhileActive
  <2>3. ASSUME state' \notin Active
        PROVE  NoReasonWhileActive'
    BY <2>3 DEF NoReasonWhileActive
  <2>4. ASSUME state \in Active, disarm_reason' = disarm_reason
        PROVE  NoReasonWhileActive'
    BY <2>4 DEF LoopInv, NoReasonWhileActive
  <2>5. CASE StartCq \/ \E p \in Stations, parity \in {0, 1} : ReplyTo(p, parity)
    BY <2>2, <2>5 DEF StartCq, ReplyTo
  <2>6. ASSUME NEW reason, Stop(reason)
        PROVE  NoReasonWhileActive'
    BY <2>3, <2>6 DEF Stop, Active, Exchanging
  <2>7. CASE PartnerTurnsAway \/ RetryExhausted
    BY <2>6, <2>7 DEF PartnerTurnsAway, RetryExhausted
  <2>8. ASSUME NEW p \in Stations, NEW kind \in Kinds, OnMessage(p, kind)
        PROVE  NoReasonWhileActive'
    <3>1. state \in Active
      BY <2>8 DEF OnMessage, HearAnswer, HearProgress, HearAgain, Concerns, Listening
    <3>2. state' = DONE \/ disarm_reason' = disarm_reason
      BY <2>8 DEF OnMessage, HearAnswer, HearProgress, HearAgain
    <3> QED
      BY <2>3, <2>4, <3>1, <3>2 DEF Active, Exchanging
  <2>9. CASE HandOut
    BY <2>4, <2>9 DEF HandOut, Active
  <2>10. CASE CourtesyOver
    BY <2>3, <2>10 DEF CourtesyOver, Active, Exchanging
  <2>11. CASE UNCHANGED seqVars
    BY <2>11 DEF seqVars, LoopInv, NoReasonWhileActive
  <2>12. CASE \E reason \in {"manual", "fault"} : Stop(reason)
    BY <2>6, <2>12
  <2> QED
    BY <2>1, <2>5, <2>7, <2>8, <2>9, <2>10, <2>11, <2>12 DEF SeqNext, NextTxMessage
<1> QED
  BY <1>1, <1>2

LEMMA LoopInvInit == LoopInit => LoopInv
BY SeqInvInit DEF LoopInit, Init, LoopInv, NoReasonWhileActive

LEMMA LoopInvStep == LoopInv /\ [Next]_vars => LoopInv'
<1> SUFFICES ASSUME LoopInv, [Next]_vars PROVE LoopInv'
  OBVIOUS
<1>1. SeqInv'
  BY TooLateKeeps, LoopStepIsSequencerStep, SeqInvStep DEF LoopInv
<1> QED
  BY <1>1, ReasonStep DEF LoopInv

\* Whatever the loop, the lease, the safety controller and the requests that
\* await it do to the sequencer, it keeps its flag, its partner, its record
\* and its courtesy.
THEOREM SequencerInLoop ==
  Spec => [](SeqTypeOK /\ EnabledIffActive /\ PartnerKnown /\ SignedOffIsLogged /\ OneCourtesyEach)
<1>1. LoopInv => SeqTypeOK /\ EnabledIffActive /\ PartnerKnown /\ SignedOffIsLogged /\ OneCourtesyEach
  BY DEF LoopInv, SeqInv, SeqTypeOK
<1> QED
  BY <1>1, LoopInvInit, LoopInvStep, PTL DEF Spec

LoopFlagsOK == /\ armed \in BOOLEAN /\ lease \in BOOLEAN /\ dead_man \in BOOLEAN
               /\ active \in BOOLEAN /\ idle_over \in BOOLEAN

LoopDataOK == arming \subseteq Requests /\ observed \in States \X (Reasons \cup {NoReason})

LEMMA LoopFlagsKept == ASSUME LoopFlagsOK, [Next]_vars PROVE LoopFlagsOK'
<1>1. CASE Exchange \/ UNCHANGED vars \/ \E kind \in Requests : Request(kind) \/ ArmRefused(kind)
  BY <1>1, Zenon DEF Exchange, Request, ArmRefused, vars, loopVars, LoopFlagsOK
<1>2. CASE CqArmed \/ LoopArmed \/ ReplyArmed
  BY <1>2, Zenon DEF CqArmed, LoopArmed, ReplyArmed, Armed, loopVars, LoopFlagsOK
<1>3. CASE \/ OperatorStops \/ FaultStops \/ DeadManStops
           \/ AcquireLease \/ ReleaseLease \/ LoseLease \/ IdleElapses
  BY <1>3, Zenon
  DEF OperatorStops, FaultStops, DeadManStops, AcquireLease, ReleaseLease, LoseLease, IdleElapses,
      DisarmBy, loopVars, LoopFlagsOK
<1>4. CASE Tick
  BY <1>4, Zenon
  DEF Tick, TickLeaseLost, TickDone, TickFailed, TickFailedTooLate, TickStopped, TickObserves,
      TickTimeout, Ticks, Restart, LoopFlagsOK
<1> QED
  BY <1>1, <1>2, <1>3, <1>4 DEF Next

LEMMA LoopDataKept == ASSUME LoopInv, LoopDataOK, [Next]_vars PROVE LoopDataOK'
<1>1. /\ Current \in States \X (Reasons \cup {NoReason})
      /\ <<CALLING, NoReason>> \in States \X (Reasons \cup {NoReason})
  <2>1. state \in States /\ disarm_reason \in Reasons \cup {NoReason} /\ CALLING \in States
    BY DEF LoopInv, SeqInv, SeqDataOK, States, Active
  <2> QED
    BY <2>1 DEF Current
<1>2. arming' \subseteq Requests
  <2>1. CASE \E kind \in Requests : Request(kind) \/ ArmRefused(kind)
    BY <2>1 DEF Request, ArmRefused, LoopDataOK
  <2>2. CASE CqArmed \/ LoopArmed \/ ReplyArmed
    BY <2>2 DEF CqArmed, LoopArmed, ReplyArmed, Armed, LoopDataOK
  <2>3. ASSUME \/ OperatorStops \/ FaultStops \/ DeadManStops \/ AcquireLease \/ ReleaseLease
               \/ LoseLease \/ IdleElapses \/ Tick \/ Exchange \/ UNCHANGED vars
        PROVE  arming' = arming
    BY <2>3
    DEF OperatorStops, FaultStops, DeadManStops, AcquireLease, ReleaseLease, LoseLease, IdleElapses,
        DisarmBy, Exchange, Tick, TickLeaseLost, TickDone, TickFailed, TickFailedTooLate, TickStopped,
        TickObserves, TickTimeout, Ticks, vars
  <2> QED
    BY <2>1, <2>2, <2>3 DEF Next, LoopDataOK
<1>3. observed' \in {observed, Current, <<CALLING, NoReason>>}
  <2>1. CASE \E kind \in Requests : Request(kind) \/ ArmRefused(kind)
    BY <2>1 DEF Request, ArmRefused, loopVars
  <2>2. CASE CqArmed \/ LoopArmed \/ ReplyArmed
    BY <2>2 DEF CqArmed, LoopArmed, ReplyArmed, loopVars
  <2>3. CASE \/ OperatorStops \/ FaultStops \/ DeadManStops \/ AcquireLease \/ ReleaseLease
             \/ LoseLease \/ IdleElapses \/ Exchange \/ UNCHANGED vars
    BY <2>3
    DEF OperatorStops, FaultStops, DeadManStops, AcquireLease, ReleaseLease, LoseLease, IdleElapses,
        DisarmBy, Exchange, loopVars, vars
  <2>4. CASE Tick
    BY <2>4
    DEF Tick, TickLeaseLost, TickDone, TickFailed, TickFailedTooLate, TickStopped,
        TickObserves, TickTimeout, Restart
  <2> QED
    BY <2>1, <2>2, <2>3, <2>4 DEF Next
<1> QED
  BY <1>1, <1>2, <1>3 DEF LoopDataOK

\* What the loop has observed is a state of the sequencer and a reason it gives
\* (_observed, cq_loop.py).
THEOREM LoopTypeCorrect == Spec => []LoopTypeOK
<1> DEFINE Inv == LoopFlagsOK /\ LoopDataOK
<1>1. LoopInit => Inv
  <2>1. LoopInit => LoopFlagsOK
    BY Zenon DEF LoopInit, LoopFlagsOK
  <2>2. LoopInit => LoopDataOK
    BY DEF LoopInit, LoopDataOK, States
  <2> QED
    BY <2>1, <2>2
<1>2. LoopInv /\ Inv /\ [Next]_vars => Inv'
  BY LoopFlagsKept, LoopDataKept
<1>3. Inv => LoopTypeOK
  BY Zenon DEF LoopTypeOK, LoopFlagsOK, LoopDataOK
<1> QED
  BY <1>1, <1>2, <1>3, LoopInvInit, LoopInvStep, PTL DEF Spec

\* The loop starts a session only when none is on (tick() of cq_loop.py): its
\* table never takes an exchange that goes on for one that has failed.
THEOREM LoopNeverInterrupts == Spec => NeverInterrupts
<1> DEFINE Polite == session' # session /\ arming' = arming => state \in {IDLE, DONE}
<1>1. ASSUME LoopInv, [Next]_vars
      PROVE  [Polite]_vars
  <2>1. ASSUME session' = session PROVE Polite
    BY <2>1
  <2>2. ASSUME NEW kind, Armed(kind) PROVE Polite
    BY <2>2 DEF Armed
  <2>3. CASE \E kind \in Requests : Request(kind) \/ ArmRefused(kind)
    BY <2>1, <2>3 DEF Request, ArmRefused, seqVars, tally
  <2>4. CASE CqArmed \/ LoopArmed \/ ReplyArmed
    BY <2>2, <2>4 DEF CqArmed, LoopArmed, ReplyArmed
  <2>5. ASSUME NEW reason, Stop(reason) PROVE Polite
    BY <2>1, <2>5 DEF Stop, tally
  <2>6. CASE OperatorStops \/ FaultStops \/ DeadManStops \/ ReleaseLease
    BY <2>5, <2>6 DEF OperatorStops, FaultStops, DeadManStops, ReleaseLease, DisarmBy
  <2>7. CASE AcquireLease \/ LoseLease \/ IdleElapses
    BY <2>1, <2>7 DEF AcquireLease, LoseLease, IdleElapses, seqVars, tally
  <2>8. CASE TickLeaseLost \/ TickStopped \/ TickObserves
    BY <2>1, <2>8 DEF TickLeaseLost, TickStopped, TickObserves, seqVars, tally
  <2>9. CASE TickDone
    BY <2>9 DEF TickDone
  <2>10. CASE TickFailed \/ TickFailedTooLate
    <3>1. disarm_reason # NoReason
      BY <2>10, ReasonAssumption DEF TickFailed, TickFailedTooLate, RearmReasons, Reasons
    <3>2. state \in States \ Active
      BY <1>1, <3>1 DEF LoopInv, NoReasonWhileActive, SeqInv, SeqDataOK
    <3> QED
      BY <3>2 DEF States
  <2>11. CASE TickTimeout
    BY <2>5, <2>11 DEF TickTimeout
  <2>12. CASE Exchange
    <3>1. CASE PartnerTurnsAway \/ RetryExhausted
      BY <2>5, <3>1 DEF PartnerTurnsAway, RetryExhausted
    <3>2. ASSUME NEW p \in Stations, NEW kind \in Kinds, OnMessage(p, kind) PROVE Polite
      BY <2>1, <3>2 DEF OnMessage, HearAnswer, HearProgress, HearAgain, Concerns
    <3>3. CASE HandOut \/ CourtesyOver
      BY <2>1, <3>3 DEF HandOut, CourtesyOver, tally
    <3> QED
      BY <2>12, <3>1, <3>2, <3>3 DEF Exchange, NextTxMessage
  <2> HIDE DEF Polite
  <2> QED
    BY <1>1, <2>3, <2>4, <2>6, <2>7, <2>8, <2>9, <2>10, <2>11, <2>12 DEF Next, Tick
<1> QED
  BY <1>1, LoopInvInit, LoopInvStep, PTL DEF Spec, NeverInterrupts

\* The logbook sees the late tick as a CQ: the contact is dropped.
LEMMA TooLateListens ==
  ASSUME TickFailedTooLate
  PROVE  Contract!Next
<1>1. Contract!Listen
  BY DEF TickFailedTooLate, ResetPartner, Contract!Listen, ContactPhase
<1> QED
  BY <1>1 DEF Contract!Next

\* The automatic CQ implements the contract as well: calling again and again,
\* it writes each contact once at most and under its name.
THEOREM LoopRefinement == Spec => KeepsContract
<1>1. LoopInit => Contract!Init
  BY ContractInit DEF LoopInit
<1>2. LoopInv /\ [Next]_vars => [Contract!Next]_<<dx_call, ContactPhase, LogbookIs>>
  BY TooLateListens, LoopStepIsSequencerStep, ContractStep DEF LoopInv
<1> QED
  BY <1>1, <1>2, LoopInvInit, LoopInvStep, PTL DEF Spec, KeepsContract, Contract!Spec, LogbookIs

\* Within a session of the loop too the exchange only moves on.
THEOREM LoopMovesOn == Spec => SessionOnward
<1>1. LoopInv /\ [Next]_vars => [Onward]_seqVars
  <2>1. LoopInv /\ TickFailedTooLate => Onward
    BY DEF LoopInv, SeqInv, SeqDataOK, TickFailedTooLate, ResetPartner, Onward
  <2> QED
    BY <2>1, LoopStepIsSequencerStep, MovesOn DEF LoopInv
<1> QED
  BY <1>1, LoopInvInit, LoopInvStep, PTL DEF Spec, SessionOnward, Onward
=============================================================================
