--------------------------- MODULE TxSafetyProofs ---------------------------
(***************************************************************************)
(* TxSafety for every set of tasks, of interlocks, and every budget.       *)
(***************************************************************************)
EXTENDS TxSafety, SequenceTheorems, TLAPS

LEMMA QueueTypes ==
  ASSUME NEW S, NEW q \in Seq(S), NEW t \in S
  PROVE  /\ Append(q, t) \in Seq(S)
         /\ q # << >> => Tail(q) \in Seq(S) /\ Append(Tail(q), t) \in Seq(S)
<1>1. Append(q, t) \in Seq(S)
  BY AppendProperties
<1>2. ASSUME q # << >> PROVE Tail(q) \in Seq(S) /\ Append(Tail(q), t) \in Seq(S)
  BY <1>2, HeadTailProperties, AppendProperties
<1>3. QED BY <1>1, <1>2

\* Every step keeps the latched faults, the airtime, the tasks and their queue
\* in their types.
LEMMA DataCorrect == Spec => []DataOK
<1> USE TasksAssumption, BudgetAssumption DEF DataOK, Locations, RigWait, PttOffWait, OnAir, Audio
<1>b. Booting \in [Tasks -> Locations] /\ NoAudio \in [Tasks -> Audio] /\ <<Main>> \in Seq(Tasks)
  <2>1. Booting \in [Tasks -> Locations] /\ NoAudio \in [Tasks -> Audio]
    BY DEF Booting, NoAudio
  <2>2. <<Main>> \in Seq(Tasks)
    OBVIOUS
  <2>3. QED BY <2>1, <2>2
<1>1. Init => DataOK
  BY <1>b DEF Init
<1>2. DataOK /\ [Next]_vars => DataOK'
  <2> SUFFICES ASSUME DataOK, [Next]_vars PROVE DataOK'
    OBVIOUS
  <2>q. ASSUME NEW t \in Tasks
        PROVE  /\ Append(rig, t) \in Seq(Tasks)
               /\ rig # << >> => Tail(rig) \in Seq(Tasks) /\ Append(Tail(rig), t) \in Seq(Tasks)
    BY QueueTypes
  <2> USE DEF Goto, AwaitRig, AwaitRigAgain, LeaveRig, Disarm, Latch, control, player, Ready, CAT, AUDIO
  <2>1. CASE RigObeys
    BY <2>1 DEF RigObeys
  <2>2. ASSUME NEW t \in Tasks, StopTx(t) \/ Arm(t) PROVE DataOK'
    <3>1. CASE StopTx(t)
      BY <3>1, <2>q DEF StopTx
    <3>2. CASE Arm(t) /\ ptt_uncertain
      <4>1. AwaitRig(t, "arming") /\ UNCHANGED <<faults, tx_seconds, sent, keyed, player, crashes>>
        BY <3>2 DEF Arm
      <4> QED
        BY <4>1, <2>q
    <3>3. CASE Arm(t) /\ ~ptt_uncertain
      <4>1. tx_seconds' = 0 /\ UNCHANGED <<pc, rig, faults, sent, keyed, player, crashes>>
        BY <3>3 DEF Arm
      <4> QED
        BY <4>1, <2>q
    <3> QED
      BY <2>2, <3>1, <3>2, <3>3
  <2>3. ASSUME NEW t \in Tasks, NEW s \in Interlocks, ReportFault(t, s) PROVE DataOK'
    BY <2>3, <2>q DEF ReportFault
  <2>4. ASSUME NEW t \in Tasks, PullMessage(t) \/ TransmitBegins(t) \/ DriverGivesUp(t) PROVE DataOK'
    BY <2>4, <2>q DEF PullMessage, TransmitBegins, DriverGivesUp, Refused, Authorised,
                      TransmitUncertain, TransmitOverBudget, TransmitKeys
  <2>5. ASSUME NEW t \in Tasks, RigAnswers(t) PROVE DataOK'
    <3>1. PICK ok \in BOOLEAN : \/ PttOffThenEnd(t, ok) \/ ArmReturns(t, ok) \/ PreTxReturns(t, ok)
                               \/ PttOffThenFinally(t, ok) \/ FinalizeReturns(t, ok)
      BY <2>5 DEF RigAnswers
    <3>2. CASE PttOffThenEnd(t, ok)
      BY <3>2, <2>q DEF PttOffThenEnd, PttOff, Answer
    <3>3. CASE ArmReturns(t, ok)
      BY <3>3, <2>q DEF ArmReturns, PttOff, Answer
    <3>4. CASE PreTxReturns(t, ok)
      BY <3>4, <2>q DEF PreTxReturns, PttOff, Answer
    <3>5. CASE PttOffThenFinally(t, ok)
      BY <3>5, <2>q DEF PttOffThenFinally, PttOff, Answer
    <3>6. CASE FinalizeReturns(t, ok)
      BY <3>6, <2>q DEF FinalizeReturns, Answer
    <3>7. QED BY <3>1, <3>2, <3>3, <3>4, <3>5, <3>6
  <2>6. ASSUME NEW t \in Tasks, KeyingReturns(t) PROVE DataOK'
    <3>1. CASE KeyingSucceeds(t)
      BY <3>1, <2>q DEF KeyingSucceeds, Answer
    <3>2. CASE KeyingFails(t)
      BY <3>2, <2>q DEF KeyingFails, Answer
    <3> QED
      BY <2>6, <3>1, <3>2 DEF KeyingReturns
  <2>7. ASSUME NEW t \in Tasks, PlayStarts(t) \/ PlayEnds(t) \/ TxWatchdog(t) PROVE DataOK'
    BY <2>7 DEF PlayStarts, PlayEnds, TxWatchdog
  <2>8. ASSUME NEW t \in Tasks, Resumes(t) PROVE DataOK'
    <3>1. CASE PlaybackReturned(t)
      BY <3>1, <2>q DEF PlaybackReturned
    <3>2. CASE PlaybackFailed(t)
      BY <3>2, <2>q DEF PlaybackFailed, AudioFault, Finally
    <3>3. CASE PlaybackCrashed(t)
      BY <3>3, <2>q DEF PlaybackCrashed, Finally
    <3>4. CASE TxDeadline(t)
      BY <3>4, <2>q DEF TxDeadline, AudioFault, Finally
    <3>5. QED BY <2>8, <3>1, <3>2, <3>3, <3>4 DEF Resumes
  <2>9. CASE DisarmTx \/ SequencerEnds \/ \E s \in Interlocks : ClearFault(s)
    BY <2>9 DEF DisarmTx, SequencerEnds, ClearFault
  <2>10. CASE Crash
    BY <2>10, <1>b DEF Crash
  <2>11. CASE UNCHANGED vars
    BY <2>11 DEF vars
  <2>12. QED
    BY <2>1, <2>2, <2>3, <2>4, <2>5, <2>6, <2>7, <2>8, <2>9, <2>10, <2>11 DEF Next
<1>3. QED BY <1>1, <1>2, PTL DEF Spec

\* Every step keeps the Boolean variables Boolean.
LEMMA FlagsCorrect == Spec => []FlagsOK
<1> USE DEF FlagsOK
<1>1. Init => FlagsOK
  BY DEF Init
<1>2. FlagsOK /\ [Next]_vars => FlagsOK'
  <2> SUFFICES ASSUME FlagsOK, [Next]_vars PROVE FlagsOK'
    OBVIOUS
  <2> USE DEF AwaitRig, AwaitRigAgain, LeaveRig, Disarm, Latch, control, player
  <2>1. CASE RigObeys
    BY <2>1, Zenon DEF RigObeys
  <2>2. ASSUME NEW t \in Tasks, StopTx(t) \/ Arm(t) PROVE FlagsOK'
    BY <2>2, Zenon DEF StopTx, Arm
  <2>3. ASSUME NEW t \in Tasks, NEW s \in Interlocks, ReportFault(t, s) PROVE FlagsOK'
    BY <2>3, Zenon DEF ReportFault
  <2>4. ASSUME NEW t \in Tasks, PullMessage(t) \/ TransmitBegins(t) \/ DriverGivesUp(t) PROVE FlagsOK'
    BY <2>4, Zenon DEF PullMessage, TransmitBegins, DriverGivesUp, Refused,
                       TransmitUncertain, TransmitOverBudget, TransmitKeys
  <2>5. ASSUME NEW t \in Tasks, RigAnswers(t) PROVE FlagsOK'
    <3>1. PICK ok \in BOOLEAN : \/ PttOffThenEnd(t, ok) \/ ArmReturns(t, ok) \/ PreTxReturns(t, ok)
                               \/ PttOffThenFinally(t, ok) \/ FinalizeReturns(t, ok)
      BY <2>5 DEF RigAnswers
    <3>2. CASE PttOffThenEnd(t, ok)
      BY <3>2, Zenon DEF PttOffThenEnd, PttOff, Answer
    <3>3. CASE ArmReturns(t, ok)
      BY <3>3, Zenon DEF ArmReturns, PttOff, Answer
    <3>4. CASE PreTxReturns(t, ok)
      BY <3>4, Zenon DEF PreTxReturns, PttOff, Answer
    <3>5. CASE PttOffThenFinally(t, ok)
      BY <3>5, Zenon DEF PttOffThenFinally, PttOff, Answer
    <3>6. CASE FinalizeReturns(t, ok)
      BY <3>6, Zenon DEF FinalizeReturns, Answer
    <3>7. QED BY <3>1, <3>2, <3>3, <3>4, <3>5, <3>6
  <2>6. ASSUME NEW t \in Tasks, KeyingReturns(t) PROVE FlagsOK'
    BY <2>6, Zenon DEF KeyingReturns, KeyingSucceeds, KeyingFails, Answer
  <2>7. ASSUME NEW t \in Tasks, PlayStarts(t) \/ PlayEnds(t) \/ TxWatchdog(t) PROVE FlagsOK'
    <3>1. (cancelled /\ Playing # {}) \in BOOLEAN
      BY Zenon
    <3>2. cancelled' \in BOOLEAN
      BY <2>7, <3>1 DEF PlayStarts, PlayEnds, TxWatchdog
    <3>3. QED BY <2>7, <3>2, Zenon DEF PlayStarts, PlayEnds, TxWatchdog
  <2>8. ASSUME NEW t \in Tasks, Resumes(t) PROVE FlagsOK'
    BY <2>8, Zenon DEF Resumes, PlaybackReturned, PlaybackFailed, PlaybackCrashed, TxDeadline,
                       AudioFault, Finally
  <2>9. CASE DisarmTx \/ SequencerEnds \/ \E s \in Interlocks : ClearFault(s)
    BY <2>9, Zenon DEF DisarmTx, SequencerEnds, ClearFault
  <2>10. CASE Crash
    BY <2>10, Zenon DEF Crash
  <2>11. CASE UNCHANGED vars
    BY <2>11, Zenon DEF vars
  <2>12. QED
    BY TasksAssumption, <2>1, <2>2, <2>3, <2>4, <2>5, <2>6, <2>7, <2>8, <2>9, <2>10, <2>11 DEF Next
<1>3. QED BY <1>1, <1>2, PTL DEF Spec

\* Type correctness: every variable keeps its type in every behaviour.
THEOREM TypeCorrect == Spec => []TypeOK
BY DataCorrect, FlagsCorrect, PTL DEF TypeOK

-----------------------------------------------------------------------------
(***************************************************************************)
(* The four things a step does to the lock's queue.                        *)
(***************************************************************************)
LEMMA QueueAppend ==
  ASSUME DataOK, QueueInv, NEW t \in Tasks, pc[t] \notin RigWait,
         NEW place \in RigWait, AwaitRig(t, place)
  PROVE  /\ QueueInv'
         /\ rig # << >> => /\ rig' # << >> /\ Head(rig') = Head(rig)
                          /\ pc'[Head(rig')] = pc[Head(rig)]
<1> USE DEF DataOK
<1>1. /\ rig' \in Seq(Tasks) /\ rig' # << >> /\ Len(rig') = Len(rig) + 1
      /\ \A i \in 1 .. Len(rig) : rig'[i] = rig[i]
      /\ rig'[Len(rig) + 1] = t
  BY AppendProperties DEF AwaitRig
<1>2. Len(rig) \in Nat
  OBVIOUS
<1>3. \A i \in 1 .. Len(rig) : rig[i] \in Tasks /\ rig[i] # t /\ pc'[rig[i]] = pc[rig[i]]
  BY DEF QueueInv, QueueWaits, AwaitRig, Goto
<1>4. pc'[t] = place
  BY DEF AwaitRig, Goto
<1>5. QueueWaits'
  BY <1>1, <1>2, <1>3, <1>4 DEF QueueInv, QueueWaits
<1>6. QueueDistinct'
  BY <1>1, <1>2, <1>3 DEF QueueInv, QueueDistinct
<1>7. ASSUME rig # << >>
      PROVE  Head(rig') = Head(rig) /\ pc'[Head(rig')] = pc[Head(rig)]
  <2>1. 1 \in 1 .. Len(rig) /\ Head(rig) = rig[1] /\ Head(rig') = rig'[1]
    BY <1>1, <1>2, <1>7
  <2>2. QED BY <2>1, <1>1, <1>3
<1>8. QED BY <1>1, <1>5, <1>6, <1>7 DEF QueueInv

LEMMA QueueGoto ==
  ASSUME DataOK, QueueInv, NEW t \in Tasks, pc[t] \notin RigWait,
         NEW place, Goto(t, place), rig' = rig
  PROVE  QueueInv' /\ (rig # << >> => pc'[Head(rig)] = pc[Head(rig)])
<1> USE DEF DataOK
<1>1. \A i \in 1 .. Len(rig) : rig[i] \in Tasks /\ rig[i] # t /\ pc'[rig[i]] = pc[rig[i]]
  BY DEF QueueInv, QueueWaits, Goto
<1>2. QueueInv'
  BY <1>1 DEF QueueInv, QueueWaits, QueueDistinct
<1>3. rig # << >> => 1 \in 1 .. Len(rig) /\ Head(rig) = rig[1]
  OBVIOUS
<1>4. QED BY <1>1, <1>2, <1>3

LEMMA QueueLeave ==
  ASSUME DataOK, QueueInv, NEW t \in Tasks, rig # << >>, Head(rig) = t,
         NEW place, LeaveRig(t, place)
  PROVE  QueueInv'
<1> USE DEF DataOK
<1>1. /\ rig' \in Seq(Tasks) /\ Len(rig') = Len(rig) - 1
      /\ \A i \in 1 .. Len(rig') : rig'[i] = rig[i + 1]
  BY HeadTailProperties DEF LeaveRig
<1>2. Len(rig) \in Nat /\ rig[1] = t /\ Len(rig) >= 1
  OBVIOUS
<1>3. \A i \in 1 .. Len(rig') : i + 1 \in 1 .. Len(rig) /\ rig[i + 1] # t /\ rig[i + 1] \in Tasks
  BY <1>1, <1>2 DEF QueueInv, QueueDistinct
<1>4. \A i \in 1 .. Len(rig') : pc'[rig'[i]] = pc[rig[i + 1]]
  BY <1>1, <1>3 DEF LeaveRig, Goto
<1>5. QueueWaits'
  BY <1>3, <1>4 DEF QueueInv, QueueWaits
<1>6. QueueDistinct'
  BY <1>1, <1>2, <1>3 DEF QueueInv, QueueDistinct
<1>7. QED BY <1>5, <1>6 DEF QueueInv

LEMMA QueueAgain ==
  ASSUME DataOK, QueueInv, NEW t \in Tasks, rig # << >>, Head(rig) = t,
         NEW place \in RigWait, AwaitRigAgain(t, place)
  PROVE  QueueInv'
<1> USE DEF DataOK
<1> DEFINE rest == Tail(rig)
<1>1. /\ rest \in Seq(Tasks) /\ Len(rest) = Len(rig) - 1
      /\ \A i \in 1 .. Len(rest) : rest[i] = rig[i + 1]
  BY HeadTailProperties
<1>2. Len(rig) \in Nat /\ rig[1] = t /\ Len(rig) >= 1 /\ Len(rest) \in Nat
  BY <1>1
<1>3. \A i \in 1 .. Len(rest) : i + 1 \in 1 .. Len(rig) /\ rig[i + 1] # t /\ rig[i + 1] \in Tasks
  BY <1>1, <1>2 DEF QueueInv, QueueDistinct
<1> HIDE DEF rest
<1>4. /\ rig' \in Seq(Tasks) /\ Len(rig') = Len(rest) + 1
      /\ \A i \in 1 .. Len(rest) : rig'[i] = rest[i]
      /\ rig'[Len(rest) + 1] = t
  BY <1>1, AppendProperties DEF AwaitRigAgain, rest
<1>5. pc'[t] = place /\ \A u \in Tasks : u # t => pc'[u] = pc[u]
  BY DEF AwaitRigAgain, Goto
<1>6. \A i \in 1 .. Len(rest) : rig'[i] = rig[i + 1] /\ pc'[rig'[i]] = pc[rig[i + 1]]
  BY <1>1, <1>3, <1>4, <1>5
<1>7. QueueWaits'
  BY <1>2, <1>3, <1>4, <1>5, <1>6 DEF QueueInv, QueueWaits
<1>8. QueueDistinct'
  <2> SUFFICES ASSUME NEW i \in 1 .. Len(rest) + 1, NEW j \in 1 .. Len(rest) + 1,
                      rig'[i] = rig'[j]
               PROVE  i = j
    BY <1>4 DEF QueueDistinct
  <2>1. CASE i \in 1 .. Len(rest) /\ j \in 1 .. Len(rest)
    <3>1. i + 1 = j + 1
      BY <2>1, <1>3, <1>6 DEF QueueInv, QueueDistinct
    <3>2. QED BY <3>1, <1>2
  <2>2. CASE i = Len(rest) + 1 \/ j = Len(rest) + 1
    BY <2>2, <1>2, <1>3, <1>4, <1>6
  <2>3. QED BY <2>1, <2>2, <1>2
<1>9. QED BY <1>7, <1>8 DEF QueueInv

-----------------------------------------------------------------------------
(***************************************************************************)
(* The accounting of the key. A step that does not end a command leaves    *)
(* the rig, the two flags and the head of the queue alone (QuietStep); one *)
(* that ends a PTT-off leaves the rig unkeyed or uncertain (PttOffStep).   *)
(***************************************************************************)
LEMMA QuietStep ==
  ASSUME DataOK, KeyInv, NEW t \in Tasks, pc[t] \notin RigWait,
         UNCHANGED <<ptt_on, ptt_uncertain, sent, keyed>>,
         \/ \E place \in RigWait : AwaitRig(t, place)
         \/ (\E place \in Locations : Goto(t, place)) /\ rig' = rig
  PROVE  KeyInv'
<1>1. QueueInv' /\ (rig # << >> => rig' # << >> /\ Head(rig') \in Tasks
                                  /\ pc'[Head(rig')] = pc[Head(rig)])
  <2>1. CASE \E place \in RigWait : AwaitRig(t, place)
    BY <2>1, QueueAppend, HeadTailProperties DEF KeyInv, DataOK
  <2>2. CASE (\E place \in Locations : Goto(t, place)) /\ rig' = rig
    BY <2>2, QueueGoto, HeadTailProperties DEF KeyInv, DataOK
  <2>3. QED BY <2>1, <2>2
<1>2. SentHead'
  BY <1>1 DEF KeyInv, SentHead
<1>3. ~Started => ~Started'
  <2>1. "starting" \in RigWait
    BY DEF RigWait, PttOffWait
  <2>2. pc[Main] = "starting" => pc'[Main] = "starting"
    BY <2>1, TasksAssumption DEF AwaitRig, Goto, DataOK
  <2>3. QED BY <2>2 DEF Started
<1>4. KeyAccounted'
  BY <1>1, <1>3 DEF KeyInv, KeyAccounted, SentHead
<1>5. QED BY <1>1, <1>2, <1>4 DEF KeyInv

LEMMA PttOffStep ==
  ASSUME DataOK, KeyInv, NEW t \in Tasks, NEW ok \in BOOLEAN,
         Answer(t, ok), pc[t] \in PttOffWait, ptt_uncertain' = ~ok,
         \/ \E place \in Locations : LeaveRig(t, place)
         \/ \E place \in RigWait : AwaitRigAgain(t, place)
  PROVE  KeyInv' /\ (keyed' => ptt_uncertain')
<1>1. QueueInv'
  BY QueueLeave, QueueAgain DEF KeyInv, Answer
<1>2. SentHead'
  BY DEF Answer, SentHead
<1>3. pc[t] # "keying"
  BY DEF PttOffWait
<1>4. ok => ~keyed
  BY <1>3 DEF Answer, KeyInv, SentHead
<1>5. keyed' => ptt_uncertain'
  BY <1>4 DEF Answer
<1>6. QED BY <1>1, <1>2, <1>5 DEF KeyInv, KeyAccounted

LEMMA KeyInvariant == Spec => []KeyInv
<1> USE DEF RigWait, PttOffWait, OnAir, Locations
<1>1. Init => KeyInv
  <2> SUFFICES ASSUME Init PROVE KeyInv
    OBVIOUS
  <2>1. rig = <<Main>> /\ pc[Main] = "starting" /\ ~sent
    BY TasksAssumption DEF Init, Booting
  <2>2. Len(rig) = 1 /\ rig[1] = Main
    BY <2>1
  <2>3. QED BY <2>1, <2>2
       DEF KeyInv, QueueInv, QueueWaits, QueueDistinct, SentHead, KeyAccounted, Started
<1>2. DataOK /\ KeyInv /\ [Next]_vars => KeyInv'
  <2> SUFFICES ASSUME DataOK, KeyInv, [Next]_vars PROVE KeyInv'
    OBVIOUS
  <2> USE DEF control, player
  <2>1. CASE RigObeys
    BY <2>1 DEF RigObeys, KeyInv, QueueInv, QueueWaits, QueueDistinct, SentHead, KeyAccounted
  <2>2. ASSUME NEW t \in Tasks, StopTx(t) PROVE KeyInv'
    BY <2>2, QuietStep DEF StopTx, Ready
  <2>3. ASSUME NEW t \in Tasks, Arm(t) PROVE KeyInv'
    <3>1. CASE ptt_uncertain
      BY <2>3, <3>1, QuietStep DEF Arm, Ready
    <3>2. CASE ~ptt_uncertain
      BY <2>3, <3>2 DEF Arm, KeyInv, QueueInv, QueueWaits, QueueDistinct, SentHead,
                        KeyAccounted, Started
    <3>3. QED BY <3>1, <3>2
  <2>4. ASSUME NEW t \in Tasks, NEW s \in Interlocks, ReportFault(t, s) PROVE KeyInv'
    BY <2>4, QuietStep DEF ReportFault, Ready
  <2>5. ASSUME NEW t \in Tasks, PullMessage(t) \/ TransmitBegins(t) \/ DriverGivesUp(t)
        PROVE  KeyInv'
    BY <2>5, QuietStep DEF PullMessage, TransmitBegins, DriverGivesUp, Refused, Authorised,
                           TransmitUncertain, TransmitOverBudget, TransmitKeys, Ready
  <2>6. ASSUME NEW t \in Tasks, NEW ok \in BOOLEAN,
               \/ PttOffThenEnd(t, ok) \/ ArmReturns(t, ok) \/ PreTxReturns(t, ok)
               \/ PttOffThenFinally(t, ok) \/ FinalizeReturns(t, ok)
        PROVE  KeyInv'
    <3>1. CASE PttOffThenEnd(t, ok)
      BY <3>1, PttOffStep DEF PttOffThenEnd, PttOff
    <3>2. CASE ArmReturns(t, ok)
      BY <3>2, PttOffStep DEF ArmReturns, PttOff
    <3>3. CASE PreTxReturns(t, ok)
      BY <3>3, PttOffStep DEF PreTxReturns, PttOff
    <3>4. CASE PttOffThenFinally(t, ok)
      BY <3>4, PttOffStep DEF PttOffThenFinally, PttOff
    <3>5. CASE FinalizeReturns(t, ok)
      BY <3>5, PttOffStep DEF FinalizeReturns
    <3>6. QED BY <2>6, <3>1, <3>2, <3>3, <3>4, <3>5
  <2>7. ASSUME NEW t \in Tasks, KeyingReturns(t) PROVE KeyInv'
    <3>1. QueueInv'
      BY <2>7, QueueLeave, QueueAgain DEF KeyingReturns, KeyingSucceeds, KeyingFails, Answer, KeyInv
    <3>2. SentHead'
      BY <2>7 DEF KeyingReturns, KeyingSucceeds, KeyingFails, Answer, SentHead
    <3>3. ptt_on' \/ ptt_uncertain'
      BY <2>7 DEF KeyingReturns, KeyingSucceeds, KeyingFails
    <3>4. QED BY <3>1, <3>2, <3>3 DEF KeyInv, KeyAccounted
  <2>8. ASSUME NEW t \in Tasks, PlayStarts(t) \/ PlayEnds(t) PROVE KeyInv'
    BY <2>8 DEF PlayStarts, PlayEnds, KeyInv, QueueInv, QueueWaits, QueueDistinct, SentHead,
                KeyAccounted, Started
  <2>9. ASSUME NEW t \in Tasks, TxWatchdog(t) \/ Resumes(t) PROVE KeyInv'
    BY <2>9, QuietStep DEF TxWatchdog, Resumes, PlaybackReturned, PlaybackFailed, PlaybackCrashed,
                           TxDeadline, AudioFault, Finally
  <2>10. CASE DisarmTx \/ SequencerEnds \/ (\E s \in Interlocks : ClearFault(s)) \/ UNCHANGED vars
    BY <2>10 DEF DisarmTx, SequencerEnds, ClearFault, vars, KeyInv, QueueInv, QueueWaits,
                 QueueDistinct, SentHead, KeyAccounted, Started
  <2>11. CASE Crash
    <3>1. rig' = <<Main>> /\ pc'[Main] = "starting" /\ ~sent'
      BY <2>11, TasksAssumption DEF Crash, Booting
    <3>2. Len(rig') = 1 /\ rig'[1] = Main
      BY <3>1
    <3>3. QED BY <3>1, <3>2
         DEF KeyInv, QueueInv, QueueWaits, QueueDistinct, SentHead, KeyAccounted, Started
  <2>12. ASSUME NEW t \in Tasks, RigAnswers(t) PROVE KeyInv'
    BY <2>6, <2>12 DEF RigAnswers
  <2>13. QED
    BY TasksAssumption, <2>1, <2>2, <2>3, <2>4, <2>5, <2>7, <2>8, <2>9, <2>10, <2>11, <2>12 DEF Next
<1>3. QED BY <1>1, <1>2, DataCorrect, PTL DEF Spec

\* A rig on the air is never forgotten.
THEOREM KeyIsAccounted == Spec => []KeyAccounted
BY KeyInvariant, PTL DEF KeyInv

-----------------------------------------------------------------------------
\* ptt_on always has a transmit() that will clear it.
THEOREM PttOwned == Spec => []PttHasOwner
<1> USE DEF OnAir
<1>1. Init => PttHasOwner
  BY DEF Init, PttHasOwner
<1>2. DataOK /\ PttHasOwner /\ [Next]_vars => PttHasOwner'
  <2> SUFFICES ASSUME DataOK, PttHasOwner, [Next]_vars, ptt_on'
               PROVE  \E u \in Tasks : pc'[u] \in OnAir
    BY DEF PttHasOwner
  <2> USE DEF control, player, Goto, AwaitRig, AwaitRigAgain, LeaveRig, DataOK
  <2> DEFINE Goal == \E u \in Tasks : pc'[u] \in OnAir
  <2>o. ASSUME ptt_on
        PROVE  \E u \in Tasks : pc[u] \in OnAir
    BY <2>o DEF PttHasOwner
  \* A step of a task that is not on the air, or stays on it.
  <2>k. ASSUME NEW t \in Tasks, NEW place \in Locations, Goto(t, place), ptt_on' = ptt_on,
               pc[t] \in OnAir => place \in OnAir
        PROVE  Goal
    BY <2>k, <2>o
  <2>1. CASE RigObeys \/ DisarmTx \/ SequencerEnds \/ (\E s \in Interlocks : ClearFault(s))
    BY <2>1, <2>o DEF RigObeys, DisarmTx, SequencerEnds, ClearFault
  <2>2. ASSUME NEW t \in Tasks, StopTx(t) \/ Arm(t) PROVE Goal
    BY <2>2, <2>o DEF StopTx, Arm, Ready
  <2>3. ASSUME NEW t \in Tasks, NEW s \in Interlocks, ReportFault(t, s) PROVE Goal
    BY <2>3, <2>o DEF ReportFault, Ready
  <2>4. ASSUME NEW t \in Tasks, PullMessage(t) \/ TransmitBegins(t) \/ DriverGivesUp(t) PROVE Goal
    BY <2>4, <2>o DEF PullMessage, TransmitBegins, DriverGivesUp, Refused, Authorised,
                      TransmitUncertain, TransmitOverBudget, TransmitKeys, Ready
  <2>5. ASSUME NEW t \in Tasks, NEW ok \in BOOLEAN,
               PttOffThenEnd(t, ok) \/ ArmReturns(t, ok) \/ PreTxReturns(t, ok)
        PROVE  Goal
    BY <2>5, <2>o DEF PttOffThenEnd, ArmReturns, PreTxReturns, PttOff
  <2>6. ASSUME NEW t \in Tasks, NEW ok \in BOOLEAN, PttOffThenFinally(t, ok) PROVE Goal
    BY <2>6 DEF PttOffThenFinally
  <2>7. ASSUME NEW t \in Tasks, NEW ok \in BOOLEAN, FinalizeReturns(t, ok) PROVE Goal
    BY <2>7 DEF FinalizeReturns
  <2>8. ASSUME NEW t \in Tasks, KeyingSucceeds(t) PROVE Goal
    BY <2>8 DEF KeyingSucceeds
  <2>9. ASSUME NEW t \in Tasks, KeyingFails(t) PROVE Goal
    BY <2>9, <2>o DEF KeyingFails
  <2>10. ASSUME NEW t \in Tasks, PlayStarts(t) \/ PlayEnds(t) \/ TxWatchdog(t) PROVE Goal
    BY <2>10, <2>o DEF PlayStarts, PlayEnds, TxWatchdog
  <2>11. ASSUME NEW t \in Tasks, PlaybackReturned(t) PROVE Goal
    BY <2>11, <2>o DEF PlaybackReturned
  <2>12. ASSUME NEW t \in Tasks, PlaybackFailed(t) \/ PlaybackCrashed(t) \/ TxDeadline(t)
         PROVE  Goal
    BY <2>12 DEF PlaybackFailed, PlaybackCrashed, TxDeadline, AudioFault, Finally
  <2>13. CASE Crash
    BY <2>13 DEF Crash
  <2>14. CASE UNCHANGED vars
    BY <2>14, <2>o DEF vars
  <2>15. QED
    BY TasksAssumption, <2>1, <2>2, <2>3, <2>4, <2>5, <2>6, <2>7, <2>8, <2>9, <2>10, <2>11,
       <2>12, <2>13, <2>14 DEF Next, RigAnswers, KeyingReturns, Resumes
<1>3. QED BY <1>1, <1>2, DataCorrect, PTL DEF Spec

\* When no handler runs, the rig is off the air unless the controller says that
\* it does not know.
THEOREM QuiescentSafe == Spec => []QuiescentUnkeyed
<1>1. DataOK /\ KeyInv /\ PttHasOwner => QuiescentUnkeyed
  <2> SUFFICES ASSUME DataOK, KeyInv, PttHasOwner, \A t \in Tasks : pc[t] = "idle", keyed
               PROVE  ptt_uncertain
    BY DEF QuiescentUnkeyed
  <2>1. ~ptt_on
    BY DEF PttHasOwner, OnAir
  <2>2. Started
    BY TasksAssumption DEF Started
  <2>3. ~(sent /\ pc[Head(rig)] = "keying")
    BY HeadTailProperties DEF KeyInv, SentHead, DataOK
  <2>4. QED BY <2>1, <2>2, <2>3 DEF KeyInv, KeyAccounted
<1>2. QED BY <1>1, DataCorrect, KeyInvariant, PttOwned, PTL

\* A STOP that has ended has unkeyed the rig, or has latched the CAT interlock
\* and left the state uncertain.
THEOREM HonestStop == Spec => StopIsHonest
<1>1. DataOK /\ KeyInv /\ [Next]_vars => [\A t \in Tasks : EndsHonestly(t)]_vars
  <2> SUFFICES ASSUME DataOK, KeyInv, Next, NEW t \in Tasks,
                      pc[t] \in PttOffWait, pc'[t] = "idle", crashes' = crashes
               PROVE  ~keyed' \/ (ptt_uncertain' /\ CAT \in faults')
    BY DEF EndsHonestly
  <2> USE DEF Goto, AwaitRig, AwaitRigAgain, LeaveRig, DataOK, PttOffWait
  <2>1. ASSUME NEW ok \in BOOLEAN,
               \/ PttOffThenEnd(t, ok) \/ ArmReturns(t, ok) \/ PreTxReturns(t, ok)
               \/ PttOffThenFinally(t, ok) \/ FinalizeReturns(t, ok)
        PROVE  ~keyed' \/ (ptt_uncertain' /\ CAT \in faults')
    <3>1. Answer(t, ok) /\ ptt_uncertain' = ~ok /\ (~ok => CAT \in faults')
      BY <2>1 DEF PttOffThenEnd, ArmReturns, PreTxReturns, PttOffThenFinally, FinalizeReturns, PttOff
    <3>2. ok => ~keyed
      BY <3>1 DEF Answer, KeyInv, SentHead
    <3>3. QED BY <3>1, <3>2 DEF Answer
  <2>2. \E ok \in BOOLEAN :
               \/ PttOffThenEnd(t, ok) \/ ArmReturns(t, ok) \/ PreTxReturns(t, ok)
               \/ PttOffThenFinally(t, ok) \/ FinalizeReturns(t, ok)
    <3>1. ASSUME NEW u \in Tasks, pc[u] \notin PttOffWait,
                 \E place \in Locations : Goto(u, place)
          PROVE  FALSE
      BY <3>1
    <3>2. ASSUME pc' = pc PROVE FALSE
      BY <3>2
    <3>3. ~RigObeys /\ ~DisarmTx /\ ~SequencerEnds /\ ~(\E s \in Interlocks : ClearFault(s))
      BY <3>2 DEF RigObeys, DisarmTx, SequencerEnds, ClearFault
    <3>4. ~Crash
      BY DEF Crash
    <3>5. ASSUME NEW u \in Tasks PROVE ~StopTx(u) /\ ~Arm(u)
      BY DEF StopTx, Arm, Ready
    <3>6. ASSUME NEW u \in Tasks, NEW s \in Interlocks PROVE ~ReportFault(u, s)
      BY DEF ReportFault, Ready
    <3>7. ASSUME NEW u \in Tasks PROVE ~PullMessage(u) /\ ~TransmitBegins(u) /\ ~DriverGivesUp(u)
      BY DEF PullMessage, TransmitBegins, DriverGivesUp, Refused, Authorised,
             TransmitUncertain, TransmitOverBudget, TransmitKeys, Ready
    <3>8. ASSUME NEW u \in Tasks
          PROVE  ~KeyingReturns(u) /\ ~PlayStarts(u) /\ ~PlayEnds(u) /\ ~TxWatchdog(u)
      BY <3>2 DEF KeyingReturns, KeyingSucceeds, KeyingFails, PlayStarts, PlayEnds, TxWatchdog
    <3>9. ASSUME NEW u \in Tasks PROVE ~Resumes(u)
      BY DEF Resumes, PlaybackReturned, PlaybackFailed, PlaybackCrashed, TxDeadline, AudioFault, Finally
    <3>10. PICK u \in Tasks : RigAnswers(u)
      BY TasksAssumption, <3>3, <3>4, <3>5, <3>6, <3>7, <3>8, <3>9 DEF Next
    <3>11. u = t
      BY <3>10 DEF RigAnswers, PttOffThenEnd, ArmReturns, PreTxReturns, PttOffThenFinally, FinalizeReturns
    <3>12. QED BY <3>10, <3>11 DEF RigAnswers
  <2>3. QED BY <2>1, <2>2
<1>2. QED BY <1>1, DataCorrect, KeyInvariant, PTL DEF Spec, StopIsHonest

-----------------------------------------------------------------------------
(***************************************************************************)
(* The airtime. A transmission is charged when it returns, so that         *)
(* BudgetHolds is not inductive: it must be known that what was keyed had  *)
(* room when it was keyed and has had it since (HasRoom), and that only    *)
(* the driver's tasks get that far (DriverSends).                          *)
(***************************************************************************)
Sending == {"encoding", "pre_tx", "keying", "playing"}
DriverSends == \A t \in Tasks : pc[t] \in Sending => t \in Transmitters
HasRoom == \A t \in Tasks : pc[t] \in {"keying", "playing"} => tx_seconds + Duration <= AggregateTx
BudgetInv == DriverSends /\ HasRoom /\ BudgetHolds

\* What has room has room for less.
LEMMA LessRoom ==
  \A a, b, length, limit \in Nat : a <= b /\ b + length <= limit => a + length <= limit
OBVIOUS

\* A step of one task that charges nothing: no budget is touched, or a new
\* session has begun.
LEMMA UnchargedStep ==
  ASSUME DataOK, BudgetInv, NEW t \in Tasks, NEW place \in Locations, Goto(t, place),
         tx_seconds' \in {tx_seconds, 0},
         place \in Sending => t \in Transmitters,
         place \in {"keying", "playing"} =>
           tx_seconds' = tx_seconds /\ (pc[t] \in {"keying", "playing"} \/ ~OverBudget)
  PROVE  BudgetInv'
<1>1. pc'[t] = place /\ \A u \in Tasks \ {t} : pc'[u] = pc[u]
  BY DEF Goto, DataOK
<1>2. tx_seconds' \in Nat /\ tx_seconds' <= tx_seconds /\ tx_seconds \in Nat
  BY DEF DataOK
<1>3. DriverSends'
  BY <1>1 DEF BudgetInv, DriverSends, Sending
<1>4. ASSUME NEW u \in Tasks, pc'[u] \in {"keying", "playing"}
      PROVE  tx_seconds' + Duration <= AggregateTx
  <2>1. CASE u = t /\ pc[t] \in {"keying", "playing"}
    BY <1>1, <1>2, <1>4, <2>1 DEF BudgetInv, HasRoom
  <2>2. CASE u = t /\ ~OverBudget
    <3>1. tx_seconds' = tx_seconds /\ ~(tx_seconds + Duration > AggregateTx)
      BY <1>1, <1>4, <2>2 DEF OverBudget
    <3> QED
      BY <1>2, <3>1, BudgetAssumption
  <2>3. CASE u # t
    <3>1. tx_seconds + Duration <= AggregateTx
      BY <1>1, <1>4, <2>3 DEF BudgetInv, HasRoom
    <3>2. Duration \in Nat /\ AggregateTx \in Nat
      BY BudgetAssumption
    <3> QED
      BY <1>2, <3>1, <3>2, LessRoom
  <2> QED
    BY <1>1, <1>4, <2>1, <2>2, <2>3
<1>5. BudgetHolds'
  BY <1>2, BudgetAssumption DEF BudgetInv, BudgetHolds
<1> QED
  BY <1>3, <1>4, <1>5 DEF BudgetInv, HasRoom

\* A step that moves no task and charges nothing.
LEMMA StillStep ==
  ASSUME DataOK, BudgetInv, pc' = pc, tx_seconds' \in {tx_seconds, 0}
  PROVE  BudgetInv'
<1>1. tx_seconds' \in Nat /\ tx_seconds' <= tx_seconds /\ tx_seconds \in Nat
  BY DEF DataOK
<1>2. DriverSends'
  BY DEF BudgetInv, DriverSends, Sending
<1>3. HasRoom'
  <2> SUFFICES ASSUME NEW u \in Tasks, pc'[u] \in {"keying", "playing"}
               PROVE  tx_seconds' + Duration <= AggregateTx
    BY DEF HasRoom
  <2>1. tx_seconds + Duration <= AggregateTx
    BY DEF BudgetInv, HasRoom
  <2> QED
    BY <1>1, <2>1, BudgetAssumption, LessRoom
<1>4. BudgetHolds'
  BY <1>1, BudgetAssumption DEF BudgetInv, BudgetHolds
<1> QED
  BY <1>2, <1>3, <1>4 DEF BudgetInv

(***************************************************************************)
(* The airtime of an armed session passes its budget by no more than the   *)
(* margin of the last transmission (NFR-057), when the driver has one task *)
(* at a time in transmit(): _tx_in_flight sees to that (OneInFlight of     *)
(* SlotTx).                                                                *)
(***************************************************************************)
THEOREM BudgetKept ==
  ASSUME \A t, u \in Transmitters : t = u
  PROVE  Spec => []BudgetHolds
<1>1. Init => BudgetInv
  BY TasksAssumption, BudgetAssumption
     DEF Init, Booting, BudgetInv, DriverSends, HasRoom, BudgetHolds, Sending
<1>2. DataOK /\ BudgetInv /\ [Next]_vars => BudgetInv'
  <2> SUFFICES ASSUME DataOK, BudgetInv, [Next]_vars PROVE BudgetInv'
    OBVIOUS
  <2> USE DEF control, player, AwaitRig, AwaitRigAgain, LeaveRig, Locations, RigWait, PttOffWait,
              OnAir, Sending
  <2>1. CASE RigObeys \/ DisarmTx \/ SequencerEnds \/ (\E s \in Interlocks : ClearFault(s))
    BY <2>1, StillStep DEF RigObeys, DisarmTx, SequencerEnds, ClearFault
  <2>2. ASSUME NEW t \in Tasks, StopTx(t) PROVE BudgetInv'
    BY <2>2, UnchargedStep DEF StopTx
  <2>3. ASSUME NEW t \in Tasks, Arm(t) PROVE BudgetInv'
    <3>1. CASE ptt_uncertain
      BY <2>3, <3>1, UnchargedStep DEF Arm
    <3>2. CASE ~ptt_uncertain
      BY <2>3, <3>2, StillStep DEF Arm
    <3> QED
      BY <3>1, <3>2
  <2>4. ASSUME NEW t \in Tasks, NEW s \in Interlocks, ReportFault(t, s) PROVE BudgetInv'
    BY <2>4, UnchargedStep DEF ReportFault
  <2>5. ASSUME NEW t \in Transmitters, PullMessage(t) \/ TransmitBegins(t) \/ DriverGivesUp(t)
        PROVE  BudgetInv'
    BY <2>5, TasksAssumption, UnchargedStep
       DEF PullMessage, TransmitBegins, DriverGivesUp, Refused, TransmitUncertain,
           TransmitOverBudget, TransmitKeys
  <2>6. ASSUME NEW t \in Tasks, RigAnswers(t) PROVE BudgetInv'
    <3>1. PICK ok \in BOOLEAN : \/ PttOffThenEnd(t, ok) \/ ArmReturns(t, ok) \/ PreTxReturns(t, ok)
                               \/ PttOffThenFinally(t, ok) \/ FinalizeReturns(t, ok)
      BY <2>6 DEF RigAnswers
    <3>2. CASE PttOffThenEnd(t, ok)
      BY <3>2, UnchargedStep DEF PttOffThenEnd
    <3>3. CASE ArmReturns(t, ok)
      BY <3>3, UnchargedStep DEF ArmReturns
    <3>4. CASE PreTxReturns(t, ok)
      <4>1. t \in Transmitters
        BY <3>4 DEF PreTxReturns, BudgetInv, DriverSends
      <4> QED
        BY <3>4, <4>1, UnchargedStep DEF PreTxReturns
    <3>5. CASE PttOffThenFinally(t, ok)
      BY <3>5, UnchargedStep DEF PttOffThenFinally
    <3>6. CASE FinalizeReturns(t, ok)
      BY <3>6, UnchargedStep DEF FinalizeReturns
    <3> QED
      BY <3>1, <3>2, <3>3, <3>4, <3>5, <3>6
  <2>7. ASSUME NEW t \in Tasks, KeyingReturns(t) PROVE BudgetInv'
    <3>1. t \in Transmitters
      BY <2>7 DEF KeyingReturns, KeyingSucceeds, KeyingFails, BudgetInv, DriverSends
    <3>2. CASE KeyingSucceeds(t)
      BY <3>1, <3>2, UnchargedStep DEF KeyingSucceeds
    <3>3. CASE KeyingFails(t)
      BY <3>3, UnchargedStep DEF KeyingFails
    <3> QED
      BY <2>7, <3>2, <3>3 DEF KeyingReturns
  <2>8. ASSUME NEW t \in Tasks, PlayStarts(t) \/ PlayEnds(t) PROVE BudgetInv'
    BY <2>8, StillStep DEF PlayStarts, PlayEnds
  <2>9. ASSUME NEW t \in Tasks, TxWatchdog(t) PROVE BudgetInv'
    BY <2>9, UnchargedStep DEF TxWatchdog
  <2>10. ASSUME NEW t \in Tasks, PlaybackFailed(t) \/ PlaybackCrashed(t) \/ TxDeadline(t)
         PROVE  BudgetInv'
    BY <2>10, UnchargedStep DEF PlaybackFailed, PlaybackCrashed, TxDeadline, AudioFault, Finally
  \* The one step that charges: no other task has anything keyed.
  <2>11. ASSUME NEW t \in Tasks, PlaybackReturned(t) PROVE BudgetInv'
    <3>1. PICK elapsed \in 0 .. Duration + Margin : tx_seconds' = tx_seconds + elapsed
      BY <2>11 DEF PlaybackReturned
    <3>2. t \in Transmitters /\ tx_seconds + Duration <= AggregateTx
      BY <2>11 DEF PlaybackReturned, BudgetInv, DriverSends, HasRoom
    <3>3. pc' = [pc EXCEPT ![t] = "completing"]
      BY <2>11 DEF PlaybackReturned, Goto
    <3>4. BudgetHolds'
      BY <3>1, <3>2, BudgetAssumption DEF BudgetHolds, DataOK
    <3>5. DriverSends'
      BY <3>3 DEF BudgetInv, DriverSends, DataOK
    <3>6. \A u \in Tasks : pc'[u] \notin {"keying", "playing"}
      BY <3>2, <3>3 DEF BudgetInv, DriverSends, DataOK
    <3> QED
      BY <3>4, <3>5, <3>6 DEF BudgetInv, HasRoom
  <2>12. CASE Crash
    BY <2>12, TasksAssumption, BudgetAssumption
       DEF Crash, Booting, BudgetInv, DriverSends, HasRoom, BudgetHolds
  <2>13. CASE UNCHANGED vars
    BY <2>13, StillStep DEF vars
  <2> QED
    BY TasksAssumption, <2>1, <2>2, <2>3, <2>4, <2>5, <2>6, <2>7, <2>8, <2>9, <2>10, <2>11,
       <2>12, <2>13 DEF Next, Resumes
<1> QED
  BY <1>1, <1>2, DataCorrect, PTL DEF Spec, BudgetInv
=============================================================================
