------------------------------ MODULE TxSafety ------------------------------
(***************************************************************************)
(* The PTT authority of server/engine/safety.py: SafetyController with the *)
(* two devices it drives, the CAT link of rig.py (one asyncio.Lock, served *)
(* first come first served) and the playback of audio_tx.py.               *)
(*                                                                         *)
(* The server is one event loop, so the code between two awaits is one     *)
(* step. Every await of a handler is a value of pc, and the step that      *)
(* leaves it is the rest of the handler up to the next await. The rig      *)
(* itself is the variable keyed: it obeys the command of the lock's holder *)
(* at a moment of its own, and the reply may be lost after it has obeyed.  *)
(***************************************************************************)
EXTENDS Integers, Sequences

CONSTANTS
  Tasks,          \* asyncio tasks that run handlers of the controller
  Transmitters,   \* those created for the transmit driver
  Main,           \* the task that runs the startup path
  Interlocks,     \* sources of faults (the Interlock enumeration)
  Duration,       \* length of one waveform
  Margin,         \* per_tx_margin_s
  AggregateTx,    \* aggregate_tx_s
  MaxCrashes      \* bound: how often the process dies in one behaviour

CAT   == "cat"
AUDIO == "audio"

ASSUME TasksAssumption ==
  /\ Transmitters \subseteq Tasks
  /\ Main \in Tasks \ Transmitters
  /\ {CAT, AUDIO} \subseteq Interlocks
ASSUME BudgetAssumption ==
  /\ Duration \in Nat \ {0}
  /\ Margin \in Nat
  /\ AggregateTx \in Nat
  /\ MaxCrashes \in Nat

VARIABLES
  armed,          \* SafetyController.armed
  ptt_on,         \* SafetyController.ptt_on: the controller keyed the rig
  ptt_uncertain,  \* SafetyController.ptt_uncertain: the line may be keyed
  faults,         \* SafetyController.faults: the latched interlocks
  tx_seconds,     \* SafetyController.tx_seconds: airtime of this armed session
  tx_enabled,     \* Sequencer.tx_enabled, the flag disarm() drops
  pc,             \* where each task awaits
  rig,            \* RigClient._lock: its holder, then its waiters
  sent,           \* the rig has obeyed the holder's command
  keyed,          \* the transmitter is on the air
  audio,          \* the play() task of each transmission
  cancelled,      \* TxPlayer._cancelled
  crashes         \* how often the process has died

control == <<armed, ptt_on, ptt_uncertain, faults, tx_seconds, tx_enabled>>
player  == <<audio, cancelled>>
vars    == <<control, pc, rig, sent, keyed, player, crashes>>

\* Tasks that wait for the lock or for the reply to a PTT command. Only
\* "keying" asks for PTT on.
PttOffWait == {"starting", "arming", "stopping", "faulting", "pre_tx", "budget_stop",
               "key_failed", "completing", "audio_fault", "finalizing"}
RigWait    == PttOffWait \cup {"keying"}
\* transmit() has set ptt_on and has not left its finally clause.
OnAir      == {"playing", "unwinding", "completing", "audio_fault", "finalizing"}
Locations  == {"idle", "encoding"} \cup RigWait \cup OnAir

Audio == {"none", "pending", "writing", "ended", "audio_error", "crashed"}

-----------------------------------------------------------------------------
(***************************************************************************)
(* Startup: start() is the process's first use of the rig, and no other    *)
(* handler runs before it returns. A process that died may have left the   *)
(* rig keyed.                                                              *)
(***************************************************************************)
Booting == [t \in Tasks |-> IF t = Main THEN "starting" ELSE "idle"]
NoAudio == [t \in Tasks |-> "none"]

Init ==
  /\ armed = FALSE /\ ptt_on = FALSE /\ ptt_uncertain = FALSE
  /\ faults = {} /\ tx_seconds = 0 /\ tx_enabled = FALSE
  /\ pc = Booting /\ rig = <<Main>> /\ sent = FALSE
  /\ audio = NoAudio /\ cancelled = FALSE
  /\ keyed \in BOOLEAN
  /\ crashes = 0

Started == pc[Main] # "starting"
Ready(t) == Started /\ pc[t] = "idle"

Goto(t, place) == pc' = [pc EXCEPT ![t] = place]

\* A task that does not hold the lock asks for it: the tail of the queue.
AwaitRig(t, place) == Goto(t, place) /\ rig' = Append(rig, t)

\* The holder of the lock gets its answer and asks again, behind the others.
AwaitRigAgain(t, place) == Goto(t, place) /\ rig' = Append(Tail(rig), t)

\* The holder of the lock gets its answer and leaves.
LeaveRig(t, place) == Goto(t, place) /\ rig' = Tail(rig)

Disarm == armed' = FALSE /\ tx_enabled' = FALSE

\* The synchronous half of report_fault() for a source that is not latched.
Latch(source) ==
  /\ faults' = faults \cup {source}
  /\ cancelled' = TRUE
  /\ Disarm

-----------------------------------------------------------------------------
(***************************************************************************)
(* The rig. _set() holds the lock from the write to the reply; it fails    *)
(* when the link cannot be opened, the rig refuses, or 2 s pass without a  *)
(* reply, and in the last case the rig may have obeyed (sent).             *)
(***************************************************************************)
RigObeys ==
  /\ rig # << >> /\ ~sent
  /\ sent' = TRUE
  /\ keyed' = (pc[Head(rig)] = "keying")
  /\ UNCHANGED <<control, pc, rig, player, crashes>>

Answer(t, ok) ==
  /\ rig # << >> /\ Head(rig) = t
  /\ ok => sent
  /\ sent' = FALSE
  /\ UNCHANGED <<keyed, crashes>>

\* PttOff as it would be if a failed command latched no fault.
PttOffWithoutLatch(t, ok) ==
  /\ Answer(t, ok)
  /\ ptt_uncertain' = ~ok
  /\ ptt_on' = (ptt_on /\ ~ok)
  /\ UNCHANGED faults

\* The rest of _ptt_off_best_effort() once the command has ended.
PttOff(t, ok) ==
  /\ Answer(t, ok)
  /\ ptt_uncertain' = ~ok
  /\ ptt_on' = (ptt_on /\ ~ok)
  /\ faults' = IF ok THEN faults ELSE faults \cup {CAT}

-----------------------------------------------------------------------------
(***************************************************************************)
(* Handlers that ask for PTT off once: start(), stop_tx() for the operator *)
(* and for the dead man, report_fault() for main.py's callbacks.           *)
(***************************************************************************)
StopTx(t) ==
  /\ Ready(t)
  /\ cancelled' = TRUE
  /\ Disarm
  /\ AwaitRig(t, "stopping")
  /\ UNCHANGED <<ptt_on, ptt_uncertain, faults, tx_seconds, sent, keyed, audio, crashes>>

ReportFault(t, source) ==
  /\ Ready(t)
  /\ source \notin faults
  /\ Latch(source)
  /\ AwaitRig(t, "faulting")
  /\ UNCHANGED <<ptt_on, ptt_uncertain, tx_seconds, sent, keyed, audio, crashes>>

\* start(), stop_tx(), report_fault() end; so does a transmit() that was
\* refused by its budget or whose PTT-on failed.
PttOffThenEnd(t, ok) ==
  /\ pc[t] \in {"starting", "stopping", "faulting", "budget_stop", "key_failed"}
  /\ PttOff(t, ok)
  /\ LeaveRig(t, "idle")
  /\ UNCHANGED <<armed, tx_seconds, tx_enabled, player>>

(***************************************************************************)
(* arm(), with the start_cq() or reply_to() its callers run in the same    *)
(* step. The faults are read before the await only.                        *)
(***************************************************************************)
Arm(t) ==
  /\ Ready(t)
  /\ faults = {}
  /\ IF ptt_uncertain
     THEN /\ AwaitRig(t, "arming")
          /\ UNCHANGED <<armed, tx_seconds, tx_enabled>>
     ELSE /\ armed' = TRUE /\ tx_seconds' = 0 /\ tx_enabled' = TRUE
          /\ UNCHANGED <<pc, rig>>
  /\ UNCHANGED <<ptt_on, ptt_uncertain, faults, sent, keyed, player, crashes>>

ArmReturns(t, ok) ==
  /\ pc[t] = "arming"
  /\ PttOff(t, ok)
  /\ LeaveRig(t, "idle")
  /\ armed' = (armed \/ ok)
  /\ tx_enabled' = (tx_enabled \/ ok)
  /\ tx_seconds' = IF ok THEN 0 ELSE tx_seconds
  /\ UNCHANGED player

(***************************************************************************)
(* Synchronous handlers: the TX-off button and a released lease disarm; an *)
(* operator clears a fault; the sequencer stops or completes on its own.   *)
(***************************************************************************)
DisarmTx ==
  /\ Started
  /\ Disarm
  /\ UNCHANGED <<ptt_on, ptt_uncertain, faults, tx_seconds, pc, rig, sent, keyed, player, crashes>>

ClearFault(source) ==
  /\ Started
  /\ source \in faults
  /\ faults' = faults \ {source}
  /\ UNCHANGED <<armed, ptt_on, ptt_uncertain, tx_seconds, tx_enabled,
                 pc, rig, sent, keyed, player, crashes>>

SequencerEnds ==
  /\ tx_enabled
  /\ tx_enabled' = FALSE
  /\ UNCHANGED <<armed, ptt_on, ptt_uncertain, faults, tx_seconds,
                 pc, rig, sent, keyed, player, crashes>>

-----------------------------------------------------------------------------
(***************************************************************************)
(* transmit(). The driver pulls a message while the sequencer is enabled   *)
(* and awaits its waveform before it calls.                                *)
(***************************************************************************)
PullMessage(t) ==
  /\ Ready(t)
  /\ tx_enabled
  /\ Goto(t, "encoding")
  /\ UNCHANGED <<control, rig, sent, keyed, player, crashes>>

\* OverBudget if it did not count the waveform that is about to be sent.
OverBudgetAfterwards == tx_seconds > AggregateTx

OverBudget == tx_seconds + Duration > AggregateTx

\* The driver's refusal path: transmit() raises before it has asked for PTT.
Refused(t) ==
  /\ pc[t] = "encoding"
  /\ faults # {} \/ ~armed
  /\ Goto(t, "idle")
  /\ UNCHANGED <<control, rig, sent, keyed, player, crashes>>

Authorised(t) == pc[t] = "encoding" /\ faults = {} /\ armed

TransmitUncertain(t) ==
  /\ Authorised(t)
  /\ ptt_uncertain
  /\ AwaitRig(t, "pre_tx")
  /\ UNCHANGED <<control, sent, keyed, player, crashes>>

TransmitOverBudget(t) ==
  /\ Authorised(t)
  /\ ~ptt_uncertain /\ OverBudget
  /\ cancelled' = TRUE
  /\ Disarm
  /\ AwaitRig(t, "budget_stop")
  /\ UNCHANGED <<ptt_on, ptt_uncertain, faults, tx_seconds, sent, keyed, audio, crashes>>

TransmitKeys(t) ==
  /\ Authorised(t)
  /\ ~ptt_uncertain /\ ~OverBudget
  /\ AwaitRig(t, "keying")
  /\ UNCHANGED <<control, sent, keyed, player, crashes>>

\* The "pre-tx" PTT-off has ended. Only the budget is looked at again.
PreTxReturns(t, ok) ==
  /\ pc[t] = "pre_tx"
  /\ PttOff(t, ok)
  /\ UNCHANGED <<tx_seconds, audio>>
  /\ \/ ~ok /\ LeaveRig(t, "idle") /\ UNCHANGED <<armed, tx_enabled, cancelled>>
     \/ ok /\ OverBudget /\ AwaitRigAgain(t, "budget_stop") /\ Disarm /\ cancelled' = TRUE
     \/ ok /\ ~OverBudget /\ AwaitRigAgain(t, "keying") /\ UNCHANGED <<armed, tx_enabled, cancelled>>

KeyingSucceeds(t) ==
  /\ pc[t] = "keying"
  /\ Answer(t, TRUE)
  /\ ptt_on' = TRUE
  /\ audio' = [audio EXCEPT ![t] = "pending"]
  /\ LeaveRig(t, "playing")
  /\ UNCHANGED <<armed, ptt_uncertain, faults, tx_seconds, tx_enabled, cancelled>>

\* KeyingFails if a command without a reply were taken for one not executed.
KeyingFailsUnkeyed(t) ==
  /\ pc[t] = "keying"
  /\ Answer(t, FALSE)
  /\ IF CAT \in faults
     THEN LeaveRig(t, "idle") /\ UNCHANGED <<armed, faults, tx_enabled, cancelled>>
     ELSE LeaveRig(t, "idle") /\ Latch(CAT)
  /\ UNCHANGED <<ptt_on, ptt_uncertain, tx_seconds, audio>>

\* The rig may be on the air: it stays uncertain until a PTT-off succeeds.
KeyingFails(t) ==
  /\ pc[t] = "keying"
  /\ Answer(t, FALSE)
  /\ ptt_uncertain' = TRUE
  /\ IF CAT \in faults
     THEN LeaveRig(t, "idle") /\ UNCHANGED <<armed, faults, tx_enabled, cancelled>>
     ELSE AwaitRigAgain(t, "key_failed") /\ Latch(CAT)
  /\ UNCHANGED <<ptt_on, tx_seconds, audio>>

-----------------------------------------------------------------------------
(***************************************************************************)
(* TxPlayer.play(), a task of its own: it clears the cancel flag when it   *)
(* starts, writes blocks in a thread and looks at the flag between them. A *)
(* device that cannot be opened, or a stream already playing, raises an    *)
(* error that is not a TxAudioError ("crashed").                           *)
(***************************************************************************)
Playing == {t \in Tasks : audio[t] = "writing"}

PlayStarts(t) ==
  /\ audio[t] = "pending"
  /\ \/ audio' = [audio EXCEPT ![t] = "crashed"] /\ cancelled' \in {cancelled, cancelled /\ Playing # {}}
     \/ Playing = {} /\ audio' = [audio EXCEPT ![t] = "writing"] /\ cancelled' = FALSE
  /\ UNCHANGED <<control, pc, rig, sent, keyed, crashes>>

PlayEnds(t) ==
  /\ audio[t] = "writing"
  /\ \E result \in {"ended", "audio_error"} :
       /\ cancelled => result = "ended"
       /\ audio' = [audio EXCEPT ![t] = result]
  /\ UNCHANGED <<control, pc, rig, sent, keyed, cancelled, crashes>>

(***************************************************************************)
(* transmit() after its asyncio.wait(): a finished play() wins over the    *)
(* deadline, whatever the order they came in.                              *)
(***************************************************************************)

\* The finally clause of a task that does not hold the lock.
Finally(t) == IF ptt_on THEN AwaitRig(t, "finalizing") ELSE Goto(t, "idle") /\ UNCHANGED rig

\* report_fault(AUDIO), then the finally clause.
AudioFault(t) ==
  IF AUDIO \in faults
  THEN Finally(t) /\ UNCHANGED <<armed, faults, tx_enabled, cancelled>>
  ELSE AwaitRig(t, "audio_fault") /\ Latch(AUDIO)

PlaybackReturned(t) ==
  /\ pc[t] = "playing" /\ audio[t] = "ended"
  /\ audio' = [audio EXCEPT ![t] = "none"]
  /\ \E elapsed \in 0 .. Duration + Margin : tx_seconds' = tx_seconds + elapsed
  /\ AwaitRig(t, "completing")
  /\ UNCHANGED <<armed, ptt_on, ptt_uncertain, faults, tx_enabled, sent, keyed, cancelled, crashes>>

PlaybackFailed(t) ==
  /\ pc[t] = "playing" /\ audio[t] = "audio_error"
  /\ audio' = [audio EXCEPT ![t] = "none"]
  /\ AudioFault(t)
  /\ UNCHANGED <<ptt_on, ptt_uncertain, tx_seconds, sent, keyed, crashes>>

PlaybackCrashed(t) ==
  /\ pc[t] = "playing" /\ audio[t] = "crashed"
  /\ audio' = [audio EXCEPT ![t] = "none"]
  /\ Finally(t)
  /\ UNCHANGED <<control, sent, keyed, cancelled, crashes>>

\* TxWatchdog if it were armed only once the stream is open.
TxWatchdogOnceOpen(t) ==
  /\ pc[t] = "playing" /\ audio[t] = "writing"
  /\ cancelled' = TRUE
  /\ Goto(t, "unwinding")
  /\ UNCHANGED <<control, rig, sent, keyed, audio, crashes>>

TxWatchdog(t) ==
  /\ pc[t] = "playing" /\ audio[t] \in {"pending", "writing"}
  /\ cancelled' = TRUE
  /\ Goto(t, "unwinding")
  /\ UNCHANGED <<control, rig, sent, keyed, audio, crashes>>

\* play() was cancelled and has closed its stream.
TxDeadline(t) ==
  /\ pc[t] = "unwinding"
  /\ audio' = [audio EXCEPT ![t] = "none"]
  /\ AudioFault(t)
  /\ UNCHANGED <<ptt_on, ptt_uncertain, tx_seconds, sent, keyed, crashes>>

\* The "tx-complete" or the fault's PTT-off has ended; ptt_on' is what the
\* finally clause reads.
PttOffThenFinally(t, ok) ==
  /\ pc[t] \in {"completing", "audio_fault"}
  /\ PttOff(t, ok)
  /\ IF ptt_on' THEN AwaitRigAgain(t, "finalizing") ELSE LeaveRig(t, "idle")
  /\ UNCHANGED <<armed, tx_seconds, tx_enabled, player>>

FinalizeReturns(t, ok) ==
  /\ pc[t] = "finalizing"
  /\ Answer(t, ok)
  /\ ptt_uncertain' = ~ok
  /\ ptt_on' = FALSE
  /\ faults' = IF ok THEN faults ELSE faults \cup {CAT}
  /\ LeaveRig(t, "idle")
  /\ UNCHANGED <<armed, tx_seconds, tx_enabled, player>>

\* The encoder failed, or the slot no longer has room: the driver returns.
DriverGivesUp(t) ==
  /\ pc[t] = "encoding"
  /\ Goto(t, "idle")
  /\ UNCHANGED <<control, rig, sent, keyed, player, crashes>>

-----------------------------------------------------------------------------
\* The process dies and starts again; the rig keeps the state it is in.
Crash ==
  /\ crashes < MaxCrashes
  /\ crashes' = crashes + 1
  /\ armed' = FALSE /\ ptt_on' = FALSE /\ ptt_uncertain' = FALSE
  /\ faults' = {} /\ tx_seconds' = 0 /\ tx_enabled' = FALSE
  /\ pc' = Booting /\ rig' = <<Main>> /\ sent' = FALSE
  /\ audio' = NoAudio /\ cancelled' = FALSE
  /\ UNCHANGED keyed

RigAnswers(t) ==
  \E ok \in BOOLEAN :
    \/ PttOffThenEnd(t, ok) \/ ArmReturns(t, ok) \/ PreTxReturns(t, ok)
    \/ PttOffThenFinally(t, ok) \/ FinalizeReturns(t, ok)

KeyingReturns(t) == KeyingSucceeds(t) \/ KeyingFails(t)

Resumes(t) == PlaybackReturned(t) \/ PlaybackFailed(t) \/ PlaybackCrashed(t) \/ TxDeadline(t)

TransmitBegins(t) ==
  \/ Refused(t) \/ TransmitUncertain(t) \/ TransmitOverBudget(t) \/ TransmitKeys(t)

Next ==
  \/ RigObeys
  \/ \E t \in Tasks \ Transmitters : StopTx(t) \/ Arm(t)
  \/ \E t \in Tasks \ Transmitters, s \in Interlocks \ {CAT} : ReportFault(t, s)
  \/ \E t \in Transmitters : PullMessage(t) \/ TransmitBegins(t) \/ DriverGivesUp(t)
  \/ \E t \in Tasks : RigAnswers(t) \/ KeyingReturns(t)
  \/ \E t \in Transmitters : PlayStarts(t) \/ PlayEnds(t) \/ TxWatchdog(t) \/ Resumes(t)
  \/ DisarmTx
  \/ \E s \in Interlocks : ClearFault(s)
  \/ SequencerEnds
  \/ Crash

(***************************************************************************)
(* A command ends within 2 s, with a reply or without (rig.py wraps every  *)
(* read in wait_for); the watchdog is a timer; the loop runs what is ready.*)
(***************************************************************************)
Fairness ==
  \A t \in Tasks :
    /\ WF_vars(RigAnswers(t) \/ KeyingReturns(t))
    /\ WF_vars(TransmitBegins(t) \/ DriverGivesUp(t))
    /\ WF_vars(TxWatchdog(t) \/ Resumes(t))

Spec == Init /\ [][Next]_vars

FairSpec == Spec /\ Fairness

-----------------------------------------------------------------------------
FlagsOK ==
  /\ armed \in BOOLEAN /\ ptt_on \in BOOLEAN /\ ptt_uncertain \in BOOLEAN
  /\ tx_enabled \in BOOLEAN
  /\ sent \in BOOLEAN /\ keyed \in BOOLEAN
  /\ cancelled \in BOOLEAN

DataOK ==
  /\ faults \subseteq Interlocks
  /\ tx_seconds \in Nat
  /\ pc \in [Tasks -> Locations]
  /\ rig \in Seq(Tasks)
  /\ audio \in [Tasks -> Audio]
  /\ crashes \in Nat

TypeOK == FlagsOK /\ DataOK

\* A rig on the air is never forgotten: the controller counts it as keyed or
\* as uncertain, or the reply to the command that keyed it is still awaited,
\* or the startup PTT-off has not ended (NFR-058).
KeyAccounted ==
  keyed => \/ ptt_on \/ ptt_uncertain \/ ~Started
           \/ sent /\ pc[Head(rig)] = "keying"

\* ptt_on always has a transmit() that will clear it: no path out of
\* transmit() leaves the flag behind (safety.py's finally clause).
PttHasOwner == ptt_on => \E t \in Tasks : pc[t] \in OnAir

\* What KeyAccounted needs to be inductive: the lock's queue holds each task
\* once, every task in it awaits a command, and the rig is as the last
\* command it obeyed asked.
QueueWaits    == \A i \in 1 .. Len(rig) : pc[rig[i]] \in RigWait
QueueDistinct == \A i, j \in 1 .. Len(rig) : rig[i] = rig[j] => i = j
QueueInv      == QueueWaits /\ QueueDistinct
SentHead      == sent => rig # << >> /\ (keyed <=> pc[Head(rig)] = "keying")
KeyInv        == QueueInv /\ SentHead /\ KeyAccounted

\* When no handler runs, the rig is off the air unless the controller says
\* that it does not know.
QuiescentUnkeyed == (\A t \in Tasks : pc[t] = "idle") => (keyed => ptt_uncertain)

\* A STOP that has ended has taken the rig off the air, or has left the state
\* uncertain with the CAT interlock latched (15.3); the same for every
\* handler that ends with a PTT-off.
EndsHonestly(t) ==
  pc[t] \in PttOffWait /\ pc'[t] = "idle" /\ crashes' = crashes
    => ~keyed' \/ (ptt_uncertain' /\ CAT \in faults')

StopIsHonest == [][\A t \in Tasks : EndsHonestly(t)]_vars

\* The airtime of an armed session passes its budget by no more than the
\* margin of the last transmission (NFR-057).
BudgetHolds == tx_seconds <= AggregateTx + Margin

\* Every handler ends: no interleaving of STOP, faults, a lost rig and a dead
\* device leaves one waiting (NFR-053, no blocking confirmation loop).
HandlersEnd == \A t \in Tasks : pc[t] # "idle" ~> pc[t] = "idle"

\* A keyed rig is taken off the air, or the operator is told it may not be.
KeyReleased == keyed ~> (~keyed \/ ptt_uncertain)

-----------------------------------------------------------------------------
(***************************************************************************)
(* What the documents say and the code does not do (see README.md).        *)
(***************************************************************************)
\* "The authority chain is rechecked immediately before PTT; earlier approval
\* is insufficient if state changed" (SDD/15, 15.2).
AuthorityAtKeying ==
  [][\A t \in Tasks :
       pc[t] # "keying" /\ pc'[t] = "keying" => armed /\ faults = {}]_vars

\* "CAT/audio/DSP recovery never restores armed TX automatically" (NFR-022):
\* a latched fault has disarmed.
FaultDisarms == faults # {} => ~armed
=============================================================================
