------------------------------- MODULE SlotTx -------------------------------
(***************************************************************************)
(* The slot engine: the loop of server/engine/orchestrator.py, which       *)
(* announces each slot, then decodes it and feeds the sequencer, and the   *)
(* driver of tx_driver.py, which answers each announcement with a task.    *)
(*                                                                         *)
(* Time is in ticks. The event loop runs between two ticks what is ready;  *)
(* the worker that decodes and encodes takes as long as it takes. safety   *)
(* is its armed flag here (TxSafety is its own module), and a transmission *)
(* lasts one waveform unless it is stopped.                                *)
(***************************************************************************)
EXTENDS Sequencer, FiniteSets

CONSTANTS
  Period,        \* length of a slot
  Waveform,      \* TX_WAVEFORM_SECONDS + TX_FIT_MARGIN_SECONDS
  PollCutoff,    \* decision_cutoff of the driver
  DecodeCutoff,  \* decision_cutoff of the orchestrator
  MaxSlot,       \* bound: the last slot announced
  MaxSessions,   \* bound: sessions started in one behaviour
  NoMessage      \* next_tx_message() returned None

ASSUME TimeAssumption ==
  /\ Period \in Nat /\ Waveform \in 1 .. Period - 1
  /\ PollCutoff \in 1 .. Period /\ DecodeCutoff \in 0 .. Period - 1
  /\ MaxSlot \in Nat /\ MaxSessions \in Nat

Slots == 0 .. MaxSlot

VARIABLES
  now,        \* the clock
  loop,       \* where Orchestrator.run() is
  slot,       \* the slot it is at
  announced,  \* Orchestrator._announced_slot; MaxSlot + 1 if none
  task,       \* where the driver's task of each slot is
  message,    \* the message each task has pulled
  started,    \* when each task has started its transmission
  in_flight,  \* TxDriver._tx_in_flight
  pending,    \* TxDriver._pending: the message of the waveform kept
  armed,      \* SafetyController.armed
  sessions    \* sessions started so far

orchestrator == <<loop, slot, announced>>
driver       == <<task, message, started, in_flight, pending>>
safety       == <<armed, sessions>>
vars         == <<seqVars, now, orchestrator, driver, safety>>

Places == {"none", "fresh", "polling", "window_encode", "encode", "on_air", "ended"}

Messages == ({NoCall} \X {"CQ"}) \cup (Stations \X Exchanging)

ASSUME MessageAssumption == NoMessage \notin Messages

SlotAt(t)  == t \div Period
SlotEnd(s) == (s + 1) * Period
Fits(s)    == now + Waveform < SlotEnd(s)

SlotInit ==
  /\ Init
  /\ now = 0
  /\ loop = "announce" /\ slot = 0 /\ announced = MaxSlot + 1
  /\ task = [s \in Slots |-> "none"] /\ message = [s \in Slots |-> NoMessage]
  /\ started = [s \in Slots |-> 0]
  /\ in_flight = FALSE /\ pending = NoMessage
  /\ armed = FALSE /\ sessions = 0

Goto(s, place) == task' = [task EXCEPT ![s] = place]

-----------------------------------------------------------------------------
(***************************************************************************)
(* The clock. A task just created runs before time goes on; a waveform     *)
(* ends when it has been played.                                           *)
(***************************************************************************)
Due(s) == task[s] = "fresh" \/ (task[s] = "on_air" /\ now >= started[s] + Waveform)

Tick ==
  /\ now < SlotEnd(MaxSlot)
  /\ \A s \in Slots : ~Due(s)
  /\ now' = now + 1
  /\ UNCHANGED <<seqVars, orchestrator, driver, safety>>

-----------------------------------------------------------------------------
(***************************************************************************)
(* Orchestrator.run()                                                      *)
(***************************************************************************)
Announce ==
  /\ loop = "announce" /\ SlotAt(now) \in Slots
  /\ slot' = SlotAt(now)
  /\ loop' = "sleeping"
  /\ announced' = slot'
  /\ IF announced = slot' THEN UNCHANGED task ELSE Goto(slot', "fresh")
  /\ UNCHANGED <<seqVars, now, message, started, in_flight, pending, safety>>

SlotEnds ==
  /\ loop = "sleeping" /\ now >= SlotEnd(slot)
  /\ loop' \in {"decoding", "announce"}     \* or the samples never land
  /\ UNCHANGED <<seqVars, now, slot, announced, driver, safety>>

DecodeFails ==
  /\ loop = "decoding"
  /\ loop' = "announce"
  /\ UNCHANGED <<seqVars, now, slot, announced, driver, safety>>

\* A late result is displayed, no more. A result in time may hold nothing
\* that concerns us, the partner's turn to another station, or a message (a
\* station sends one message in a slot).
Decoded ==
  /\ loop = "decoding"
  /\ loop' = "announce"
  /\ \/ UNCHANGED seqVars
     \/ /\ now <= SlotEnd(slot) + DecodeCutoff
        /\ PartnerTurnsAway \/ \E p \in Stations, kind \in Kinds : OnMessage(p, kind)
  /\ UNCHANGED <<now, slot, announced, driver, safety>>

-----------------------------------------------------------------------------
(***************************************************************************)
(* The operator, or a fault, by way of safety: a session starts armed, a   *)
(* stop disarms and cancels the playback.                                  *)
(***************************************************************************)
StartSession ==
  /\ sessions < MaxSessions /\ sessions' = sessions + 1
  /\ armed' = TRUE
  /\ StartCq \/ \E p \in Stations, parity \in {0, 1} : ReplyTo(p, parity)
  /\ UNCHANGED <<now, orchestrator, driver>>

StopTx ==
  /\ armed
  /\ armed' = FALSE
  /\ Stop("manual")
  /\ UNCHANGED <<now, orchestrator, driver, sessions>>

-----------------------------------------------------------------------------
(***************************************************************************)
(* next_tx_message() as the driver calls it.                               *)
(***************************************************************************)
PullNothing ==
  \/ (~tx_enabled /\ UNCHANGED seqVars)
  \/ RetryExhausted
  \/ CourtesyOver

PullMessage ==
  \/ tx_enabled /\ state = CALLING /\ UNCHANGED seqVars
  \/ HandOut

\* Two calls in a row, of which the first is thrown away.
HandOutAgain ==
  /\ tx_enabled /\ state \in Exchanging \ {SIGNOFF}
  /\ tx_count + 2 <= 1 + MaxRetransmissions
  /\ tx_count' = tx_count + 2
  /\ UNCHANGED <<state, tx_enabled, disarm_reason, signoff_sent, qso, logging, tally>>

HandOutThenExhausted ==
  /\ tx_enabled /\ state \in Exchanging \ {SIGNOFF}
  /\ tx_count + 1 = 1 + MaxRetransmissions
  /\ tx_count' = tx_count + 1
  /\ tx_enabled' = FALSE /\ state' = IDLE /\ disarm_reason' = "retry_exhausted"
  /\ UNCHANGED <<signoff_sent, qso, logging, tally>>

\* The 73 is the first, the end of the QSO the second.
HandOutThenOver ==
  /\ tx_enabled /\ state = SIGNOFF /\ ~signoff_sent /\ ~Exhausted
  /\ tx_count' = tx_count + 1
  /\ signoff_sent' = TRUE /\ courtesies' = courtesies + 1
  /\ UNCHANGED <<qso, heard, finals, session>>
  /\ EnsureLog
  /\ tx_enabled' = FALSE /\ state' = DONE /\ disarm_reason' = "complete"

-----------------------------------------------------------------------------
(***************************************************************************)
(* TxDriver.on_slot_start(): its steps between two awaits.                 *)
(***************************************************************************)

Finish(s) == Goto(s, "ended") /\ message' = [message EXCEPT ![s] = NoMessage]

Transmit(s, m, place) ==
  /\ in_flight' = TRUE
  /\ Goto(s, place)
  /\ message' = [message EXCEPT ![s] = m]

\* safety.transmit(): refused unless armed, and for reasons of its own (a
\* latched fault, an uncertain line, the budget).
Handed(s, m) ==
  \/ /\ armed
     /\ started' = [started EXCEPT ![s] = now]
     /\ Transmit(s, m, "on_air")
  \/ /\ Finish(s) /\ in_flight' = FALSE
     /\ UNCHANGED started

OtherParity(s) == s % 2 # tx_phase

OnSlotSkipped(s) ==
  /\ task[s] = "fresh"
  /\ in_flight \/ (tx_enabled /\ OtherParity(s))
  /\ Finish(s)
  /\ UNCHANGED <<seqVars, now, orchestrator, started, in_flight, pending, safety>>

Proceeds(s) ==
  /\ task[s] = "fresh"
  /\ ~in_flight /\ (tx_enabled => ~OtherParity(s))

\* The waveform kept from a window is still wanted.
OnSlotPending(s) ==
  /\ Proceeds(s)
  /\ pending # NoMessage /\ pending' = NoMessage
  /\ PullMessage /\ Message = pending
  /\ Handed(s, pending)
  /\ UNCHANGED <<now, orchestrator, safety>>

\* It is not: the message just pulled is thrown away and another is pulled.
OnSlotPendingDropped(s) ==
  /\ Proceeds(s)
  /\ pending # NoMessage /\ pending' = NoMessage
  /\ \/ /\ Message # pending
        /\ HandOutAgain \/ (tx_enabled /\ state = CALLING /\ UNCHANGED seqVars)
        /\ Transmit(s, Message, "encode")
     \/ /\ PullNothing \/ (Message # pending /\ (HandOutThenExhausted \/ HandOutThenOver))
        /\ Goto(s, "polling")
        /\ UNCHANGED <<message, in_flight>>
  /\ UNCHANGED <<now, orchestrator, started, safety>>

OnSlotMessage(s) ==
  /\ Proceeds(s)
  /\ pending = NoMessage
  /\ PullMessage
  /\ Transmit(s, Message, "encode")
  /\ UNCHANGED <<now, orchestrator, started, pending, safety>>

OnSlotIdle(s) ==
  /\ Proceeds(s)
  /\ pending = NoMessage
  /\ PullNothing
  /\ Goto(s, "polling")
  /\ UNCHANGED <<now, orchestrator, message, started, in_flight, pending, safety>>

WindowClosed(s) == now >= s * Period + PollCutoff \/ ~Fits(s)

WindowCloses(s) ==
  /\ task[s] = "polling"
  /\ WindowClosed(s)
  /\ Finish(s)
  /\ UNCHANGED <<seqVars, now, orchestrator, started, in_flight, pending, safety>>

\* WindowPulls without its look at the parity.
WindowPullsAnyParity(s) ==
  /\ task[s] = "polling"
  /\ ~WindowClosed(s)
  /\ PullMessage
  /\ Goto(s, "window_encode") /\ message' = [message EXCEPT ![s] = Message]
  /\ UNCHANGED <<now, orchestrator, started, in_flight, pending, safety>>

\* A poll that finds a message; one for the other parity is pulled all the same.
WindowPulls(s) ==
  /\ task[s] = "polling"
  /\ ~WindowClosed(s)
  /\ PullMessage
  /\ IF OtherParity(s) THEN Finish(s)
     ELSE Goto(s, "window_encode") /\ message' = [message EXCEPT ![s] = Message]
  /\ UNCHANGED <<now, orchestrator, started, in_flight, pending, safety>>

\* WindowEncoded if the waveform were sent without a second look at the clock.
WindowEncodedUnchecked(s) ==
  /\ task[s] = "window_encode"
  /\ Handed(s, message[s])
  /\ UNCHANGED <<seqVars, now, orchestrator, pending, safety>>

WindowEncoded(s) ==
  /\ task[s] = "window_encode"
  /\ IF Fits(s)
     THEN Handed(s, message[s]) /\ UNCHANGED pending
     ELSE pending' = message[s] /\ Finish(s) /\ UNCHANGED <<started, in_flight>>
  /\ UNCHANGED <<seqVars, now, orchestrator, safety>>

\* Not caught: the task ends, and nobody hears of it.
WindowEncodeRaises(s) ==
  /\ task[s] = "window_encode"
  /\ Finish(s)
  /\ UNCHANGED <<seqVars, now, orchestrator, started, in_flight, pending, safety>>

Encoded(s) ==
  /\ task[s] = "encode"
  /\ Handed(s, message[s])
  /\ UNCHANGED <<seqVars, now, orchestrator, pending, safety>>

\* EncodeRaises outside the try statement.
EncodeRaisesUncaught(s) ==
  /\ task[s] = "encode"
  /\ Finish(s)
  /\ UNCHANGED <<seqVars, now, orchestrator, started, in_flight, pending, safety>>

EncodeRaises(s) ==
  /\ task[s] = "encode"
  /\ Finish(s) /\ in_flight' = FALSE
  /\ UNCHANGED <<seqVars, now, orchestrator, started, pending, safety>>

\* The waveform has been played, or was cancelled, or failed.
TransmitEnds(s) ==
  /\ task[s] = "on_air"
  /\ Finish(s) /\ in_flight' = FALSE
  /\ UNCHANGED <<seqVars, now, orchestrator, started, pending, safety>>

OnSlotStart(s) ==
  \/ OnSlotSkipped(s) \/ OnSlotPending(s) \/ OnSlotPendingDropped(s)
  \/ OnSlotMessage(s) \/ OnSlotIdle(s)

Window(s) ==
  WindowCloses(s) \/ WindowPulls(s) \/ WindowEncoded(s) \/ WindowEncodeRaises(s)

Transmission(s) == Encoded(s) \/ EncodeRaises(s) \/ TransmitEnds(s)

Orchestrate == Announce \/ SlotEnds \/ DecodeFails \/ Decoded

Next ==
  \/ Tick
  \/ Orchestrate
  \/ StartSession \/ StopTx
  \/ \E s \in Slots : OnSlotStart(s) \/ Window(s) \/ Transmission(s)

Spec == SlotInit /\ [][Next]_vars

\* Time goes on, the loop runs what is ready, and an encode ends: the
\* supervisor gives each request a timeout.
Fairness ==
  /\ WF_vars(Tick)
  /\ \A s \in Slots : WF_vars(OnSlotStart(s)) /\ WF_vars(Window(s)) /\ WF_vars(Transmission(s))

FairSpec == Spec /\ Fairness

-----------------------------------------------------------------------------
SlotTypeOK ==
  /\ now \in 0 .. SlotEnd(MaxSlot)
  /\ loop \in {"announce", "sleeping", "decoding"} /\ slot \in Slots
  /\ announced \in 0 .. MaxSlot + 1
  /\ task \in [Slots -> Places]
  /\ message \in [Slots -> Messages \cup {NoMessage}]
  /\ \A s \in Slots :
       message[s] # NoMessage <=> task[s] \in {"window_encode", "encode", "on_air"}
  /\ started \in [Slots -> 0 .. SlotEnd(MaxSlot)]
  /\ in_flight \in BOOLEAN /\ armed \in BOOLEAN /\ sessions \in 0 .. MaxSessions
  /\ pending \in Messages \cup {NoMessage}

InFlight == {s \in Slots : task[s] \in {"encode", "on_air"}}

\* One transmission at a time, and the flag tells: though a window encodes
\* without it, what the window sends cannot meet what a later slot sends.
OneInFlight == Cardinality(InFlight) <= 1 /\ (in_flight <=> InFlight # {})

\* The TX phase of a QSO decides the slot it is sent in: no transmission that
\* a task starts is for the other parity, through window, cache or at once.
\* (Sessions replaced while a waveform is encoded keep the slot they had.)
PulledOnParity ==
  [][\A s \in Slots : task[s] # task'[s] /\ task'[s] \in {"encode", "window_encode"}
       => s % 2 = tx_phase']_vars

\* What the window sends fits: a reply armed late waits for the next slot.
WindowFits ==
  [][\A s \in Slots : task[s] = "window_encode" /\ task'[s] = "on_air"
       => now' + Waveform < SlotEnd(s)]_vars

\* The flag is always lowered again, also when the worker fails: a driver that
\* thinks it is busy would never send again.
FlagFalls == in_flight ~> ~in_flight

-----------------------------------------------------------------------------
(***************************************************************************)
(* What the documents say and the code does not do (see README.md).        *)
(***************************************************************************)
\* "deferring to the next eligible slot so no transmission overruns the slot
\* boundary" (SDD/15, 15.6).
NoOverrun == \A s \in Slots : task[s] = "on_air" => now <= SlotEnd(s)

\* "Calls must not overlap; the engine awaits encodes sequentially"
\* (dsp_encode.py): one encode uses the shared segment at a time.
EncodesAlone == Cardinality({s \in Slots : task[s] \in {"encode", "window_encode"}}) <= 1
=============================================================================
