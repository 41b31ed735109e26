---------------------------- MODULE SlotTxProofs ----------------------------
(***************************************************************************)
(* What the slot engine guarantees for every length of a slot, of a        *)
(* waveform and of the windows, and any number of slots and sessions: one  *)
(* transmission at a time, in the slots of its parity, and none begun from *)
(* a window that does not fit.                                             *)
(***************************************************************************)
EXTENDS SlotTx, SequencerProofs, FiniteSetTheorems, TLAPS

Busy   == {"encode", "on_air"}
Opened == {"polling", "window_encode"}

-----------------------------------------------------------------------------
(***************************************************************************)
(* Slots and the clock.                                                    *)
(***************************************************************************)
LEMMA SlotIs ==
  ASSUME NEW t \in Nat
  PROVE  SlotAt(t) \in Nat /\ SlotAt(t) * Period <= t /\ t < SlotEnd(SlotAt(t))
<1>1. Period \in Nat \ {0}
  BY TimeAssumption
<1>2. t \div Period \in Nat /\ (t \div Period) * Period <= t /\ t < (t \div Period) * Period + Period
  BY <1>1
<1> QED
  BY <1>1, <1>2 DEF SlotAt, SlotEnd

LEMMA SlotEndsBefore ==
  ASSUME NEW r \in Nat, NEW s \in Nat, r < s
  PROVE  SlotEnd(r) \in Nat /\ SlotEnd(r) <= s * Period
<1>1. Period \in Nat
  BY TimeAssumption
<1>2. PICK d \in Nat : s = (r + 1) + d
  <2>1. s - (r + 1) \in Nat /\ s = (r + 1) + (s - (r + 1))
    OBVIOUS
  <2> QED
    BY <2>1
<1>3. s * Period = (r + 1) * Period + d * Period /\ d * Period \in Nat /\ (r + 1) * Period \in Nat
  BY <1>1, <1>2
<1> QED
  BY <1>3 DEF SlotEnd

-----------------------------------------------------------------------------
(***************************************************************************)
(* The invariant. A task that is in flight came after all whose window is  *)
(* still open: the flag kept the later ones out, and what a window sends   *)
(* has to fit, so it is sent before there is a later task.                 *)
(***************************************************************************)
ClockOK ==
  /\ now \in Nat /\ announced \in 0 .. MaxSlot + 1 /\ in_flight \in BOOLEAN
  /\ task \in [Slots -> Places]

TasksCame ==
  /\ announced = MaxSlot + 1 => \A s \in Slots : task[s] = "none"
  /\ announced # MaxSlot + 1 =>
       announced * Period <= now /\ \A s \in Slots : task[s] # "none" => s <= announced
  /\ \A s \in Slots : task[s] = "fresh" => now < SlotEnd(s)

FlagTells ==
  /\ \A s \in Slots : task[s] \in Busy => in_flight
  /\ in_flight => \E s \in Slots : task[s] \in Busy
  /\ \A r, s \in Slots : task[r] \in Busy /\ task[s] \in Busy => r = s

WindowsAreEarlier == \A r, s \in Slots : task[s] \in Opened /\ task[r] \in Busy => s < r

SlotInv == ClockOK /\ TasksCame /\ FlagTells /\ WindowsAreEarlier

\* A slot that has a task has begun.
LEMMA TaskBegan ==
  ASSUME SlotInv, NEW s \in Slots, task[s] # "none"
  PROVE  s \in Nat /\ s * Period \in Nat /\ s * Period <= now
<1>1. s \in Nat /\ Period \in Nat /\ announced \in Nat /\ announced # MaxSlot + 1 /\ s <= announced
      /\ announced * Period <= now /\ now \in Nat
  BY TimeAssumption DEF SlotInv, ClockOK, TasksCame, Slots
<1>2. s * Period \in Nat /\ s * Period <= announced * Period
  <2>1. PICK d \in Nat : announced = s + d
    <3>1. announced - s \in Nat /\ announced = s + (announced - s)
      BY <1>1
    <3> QED
      BY <3>1
  <2>2. announced * Period = s * Period + d * Period /\ d * Period \in Nat /\ s * Period \in Nat
    BY <1>1, <2>1
  <2> QED
    BY <2>2
<1>3. announced * Period \in Nat
  BY <1>1
<1> QED
  BY <1>1, <1>2, <1>3

\* While a slot lasts no later one has a task.
LEMMA NoneLater ==
  ASSUME SlotInv, NEW r \in Slots, NEW s \in Slots, now < SlotEnd(r), r < s
  PROVE  task[s] = "none"
<1>1. r \in Nat /\ s \in Nat /\ now \in Nat /\ Period \in Nat
  BY TimeAssumption DEF Slots, SlotInv, ClockOK
<1>2. SlotEnd(r) \in Nat /\ SlotEnd(r) <= s * Period
  BY <1>1, SlotEndsBefore
<1>3. s * Period \in Nat
  BY <1>1
<1>4. ~ (s * Period <= now)
  BY <1>1, <1>2, <1>3
<1> QED
  BY <1>4, TaskBegan

-----------------------------------------------------------------------------
(***************************************************************************)
(* The steps of the driver's task of slot s, by what they do to the flag.  *)
(***************************************************************************)
Drives(s) == OnSlotStart(s) \/ Window(s) \/ Transmission(s)

Moves(s) == /\ task' \in [Slots -> Places] /\ now' = now /\ announced' = announced
            /\ \A r \in Slots \ {s} : task'[r] = task[r]

\* Its window is open, or it is over, and the flag is let alone.
Waits(s) == /\ task[s] \in {"fresh"} \cup Opened /\ in_flight' = in_flight
            /\ \/ task'[s] = "ended"
               \/ task'[s] \in Opened /\ (task[s] = "fresh" => ~in_flight)

\* It was in flight, or may go: nothing is in flight, or its window's end fits.
MayGo(s) == \/ task[s] \in Busy
            \/ task[s] = "fresh" /\ ~in_flight
            \/ task[s] = "window_encode" /\ Fits(s)

Goes(s) == MayGo(s) /\ in_flight' = TRUE /\ task'[s] \in Busy
Ends(s) == MayGo(s) /\ in_flight' = FALSE /\ task'[s] = "ended"

LEMMA GotoIs ==
  ASSUME ClockOK, NEW s \in Slots, NEW place \in Places, Goto(s, place)
  PROVE  task' \in [Slots -> Places] /\ task'[s] = place /\ \A r \in Slots \ {s} : task'[r] = task[r]
BY DEF ClockOK, Goto

LEMMA HandedIs ==
  ASSUME ClockOK, NEW s \in Slots, NEW m, Handed(s, m), MayGo(s), now' = now, announced' = announced
  PROVE  Moves(s) /\ (Goes(s) \/ Ends(s))
<1>0. "on_air" \in Places /\ "ended" \in Places
  BY DEF Places
<1>1. CASE Transmit(s, m, "on_air")
  <2>1. Goto(s, "on_air") /\ in_flight' = TRUE
    BY <1>1 DEF Transmit
  <2> QED
    BY <1>0, <2>1, GotoIs DEF Moves, Goes, Busy
<1>2. CASE Finish(s) /\ in_flight' = FALSE
  <2>1. Goto(s, "ended") /\ in_flight' = FALSE
    BY <1>2 DEF Finish
  <2> QED
    BY <1>0, <2>1, GotoIs DEF Moves, Ends
<1> QED
  BY <1>1, <1>2 DEF Handed

LEMMA DrivesIs ==
  ASSUME ClockOK, NEW s \in Slots, Drives(s)
  PROVE  Moves(s) /\ (Waits(s) \/ Goes(s) \/ Ends(s))
<1>0. /\ "on_air" \in Places /\ "ended" \in Places /\ "encode" \in Places /\ "polling" \in Places
      /\ "window_encode" \in Places
  BY DEF Places
<1>e. \A r \in Slots : Finish(r) => Goto(r, "ended")
  BY DEF Finish
<1>1. CASE OnSlotSkipped(s)
  <2>1. task[s] = "fresh" /\ Goto(s, "ended") /\ UNCHANGED <<now, announced, in_flight>>
    BY <1>1, <1>e DEF OnSlotSkipped, orchestrator
  <2> QED
    BY <1>0, <2>1, GotoIs DEF Moves, Waits
<1>2. CASE OnSlotPending(s)
  <2>1. Handed(s, pending) /\ MayGo(s) /\ now' = now /\ announced' = announced
    BY <1>2 DEF OnSlotPending, Proceeds, MayGo, orchestrator
  <2> QED
    BY <2>1, HandedIs
<1>3. CASE OnSlotPendingDropped(s)
  <2>1. task[s] = "fresh" /\ ~in_flight /\ now' = now /\ announced' = announced
    BY <1>3 DEF OnSlotPendingDropped, Proceeds, orchestrator
  <2>2. CASE Transmit(s, Message, "encode")
    BY <1>0, <2>1, <2>2, GotoIs DEF Transmit, Moves, Goes, MayGo, Busy
  <2>3. CASE Goto(s, "polling") /\ UNCHANGED in_flight
    BY <1>0, <2>1, <2>3, GotoIs DEF Moves, Waits, Opened
  <2> QED
    BY <1>3, <2>2, <2>3 DEF OnSlotPendingDropped
<1>4. CASE OnSlotMessage(s)
  <2>1. task[s] = "fresh" /\ ~in_flight /\ now' = now /\ announced' = announced /\ Transmit(s, Message, "encode")
    BY <1>4 DEF OnSlotMessage, Proceeds, orchestrator
  <2> QED
    BY <1>0, <2>1, GotoIs DEF Transmit, Moves, Goes, MayGo, Busy
<1>5. CASE OnSlotIdle(s)
  <2>1. task[s] = "fresh" /\ ~in_flight /\ UNCHANGED <<now, announced, in_flight>> /\ Goto(s, "polling")
    BY <1>5 DEF OnSlotIdle, Proceeds, orchestrator
  <2> QED
    BY <1>0, <2>1, GotoIs DEF Moves, Waits, Opened
<1>6. CASE WindowCloses(s) \/ WindowEncodeRaises(s)
  <2>1. task[s] \in Opened /\ Goto(s, "ended") /\ UNCHANGED <<now, announced, in_flight>>
    BY <1>6, <1>e DEF WindowCloses, WindowEncodeRaises, Opened, orchestrator
  <2> QED
    BY <1>0, <2>1, GotoIs DEF Moves, Waits
<1>7. CASE WindowPulls(s)
  <2>1. task[s] \in Opened /\ task[s] # "fresh" /\ UNCHANGED <<now, announced, in_flight>>
    BY <1>7 DEF WindowPulls, Opened, orchestrator
  <2>2. Goto(s, "ended") \/ Goto(s, "window_encode")
    BY <1>7, <1>e DEF WindowPulls
  <2> QED
    BY <1>0, <2>1, <2>2, GotoIs DEF Moves, Waits, Opened
<1>8. CASE WindowEncoded(s)
  <2>1. task[s] = "window_encode" /\ UNCHANGED <<now, announced>>
    BY <1>8 DEF WindowEncoded, orchestrator
  <2>2. CASE Fits(s)
    <3>1. Handed(s, message[s]) /\ MayGo(s)
      BY <1>8, <2>1, <2>2 DEF WindowEncoded, MayGo
    <3> QED
      BY <2>1, <3>1, HandedIs
  <2>3. CASE ~Fits(s)
    <3>1. Goto(s, "ended") /\ in_flight' = in_flight
      BY <1>8, <2>3, <1>e DEF WindowEncoded
    <3> QED
      BY <1>0, <2>1, <3>1, GotoIs DEF Moves, Waits, Opened
  <2> QED
    BY <2>2, <2>3
<1>9. CASE Encoded(s)
  <2>1. Handed(s, message[s]) /\ MayGo(s) /\ now' = now /\ announced' = announced
    BY <1>9 DEF Encoded, MayGo, Busy, orchestrator
  <2> QED
    BY <2>1, HandedIs
<1>10. CASE EncodeRaises(s) \/ TransmitEnds(s)
  <2>1. task[s] \in Busy /\ Goto(s, "ended") /\ in_flight' = FALSE /\ now' = now /\ announced' = announced
    BY <1>10, <1>e DEF EncodeRaises, TransmitEnds, Busy, orchestrator
  <2> QED
    BY <1>0, <2>1, GotoIs DEF Moves, Ends, MayGo
<1> QED
  BY <1>1, <1>2, <1>3, <1>4, <1>5, <1>6, <1>7, <1>8, <1>9, <1>10
     DEF Drives, OnSlotStart, Window, Transmission

\* A task that may go is alone, and no window of a later slot is open.
LEMMA MayGoAlone ==
  ASSUME SlotInv, NEW s \in Slots, MayGo(s), NEW r \in Slots, r # s
  PROVE  task[r] \notin Busy /\ (task[r] \in Opened => r < s)
<1>1. r \in Nat /\ s \in Nat
  BY DEF Slots
<1>2. CASE task[s] \in Busy
  BY <1>2 DEF SlotInv, FlagTells, WindowsAreEarlier
<1>3. CASE task[s] \notin Busy
  <2>1. now < SlotEnd(s)
    <3>1. CASE task[s] = "fresh"
      BY <3>1 DEF SlotInv, TasksCame
    <3>2. CASE Fits(s)
      <4>1. now \in Nat /\ Waveform \in Nat /\ SlotEnd(s) \in Nat
        BY <1>1, TimeAssumption DEF SlotInv, ClockOK, SlotEnd
      <4> QED
        BY <3>2, <4>1 DEF Fits
    <3> QED
      BY <1>3, <3>1, <3>2 DEF MayGo
  <2>2. ~ (s < r) \/ task[r] = "none"
    BY <2>1, NoneLater
  <2>3. task[r] \in Opened => r < s
    BY <1>1, <2>2 DEF Opened
  <2>4. task[r] \notin Busy
    <3>1. CASE task[s] = "fresh" /\ ~in_flight
      BY <3>1 DEF SlotInv, FlagTells
    <3>2. CASE task[s] = "window_encode"
      <4>1. task[r] \in Busy => s < r
        BY <3>2 DEF SlotInv, WindowsAreEarlier, Opened
      <4> QED
        BY <2>2, <4>1 DEF Busy
    <3> QED
      BY <1>3, <3>1, <3>2 DEF MayGo
  <2> QED
    BY <2>3, <2>4
<1> QED
  BY <1>2, <1>3

LEMMA DrivesKeeps ==
  ASSUME SlotInv, NEW s \in Slots, Drives(s)
  PROVE  SlotInv'
<1>1. Moves(s) /\ (Waits(s) \/ Goes(s) \/ Ends(s))
  BY DrivesIs DEF SlotInv
<1>2. /\ task' \in [Slots -> Places] /\ now' = now /\ announced' = announced
      /\ \A r \in Slots \ {s} : task'[r] = task[r]
  BY <1>1 DEF Moves
<1>3. task[s] # "none" /\ task'[s] \notin {"none", "fresh"}
  BY <1>1 DEF Waits, Goes, Ends, MayGo, Busy, Opened
<1>4. ClockOK'
  BY <1>1, <1>2 DEF SlotInv, ClockOK, Waits, Goes, Ends
<1>5. TasksCame'
  <2>1. \A r \in Slots : task'[r] # "none" => task[r] # "none"
    BY <1>2, <1>3
  <2>2. \A r \in Slots : task'[r] = "fresh" => task[r] = "fresh"
    BY <1>2, <1>3
  <2> QED
    BY <1>2, <1>3, <2>1, <2>2 DEF SlotInv, TasksCame
<1>6. CASE Waits(s)
  <2>1. task[s] \notin Busy /\ task'[s] \notin Busy /\ in_flight' = in_flight
    BY <1>6 DEF Waits, Busy, Opened
  <2>2. \A r \in Slots : task'[r] \in Busy <=> task[r] \in Busy
    BY <1>2, <2>1
  <2>3. FlagTells'
    BY <1>2, <2>1, <2>2 DEF SlotInv, FlagTells
  <2>4. ASSUME NEW r \in Slots, NEW q \in Slots, task'[q] \in Opened, task'[r] \in Busy PROVE q < r
    <3>1. task[r] \in Busy /\ in_flight
      BY <2>2, <2>4 DEF SlotInv, FlagTells
    <3>2. task[q] \in Opened
      <4>1. CASE q = s
        BY <1>6, <2>4, <3>1, <4>1 DEF Waits, Opened
      <4>2. CASE q # s
        BY <1>2, <2>4, <4>2
      <4> QED
        BY <4>1, <4>2
    <3> QED
      BY <3>1, <3>2 DEF SlotInv, WindowsAreEarlier
  <2> QED
    BY <1>4, <1>5, <2>3, <2>4 DEF SlotInv, WindowsAreEarlier
<1>7. CASE Goes(s) \/ Ends(s)
  <2>1. \A r \in Slots \ {s} : task'[r] \notin Busy /\ (task'[r] \in Opened => r < s)
    BY <1>2, <1>7, MayGoAlone DEF Goes, Ends
  <2>2. task'[s] \notin Opened /\ (task'[s] \in Busy <=> in_flight')
    BY <1>7 DEF Goes, Ends, Opened, Busy
  <2>3. FlagTells'
    BY <2>1, <2>2 DEF FlagTells
  <2>4. WindowsAreEarlier'
    BY <2>1, <2>2 DEF WindowsAreEarlier
  <2> QED
    BY <1>4, <1>5, <2>3, <2>4 DEF SlotInv
<1> QED
  BY <1>1, <1>6, <1>7

LEMMA TickKeeps ==
  ASSUME SlotInv, Tick
  PROVE  SlotInv'
<1>1. /\ now' = now + 1 /\ UNCHANGED <<announced, task, in_flight>>
      /\ \A s \in Slots : task[s] # "fresh" /\ now \in Nat
  BY DEF Tick, Due, orchestrator, driver, SlotInv, ClockOK
<1>2. ClockOK'
  BY <1>1 DEF SlotInv, ClockOK
<1>3. TasksCame'
  <2>1. announced # MaxSlot + 1 => announced * Period <= now'
    <3>1. announced * Period \in Nat /\ now \in Nat
      BY TimeAssumption DEF SlotInv, ClockOK
    <3> QED
      BY <1>1, <3>1 DEF SlotInv, TasksCame
  <2> QED
    BY <1>1, <2>1 DEF SlotInv, TasksCame
<1> QED
  BY <1>1, <1>2, <1>3 DEF SlotInv, FlagTells, WindowsAreEarlier

\* A slot that is announced anew is later than all that have a task.
LEMMA AnnouncedIsNew ==
  ASSUME SlotInv, Announce, announced # SlotAt(now)
  PROVE  (\A r \in Slots : task[r] # "none" => r < SlotAt(now)) /\ task[SlotAt(now)] = "none"
<1> DEFINE s == SlotAt(now)
<1>1. now \in Nat /\ announced \in Nat /\ s \in Slots
  BY DEF SlotInv, ClockOK, Announce
<1>2. s \in Nat /\ s * Period <= now /\ now < SlotEnd(s)
  BY <1>1, SlotIs
<1>3. announced # s
  OBVIOUS
<1> HIDE DEF s
<1>4. \A r \in Slots : task[r] # "none" => r < s
  <2> TAKE r \in Slots
  <2> HAVE task[r] # "none"
  <2>1. r <= announced /\ announced # MaxSlot + 1 /\ r \in Nat /\ announced * Period <= now
    BY <1>1 DEF SlotInv, TasksCame, Slots
  <2>2. ~ (s < announced)
    <3> SUFFICES ASSUME s < announced PROVE FALSE
      OBVIOUS
    <3>1. SlotEnd(s) \in Nat /\ SlotEnd(s) <= announced * Period
      BY <1>1, <1>2, SlotEndsBefore
    <3>2. announced * Period \in Nat
      BY <1>1, TimeAssumption
    <3> QED
      BY <1>1, <1>2, <2>1, <3>1, <3>2
  <2> QED
    BY <1>1, <1>2, <1>3, <2>1, <2>2
<1>5. task[s] = "none"
  <2>1. ~ (s < s)
    BY <1>2
  <2> QED
    BY <1>1, <1>4, <2>1
<1> QED
  BY <1>4, <1>5 DEF s

LEMMA AnnounceKeeps ==
  ASSUME SlotInv, Announce
  PROVE  SlotInv'
<1> DEFINE s == SlotAt(now)
<1>1. now \in Nat /\ announced \in Nat /\ MaxSlot \in Nat /\ task \in [Slots -> Places]
  BY TimeAssumption DEF SlotInv, ClockOK
<1>2. /\ s \in Slots /\ announced' = s /\ UNCHANGED <<now, in_flight>>
      /\ IF announced = s THEN UNCHANGED task ELSE Goto(s, "fresh")
  BY DEF Announce, driver
<1>3. s \in Nat /\ s * Period <= now /\ now < SlotEnd(s)
  BY <1>1, SlotIs
<1> HIDE DEF s
<1>4. s \in 0 .. MaxSlot /\ s # MaxSlot + 1
  BY <1>1, <1>2 DEF Slots
<1>5. CASE announced = s
  BY <1>2, <1>3, <1>4, <1>5 DEF SlotInv, ClockOK, TasksCame, FlagTells, WindowsAreEarlier
<1>6. CASE announced # s
  <2>1. "fresh" \in Places
    BY DEF Places
  <2>2. /\ task' \in [Slots -> Places] /\ task'[s] = "fresh"
        /\ \A r \in Slots \ {s} : task'[r] = task[r]
    BY <1>2, <1>6, <2>1, GotoIs DEF SlotInv
  <2>3. (\A r \in Slots : task[r] # "none" => r < s) /\ task[s] = "none"
    BY <1>6, AnnouncedIsNew DEF s
  <2>4. task[s] = "none"
    BY <2>3
  <2>5. ClockOK'
    <3>1. announced' \in 0 .. MaxSlot + 1
      BY <1>1, <1>2, <1>4
    <3> QED
      BY <1>2, <2>2, <3>1 DEF SlotInv, ClockOK
  <2>6. TasksCame'
    <3>1. \A r \in Slots : task'[r] # "none" => r <= s
      <4> TAKE r \in Slots
      <4>1. r \in Nat
        BY DEF Slots
      <4> QED
        BY <1>3, <2>2, <2>3, <4>1
    <3>2. \A r \in Slots : task'[r] = "fresh" => now < SlotEnd(r)
      BY <1>3, <2>2 DEF SlotInv, TasksCame
    <3> QED
      BY <1>2, <1>3, <1>4, <3>1, <3>2 DEF TasksCame
  <2>7. \A r \in Slots : (task'[r] \in Busy <=> task[r] \in Busy) /\ (task'[r] \in Opened <=> task[r] \in Opened)
    BY <2>2, <2>4 DEF Busy, Opened
  <2>8. FlagTells' /\ WindowsAreEarlier'
    BY <1>2, <2>7 DEF SlotInv, FlagTells, WindowsAreEarlier
  <2> QED
    BY <2>5, <2>6, <2>8 DEF SlotInv
<1> QED
  BY <1>5, <1>6

LEMMA SlotInvInit == SlotInit => SlotInv
<1> SUFFICES ASSUME SlotInit PROVE SlotInv
  OBVIOUS
<1>1. /\ now = 0 /\ announced = MaxSlot + 1 /\ task = [s \in Slots |-> "none"] /\ in_flight = FALSE
      /\ MaxSlot \in Nat /\ "none" \in Places
  BY TimeAssumption DEF SlotInit, Places
<1>2. ClockOK
  <2>1. task \in [Slots -> Places] /\ announced \in 0 .. MaxSlot + 1
    BY <1>1
  <2> QED
    BY <1>1, <2>1 DEF ClockOK
<1> QED
  BY <1>1, <1>2 DEF SlotInv, TasksCame, FlagTells, WindowsAreEarlier, Busy, Opened

LEMMA SlotInvStep == SlotInv /\ [Next]_vars => SlotInv'
<1> SUFFICES ASSUME SlotInv, [Next]_vars PROVE SlotInv'
  OBVIOUS
<1>1. CASE Tick
  BY <1>1, TickKeeps
<1>2. CASE Announce
  BY <1>2, AnnounceKeeps
<1>3. ASSUME NEW s \in Slots, OnSlotStart(s) \/ Window(s) \/ Transmission(s) PROVE SlotInv'
  BY <1>3, DrivesKeeps DEF Drives
<1>4. CASE SlotEnds \/ DecodeFails \/ Decoded \/ StartSession \/ StopTx \/ UNCHANGED vars
  <2>1. UNCHANGED <<now, announced, task, in_flight>>
    BY <1>4 DEF SlotEnds, DecodeFails, Decoded, StartSession, StopTx, vars, orchestrator, driver
  <2> QED
    BY <2>1 DEF SlotInv, ClockOK, TasksCame, FlagTells, WindowsAreEarlier
<1> QED
  BY <1>1, <1>2, <1>3, <1>4 DEF Next, Orchestrate

\* SlotInv holds in every state of the slot engine.
THEOREM SlotInvariant == Spec => []SlotInv
<1> QED
  BY SlotInvInit, SlotInvStep, PTL DEF Spec

-----------------------------------------------------------------------------
(***************************************************************************)
(* One transmission at a time, and _tx_in_flight tells of it: what a       *)
(* window sends does not meet what a later slot sends, though it encodes   *)
(* with the flag down. TxSafety's BudgetKept assumes one transmitter; this *)
(* is why there is one.                                                    *)
(***************************************************************************)
THEOREM TransmitsAlone == Spec => []OneInFlight
<1>1. SlotInv => OneInFlight
  <2> SUFFICES ASSUME SlotInv PROVE OneInFlight
    OBVIOUS
  <2>1. \A r, s \in InFlight : r = s
    BY DEF InFlight, SlotInv, FlagTells, Busy
  <2>2. in_flight <=> InFlight # {}
    BY DEF InFlight, SlotInv, FlagTells, Busy, ClockOK
  <2>3. Cardinality(InFlight) <= 1
    <3>1. CASE InFlight = {}
      <4>1. Cardinality(InFlight) = 0
        BY <3>1, FS_EmptySet
      <4> QED
        BY <4>1
    <3>2. CASE InFlight # {}
      <4>1. PICK s \in InFlight : TRUE
        BY <3>2
      <4>2. InFlight = {s}
        BY <2>1, <4>1
      <4>3. Cardinality(InFlight) = 1
        BY <4>2, FS_Singleton
      <4> QED
        BY <4>3
    <3> QED
      BY <3>1, <3>2
  <2> QED
    BY <2>2, <2>3 DEF OneInFlight
<1> QED
  BY <1>1, SlotInvariant, PTL

-----------------------------------------------------------------------------
(***************************************************************************)
(* What a window sends fits: the clock is looked at again when the encode  *)
(* is back, and nothing else takes a window's waveform on the air.         *)
(***************************************************************************)
FitsStep == \A s \in Slots : task[s] = "window_encode" /\ task'[s] = "on_air"
                               => now' + Waveform < SlotEnd(s)

THEOREM WindowsFit == Spec => WindowFits
<1>1. ASSUME SlotInv, [Next]_vars PROVE [FitsStep]_vars
  <2> SUFFICES ASSUME NEW s \in Slots, task[s] = "window_encode", task'[s] = "on_air"
               PROVE  now' + Waveform < SlotEnd(s)
    BY DEF FitsStep
  <2>1. PICK r \in Slots : Drives(r)
    <3>1. task' # task
      OBVIOUS
    <3>2. ~Announce
      <4> SUFFICES ASSUME Announce PROVE FALSE
        OBVIOUS
      <4>1. PICK r \in Slots : Goto(r, "fresh")
        BY <3>1 DEF Announce
      <4> QED
        BY <4>1 DEF Goto, SlotInv, ClockOK
    <3>3. ~ (Tick \/ SlotEnds \/ DecodeFails \/ Decoded \/ StartSession \/ StopTx \/ UNCHANGED vars)
      BY <3>1 DEF Tick, SlotEnds, DecodeFails, Decoded, StartSession, StopTx, vars, driver
    <3> QED
      BY <1>1, <3>2, <3>3 DEF Next, Orchestrate, Drives
  <2>2. Moves(r) /\ (Waits(r) \/ Goes(r) \/ Ends(r))
    BY <1>1, <2>1, DrivesIs DEF SlotInv
  <2>3. r = s
    BY <2>2 DEF Moves
  <2>4. Fits(s)
    BY <2>2, <2>3 DEF Waits, Goes, Ends, MayGo, Busy, Opened
  <2> QED
    BY <2>2, <2>4 DEF Fits, Moves
<1> QED
  BY <1>1, SlotInvariant, PTL DEF Spec, WindowFits, FitsStep

(***************************************************************************)
(* A message is encoded only in a slot of the QSO's parity, whichever way  *)
(* it is pulled: at once, after a waveform thrown away, or by a window     *)
(* whose session was replaced while it polled.                             *)
(***************************************************************************)
ParityStep == \A s \in Slots : task[s] # task'[s] /\ task'[s] \in {"encode", "window_encode"}
                                 => s % 2 = tx_phase'

\* The call of next_tx_message() whose message is encoded.
PullsOnce == PullMessage \/ HandOutAgain \/ (tx_enabled /\ state = CALLING /\ UNCHANGED seqVars)

LEMMA PullsOnParity ==
  ASSUME PullsOnce
  PROVE  tx_enabled /\ tx_phase' = tx_phase
BY DEF PullsOnce, PullMessage, HandOut, HandOutAgain, seqVars, qso

THEOREM SentOnParity == Spec => PulledOnParity
<1>1. ASSUME SlotInv, [Next]_vars PROVE [ParityStep]_vars
  <2> SUFFICES ASSUME NEW s \in Slots, task[s] # task'[s], task'[s] \in {"encode", "window_encode"}
               PROVE  s % 2 = tx_phase'
    BY DEF ParityStep
  <2>0. task \in [Slots -> Places]
    BY <1>1 DEF SlotInv, ClockOK
  <2>1. PICK r \in Slots : Drives(r)
    <3>1. ~Announce
      <4> SUFFICES ASSUME Announce PROVE FALSE
        OBVIOUS
      <4>1. PICK r \in Slots : Goto(r, "fresh")
        BY DEF Announce
      <4> QED
        BY <2>0, <4>1 DEF Goto
    <3>2. ~ (Tick \/ SlotEnds \/ DecodeFails \/ Decoded \/ StartSession \/ StopTx \/ UNCHANGED vars)
      BY DEF Tick, SlotEnds, DecodeFails, Decoded, StartSession, StopTx, vars, driver
    <3> QED
      BY <1>1, <3>1, <3>2 DEF Next, Orchestrate, Drives
  <2>2. r = s
    BY <1>1, <2>1, DrivesIs DEF SlotInv, Moves
  <2>3. \A place \in {"ended", "polling", "on_air"} : ~Goto(s, place)
    BY <2>0 DEF Goto
  <2>4. ~Finish(s) /\ \A m : ~Handed(s, m)
    BY <2>3 DEF Finish, Handed, Transmit
  <2>5. \/ Proceeds(s) /\ PullsOnce
        \/ PullMessage /\ ~OtherParity(s)
    BY <2>1, <2>2, <2>3, <2>4
       DEF Drives, OnSlotStart, Window, Transmission, OnSlotSkipped, OnSlotPending, OnSlotPendingDropped,
           OnSlotMessage, OnSlotIdle, WindowCloses, WindowPulls, WindowEncoded, WindowEncodeRaises,
           Encoded, EncodeRaises, TransmitEnds, PullsOnce
  <2> QED
    BY <2>5, PullsOnParity DEF Proceeds, OtherParity, PullsOnce
<1> QED
  BY <1>1, SlotInvariant, PTL DEF Spec, PulledOnParity, ParityStep

-----------------------------------------------------------------------------
(***************************************************************************)
(* The sequencer in the slot engine. The driver may call next_tx_message() *)
(* twice in one step and throw the first answer away: two steps of the     *)
(* sequencer in one. All others are one step of it, or none.               *)
(***************************************************************************)
PullsTwice == HandOutAgain \/ HandOutThenExhausted \/ HandOutThenOver

LEMMA SlotStepIsSequencerStep ==
  ASSUME [Next]_vars
  PROVE  [SeqNext]_seqVars \/ PullsTwice
<1>1. CASE Tick \/ Announce \/ SlotEnds \/ DecodeFails \/ UNCHANGED vars
  BY <1>1 DEF Tick, Announce, SlotEnds, DecodeFails, vars
<1>2. CASE Decoded
  BY <1>2 DEF Decoded, SeqNext
<1>3. CASE StartSession \/ StopTx
  BY <1>3 DEF StartSession, StopTx, SeqNext
<1>4. ASSUME PullMessage \/ PullNothing
      PROVE  [SeqNext]_seqVars
  BY <1>4 DEF PullMessage, PullNothing, SeqNext, NextTxMessage
<1>5. ASSUME NEW s \in Slots, OnSlotStart(s)
      PROVE  [SeqNext]_seqVars \/ PullsTwice
  BY <1>4, <1>5
  DEF OnSlotStart, OnSlotSkipped, OnSlotPending, OnSlotPendingDropped, OnSlotMessage, OnSlotIdle, PullsTwice
<1>6. ASSUME NEW s \in Slots, Window(s) \/ Transmission(s)
      PROVE  [SeqNext]_seqVars
  BY <1>4, <1>6
  DEF Window, WindowCloses, WindowPulls, WindowEncoded, WindowEncodeRaises,
      Transmission, Encoded, EncodeRaises, TransmitEnds
<1> QED
  BY <1>1, <1>2, <1>3, <1>5, <1>6 DEF Next, Orchestrate

\* Two calls that hand out what nobody sends cost two of the budget, and the
\* second may end the exchange.
LEMMA TwiceInExchange ==
  ASSUME SeqInv, HandOutAgain \/ HandOutThenExhausted
  PROVE  SeqInv'
<1> USE DEF IDLE, CALLING, REPLYING, REPORT, ROGER_REPORT, ROGERS, SIGNOFF, DONE
<1>1. /\ UNCHANGED <<signoff_sent, qso, logging, tally>> /\ tx_count' \in 0 .. 1 + MaxRetransmissions
      /\ \/ UNCHANGED <<state, tx_enabled, disarm_reason>>
         \/ tx_enabled' = FALSE /\ state' = IDLE /\ disarm_reason' = "retry_exhausted"
  BY RetryAssumption DEF SeqInv, SeqDataOK, HandOutAgain, HandOutThenExhausted
<1>2. SeqFlagsOK'
  BY <1>1, Zenon DEF SeqInv, SeqFlagsOK, qso, logging
<1>3. SeqDataOK'
  BY <1>1 DEF SeqInv, SeqDataOK, States, Reasons, qso, logging, tally
<1>4. EnabledIffActive' /\ PartnerKnown' /\ SignedOffIsLogged' /\ FreshUnlogged'
  BY <1>1
  DEF SeqInv, EnabledIffActive, PartnerKnown, SignedOffIsLogged, FreshUnlogged, Unwritten, Active,
      Exchanging, qso, logging
<1>5. OneCourtesyEach' /\ CourtesyAllowed'
  BY <1>1 DEF SeqInv, OneCourtesyEach, CourtesyAllowed, tally
<1> QED
  BY <1>2, <1>3, <1>4, <1>5 DEF SeqInv

\* A 73 that is thrown away is the courtesy of its final message all the same.
LEMMA TwiceAtSignoff ==
  ASSUME SeqInv, HandOutThenOver
  PROVE  /\ SeqInv' /\ state = SIGNOFF /\ state' = DONE
         /\ qso_logged /\ dx_call # NoCall /\ UNCHANGED <<qso_logged, log, dx_call, session>>
<1> USE DEF IDLE, CALLING, REPLYING, REPORT, ROGER_REPORT, ROGERS, SIGNOFF, DONE
<1>1. /\ state = SIGNOFF /\ state' = DONE /\ tx_enabled' = FALSE /\ disarm_reason' = "complete"
      /\ tx_count' = tx_count + 1 /\ ~Exhausted /\ ~signoff_sent /\ signoff_sent'
      /\ courtesies' = courtesies + 1 /\ UNCHANGED <<qso, heard, finals, session>> /\ EnsureLog
  BY DEF HandOutThenOver
<1>2. qso_logged /\ dx_call # NoCall /\ UNCHANGED logging
  BY <1>1, Zenon DEF SeqInv, SignedOffIsLogged, PartnerKnown, Exchanging, EnsureLog, logging, SeqFlagsOK
<1>3. SeqFlagsOK'
  BY <1>1, <1>2, Zenon DEF HandOutThenOver, SeqInv, SeqFlagsOK, qso, logging
<1>4. courtesies \in Nat /\ finals \in Nat /\ courtesies + 1 <= finals
  BY <1>1 DEF SeqInv, SeqDataOK, CourtesyAllowed
<1>5. SeqDataOK'
  BY <1>1, <1>2, <1>4, RetryAssumption
  DEF SeqInv, SeqDataOK, States, Reasons, Exhausted, qso, logging
<1>6. EnabledIffActive' /\ PartnerKnown' /\ SignedOffIsLogged' /\ FreshUnlogged'
  BY <1>1, <1>2
  DEF SeqInv, EnabledIffActive, PartnerKnown, SignedOffIsLogged, FreshUnlogged, Unwritten, Active,
      Exchanging, qso, logging
<1>7. OneCourtesyEach' /\ CourtesyAllowed'
  BY <1>1, <1>4 DEF OneCourtesyEach, CourtesyAllowed
<1> QED
  BY <1>1, <1>2, <1>3, <1>5, <1>6, <1>7 DEF SeqInv, qso, logging

LEMMA SeqInvInSlots == SeqInv /\ [Next]_vars => SeqInv'
BY SlotStepIsSequencerStep, SeqInvStep, TwiceInExchange, TwiceAtSignoff DEF PullsTwice

\* The sequencer's invariant holds in every state of the slot engine.
THEOREM SlotKeepsSeqInv == Spec => []SeqInv
<1>1. SlotInit => SeqInv
  BY SeqInvInit DEF SlotInit
<1> QED
  BY <1>1, SeqInvInSlots, PTL DEF Spec

\* Whatever windows, late decodes and waveforms that are kept and dropped do to
\* the sequencer (orchestrator.py, tx_driver.py), its flag tells its state, a
\* signed-off QSO has its record, and no 73 is handed out without a final
\* message of the partner.
THEOREM SequencerInSlots ==
  Spec => [](SeqTypeOK /\ EnabledIffActive /\ PartnerKnown /\ SignedOffIsLogged /\ OneCourtesyEach)
<1>1. SeqInv => SeqTypeOK /\ EnabledIffActive /\ PartnerKnown /\ SignedOffIsLogged /\ OneCourtesyEach
  BY DEF SeqInv, SeqTypeOK
<1> QED
  BY <1>1, SlotKeepsSeqInv, PTL

\* Within a session the slot engine only moves the exchange on, though it may
\* pull twice in a slot (on_slot_start).
THEOREM SlotsMoveOn == Spec => SessionOnward
<1>1. SeqInv /\ [Next]_vars => [Onward]_seqVars
  <2>1. ASSUME SeqInv, PullsTwice PROVE Onward
    <3>1. Rank[IDLE] = 4 /\ Rank[DONE] = 4 /\ \A s \in States : Rank[s] \in 0 .. 4
      BY DEF Rank, States, Active, Exchanging, IDLE, CALLING, REPLYING, REPORT, ROGER_REPORT, ROGERS, SIGNOFF, DONE
    <3>2. state \in States /\ dx_call' = dx_call /\ (state' = state \/ state' \in {IDLE, DONE})
      BY <2>1, TwiceAtSignoff
      DEF PullsTwice, HandOutAgain, HandOutThenExhausted, SeqInv, SeqDataOK, qso
    <3>3. state \notin {IDLE, DONE}
      BY <2>1, TwiceAtSignoff
      DEF PullsTwice, HandOutAgain, HandOutThenExhausted, Exchanging, IDLE, CALLING, REPLYING, REPORT,
          ROGER_REPORT, ROGERS, SIGNOFF, DONE
    <3> QED
      BY <3>1, <3>2, <3>3 DEF Onward
  <2> QED
    BY <2>1, SlotStepIsSequencerStep, MovesOn
<1> QED
  BY <1>1, SlotKeepsSeqInv, PTL DEF Spec, SessionOnward, Onward

\* The logbook sees no difference between one pull and two: each contact is
\* written once at most, under its name, and completes only when written.
THEOREM SlotRefinement == Spec => KeepsContract
<1>1. SlotInit => Contract!Init
  BY ContractInit DEF SlotInit
<1>2. SeqInv /\ [Next]_vars => [Contract!Next]_<<dx_call, ContactPhase, LogbookIs>>
  <2> USE DEF IDLE, CALLING, REPLYING, REPORT, ROGER_REPORT, ROGERS, SIGNOFF, DONE
  <2>1. ASSUME HandOutAgain \/ HandOutThenExhausted
        PROVE  UNCHANGED <<dx_call, ContactPhase, LogbookIs>>
    BY <2>1, Unseen DEF HandOutAgain, HandOutThenExhausted, Exchanging, qso, logging
  <2>2. ASSUME SeqInv, HandOutThenOver PROVE Contract!Next
    <3>1. Contract!Complete
      BY <2>2, TwiceAtSignoff DEF Contract!Complete, ContactPhase
    <3> QED
      BY <3>1 DEF Contract!Next
  <2> QED
    BY <2>1, <2>2, SlotStepIsSequencerStep, ContractStep DEF PullsTwice
<1> QED
  BY <1>1, <1>2, SlotKeepsSeqInv, SeqInvInSlots, PTL DEF Spec, KeepsContract, Contract!Spec, LogbookIs

-----------------------------------------------------------------------------
(***************************************************************************)
(* Types, and which tasks have a message: the ones that encode it or have  *)
(* it on the air, and no other, whichever way they came or went.           *)
(***************************************************************************)
Loaded == {"window_encode", "encode", "on_air"}

MessagesOK ==
  /\ task \in [Slots -> Places]
  /\ message \in [Slots -> Messages \cup {NoMessage}]
  /\ pending \in Messages \cup {NoMessage}
  /\ \A s \in Slots : message[s] # NoMessage <=> task[s] \in Loaded

TimesOK ==
  /\ now \in 0 .. SlotEnd(MaxSlot) /\ started \in [Slots -> 0 .. SlotEnd(MaxSlot)]
  /\ loop \in {"announce", "sleeping", "decoding"} /\ slot \in Slots
  /\ sessions \in 0 .. MaxSessions

SlotFlagsOK == in_flight \in BOOLEAN /\ armed \in BOOLEAN

\* What is handed out is a message: a CQ, or one of an exchange with a station.
LEMMA MessageIs ==
  ASSUME SeqInv, state = CALLING \/ state \in Exchanging
  PROVE  Message \in Messages
<1>1. CASE state = CALLING
  BY <1>1 DEF Message, Messages
<1>2. CASE state # CALLING /\ state \in Exchanging
  <2>1. dx_call \in Stations
    BY <1>2 DEF SeqInv, SeqDataOK, PartnerKnown
  <2> QED
    BY <1>2, <2>1 DEF Message, Messages
<1> QED
  BY <1>1, <1>2

\* A task is given a message, goes on without one, or ends.
Loads(s) == \E m \in Messages, place \in Loaded : Goto(s, place) /\ message' = [message EXCEPT ![s] = m]
GoesEmpty(s) == task[s] = "fresh" /\ Goto(s, "polling") /\ message' = message
Carries(s) == Loads(s) \/ GoesEmpty(s) \/ Finish(s)

LEMMA CarriesKeeps ==
  ASSUME MessagesOK, NEW s \in Slots, Carries(s), pending' \in Messages \cup {NoMessage}
  PROVE  MessagesOK'
<1>1. CASE Loads(s)
  <2>1. PICK m \in Messages, place \in Loaded :
          task' = [task EXCEPT ![s] = place] /\ message' = [message EXCEPT ![s] = m]
    BY <1>1 DEF Loads, Goto
  <2>2. m # NoMessage /\ place \in Places
    BY MessageAssumption DEF Loaded, Places
  <2> QED
    BY <2>1, <2>2 DEF MessagesOK
<1>2. CASE GoesEmpty(s)
  BY <1>2 DEF GoesEmpty, Goto, MessagesOK, Loaded, Places
<1>3. CASE Finish(s)
  BY <1>3 DEF Finish, Goto, MessagesOK, Loaded, Places
<1> QED
  BY <1>1, <1>2, <1>3 DEF Carries

LEMMA SlotStepCarries ==
  ASSUME SeqInv, MessagesOK, NEW s \in Slots, OnSlotStart(s) \/ Window(s) \/ Transmission(s)
  PROVE  Carries(s) /\ pending' \in Messages \cup {NoMessage}
<1>1. ASSUME PullMessage PROVE Message \in Messages
  BY <1>1, MessageIs DEF PullMessage, HandOut, Exchanging
<1>2. ASSUME NEW m \in Messages, Handed(s, m) PROVE Carries(s)
  BY <1>2 DEF Handed, Transmit, Carries, Loads, Loaded
<1>3. ASSUME task[s] \in Loaded PROVE message[s] \in Messages
  BY <1>3 DEF MessagesOK
<1>4. CASE OnSlotSkipped(s)
  BY <1>4 DEF OnSlotSkipped, Carries, MessagesOK
<1>5. CASE OnSlotPending(s)
  BY <1>1, <1>2, <1>5 DEF OnSlotPending
<1>6. CASE OnSlotPendingDropped(s)
  <2>1. pending' = NoMessage /\ task[s] = "fresh"
    BY <1>6 DEF OnSlotPendingDropped, Proceeds
  <2>2. CASE /\ HandOutAgain \/ (tx_enabled /\ state = CALLING /\ UNCHANGED seqVars)
             /\ Transmit(s, Message, "encode")
    <3>1. Message \in Messages
      BY <2>2, MessageIs DEF HandOutAgain
    <3> QED
      BY <2>1, <2>2, <3>1 DEF Transmit, Carries, Loads, Loaded
  <2>3. CASE Goto(s, "polling") /\ UNCHANGED <<message, in_flight>>
    BY <2>1, <2>3 DEF Carries, GoesEmpty
  <2> QED
    BY <1>6, <2>2, <2>3 DEF OnSlotPendingDropped
<1>7. CASE OnSlotMessage(s)
  BY <1>1, <1>7 DEF OnSlotMessage, Transmit, Carries, Loads, Loaded, MessagesOK
<1>8. CASE OnSlotIdle(s)
  BY <1>8 DEF OnSlotIdle, Proceeds, Carries, GoesEmpty, MessagesOK
<1>9. CASE WindowCloses(s) \/ WindowEncodeRaises(s) \/ EncodeRaises(s) \/ TransmitEnds(s)
  BY <1>9 DEF WindowCloses, WindowEncodeRaises, EncodeRaises, TransmitEnds, Carries, MessagesOK
<1>10. CASE WindowPulls(s)
  BY <1>1, <1>10 DEF WindowPulls, Carries, Loads, Loaded, MessagesOK
<1>11. CASE WindowEncoded(s)
  <2>1. message[s] \in Messages
    BY <1>3, <1>11 DEF WindowEncoded, Loaded
  <2> QED
    BY <1>2, <1>11, <2>1 DEF WindowEncoded, Carries, MessagesOK
<1>12. CASE Encoded(s)
  <2>1. message[s] \in Messages
    BY <1>3, <1>12 DEF Encoded, Loaded
  <2> QED
    BY <1>2, <1>12, <2>1 DEF Encoded, MessagesOK
<1> QED
  BY <1>4, <1>5, <1>6, <1>7, <1>8, <1>9, <1>10, <1>11, <1>12 DEF OnSlotStart, Window, Transmission

LEMMA MessagesStep == ASSUME SlotInv, SeqInv, MessagesOK, [Next]_vars PROVE MessagesOK'
<1>1. CASE Announce
  <2>1. UNCHANGED <<message, pending>>
    BY <1>1 DEF Announce
  <2>2. CASE task' = task
    BY <2>1, <2>2 DEF MessagesOK
  <2>3. CASE task' # task
    <3>1. slot' \in Slots /\ task' = [task EXCEPT ![slot'] = "fresh"] /\ announced # slot'
      BY <1>1, <2>3 DEF Announce, Goto
    <3>2. slot' = SlotAt(now)
      BY <1>1 DEF Announce
    <3>3. announced # SlotAt(now)
      BY <3>1, <3>2
    <3>4. task[slot'] = "none"
      BY <1>1, <3>2, <3>3, AnnouncedIsNew
    <3> QED
      BY <2>1, <3>1, <3>4 DEF MessagesOK, Loaded, Places
  <2> QED
    BY <2>2, <2>3
<1>2. ASSUME NEW s \in Slots, OnSlotStart(s) \/ Window(s) \/ Transmission(s)
      PROVE  MessagesOK'
  BY <1>2, SlotStepCarries, CarriesKeeps
<1>3. CASE Tick \/ SlotEnds \/ DecodeFails \/ Decoded \/ StartSession \/ StopTx \/ UNCHANGED vars
  <2>1. UNCHANGED <<task, message, pending>>
    BY <1>3 DEF Tick, SlotEnds, DecodeFails, Decoded, StartSession, StopTx, vars, driver
  <2> QED
    BY <2>1 DEF MessagesOK
<1> QED
  BY <1>1, <1>2, <1>3 DEF Next, Orchestrate

LEMMA TimesStep == ASSUME TimesOK, [Next]_vars PROVE TimesOK'
<1> DEFINE last == SlotEnd(MaxSlot)
<1>1. last \in Nat /\ MaxSessions \in Nat
  <2>1. MaxSlot \in Nat /\ Period \in Nat /\ MaxSessions \in Nat
    BY TimeAssumption
  <2>2. (MaxSlot + 1) * Period \in Nat
    BY <2>1
  <2> QED
    BY <2>1, <2>2 DEF SlotEnd
<1>2. /\ now \in 0 .. last /\ started \in [Slots -> 0 .. last]
      /\ loop \in {"announce", "sleeping", "decoding"} /\ slot \in Slots /\ sessions \in 0 .. MaxSessions
  BY DEF TimesOK
<1>3. SUFFICES /\ now' \in 0 .. last /\ started' \in [Slots -> 0 .. last]
               /\ loop' \in {"announce", "sleeping", "decoding"} /\ slot' \in Slots
               /\ sessions' \in 0 .. MaxSessions
  BY DEF TimesOK, SlotEnd
<1>4. CASE Tick
  <2>1. now < last /\ now' = now + 1 /\ UNCHANGED <<started, orchestrator, sessions>>
    BY <1>4 DEF Tick, driver, safety
  <2> HIDE DEF last
  <2> QED
    BY <1>1, <1>2, <2>1 DEF orchestrator
<1> HIDE DEF last
<1>5. CASE Orchestrate
  BY <1>2, <1>5
  DEF Orchestrate, Announce, SlotEnds, DecodeFails, Decoded, driver, safety
<1>6. CASE StartSession \/ StopTx
  BY <1>1, <1>2, <1>6 DEF StartSession, StopTx, orchestrator, driver
<1>7. ASSUME NEW s \in Slots, OnSlotStart(s) \/ Window(s) \/ Transmission(s)
      PROVE  /\ UNCHANGED <<now, orchestrator, sessions>>
             /\ started' = started \/ started' = [started EXCEPT ![s] = now]
  BY <1>7
  DEF OnSlotStart, OnSlotSkipped, OnSlotPending, OnSlotPendingDropped, OnSlotMessage, OnSlotIdle,
      Window, WindowCloses, WindowPulls, WindowEncoded, WindowEncodeRaises,
      Transmission, Encoded, EncodeRaises, TransmitEnds, Handed, safety
<1>8. CASE UNCHANGED vars
  BY <1>2, <1>8 DEF vars, orchestrator, driver, safety
<1>9. CASE \E s \in Slots : OnSlotStart(s) \/ Window(s) \/ Transmission(s)
  BY <1>2, <1>7, <1>9 DEF orchestrator
<1> QED
  BY <1>4, <1>5, <1>6, <1>8, <1>9 DEF Next

LEMMA ArmedStep == ASSUME SlotFlagsOK, in_flight' \in BOOLEAN, [Next]_vars PROVE SlotFlagsOK'
<1>1. armed' \in {armed, TRUE, FALSE}
  BY
  DEF Next, Tick, Orchestrate, Announce, SlotEnds, DecodeFails, Decoded, StartSession, StopTx, OnSlotStart,
      OnSlotSkipped, OnSlotPending, OnSlotPendingDropped, OnSlotMessage, OnSlotIdle,
      Window, WindowCloses, WindowPulls, WindowEncoded, WindowEncodeRaises,
      Transmission, Encoded, EncodeRaises, TransmitEnds, safety, vars
<1> QED
  BY <1>1, Zenon DEF SlotFlagsOK

\* The clocks of the slot engine, and which of the driver's tasks have a message
\* (on_slot_start, tx_driver.py).
THEOREM SlotTypeCorrect == Spec => []SlotTypeOK
<1> DEFINE Inv == SlotInv /\ SeqInv /\ MessagesOK /\ TimesOK /\ SlotFlagsOK
<1>1. SlotInit => Inv
  <2> SUFFICES ASSUME SlotInit PROVE Inv
    OBVIOUS
  <2>1. SlotInv /\ SeqInv
    BY SlotInvInit, SeqInvInit DEF SlotInit
  <2>2. MessagesOK
    BY DEF SlotInit, MessagesOK, Loaded, Places
  <2>3. TimesOK
    <3>1. SlotEnd(MaxSlot) \in Nat /\ MaxSlot \in Nat /\ MaxSessions \in Nat
      <4>1. MaxSlot \in Nat /\ Period \in Nat /\ MaxSessions \in Nat
        BY TimeAssumption
      <4>2. (MaxSlot + 1) * Period \in Nat
        BY <4>1
      <4> QED
        BY <4>1, <4>2 DEF SlotEnd
    <3> QED
      BY <3>1 DEF SlotInit, TimesOK, Slots
  <2>4. SlotFlagsOK
    BY Zenon DEF SlotInit, SlotFlagsOK
  <2> QED
    BY <2>1, <2>2, <2>3, <2>4
<1>2. Inv /\ [Next]_vars => Inv'
  <2> SUFFICES ASSUME Inv, [Next]_vars PROVE Inv'
    OBVIOUS
  <2>1. SlotInv' /\ SeqInv' /\ MessagesOK' /\ TimesOK'
    BY SlotInvStep, SeqInvInSlots, MessagesStep, TimesStep
  <2>2. in_flight' \in BOOLEAN
    BY <2>1, Zenon DEF SlotInv, ClockOK
  <2> QED
    BY <2>1, <2>2, ArmedStep
<1>3. Inv => SlotTypeOK
  <2>1. ASSUME Inv PROVE announced \in 0 .. MaxSlot + 1
    BY <2>1 DEF SlotInv, ClockOK
  <2> QED
    BY <2>1, Zenon DEF SlotTypeOK, MessagesOK, TimesOK, SlotFlagsOK, Loaded
<1> QED
  BY <1>1, <1>2, <1>3, PTL DEF Spec
=============================================================================
