------------------------------- MODULE RxRing -------------------------------
(***************************************************************************)
(* The receive path of server/engine/audio_rx.py: the capture child stamps *)
(* each block with the wall time of its first sample, a bounded deque and  *)
(* a pipe carry it to the parent, whose reader thread writes it into the   *)
(* UTC ring while the event loop reads slots out of it without a lock.     *)
(*                                                                         *)
(* Time is in samples. A cell of the ring holds two numbers the program    *)
(* does not have: the index its sample was stamped with and the index it   *)
(* ought to have had. An access to a field of the ring is a step where the *)
(* other thread could see the difference.                                  *)
(***************************************************************************)
EXTENDS Integers, Sequences, FiniteSets

CONSTANTS
  Capacity,     \* samples the ring retains
  SlotSamples,  \* samples of a slot
  Block,        \* converted samples of one block
  Resync,       \* RESYNC_THRESHOLD_SECONDS
  Pending,      \* PENDING_FRAMES of the child's deque
  Jitter,       \* how far an ADC timestamp is off
  MaxDelay,     \* how late a callback reads the wall clock
  Walls,        \* what the wall clock may be ahead of the audio clock
  MaxLost,      \* bound: samples lost in one stall of the device
  MaxAdc,       \* bound: the last audio time
  None          \* a field not set yet

ASSUME RingAssumption ==
  /\ SlotSamples \in Nat \ {0} /\ Block \in Nat \ {0}
  /\ Capacity \in Nat /\ Capacity >= SlotSamples /\ Capacity >= Block
  /\ Resync \in Nat /\ Jitter \in Nat /\ MaxDelay \in Nat /\ Pending \in Nat \ {0}
  /\ Walls \subseteq Nat /\ MaxLost \in Nat /\ MaxAdc \in Nat
  /\ None \notin Int

VARIABLES
  adc,        \* audio time of the next sample of the device
  wall,       \* how far the wall clock is ahead of it
  adc_offset, \* AudioCapture._adc_offset
  next_epoch, \* AudioCapture._next_epoch, in samples
  pending,    \* blocks between the callback and the reader thread, oldest first
  base,       \* UtcRing._base
  high_water, \* UtcRing._high_water
  gap_ranges, \* UtcRing._gap_ranges
  buffer,     \* UtcRing._buffer
  writer,     \* the write() of the reader thread: its place and its block
  reader,     \* the read_slot() of the event loop: its place and its slot
  gaps,       \* metrics.gaps
  disturbed   \* whether audio was lost or a clock stepped; nothing reads it

child == <<adc_offset, next_epoch>>
ring  == <<base, high_water, gap_ranges, buffer, gaps>>
vars  == <<adc, wall, child, pending, ring, writer, reader, disturbed>>

Abs(x)    == IF x < 0 THEN -x ELSE x
Larger(x, y) == IF x < y THEN y ELSE x

Idle  == [at |-> "idle"]
Empty == [stamp |-> None, truth |-> None]

Init ==
  /\ adc = 0 /\ wall \in Walls
  /\ adc_offset = None /\ next_epoch = None /\ pending = <<>>
  /\ base = None /\ high_water = 0 /\ gap_ranges = {} /\ gaps = 0
  /\ buffer = [p \in 0 .. Capacity - 1 |-> Empty]
  /\ writer = Idle /\ reader = Idle
  /\ disturbed = FALSE

-----------------------------------------------------------------------------
(* The child: the callback and its stamps.                                 *)

(* The offset a callback uses that sees the clocks `seen` apart. *)
Calibrated(seen) ==
  IF adc_offset = None \/ Abs(seen - adc_offset) > Resync THEN seen ELSE adc_offset

\* Anchored if every block had the epoch of its own timestamp.
AnchoredEach(epoch) == epoch

\* Anchored if the chain were never compared with the hardware again.
AnchoredOnce(epoch) == IF next_epoch = None THEN epoch ELSE next_epoch

(* The chain goes on by sample count, unless the hardware disagrees. *)
Anchored(epoch) ==
  IF next_epoch = None \/ Abs(epoch - next_epoch) > Resync THEN epoch ELSE next_epoch

(* The deque drops its oldest block when it is full. *)
Appended(q, block) ==
  Append(IF Len(q) < Pending THEN q ELSE Tail(q), block)

(* One block, whose timestamp is off by j and whose callback runs late. *)
OnBlock(j, late) ==
  LET offset == Calibrated(wall + late)
      first  == Anchored(adc + j + offset)
  IN /\ adc + Block <= MaxAdc
     /\ adc_offset' = offset
     /\ next_epoch' = first + Block
     /\ pending' = Appended(pending, [first |-> first, truth |-> adc + wall])
     /\ adc' = adc + Block
     /\ disturbed' = (disturbed \/ Len(pending) = Pending)
     /\ UNCHANGED <<wall, ring, writer, reader>>

(* The device loses samples; the next timestamp tells. *)
Stall(lost) ==
  /\ adc + lost <= MaxAdc
  /\ adc' = adc + lost /\ disturbed' = TRUE
  /\ UNCHANGED <<wall, child, pending, ring, writer, reader>>

(* The wall clock is set. *)
ClockStep(w) ==
  /\ w # wall
  /\ wall' = w /\ disturbed' = TRUE
  /\ UNCHANGED <<adc, child, pending, ring, writer, reader>>

(* A fresh child: nothing calibrated, nothing pending, audio lost. *)
FreshChild ==
  /\ adc < MaxAdc
  /\ adc' = adc + 1
  /\ adc_offset' = None /\ next_epoch' = None /\ pending' = <<>>
  /\ disturbed' = TRUE
  /\ UNCHANGED <<wall, ring, writer, reader>>

-----------------------------------------------------------------------------
(* The reader thread of the parent: UtcRing.write().                       *)

(* Where the part of the block begins that the ring does not have yet. *)
StartOf(first, b) == Larger(first, Larger(high_water, b))

(* The block is older than all the ring retains, or leaves a gap, or not. *)
WriteBegins ==
  /\ writer = Idle /\ pending # <<>>
  /\ pending' = Tail(pending)
  /\ LET block == Head(pending)
         b == IF base = None THEN block.first ELSE base
         h == IF base = None THEN block.first ELSE high_water
     IN /\ base' = b /\ high_water' = h
        /\ IF block.first + Block <= b
           THEN UNCHANGED <<gap_ranges, gaps, writer>>
           ELSE /\ writer' = [at |-> "evict", block |-> block]
                /\ IF block.first > h
                   THEN gap_ranges' = gap_ranges \cup {<<h, block.first>>} /\ gaps' = gaps + 1
                   ELSE UNCHANGED <<gap_ranges, gaps>>
  /\ UNCHANGED <<adc, wall, child, buffer, reader, disturbed>>

(* The end of the stream once the block in hand is written. *)
NewHigh ==
  LET first == writer.block.first
      start == StartOf(first, base)
  IN start + Larger(first + Block - start, 0)

Clipped(evict_to) ==
  {<<Larger(g[1], evict_to), g[2]>> : g \in {x \in gap_ranges : x[2] > evict_to}}

\* WriteEvicts if the new end were told before the samples are there.
WriteEvictsAndPublishes ==
  /\ writer.at = "evict"
  /\ LET evict_to == NewHigh - Capacity
     IN IF NewHigh - base > Capacity
        THEN base' = evict_to /\ gap_ranges' = Clipped(evict_to)
        ELSE UNCHANGED <<base, gap_ranges>>
  /\ high_water' = NewHigh
  /\ writer' = [at |-> "fill", block |-> writer.block, start |-> StartOf(writer.block.first, base)]
  /\ UNCHANGED <<adc, wall, child, pending, buffer, gaps, reader, disturbed>>

(* The oldest samples are given up before anything overwrites them. *)
WriteEvicts ==
  /\ writer.at = "evict"
  /\ LET evict_to == NewHigh - Capacity
     IN IF NewHigh - base > Capacity
        THEN base' = evict_to /\ gap_ranges' = Clipped(evict_to)
        ELSE UNCHANGED <<base, gap_ranges>>
  /\ writer' = [at |-> "fill", block |-> writer.block, start |-> StartOf(writer.block.first, base)]
  /\ UNCHANGED <<adc, wall, child, pending, high_water, buffer, gaps, reader, disturbed>>

(* The samples of the block in hand, at the places of their stamps. *)
Filled(block, start) ==
  [p \in 0 .. Capacity - 1 |->
     LET mine == {i \in start .. block.first + Block - 1 : i % Capacity = p}
     IN IF mine = {} THEN buffer[p]
        ELSE LET i == CHOOSE i \in mine : TRUE
             IN [stamp |-> i, truth |-> block.truth + i - block.first]]

WriteFills ==
  /\ writer.at = "fill"
  /\ buffer' = Filled(writer.block, writer.start)
  /\ writer' = [writer EXCEPT !.at = "publish"]
  /\ UNCHANGED <<adc, wall, child, pending, base, high_water, gap_ranges, gaps, reader, disturbed>>

WritePublishes ==
  /\ writer.at = "publish"
  /\ high_water' = Larger(writer.start, writer.block.first + Block)
  /\ writer' = Idle
  /\ UNCHANGED <<adc, wall, child, pending, base, gap_ranges, buffer, gaps, reader, disturbed>>

-----------------------------------------------------------------------------
(* The event loop: UtcRing.read_slot().                                    *)

FirstOf(s) == s * SlotSamples
LastOf(s)  == FirstOf(s) + SlotSamples
Slots      == 0 .. (MaxAdc + MaxLost) \div SlotSamples + 2

ReadBegins(s) ==
  /\ reader = Idle
  /\ base # None /\ FirstOf(s) >= base
  /\ reader' = [at |-> "high_water", slot |-> s]
  /\ UNCHANGED <<adc, wall, child, pending, ring, writer, disturbed>>

ReadChecksEnd ==
  /\ reader.at = "high_water"
  /\ reader' = IF LastOf(reader.slot) > high_water THEN Idle ELSE [reader EXCEPT !.at = "gaps"]
  /\ UNCHANGED <<adc, wall, child, pending, ring, writer, disturbed>>

Overlaps(s) == \E g \in gap_ranges : FirstOf(s) < g[2] /\ LastOf(s) > g[1]

ReadChecksGaps ==
  /\ reader.at = "gaps"
  /\ reader' = IF Overlaps(reader.slot) THEN Idle ELSE [reader EXCEPT !.at = "gather"]
  /\ UNCHANGED <<adc, wall, child, pending, ring, writer, disturbed>>

ReadGathers ==
  /\ reader.at = "gather"
  /\ reader' = Idle
  /\ UNCHANGED <<adc, wall, child, pending, ring, writer, disturbed>>

Next ==
  \/ \E j \in -Jitter .. Jitter, late \in 0 .. MaxDelay : OnBlock(j, late)
  \/ \E lost \in 1 .. MaxLost : Stall(lost)
  \/ \E w \in Walls : ClockStep(w)
  \/ FreshChild
  \/ WriteBegins \/ WriteEvicts \/ WriteFills \/ WritePublishes
  \/ \E s \in Slots : ReadBegins(s)
  \/ ReadChecksEnd \/ ReadChecksGaps \/ ReadGathers

Spec == Init /\ [][Next]_vars

-----------------------------------------------------------------------------
(* Properties.                                                             *)

(* What the slot being gathered finds at index i. *)
At(i) == buffer[i % Capacity]

(* Every step leaves fields of the types the code assumes: the window is    *)
(* never longer than the ring, and no gap reaches past its end.            *)
RingTypeOK ==
  /\ base \in Int \cup {None} /\ high_water \in Int
  /\ base # None /\ writer = Idle => base <= high_water /\ high_water - base <= Capacity
  /\ \A g \in gap_ranges : g[1] < g[2]
  /\ Len(pending) <= Pending

(* A slot that read_slot() returns consists of the samples stamped with its *)
(* own indexes, whatever the writer did since the checks, unless the ring   *)
(* has given up the start of the slot in the meantime (a write that leaps   *)
(* by most of the ring between two checks and the copy).                   *)
ServesOwn ==
  [][ ReadGathers =>
      \/ base > FirstOf(reader.slot)
      \/ \A i \in FirstOf(reader.slot) .. LastOf(reader.slot) - 1 : At(i).stamp = i ]_vars

(* No sample is further from its true time than one calibration and one     *)
(* anchor allow: backlog after a stall, a stepped clock or a fresh child is *)
(* never taken for live audio.                                             *)
Tolerance == 2 * Resync + Jitter + MaxDelay
StampsAreTrue ==
  \A p \in DOMAIN buffer : buffer[p] # Empty => Abs(buffer[p].stamp - buffer[p].truth) <= Tolerance

(* While no audio is lost and no clock is set, jitter of the timestamps and *)
(* of the callback never makes a gap: every slot can be decoded.            *)
JitterIsHarmless == ~disturbed => gaps = 0
=============================================================================
