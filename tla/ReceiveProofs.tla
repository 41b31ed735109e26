--------------------------- MODULE ReceiveProofs ----------------------------
(***************************************************************************)
(* What the receive path guarantees for any ring, slot, block, threshold   *)
(* and jitter, and any number of threads over the capture: a slot read     *)
(* beside the writer holds its own samples, no stamp is further off than   *)
(* one calibration and one anchor allow, jitter alone makes no gap; and    *)
(* there is never a second capture child, nor is a fault of the receiver   *)
(* cleared while it is still silent.                                       *)
(***************************************************************************)
EXTENDS RxRing, Capture, SequenceTheorems, FiniteSetTheorems, TLAPS

Blocks  == [first : Int, truth : Int]
Cells   == {Empty} \cup [stamp : Int, truth : Int]
Places  == 0 .. Capacity - 1
Writers == {Idle} \cup [at : {"evict"}, block : Blocks]
                  \cup [at : {"fill", "publish"}, block : Blocks, start : Int]
Readers == {Idle} \cup [at : {"high_water", "gaps", "gather"}, slot : Int]

Busy == writer.at # "idle"

\* The end of the block in hand.
Ends == writer.block.first + Block

-----------------------------------------------------------------------------
(***************************************************************************)
(* Places in the ring: two samples less than a ring apart have two.        *)
(***************************************************************************)
LEMMA AtLeastOnce == \A k \in Int, c \in Nat \ {0} : k >= 1 => k * c >= c
OBVIOUS

LEMMA AtMostNothing == \A k \in Int, c \in Nat \ {0} : k <= 0 => k * c <= 0
OBVIOUS

LEMMA Divides ==
  ASSUME NEW i \in Int, NEW c \in Int, c > 0
  PROVE  i % c \in 0 .. c - 1 /\ i \div c \in Int /\ i = (i \div c) * c + (i % c)
<1>1. i = (i \div c) * c + (i % c)
  BY Z3
<1> QED
  BY <1>1

LEMMA PlacesDiffer ==
  ASSUME NEW c \in Nat \ {0}, NEW i \in Int, NEW j \in Int, i < j, j - i < c
  PROVE  i % c # j % c
<1> SUFFICES ASSUME i % c = j % c PROVE FALSE
  OBVIOUS
<1>1. /\ i \div c \in Int /\ i % c \in 0 .. c - 1 /\ i = (i \div c) * c + (i % c)
      /\ j \div c \in Int /\ j = (j \div c) * c + (j % c)
  BY Divides
<1> DEFINE a == i \div c
           b == j \div c
           m == i % c
<1>2. a \in Int /\ b \in Int /\ m \in Int /\ i = a * c + m /\ j = b * c + m
  BY <1>1
<1> HIDE DEF a, b, m
<1>3. j - i = b * c - a * c
  BY <1>2
<1>4. b * c - a * c = (b - a) * c
  BY <1>2
<1>5. b - a >= 1 => (b - a) * c >= c
  BY <1>2, AtLeastOnce
<1>6. b - a <= 0 => (b - a) * c <= 0
  BY <1>2, AtMostNothing
<1> QED
  BY <1>2, <1>3, <1>4, <1>5, <1>6

LEMMA PlaceOf == \A i \in Int : i % Capacity \in Places
BY RingAssumption, Divides DEF Places

\* What a block leaves behind: each cell is as it was or holds a sample of it.
LEMMA FilledCells ==
  ASSUME buffer \in [Places -> Cells], NEW block \in Blocks, NEW start \in Int
  PROVE  /\ Filled(block, start) \in [Places -> Cells]
         /\ \A p \in Places : \/ Filled(block, start)[p] = buffer[p]
                              \/ \E i \in Int : Filled(block, start)[p]
                                   = [stamp |-> i, truth |-> block.truth + i - block.first]
<1> DEFINE last == block.first + Block - 1
           Mine(p) == {i \in start .. last : i % Capacity = p}
           Cell(i) == [stamp |-> i, truth |-> block.truth + i - block.first]
           f == Filled(block, start)
<1>1. block.first \in Int /\ block.truth \in Int /\ last \in Int
  BY RingAssumption DEF Blocks
<1>2. f = [p \in Places |-> IF Mine(p) = {} THEN buffer[p] ELSE Cell(CHOOSE i \in Mine(p) : TRUE)]
  BY DEF Filled, Places
<1>3. \A p : Mine(p) # {} => (CHOOSE i \in Mine(p) : TRUE) \in Mine(p)
  OBVIOUS
<1>4. \A p \in Places : f[p] = buffer[p] \/ \E i \in Mine(p) : f[p] = Cell(i)
  <2> HIDE DEF Mine, Cell, f
  <2> QED
    BY <1>2, <1>3
<1>5. \A i \in start .. last : Cell(i) \in Cells
  BY <1>1 DEF Cells
<1>6. f \in [Places -> Cells]
  <2>1. \A p \in Places : f[p] \in Cells
    BY <1>4, <1>5
  <2> HIDE DEF f
  <2> QED
    BY <1>2, <2>1
<1>7. ASSUME NEW p \in Places
      PROVE  f[p] = buffer[p] \/ \E i \in Int : f[p] = Cell(i)
  BY <1>4, <1>7
<1> HIDE DEF f
<1> QED
  BY <1>6, <1>7 DEF f

\* The samples are at the places of their stamps, and nothing else that is
\* less than a ring before their end is overwritten.
LEMMA FilledHolds ==
  ASSUME buffer \in [Places -> Cells], NEW block \in Blocks, NEW start \in Int, block.first <= start
  PROVE  /\ \A i \in start .. block.first + Block - 1 :
              Filled(block, start)[i % Capacity].stamp = i
         /\ \A i \in Int : i < start /\ block.first + Block - i <= Capacity
              => Filled(block, start)[i % Capacity] = buffer[i % Capacity]
<1> DEFINE last == block.first + Block - 1
           Mine(p) == {i \in start .. last : i % Capacity = p}
           Cell(i) == [stamp |-> i, truth |-> block.truth + i - block.first]
           f == Filled(block, start)
<1>1. block.first \in Int /\ last \in Int /\ Capacity \in Nat \ {0}
      /\ Block <= Capacity /\ Block \in Nat
  BY RingAssumption DEF Blocks
<1>2. f = [p \in Places |-> IF Mine(p) = {} THEN buffer[p] ELSE Cell(CHOOSE i \in Mine(p) : TRUE)]
  BY DEF Filled, Places
<1>3. ASSUME NEW i \in start .. last
      PROVE  f[i % Capacity].stamp = i
  <2>1. i % Capacity \in Places
    BY PlaceOf
  <2>2. i \in Mine(i % Capacity)
    OBVIOUS
  <2>3. ASSUME NEW j \in Mine(i % Capacity) PROVE j = i
    <3>1. j \in start .. last /\ j % Capacity = i % Capacity
      OBVIOUS
    <3>2. i \in Int /\ j \in Int /\ Capacity \in Nat \ {0} /\ j - i < Capacity /\ i - j < Capacity
      BY <1>1, <3>1
    <3>3. ~(i < j) /\ ~(j < i)
      BY <3>1, <3>2, PlacesDiffer, Zenon
    <3> QED
      BY <3>2, <3>3
  <2>4. f[i % Capacity] = Cell(CHOOSE k \in Mine(i % Capacity) : TRUE)
    BY <1>2, <2>1, <2>2
  <2>5. (CHOOSE k \in Mine(i % Capacity) : TRUE) = i
    BY <2>2, <2>3
  <2> QED
    BY <2>4, <2>5
<1>4. ASSUME NEW i \in Int, i < start, block.first + Block - i <= Capacity
      PROVE  f[i % Capacity] = buffer[i % Capacity]
  <2>1. ASSUME NEW j \in Mine(i % Capacity) PROVE FALSE
    <3>1. j \in start .. last /\ j % Capacity = i % Capacity
      OBVIOUS
    <3>2. i \in Int /\ j \in Int /\ Capacity \in Nat \ {0} /\ i < j /\ j - i < Capacity
      BY <1>1, <1>4, <3>1
    <3> QED
      BY <3>1, <3>2, PlacesDiffer, Zenon
  <2>2. Mine(i % Capacity) = {}
    BY <2>1
  <2> QED
    BY <1>2, <2>2, PlaceOf
<1> HIDE DEF f
<1> QED
  BY <1>3, <1>4 DEF f

-----------------------------------------------------------------------------
(***************************************************************************)
(* Types.                                                                  *)
(***************************************************************************)
ChildOK ==
  /\ adc \in Int /\ wall \in Int
  /\ adc_offset \in Int \cup {None} /\ next_epoch \in Int \cup {None}
  /\ pending \in Seq(Blocks) /\ Len(pending) <= Pending

RingOK ==
  /\ base \in Int \cup {None} /\ high_water \in Int /\ gaps \in Int
  /\ gap_ranges \subseteq Int \X Int /\ \A g \in gap_ranges : g[1] < g[2]
  /\ buffer \in [Places -> Cells]
  /\ writer \in Writers /\ reader \in Readers
  /\ base = None => writer = Idle /\ reader = Idle /\ gap_ranges = {}

TypeOK == ChildOK /\ RingOK

\* One step of the child, of the event loop, of the writer.
ChildSteps ==
  \/ \E j \in -Jitter .. Jitter, late \in 0 .. MaxDelay : OnBlock(j, late)
  \/ \E lost \in 1 .. MaxLost : Stall(lost)
  \/ \E w \in Walls : ClockStep(w)
  \/ FreshChild

ReaderSteps ==
  (\E s \in Slots : ReadBegins(s)) \/ ReadChecksEnd \/ ReadChecksGaps \/ ReadGathers

WriterSteps == WriteBegins \/ WriteEvicts \/ WriteFills \/ WritePublishes

LEMMA NextIs == Next <=> ChildSteps \/ ReaderSteps \/ WriterSteps
BY DEF Next, ChildSteps, ReaderSteps, WriterSteps

LEMMA ChildLeavesRing == ChildSteps => UNCHANGED <<ring, writer, reader>>
BY DEF ChildSteps, OnBlock, Stall, ClockStep, FreshChild

LEMMA ReaderLeavesRest == ReaderSteps => UNCHANGED <<adc, wall, child, pending, ring, writer, disturbed>>
BY DEF ReaderSteps, ReadBegins, ReadChecksEnd, ReadChecksGaps, ReadGathers

LEMMA WriterLeavesChild == WriterSteps => UNCHANGED <<adc, wall, child, reader, disturbed>>
BY DEF WriterSteps, WriteBegins, WriteEvicts, WriteFills, WritePublishes

LEMMA NoneIsNoInt == None \notin Int
BY RingAssumption

\* The stamps of one block: what the callback may make of the clocks.
LEMMA Stamped ==
  ASSUME ChildOK, NEW j \in -Jitter .. Jitter, NEW late \in 0 .. MaxDelay
  PROVE  LET offset == Calibrated(wall + late)
             epoch  == adc + j + offset
             first  == Anchored(epoch)
         IN /\ offset \in Int /\ epoch \in Int /\ first \in Int
            /\ offset - (wall + late) <= Resync /\ (wall + late) - offset <= Resync
            /\ first - epoch <= Resync /\ epoch - first <= Resync
<1> DEFINE offset == Calibrated(wall + late)
           epoch  == adc + j + offset
           first  == Anchored(epoch)
<1>1. /\ adc \in Int /\ wall \in Int /\ wall + late \in Int /\ j \in Int /\ Resync \in Nat
      /\ adc_offset \in Int \cup {None} /\ next_epoch \in Int \cup {None}
  BY RingAssumption DEF ChildOK
<1>2. offset \in Int /\ offset - (wall + late) <= Resync /\ (wall + late) - offset <= Resync
  BY <1>1 DEF Calibrated, Abs
<1> HIDE DEF offset
<1>3. epoch \in Int
  BY <1>1, <1>2
<1> HIDE DEF epoch
<1>4. first \in Int /\ first - epoch <= Resync /\ epoch - first <= Resync
  BY <1>1, <1>3 DEF Anchored, Abs
<1> QED
  BY <1>2, <1>3, <1>4 DEF offset, epoch

LEMMA DequeKeeps ==
  ASSUME NEW q \in Seq(Blocks), Len(q) <= Pending, NEW b \in Blocks
  PROVE  Appended(q, b) \in Seq(Blocks) /\ Len(Appended(q, b)) <= Pending
<1>1. Pending \in Nat \ {0}
  BY RingAssumption
<1>2. CASE Len(q) < Pending
  BY <1>1, <1>2 DEF Appended
<1>3. CASE ~(Len(q) < Pending)
  <2>1. Len(q) = Pending /\ q # << >>
    BY <1>1, <1>3
  <2>2. Tail(q) \in Seq(Blocks) /\ Len(Tail(q)) = Pending - 1
    BY <1>1, <2>1
  <2> QED
    BY <1>1, <1>3, <2>2 DEF Appended
<1> QED
  BY <1>2, <1>3

LEMMA ChildOKStep ==
  ASSUME TypeOK, [Next]_vars
  PROVE  ChildOK'
<1> USE DEF TypeOK
<1>0. Block \in Nat \ {0} /\ Walls \subseteq Nat /\ << >> \in Seq(Blocks) /\ Len(<< >>) = 0
      /\ Pending \in Nat \ {0}
  BY RingAssumption
<1>1. ASSUME NEW j \in -Jitter .. Jitter, NEW late \in 0 .. MaxDelay, OnBlock(j, late)
      PROVE  ChildOK'
  <2> DEFINE offset == Calibrated(wall + late)
             first  == Anchored(adc + j + offset)
             block  == [first |-> first, truth |-> adc + wall]
  <2>1. offset \in Int /\ first \in Int
    BY Stamped
  <2>2. /\ adc' = adc + Block /\ adc_offset' = offset /\ next_epoch' = first + Block
        /\ pending' = Appended(pending, block) /\ wall' = wall
    BY <1>1 DEF OnBlock
  <2>3. block \in Blocks
    BY <2>1 DEF Blocks, ChildOK
  <2> HIDE DEF offset, first, block
  <2>4. pending' \in Seq(Blocks) /\ Len(pending') <= Pending
    BY <2>2, <2>3, DequeKeeps DEF ChildOK
  <2> QED
    BY <1>0, <2>1, <2>2, <2>4 DEF ChildOK
<1>2. ASSUME NEW lost \in 1 .. MaxLost, Stall(lost) PROVE ChildOK'
  BY <1>2 DEF Stall, ChildOK, child
<1>3. ASSUME NEW w \in Walls, ClockStep(w) PROVE ChildOK'
  BY <1>0, <1>3 DEF ClockStep, ChildOK, child
<1>4. CASE FreshChild
  BY <1>0, <1>4 DEF FreshChild, ChildOK
<1>5. CASE WriteBegins
  <2>1. Tail(pending) \in Seq(Blocks) /\ Len(Tail(pending)) <= Pending
    BY <1>0, <1>5 DEF WriteBegins, ChildOK
  <2>2. pending' = Tail(pending) /\ UNCHANGED <<adc, wall, child>>
    BY <1>5 DEF WriteBegins
  <2> QED
    BY <2>1, <2>2 DEF ChildOK, child
<1>6. CASE WriteEvicts \/ WriteFills \/ WritePublishes
  BY <1>6 DEF WriteEvicts, WriteFills, WritePublishes, ChildOK, child
<1>7. CASE ReaderSteps
  BY <1>7, ReaderLeavesRest DEF ChildOK, child
<1>8. CASE UNCHANGED vars
  BY <1>8 DEF vars, ChildOK, child
<1> QED
  BY <1>1, <1>2, <1>3, <1>4, <1>5, <1>6, <1>7, <1>8, NextIs DEF ChildSteps, WriterSteps

\* Clipping keeps what is not evicted of every gap, and nothing else.
LEMMA ClippedGaps ==
  ASSUME gap_ranges \subseteq Int \X Int, \A g \in gap_ranges : g[1] < g[2], NEW e \in Int
  PROVE  /\ Clipped(e) \subseteq Int \X Int /\ \A g \in Clipped(e) : g[1] < g[2]
         /\ \A g \in Clipped(e) : \E x \in gap_ranges : x[1] <= g[1] /\ x[2] = g[2]
         /\ \A x \in gap_ranges : x[2] > e
              => <<Larger(x[1], e), x[2]>> \in Clipped(e)
<1>1. \A x \in gap_ranges : x[1] \in Int /\ x[2] \in Int /\ x[1] < x[2]
  OBVIOUS
<1>2. ASSUME NEW g \in Clipped(e)
      PROVE  /\ g \in Int \X Int /\ g[1] < g[2]
             /\ \E x \in gap_ranges : x[1] <= g[1] /\ x[2] = g[2]
  <2>1. PICK x \in gap_ranges : x[2] > e /\ g = <<Larger(x[1], e), x[2]>>
    BY DEF Clipped
  <2>2. g[1] = Larger(x[1], e) /\ g[2] = x[2] /\ x[1] \in Int /\ x[2] \in Int /\ x[1] < x[2]
    BY <1>1, <2>1
  <2>3. Larger(x[1], e) \in Int /\ x[1] <= Larger(x[1], e) /\ Larger(x[1], e) < x[2]
    BY <2>1, <2>2 DEF Larger
  <2> QED
    BY <2>1, <2>2, <2>3
<1>3. ASSUME NEW x \in gap_ranges, x[2] > e
      PROVE  <<Larger(x[1], e), x[2]>> \in Clipped(e)
  BY <1>3 DEF Clipped
<1> QED
  BY <1>2, <1>3

LEMMA WriterIs ==
  ASSUME RingOK
  PROVE  /\ writer = Idle <=> writer.at = "idle"
         /\ writer.at \in {"idle", "evict", "fill", "publish"}
         /\ Busy => base \in Int /\ writer.block \in Blocks /\ writer.block.first \in Int
                    /\ writer.block.truth \in Int /\ Ends \in Int
         /\ writer.at = "evict" => writer \in [at : {"evict"}, block : Blocks]
         /\ writer.at \in {"fill", "publish"} =>
              writer.start \in Int /\ writer \in [at : {"fill", "publish"}, block : Blocks, start : Int]
<1>1. Block \in Nat
  BY RingAssumption
<1> QED
  BY <1>1 DEF RingOK, Writers, Idle, Busy, Ends, Blocks

LEMMA ReaderIs ==
  ASSUME RingOK
  PROVE  /\ reader.at \in {"idle", "high_water", "gaps", "gather"}
         /\ reader = Idle <=> reader.at = "idle"
         /\ reader # Idle => reader.slot \in Int /\ base \in Int
BY DEF RingOK, Readers, Idle

LEMMA RingOKStep ==
  ASSUME TypeOK, [Next]_vars
  PROVE  RingOK'
<1> USE DEF TypeOK
<1>0. Block \in Nat \ {0} /\ Capacity \in Nat
  BY RingAssumption
<1>1. CASE UNCHANGED <<ring, writer, reader>>
  BY <1>1 DEF ring, RingOK
<1>2. CASE ReaderSteps
  <2>1. UNCHANGED <<ring, writer>>
    BY <1>2, ReaderLeavesRest
  <2>2. base # None => reader' \in Readers
    <3>1. ASSUME NEW s \in Slots, ReadBegins(s) PROVE reader' \in Readers
      BY <3>1 DEF ReadBegins, Readers, Slots
    <3>2. CASE ReadChecksEnd \/ ReadChecksGaps \/ ReadGathers
      BY <3>2 DEF ReadChecksEnd, ReadChecksGaps, ReadGathers, RingOK, Readers, Idle
    <3> QED
      BY <1>2, <3>1, <3>2 DEF ReaderSteps
  <2>3. base = None => reader' = Idle
    <3>1. base = None => reader = Idle
      BY DEF RingOK
    <3> QED
      BY <1>2, <3>1 DEF ReaderSteps, ReadBegins, ReadChecksEnd, ReadChecksGaps, ReadGathers, Idle
  <2> QED
    BY <2>1, <2>2, <2>3 DEF RingOK, ring, Readers
<1>3. CASE WriteBegins
  <2> DEFINE block == Head(pending)
             b == IF base = None THEN block.first ELSE base
             h == IF base = None THEN block.first ELSE high_water
  <2>1. block \in Blocks
    BY <1>3 DEF WriteBegins, ChildOK
  <2>2. block.first \in Int /\ b \in Int /\ h \in Int
    BY <2>1 DEF Blocks, RingOK
  <2>3. base' = b /\ high_water' = h /\ buffer' = buffer /\ reader' = reader
    BY <1>3 DEF WriteBegins
  <2>4. writer' \in Writers
    <3>1. writer' = writer \/ writer' = [at |-> "evict", block |-> block]
      BY <1>3 DEF WriteBegins
    <3> HIDE DEF block
    <3> QED
      BY <2>1, <3>1 DEF Writers, RingOK
  <2>5. /\ \/ gap_ranges' = gap_ranges /\ gaps' = gaps
           \/ block.first > h /\ gap_ranges' = gap_ranges \cup {<<h, block.first>>} /\ gaps' = gaps + 1
    BY <1>3 DEF WriteBegins
  <2> HIDE DEF block, b, h
  <2>6. gap_ranges' \subseteq Int \X Int /\ (\A g \in gap_ranges' : g[1] < g[2]) /\ gaps' \in Int
    BY <2>2, <2>5 DEF RingOK
  <2> QED
    BY <2>2, <2>3, <2>4, <2>6, NoneIsNoInt DEF RingOK
<1>4. CASE WriteEvicts
  <2>1. /\ writer.at = "evict" /\ UNCHANGED <<high_water, gaps, buffer, reader>>
        /\ writer' = [at |-> "fill", block |-> writer.block, start |-> StartOf(writer.block.first, base)]
        /\ \/ UNCHANGED <<base, gap_ranges>>
           \/ base' = NewHigh - Capacity /\ gap_ranges' = Clipped(NewHigh - Capacity)
    BY <1>4 DEF WriteEvicts
  <2>2. base \in Int /\ writer.block \in Blocks /\ writer.block.first \in Int /\ high_water \in Int
    BY <2>1, WriterIs DEF Busy, RingOK
  <2>3. StartOf(writer.block.first, base) \in Int
    BY <2>2 DEF StartOf, Larger
  <2>4. NewHigh - Capacity \in Int
    BY <1>0, <2>2, <2>3 DEF NewHigh, Larger
  <2>5. writer' \in Writers
    BY <2>1, <2>2, <2>3 DEF Writers
  <2>6. gap_ranges' \subseteq Int \X Int /\ (\A g \in gap_ranges' : g[1] < g[2]) /\ base' \in Int
    BY <2>1, <2>2, <2>4, ClippedGaps DEF RingOK
  <2> QED
    BY <2>1, <2>5, <2>6, NoneIsNoInt DEF RingOK
<1>5. CASE WriteFills
  <2>1. /\ writer.at = "fill" /\ writer' = [writer EXCEPT !.at = "publish"]
        /\ buffer' = Filled(writer.block, writer.start)
        /\ UNCHANGED <<base, high_water, gap_ranges, gaps, reader>>
    BY <1>5 DEF WriteFills
  <2>2. writer \in [at : {"fill", "publish"}, block : Blocks, start : Int] /\ base \in Int
    BY <2>1, WriterIs DEF Busy
  <2>3. writer' \in Writers
    BY <2>1, <2>2 DEF Writers
  <2>4. buffer' \in [Places -> Cells]
    BY <2>1, <2>2, FilledCells DEF RingOK
  <2> QED
    BY <2>1, <2>2, <2>3, <2>4, NoneIsNoInt DEF RingOK
<1>6. CASE WritePublishes
  <2>1. /\ writer.at = "publish" /\ writer' = Idle
        /\ high_water' = Larger(writer.start, writer.block.first + Block)
        /\ UNCHANGED <<base, gap_ranges, buffer, gaps, reader>>
    BY <1>6 DEF WritePublishes
  <2>2. base \in Int /\ writer.start \in Int /\ writer.block.first \in Int
    BY <2>1, WriterIs DEF Busy
  <2>3. high_water' \in Int
    BY <1>0, <2>1, <2>2 DEF Larger
  <2> QED
    BY <2>1, <2>2, <2>3, NoneIsNoInt DEF RingOK, Writers
<1> QED
  BY <1>1, <1>2, <1>3, <1>4, <1>5, <1>6, NextIs, ChildLeavesRing DEF vars, WriterSteps

LEMMA TypeInit == Init => TypeOK
<1> SUFFICES ASSUME Init PROVE TypeOK
  OBVIOUS
<1>1. Pending \in Nat \ {0} /\ Walls \subseteq Nat
  BY RingAssumption
<1>2. ChildOK
  BY <1>1 DEF Init, ChildOK
<1>3. buffer \in [Places -> Cells]
  BY DEF Init, Places, Cells
<1>4. RingOK
  BY <1>3 DEF Init, RingOK, Writers, Readers
<1> QED
  BY <1>2, <1>4 DEF TypeOK

LEMMA TypeStep == TypeOK /\ [Next]_vars => TypeOK'
BY ChildOKStep, RingOKStep DEF TypeOK

-----------------------------------------------------------------------------
(***************************************************************************)
(* The stamps. A block is right when it is made, and carries its error     *)
(* with it through the deque, the pipe and the writer into the ring.       *)
(***************************************************************************)
Fine(b) == Abs(b.first - b.truth) <= Tolerance

AllFine(q) == \A k \in 1 .. Len(q) : Fine(q[k])

StampInv ==
  /\ AllFine(pending)
  /\ Busy => Fine(writer.block)
  /\ StampsAreTrue

LEMMA FineAppend ==
  ASSUME NEW q \in Seq(Blocks), NEW b \in Blocks, AllFine(q), Fine(b)
  PROVE  AllFine(Append(q, b))
<1>1. /\ Len(q) \in Nat /\ Len(Append(q, b)) = Len(q) + 1
      /\ \A k \in 1 .. Len(q) + 1 : Append(q, b)[k] = IF k = Len(q) + 1 THEN b ELSE q[k]
  OBVIOUS
<1>2. ASSUME NEW k \in 1 .. Len(q) + 1 PROVE Fine(Append(q, b)[k])
  <2>1. CASE k = Len(q) + 1
    BY <1>1, <2>1
  <2>2. CASE k # Len(q) + 1
    <3>1. k \in 1 .. Len(q) /\ Append(q, b)[k] = q[k]
      BY <1>1, <2>2
    <3> QED
      BY <3>1 DEF AllFine
  <2> QED
    BY <2>1, <2>2
<1> QED
  BY <1>1, <1>2 DEF AllFine

LEMMA FineTail ==
  ASSUME NEW q \in Seq(Blocks), q # << >>, AllFine(q)
  PROVE  Tail(q) \in Seq(Blocks) /\ AllFine(Tail(q)) /\ Fine(Head(q))
<1>1. /\ Tail(q) \in Seq(Blocks) /\ Len(q) \in Nat \ {0} /\ Len(Tail(q)) = Len(q) - 1
      /\ Head(q) = q[1] /\ \A k \in 1 .. Len(q) - 1 : Tail(q)[k] = q[k + 1]
  OBVIOUS
<1>2. Fine(q[1]) /\ \A k \in 1 .. Len(q) - 1 : Fine(q[k + 1])
  BY <1>1 DEF AllFine
<1> QED
  BY <1>1, <1>2 DEF AllFine

LEMMA StampStep == TypeOK /\ StampInv /\ [Next]_vars => StampInv'
<1> SUFFICES ASSUME TypeOK, StampInv, [Next]_vars PROVE StampInv'
  OBVIOUS
<1> USE DEF TypeOK
<1>0. Resync \in Nat /\ Jitter \in Nat /\ MaxDelay \in Nat /\ Tolerance \in Nat
  BY RingAssumption DEF Tolerance
<1>1. CASE ChildSteps
  <2>1. UNCHANGED <<buffer, writer>>
    BY <1>1, ChildLeavesRing DEF ring
  <2>2. (Busy => Fine(writer.block))' /\ StampsAreTrue'
    BY <2>1 DEF StampInv, StampsAreTrue, Busy, Fine
  <2>3. ASSUME NEW j \in -Jitter .. Jitter, NEW late \in 0 .. MaxDelay, OnBlock(j, late)
        PROVE  AllFine(pending')
    <3> DEFINE offset == Calibrated(wall + late)
               epoch  == adc + j + offset
               first  == Anchored(epoch)
               block  == [first |-> first, truth |-> adc + wall]
    <3>1. /\ offset \in Int /\ epoch \in Int /\ first \in Int
          /\ offset - (wall + late) <= Resync /\ (wall + late) - offset <= Resync
          /\ first - epoch <= Resync /\ epoch - first <= Resync
      BY Stamped
    <3>2. epoch = adc + j + offset /\ adc \in Int /\ wall \in Int /\ block.first = first /\ block.truth = adc + wall
      BY DEF ChildOK
    <3>3. block \in Blocks /\ pending' = Appended(pending, block)
      BY <3>1, <3>2, <2>3 DEF Blocks, OnBlock
    <3> HIDE DEF offset, epoch, first, block
    <3>4. Fine(block)
      BY <1>0, <3>1, <3>2 DEF Fine, Abs, Tolerance
    <3>5. CASE Len(pending) < Pending
      <4>1. pending' = Append(pending, block)
        BY <3>3, <3>5 DEF Appended
      <4> QED
        BY <3>3, <3>4, <4>1, FineAppend DEF ChildOK, StampInv
    <3>6. CASE ~(Len(pending) < Pending)
      <4>1. pending \in Seq(Blocks) /\ pending # << >> /\ AllFine(pending)
        BY <3>6, RingAssumption DEF ChildOK, StampInv
      <4>2. Tail(pending) \in Seq(Blocks) /\ AllFine(Tail(pending))
        BY <4>1, FineTail
      <4>3. pending' = Append(Tail(pending), block)
        BY <3>3, <3>6 DEF Appended
      <4> QED
        BY <3>3, <3>4, <4>2, <4>3, FineAppend
    <3> QED
      BY <3>5, <3>6
  <2>4. ASSUME pending' = pending PROVE AllFine(pending')
    BY <2>4 DEF StampInv
  <2>5. ASSUME pending' = << >> PROVE AllFine(pending')
    BY <2>5 DEF AllFine
  <2>6. AllFine(pending')
    BY <1>1, <2>3, <2>4, <2>5 DEF ChildSteps, Stall, ClockStep, FreshChild
  <2> QED
    BY <2>2, <2>6 DEF StampInv
<1>2. CASE WriteBegins
  <2>1. pending # << >> /\ pending' = Tail(pending) /\ buffer' = buffer
        /\ (writer' = writer \/ writer' = [at |-> "evict", block |-> Head(pending)])
    BY <1>2 DEF WriteBegins
  <2>3. Fine(Head(pending)) /\ AllFine(pending')
    BY <2>1, FineTail DEF StampInv, ChildOK
  <2>4. (Busy => Fine(writer.block))'
    BY <2>1, <2>3 DEF StampInv, Busy
  <2> QED
    BY <2>1, <2>3, <2>4 DEF StampInv, StampsAreTrue
<1>3. CASE WriteEvicts
  BY <1>3 DEF WriteEvicts, StampInv, StampsAreTrue, Busy
<1>4. CASE WriteFills
  <2>1. /\ writer.at = "fill" /\ writer' = [writer EXCEPT !.at = "publish"]
        /\ pending' = pending /\ buffer' = Filled(writer.block, writer.start)
    BY <1>4 DEF WriteFills
  <2>2. /\ Busy /\ Fine(writer.block) /\ writer.start \in Int /\ writer.block \in Blocks
        /\ writer.block.first \in Int /\ writer.block.truth \in Int
        /\ writer \in [at : {"fill", "publish"}, block : Blocks, start : Int]
    BY <2>1, WriterIs DEF Busy, StampInv
  <2>3. writer'.block = writer.block
    BY <2>1, <2>2
  <2>4. ASSUME NEW p \in DOMAIN buffer', buffer'[p] # Empty
        PROVE  Abs(buffer'[p].stamp - buffer'[p].truth) <= Tolerance
    <3>1. p \in Places /\ DOMAIN buffer = Places
      BY <2>1, <2>4 DEF Filled, Places, RingOK
    <3>5. buffer \in [Places -> Cells]
      BY DEF RingOK
    <3>6. \A q \in Places :
            \/ Filled(writer.block, writer.start)[q] = buffer[q]
            \/ \E i \in Int : Filled(writer.block, writer.start)[q]
                 = [stamp |-> i, truth |-> writer.block.truth + i - writer.block.first]
      BY <2>2, <3>5, FilledCells
    <3>4. \/ buffer'[p] = buffer[p]
          \/ \E i \in Int : buffer'[p] = [stamp |-> i, truth |-> writer.block.truth + i - writer.block.first]
      BY <2>1, <3>1, <3>6
    <3>2. CASE buffer'[p] = buffer[p]
      BY <2>4, <3>1, <3>2 DEF StampInv, StampsAreTrue
    <3>3. CASE \E i \in Int : buffer'[p] = [stamp |-> i, truth |-> writer.block.truth + i - writer.block.first]
      BY <2>2, <3>3 DEF Fine, Abs
    <3> QED
      BY <3>2, <3>3, <3>4
  <2> QED
    BY <2>1, <2>2, <2>3, <2>4 DEF StampInv, StampsAreTrue
<1>5. CASE WritePublishes
  BY <1>5 DEF WritePublishes, StampInv, StampsAreTrue, Busy, Idle
<1>6. CASE ReaderSteps \/ UNCHANGED vars
  <2>1. UNCHANGED <<pending, buffer, writer>>
    BY <1>6, ReaderLeavesRest DEF vars, ring
  <2> QED
    BY <2>1 DEF StampInv, StampsAreTrue, Busy
<1> QED
  BY <1>1, <1>2, <1>3, <1>4, <1>5, <1>6, NextIs DEF WriterSteps

\* No sample in the ring is stamped further from its true time than one
\* calibration and one anchor allow (audio_rx.py), whatever the device loses,
\* the wall clock does and the child becomes of.
THEOREM RingStampsAreTrue == Spec => []StampsAreTrue
<1>1. Init => StampInv
  BY DEF Init, StampInv, AllFine, StampsAreTrue, Busy, Idle
<1>2. StampInv => StampsAreTrue
  BY DEF StampInv
<1> QED
  BY <1>1, <1>2, TypeInit, TypeStep, StampStep, PTL DEF Spec

-----------------------------------------------------------------------------
(***************************************************************************)
(* The window, and what it holds. Every sample from `base` to `high_water` *)
(* lies in a known gap or at its own place; the writer keeps that true     *)
(* between its steps because it evicts before it fills and fills before it *)
(* publishes.                                                              *)
(***************************************************************************)
Window ==
  base # None =>
    /\ writer.at \in {"idle", "evict"} => base <= high_water /\ high_water - base <= Capacity
    /\ writer.at = "evict" => Ends > base
    /\ writer.at \in {"fill", "publish"} =>
         /\ writer.start = Larger(writer.block.first, high_water)
         /\ base <= writer.start /\ Larger(writer.start, Ends) - base <= Capacity

InGap(i) == \E g \in gap_ranges : g[1] <= i /\ i < g[2]

\* What is readable; what the block in hand leapt over; what it has filled.
Readable == base # None => \A i \in base .. high_water - 1 : InGap(i) \/ At(i).stamp = i
Leapt    == Busy => \A i \in Larger(high_water, base) .. writer.block.first - 1 : InGap(i)
Written  == writer.at = "publish" => \A i \in writer.start .. Ends - 1 : At(i).stamp = i

Content == Readable /\ Leapt /\ Written

\* What the reader has checked of its slot stays true until it copies.
Checked ==
  /\ reader.at \in {"gaps", "gather"} => LastOf(reader.slot) <= high_water
  /\ reader.at = "gather" => ~Overlaps(reader.slot)

\* Where an eviction leaves the window.
LEMMA EvictsTo ==
  ASSUME TypeOK, Window, WriteEvicts
  PROVE  /\ writer.at = "evict" /\ base \in Int /\ base' \in Int /\ high_water \in Int
         /\ writer.block.first \in Int /\ Ends \in Int
         /\ writer'.at = "fill" /\ writer'.block = writer.block
         /\ writer'.start = Larger(writer.block.first, high_water)
         /\ base <= base' /\ base' <= writer'.start /\ Larger(writer'.start, Ends) - base' <= Capacity
         /\ base <= high_water
         /\ (gap_ranges' = gap_ranges /\ base' = base) \/ gap_ranges' = Clipped(base')
         /\ UNCHANGED <<high_water, buffer, reader>>
<1>1. /\ writer.at = "evict" /\ UNCHANGED <<high_water, buffer, reader>>
      /\ writer' = [at |-> "fill", block |-> writer.block, start |-> StartOf(writer.block.first, base)]
      /\ IF NewHigh - base > Capacity
         THEN base' = NewHigh - Capacity /\ gap_ranges' = Clipped(NewHigh - Capacity)
         ELSE UNCHANGED <<base, gap_ranges>>
  BY DEF WriteEvicts
<1>2. /\ base \in Int /\ writer.block.first \in Int /\ Ends \in Int /\ high_water \in Int
      /\ Ends = writer.block.first + Block
  BY <1>1, WriterIs DEF Busy, TypeOK, RingOK, Ends
<1>3. base <= high_water /\ high_water - base <= Capacity
  BY <1>1, <1>2, NoneIsNoInt DEF Window
<1>4. Capacity \in Nat /\ Block \in Nat /\ Block <= Capacity
  BY RingAssumption
<1> DEFINE start == StartOf(writer.block.first, base)
<1>5. start = Larger(writer.block.first, high_water) /\ start \in Int
      /\ NewHigh = start + Larger(Ends - start, 0)
  <2>1. start = Larger(writer.block.first, high_water) /\ start \in Int
    BY <1>2, <1>3 DEF StartOf, Larger
  <2>2. NewHigh = start + Larger(writer.block.first + Block - start, 0)
    BY DEF NewHigh
  <2> QED
    <3>1. writer.block.first + Block - start = Ends - start
      BY <1>2, <1>4, <2>1
    <3> QED
      BY <2>1, <2>2, <3>1
<1> HIDE DEF start
<1>6. NewHigh = Larger(start, Ends) /\ NewHigh \in Int
  BY <1>2, <1>5 DEF Larger
<1>7. writer'.start = start
  BY <1>1 DEF start
<1>8. writer.block.first <= start
  BY <1>2, <1>5 DEF Larger
<1>9. base <= start
  BY <1>2, <1>3, <1>5 DEF Larger
<1>10. CASE NewHigh - base > Capacity
  <2>1. base' = NewHigh - Capacity /\ gap_ranges' = Clipped(base')
    BY <1>1, <1>10
  <2>2. NewHigh - Capacity <= start
    BY <1>2, <1>4, <1>5, <1>6, <1>8 DEF Larger
  <2>3. base' \in Int /\ base <= base' /\ base' <= start /\ NewHigh - base' <= Capacity
    BY <1>2, <1>4, <1>6, <1>10, <2>1, <2>2
  <2> QED
    BY <1>1, <1>2, <1>3, <1>5, <1>6, <1>7, <2>1, <2>3
<1>11. CASE ~(NewHigh - base > Capacity)
  <2>1. base' = base /\ gap_ranges' = gap_ranges
    BY <1>1, <1>11
  <2>2. NewHigh - base' <= Capacity
    BY <1>2, <1>4, <1>6, <1>11, <2>1
  <2> QED
    BY <1>1, <1>2, <1>3, <1>5, <1>6, <1>7, <1>9, <2>1, <2>2
<1> QED
  BY <1>10, <1>11

\* What the first step of a write does: it lets an old block go, or takes the
\* block in hand and records the gap before it.
LEMMA Begins ==
  ASSUME TypeOK, WriteBegins
  PROVE  LET block == Head(pending)
             h == IF base = None THEN block.first ELSE high_water
         IN /\ writer = Idle /\ block \in Blocks /\ block.first \in Int /\ high_water' = h
            /\ base' = (IF base = None THEN block.first ELSE base)
            /\ UNCHANGED <<buffer, reader>>
            /\ \/ base # None /\ block.first + Block <= base /\ writer' = writer
                  /\ UNCHANGED <<base, high_water, gap_ranges, gaps>>
               \/ /\ writer' = [at |-> "evict", block |-> block] /\ block.first + Block > base'
                  /\ \/ block.first > h /\ gap_ranges' = gap_ranges \cup {<<h, block.first>>}
                        /\ gaps' = gaps + 1
                     \/ block.first <= h /\ UNCHANGED <<gap_ranges, gaps>>
<1> DEFINE block == Head(pending)
           b == IF base = None THEN block.first ELSE base
           h == IF base = None THEN block.first ELSE high_water
<1>1. block \in Blocks
  BY DEF WriteBegins, TypeOK, ChildOK
<1>2. block.first \in Int /\ b \in Int /\ h \in Int /\ Block \in Nat \ {0}
  BY <1>1, RingAssumption DEF Blocks, TypeOK, RingOK
<1>3. /\ writer = Idle /\ base' = b /\ high_water' = h /\ UNCHANGED <<buffer, reader>>
      /\ IF block.first + Block <= b
         THEN UNCHANGED <<gap_ranges, gaps, writer>>
         ELSE /\ writer' = [at |-> "evict", block |-> block]
              /\ IF block.first > h
                 THEN gap_ranges' = gap_ranges \cup {<<h, block.first>>} /\ gaps' = gaps + 1
                 ELSE UNCHANGED <<gap_ranges, gaps>>
  BY DEF WriteBegins
<1>4. block.first + Block <= b => base # None /\ b = base /\ h = high_water
  BY <1>2
<1>5. CASE block.first + Block <= b
  BY <1>1, <1>2, <1>3, <1>4, <1>5
<1>6. CASE ~(block.first + Block <= b)
  <2>1. block.first + Block > base'
    BY <1>2, <1>3, <1>6
  <2>2. writer' = [at |-> "evict", block |-> block]
    BY <1>3, <1>6
  <2>3. \/ block.first > h /\ gap_ranges' = gap_ranges \cup {<<h, block.first>>} /\ gaps' = gaps + 1
        \/ block.first <= h /\ UNCHANGED <<gap_ranges, gaps>>
    BY <1>2, <1>3, <1>6
  <2> QED
    BY <1>1, <1>2, <1>3, <2>1, <2>2, <2>3
<1> QED
  BY <1>5, <1>6

\* What the last step of a write does.
LEMMA Publishes ==
  ASSUME TypeOK, Window, WritePublishes
  PROVE  /\ writer.at = "publish" /\ writer' = Idle /\ Busy
         /\ base \in Int /\ high_water \in Int /\ writer.start \in Int /\ Ends \in Int
         /\ writer.block.first \in Int
         /\ writer.start = Larger(writer.block.first, high_water)
         /\ base <= writer.start /\ Larger(writer.start, Ends) - base <= Capacity
         /\ high_water' = Larger(writer.start, Ends)
         /\ UNCHANGED <<base, gap_ranges, buffer, reader>>
<1>1. /\ writer.at = "publish" /\ writer' = Idle /\ high_water' = Larger(writer.start, Ends)
      /\ UNCHANGED <<base, gap_ranges, buffer, reader>>
  BY DEF WritePublishes, Ends
<1>2. /\ Busy /\ base \in Int /\ writer.start \in Int /\ Ends \in Int /\ high_water \in Int
      /\ writer.block.first \in Int
  BY <1>1, WriterIs DEF Busy, TypeOK, RingOK
<1>3. base # None
  BY <1>2, NoneIsNoInt
<1> QED
  BY <1>1, <1>2, <1>3 DEF Window

\* What the copy of the block in hand into the ring does.
LEMMA Fills ==
  ASSUME TypeOK, Window, WriteFills
  PROVE  /\ writer.at = "fill" /\ writer'.at = "publish"
         /\ writer'.block = writer.block /\ writer'.start = writer.start /\ Busy
         /\ base \in Int /\ high_water \in Int /\ writer.start \in Int /\ Ends \in Int
         /\ writer.block.first \in Int
         /\ writer.start = Larger(writer.block.first, high_water)
         /\ base <= writer.start /\ Larger(writer.start, Ends) - base <= Capacity
         /\ \A i \in writer.start .. Ends - 1 : At(i)'.stamp = i
         /\ \A i \in base .. writer.start - 1 : At(i)' = At(i)
         /\ UNCHANGED <<base, high_water, gap_ranges, reader>>
<1>1. /\ writer.at = "fill" /\ writer' = [writer EXCEPT !.at = "publish"]
      /\ buffer' = Filled(writer.block, writer.start)
      /\ UNCHANGED <<base, high_water, gap_ranges, reader>>
  BY DEF WriteFills
<1>2. /\ Busy /\ base \in Int /\ writer.start \in Int /\ Ends \in Int /\ high_water \in Int
      /\ writer.block.first \in Int /\ writer.block \in Blocks
      /\ writer \in [at : {"fill", "publish"}, block : Blocks, start : Int]
      /\ buffer \in [Places -> Cells]
  BY <1>1, WriterIs DEF Busy, TypeOK, RingOK
<1>3. /\ writer.start = Larger(writer.block.first, high_water)
      /\ base <= writer.start /\ Larger(writer.start, Ends) - base <= Capacity
  BY <1>1, <1>2, NoneIsNoInt DEF Window
<1>4. writer.block.first <= writer.start
  BY <1>2, <1>3 DEF Larger
<1>5. /\ \A i \in writer.start .. writer.block.first + Block - 1 :
           Filled(writer.block, writer.start)[i % Capacity].stamp = i
      /\ \A i \in Int : i < writer.start /\ writer.block.first + Block - i <= Capacity
           => Filled(writer.block, writer.start)[i % Capacity] = buffer[i % Capacity]
  BY <1>2, <1>4, FilledHolds
<1>7. Capacity \in Nat /\ Block \in Nat
  BY RingAssumption
<1>10. \A i : At(i)' = Filled(writer.block, writer.start)[i % Capacity] /\ At(i) = buffer[i % Capacity]
  BY <1>1 DEF At
<1>6. ASSUME NEW i \in writer.start .. Ends - 1 PROVE At(i)'.stamp = i
  <2>1. i \in writer.start .. writer.block.first + Block - 1
    BY <1>2, <1>7 DEF Ends
  <2>2. Filled(writer.block, writer.start)[i % Capacity].stamp = i
    BY <1>5, <2>1
  <2> QED
    BY <1>10, <2>2
<1>8. ASSUME NEW i \in base .. writer.start - 1 PROVE At(i)' = At(i)
  <2>1. i \in Int /\ i < writer.start /\ Ends - i <= Capacity
    BY <1>2, <1>3, <1>7 DEF Larger
  <2>2. Filled(writer.block, writer.start)[i % Capacity] = buffer[i % Capacity]
    BY <1>2, <1>5, <1>7, <2>1 DEF Ends
  <2> QED
    BY <1>10, <2>2
<1>9. writer'.at = "publish" /\ writer'.block = writer.block /\ writer'.start = writer.start
  BY <1>1, <1>2
<1> QED
  BY <1>1, <1>2, <1>3, <1>6, <1>8, <1>9

LEMMA WindowStep == TypeOK /\ Window /\ [Next]_vars => Window'
<1> SUFFICES ASSUME TypeOK, Window, [Next]_vars PROVE Window'
  OBVIOUS
<1>1. CASE UNCHANGED <<ring, writer, reader>>
  BY <1>1 DEF ring, Window, Ends
<1>2. CASE ReaderSteps
  BY <1>2, ReaderLeavesRest DEF ring, Window, Ends
<1>3. CASE WriteBegins
  <2> DEFINE block == Head(pending)
             h == IF base = None THEN block.first ELSE high_water
  <2>1. /\ writer = Idle /\ block \in Blocks /\ block.first \in Int /\ high_water' = h
        /\ base' = (IF base = None THEN block.first ELSE base)
        /\ \/ base # None /\ writer' = writer /\ UNCHANGED <<base, high_water>>
           \/ writer' = [at |-> "evict", block |-> block] /\ block.first + Block > base'
    BY <1>3, Begins
  <2> HIDE DEF block
  <2>2. writer.at = "idle"
    BY <2>1 DEF Idle
  <2>3. base' \in Int /\ high_water' \in Int /\ Capacity \in Nat
    BY <2>1, RingAssumption DEF TypeOK, RingOK
  <2>4. base' <= high_water' /\ high_water' - base' <= Capacity
    BY <2>1, <2>2, <2>3 DEF Window
  <2>5. writer'.at \in {"idle", "evict"} /\ (writer'.at = "evict" => Ends' > base')
    BY <2>1, <2>2 DEF Ends
  <2> QED
    BY <2>4, <2>5 DEF Window
<1>4. CASE WriteEvicts
  <2>1. Ends' = Ends
    BY <1>4, EvictsTo DEF Ends
  <2> QED
    BY <1>4, <2>1, EvictsTo DEF Window
<1>5. CASE WriteFills
  <2>1. Ends' = Ends
    BY <1>5, Fills DEF Ends
  <2> QED
    BY <1>5, <2>1, Fills DEF Window
<1>6. CASE WritePublishes
  <2>1. writer'.at = "idle" /\ base' <= high_water' /\ high_water' - base' <= Capacity
    BY <1>6, Publishes DEF Idle, Larger
  <2> QED
    BY <2>1 DEF Window
<1> QED
  BY <1>1, <1>2, <1>3, <1>4, <1>5, <1>6, NextIs, ChildLeavesRing DEF vars, WriterSteps

\* A gap is only lost where it is evicted.
LEMMA EvictionKeepsGaps ==
  ASSUME TypeOK, Window, WriteEvicts, NEW i \in Int, i >= base', InGap(i)
  PROVE  InGap(i)'
<1>1. /\ base' \in Int /\ gap_ranges \subseteq Int \X Int /\ \A g \in gap_ranges : g[1] < g[2]
      /\ gap_ranges' = gap_ranges \/ gap_ranges' = Clipped(base')
  BY EvictsTo DEF TypeOK, RingOK
<1>2. PICK x \in gap_ranges : x[1] <= i /\ i < x[2]
  BY DEF InGap
<1>3. CASE gap_ranges' = gap_ranges
  BY <1>2, <1>3 DEF InGap
<1>4. CASE gap_ranges' = Clipped(base')
  <2>1. x[1] \in Int /\ x[2] \in Int /\ x[2] > base'
    BY <1>1, <1>2
  <2> DEFINE g == <<Larger(x[1], base'), x[2]>>
  <2>2. g \in gap_ranges'
    BY <1>1, <1>4, <2>1, ClippedGaps
  <2>3. g[1] <= i /\ i < g[2]
    BY <1>1, <1>2, <2>1 DEF Larger
  <2> QED
    BY <2>2, <2>3 DEF InGap
<1> QED
  BY <1>1, <1>3, <1>4

LEMMA ContentStep == TypeOK /\ Window /\ Content /\ [Next]_vars => Content'
<1> SUFFICES ASSUME TypeOK, Window, Content, [Next]_vars PROVE Content'
  OBVIOUS
<1>1. CASE UNCHANGED <<ring, writer, reader>>
  BY <1>1 DEF ring, Content, Readable, Leapt, Written, Busy, Ends, InGap, At
<1>2. CASE ReaderSteps
  BY <1>2, ReaderLeavesRest DEF ring, Content, Readable, Leapt, Written, Busy, Ends, InGap, At
<1>3. CASE WriteBegins
  <2> DEFINE block == Head(pending)
             h == IF base = None THEN block.first ELSE high_water
  <2>1. /\ writer = Idle /\ block \in Blocks /\ block.first \in Int /\ high_water' = h
        /\ base' = (IF base = None THEN block.first ELSE base) /\ buffer' = buffer
        /\ \/ base # None /\ writer' = writer /\ UNCHANGED <<base, high_water, gap_ranges>>
           \/ /\ writer' = [at |-> "evict", block |-> block]
              /\ \/ block.first > h /\ gap_ranges' = gap_ranges \cup {<<h, block.first>>}
                 \/ block.first <= h /\ UNCHANGED gap_ranges
    BY <1>3, Begins
  <2> HIDE DEF block
  <2>2. /\ writer.at = "idle" /\ base' \in Int /\ high_water' \in Int
        /\ base # None => base \in Int /\ base <= high_water
    BY <2>1 DEF Idle, TypeOK, RingOK, Window
  <2>3. \A i : (InGap(i) => InGap(i)') /\ At(i)' = At(i)
    BY <2>1 DEF InGap, At
  <2>4. Readable'
    <3>1. CASE base = None
      BY <2>1, <2>2, <3>1 DEF Readable
    <3>2. CASE base # None
      <4>1. base' = base /\ high_water' = high_water
        BY <2>1, <3>2
      <4>2. \A i \in base .. high_water - 1 : InGap(i) \/ At(i).stamp = i
        BY <3>2 DEF Content, Readable
      <4> QED
        BY <2>3, <4>1, <4>2 DEF Readable
    <3> QED
      BY <3>1, <3>2
  <2>5. Leapt'
    <3>1. CASE writer' = writer
      BY <2>2, <3>1 DEF Leapt, Busy
    <3>2. CASE writer' = [at |-> "evict", block |-> block]
      <4>1. ASSUME NEW i \in Larger(h, base') .. block.first - 1 PROVE InGap(i)'
        <5>1. i \in Int /\ h <= i /\ i < block.first /\ h \in Int
          BY <2>1, <2>2, <4>1 DEF Larger
        <5>2. <<h, block.first>> \in gap_ranges'
          <6>1. writer' # writer
            BY <2>2, <3>2
          <6> QED
            BY <2>1, <5>1, <6>1
        <5> QED
          BY <5>1, <5>2 DEF InGap
      <4>2. writer'.block = block /\ high_water' = h
        BY <2>1, <3>2
      <4> HIDE DEF h
      <4> QED
        BY <4>1, <4>2 DEF Leapt
    <3> QED
      BY <2>1, <3>1, <3>2
  <2>6. Written'
    BY <2>1, <2>2 DEF Written
  <2> QED
    BY <2>4, <2>5, <2>6 DEF Content
<1>4. CASE WriteEvicts
  <2>1. /\ writer.at = "evict" /\ base \in Int /\ base' \in Int /\ high_water \in Int
        /\ writer.block.first \in Int /\ writer'.at = "fill" /\ writer'.block = writer.block
        /\ base <= base' /\ UNCHANGED <<high_water, buffer>>
    BY <1>4, EvictsTo
  <2>2. ASSUME NEW i \in base' .. high_water - 1 PROVE (InGap(i) \/ At(i).stamp = i)'
    <3>1. i \in base .. high_water - 1 /\ i \in Int /\ i >= base'
      BY <2>1
    <3>2. InGap(i) \/ At(i).stamp = i
      BY <2>1, <3>1, NoneIsNoInt DEF Content, Readable
    <3>3. At(i)' = At(i)
      BY <2>1 DEF At
    <3> QED
      BY <1>4, <3>1, <3>2, <3>3, EvictionKeepsGaps
  <2>3. ASSUME NEW i \in Larger(high_water, base') .. writer.block.first - 1 PROVE InGap(i)'
    <3>1. i \in Larger(high_water, base) .. writer.block.first - 1 /\ i \in Int /\ i >= base'
      BY <2>1 DEF Larger
    <3>2. InGap(i)
      BY <2>1, <3>1 DEF Content, Leapt, Busy
    <3> QED
      BY <1>4, <3>1, <3>2, EvictionKeepsGaps
  <2>4. Readable' /\ Leapt' /\ Written'
    BY <2>1, <2>2, <2>3 DEF Readable, Leapt, Written
  <2> QED
    BY <2>4 DEF Content
<1>5. CASE WriteFills
  <2>1. /\ writer.at = "fill" /\ writer'.at = "publish"
        /\ writer'.block = writer.block /\ writer'.start = writer.start /\ Busy
        /\ base \in Int /\ high_water \in Int /\ writer.start \in Int /\ writer.block.first \in Int
        /\ writer.start = Larger(writer.block.first, high_water)
        /\ \A i \in writer.start .. Ends - 1 : At(i)'.stamp = i
        /\ \A i \in base .. writer.start - 1 : At(i)' = At(i)
        /\ UNCHANGED <<base, high_water, gap_ranges>>
    BY <1>5, Fills
  <2>2. \A i : InGap(i)' = InGap(i)
    BY <2>1 DEF InGap
  <2>3. ASSUME NEW i \in base .. high_water - 1 PROVE InGap(i)' \/ At(i)'.stamp = i
    <3>1. i \in base .. writer.start - 1
      BY <2>1 DEF Larger
    <3>2. InGap(i) \/ At(i).stamp = i
      BY <2>1, NoneIsNoInt DEF Content, Readable
    <3> QED
      BY <2>1, <2>2, <3>1, <3>2
  <2>4. Readable'
    BY <2>1, <2>3 DEF Readable
  <2>5. Leapt'
    BY <2>1, <2>2 DEF Content, Leapt
  <2>6. Written'
    BY <2>1 DEF Written, Ends
  <2> QED
    BY <2>4, <2>5, <2>6 DEF Content
<1>6. CASE WritePublishes
  <2>1. /\ writer.at = "publish" /\ writer' = Idle /\ Busy
        /\ base \in Int /\ high_water \in Int /\ writer.start \in Int /\ Ends \in Int
        /\ writer.block.first \in Int
        /\ writer.start = Larger(writer.block.first, high_water)
        /\ base <= writer.start
        /\ high_water' = Larger(writer.start, Ends)
        /\ UNCHANGED <<base, gap_ranges, buffer>>
    BY <1>6, Publishes
  <2>2. \A i : InGap(i)' = InGap(i) /\ At(i)' = At(i)
    BY <2>1 DEF InGap, At
  <2>3. ASSUME NEW i \in base .. high_water' - 1 PROVE InGap(i)' \/ At(i)'.stamp = i
    <3>1. CASE i < high_water
      BY <2>1, <2>2, <3>1, NoneIsNoInt DEF Content, Readable
    <3>2. CASE i >= writer.start
      <4>1. i \in writer.start .. Ends - 1
        BY <2>1, <3>2 DEF Larger
      <4> QED
        BY <2>1, <2>2, <4>1 DEF Content, Written
    <3>3. CASE high_water <= i /\ i < writer.start
      <4>1. i \in Larger(high_water, base) .. writer.block.first - 1
        BY <2>1, <3>3 DEF Larger
      <4> QED
        BY <2>1, <2>2, <4>1 DEF Content, Leapt
    <3> QED
      BY <2>1, <3>1, <3>2, <3>3 DEF Larger
  <2>4. Readable'
    BY <2>1, <2>3 DEF Readable
  <2>5. Leapt' /\ Written'
    BY <2>1 DEF Leapt, Written, Busy, Idle
  <2> QED
    BY <2>4, <2>5 DEF Content
<1> QED
  BY <1>1, <1>2, <1>3, <1>4, <1>5, <1>6, NextIs, ChildLeavesRing DEF vars, WriterSteps

LEMMA SlotEnds == \A s \in Int : FirstOf(s) \in Int /\ LastOf(s) \in Int
BY RingAssumption DEF FirstOf, LastOf

LEMMA CheckedStep == TypeOK /\ Window /\ Checked /\ [Next]_vars => Checked'
<1> SUFFICES ASSUME TypeOK, Window, Checked, [Next]_vars PROVE Checked'
  OBVIOUS
<1>0. reader.at # "idle" => reader.slot \in Int /\ base \in Int
                            /\ FirstOf(reader.slot) \in Int /\ LastOf(reader.slot) \in Int
  BY ReaderIs, SlotEnds DEF TypeOK, Idle
<1>1. CASE UNCHANGED <<ring, writer, reader>>
  BY <1>1 DEF ring, Checked, Overlaps
<1>2. CASE ReaderSteps
  <2>1. UNCHANGED <<high_water, gap_ranges>>
    BY <1>2, ReaderLeavesRest DEF ring
  <2>2. \/ reader'.at \in {"idle", "high_water"}
        \/ /\ reader.at = "high_water" /\ LastOf(reader.slot) <= high_water
           /\ reader' = [reader EXCEPT !.at = "gaps"]
        \/ /\ reader.at = "gaps" /\ ~Overlaps(reader.slot)
           /\ reader' = [reader EXCEPT !.at = "gather"]
    <3>1. reader.at = "high_water" /\ ~(LastOf(reader.slot) > high_water) => LastOf(reader.slot) <= high_water
      BY <1>0 DEF TypeOK, RingOK
    <3> QED
      BY <1>2, <3>1
      DEF ReaderSteps, ReadBegins, ReadChecksEnd, ReadChecksGaps, ReadGathers, Idle
  <2>3. reader.at # "idle" => \A a : [reader EXCEPT !.at = a].at = a
                                     /\ [reader EXCEPT !.at = a].slot = reader.slot
    BY DEF TypeOK, RingOK, Readers, Idle
  <2>4. \A s : Overlaps(s)' = Overlaps(s)
    BY <2>1 DEF Overlaps
  <2> QED
    BY <2>1, <2>2, <2>3, <2>4 DEF Checked
<1>3. CASE WriteBegins
  <2> DEFINE block == Head(pending)
             h == IF base = None THEN block.first ELSE high_water
  <2>1. /\ block.first \in Int /\ high_water' = h /\ reader' = reader
        /\ \/ gap_ranges' = gap_ranges
           \/ gap_ranges' = gap_ranges \cup {<<h, block.first>>}
    BY <1>3, Begins
  <2> HIDE DEF block
  <2>2. ASSUME reader.at \in {"gaps", "gather"}
        PROVE  LastOf(reader.slot) <= high_water' /\ h = high_water /\ h \in Int
    <3>1. base # None
      BY <1>0, <2>2, NoneIsNoInt
    <3> QED
      BY <2>1, <2>2, <3>1 DEF Checked, TypeOK, RingOK
  <2>3. ASSUME reader.at = "gather", Overlaps(reader.slot)' PROVE FALSE
    <3>1. PICK g \in gap_ranges' : FirstOf(reader.slot) < g[2] /\ LastOf(reader.slot) > g[1]
      BY <2>1, <2>3 DEF Overlaps
    <3>2. LastOf(reader.slot) <= h /\ h \in Int /\ LastOf(reader.slot) \in Int
      BY <1>0, <2>1, <2>2, <2>3
    <3>3. g # <<h, block.first>>
      BY <3>1, <3>2
    <3>4. g \in gap_ranges
      BY <2>1, <3>3
    <3> QED
      BY <2>3, <3>1, <3>4 DEF Checked, Overlaps
  <2> QED
    BY <2>1, <2>2, <2>3 DEF Checked
<1>4. CASE WriteEvicts
  <2>1. /\ base' \in Int /\ UNCHANGED <<high_water, reader>>
        /\ gap_ranges' = gap_ranges \/ gap_ranges' = Clipped(base')
    BY <1>4, EvictsTo
  <2>2. ASSUME reader.at = "gather", Overlaps(reader.slot)' PROVE FALSE
    <3>1. PICK g \in gap_ranges' : FirstOf(reader.slot) < g[2] /\ LastOf(reader.slot) > g[1]
      BY <2>1, <2>2 DEF Overlaps
    <3>2. /\ gap_ranges \subseteq Int \X Int /\ \A x \in gap_ranges : x[1] < x[2]
      BY DEF TypeOK, RingOK
    <3>3. /\ Clipped(base') \subseteq Int \X Int
          /\ \A y \in Clipped(base') : \E x \in gap_ranges : x[1] <= y[1] /\ x[2] = y[2]
      BY <2>1, <3>2, ClippedGaps
    <3>4. PICK x \in gap_ranges : x[1] <= g[1] /\ x[2] = g[2]
      BY <2>1, <3>2, <3>3, <3>1
    <3>5. FirstOf(reader.slot) < x[2] /\ LastOf(reader.slot) > x[1]
      BY <1>0, <2>1, <2>2, <3>1, <3>2, <3>3, <3>4
    <3> QED
      BY <2>2, <3>5 DEF Checked, Overlaps
  <2> QED
    BY <2>1, <2>2 DEF Checked
<1>5. CASE WriteFills
  BY <1>5, Fills DEF Checked, Overlaps
<1>6. CASE WritePublishes
  <2>1. /\ high_water \in Int /\ high_water' \in Int /\ high_water <= high_water'
        /\ UNCHANGED <<reader, gap_ranges>>
    BY <1>6, Publishes DEF Larger
  <2>2. reader.at \in {"gaps", "gather"} => LastOf(reader.slot) <= high_water'
    BY <1>0, <2>1 DEF Checked
  <2> QED
    BY <2>1, <2>2 DEF Checked, Overlaps
<1> QED
  BY <1>1, <1>2, <1>3, <1>4, <1>5, <1>6, NextIs, ChildLeavesRing DEF vars, WriterSteps

LEMMA WindowInit == Init => Window /\ Content /\ Checked
BY DEF Init, Window, Content, Readable, Leapt, Written, Checked, Busy, Idle

\* Whatever the writer does between the checks of read_slot() and its copy
\* (audio_rx.py), the slot it returns holds the samples of its own indexes,
\* unless the start of the slot was given up in between.
THEOREM SlotReadIsItsOwn == Spec => ServesOwn
<1>1. ASSUME TypeOK, Content, Checked, ReadGathers
      PROVE  base > FirstOf(reader.slot)
             \/ \A i \in FirstOf(reader.slot) .. LastOf(reader.slot) - 1 : At(i).stamp = i
  <2>1. /\ reader.at = "gather" /\ base \in Int /\ high_water \in Int
        /\ FirstOf(reader.slot) \in Int /\ LastOf(reader.slot) \in Int
        /\ LastOf(reader.slot) <= high_water /\ ~Overlaps(reader.slot)
    BY <1>1, ReaderIs, SlotEnds DEF ReadGathers, TypeOK, RingOK, Checked, Idle
  <2>2. ASSUME base <= FirstOf(reader.slot), NEW i \in FirstOf(reader.slot) .. LastOf(reader.slot) - 1
        PROVE  At(i).stamp = i
    <3>1. i \in base .. high_water - 1
      BY <2>1, <2>2
    <3>2. ~InGap(i)
      <4> SUFFICES ASSUME NEW g \in gap_ranges, g[1] <= i, i < g[2] PROVE FALSE
        BY DEF InGap
      <4>3. i \in Int
        BY <2>1
      <4>4. gap_ranges \subseteq Int \X Int
        BY <1>1 DEF TypeOK, RingOK
      <4>1. g[1] \in Int /\ g[2] \in Int /\ i \in Int
        BY <4>3, <4>4
      <4>2. FirstOf(reader.slot) < g[2] /\ LastOf(reader.slot) > g[1]
        BY <2>1, <4>1
      <4> QED
        BY <2>1, <4>2 DEF Overlaps
    <3> QED
      BY <1>1, <2>1, <3>1, <3>2, NoneIsNoInt DEF Content, Readable
  <2> QED
    BY <2>1, <2>2
<1>2. TypeOK /\ Content /\ Checked =>
        (ReadGathers => \/ base > FirstOf(reader.slot)
                        \/ \A i \in FirstOf(reader.slot) .. LastOf(reader.slot) - 1 : At(i).stamp = i)
  BY <1>1
<1> QED
  BY <1>2, TypeInit, WindowInit, TypeStep, WindowStep, ContentStep, CheckedStep, PTL DEF Spec, ServesOwn

\* The window is never longer than the ring, and no gap is empty or turned
\* round (UtcRing.write() of audio_rx.py).
THEOREM WindowFitsRing == Spec => []RingTypeOK
<1>1. TypeOK /\ Window => RingTypeOK
  BY DEF TypeOK, ChildOK, RingOK, Window, RingTypeOK, Idle
<1> QED
  BY <1>1, TypeInit, WindowInit, TypeStep, WindowStep, PTL DEF Spec

-----------------------------------------------------------------------------
(***************************************************************************)
(* Jitter alone. While nothing is lost and no clock is set, the calibration *)
(* is kept, each block is stamped where the last one ends, and the blocks  *)
(* on their way continue the ring.                                         *)
(***************************************************************************)
Uncalibrated == adc_offset = None /\ next_epoch = None /\ pending = << >> /\ base = None

Steady ==
  /\ adc_offset # None /\ next_epoch # None
  /\ wall <= adc_offset /\ adc_offset <= wall + MaxDelay
  /\ next_epoch - (adc + adc_offset) <= Jitter /\ (adc + adc_offset) - next_epoch <= Jitter

InARow(q) == \A k \in 1 .. Len(q) - 1 : q[k + 1].first = q[k].first + Block

\* Where the ring ends once the block in hand is in it, and where the next
\* block to be written begins.
End     == IF Busy THEN Ends ELSE high_water
Onwards == IF pending = << >> THEN next_epoch ELSE pending[1].first

Joined ==
  /\ InARow(pending) /\ (pending # << >> => pending[Len(pending)].first + Block = next_epoch)
  /\ base # None => End = Onwards
  /\ Busy => writer.block.first = high_water

Chain == ~disturbed => gaps = 0 /\ (Uncalibrated \/ (Steady /\ Joined))

LEMMA RowAppend ==
  ASSUME NEW q \in Seq(Blocks), NEW b \in Blocks, InARow(q),
         q # << >> => q[Len(q)].first + Block = b.first
  PROVE  /\ InARow(Append(q, b)) /\ Append(q, b)[Len(Append(q, b))] = b /\ Append(q, b) # << >>
         /\ Append(q, b)[1] = IF q = << >> THEN b ELSE q[1]
<1>1. /\ Len(q) \in Nat /\ Len(Append(q, b)) = Len(q) + 1 /\ (q = << >> <=> Len(q) = 0)
      /\ \A k \in 1 .. Len(q) + 1 : Append(q, b)[k] = IF k = Len(q) + 1 THEN b ELSE q[k]
  OBVIOUS
<1>2. ASSUME NEW k \in 1 .. Len(q)
      PROVE  Append(q, b)[k + 1].first = Append(q, b)[k].first + Block
  <2>1. Append(q, b)[k] = q[k] /\ q # << >>
    BY <1>1
  <2>2. CASE k = Len(q)
    BY <1>1, <2>1, <2>2
  <2>3. CASE k # Len(q)
    <3>1. k \in 1 .. Len(q) - 1 /\ Append(q, b)[k + 1] = q[k + 1]
      BY <1>1, <2>3
    <3> QED
      BY <2>1, <3>1 DEF InARow
  <2> QED
    BY <2>2, <2>3
<1>3. InARow(Append(q, b))
  BY <1>1, <1>2 DEF InARow
<1>4. 1 \in 1 .. Len(q) + 1 /\ Len(q) + 1 \in 1 .. Len(q) + 1 /\ (1 = Len(q) + 1 <=> q = << >>)
  BY <1>1
<1>5. Append(q, b) # << >>
  OBVIOUS
<1> QED
  BY <1>1, <1>3, <1>4, <1>5

LEMMA RowTail ==
  ASSUME NEW q \in Seq(Blocks), q # << >>, InARow(q)
  PROVE  /\ Head(q) = q[1] /\ InARow(Tail(q))
         /\ Tail(q) = << >> => Len(q) = 1
         /\ Tail(q) # << >> => /\ Tail(q)[1].first = q[1].first + Block
                               /\ Tail(q)[Len(Tail(q))] = q[Len(q)]
<1>4. /\ Tail(q) \in Seq(Blocks) /\ Len(q) \in Nat \ {0} /\ Len(Tail(q)) = Len(q) - 1
      /\ Head(q) = q[1] /\ \A k \in 1 .. Len(q) - 1 : Tail(q)[k] = q[k + 1]
  OBVIOUS
<1>5. Tail(q) = << >> <=> Len(Tail(q)) = 0
  BY <1>4, EmptySeq
<1>1. /\ Tail(q) \in Seq(Blocks) /\ Len(q) \in Nat \ {0} /\ Len(Tail(q)) = Len(q) - 1
      /\ Head(q) = q[1] /\ (Tail(q) = << >> <=> Len(q) = 1)
      /\ \A k \in 1 .. Len(q) - 1 : Tail(q)[k] = q[k + 1]
  BY <1>4, <1>5
<1>2. InARow(Tail(q))
  <2> SUFFICES ASSUME NEW k \in 1 .. Len(q) - 2 PROVE Tail(q)[k + 1].first = Tail(q)[k].first + Block
    BY <1>1 DEF InARow
  <2>1. k + 1 \in 1 .. Len(q) - 1 /\ k \in 1 .. Len(q) - 1
    BY <1>1
  <2> QED
    BY <1>1, <2>1 DEF InARow
<1>3. ASSUME Tail(q) # << >>
      PROVE  Tail(q)[1].first = q[1].first + Block /\ Tail(q)[Len(Tail(q))] = q[Len(q)]
  <2>1. 1 \in 1 .. Len(q) - 1 /\ Len(q) - 1 \in 1 .. Len(q) - 1 /\ Len(q) - 1 + 1 = Len(q)
    BY <1>1, <1>3
  <2> QED
    BY <1>1, <2>1 DEF InARow
<1> QED
  BY <1>1, <1>2, <1>3

\* A callback between two disturbances: the chain goes on.
LEMMA ChainGoesOn ==
  ASSUME 2 * Jitter <= Resync, MaxDelay <= Resync,
         TypeOK, Chain, NEW j \in -Jitter .. Jitter, NEW late \in 0 .. MaxDelay, OnBlock(j, late)
  PROVE  Chain'
<1> SUFFICES ASSUME ~disturbed' PROVE (gaps = 0 /\ Steady /\ Joined)'
  BY DEF Chain
<1> DEFINE offset == Calibrated(wall + late)
           first  == Anchored(adc + j + offset)
           block  == [first |-> first, truth |-> adc + wall]
<1>0. /\ Resync \in Nat /\ Jitter \in Nat /\ MaxDelay \in Nat /\ Block \in Nat
      /\ adc \in Int /\ wall \in Int /\ Len(pending) <= Pending /\ Pending \in Nat
      /\ adc_offset \in Int \cup {None} /\ next_epoch \in Int \cup {None} /\ None \notin Int
      /\ pending \in Seq(Blocks) /\ Len(pending) \in Nat
  BY RingAssumption DEF TypeOK, ChildOK
<1>1. offset \in Int /\ first \in Int
  BY Stamped DEF TypeOK
<1>2. block \in Blocks
  BY <1>0, <1>1 DEF Blocks
<1>3. /\ adc' = adc + Block /\ adc_offset' = offset /\ next_epoch' = first + Block /\ wall' = wall
      /\ pending' = Appended(pending, block) /\ ~disturbed /\ Len(pending) # Pending
      /\ UNCHANGED <<ring, writer>>
  BY DEF OnBlock
<1>4. Calibrated(wall + late) = offset /\ Anchored(adc + j + offset) = first /\ block.first = first
  OBVIOUS
<1> HIDE DEF offset, first, block
<1>5. gaps = 0 /\ (Uncalibrated \/ (Steady /\ Joined))
  BY <1>3 DEF Chain
<1>6. pending' = Append(pending, block)
  BY <1>0, <1>3 DEF Appended
<1>7. CASE Uncalibrated
  <2>1. offset = wall + late /\ first = adc + j + offset
    BY <1>4, <1>7 DEF Uncalibrated, Calibrated, Anchored
  <2>2. Steady'
    BY <1>0, <1>1, <1>3, <2>1 DEF Steady
  <2>3. pending = << >> /\ base' = None /\ ~Busy'
    BY <1>3, <1>7 DEF Uncalibrated, ring, TypeOK, RingOK, Busy, Idle
  <2>4. InARow(pending)
    BY <2>3 DEF InARow
  <2>5. InARow(pending') /\ pending'[Len(pending')] = block
    BY <1>0, <1>2, <1>6, <2>3, <2>4, RowAppend
  <2> QED
    BY <1>3, <1>4, <1>5, <2>2, <2>3, <2>5 DEF Joined, ring
<1>8. CASE Steady /\ Joined
  <2>1. offset = adc_offset
    BY <1>0, <1>4, <1>8 DEF Steady, Calibrated, Abs
  <2>2. first = next_epoch
    <3>1. adc + j + offset \in Int /\ next_epoch \in Int
          /\ (adc + j + offset) - next_epoch <= 2 * Jitter /\ next_epoch - (adc + j + offset) <= 2 * Jitter
      BY <1>0, <1>8, <2>1 DEF Steady
    <3> HIDE DEF offset
    <3> QED
      BY <1>0, <1>4, <3>1 DEF Anchored, Abs
  <2>3. Steady'
    BY <1>0, <1>1, <1>3, <1>8, <2>1, <2>2 DEF Steady
  <2>4. InARow(pending) /\ (pending # << >> => pending[Len(pending)].first + Block = block.first)
    BY <1>4, <1>8, <2>2 DEF Joined
  <2>5. /\ InARow(pending') /\ pending'[Len(pending')] = block /\ pending' # << >>
        /\ pending'[1] = IF pending = << >> THEN block ELSE pending[1]
    BY <1>0, <1>2, <1>6, <2>4, RowAppend
  <2>6. Onwards' = Onwards
    BY <1>4, <2>2, <2>5 DEF Onwards
  <2>7. End' = End /\ Busy' = Busy /\ base' = base /\ high_water' = high_water /\ gaps' = gaps /\ writer' = writer
    BY <1>3 DEF End, Ends, Busy, ring
  <2> QED
    BY <1>3, <1>4, <1>5, <1>8, <2>3, <2>5, <2>6, <2>7 DEF Joined
<1> QED
  BY <1>5, <1>7, <1>8

\* A write of a block that continues the ring: no gap, and it is taken in hand.
LEMMA ChainIsTaken ==
  ASSUME TypeOK, Window, Chain, WriteBegins
  PROVE  Chain'
<1> SUFFICES ASSUME ~disturbed' PROVE (gaps = 0 /\ Steady /\ Joined)'
  BY DEF Chain
<1> DEFINE block == Head(pending)
           h == IF base = None THEN block.first ELSE high_water
<1>1. /\ writer = Idle /\ block \in Blocks /\ block.first \in Int /\ high_water' = h
      /\ base' = (IF base = None THEN block.first ELSE base)
      /\ \/ base # None /\ block.first + Block <= base /\ writer' = writer
         \/ /\ writer' = [at |-> "evict", block |-> block]
            /\ (block.first > h /\ gaps' = gaps + 1) \/ (block.first <= h /\ gaps' = gaps)
  BY Begins
<1>2. /\ pending # << >> /\ pending' = Tail(pending) /\ ~disturbed
      /\ UNCHANGED <<adc, wall, adc_offset, next_epoch>>
  BY DEF WriteBegins, child
<1>3. gaps = 0 /\ Steady /\ Joined
  BY <1>2 DEF Chain, Uncalibrated
<1>4. /\ pending \in Seq(Blocks) /\ Block \in Nat \ {0} /\ next_epoch \in Int
      /\ base # None => base \in Int /\ high_water \in Int /\ base <= high_water
  BY <1>1, <1>3, RingAssumption DEF TypeOK, ChildOK, RingOK, Window, Idle, Steady
<1>5. /\ block = pending[1] /\ InARow(pending')
      /\ pending' = << >> => Len(pending) = 1
      /\ pending' # << >> => /\ pending'[1].first = pending[1].first + Block
                             /\ pending'[Len(pending')] = pending[Len(pending)]
  BY <1>2, <1>3, <1>4, RowTail DEF Joined
<1> HIDE DEF block
<1>6. h = block.first
  <2>1. base # None => high_water = block.first
    BY <1>1, <1>2, <1>3, <1>5 DEF Joined, End, Onwards, Busy, Idle
  <2> QED
    BY <2>1
<1>7. writer' = [at |-> "evict", block |-> block] /\ gaps' = gaps
  BY <1>1, <1>4, <1>6
<1>8. End' = block.first + Block /\ Busy' /\ writer'.block.first = high_water'
  BY <1>1, <1>6, <1>7 DEF End, Ends, Busy
<1>9. Onwards' = block.first + Block
  <2>1. CASE pending' = << >>
    <3>1. pending[Len(pending)] = block
      BY <1>5, <2>1
    <3>2. block.first + Block = next_epoch
      BY <1>2, <1>3, <3>1 DEF Joined
    <3> QED
      BY <1>2, <2>1, <3>2 DEF Onwards
  <2>2. CASE pending' # << >>
    BY <1>5, <2>2 DEF Onwards
  <2> QED
    BY <2>1, <2>2
<1>10. pending' # << >> => pending'[Len(pending')].first + Block = next_epoch'
  BY <1>2, <1>3, <1>5 DEF Joined
<1>11. Steady'
  BY <1>2, <1>3 DEF Steady
<1> QED
  BY <1>3, <1>5, <1>7, <1>8, <1>9, <1>10, <1>11 DEF Joined

LEMMA ChainStep ==
  ASSUME 2 * Jitter <= Resync, MaxDelay <= Resync, TypeOK, Window, Chain, [Next]_vars
  PROVE  Chain'
<1>1. CASE UNCHANGED <<adc, wall, child, pending, ring, writer, disturbed>>
  BY <1>1 DEF child, ring, Chain, Uncalibrated, Steady, Joined, InARow, End, Ends, Onwards, Busy
<1>2. CASE ChildSteps
  <2>1. CASE disturbed'
    BY <2>1 DEF Chain
  <2>2. CASE ~disturbed'
    <3>1. \E j \in -Jitter .. Jitter, late \in 0 .. MaxDelay : OnBlock(j, late)
      BY <1>2, <2>2 DEF ChildSteps, Stall, ClockStep, FreshChild
    <3> QED
      BY <3>1, ChainGoesOn
  <2> QED
    BY <2>1, <2>2
<1>3. CASE WriteBegins
  BY <1>3, ChainIsTaken
<1>4. CASE WriteEvicts \/ WriteFills \/ WritePublishes
  <2> SUFFICES ASSUME ~disturbed' PROVE Chain'
    BY DEF Chain
  <2>1. /\ UNCHANGED <<adc, wall, adc_offset, next_epoch, pending, gaps>> /\ ~disturbed
        /\ Busy
    BY <1>4 DEF WriteEvicts, WriteFills, WritePublishes, child, Busy
  <2>2. base # None
    BY <2>1, WriterIs, NoneIsNoInt DEF TypeOK
  <2>3. gaps = 0 /\ Steady /\ Joined /\ writer.block.first = high_water
    BY <2>1, <2>2 DEF Chain, Uncalibrated, Joined
  <2>4. End' = End /\ (Busy' => writer'.block.first = high_water')
    <3>1. CASE WriteEvicts
      <4>1. /\ writer.at = "evict" /\ writer'.at = "fill" /\ writer'.block = writer.block
            /\ high_water' = high_water
        BY <3>1, EvictsTo
      <4> QED
        BY <2>3, <4>1 DEF End, Ends, Busy
    <3>2. CASE WriteFills
      <4>1. /\ writer.at = "fill" /\ writer'.at = "publish" /\ writer'.block = writer.block
            /\ high_water' = high_water
        BY <3>2, Fills
      <4> QED
        BY <2>3, <4>1 DEF End, Ends, Busy
    <3>3. CASE WritePublishes
      <4>1. /\ writer'.at = "idle" /\ writer.block.first \in Int /\ Ends = writer.block.first + Block
            /\ writer.start = Larger(writer.block.first, high_water) /\ Block \in Nat
            /\ high_water' = Larger(writer.start, Ends)
        BY <3>3, Publishes, RingAssumption DEF Idle, Ends
      <4>2. high_water' = Ends
        BY <2>3, <4>1 DEF Larger
      <4> QED
        BY <2>1, <4>1, <4>2 DEF End, Busy
    <3> QED
      BY <1>4, <3>1, <3>2, <3>3
  <2> QED
    BY <2>1, <2>2, <2>3, <2>4 DEF Chain, Steady, Joined, Onwards
<1>5. CASE ReaderSteps \/ UNCHANGED vars
  BY <1>1, <1>5, ReaderLeavesRest DEF vars
<1> QED
  BY <1>2, <1>3, <1>4, <1>5, NextIs DEF WriterSteps

\* Where the threshold leaves room for two errors of the timestamp and for the
\* delay of a callback, jitter makes no gap: only lost audio or a clock that is
\* set does (RESYNC_THRESHOLD_SECONDS of audio_rx.py).
THEOREM JitterMakesNoGap ==
  ASSUME 2 * Jitter <= Resync, MaxDelay <= Resync
  PROVE  Spec => []JitterIsHarmless
<1>4. Init => gaps = 0 /\ Uncalibrated
  BY DEF Init, Uncalibrated
<1>1. Init => Chain
  BY <1>4 DEF Chain
<1>2. TypeOK /\ Window /\ Chain /\ [Next]_vars => Chain'
  BY ChainStep
<1>3. Chain => JitterIsHarmless
  BY DEF Chain, JitterIsHarmless
<1> QED
  BY <1>1, <1>2, <1>3, TypeInit, WindowInit, TypeStep, WindowStep, PTL DEF Spec

-----------------------------------------------------------------------------
(***************************************************************************)
(* The capture child. OneChild is not inductive: which child a thread tears *)
(* down, and whose lock it holds while it does, must be known. The handle  *)
(* is of the child that runs, if one does (HandleIsOfChild); inside the    *)
(* lock there is none (Torn).                                              *)
(***************************************************************************)
ThreadsOK ==
  /\ pc \in [Threads -> {"idle", "tuned", "reporting", "wanting", "torn", "restarted", "raised"}]
  /\ lock \in Threads \cup {Absent}
  /\ generation \in {0, 1}

HandleIsOfChild == process \in {0, 1, Absent} /\ alive \subseteq {process} \cap {0, 1}

Torn == /\ \A t \in Threads : pc[t] = "torn" <=> lock = t
        /\ lock # Absent => process = Absent

ChildInv == ThreadsOK /\ HandleIsOfChild /\ Torn

LEMMA ChildInit == CaptureInit => ChildInv
BY CaptureAssumption DEF CaptureInit, ChildInv, ThreadsOK, HandleIsOfChild, Torn

\* A step that is none of the lock's: no thread is torn by it, and no handle
\* is changed.
Apart == /\ UNCHANGED <<lock, process, generation>> /\ alive' \subseteq alive
         /\ \/ pc' = pc
            \/ \E t \in Threads, place \in {"idle", "tuned", "reporting", "wanting"} :
                 pc[t] # "torn" /\ MovesTo(t, place)

LEMMA ApartKeeps ==
  ASSUME ChildInv, Apart
  PROVE  ChildInv'
<1>1. HandleIsOfChild'
  BY DEF Apart, ChildInv, HandleIsOfChild
<1>2. CASE pc' = pc
  BY <1>1, <1>2 DEF Apart, ChildInv, ThreadsOK, Torn
<1>3. CASE pc' # pc
  <2>1. PICK t \in Threads, place \in {"idle", "tuned", "reporting", "wanting"} :
          pc[t] # "torn" /\ pc' = [pc EXCEPT ![t] = place]
    BY <1>3 DEF Apart, MovesTo
  <2>2. ThreadsOK'
    BY <2>1 DEF Apart, ChildInv, ThreadsOK
  <2>3. Torn'
    BY <2>1 DEF Apart, ChildInv, ThreadsOK, Torn
  <2> QED
    BY <1>1, <2>2, <2>3 DEF ChildInv
<1> QED
  BY <1>2, <1>3

LEMMA ElsewhereIsApart ==
  ASSUME ChildInv,
         \/ ChildDies \/ FallsSilent \/ ReaderReceives \/ ReaderWrites \/ WatchdogLooks
         \/ \E b \in Bands : RadioTurns(b) \/ HunterTunes(b)
         \/ PttChanges
         \/ \E p \in Pollers, b \in Bands : SeesBaseline(p, b) \/ SeesChange(p, b) \/ SeesNothing(p, b)
         \/ \E p \in Pollers : PollerResumes(p)
         \/ \E hot, messages \in BOOLEAN : OnDecode(hot, messages)
         \/ RecoverGoesOn \/ RecoverResumes \/ RecoverRaises \/ ClearFault \/ StopSets
         \/ UNCHANGED captureVars
  PROVE  Apart
<1> USE DEF Threads, Callers, Pollers, supervisor
<1>1. CASE ChildDies
  BY <1>1 DEF ChildDies, Apart
<1>2. CASE FallsSilent \/ ReaderWrites
  BY <1>2 DEF FallsSilent, ReaderWrites, Apart
<1>3. CASE ReaderReceives \/ PttChanges \/ ClearFault \/ StopSets
  BY <1>3 DEF ReaderReceives, PttChanges, ClearFault, StopSets, Apart
<1>4. CASE WatchdogLooks
  BY <1>4 DEF WatchdogLooks, Apart
<1>5. ASSUME NEW b \in Bands, RadioTurns(b) \/ HunterTunes(b)
      PROVE  Apart
  BY <1>5 DEF RadioTurns, HunterTunes, Apart
<1>6. ASSUME NEW p \in Pollers, NEW b \in Bands, Sees(p, b)
      PROVE  pc[p] # "torn"
  BY <1>6 DEF Sees
<1>7. ASSUME NEW p \in Pollers, NEW b \in Bands,
             SeesBaseline(p, b) \/ SeesChange(p, b) \/ SeesNothing(p, b)
      PROVE  Apart
  BY <1>6, <1>7 DEF SeesBaseline, SeesChange, SeesNothing, Apart
<1>8. ASSUME NEW p \in Pollers, PollerResumes(p)
      PROVE  Apart
  BY <1>8 DEF PollerResumes, Apart
<1>9. ASSUME NEW hot \in BOOLEAN, NEW messages \in BOOLEAN, OnDecode(hot, messages)
      PROVE  Apart
  BY <1>9 DEF OnDecode, Apart
<1>10. CASE RecoverGoesOn \/ RecoverResumes \/ RecoverRaises
  BY <1>10 DEF RecoverGoesOn, RecoverResumes, RecoverRaises, Apart
<1>11. CASE UNCHANGED captureVars
  BY <1>11 DEF captureVars, Apart
<1> QED
  BY <1>1, <1>2, <1>3, <1>4, <1>5, <1>7, <1>8, <1>9, <1>10, <1>11

LEMMA ChildStep == ChildInv /\ [CaptureNext]_captureVars => ChildInv'
<1> SUFFICES ASSUME ChildInv, [CaptureNext]_captureVars PROVE ChildInv'
  OBVIOUS
<1>1. ASSUME NEW t \in Threads, TakesLock(t)
      PROVE  ChildInv'
  BY <1>1, CaptureAssumption
     DEF TakesLock, TeardownChild, MovesTo, ChildInv, ThreadsOK, HandleIsOfChild, Torn
<1>2. ASSUME NEW t \in Threads, Spawns(t)
      PROVE  ChildInv'
  <2>1. Back(t, TRUE) \in {"idle", "restarted"}
    BY DEF Back
  <2>2. lock = t /\ process = Absent /\ alive = {} /\ t # Absent
    BY <1>2, CaptureAssumption DEF Spawns, ChildInv, HandleIsOfChild, Torn
  <2>3. PICK place \in {"idle", "restarted"} : pc' = [pc EXCEPT ![t] = place]
    BY <1>2, <2>1 DEF Spawns, MovesTo
  <2>4. generation' \in {0, 1} /\ process' = generation' /\ alive' = {generation'} /\ lock' = Absent
    BY <1>2, <2>2 DEF Spawns, ChildInv, ThreadsOK
  <2>5. ThreadsOK'
    BY <2>3, <2>4 DEF ChildInv, ThreadsOK
  <2>6. HandleIsOfChild'
    BY <2>4 DEF HandleIsOfChild
  <2>7. Torn'
    BY <2>2, <2>3, <2>4, CaptureAssumption DEF ChildInv, ThreadsOK, Torn
  <2> QED
    BY <2>5, <2>6, <2>7 DEF ChildInv
<1>3. ASSUME NEW t \in Threads, SpawnRaises(t)
      PROVE  ChildInv'
  <2>1. Back(t, FALSE) \in {"idle", "raised"}
    BY DEF Back
  <2>2. lock = t /\ t # Absent
    BY <1>3, CaptureAssumption DEF SpawnRaises, ChildInv, Torn
  <2>3. PICK place \in {"idle", "raised"} : pc' = [pc EXCEPT ![t] = place]
    BY <1>3, <2>1 DEF SpawnRaises, MovesTo
  <2>4. generation' \in {0, 1} /\ lock' = Absent /\ UNCHANGED <<process, alive>>
    BY <1>3 DEF SpawnRaises, ChildInv, ThreadsOK
  <2>5. ThreadsOK'
    BY <2>3, <2>4 DEF ChildInv, ThreadsOK
  <2>6. HandleIsOfChild'
    BY <2>4 DEF ChildInv, HandleIsOfChild
  <2>7. Torn'
    BY <2>2, <2>3, <2>4, CaptureAssumption DEF ChildInv, ThreadsOK, Torn
  <2> QED
    BY <2>5, <2>6, <2>7 DEF ChildInv
<1>4. CASE StopTearsDown
  BY <1>4 DEF StopTearsDown, TeardownChild, ChildInv, ThreadsOK, HandleIsOfChild, Torn
<1>5. CASE ~StopTearsDown /\ \A t \in Threads : ~TakesLock(t) /\ ~Spawns(t) /\ ~SpawnRaises(t)
  BY <1>5, ElsewhereIsApart, ApartKeeps DEF CaptureNext
<1> QED
  BY <1>1, <1>2, <1>3, <1>4, <1>5

\* The audio device has one child at most, and none while a restart is between
\* its teardown and its spawn (CaptureProcess.restart, in any of four threads).
THEOREM OneChildAtATime == CaptureSpec => []OneChild
<1>1. ChildInv => OneChild
  <2> SUFFICES ASSUME ChildInv PROVE OneChild
    OBVIOUS
  <2>1. lock # Absent => alive = {}
    BY CaptureAssumption DEF ChildInv, HandleIsOfChild, Torn
  <2>2. alive = {} \/ \E c \in {0, 1} : alive = {c}
    BY DEF ChildInv, HandleIsOfChild
  <2>3. Cardinality(alive) \in {0, 1}
    BY <2>2, FS_EmptySet, FS_Singleton
  <2> QED
    BY <2>1, <2>3 DEF OneChild
<1> QED
  BY <1>1, ChildInit, ChildStep, PTL DEF CaptureSpec

-----------------------------------------------------------------------------
(***************************************************************************)
(* The watchdog. It looks under the lock, so that what it finds is settled; *)
(* a handle that is missing then is one that nobody could replace.         *)
(***************************************************************************)
Settled == main = "running" /\ lock = Absent /\ process = Absent => spawn_failed

LEMMA SettledStep ==
  ASSUME ChildInv, Settled, [CaptureNext]_captureVars
  PROVE  Settled'
<1>1. ASSUME NEW t \in Threads, TakesLock(t) \/ Spawns(t) \/ SpawnRaises(t)
      PROVE  Settled'
  <2>1. t # Absent
    BY CaptureAssumption
  <2>2. ASSUME Spawns(t) PROVE process' # Absent
    BY <2>2, CaptureAssumption DEF Spawns, ChildInv, ThreadsOK
  <2> QED
    BY <1>1, <2>1, <2>2 DEF TakesLock, SpawnRaises, Settled
<1>2. CASE StopTearsDown \/ StopSets
  BY <1>2 DEF StopTearsDown, StopSets, Settled
<1>3. CASE ~StopTearsDown /\ ~StopSets
           /\ \A t \in Threads : ~TakesLock(t) /\ ~Spawns(t) /\ ~SpawnRaises(t)
  <2>1. Apart
    BY <1>3, ElsewhereIsApart DEF CaptureNext
  <2>2. main' = main /\ spawn_failed' = spawn_failed
    BY <1>3
    DEF CaptureNext, ChildDies, FallsSilent, ReaderReceives, ReaderWrites, WatchdogLooks, RadioTurns,
        HunterTunes, PttChanges, SeesBaseline, SeesChange, SeesNothing, PollerResumes, OnDecode,
        RecoverGoesOn, RecoverResumes, RecoverRaises, ClearFault, captureVars, supervisor
  <2> QED
    BY <2>1, <2>2 DEF Apart, Settled
<1> QED
  BY <1>1, <1>2, <1>3

\* The watchdog never takes the gap between another restart's teardown and
\* spawn for a dead child (_watchdog_loop).
THEOREM WatchdogIsPatient == CaptureSpec => WatchdogSeesSettled
<1> DEFINE Patient == pc["watchdog"] = "idle" /\ pc'["watchdog"] = "wanting" /\ process = Absent
                        => spawn_failed
<1>1. CaptureInit => Settled
  BY CaptureAssumption DEF CaptureInit, Settled
<1>2. ASSUME ChildInv, Settled, [CaptureNext]_captureVars
      PROVE  [Patient]_captureVars
  <2> SUFFICES ASSUME pc["watchdog"] = "idle", pc'["watchdog"] = "wanting", process = Absent
               PROVE  spawn_failed
    OBVIOUS
  <2>0. "watchdog" \in Threads /\ "watchdog" \notin Pollers /\ DOMAIN pc = Threads
    BY <1>2 DEF Threads, Callers, Pollers, ChildInv, ThreadsOK
  <2>1. WatchdogLooks
    <3>1. ASSUME NEW t \in Threads, NEW place, place # "wanting" \/ t # "watchdog", MovesTo(t, place)
          PROVE  FALSE
      BY <2>0, <3>1 DEF MovesTo
    <3>2. pc' # pc
      OBVIOUS
    <3>3. ASSUME NEW t \in Threads, TakesLock(t) \/ Spawns(t) \/ SpawnRaises(t)
          PROVE  FALSE
      BY <3>1, <3>3 DEF TakesLock, Spawns, SpawnRaises, Back
    <3>4. ASSUME NEW p \in Pollers, NEW b \in Bands,
                 \/ HunterTunes(b) \/ PollerResumes(p)
                 \/ SeesBaseline(p, b) \/ SeesChange(p, b) \/ SeesNothing(p, b)
          PROVE  FALSE
      BY <2>0, <3>1, <3>4
      DEF HunterTunes, SeesBaseline, SeesChange, SeesNothing, PollerResumes, Pollers, Threads, Callers
    <3>5. ASSUME NEW p \in Pollers, PollerResumes(p)
          PROVE  FALSE
      BY <2>0, <3>1, <3>5 DEF PollerResumes, Pollers, Threads, Callers
    <3>6. ASSUME NEW hot \in BOOLEAN, NEW messages \in BOOLEAN, OnDecode(hot, messages)
          PROVE  FALSE
      BY <3>1, <3>2, <3>6 DEF OnDecode, Threads, Callers
    <3>7. ~RecoverGoesOn /\ ~RecoverResumes /\ ~RecoverRaises
      BY <3>1 DEF RecoverGoesOn, RecoverResumes, RecoverRaises, Threads, Callers
    <3>8. ASSUME NEW b \in Bands, RadioTurns(b) \/ HunterTunes(b)
          PROVE  FALSE
      BY <2>0, <3>1, <3>2, <3>8 DEF RadioTurns, HunterTunes, Threads, Callers, Pollers
    <3>9. ~ (ChildDies \/ FallsSilent \/ ReaderReceives \/ ReaderWrites \/ PttChanges \/ ClearFault
             \/ StopSets \/ StopTearsDown \/ UNCHANGED captureVars)
      BY <3>2 DEF ChildDies, FallsSilent, ReaderReceives, ReaderWrites, PttChanges, ClearFault, StopSets,
                  StopTearsDown, captureVars
    <3> QED
      BY <1>2, <3>3, <3>4, <3>5, <3>6, <3>7, <3>8, <3>9 DEF CaptureNext
  <2> QED
    BY <1>2, <2>1 DEF WatchdogLooks, Settled
<1>3. ChildInv /\ Settled /\ [CaptureNext]_captureVars => (ChildInv /\ Settled)'
  BY ChildStep, SettledStep
<1>4. ChildInv /\ Settled /\ [CaptureNext]_captureVars => [Patient]_captureVars
  BY <1>2
<1> QED
  BY <1>1, <1>3, <1>4, ChildInit, PTL DEF CaptureSpec, WatchdogSeesSettled

-----------------------------------------------------------------------------
(***************************************************************************)
(* The fault. While slots of a verification are to come nothing has been   *)
(* decoded since the restart: the first message ends the verification.     *)
(***************************************************************************)
VerifyOK == verify \in [slots_left : Nat, hot_silent : Nat] /\ heard \in BOOLEAN
SilentSoFar == verify.slots_left > 0 => ~heard
FaultInv == VerifyOK /\ SilentSoFar

LEMMA VerifiedIs ==
  ASSUME FaultInv, NEW hot \in BOOLEAN, NEW messages \in BOOLEAN
  PROVE  /\ Verified(hot, messages) \in [slots_left : Nat, hot_silent : Nat]
         /\ Verified(hot, messages).slots_left > 0 => verify.slots_left > 0 /\ ~messages
         /\ FalseAlarm(hot, messages) => verify.slots_left > 0 /\ ~messages
<1>1. CASE verify.slots_left = 0
  BY <1>1 DEF FaultInv, VerifyOK, Verified, FalseAlarm
<1>2. CASE verify.slots_left # 0 /\ messages
  BY <1>2, CaptureAssumption DEF FaultInv, VerifyOK, Verified, FalseAlarm
<1>3. CASE verify.slots_left # 0 /\ ~messages
  <2>1. verify.slots_left > 0 /\ verify.slots_left - 1 \in Nat
        /\ verify.hot_silent + (IF hot THEN 1 ELSE 0) \in Nat
    BY <1>3 DEF FaultInv, VerifyOK
  <2> QED
    BY <1>3, <2>1 DEF Verified, FalseAlarm
<1> QED
  BY <1>1, <1>2, <1>3

LEMMA FaultStep == FaultInv /\ [CaptureNext]_captureVars => FaultInv'
<1> SUFFICES ASSUME FaultInv, [CaptureNext]_captureVars PROVE FaultInv'
  OBVIOUS
<1>1. ASSUME NEW hot \in BOOLEAN, NEW messages \in BOOLEAN, OnDecode(hot, messages)
      PROVE  FaultInv'
  <2>1. heard' = (heard \/ messages)
    BY <1>1 DEF OnDecode
  <2>2. CASE FalseAlarm(hot, messages)
    BY <1>1, <2>1, <2>2 DEF OnDecode, FaultInv, VerifyOK, SilentSoFar
  <2>3. CASE ~FalseAlarm(hot, messages)
    <3>1. verify' = Verified(hot, messages)
      BY <1>1, <2>3 DEF OnDecode
    <3> QED
      BY <2>1, <3>1, VerifiedIs DEF FaultInv, VerifyOK, SilentSoFar
  <2> QED
    BY <2>2, <2>3
<1>2. CASE RecoverResumes
  BY <1>2, CaptureAssumption DEF RecoverResumes, FaultInv, VerifyOK, SilentSoFar
<1>3. CASE ~RecoverResumes /\ ~ \E hot, messages \in BOOLEAN : OnDecode(hot, messages)
  <2>1. verify' = verify /\ heard' = heard
    BY <1>3
    DEF CaptureNext, TakesLock, Spawns, SpawnRaises, ChildDies, FallsSilent, ReaderReceives, ReaderWrites,
        WatchdogLooks, RadioTurns, HunterTunes, PttChanges, SeesBaseline, SeesChange, SeesNothing,
        PollerResumes, RecoverGoesOn, RecoverRaises, ClearFault, StopSets, StopTearsDown, captureVars, health
  <2> QED
    BY <2>1 DEF FaultInv, VerifyOK, SilentSoFar
<1> QED
  BY <1>1, <1>2, <1>3

\* The AUDIO fault of an episode goes by the operator's hand, or because not
\* one message was decoded since the restart that followed it (on_decode).
THEOREM ClearedForAReason == CaptureSpec => ClearedForSilence
<1> DEFINE Reason == faulted /\ ~faulted' => ClearFault \/ ~heard'
<1>1. CaptureInit => FaultInv
  BY DEF CaptureInit, FaultInv, VerifyOK, SilentSoFar
<1>2. ASSUME FaultInv, [CaptureNext]_captureVars
      PROVE  [Reason]_captureVars
  <2>1. ASSUME NEW hot \in BOOLEAN, NEW messages \in BOOLEAN, OnDecode(hot, messages), faulted, ~faulted'
        PROVE  ~heard'
    <3>1. FalseAlarm(hot, messages)
      BY <2>1 DEF OnDecode
    <3> QED
      BY <1>2, <2>1, <3>1, VerifiedIs DEF OnDecode, FaultInv, SilentSoFar
  <2>2. CASE ~ClearFault /\ ~ \E hot, messages \in BOOLEAN : OnDecode(hot, messages)
    <3>1. faulted' = faulted
      BY <1>2, <2>2
      DEF CaptureNext, TakesLock, Spawns, SpawnRaises, ChildDies, FallsSilent, ReaderReceives, ReaderWrites,
          WatchdogLooks, RadioTurns, HunterTunes, PttChanges, SeesBaseline, SeesChange, SeesNothing,
          PollerResumes, RecoverGoesOn, RecoverResumes, RecoverRaises, StopSets, StopTearsDown, captureVars,
          health
    <3> QED
      BY <3>1
  <2> QED
    BY <2>1, <2>2
<1>3. FaultInv /\ [CaptureNext]_captureVars => [Reason]_captureVars
  BY <1>2
<1> QED
  BY <1>1, <1>3, FaultStep, PTL DEF CaptureSpec, ClearedForSilence

-----------------------------------------------------------------------------
(***************************************************************************)
(* Types. The band a poller has done is the band it restarted for, which   *)
(* may have been put off, and forgotten by the other poller, meanwhile.    *)
(***************************************************************************)
BandsOK ==
  /\ radio \in Bands
  /\ last_band \in Bands \cup {Absent} /\ deferred \in Bands \cup {Absent}
  /\ wanted \in [Pollers -> Bands \cup {Absent, "deferred"}]

HealthOK == hot_silent \in 0 .. Streak /\ verify.slots_left \in 0 .. VerifySlots

LEMMA BandsStep == BandsOK /\ [CaptureNext]_captureVars => BandsOK'
<1> SUFFICES ASSUME BandsOK, [CaptureNext]_captureVars PROVE BandsOK'
  OBVIOUS
<1>1. ASSUME NEW b \in Bands, RadioTurns(b) \/ HunterTunes(b)
      PROVE  BandsOK'
  BY <1>1 DEF RadioTurns, HunterTunes, BandsOK
<1>2. ASSUME NEW p \in Pollers, NEW b \in Bands,
             SeesBaseline(p, b) \/ SeesChange(p, b) \/ SeesNothing(p, b)
      PROVE  BandsOK'
  BY <1>2 DEF SeesBaseline, SeesChange, SeesNothing, BandsOK
<1>3. ASSUME NEW p \in Pollers, PollerResumes(p)
      PROVE  BandsOK'
  <2>1. Aim(p) \in Bands \cup {Absent}
    BY DEF Aim, BandsOK
  <2> QED
    BY <1>3, <2>1 DEF PollerResumes, BandsOK
<1>4. CASE UNCHANGED <<radio, last_band, deferred, wanted>>
  BY <1>4 DEF BandsOK
<1>5. ASSUME \/ \E t \in Threads : TakesLock(t) \/ Spawns(t) \/ SpawnRaises(t)
             \/ ChildDies \/ FallsSilent \/ ReaderReceives \/ ReaderWrites \/ WatchdogLooks \/ PttChanges
             \/ \E hot, messages \in BOOLEAN : OnDecode(hot, messages)
             \/ RecoverGoesOn \/ RecoverResumes \/ RecoverRaises \/ ClearFault
             \/ StopSets \/ StopTearsDown \/ UNCHANGED captureVars
      PROVE  UNCHANGED <<radio, last_band, deferred, wanted>>
  BY <1>5
  DEF TakesLock, Spawns, SpawnRaises, ChildDies, FallsSilent, ReaderReceives, ReaderWrites, WatchdogLooks,
      PttChanges, OnDecode, RecoverGoesOn, RecoverResumes, RecoverRaises, ClearFault, StopSets,
      StopTearsDown, captureVars, bands
<1> QED
  BY <1>1, <1>2, <1>3, <1>4, <1>5 DEF CaptureNext

LEMMA HealthStep == HealthOK /\ FaultInv /\ [CaptureNext]_captureVars => HealthOK'
<1> SUFFICES ASSUME HealthOK, FaultInv, [CaptureNext]_captureVars PROVE HealthOK'
  OBVIOUS
<1>0. Streak \in Nat \ {0} /\ VerifySlots \in Nat \ {0}
  BY CaptureAssumption
<1>1. ASSUME NEW hot \in BOOLEAN, NEW messages \in BOOLEAN, OnDecode(hot, messages)
      PROVE  HealthOK'
  <2>1. hot_silent' \in 0 .. Streak
    BY <1>0, <1>1 DEF OnDecode, Observes, HealthOK
  <2>2. Verified(hot, messages).slots_left \in 0 .. VerifySlots
    BY <1>0 DEF Verified, HealthOK
  <2>3. verify'.slots_left \in 0 .. VerifySlots
    BY <1>0, <1>1, <2>2 DEF OnDecode
  <2> QED
    BY <2>1, <2>3 DEF HealthOK
<1>2. CASE RecoverResumes
  BY <1>0, <1>2 DEF RecoverResumes, HealthOK
<1>3. CASE ~RecoverResumes /\ ~ \E hot, messages \in BOOLEAN : OnDecode(hot, messages)
  <2>1. verify' = verify /\ hot_silent' = hot_silent
    BY <1>3
    DEF CaptureNext, TakesLock, Spawns, SpawnRaises, ChildDies, FallsSilent, ReaderReceives, ReaderWrites,
        WatchdogLooks, RadioTurns, HunterTunes, PttChanges, SeesBaseline, SeesChange, SeesNothing,
        PollerResumes, RecoverGoesOn, RecoverRaises, ClearFault, StopSets, StopTearsDown, captureVars, health
  <2> QED
    BY <2>1 DEF HealthOK
<1> QED
  BY <1>1, <1>2, <1>3

\* The band done is one there is, or none; the counters of the monitor and of a
\* verification stay within their thresholds (CaptureSupervisor, main.py,
\* CaptureHealthMonitor).
THEOREM CaptureTypeCorrect == CaptureSpec => []CaptureTypeOK
<1> DEFINE Inv == ChildInv /\ BandsOK /\ HealthOK /\ FaultInv
<1>1. CaptureInit => Inv
  <2> SUFFICES ASSUME CaptureInit PROVE BandsOK /\ HealthOK /\ FaultInv
    BY ChildInit
  <2>1. (CHOOSE b \in Bands : TRUE) \in Bands
    BY CaptureAssumption
  <2>2. BandsOK
    BY <2>1 DEF CaptureInit, BandsOK
  <2>3. HealthOK
    BY CaptureAssumption DEF CaptureInit, HealthOK
  <2> QED
    BY <2>2, <2>3 DEF CaptureInit, FaultInv, VerifyOK, SilentSoFar
<1>2. Inv /\ [CaptureNext]_captureVars => Inv'
  BY ChildStep, BandsStep, HealthStep, FaultStep
<1>3. Inv => CaptureTypeOK
  BY DEF ChildInv, ThreadsOK, HandleIsOfChild, BandsOK, HealthOK, CaptureTypeOK
<1> QED
  BY <1>1, <1>2, <1>3, PTL DEF CaptureSpec
=============================================================================
