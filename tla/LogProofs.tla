----------------------------- MODULE LogProofs ------------------------------
(***************************************************************************)
(* The log of QSOs, from the queue to RUMLogNG. The queue never drops a    *)
(* record while its process runs, and the worked set is behind the store   *)
(* only with its flag up or after a race; the queue's behaviours are those *)
(* it has with its readers beside it, so that what is proved of Spec holds *)
(* of WSpec. And the synchronisation with RUMLogNG loses no row it pulls,  *)
(* sends none back, and writes a QSO twice only after a fault.             *)
(***************************************************************************)
EXTENDS WorkedSet, RumlogSync, SequenceTheorems, TLAPS

-----------------------------------------------------------------------------
(***************************************************************************)
(* What a sequence holds.                                                  *)
(***************************************************************************)
LEMMA AppendHolds ==
  ASSUME NEW S, NEW s \in Seq(S), NEW e \in S
  PROVE  Append(s, e) \in Seq(S) /\ ToSet(Append(s, e)) = ToSet(s) \cup {e}
<1>1. \A i \in 1 .. Len(s) + 1 : Append(s, e)[i] = IF i = Len(s) + 1 THEN e ELSE s[i]
  OBVIOUS
<1>2. DOMAIN Append(s, e) = 1 .. Len(s) + 1 /\ DOMAIN s = 1 .. Len(s) /\ Len(s) \in Nat
  OBVIOUS
<1>3. ToSet(Append(s, e)) \subseteq ToSet(s) \cup {e}
  BY <1>1, <1>2 DEF ToSet
<1>4. ToSet(s) \subseteq ToSet(Append(s, e))
  BY <1>1, <1>2 DEF ToSet
<1>5. e \in ToSet(Append(s, e))
  BY <1>1, <1>2 DEF ToSet
<1> QED
  BY <1>3, <1>4, <1>5

LEMMA ConcatHolds ==
  ASSUME NEW S, NEW s \in Seq(S), NEW t \in Seq(S)
  PROVE  s \o t \in Seq(S) /\ ToSet(s \o t) = ToSet(s) \cup ToSet(t)
<1>1. \A i \in 1 .. Len(s) + Len(t) : (s \o t)[i] = IF i <= Len(s) THEN s[i] ELSE t[i - Len(s)]
  OBVIOUS
<1>2. /\ DOMAIN (s \o t) = 1 .. Len(s) + Len(t) /\ DOMAIN s = 1 .. Len(s) /\ DOMAIN t = 1 .. Len(t)
      /\ Len(s) \in Nat /\ Len(t) \in Nat
  OBVIOUS
<1>3. ToSet(s \o t) \subseteq ToSet(s) \cup ToSet(t)
  BY <1>1, <1>2 DEF ToSet
<1>4. ToSet(s) \subseteq ToSet(s \o t)
  BY <1>1, <1>2 DEF ToSet
<1>5. ASSUME NEW i \in DOMAIN t PROVE t[i] \in ToSet(s \o t)
  <2>1. i + Len(s) \in DOMAIN (s \o t) /\ (s \o t)[i + Len(s)] = t[i]
    BY <1>1, <1>2
  <2> QED
    BY <2>1 DEF ToSet
<1> QED
  BY <1>3, <1>4, <1>5, SMTT(30) DEF ToSet

LEMMA TailHolds ==
  ASSUME NEW S, NEW s \in Seq(S), s # << >>
  PROVE  Tail(s) \in Seq(S) /\ Head(s) \in S /\ ToSet(s) = ToSet(Tail(s)) \cup {Head(s)}
<1>1. /\ Len(s) \in Nat \ {0} /\ DOMAIN s = 1 .. Len(s) /\ DOMAIN Tail(s) = 1 .. Len(s) - 1
      /\ Head(s) = s[1] /\ \A i \in 1 .. Len(s) - 1 : Tail(s)[i] = s[i + 1]
  OBVIOUS
<1>2. ToSet(Tail(s)) \cup {Head(s)} \subseteq ToSet(s)
  BY <1>1 DEF ToSet
<1>3. ASSUME NEW i \in DOMAIN s PROVE s[i] \in ToSet(Tail(s)) \cup {Head(s)}
  <2>1. CASE i = 1
    BY <1>1, <2>1
  <2>2. CASE i # 1
    <3>1. i - 1 \in DOMAIN Tail(s) /\ Tail(s)[i - 1] = s[i]
      BY <1>1, <2>2
    <3> QED
      BY <3>1 DEF ToSet
  <2> QED
    BY <2>1, <2>2
<1> QED
  BY <1>1, <1>2, <1>3 DEF ToSet

LEMMA EmptyHolds == ToSet(<< >>) = {} /\ \A S : << >> \in Seq(S)
BY DEF ToSet

-----------------------------------------------------------------------------
(***************************************************************************)
(* The queue. RecordsKept needs to know that what the thread has in hand   *)
(* is the head of the queue while the server runs, so that it is still in  *)
(* the queue when the drain is cut off, and that what has been inserted is *)
(* in the store before it leaves.                                          *)
(***************************************************************************)
InHand ==
  /\ outcome = "none" <=> hand = NoQso
  /\ outcome = "inserted" => store[hand] > 0
  /\ phase = "running" /\ outcome # "none" => queue # << >> /\ Head(queue) = hand
  /\ phase = "booting" => outcome = "none"

\* Only completed QSOs are anywhere.
Known ==
  /\ ToSet(queue) \cup ToSet(journal) \cup ToSet(recovered) \subseteq completed
  /\ hand # NoQso => hand \in completed

LogInv == TypeOK /\ InHand /\ Known /\ RecordsKept

LEMMA LogInit == ASSUME QsosAssumption, AttemptsAssumption, Init PROVE LogInv
<1>1. /\ phase \in Phases /\ outcome \in Outcomes
      /\ queue \in Seq(Qsos) /\ recovered \in Seq(Qsos) /\ journal \in Seq(Qsos)
  BY EmptyHolds DEF Init, Phases, Outcomes
<1>2. attempts \in 0 .. MaxAttempts - 1 /\ starts \in Nat
  BY DEF Init, AttemptsAssumption
<1>3. TypeOK
  BY <1>1, <1>2 DEF Init, TypeOK
<1>4. InHand /\ Known /\ RecordsKept
  BY EmptyHolds DEF Init, InHand, Known, RecordsKept
<1> QED
  BY <1>3, <1>4 DEF LogInv

\* A line of the journal, or one that could not be written.
LEMMA JournalKeeps ==
  ASSUME TypeOK, NEW q \in Qsos, Journal(q)
  PROVE  /\ journal' \in Seq(Qsos) /\ unjournaled' \subseteq Qsos
         /\ ToSet(journal') \subseteq ToSet(journal) \cup {q}
         /\ ToSet(journal') \cup unjournaled' = ToSet(journal) \cup unjournaled \cup {q}
<1>1. journal \in Seq(Qsos) /\ unjournaled \subseteq Qsos
  BY DEF TypeOK
<1>2. Append(journal, q) \in Seq(Qsos) /\ ToSet(Append(journal, q)) = ToSet(journal) \cup {q}
  BY <1>1, AppendHolds
<1>3. CASE journal' = Append(journal, q) /\ UNCHANGED unjournaled
  BY <1>1, <1>2, <1>3
<1>4. CASE unjournaled' = unjournaled \cup {q} /\ UNCHANGED journal
  BY <1>1, <1>4
<1> QED
  BY <1>3, <1>4 DEF Journal

LEMMA DrainKeeps ==
  ASSUME QsosAssumption, AttemptsAssumption, LogInv, Drain
  PROVE  LogInv'
<1> USE DEF LogInv
<1>0. queue # << >> => /\ Tail(queue) \in Seq(Qsos) /\ Head(queue) \in Qsos
                       /\ ToSet(queue) = ToSet(Tail(queue)) \cup {Head(queue)}
  BY TailHolds DEF TypeOK
<1>1. CASE DrainBegins
  <2>1. TypeOK'
    BY <1>0, <1>1 DEF DrainBegins, CallStore, TypeOK, disk, history, Outcomes
  <2>2. InHand' /\ Known'
    BY <1>0, <1>1 DEF DrainBegins, CallStore, InHand, Known, QsosAssumption, disk, history
  <2>3. RecordsKept'
    BY <1>1 DEF DrainBegins, CallStore, RecordsKept, Kept, InHand, TypeOK, QsosAssumption, disk, history
  <2> QED
    BY <2>1, <2>2, <2>3
<1>2. CASE DrainSucceeds
  <2>1. TypeOK'
    BY <1>0, <1>2 DEF DrainSucceeds, StoreAnswers, TypeOK, InHand, disk, history, Outcomes, AttemptsAssumption
  <2>2. InHand' /\ Known'
    BY <1>0, <1>2 DEF DrainSucceeds, StoreAnswers, InHand, Known, disk, history
  <2>3. RecordsKept'
    BY <1>0, <1>2 DEF DrainSucceeds, StoreAnswers, RecordsKept, Kept, InHand, disk, history
  <2> QED
    BY <2>1, <2>2, <2>3
<1>3. CASE DrainFails
  <2>1. TypeOK'
    BY <1>3 DEF DrainFails, LastAttempt, StoreAnswers, TypeOK, disk, history, Outcomes, AttemptsAssumption
  <2>2. InHand' /\ Known'
    BY <1>3 DEF DrainFails, StoreAnswers, InHand, Known, disk, history
  <2>3. RecordsKept'
    BY <1>0, <1>3 DEF DrainFails, StoreAnswers, RecordsKept, Kept, InHand, disk, history
  <2> QED
    BY <2>1, <2>2, <2>3
<1>4. CASE DrainSpills
  <2>1. hand = Head(queue) /\ queue # << >> /\ hand \in Qsos
    BY <1>0, <1>4 DEF DrainSpills, InHand
  <2>2. /\ journal' \in Seq(Qsos) /\ unjournaled' \subseteq Qsos
        /\ ToSet(journal') \subseteq ToSet(journal) \cup {hand}
        /\ ToSet(journal') \cup unjournaled' = ToSet(journal) \cup unjournaled \cup {hand}
    BY <1>4, <2>1, JournalKeeps DEF DrainSpills
  <2>3. TypeOK'
    BY <1>0, <1>4, <2>1, <2>2 DEF DrainSpills, StoreAnswers, TypeOK, history, Outcomes, AttemptsAssumption
  <2>4. InHand' /\ Known'
    BY <1>0, <1>4, <2>1, <2>2 DEF DrainSpills, StoreAnswers, InHand, Known, history
  <2>5. RecordsKept'
    BY <1>0, <1>4, <2>1, <2>2 DEF DrainSpills, StoreAnswers, RecordsKept, Kept, InHand, history
  <2> QED
    BY <2>3, <2>4, <2>5
<1> QED
  BY <1>1, <1>2, <1>3, <1>4 DEF Drain

LEMMA FlushKeeps ==
  ASSUME QsosAssumption, AttemptsAssumption, LogInv, Flush
  PROVE  LogInv'
<1> USE DEF LogInv
<1>0. queue # << >> => /\ Tail(queue) \in Seq(Qsos) /\ Head(queue) \in Qsos
                       /\ ToSet(queue) = ToSet(Tail(queue)) \cup {Head(queue)}
  BY TailHolds DEF TypeOK
<1>1. CASE FlushTakes
  <2>1. TypeOK'
    BY <1>0, <1>1 DEF FlushTakes, CallStore, TypeOK, disk, history, Outcomes, AttemptsAssumption
  <2>2. InHand' /\ Known'
    BY <1>0, <1>1 DEF FlushTakes, CallStore, InHand, Known, QsosAssumption, disk, history
  <2>3. RecordsKept'
    BY <1>0, <1>1 DEF FlushTakes, CallStore, RecordsKept, Kept, InHand, QsosAssumption, TypeOK, disk, history
  <2> QED
    BY <2>1, <2>2, <2>3
<1>2. CASE FlushReturns
  <2>1. hand \in Qsos
    BY <1>2 DEF FlushReturns, InHand, TypeOK
  <2>2. CASE outcome = "inserted"
    <3>1. UNCHANGED <<journal, unjournaled>> /\ store[hand] > 0
      BY <1>2, <2>2 DEF FlushReturns, InHand
    <3>2. TypeOK'
      BY <1>2, <3>1 DEF FlushReturns, StoreAnswers, TypeOK, history, Outcomes
    <3>3. InHand' /\ Known'
      BY <1>2, <3>1 DEF FlushReturns, StoreAnswers, InHand, Known, history
    <3>4. RecordsKept'
      BY <1>2, <3>1 DEF FlushReturns, StoreAnswers, RecordsKept, Kept, history
    <3> QED
      BY <3>2, <3>3, <3>4
  <2>3. CASE outcome # "inserted"
    <3>1. /\ journal' \in Seq(Qsos) /\ unjournaled' \subseteq Qsos
          /\ ToSet(journal') \subseteq ToSet(journal) \cup {hand}
          /\ ToSet(journal') \cup unjournaled' = ToSet(journal) \cup unjournaled \cup {hand}
      BY <1>2, <2>1, <2>3, JournalKeeps DEF FlushReturns
    <3>2. TypeOK'
      BY <1>2, <3>1 DEF FlushReturns, StoreAnswers, TypeOK, history, Outcomes
    <3>3. InHand' /\ Known'
      BY <1>2, <2>1, <3>1 DEF FlushReturns, StoreAnswers, InHand, Known, QsosAssumption, history
    <3>4. RecordsKept'
      BY <1>2, <3>1 DEF FlushReturns, StoreAnswers, RecordsKept, Kept, history
    <3> QED
      BY <3>2, <3>3, <3>4
  <2> QED
    BY <2>2, <2>3
<1>3. CASE FlushReadsJournal
  BY <1>3 DEF FlushReadsJournal, TypeOK, InHand, Known, RecordsKept, disk, history, Phases
<1>4. CASE RetryTakes
  <2>1. /\ Tail(recovered) \in Seq(Qsos) /\ Head(recovered) \in Qsos
        /\ ToSet(recovered) = ToSet(Tail(recovered)) \cup {Head(recovered)}
    BY <1>4, TailHolds DEF RetryTakes, TypeOK
  <2>2. TypeOK'
    BY <1>4, <2>1 DEF RetryTakes, CallStore, TypeOK, disk, history, Outcomes
  <2>3. InHand' /\ Known' /\ RecordsKept'
    BY <1>4, <2>1 DEF RetryTakes, CallStore, InHand, Known, RecordsKept, QsosAssumption, disk, history
  <2> QED
    BY <2>2, <2>3
<1>5. CASE RetryReturns
  BY <1>5 DEF RetryReturns, StoreAnswers, TypeOK, InHand, Known, RecordsKept, disk, history, Outcomes
<1>6. CASE FlushEnds
  BY <1>6, EmptyHolds DEF FlushEnds, TypeOK, InHand, Known, RecordsKept, volatile, history, Phases
<1> QED
  BY <1>1, <1>2, <1>3, <1>4, <1>5, <1>6 DEF Flush

LEMMA OnceAdds ==
  ASSUME NEW f \in [Qsos -> Nat], NEW q \in Qsos
  PROVE  /\ Once(q, f) \in [Qsos -> Nat] /\ Once(q, f)[q] > 0
         /\ \A r \in Qsos : f[r] > 0 => Once(q, f)[r] > 0
BY DEF Once

LEMMA RestKeeps ==
  ASSUME QsosAssumption, AttemptsAssumption, LogInv,
         \/ Shutdown \/ Recover \/ (\E q \in Qsos : Enqueue(q)) \/ StoreWrites \/ OrphanWrites
         \/ Crash \/ Restart
  PROVE  LogInv'
<1> USE DEF LogInv
<1>1. CASE ShutdownIdle
  BY <1>1 DEF ShutdownIdle, TypeOK, InHand, Known, RecordsKept, Kept, volatile, disk, history, Phases
<1>2. CASE ShutdownCutsDrain
  <2>1. hand \in Qsos
    BY <1>2 DEF ShutdownCutsDrain, InHand, TypeOK
  <2>2. hand \in ToSet(queue)
    <3>1. queue # << >> /\ Head(queue) = hand /\ queue \in Seq(Qsos)
      BY <1>2 DEF ShutdownCutsDrain, InHand, TypeOK
    <3> QED
      BY <3>1, TailHolds
  <2>3. TypeOK'
    BY <1>2, <2>1 DEF ShutdownCutsDrain, StoreAnswers, TypeOK, Once, disk, Phases, Outcomes
  <2>4. InHand' /\ Known'
    BY <1>2 DEF ShutdownCutsDrain, StoreAnswers, InHand, Known, disk
  <2>5. RecordsKept'
    BY <1>2, <2>2 DEF ShutdownCutsDrain, StoreAnswers, RecordsKept, Kept, disk
  <2> QED
    BY <2>3, <2>4, <2>5
<1>3. CASE Recover
  <2>1. queue \o journal \in Seq(Qsos) /\ ToSet(queue \o journal) = ToSet(queue) \cup ToSet(journal)
    BY ConcatHolds DEF TypeOK
  <2>2. << >> \in Seq(Qsos) /\ ToSet(<< >>) = {}
    BY EmptyHolds
  <2>3. TypeOK'
    BY <1>3, <2>1, <2>2 DEF Recover, TypeOK, Known, Phases
  <2>4. InHand' /\ Known' /\ RecordsKept'
    BY <1>3, <2>1, <2>2 DEF Recover, InHand, Known, RecordsKept, Kept, disk
  <2> QED
    BY <2>3, <2>4
<1>4. CASE \E q \in Qsos : Enqueue(q)
  <2>0. PICK q \in Qsos : Enqueue(q)
    BY <1>4
  <2>1. queue \in Seq(Qsos)
    BY DEF TypeOK
  <2>2. Append(queue, q) \in Seq(Qsos) /\ ToSet(Append(queue, q)) = ToSet(queue) \cup {q}
    BY <2>1, AppendHolds
  <2>3. Append(queue, q) # << >> /\ (queue # << >> => Head(Append(queue, q)) = Head(queue))
    <3>1. Len(queue) \in Nat /\ Len(Append(queue, q)) = Len(queue) + 1
      BY <2>1
    <3>2. Append(queue, q) # << >>
      BY <3>1
    <3>3. ASSUME queue # << >> PROVE Head(Append(queue, q)) = Head(queue)
      <4>1. Len(queue) >= 1
        BY <2>1, <3>3
      <4>2. Append(queue, q)[1] = queue[1]
        BY <2>1, <4>1
      <4> QED
        BY <2>1, <2>2, <3>2, <3>3, <4>2
    <3> QED
      BY <3>2, <3>3
  <2>4. TypeOK'
    BY <2>0, <2>2 DEF Enqueue, TypeOK, disk
  <2>5. InHand'
    BY <2>0, <2>3 DEF Enqueue, InHand, disk
  <2>6. Known' /\ RecordsKept'
    BY <2>0, <2>2 DEF Enqueue, Known, RecordsKept, Kept, disk
  <2> QED
    BY <2>4, <2>5, <2>6
<1>5. CASE StoreWrites
  <2>1. hand \in Qsos
    BY <1>5 DEF StoreWrites, InHand, TypeOK
  <2>2. /\ store' \in [Qsos -> Nat] /\ \A r \in Qsos : store[r] > 0 => store'[r] > 0
        /\ outcome' = "inserted" => store'[hand] > 0
    <3>1. CASE outcome' = "inserted" /\ store' = Once(hand, store)
      BY <2>1, <3>1, OnceAdds DEF TypeOK
    <3>2. CASE outcome' = "failed" /\ UNCHANGED store
      BY <3>2 DEF TypeOK
    <3> QED
      BY <1>5, <3>1, <3>2 DEF StoreWrites
  <2>3. /\ outcome' \in {"inserted", "failed"}
        /\ UNCHANGED <<phase, queue, attempts, hand, orphan, recovered, journal, unjournaled, history>>
    BY <1>5 DEF StoreWrites
  <2>4. TypeOK'
    BY <2>2, <2>3 DEF TypeOK, history, Outcomes
  <2>5. InHand' /\ Known'
    BY <1>5, <2>2, <2>3 DEF StoreWrites, InHand, Known, history
  <2>6. RecordsKept'
    BY <2>2, <2>3 DEF RecordsKept, Kept, TypeOK, history
  <2> QED
    BY <2>4, <2>5, <2>6
<1>6. CASE OrphanWrites
  <2>1. store' \in [Qsos -> Nat] /\ \A r \in Qsos : store[r] > 0 => store'[r] > 0
    <3>1. orphan \in Qsos /\ store \in [Qsos -> Nat]
      BY <1>6 DEF OrphanWrites, TypeOK
    <3>2. store' = store \/ store' = Once(orphan, store)
      BY <1>6 DEF OrphanWrites
    <3> QED
      BY <3>1, <3>2, OnceAdds
  <2>2. /\ UNCHANGED <<phase, queue, attempts, hand, outcome, recovered, journal, unjournaled, history>>
        /\ orphan' = NoQso
    BY <1>6 DEF OrphanWrites
  <2>3. TypeOK'
    BY <2>1, <2>2 DEF TypeOK, history
  <2>4. InHand'
    BY <2>1, <2>2 DEF InHand, TypeOK
  <2>5. Known' /\ RecordsKept'
    BY <2>1, <2>2 DEF Known, RecordsKept, Kept, TypeOK, history
  <2> QED
    BY <2>3, <2>4, <2>5
<1>7. CASE Crash \/ Restart
  <2>1. Boots
    BY <1>7 DEF Crash, Restart
  <2>2. cuts' \in [Qsos -> Nat]
    <3>1. \A r \in Qsos : cuts[r] \in Nat /\ cuts[r] + 0 \in Nat /\ cuts[r] + 1 \in Nat
      BY DEF TypeOK
    <3>2. CASE Crash
      BY <3>1, <3>2 DEF Crash
    <3>3. CASE Restart
      BY <3>3 DEF Restart, TypeOK
    <3> QED
      BY <1>7, <3>2, <3>3
  <2>3. << >> \in Seq(Qsos) /\ ToSet(<< >>) = {}
    BY EmptyHolds
  <2>4. TypeOK'
    BY <2>1, <2>2, <2>3 DEF Boots, TypeOK, disk, Phases, Outcomes, AttemptsAssumption
  <2>5. InHand' /\ Known' /\ RecordsKept'
    BY <2>1, <2>3 DEF Boots, InHand, Known, RecordsKept, disk
  <2> QED
    BY <2>4, <2>5
<1> QED
  BY <1>1, <1>2, <1>3, <1>4, <1>5, <1>6, <1>7 DEF Shutdown

LEMMA LogStep == ASSUME QsosAssumption, AttemptsAssumption, LogInv, [Next]_vars PROVE LogInv'
<1>1. CASE UNCHANGED vars
  BY <1>1 DEF LogInv, TypeOK, InHand, Known, RecordsKept, Kept, vars, volatile, disk, history
<1>2. CASE Next
  BY <1>2, DrainKeeps, FlushKeeps, RestKeeps DEF Next
<1> QED
  BY <1>1, <1>2

(***************************************************************************)
(* The invariant of the queue, whatever the store does and wherever the    *)
(* process dies.                                                           *)
(***************************************************************************)
THEOREM QueueInvariant == Spec => []LogInv
<1>1. Init => LogInv
  BY LogInit, QsosAssumption, AttemptsAssumption
<1>2. LogInv /\ [Next]_vars => LogInv'
  BY LogStep, QsosAssumption, AttemptsAssumption
<1> QED
  BY <1>1, <1>2, PTL DEF Spec

\* The queue of server/engine/qso_log.py holds what its type says.
THEOREM QueueTypeCorrect == Spec => []TypeOK
<1>1. LogInv => TypeOK
  BY DEF LogInv
<1> QED
  BY <1>1, QueueInvariant, PTL

\* While the process runs, and while flush() empties its queue, no record it
\* has queued is lost (server/engine/qso_log.py, UC-005).
THEOREM RecordsAreKept == Spec => []RecordsKept
<1>1. LogInv => RecordsKept
  BY DEF LogInv
<1> QED
  BY <1>1, QueueInvariant, PTL

-----------------------------------------------------------------------------
(***************************************************************************)
(* Nothing is written twice. OnlyCutsDuplicate counts what has been        *)
(* written; inductive is the count of what has been and what may still be: *)
(* each record has one place to be written from, the queue, the file, the  *)
(* hands of the flush or a thread nobody awaits, and the cut of a call     *)
(* allows for one place more.                                              *)
(***************************************************************************)
InQueue(q)  == q \in ToSet(queue) /\ ~(phase = "running" /\ outcome = "inserted" /\ hand = q)
InFile(q)   == q \in ToSet(IF phase = "retrying" THEN recovered ELSE journal)
InFlight(q) == hand = q /\ phase # "running" /\ outcome \in {"writing", "failed"}

One(p) == IF p THEN 1 ELSE 0
Chances(q) == One(InQueue(q)) + One(orphan = q) + One(InFile(q)) + One(InFlight(q))

OnePlace ==
  /\ IsInjective(queue) /\ IsInjective(journal) /\ IsInjective(recovered)
  /\ ToSet(queue) \cap ToSet(journal) = {}
  /\ phase = "booting" => queue = << >>
  /\ phase = "flushing" => hand \notin ToSet(queue) \cup ToSet(journal)

Fresh == \A q \in Qsos : q \notin completed => store[q] = 0 /\ orphan # q

Counted == \A q \in Qsos : store[q] + Chances(q) <= 1 + cuts[q]

OnceInv == OnePlace /\ Fresh /\ Counted

LEMMA AppendKeepsDistinct ==
  ASSUME NEW S, NEW s \in Seq(S), NEW e \in S, IsInjective(s), e \notin ToSet(s)
  PROVE  IsInjective(Append(s, e))
<1>1. \A i \in 1 .. Len(s) + 1 : Append(s, e)[i] = IF i = Len(s) + 1 THEN e ELSE s[i]
  OBVIOUS
<1>2. DOMAIN Append(s, e) = 1 .. Len(s) + 1 /\ DOMAIN s = 1 .. Len(s) /\ Len(s) \in Nat
  OBVIOUS
<1>3. \A i \in 1 .. Len(s) : s[i] # e
  BY <1>2 DEF ToSet
<1>4. ASSUME NEW i \in 1 .. Len(s) + 1, NEW j \in 1 .. Len(s) + 1,
             Append(s, e)[i] = Append(s, e)[j]
      PROVE  i = j
  <2>1. CASE i = Len(s) + 1 \/ j = Len(s) + 1
    BY <1>1, <1>2, <1>3, <1>4, <2>1
  <2>2. CASE i \in 1 .. Len(s) /\ j \in 1 .. Len(s)
    <3>1. s[i] = s[j]
      BY <1>1, <1>2, <1>4, <2>2
    <3> QED
      BY <1>2, <2>2, <3>1 DEF IsInjective
  <2> QED
    BY <1>2, <2>1, <2>2
<1> QED
  BY <1>2, <1>4 DEF IsInjective

LEMMA TailKeepsDistinct ==
  ASSUME NEW S, NEW s \in Seq(S), s # << >>, IsInjective(s)
  PROVE  IsInjective(Tail(s)) /\ Head(s) \notin ToSet(Tail(s))
<1>1. /\ Len(s) \in Nat \ {0} /\ DOMAIN s = 1 .. Len(s) /\ DOMAIN Tail(s) = 1 .. Len(s) - 1
      /\ Head(s) = s[1] /\ \A i \in 1 .. Len(s) - 1 : Tail(s)[i] = s[i + 1]
  OBVIOUS
<1>2. ASSUME NEW i \in DOMAIN Tail(s), NEW j \in DOMAIN Tail(s), Tail(s)[i] = Tail(s)[j]
      PROVE  i = j
  <2>1. i + 1 \in DOMAIN s /\ j + 1 \in DOMAIN s /\ s[i + 1] = s[j + 1]
    BY <1>1, <1>2
  <2>2. i + 1 = j + 1
    BY <2>1 DEF IsInjective
  <2> QED
    BY <1>1, <2>2
<1>3. ASSUME NEW i \in DOMAIN Tail(s), Tail(s)[i] = Head(s)
      PROVE  FALSE
  <2>1. i + 1 \in DOMAIN s /\ 1 \in DOMAIN s /\ s[i + 1] = s[1]
    BY <1>1, <1>3
  <2>2. i + 1 = 1
    BY <2>1 DEF IsInjective
  <2> QED
    BY <1>1, <2>2
<1> QED
  BY <1>2, <1>3 DEF IsInjective, ToSet

LEMMA EmptyDistinct == IsInjective(<< >>)
BY DEF IsInjective

LEMMA ConcatEmpty == ASSUME NEW S, NEW s \in Seq(S) PROVE << >> \o s = s
OBVIOUS

\* A record that has fewer places and is written no more often has room still.
LEMMA FewerChances ==
  ASSUME TypeOK, TypeOK', Counted, NEW q \in Qsos,
         store'[q] = store[q], cuts'[q] = cuts[q],
         InQueue(q)' => InQueue(q), (orphan = q)' => orphan = q,
         InFile(q)' => InFile(q), InFlight(q)' => InFlight(q)
  PROVE  (store[q] + Chances(q) <= 1 + cuts[q])'
<1>1. store[q] \in Nat /\ cuts[q] \in Nat /\ cuts'[q] \in Nat
  BY DEF TypeOK
<1>2. store[q] + Chances(q) <= 1 + cuts[q]
  BY DEF Counted
<1> QED
  BY <1>1, <1>2 DEF Chances, One

\* A record goes from one place to another.
LEMMA SameChances ==
  ASSUME TypeOK, TypeOK', Counted, NEW q \in Qsos,
         store'[q] = store[q], cuts'[q] = cuts[q],
         (orphan = q)' => orphan = q,
         \/ InQueue(q) /\ ~InQueue(q)' /\ (InFile(q)' => InFile(q)) /\ ~InFlight(q)
         \/ InQueue(q) /\ ~InQueue(q)' /\ (InFlight(q)' => InFlight(q)) /\ ~InFile(q)
         \/ InFlight(q) /\ ~InFlight(q)' /\ (InQueue(q)' => InQueue(q)) /\ ~InFile(q)
         \/ InFile(q) /\ ~InFile(q)' /\ (InQueue(q)' => InQueue(q)) /\ ~InFlight(q)
         \/ InFile(q) /\ ~InFile(q)' /\ (InFlight(q)' => InFlight(q)) /\ ~InQueue(q)
  PROVE  (store[q] + Chances(q) <= 1 + cuts[q])'
<1>1. store[q] \in Nat /\ cuts[q] \in Nat
  BY DEF TypeOK
<1>2. store[q] + Chances(q) <= 1 + cuts[q]
  BY DEF Counted
<1> QED
  BY <1>1, <1>2 DEF Chances, One

LEMMA OnceInit == ASSUME QsosAssumption, TypeOK, Init PROVE OnceInv
<1>1. OnePlace
  BY EmptyDistinct, EmptyHolds DEF Init, OnePlace
<1>2. Fresh
  BY DEF Init, Fresh, QsosAssumption
<1>3. ASSUME NEW q \in Qsos PROVE store[q] + Chances(q) <= 1 + cuts[q]
  <2>1. store[q] = 0 /\ cuts[q] = 0
    BY DEF Init
  <2>2. ~InQueue(q) /\ orphan # q /\ ~InFile(q) /\ ~InFlight(q)
    BY EmptyHolds DEF Init, InQueue, InFile, InFlight, QsosAssumption
  <2> QED
    BY <2>1, <2>2 DEF Chances, One
<1> QED
  BY <1>1, <1>2, <1>3 DEF OnceInv, Counted

\* A record that leaves the queue, or the file's copy, leaves it for good.
LEMMA QueueLeft ==
  ASSUME TypeOK, OnePlace, queue # << >>
  PROVE  /\ Head(queue) \in Qsos /\ Head(queue) \in ToSet(queue)
         /\ ToSet(Tail(queue)) = ToSet(queue) \ {Head(queue)}
         /\ IsInjective(Tail(queue))
<1>1. queue \in Seq(Qsos) /\ IsInjective(queue)
  BY DEF TypeOK, OnePlace
<1>2. Head(queue) \in Qsos /\ ToSet(queue) = ToSet(Tail(queue)) \cup {Head(queue)}
  BY <1>1, TailHolds
<1>3. IsInjective(Tail(queue)) /\ Head(queue) \notin ToSet(Tail(queue))
  BY <1>1, TailKeepsDistinct
<1> QED
  BY <1>2, <1>3

LEMMA RecoveredLeft ==
  ASSUME TypeOK, OnePlace, recovered # << >>
  PROVE  /\ Head(recovered) \in Qsos /\ Head(recovered) \in ToSet(recovered)
         /\ ToSet(Tail(recovered)) = ToSet(recovered) \ {Head(recovered)}
         /\ IsInjective(Tail(recovered))
<1>1. recovered \in Seq(Qsos) /\ IsInjective(recovered)
  BY DEF TypeOK, OnePlace
<1>2. Head(recovered) \in Qsos /\ ToSet(recovered) = ToSet(Tail(recovered)) \cup {Head(recovered)}
  BY <1>1, TailHolds
<1>3. IsInjective(Tail(recovered)) /\ Head(recovered) \notin ToSet(Tail(recovered))
  BY <1>1, TailKeepsDistinct
<1> QED
  BY <1>2, <1>3

\* A record given up joins the file, or nothing; the file holds it once.
LEMMA JournalOnce ==
  ASSUME TypeOK, OnePlace, NEW q \in Qsos, q \notin ToSet(journal), Journal(q)
  PROVE  IsInjective(journal') /\ ToSet(journal') \subseteq ToSet(journal) \cup {q}
<1>1. journal \in Seq(Qsos) /\ IsInjective(journal)
  BY DEF TypeOK, OnePlace
<1>2. CASE journal' = Append(journal, q)
  <2>1. IsInjective(Append(journal, q))
    BY <1>1, AppendKeepsDistinct
  <2>2. ToSet(Append(journal, q)) = ToSet(journal) \cup {q}
    BY <1>1, AppendHolds
  <2> QED
    BY <1>2, <2>1, <2>2
<1>3. CASE journal' = journal
  BY <1>1, <1>3
<1> QED
  BY <1>2, <1>3 DEF Journal

LEMMA DrainOnce ==
  ASSUME QsosAssumption, LogInv, LogInv', OnceInv, Drain
  PROVE  OnceInv'
<1> USE DEF LogInv, OnceInv
<1> SUFFICES OnePlace' /\ Fresh' /\ \A q \in Qsos : (store[q] + Chances(q) <= 1 + cuts[q])'
  BY DEF Counted
<1>0. /\ phase = "running" /\ phase' = "running" /\ queue # << >>
      /\ UNCHANGED <<store, cuts, orphan, completed, recovered>>
  BY DEF Drain, DrainBegins, DrainSucceeds, DrainFails, DrainSpills, InHand, disk, history
<1>1. Fresh'
  BY <1>0 DEF Fresh
<1>2. CASE DrainBegins \/ DrainFails
  <2>1. OnePlace'
    BY <1>0, <1>2 DEF OnePlace, DrainBegins, DrainFails, disk
  <2>2. ASSUME NEW q \in Qsos PROVE (store[q] + Chances(q) <= 1 + cuts[q])'
    <3>1. InQueue(q)' => InQueue(q)
      BY <1>0, <1>2 DEF InQueue, DrainBegins, DrainFails, CallStore, StoreAnswers
    <3>2. (InFile(q)' => InFile(q)) /\ ~InFlight(q)'
      BY <1>0, <1>2 DEF InFile, InFlight, DrainBegins, DrainFails, disk
    <3> QED
      BY <1>0, <3>1, <3>2, FewerChances
  <2> QED
    BY <1>1, <2>1, <2>2
<1>3. CASE DrainSucceeds
  <2>1. queue' = Tail(queue) /\ journal' = journal /\ hand = Head(queue) /\ outcome = "inserted"
    BY <1>0, <1>3 DEF DrainSucceeds, InHand, disk
  <2>2. OnePlace'
    BY <1>0, <2>1, QueueLeft DEF OnePlace
  <2>3. ASSUME NEW q \in Qsos PROVE (store[q] + Chances(q) <= 1 + cuts[q])'
    <3>1. InQueue(q)' => InQueue(q)
      BY <1>0, <2>1, QueueLeft DEF InQueue
    <3>2. (InFile(q)' => InFile(q)) /\ ~InFlight(q)'
      BY <1>0, <2>1 DEF InFile, InFlight
    <3> QED
      BY <1>0, <3>1, <3>2, FewerChances
  <2> QED
    BY <1>1, <2>2, <2>3
<1>4. CASE DrainSpills
  <2>1. queue' = Tail(queue) /\ Journal(hand) /\ hand = Head(queue) /\ outcome = "failed" /\ outcome' = "none"
    BY <1>0, <1>4 DEF DrainSpills, StoreAnswers, InHand
  <2>2. /\ hand \in Qsos /\ hand \in ToSet(queue) /\ hand \notin ToSet(journal)
        /\ ToSet(queue') = ToSet(queue) \ {hand} /\ IsInjective(queue')
    BY <1>0, <2>1, QueueLeft DEF OnePlace
  <2>3. IsInjective(journal') /\ ToSet(journal') \subseteq ToSet(journal) \cup {hand}
    BY <2>1, <2>2, JournalOnce
  <2>4. OnePlace'
    BY <1>0, <2>2, <2>3 DEF OnePlace
  <2>5. ASSUME NEW q \in Qsos PROVE (store[q] + Chances(q) <= 1 + cuts[q])'
    <3>1. CASE q = hand
      <4>1. InQueue(q) /\ ~InQueue(q)' /\ ~InFile(q) /\ ~InFlight(q)'
        BY <1>0, <2>1, <2>2, <3>1 DEF InQueue, InFile, InFlight
      <4> QED
        BY <1>0, <4>1, SameChances
    <3>2. CASE q # hand
      <4>1. (InQueue(q)' => InQueue(q)) /\ (InFile(q)' => InFile(q)) /\ ~InFlight(q)'
        BY <1>0, <2>1, <2>2, <2>3, <3>2 DEF InQueue, InFile, InFlight
      <4> QED
        BY <1>0, <4>1, FewerChances
    <3> QED
      BY <3>1, <3>2
  <2> QED
    BY <1>1, <2>4, <2>5
<1> QED
  BY <1>2, <1>3, <1>4 DEF Drain

LEMMA FlushOnce ==
  ASSUME QsosAssumption, LogInv, LogInv', OnceInv, Flush
  PROVE  OnceInv'
<1> USE DEF LogInv, OnceInv
<1> SUFFICES OnePlace' /\ Fresh' /\ \A q \in Qsos : (store[q] + Chances(q) <= 1 + cuts[q])'
  BY DEF Counted
<1>0. phase \in {"flushing", "retrying"} /\ UNCHANGED <<store, cuts, orphan, completed>>
  BY DEF Flush, FlushTakes, FlushReturns, FlushReadsJournal, RetryTakes, RetryReturns, FlushEnds,
         volatile, disk, history
<1>1. Fresh'
  BY <1>0 DEF Fresh
<1>2. CASE FlushTakes
  <2>1. /\ phase = "flushing" /\ phase' = "flushing" /\ queue # << >> /\ outcome = "none"
        /\ hand' = Head(queue) /\ outcome' = "writing" /\ queue' = Tail(queue)
        /\ UNCHANGED <<recovered, journal>>
    BY <1>2 DEF FlushTakes, CallStore, disk
  <2>2. /\ hand' \in ToSet(queue) /\ hand' \notin ToSet(journal)
        /\ ToSet(queue') = ToSet(queue) \ {hand'} /\ IsInjective(queue')
    BY <2>1, QueueLeft DEF OnePlace
  <2>3. OnePlace'
    BY <2>1, <2>2 DEF OnePlace
  <2>4. ASSUME NEW q \in Qsos PROVE (store[q] + Chances(q) <= 1 + cuts[q])'
    <3>1. ~InFlight(q) /\ InFile(q)' = InFile(q)
      BY <2>1 DEF InFlight, InFile
    <3>2. CASE q = hand'
      <4>1. InQueue(q) /\ ~InQueue(q)' /\ ~InFile(q)
        BY <2>1, <2>2, <3>2 DEF InQueue, InFile
      <4> QED
        BY <1>0, <3>1, <4>1, SameChances
    <3>3. CASE q # hand'
      <4>1. (InQueue(q)' => InQueue(q)) /\ ~InFlight(q)'
        BY <2>1, <2>2, <3>3 DEF InQueue, InFlight
      <4> QED
        BY <1>0, <3>1, <4>1, FewerChances
    <3> QED
      BY <3>2, <3>3
  <2> QED
    BY <1>1, <2>3, <2>4
<1>3. CASE FlushReturns
  <2>1. /\ phase = "flushing" /\ phase' = "flushing" /\ outcome \in {"inserted", "failed"}
        /\ hand' = NoQso /\ outcome' = "none" /\ UNCHANGED <<queue, recovered>>
    BY <1>3 DEF FlushReturns, StoreAnswers
  <2>2. hand \in Qsos /\ hand \notin ToSet(queue) /\ hand \notin ToSet(journal)
    BY <2>1 DEF OnePlace, InHand, TypeOK
  <2>3. /\ IsInjective(journal') /\ ToSet(journal') \subseteq ToSet(journal) \cup {hand}
        /\ outcome = "inserted" => journal' = journal
    <3>1. CASE outcome = "inserted"
      BY <1>3, <3>1 DEF FlushReturns, OnePlace
    <3>2. CASE outcome # "inserted"
      BY <1>3, <2>2, <3>2, JournalOnce DEF FlushReturns
    <3> QED
      BY <3>1, <3>2
  <2>4. NoQso \notin ToSet(queue) /\ NoQso \notin ToSet(journal')
    <3>1. \A s \in Seq(Qsos) : ToSet(s) \subseteq Qsos
      BY ElementOfSeq DEF ToSet
    <3> QED
      BY <3>1 DEF TypeOK, QsosAssumption
  <2>5. OnePlace'
    BY <2>1, <2>2, <2>3, <2>4 DEF OnePlace
  <2>6. ASSUME NEW q \in Qsos PROVE (store[q] + Chances(q) <= 1 + cuts[q])'
    <3>1. InQueue(q)' = InQueue(q) /\ ~InFlight(q)'
      BY <2>1 DEF InQueue, InFlight
    <3>2. CASE q = hand /\ outcome = "failed"
      <4>1. InFlight(q) /\ ~InFile(q)
        BY <2>1, <2>2, <3>2 DEF InFlight, InFile
      <4> QED
        BY <1>0, <3>1, <4>1, SameChances
    <3>3. CASE q # hand \/ outcome = "inserted"
      <4>1. InFile(q)' => InFile(q)
        BY <2>1, <2>3, <3>3 DEF InFile
      <4> QED
        BY <1>0, <3>1, <4>1, FewerChances
    <3> QED
      BY <2>1, <3>2, <3>3
  <2> QED
    BY <1>1, <2>5, <2>6
<1>4. CASE FlushReadsJournal
  <2>1. /\ phase = "flushing" /\ phase' = "retrying" /\ recovered' = journal
        /\ UNCHANGED <<queue, hand, outcome, journal>>
    BY <1>4 DEF FlushReadsJournal, disk
  <2>2. OnePlace'
    BY <2>1 DEF OnePlace
  <2>3. ASSUME NEW q \in Qsos PROVE (store[q] + Chances(q) <= 1 + cuts[q])'
    <3>1. InQueue(q)' = InQueue(q) /\ InFile(q)' = InFile(q) /\ InFlight(q)' = InFlight(q)
      BY <2>1 DEF InQueue, InFile, InFlight
    <3> QED
      BY <1>0, <3>1, FewerChances
  <2> QED
    BY <1>1, <2>2, <2>3
<1>5. CASE RetryTakes
  <2>1. /\ phase = "retrying" /\ phase' = "retrying" /\ recovered # << >> /\ outcome = "none"
        /\ hand' = Head(recovered) /\ outcome' = "writing" /\ recovered' = Tail(recovered)
        /\ UNCHANGED <<queue, journal>>
    BY <1>5 DEF RetryTakes, CallStore, disk
  <2>2. /\ hand' \in ToSet(recovered) /\ IsInjective(recovered')
        /\ ToSet(recovered') = ToSet(recovered) \ {hand'}
    BY <2>1, RecoveredLeft
  <2>3. OnePlace'
    BY <2>1, <2>2 DEF OnePlace
  <2>4. ASSUME NEW q \in Qsos PROVE (store[q] + Chances(q) <= 1 + cuts[q])'
    <3>1. ~InFlight(q) /\ (InQueue(q)' => InQueue(q))
      BY <2>1 DEF InFlight, InQueue
    <3>2. CASE q = hand'
      <4>1. InFile(q) /\ ~InFile(q)'
        BY <2>1, <2>2, <3>2 DEF InFile
      <4> QED
        BY <1>0, <3>1, <4>1, SameChances
    <3>3. CASE q # hand'
      <4>1. (InFile(q)' => InFile(q)) /\ ~InFlight(q)'
        BY <2>1, <2>2, <3>3 DEF InFile, InFlight
      <4> QED
        BY <1>0, <3>1, <4>1, FewerChances
    <3> QED
      BY <3>2, <3>3
  <2> QED
    BY <1>1, <2>3, <2>4
<1>6. CASE RetryReturns
  <2>1. /\ phase = "retrying" /\ phase' = "retrying" /\ outcome' = "none"
        /\ UNCHANGED <<queue, recovered, journal>>
    BY <1>6 DEF RetryReturns, StoreAnswers, disk
  <2>2. OnePlace'
    BY <2>1 DEF OnePlace
  <2>3. ASSUME NEW q \in Qsos PROVE (store[q] + Chances(q) <= 1 + cuts[q])'
    <3>1. (InQueue(q)' => InQueue(q)) /\ InFile(q)' = InFile(q) /\ ~InFlight(q)'
      BY <2>1 DEF InQueue, InFile, InFlight
    <3> QED
      BY <1>0, <3>1, FewerChances
  <2> QED
    BY <1>1, <2>2, <2>3
<1>7. CASE FlushEnds
  <2>1. /\ phase = "retrying" /\ phase' = "down" /\ outcome = "none" /\ journal' = << >>
        /\ UNCHANGED <<queue, recovered, hand, outcome>>
    BY <1>7 DEF FlushEnds, volatile
  <2>2. OnePlace'
    BY <2>1, EmptyDistinct, EmptyHolds DEF OnePlace
  <2>3. ASSUME NEW q \in Qsos PROVE (store[q] + Chances(q) <= 1 + cuts[q])'
    <3>1. InQueue(q)' = InQueue(q) /\ ~InFile(q)' /\ ~InFlight(q)'
      BY <2>1, EmptyHolds DEF InQueue, InFile, InFlight
    <3> QED
      BY <1>0, <3>1, FewerChances
  <2> QED
    BY <1>1, <2>2, <2>3
<1> QED
  BY <1>2, <1>3, <1>4, <1>5, <1>6, <1>7 DEF Flush

LEMMA StoreOnce ==
  ASSUME QsosAssumption, LogInv, LogInv', OnceInv, StoreWrites \/ OrphanWrites
  PROVE  OnceInv'
<1> USE DEF LogInv, OnceInv
<1> SUFFICES OnePlace' /\ Fresh' /\ \A q \in Qsos : (store[q] + Chances(q) <= 1 + cuts[q])'
  BY DEF Counted
<1>0. UNCHANGED <<phase, queue, hand, recovered, journal, cuts, completed>>
  BY DEF StoreWrites, OrphanWrites, history
<1>1. OnePlace'
  BY <1>0 DEF OnePlace
<1>2. ASSUME NEW q \in Qsos PROVE store[q] \in Nat /\ cuts[q] \in Nat /\ store[q] + Chances(q) <= 1 + cuts[q]
  BY DEF TypeOK, Counted
<1>3. CASE StoreWrites
  <2>1. /\ outcome = "writing" /\ orphan' = orphan /\ outcome' \in {"inserted", "failed"}
        /\ store' = IF outcome' = "inserted" THEN Once(hand, store) ELSE store
    BY <1>3 DEF StoreWrites
  <2>2. hand \in Qsos /\ hand \in completed
    BY <2>1 DEF InHand, Known, TypeOK
  <2>3. phase = "running" => hand \in ToSet(queue)
    BY <2>1, QueueLeft DEF InHand
  <2>4. \A q \in Qsos : store'[q] = IF outcome' = "inserted" /\ q = hand THEN store[q] + 1 ELSE store[q]
    BY <2>1, <2>2 DEF Once, TypeOK
  <2>5. Fresh'
    BY <1>0, <2>1, <2>2, <2>4 DEF Fresh
  <2>6. ASSUME NEW q \in Qsos PROVE (store[q] + Chances(q) <= 1 + cuts[q])'
    <3>0. InFile(q)' = InFile(q) /\ (orphan = q)' = (orphan = q) /\ cuts'[q] = cuts[q]
      BY <1>0, <2>1 DEF InFile
    <3>1. CASE q = hand /\ outcome' = "inserted"
      <4>1. store'[q] = store[q] + 1 /\ ~InFlight(q)'
        BY <2>4, <3>1 DEF InFlight
      <4>2. CASE phase = "running"
        <5>1. InQueue(q) /\ ~InQueue(q)'
          BY <1>0, <2>1, <2>3, <3>1, <4>2 DEF InQueue
        <5> QED
          BY <1>2, <3>0, <4>1, <5>1 DEF Chances, One
      <4>3. CASE phase # "running"
        <5>1. InFlight(q) /\ InQueue(q)' = InQueue(q)
          BY <1>0, <2>1, <3>1, <4>3 DEF InQueue, InFlight
        <5> QED
          BY <1>2, <3>0, <4>1, <5>1 DEF Chances, One
      <4> QED
        BY <4>2, <4>3
    <3>2. CASE q # hand \/ outcome' = "failed"
      <4>1. store'[q] = store[q] /\ InQueue(q)' = InQueue(q) /\ (InFlight(q)' => InFlight(q))
        BY <1>0, <2>1, <2>4, <3>2 DEF InQueue, InFlight
      <4> QED
        BY <1>2, <3>0, <4>1, FewerChances
    <3> QED
      BY <2>1, <3>1, <3>2
  <2> QED
    BY <1>1, <2>5, <2>6
<1>4. CASE OrphanWrites
  <2>1. orphan \in Qsos /\ orphan' = NoQso /\ outcome' = outcome /\ store' \in {store, Once(orphan, store)}
    BY <1>4 DEF OrphanWrites, TypeOK
  <2>2. \A q \in Qsos : store'[q] = store[q] \/ (q = orphan /\ store'[q] = store[q] + 1)
    BY <2>1 DEF Once, TypeOK
  <2>3. Fresh'
    BY <1>0, <2>1, <2>2 DEF Fresh, QsosAssumption
  <2>4. ASSUME NEW q \in Qsos PROVE (store[q] + Chances(q) <= 1 + cuts[q])'
    <3>1. /\ InQueue(q)' = InQueue(q) /\ InFile(q)' = InFile(q) /\ InFlight(q)' = InFlight(q)
          /\ ~(orphan = q)' /\ cuts'[q] = cuts[q]
      BY <1>0, <2>1 DEF InQueue, InFile, InFlight, QsosAssumption
    <3>2. store'[q] = store[q] \/ (q = orphan /\ store'[q] = store[q] + 1)
      BY <2>2
    <3> QED
      BY <1>2, <3>1, <3>2 DEF Chances, One
  <2> QED
    BY <1>1, <2>3, <2>4
<1> QED
  BY <1>3, <1>4

LEMMA RunOnce ==
  ASSUME QsosAssumption, LogInv, LogInv', OnceInv, Shutdown \/ Recover \/ \E q \in Qsos : Enqueue(q)
  PROVE  OnceInv'
<1> USE DEF LogInv, OnceInv
<1> SUFFICES OnePlace' /\ Fresh' /\ \A q \in Qsos : (store[q] + Chances(q) <= 1 + cuts[q])'
  BY DEF Counted
<1>0. \A s \in Seq(Qsos) : ToSet(s) \subseteq Qsos
  BY ElementOfSeq DEF ToSet
<1>00. NoQso \notin ToSet(queue) \cup ToSet(journal)
  BY <1>0 DEF TypeOK, QsosAssumption
<1>1. CASE ShutdownIdle
  <2>1. /\ phase = "running" /\ phase' = "flushing" /\ outcome = "none" /\ hand = NoQso
        /\ UNCHANGED <<queue, hand, outcome, orphan, recovered, store, journal, completed, cuts>>
    BY <1>1 DEF ShutdownIdle, InHand, volatile, disk, history
  <2>2. OnePlace' /\ Fresh'
    BY <1>00, <2>1 DEF OnePlace, Fresh
  <2>3. ASSUME NEW q \in Qsos PROVE (store[q] + Chances(q) <= 1 + cuts[q])'
    <3>1. (InQueue(q)' => InQueue(q)) /\ InFile(q)' = InFile(q) /\ ~InFlight(q)'
      BY <2>1 DEF InQueue, InFile, InFlight
    <3> QED
      BY <2>1, <3>1, FewerChances
  <2> QED
    BY <2>2, <2>3
<1>2. CASE ShutdownCutsDrain
  <2>1. /\ phase = "running" /\ phase' = "flushing" /\ outcome # "none" /\ hand' = NoQso /\ outcome' = "none"
        /\ orphan' = (IF outcome = "writing" THEN hand ELSE NoQso) /\ cuts' = Once(hand, cuts)
        /\ UNCHANGED <<queue, recovered, store, journal, completed>>
    BY <1>2 DEF ShutdownCutsDrain, StoreAnswers, disk
  <2>2. hand \in Qsos /\ hand \in completed /\ hand \in ToSet(queue)
    BY <2>1, QueueLeft DEF InHand, Known, TypeOK
  <2>3. OnePlace'
    BY <1>00, <2>1 DEF OnePlace
  <2>4. Fresh'
    BY <2>1, <2>2 DEF Fresh, QsosAssumption
  <2>5. ASSUME NEW q \in Qsos PROVE (store[q] + Chances(q) <= 1 + cuts[q])'
    <3>1. InFile(q)' = InFile(q) /\ ~InFlight(q) /\ ~InFlight(q)'
      BY <2>1 DEF InFile, InFlight
    <3>2. CASE q = hand
      <4>1. cuts'[q] = cuts[q] + 1 /\ cuts[q] \in Nat /\ store[q] \in Nat /\ store'[q] = store[q]
        BY <2>1, <3>2 DEF Once, TypeOK
      <4>2. ((orphan = q)' => outcome = "writing") /\ (outcome = "writing" => InQueue(q))
        BY <2>1, <2>2, <3>2 DEF InQueue, QsosAssumption
      <4>3. store[q] + Chances(q) <= 1 + cuts[q]
        BY DEF Counted
      <4> QED
        BY <3>1, <4>1, <4>2, <4>3 DEF Chances, One
    <3>3. CASE q # hand
      <4>1. (InQueue(q)' => InQueue(q)) /\ ~(orphan = q)' /\ cuts'[q] = cuts[q]
        BY <2>1, <2>2, <3>3 DEF InQueue, Once, TypeOK, QsosAssumption
      <4> QED
        BY <2>1, <3>1, <4>1, FewerChances
    <3> QED
      BY <3>2, <3>3
  <2> QED
    BY <2>3, <2>4, <2>5
<1>3. CASE Recover
  <2>1. /\ phase = "booting" /\ phase' = "running" /\ queue = << >> /\ outcome = "none"
        /\ queue' = queue \o journal /\ journal' = << >> /\ journal \in Seq(Qsos)
        /\ UNCHANGED <<hand, outcome, orphan, recovered, store, completed, cuts>>
    BY <1>3 DEF Recover, OnePlace, InHand, TypeOK
  <2>2. queue' = journal
    BY <2>1, ConcatEmpty
  <2>3. OnePlace' /\ Fresh'
    BY <2>1, <2>2, EmptyDistinct, EmptyHolds DEF OnePlace, Fresh
  <2>4. ASSUME NEW q \in Qsos PROVE (store[q] + Chances(q) <= 1 + cuts[q])'
    <3>1. ~InQueue(q) /\ ~InFile(q)' /\ ~InFlight(q) /\ ~InFlight(q)' /\ (InQueue(q)' => InFile(q))
      BY <2>1, <2>2, EmptyHolds DEF InQueue, InFile, InFlight
    <3>2. store[q] \in Nat /\ cuts[q] \in Nat /\ store[q] + Chances(q) <= 1 + cuts[q]
      BY DEF TypeOK, Counted
    <3> QED
      BY <2>1, <3>1, <3>2 DEF Chances, One
  <2> QED
    BY <2>3, <2>4
<1>4. ASSUME NEW r \in Qsos, Enqueue(r) PROVE OnePlace' /\ Fresh' /\ Counted'
  <2>1. /\ phase = "running" /\ phase' = "running" /\ queue' = Append(queue, r)
        /\ completed' = completed \cup {r} /\ queue \in Seq(Qsos)
        /\ UNCHANGED <<hand, outcome, orphan, recovered, store, journal, cuts>>
    BY <1>4 DEF Enqueue, TypeOK, disk
  <2>2. /\ r \notin ToSet(queue) /\ r \notin ToSet(journal) /\ store[r] = 0 /\ orphan # r /\ hand # r
    BY <1>4 DEF Enqueue, Known, Fresh, QsosAssumption
  <2>3. ToSet(queue') = ToSet(queue) \cup {r} /\ IsInjective(queue')
    <3>1. IsInjective(queue)
      BY DEF OnePlace
    <3>2. IsInjective(Append(queue, r))
      BY <2>1, <2>2, <3>1, AppendKeepsDistinct
    <3>3. ToSet(Append(queue, r)) = ToSet(queue) \cup {r}
      BY <2>1, AppendHolds
    <3> QED
      BY <2>1, <3>2, <3>3
  <2>4. OnePlace' /\ Fresh'
    BY <2>1, <2>2, <2>3 DEF OnePlace, Fresh
  <2>5. ASSUME NEW q \in Qsos PROVE (store[q] + Chances(q) <= 1 + cuts[q])'
    <3>1. InFile(q)' = InFile(q) /\ ~InFlight(q)'
      BY <2>1 DEF InFile, InFlight
    <3>2. CASE q = r
      <4>1. ~InFile(q) /\ ~(orphan = q)' /\ store'[q] = 0 /\ cuts'[q] \in Nat
        BY <2>1, <2>2, <3>2 DEF InFile, TypeOK
      <4> QED
        BY <3>1, <4>1 DEF Chances, One
    <3>3. CASE q # r
      <4>1. InQueue(q)' = InQueue(q)
        BY <2>1, <2>3, <3>3 DEF InQueue
      <4> QED
        BY <2>1, <3>1, <4>1, FewerChances
    <3> QED
      BY <3>2, <3>3
  <2> QED
    BY <2>4, <2>5 DEF Counted
<1> QED
  BY <1>1, <1>2, <1>3, <1>4 DEF Shutdown, Counted

LEMMA BootOnce ==
  ASSUME QsosAssumption, LogInv, LogInv', OnceInv, Crash \/ Restart
  PROVE  OnceInv'
<1> USE DEF LogInv, OnceInv
<1>1. /\ phase' = "booting" /\ queue' = << >> /\ recovered' = << >> /\ hand' = NoQso
      /\ outcome' = "none" /\ orphan' = NoQso /\ UNCHANGED <<store, journal, completed>>
  BY DEF Crash, Restart, Boots, disk
<1>2. \A s \in Seq(Qsos) : ToSet(s) \subseteq Qsos
  BY ElementOfSeq DEF ToSet
<1>3. OnePlace'
  BY <1>1, <1>2, EmptyDistinct, EmptyHolds DEF OnePlace
<1>4. Fresh'
  BY <1>1 DEF Fresh, QsosAssumption
<1>5. ASSUME NEW q \in Qsos PROVE (store[q] + Chances(q) <= 1 + cuts[q])'
  <2>1. ~InQueue(q)' /\ ~(orphan = q)' /\ ~InFlight(q)' /\ (InFile(q)' <=> q \in ToSet(journal))
    BY <1>1, EmptyHolds DEF InQueue, InFile, InFlight, QsosAssumption
  <2>2. store'[q] = store[q] /\ store[q] \in Nat /\ cuts[q] \in Nat /\ store[q] + Chances(q) <= 1 + cuts[q]
    BY <1>1 DEF TypeOK, Counted
  <2>3. CASE phase = "retrying"
    <3>1. cuts'[q] = cuts[q] + IF q \in ToSet(journal) THEN 1 ELSE 0
      BY <2>3 DEF Crash, Restart
    <3> QED
      BY <2>1, <2>2, <3>1 DEF Chances, One
  <2>4. CASE phase # "retrying"
    <3>1. cuts'[q] = cuts[q]
      BY <2>2, <2>4 DEF Crash, Restart
    <3>2. InFile(q)' = InFile(q)
      BY <2>1, <2>4 DEF InFile
    <3> QED
      BY <2>1, <2>2, <3>1, <3>2 DEF Chances, One
  <2> QED
    BY <2>3, <2>4
<1> QED
  BY <1>3, <1>4, <1>5 DEF Counted

LEMMA OnceStep ==
  ASSUME QsosAssumption, LogInv, LogInv', OnceInv, [Next]_vars
  PROVE  OnceInv'
<1>1. CASE UNCHANGED vars
  BY <1>1 DEF OnceInv, OnePlace, Fresh, Counted, Chances, InQueue, InFile, InFlight,
              vars, volatile, disk, history
<1>2. CASE Next
  BY <1>2, DrainOnce, FlushOnce, StoreOnce, RunOnce, BootOnce DEF Next
<1> QED
  BY <1>1, <1>2

\* No retry, spill, recovery or flush writes a record twice: only the end of
\* a process that cuts a call off does (server/engine/qso_log.py).
THEOREM OnlyCutsWriteTwice == Spec => []OnlyCutsDuplicate
<1>1. Init => LogInv /\ OnceInv
  BY LogInit, OnceInit, QsosAssumption, AttemptsAssumption DEF LogInv
<1>2. (LogInv /\ OnceInv) /\ [Next]_vars => (LogInv /\ OnceInv)'
  BY LogStep, OnceStep, QsosAssumption, AttemptsAssumption
<1>3. LogInv /\ OnceInv => OnlyCutsDuplicate
  <2> SUFFICES ASSUME LogInv, OnceInv, NEW q \in Qsos PROVE store[q] <= 1 + cuts[q]
    BY DEF OnlyCutsDuplicate
  <2>1. store[q] \in Nat /\ cuts[q] \in Nat /\ store[q] + Chances(q) <= 1 + cuts[q]
    BY DEF LogInv, TypeOK, OnceInv, Counted
  <2> QED
    BY <2>1 DEF Chances, One
<1> QED
  BY <1>1, <1>2, <1>3, PTL DEF Spec

-----------------------------------------------------------------------------
(***************************************************************************)
(* The worked set leaves the queue alone: each of its steps is one of the  *)
(* queue's or a stutter.                                                   *)
(***************************************************************************)
LEMMA WStepIsLogStep == [WNext]_wvars => [Next]_vars
<1> SUFFICES ASSUME [WNext]_wvars PROVE [Next]_vars
  OBVIOUS
<1>1. CASE UNCHANGED wvars
  BY <1>1 DEF wvars
<1>2. CASE LogWrites \/ Boot
  BY <1>2 DEF LogWrites, Boot, Next
<1>3. CASE LogDrains \/ LogFlushes \/ LogRest
  BY <1>3 DEF LogDrains, LogFlushes, LogRest, Log, Next
<1>4. CASE \/ \E q \in Qsos \cup Imports : SideWrites(q)
           \/ \E q \in Qsos : Void(q)
           \/ \E q \in Imports : Import(q)
  BY <1>4 DEF SideWrites, Void, Import
<1>5. CASE \/ Freshens("decode")
           \/ \E r \in Scanners : Scans(r)
           \/ \E r \in Readers : Freshens(r)
  BY <1>5 DEF Freshens, Scans
<1> QED
  BY <1>1, <1>2, <1>3, <1>4, <1>5 DEF WNext

\* The detailed specification implements the queue's.
THEOREM WorkedSetIsAQueue == WSpec => Spec
<1>1. WInit => Init
  BY DEF WInit
<1> QED
  BY <1>1, WStepIsLogStep, PTL DEF WSpec, Spec

\* RecordsKept, with undos, imports and summaries beside the queue.
THEOREM RecordsAreKeptBesideReaders == WSpec => []RecordsKept
BY WorkedSetIsAQueue, RecordsAreKept, PTL

\* OnlyCutsDuplicate, with undos, imports and summaries beside the queue.
THEOREM OnlyCutsWriteTwiceBesideReaders == WSpec => []OnlyCutsDuplicate
BY WorkedSetIsAQueue, OnlyCutsWriteTwice, PTL

-----------------------------------------------------------------------------
(***************************************************************************)
(* The flag. StaleIsKnown is not inductive: it must also be known that     *)
(* nobody is writing when the flag is down, since the one who writes has   *)
(* raised it already and will not raise it again.                          *)
(***************************************************************************)
FlagInv == ~dirty /\ ~raced => cache = <<Summary>> /\ ~Writing

\* What a step of the queue's tasks does to the store: nothing; and a write it
\* has begun raises the flag, unless it was under way.
LEMMA LogRaises ==
  ASSUME LogDrains \/ LogFlushes \/ LogRest
  PROVE  /\ UNCHANGED <<store, worked, cache, raced>>
         /\ ~dirty' => ~dirty /\ (Writing' => Writing)
<1>1. ASSUME Drain \/ Flush
      PROVE  UNCHANGED <<store, orphan>>
  <2>1. CASE Drain
    BY <2>1 DEF Drain, DrainBegins, DrainSucceeds, DrainFails, DrainSpills, disk
  <2>2. CASE Flush
    BY <2>2 DEF Flush, FlushTakes, FlushReturns, FlushReadsJournal, RetryTakes, RetryReturns, FlushEnds,
                volatile, disk
  <2> QED
    BY <1>1, <2>1, <2>2
<1>2. ASSUME Shutdown \/ Recover \/ \E q \in Qsos : Enqueue(q)
      PROVE  UNCHANGED store /\ (orphan' # NoQso => orphan # NoQso \/ outcome = "writing")
  <2>1. CASE Shutdown
    BY <2>1 DEF Shutdown, ShutdownIdle, ShutdownCutsDrain, volatile, disk
  <2>2. CASE Recover \/ \E q \in Qsos : Enqueue(q)
    BY <2>2 DEF Recover, Enqueue, disk
  <2> QED
    BY <1>2, <2>1, <2>2
<1>3. /\ dirty' = (dirty \/ (outcome' = "writing" /\ outcome # "writing"))
      /\ UNCHANGED <<worked, cache, raced>>
  BY DEF LogDrains, LogFlushes, LogRest, Log
<1>4. ~dirty' => ~dirty /\ (outcome' = "writing" => outcome = "writing")
  BY <1>3
<1>5. UNCHANGED store /\ (orphan' # NoQso => orphan # NoQso \/ outcome = "writing")
  BY <1>1, <1>2 DEF LogDrains, LogFlushes, LogRest, Log
<1>6. Writing' /\ ~Writing => outcome' = "writing" /\ outcome # "writing"
  BY <1>3, <1>5 DEF Writing, worked
<1> QED
  BY <1>3, <1>4, <1>5, <1>6

LEMMA FlagStep == FlagInv /\ [WNext]_wvars => FlagInv'
<1> SUFFICES ASSUME FlagInv, [WNext]_wvars PROVE FlagInv'
  OBVIOUS
<1>1. CASE UNCHANGED wvars
  BY <1>1 DEF FlagInv, Summary, Writing, wvars, vars, volatile, disk, worked
<1>2. CASE LogWrites
  BY <1>2 DEF LogWrites, StoreWrites, OrphanWrites, FlagInv, Writing
<1>3. CASE Boot
  BY <1>3 DEF Boot, FlagInv
<1>4. CASE LogDrains \/ LogFlushes \/ LogRest
  BY <1>4, LogRaises DEF FlagInv, Summary, Writing, worked
<1>5. CASE \E q \in Qsos \cup Imports : SideWrites(q)
  BY <1>5 DEF SideWrites, FlagInv, Writing
<1>6. CASE (\E q \in Qsos : Void(q)) \/ \E q \in Imports : Import(q)
  BY <1>6 DEF Void, Import, FlagInv
<1>7. CASE \E r \in Scanners : Scans(r)
  BY <1>7 DEF Scans, FlagInv, Summary, Writing, vars, volatile, disk, worked
<1>8. CASE \E r \in Scanners : Freshens(r)
  BY <1>8 DEF Freshens, FlagInv, Summary, Writing, vars, volatile, disk, worked
<1> QED
  BY <1>1, <1>2, <1>3, <1>4, <1>5, <1>6, <1>7, <1>8 DEF WNext, Scanners

\* A worked set that is not the store's has its flag up, or was taken for
\* current beside a write (repository.dxcc_dirty, _fresh_dxcc_cache).
THEOREM StaleIsFlagged == WSpec => []StaleIsKnown
<1>1. WInit => FlagInv
  BY DEF WInit, FlagInv
<1>2. FlagInv => StaleIsKnown
  BY DEF FlagInv, StaleIsKnown
<1> QED
  BY <1>1, <1>2, FlagStep, PTL DEF WSpec

IsSummary(c) == c = None \/ \E S \in SUBSET (Qsos \cup Imports) : c = <<S>>

SummariesOK == IsSummary(cache) /\ DOMAIN scan = Scanners /\ \A r \in Scanners : IsSummary(scan[r])
WrittenOK == voids \in [Qsos -> Nat] /\ imported \subseteq Imports /\ sides \subseteq Qsos \cup Imports
MarksOK == dirty \in BOOLEAN /\ raced \in BOOLEAN

LEMMA SummariesKept == ASSUME WrittenOK, SummariesOK, [WNext]_wvars PROVE SummariesOK'
<1>1. Summary \in SUBSET (Qsos \cup Imports)
  BY DEF Summary, WrittenOK
<1>2. IsSummary(<<Summary>>) /\ IsSummary(None)
  BY <1>1 DEF IsSummary
<1>3. SUFFICES /\ IsSummary(cache') /\ DOMAIN scan' = Scanners
               /\ \A r \in Scanners : IsSummary(scan'[r])
  BY DEF SummariesOK, IsSummary
<1>4. CASE UNCHANGED <<cache, scan>>
  BY <1>4 DEF SummariesOK
<1>5. CASE Boot
  BY <1>2, <1>5 DEF Boot
<1>6. ASSUME NEW r \in Scanners, Scans(r) \/ Freshens(r)
      PROVE  /\ IsSummary(cache') /\ DOMAIN scan' = Scanners
             /\ \A x \in Scanners : IsSummary(scan'[x])
  BY <1>2, <1>6 DEF Scans, Freshens, SummariesOK
<1>7. CASE \/ LogWrites \/ LogDrains \/ LogFlushes \/ LogRest \/ UNCHANGED wvars
           \/ \E q \in Qsos \cup Imports : SideWrites(q)
           \/ \E q \in Qsos : Void(q)
           \/ \E q \in Imports : Import(q)
  BY <1>4, <1>7 DEF LogWrites, LogDrains, LogFlushes, LogRest, Log, wvars, SideWrites, Void, Import
<1> QED
  BY <1>5, <1>6, <1>7 DEF WNext, Scanners

LEMMA WrittenKept == ASSUME WrittenOK, [WNext]_wvars PROVE WrittenOK'
<1>1. CASE UNCHANGED worked
  BY <1>1 DEF worked, WrittenOK
<1>2. ASSUME NEW q \in Qsos \cup Imports, SideWrites(q) PROVE WrittenOK'
  <2>1. voids' \in [Qsos -> Nat]
    BY <1>2 DEF SideWrites, WrittenOK
  <2>2. imported' \subseteq Imports /\ sides' \subseteq Qsos \cup Imports
    BY <1>2 DEF SideWrites, WrittenOK
  <2> QED
    BY <2>1, <2>2 DEF WrittenOK
<1>3. CASE Boot \/ (\E q \in Qsos : Void(q)) \/ (\E q \in Imports : Import(q))
  BY <1>3 DEF Boot, Void, Import, WrittenOK
<1>4. CASE \/ LogWrites \/ LogDrains \/ LogFlushes \/ LogRest \/ UNCHANGED wvars
           \/ \E r \in Scanners : Scans(r) \/ Freshens(r)
  BY <1>1, <1>4 DEF LogWrites, LogDrains, LogFlushes, LogRest, Log, wvars, Scans, Freshens
<1> QED
  BY <1>2, <1>3, <1>4 DEF WNext, Scanners

LEMMA MarksKept == ASSUME MarksOK, [WNext]_wvars PROVE MarksOK'
<1>1. CASE LogDrains \/ LogFlushes \/ LogRest
  BY <1>1, Zenon DEF LogDrains, LogFlushes, LogRest, Log, MarksOK
<1>2. CASE Boot \/ (\E q \in Qsos : Void(q)) \/ (\E q \in Imports : Import(q))
  BY <1>2, Zenon DEF Boot, Void, Import, MarksOK
<1>3. ASSUME NEW r \in Scanners, Freshens(r) PROVE MarksOK'
  BY <1>3, Zenon DEF Freshens, MarksOK
<1>4. CASE \/ LogWrites \/ UNCHANGED wvars
           \/ \E r \in Scanners : Scans(r)
           \/ \E q \in Qsos \cup Imports : SideWrites(q)
  <2>1. UNCHANGED <<dirty, raced>>
    BY <1>4 DEF LogWrites, wvars, Scans, SideWrites
  <2> QED
    BY <2>1, Zenon DEF MarksOK
<1> QED
  BY <1>1, <1>2, <1>3, <1>4 DEF WNext, Scanners

\* The cache and every scan hold one summary or none, whatever restarts, and
\* what is counted void or imported is of the log (dxcc_cache and the callers of
\* dxcc_summary()).
THEOREM WorkedTypeCorrect == WSpec => []WTypeOK
<1> DEFINE Inv == WrittenOK /\ SummariesOK /\ MarksOK
<1>1. WInit => Inv
  <2>1. WInit => WrittenOK /\ SummariesOK
    BY DEF WInit, WrittenOK, SummariesOK, IsSummary
  <2>2. WInit => MarksOK
    BY Zenon DEF WInit, MarksOK
  <2> QED
    BY <2>1, <2>2
<1>2. Inv /\ [WNext]_wvars => Inv'
  BY SummariesKept, WrittenKept, MarksKept
<1>3. Inv => WTypeOK
  BY Zenon DEF WTypeOK, WrittenOK, SummariesOK, MarksOK, IsSummary
<1> QED
  BY <1>1, <1>2, <1>3, PTL DEF WSpec

-----------------------------------------------------------------------------
(***************************************************************************)
(* The canonical log, as committed and as the transaction has it, beside R, *)
(* the rows of RUMLogNG. PulledIsKept and NeverEchoed are not inductive: a *)
(* row that has been linked must be known to match its link (or a pull     *)
(* would skip a row on the word of a stale link), to be pushed and to wait *)
(* for nothing (or a tick would queue it again), and the rows in hand must *)
(* be all there are between the cursor and the last of them.               *)
(***************************************************************************)
QsoRow == [call : Calls, at : Times, status : {"completed", "void"}, uuid : Nat,
           pushed : BOOLEAN, age : Nat]
RumlogRow == [call : Calls, at : Times, kept : BOOLEAN]

Same(q, row) == q.call = row.call /\ Near(q.at, row.at)

LogOK(l, R) ==
  /\ DOMAIN l = {"qso", "pending", "cursor"}
  /\ l.qso \in Seq(QsoRow) /\ l.cursor \in 0 .. Len(R) /\ DOMAIN l.pending \subseteq Ids(l)

Linked(l, R) ==
  \A i \in Ids(l) : l.qso[i].uuid # NoUuid =>
    /\ l.qso[i].uuid \in 1 .. Len(R) /\ Same(l.qso[i], R[l.qso[i].uuid])
    /\ l.qso[i].pushed /\ i \notin DOMAIN l.pending

AllKept(l, R) ==
  \A pk \in 1 .. l.cursor : R[pk].kept => \E i \in Ids(l) : Same(l.qso[i], R[pk])

LogInvariant(l, R) == LogOK(l, R) /\ Linked(l, R) /\ AllKept(l, R)

\* The rows in hand, of those past the cursor.
RowsInHand(l, R, S) ==
  /\ S \subseteq {pk \in 1 .. Len(R) : pk > l.cursor}
  /\ \A pk \in 1 .. Len(R), r \in S : l.cursor < pk /\ pk <= r /\ R[pk].kept => pk \in S

SyncInv ==
  /\ rumlog \in Seq(RumlogRow)
  /\ LogInvariant(log, rumlog) /\ LogInvariant(tx, rumlog)
  /\ round \in {"idle", "pulling", "pushing"}
  /\ round = "idle" => tx = log
  /\ RowsInHand(tx, rumlog, rows) /\ (round # "pulling" => rows = {})
  /\ to_push \cup batch \cup ok \subseteq Unpushed(tx)
  /\ round # "pushing" => to_push = {} /\ batch = {} /\ ok = {}

-----------------------------------------------------------------------------
(***************************************************************************)
(* What becomes of a log: a row is added, or the rows are changed in their *)
(* places.                                                                 *)
(***************************************************************************)
LEMMA IdsAre == ASSUME NEW l, NEW R, LogOK(l, R) PROVE Ids(l) = 1 .. Len(l.qso) /\ Len(l.qso) \in Nat
BY DEF LogOK, Ids

LEMMA AppendIs ==
  ASSUME NEW l, NEW R, LogOK(l, R), NEW q \in QsoRow
  PROVE  LET m == [l EXCEPT !.qso = Append(@, q)] IN
         /\ LogOK(m, R) /\ m.cursor = l.cursor /\ m.pending = l.pending
         /\ Ids(m) = Ids(l) \cup {Len(l.qso) + 1} /\ Len(l.qso) + 1 \notin Ids(l)
         /\ m.qso[Len(l.qso) + 1] = q /\ \A i \in Ids(l) : m.qso[i] = l.qso[i]
<1> DEFINE m == [l EXCEPT !.qso = Append(@, q)]
           s == Append(l.qso, q)
           n == Len(l.qso)
<1>1. m.qso = s /\ m.cursor = l.cursor /\ m.pending = l.pending /\ DOMAIN m = DOMAIN l
  BY DEF LogOK
<1>2. /\ s \in Seq(QsoRow) /\ Len(s) = n + 1 /\ n \in Nat /\ s[n + 1] = q
      /\ \A i \in 1 .. n : s[i] = l.qso[i]
  BY DEF LogOK
<1> HIDE DEF s, m
<1>3. Ids(l) = 1 .. n /\ Ids(m) = 1 .. n + 1
  BY <1>1, <1>2, IdsAre DEF Ids
<1>4. LogOK(m, R)
  BY <1>1, <1>2, <1>3 DEF LogOK
<1>5. /\ Ids(m) = Ids(l) \cup {n + 1} /\ n + 1 \notin Ids(l)
      /\ m.qso[n + 1] = q /\ \A i \in Ids(l) : m.qso[i] = l.qso[i]
  BY <1>1, <1>2, <1>3
<1> QED
  BY <1>1, <1>4, <1>5 DEF m

LEMMA ChangeIs ==
  ASSUME NEW l, NEW R, LogOK(l, R), NEW m, DOMAIN m = DOMAIN l, m.cursor = l.cursor,
         m.qso \in [Ids(l) -> QsoRow], DOMAIN m.pending \subseteq Ids(l)
  PROVE  LogOK(m, R) /\ Ids(m) = Ids(l)
<1>1. PICK n \in Nat : Ids(l) = 1 .. n
  BY IdsAre
<1>2. m.qso \in Seq(QsoRow) /\ DOMAIN m.qso = Ids(l)
  BY <1>1, SeqDef
<1> QED
  BY <1>2 DEF LogOK, Ids

\* What no part of a round changes of a row.
Alike(p, q) == p.call = q.call /\ p.at = q.at /\ p.status = q.status

LEMMA RowIs == ASSUME NEW l, NEW R, LogOK(l, R), NEW i \in Ids(l) PROVE l.qso[i] \in QsoRow
BY DEF LogOK, Ids

LEMMA RowConfirmed ==
  ASSUME NEW q \in QsoRow, NEW pk
  PROVE  LET p == [q EXCEPT !.uuid = pk, !.pushed = TRUE]
         IN Alike(p, q) /\ p.uuid = pk /\ p.pushed = TRUE
BY DEF QsoRow, Alike

LEMMA RowPushed ==
  ASSUME NEW q \in QsoRow, NEW b
  PROVE  LET p == [q EXCEPT !.pushed = b] IN Alike(p, q) /\ p.uuid = q.uuid /\ p.pushed = b
BY DEF QsoRow, Alike

LEMMA RowAged ==
  ASSUME NEW q \in QsoRow, NEW a
  PROVE  LET p == [q EXCEPT !.age = a] IN Alike(p, q) /\ p.uuid = q.uuid /\ p.pushed = q.pushed
BY DEF QsoRow, Alike

Confirmed(m, l, R, pk, matched) ==
  /\ LogOK(m, R) /\ Ids(m) = Ids(l) /\ m.cursor = l.cursor
  /\ \A i \in Ids(l) : /\ Alike(m.qso[i], l.qso[i])
                       /\ i \in matched => m.qso[i].uuid = pk /\ m.qso[i].pushed = TRUE
                       /\ i \notin matched => m.qso[i] = l.qso[i]
  /\ DOMAIN m.pending = DOMAIN l.pending \ matched

LEMMA ConfirmIs ==
  ASSUME NEW l, NEW R, LogOK(l, R), NEW pk \in Nat, NEW matched
  PROVE  Confirmed(Confirm(l, pk, matched), l, R, pk, matched)
<1> DEFINE m == Confirm(l, pk, matched)
           f == [i \in Ids(l) |-> IF i \in matched THEN [l.qso[i] EXCEPT !.uuid = pk, !.pushed = TRUE]
                                                   ELSE l.qso[i]]
<1>1. /\ m.qso = f /\ m.cursor = l.cursor /\ DOMAIN m = DOMAIN l
      /\ DOMAIN m.pending = DOMAIN l.pending \ matched
  BY DEF LogOK, Confirm, Restrict
<1>2. \A i \in Ids(l) : l.qso[i] \in QsoRow
  BY DEF LogOK, Ids
<1>3. f \in [Ids(l) -> QsoRow]
  BY <1>2 DEF QsoRow
<1> HIDE DEF m
<1>4. DOMAIN m.pending \subseteq Ids(l)
  BY <1>1 DEF LogOK
<1>5. LogOK(m, R) /\ Ids(m) = Ids(l)
  BY <1>1, <1>3, <1>4, ChangeIs
<1>7. ASSUME NEW i \in Ids(l)
      PROVE  /\ Alike(m.qso[i], l.qso[i])
             /\ i \in matched => m.qso[i].uuid = pk /\ m.qso[i].pushed = TRUE
             /\ i \notin matched => m.qso[i] = l.qso[i]
  <2>1. l.qso[i] \in QsoRow /\ m.qso[i] = f[i]
    BY <1>1, RowIs
  <2>2. CASE i \in matched
    <3> DEFINE q == l.qso[i]
               p == [q EXCEPT !.uuid = pk, !.pushed = TRUE]
    <3>1. m.qso[i] = p
      BY <2>1, <2>2
    <3>2. Alike(p, q) /\ p.uuid = pk /\ p.pushed = TRUE
      BY <2>1, RowConfirmed
    <3> HIDE DEF p
    <3> QED
      BY <2>2, <3>1, <3>2
  <2>3. CASE i \notin matched
    BY <2>1, <2>3 DEF Alike
  <2> QED
    BY <2>2, <2>3
<1> QED
  BY <1>1, <1>5, <1>7 DEF Confirmed, m

LEMMA TickIs ==
  ASSUME NEW l, NEW R, LogOK(l, R)
  PROVE  LET m == Tick(l) IN
         /\ LogOK(m, R) /\ Ids(m) = Ids(l) /\ m.cursor = l.cursor
         /\ \A i \in Ids(l) : /\ Alike(m.qso[i], l.qso[i]) /\ m.qso[i].uuid = l.qso[i].uuid
                              /\ i \in Overdue(l) => m.qso[i].pushed = FALSE
                              /\ i \notin Overdue(l) => m.qso[i] = l.qso[i]
         /\ DOMAIN m.pending = DOMAIN l.pending \ Overdue(l)
<1> DEFINE m == Tick(l)
           f == [i \in Ids(l) |-> IF i \in Overdue(l) THEN [l.qso[i] EXCEPT !.pushed = FALSE]
                                                      ELSE l.qso[i]]
<1>1. /\ m.qso = f /\ m.cursor = l.cursor /\ DOMAIN m = DOMAIN l
      /\ DOMAIN m.pending = DOMAIN l.pending \ Overdue(l)
  BY DEF LogOK, Tick
<1>2. \A i \in Ids(l) : l.qso[i] \in QsoRow
  BY DEF LogOK, Ids
<1>3. f \in [Ids(l) -> QsoRow]
  BY <1>2 DEF QsoRow
<1> HIDE DEF m
<1>4. DOMAIN m.pending \subseteq Ids(l)
  BY <1>1 DEF LogOK
<1>5. LogOK(m, R) /\ Ids(m) = Ids(l)
  BY <1>1, <1>3, <1>4, ChangeIs
<1>7. ASSUME NEW i \in Ids(l)
      PROVE  /\ Alike(m.qso[i], l.qso[i]) /\ m.qso[i].uuid = l.qso[i].uuid
             /\ i \in Overdue(l) => m.qso[i].pushed = FALSE
             /\ i \notin Overdue(l) => m.qso[i] = l.qso[i]
  <2>1. l.qso[i] \in QsoRow /\ m.qso[i] = f[i]
    BY <1>1, RowIs
  <2>2. CASE i \in Overdue(l)
    <3> DEFINE q == l.qso[i]
               p == [q EXCEPT !.pushed = FALSE]
    <3>1. m.qso[i] = p
      BY <2>1, <2>2
    <3>2. Alike(p, q) /\ p.uuid = q.uuid /\ p.pushed = FALSE
      BY <2>1, RowPushed
    <3> HIDE DEF p
    <3> QED
      BY <2>2, <3>1, <3>2
  <2>3. CASE i \notin Overdue(l)
    BY <2>1, <2>3 DEF Alike
  <2> QED
    BY <2>2, <2>3
<1> QED
  BY <1>1, <1>5, <1>7 DEF m

LEMMA MarkIs ==
  ASSUME NEW l, NEW R, LogOK(l, R), NEW ids \in SUBSET Ids(l)
  PROVE  LET m == MarkPushed(l, ids) IN
         /\ LogOK(m, R) /\ Ids(m) = Ids(l) /\ m.cursor = l.cursor
         /\ \A i \in Ids(l) : /\ Alike(m.qso[i], l.qso[i]) /\ m.qso[i].uuid = l.qso[i].uuid
                              /\ i \in ids => m.qso[i].pushed = TRUE
                              /\ i \notin ids => m.qso[i] = l.qso[i]
         /\ DOMAIN m.pending = DOMAIN l.pending \cup ids
<1> DEFINE m == MarkPushed(l, ids)
           f == [i \in Ids(l) |-> IF i \in ids THEN [l.qso[i] EXCEPT !.pushed = TRUE] ELSE l.qso[i]]
<1>1. /\ m.qso = f /\ m.cursor = l.cursor /\ DOMAIN m = DOMAIN l
      /\ DOMAIN m.pending = DOMAIN l.pending \cup ids
  BY DEF LogOK, MarkPushed
<1>2. \A i \in Ids(l) : l.qso[i] \in QsoRow
  BY DEF LogOK, Ids
<1>3. f \in [Ids(l) -> QsoRow]
  BY <1>2 DEF QsoRow
<1> HIDE DEF m
<1>4. DOMAIN m.pending \subseteq Ids(l)
  BY <1>1 DEF LogOK
<1>5. LogOK(m, R) /\ Ids(m) = Ids(l)
  BY <1>1, <1>3, <1>4, ChangeIs
<1>7. ASSUME NEW i \in Ids(l)
      PROVE  /\ Alike(m.qso[i], l.qso[i]) /\ m.qso[i].uuid = l.qso[i].uuid
             /\ i \in ids => m.qso[i].pushed = TRUE
             /\ i \notin ids => m.qso[i] = l.qso[i]
  <2>1. l.qso[i] \in QsoRow /\ m.qso[i] = f[i]
    BY <1>1, RowIs
  <2>2. CASE i \in ids
    <3> DEFINE q == l.qso[i]
               p == [q EXCEPT !.pushed = TRUE]
    <3>1. m.qso[i] = p
      BY <2>1, <2>2
    <3>2. Alike(p, q) /\ p.uuid = q.uuid /\ p.pushed = TRUE
      BY <2>1, RowPushed
    <3> HIDE DEF p
    <3> QED
      BY <2>2, <3>1, <3>2
  <2>3. CASE i \notin ids
    BY <2>1, <2>3 DEF Alike
  <2> QED
    BY <2>2, <2>3
<1> QED
  BY <1>1, <1>5, <1>7 DEF m

LEMMA AgedIs ==
  ASSUME NEW l, NEW R, LogOK(l, R)
  PROVE  LET m == Aged(l) IN
         /\ LogOK(m, R) /\ Ids(m) = Ids(l) /\ m.cursor = l.cursor /\ m.pending = l.pending
         /\ \A i \in Ids(l) : /\ Alike(m.qso[i], l.qso[i]) /\ m.qso[i].uuid = l.qso[i].uuid
                              /\ m.qso[i].pushed = l.qso[i].pushed
<1> DEFINE m == Aged(l)
           g(i) == Min({l.qso[i].age + 1, Settled})
           f == [i \in Ids(l) |-> [l.qso[i] EXCEPT !.age = g(i)]]
<1>1. m.qso = f /\ m.cursor = l.cursor /\ DOMAIN m = DOMAIN l /\ m.pending = l.pending
  BY DEF LogOK, Aged
<1>2. \A i \in Ids(l) : l.qso[i] \in QsoRow
  BY DEF LogOK, Ids
<1>3. \A i \in Ids(l) : g(i) \in Nat
  <2> SUFFICES ASSUME NEW i \in Ids(l) PROVE g(i) \in Nat
    OBVIOUS
  <2>1. l.qso[i].age \in Nat
    BY <1>2 DEF QsoRow
  <2> DEFINE y == IF l.qso[i].age + 1 < 2 THEN l.qso[i].age + 1 ELSE 2
  <2>2. y \in {l.qso[i].age + 1, Settled} /\ \A z \in {l.qso[i].age + 1, Settled} : y <= z
    BY <2>1 DEF Settled
  <2>3. g(i) \in {l.qso[i].age + 1, Settled}
    BY <2>2 DEF Min
  <2> QED
    BY <2>1, <2>3 DEF Settled
<1> HIDE DEF g
<1>4. f \in [Ids(l) -> QsoRow]
  BY <1>2, <1>3 DEF QsoRow
<1> HIDE DEF m
<1>5. DOMAIN m.pending \subseteq Ids(l)
  BY <1>1 DEF LogOK
<1>6. LogOK(m, R) /\ Ids(m) = Ids(l)
  BY <1>1, <1>4, <1>5, ChangeIs
<1>7. ASSUME NEW i \in Ids(l)
      PROVE  /\ Alike(m.qso[i], l.qso[i]) /\ m.qso[i].uuid = l.qso[i].uuid
             /\ m.qso[i].pushed = l.qso[i].pushed
  <2>1. l.qso[i] \in QsoRow /\ m.qso[i] = f[i]
    BY <1>1, RowIs
  <2>2. m.qso[i] = [l.qso[i] EXCEPT !.age = g(i)]
    BY <2>1
  <2> DEFINE q == l.qso[i]
             p == [q EXCEPT !.age = g(i)]
  <2>3. Alike(p, q) /\ p.uuid = q.uuid /\ p.pushed = q.pushed
    BY <2>1, RowAged
  <2> HIDE DEF p
  <2> QED
    BY <2>2, <2>3 DEF p
<1> QED
  BY <1>1, <1>6, <1>7 DEF m

-----------------------------------------------------------------------------
(***************************************************************************)
(* Every part of a round keeps the invariant of a log.                     *)
(***************************************************************************)
LEMMA SameRow == ASSUME NEW q, NEW p, NEW row, Alike(p, q) PROVE Same(p, row) <=> Same(q, row)
BY DEF Same, Alike

\* Rows that keep their station and time serve the rows pulled so far.
LEMMA KeptStays ==
  ASSUME NEW l, NEW m, NEW R, AllKept(l, R), m.cursor = l.cursor, Ids(l) \subseteq Ids(m),
         \A i \in Ids(l) : m.qso[i].call = l.qso[i].call /\ m.qso[i].at = l.qso[i].at
  PROVE  AllKept(m, R)
BY DEF AllKept, Same

LEMMA LogAppends ==
  ASSUME NEW l, NEW R, LogInvariant(l, R), NEW q \in QsoRow,
         q.uuid # NoUuid => q.uuid \in 1 .. Len(R) /\ Same(q, R[q.uuid]) /\ q.pushed
  PROVE  LogInvariant([l EXCEPT !.qso = Append(@, q)], R)
<1> DEFINE m == [l EXCEPT !.qso = Append(@, q)]
           n == Len(l.qso) + 1
<1>1. /\ LogOK(m, R) /\ m.cursor = l.cursor /\ m.pending = l.pending
      /\ Ids(m) = Ids(l) \cup {n} /\ n \notin Ids(l)
      /\ m.qso[n] = q /\ \A i \in Ids(l) : m.qso[i] = l.qso[i]
  BY AppendIs, ZenonT(60) DEF LogInvariant
<1> HIDE DEF m, n
<1>2. n \notin DOMAIN m.pending
  BY <1>1 DEF LogInvariant, LogOK
<1>3. Linked(m, R)
  BY <1>1, <1>2 DEF LogInvariant, Linked
<1>4. AllKept(m, R)
  BY <1>1, KeptStays DEF LogInvariant, Alike
<1> QED
  BY <1>1, <1>3, <1>4 DEF LogInvariant, m

LEMMA LogConfirms ==
  ASSUME NEW l, NEW R, LogInvariant(l, R), NEW pk \in Nat, pk \in 1 .. Len(R), NEW matched \in SUBSET Ids(l),
         \A i \in matched : Same(l.qso[i], R[pk])
  PROVE  LogInvariant(Confirm(l, pk, matched), R)
<1> DEFINE m == Confirm(l, pk, matched)
<1>0. LogOK(l, R)
  BY DEF LogInvariant
<1> HIDE DEF m
<1>1. Confirmed(m, l, R, pk, matched)
  BY <1>0, ConfirmIs DEF m
<1> USE DEF Confirmed
<1>3. ASSUME NEW i \in Ids(m), m.qso[i].uuid # NoUuid
      PROVE  /\ m.qso[i].uuid \in 1 .. Len(R) /\ Same(m.qso[i], R[m.qso[i].uuid])
             /\ m.qso[i].pushed /\ i \notin DOMAIN m.pending
  <2>1. CASE i \in matched
    <3>1. i \in Ids(l) /\ Same(l.qso[i], R[pk])
      BY <2>1
    <3>2. /\ Alike(m.qso[i], l.qso[i]) /\ m.qso[i].uuid = pk /\ m.qso[i].pushed = TRUE /\ i \notin DOMAIN m.pending
      BY <1>1, <2>1, <3>1
    <3>3. Same(m.qso[i], R[pk])
      BY <3>1, <3>2, SameRow
    <3> QED
      BY <3>2, <3>3
  <2>2. CASE i \notin matched
    BY <1>1, <1>3, <2>2 DEF LogInvariant, Linked
  <2> QED
    BY <2>1, <2>2
<1>4. AllKept(m, R)
  <2>1. m.cursor = l.cursor /\ Ids(l) \subseteq Ids(m) /\ \A i \in Ids(l) : Alike(m.qso[i], l.qso[i])
    BY <1>1
  <2> QED
    BY <2>1, KeptStays DEF LogInvariant, Alike
<1> QED
  BY <1>1, <1>3, <1>4 DEF LogInvariant, Linked, m

LEMMA LogTicks == ASSUME NEW l, NEW R, LogInvariant(l, R) PROVE LogInvariant(Tick(l), R)
<1> DEFINE m == Tick(l)
<1>0. LogOK(l, R)
  BY DEF LogInvariant
<1>1. /\ LogOK(m, R) /\ Ids(m) = Ids(l) /\ m.cursor = l.cursor
      /\ \A i \in Ids(l) : /\ Alike(m.qso[i], l.qso[i]) /\ m.qso[i].uuid = l.qso[i].uuid
                           /\ i \in Overdue(l) => m.qso[i].pushed = FALSE
                           /\ i \notin Overdue(l) => m.qso[i] = l.qso[i]
      /\ DOMAIN m.pending = DOMAIN l.pending \ Overdue(l)
  BY <1>0, TickIs
<1> HIDE DEF m
<1>3. ASSUME NEW i \in Ids(m), m.qso[i].uuid # NoUuid
      PROVE  /\ m.qso[i].uuid \in 1 .. Len(R) /\ Same(m.qso[i], R[m.qso[i].uuid])
             /\ m.qso[i].pushed /\ i \notin DOMAIN m.pending
  <2>1. i \notin DOMAIN l.pending
    BY <1>1, <1>3 DEF LogInvariant, Linked
  <2>2. m.qso[i] = l.qso[i]
    BY <1>1, <2>1 DEF Overdue
  <2> QED
    BY <1>1, <1>3, <2>1, <2>2 DEF LogInvariant, Linked
<1>4. AllKept(m, R)
  <2>1. m.cursor = l.cursor /\ Ids(l) \subseteq Ids(m) /\ \A i \in Ids(l) : Alike(m.qso[i], l.qso[i])
    BY <1>1
  <2> QED
    BY <2>1, KeptStays DEF LogInvariant, Alike
<1> QED
  BY <1>1, <1>3, <1>4 DEF LogInvariant, Linked, m

LEMMA LogMarks ==
  ASSUME NEW l, NEW R, LogInvariant(l, R), NEW ids \in SUBSET Unpushed(l)
  PROVE  LogInvariant(MarkPushed(l, ids), R)
<1> DEFINE m == MarkPushed(l, ids)
<1>0. LogOK(l, R) /\ ids \in SUBSET Ids(l)
  BY DEF LogInvariant, Unpushed
<1>1. /\ LogOK(m, R) /\ Ids(m) = Ids(l) /\ m.cursor = l.cursor
      /\ \A i \in Ids(l) : /\ Alike(m.qso[i], l.qso[i]) /\ m.qso[i].uuid = l.qso[i].uuid
                           /\ i \in ids => m.qso[i].pushed = TRUE
                           /\ i \notin ids => m.qso[i] = l.qso[i]
      /\ DOMAIN m.pending = DOMAIN l.pending \cup ids
  BY <1>0, MarkIs
<1> HIDE DEF m
<1>3. ASSUME NEW i \in Ids(m), m.qso[i].uuid # NoUuid
      PROVE  /\ m.qso[i].uuid \in 1 .. Len(R) /\ Same(m.qso[i], R[m.qso[i].uuid])
             /\ m.qso[i].pushed /\ i \notin DOMAIN m.pending
  <2>1. i \notin ids
    BY <1>1, <1>3 DEF LogInvariant, Linked, Unpushed
  <2> QED
    BY <1>1, <1>3, <2>1 DEF LogInvariant, Linked
<1>4. AllKept(m, R)
  <2>1. m.cursor = l.cursor /\ Ids(l) \subseteq Ids(m) /\ \A i \in Ids(l) : Alike(m.qso[i], l.qso[i])
    BY <1>1
  <2> QED
    BY <2>1, KeptStays DEF LogInvariant, Alike
<1> QED
  BY <1>1, <1>3, <1>4 DEF LogInvariant, Linked, m

LEMMA LogAges == ASSUME NEW l, NEW R, LogInvariant(l, R) PROVE LogInvariant(Aged(l), R)
<1> DEFINE m == Aged(l)
<1>0. LogOK(l, R)
  BY DEF LogInvariant
<1>1. /\ LogOK(m, R) /\ Ids(m) = Ids(l) /\ m.cursor = l.cursor /\ m.pending = l.pending
      /\ \A i \in Ids(l) : /\ Alike(m.qso[i], l.qso[i]) /\ m.qso[i].uuid = l.qso[i].uuid
                           /\ m.qso[i].pushed = l.qso[i].pushed
  BY <1>0, AgedIs
<1> HIDE DEF m
<1>3. Linked(m, R)
  BY <1>1, SameRow DEF LogInvariant, Linked
<1>4. AllKept(m, R)
  <2>1. m.cursor = l.cursor /\ Ids(l) \subseteq Ids(m) /\ \A i \in Ids(l) : Alike(m.qso[i], l.qso[i])
    BY <1>1
  <2> QED
    BY <2>1, KeptStays DEF LogInvariant, Alike
<1> QED
  BY <1>1, <1>3, <1>4 DEF LogInvariant, m

LEMMA LogVoids ==
  ASSUME NEW l, NEW R, LogInvariant(l, R), NEW i \in Ids(l)
  PROVE  LET m == [l EXCEPT !.qso[i].status = "void"] IN
         /\ LogInvariant(m, R) /\ Ids(m) = Ids(l) /\ m.cursor = l.cursor /\ m.pending = l.pending
         /\ m.qso[i].status = "void"
         /\ \A j \in Ids(l) : /\ m.qso[j].call = l.qso[j].call /\ m.qso[j].at = l.qso[j].at
                              /\ m.qso[j].uuid = l.qso[j].uuid /\ m.qso[j].pushed = l.qso[j].pushed
                              /\ j # i => m.qso[j].status = l.qso[j].status
<1> DEFINE m == [l EXCEPT !.qso[i].status = "void"]
           q == [l.qso[i] EXCEPT !.status = "void"]
<1>0. LogOK(l, R)
  BY DEF LogInvariant
<1>1. /\ m.qso = [l.qso EXCEPT ![i] = q] /\ m.cursor = l.cursor /\ m.pending = l.pending
      /\ DOMAIN m = DOMAIN l
  BY <1>0 DEF LogOK
<1>2. l.qso[i] \in QsoRow
  BY <1>0, RowIs
<1>3. /\ q \in QsoRow /\ q.call = l.qso[i].call /\ q.at = l.qso[i].at /\ q.uuid = l.qso[i].uuid
      /\ q.pushed = l.qso[i].pushed /\ q.status = "void"
  BY <1>2 DEF QsoRow
<1> HIDE DEF q, m
<1>4. m.qso \in [Ids(l) -> QsoRow] /\ m.qso[i] = q /\ \A j \in Ids(l) : j # i => m.qso[j] = l.qso[j]
  BY <1>0, <1>1, <1>3, RowIs DEF LogOK, Ids
<1>5. DOMAIN m.pending \subseteq Ids(l)
  BY <1>0, <1>1 DEF LogOK
<1>6. LogOK(m, R) /\ Ids(m) = Ids(l)
  BY <1>0, <1>1, <1>4, <1>5, ChangeIs
<1>7. \A j \in Ids(l) : /\ m.qso[j].call = l.qso[j].call /\ m.qso[j].at = l.qso[j].at
                        /\ m.qso[j].uuid = l.qso[j].uuid /\ m.qso[j].pushed = l.qso[j].pushed
                        /\ j # i => m.qso[j].status = l.qso[j].status
  BY <1>3, <1>4
<1>8. Linked(m, R)
  <2> SUFFICES ASSUME NEW j \in Ids(m), m.qso[j].uuid # NoUuid
               PROVE  /\ m.qso[j].uuid \in 1 .. Len(R) /\ Same(m.qso[j], R[m.qso[j].uuid])
                      /\ m.qso[j].pushed /\ j \notin DOMAIN m.pending
    BY DEF Linked
  <2> DEFINE u == l.qso[j].uuid
  <2>1. j \in Ids(l) /\ u # NoUuid /\ m.qso[j].uuid = u
    BY <1>6, <1>7
  <2>2. u \in 1 .. Len(R) /\ Same(l.qso[j], R[u]) /\ l.qso[j].pushed /\ j \notin DOMAIN l.pending
    BY <2>1 DEF LogInvariant, Linked
  <2>3. Same(m.qso[j], R[u])
    BY <1>7, <2>1, <2>2 DEF Same
  <2> QED
    BY <1>1, <1>7, <2>1, <2>2, <2>3
<1>9. AllKept(m, R)
  <2>1. \A j \in Ids(l) : m.qso[j].call = l.qso[j].call /\ m.qso[j].at = l.qso[j].at
    BY <1>7
  <2>2. AllKept(l, R) /\ m.cursor = l.cursor /\ Ids(l) \subseteq Ids(m)
    BY <1>1, <1>6 DEF LogInvariant
  <2> QED
    BY <2>1, <2>2, KeptStays
<1> QED
  BY <1>1, <1>3, <1>4, <1>6, <1>7, <1>8, <1>9 DEF LogInvariant, m

\* RUMLogNG goes on: rows are added, and rows are deleted.
LEMMA LogOutlives ==
  ASSUME NEW l, NEW R, NEW Q, LogInvariant(l, R), Len(R) \in Nat, Len(Q) \in Nat, Len(R) <= Len(Q),
         \A pk \in 1 .. Len(R) : /\ Q[pk].call = R[pk].call /\ Q[pk].at = R[pk].at
                                 /\ Q[pk].kept => R[pk].kept
  PROVE  LogInvariant(l, Q) /\ \A S : RowsInHand(l, R, S) => RowsInHand(l, Q, S)
<1>1. LogOK(l, Q)
  BY DEF LogInvariant, LogOK
<1>2. \A pk \in 1 .. Len(R) : pk \in 1 .. Len(Q) /\ \A q : Same(q, Q[pk]) <=> Same(q, R[pk])
  BY DEF Same
<1>3. Linked(l, Q)
  <2>1. Linked(l, R)
    BY DEF LogInvariant
  <2> QED
    BY <1>2, <2>1 DEF Linked
<1>4. AllKept(l, Q)
  <2> SUFFICES ASSUME NEW pk \in 1 .. l.cursor, Q[pk].kept
               PROVE  \E i \in Ids(l) : Same(l.qso[i], Q[pk])
    BY DEF AllKept
  <2>1. pk \in 1 .. Len(R) /\ AllKept(l, R)
    BY DEF LogInvariant, LogOK
  <2>2. R[pk].kept
    BY <2>1
  <2>3. \E i \in Ids(l) : Same(l.qso[i], R[pk])
    BY <2>1, <2>2 DEF AllKept
  <2> QED
    BY <1>2, <2>1, <2>3
<1>5. ASSUME NEW S, RowsInHand(l, R, S) PROVE RowsInHand(l, Q, S)
  <2>1. S \subseteq {pk \in 1 .. Len(Q) : pk > l.cursor}
    BY <1>2, <1>5 DEF RowsInHand
  <2>2. ASSUME NEW pk \in 1 .. Len(Q), NEW r \in S, l.cursor < pk, pk <= r, Q[pk].kept
        PROVE  pk \in S
    <3>1. r \in 1 .. Len(R)
      BY <1>5 DEF RowsInHand
    <3>2. pk \in 1 .. Len(R)
      BY <2>2, <3>1
    <3>3. R[pk].kept
      BY <2>2, <3>2
    <3> QED
      BY <1>5, <2>2, <3>2, <3>3 DEF RowsInHand
  <2> QED
    BY <2>1, <2>2 DEF RowsInHand
<1> QED
  BY <1>1, <1>3, <1>4, <1>5 DEF LogInvariant

\* The cursor passes a row that the log has, and none that it lacks.
LEMMA LogPasses ==
  ASSUME NEW l, NEW R, LogInvariant(l, R), NEW pk \in Nat, pk \in 1 .. Len(R),
         \E i \in Ids(l) : Same(l.qso[i], R[pk]),
         \A p \in 1 .. Len(R) : l.cursor < p /\ p < pk => ~R[p].kept
  PROVE  LET m == [l EXCEPT !.cursor = pk] IN
         /\ LogInvariant(m, R) /\ m.qso = l.qso /\ m.pending = l.pending /\ m.cursor = pk
<1> DEFINE m == [l EXCEPT !.cursor = pk]
<1>0. LogOK(l, R)
  BY DEF LogInvariant
<1>1. m.qso = l.qso /\ m.pending = l.pending /\ m.cursor = pk /\ DOMAIN m = DOMAIN l
  BY <1>0 DEF LogOK
<1> HIDE DEF m
<1>2. Ids(m) = Ids(l)
  BY <1>1 DEF Ids
<1>3. LogOK(m, R)
  BY <1>0, <1>1, <1>2 DEF LogOK
<1>4. Linked(m, R)
  BY <1>1, <1>2 DEF LogInvariant, Linked
<1>5. ASSUME NEW p \in 1 .. pk, R[p].kept
      PROVE  \E i \in Ids(m) : Same(m.qso[i], R[p])
  <2>1. l.cursor \in Nat /\ Len(R) \in Int
    BY <1>0 DEF LogOK
  <2>2. CASE p <= l.cursor
    BY <1>1, <1>2, <1>5, <2>1, <2>2 DEF LogInvariant, AllKept
  <2>3. CASE p = pk
    BY <1>1, <1>2, <2>3
  <2>4. CASE l.cursor < p /\ p < pk
    BY <1>5, <2>1, <2>4
  <2> QED
    BY <2>1, <2>2, <2>3, <2>4
<1> QED
  BY <1>1, <1>3, <1>4, <1>5 DEF LogInvariant, AllKept, m

-----------------------------------------------------------------------------
(***************************************************************************)
(* The merge.                                                              *)
(***************************************************************************)
\* m is l with row merged.
Merged(m, l, row) ==
  /\ Ids(l) \subseteq Ids(m) /\ m.cursor = l.cursor
  /\ \E i \in Ids(m) : Same(m.qso[i], row)
  /\ \A i \in Ids(l) :
       /\ Alike(m.qso[i], l.qso[i])
       /\ l.qso[i].pushed => m.qso[i].pushed
       /\ i \notin DOMAIN l.pending => i \notin DOMAIN m.pending
       /\ l.qso[i].status = "completed" /\ Same(l.qso[i], row)
            => m.qso[i].pushed /\ i \notin DOMAIN m.pending

LEMMA SameAsItself ==
  ASSUME NEW row \in RumlogRow, NEW q, q.call = row.call, q.at = row.at
  PROVE  Same(q, row)
<1>1. row.at \in Nat
  BY SyncAssumption DEF SyncAssumption, RumlogRow
<1>2. q.at - row.at = 0 /\ 0 \in -Window .. Window
  BY <1>1, SyncAssumption DEF SyncAssumption
<1> QED
  BY <1>2 DEF Same, Near

LEMMA PulledIs ==
  ASSUME rumlog \in Seq(RumlogRow), NEW pk \in Nat, pk \in 1 .. Len(rumlog)
  PROVE  /\ Pulled(pk) \in QsoRow /\ Pulled(pk).uuid = pk /\ Pulled(pk).pushed
         /\ Same(Pulled(pk), rumlog[pk])
<1>1. rumlog[pk] \in RumlogRow
  BY ElementOfSeq
<1>2. /\ Pulled(pk) \in QsoRow /\ Pulled(pk).uuid = pk /\ Pulled(pk).pushed = TRUE
      /\ Pulled(pk).call = rumlog[pk].call /\ Pulled(pk).at = rumlog[pk].at
  BY <1>1 DEF Pulled, QsoRow, RumlogRow
<1> QED
  BY <1>1, <1>2, SameAsItself

LEMMA MergeIs ==
  ASSUME rumlog \in Seq(RumlogRow), NEW l, LogInvariant(l, rumlog), NEW pk \in Nat, pk \in 1 .. Len(rumlog)
  PROVE  LogInvariant(Merge(l, pk), rumlog) /\ Merged(Merge(l, pk), l, rumlog[pk])
<1> DEFINE matched == Matching(l, rumlog[pk])
<1>0. LogOK(l, rumlog) /\ matched \subseteq Ids(l)
  BY DEF LogInvariant, Matching
<1>1. \A i \in Ids(l) : i \in matched <=> l.qso[i].status = "completed" /\ Same(l.qso[i], rumlog[pk])
  BY DEF Matching, Same
<1> HIDE DEF matched
<1>2. CASE ByUuid(l, pk) \cup matched = {}
  <2> DEFINE m == Insert(l, pk)
  <2>1. Merge(l, pk) = m
    BY <1>2 DEF Merge, matched
  <2>2. LogInvariant(m, rumlog)
    <3>1. Pulled(pk).uuid \in 1 .. Len(rumlog) /\ Same(Pulled(pk), rumlog[Pulled(pk).uuid]) /\ Pulled(pk).pushed
      BY PulledIs
    <3> QED
      BY <3>1, PulledIs, LogAppends DEF Insert
  <2>3. /\ m.cursor = l.cursor /\ m.pending = l.pending /\ Ids(m) = Ids(l) \cup {Len(l.qso) + 1}
        /\ m.qso[Len(l.qso) + 1] = Pulled(pk) /\ \A i \in Ids(l) : m.qso[i] = l.qso[i]
    BY <1>0, PulledIs, AppendIs, ZenonT(60) DEF Insert
  <2> HIDE DEF m
  <2>4. \A i \in Ids(l) : i \notin matched
    BY <1>2
  <2> QED
    BY <1>1, <2>1, <2>2, <2>3, <2>4, PulledIs DEF Merged, Alike
<1>3. CASE ByUuid(l, pk) \cup matched # {}
  <2> DEFINE m == Confirm(l, pk, matched)
  <2>1. Merge(l, pk) = m
    BY <1>3 DEF Merge, matched
  <2>2. \A i \in matched : Same(l.qso[i], rumlog[pk])
    BY <1>0, <1>1
  <2>3. LogInvariant(m, rumlog)
    BY <1>0, <2>2, LogConfirms
  <2>4. Confirmed(m, l, rumlog, pk, matched)
    BY <1>0, ConfirmIs
  <2> HIDE DEF m
  <2>5. PICK i \in Ids(l) : Same(l.qso[i], rumlog[pk])
    <3>1. CASE matched # {}
      BY <1>0, <2>2, <3>1
    <3>2. CASE matched = {}
      <4>1. PICK i \in Ids(l) : l.qso[i].uuid = pk
        BY <1>3, <3>2 DEF ByUuid
      <4>2. pk # NoUuid
        BY DEF NoUuid
      <4> QED
        BY <4>1, <4>2 DEF LogInvariant, Linked
    <3> QED
      BY <3>1, <3>2
  <2>6. i \in Ids(m) /\ Same(m.qso[i], rumlog[pk])
    BY <2>4, <2>5, SameRow DEF Confirmed
  <2>7. ASSUME NEW j \in Ids(l)
        PROVE  /\ Alike(m.qso[j], l.qso[j])
               /\ l.qso[j].pushed => m.qso[j].pushed
               /\ j \notin DOMAIN l.pending => j \notin DOMAIN m.pending
               /\ j \in matched => m.qso[j].pushed /\ j \notin DOMAIN m.pending
    BY <2>4 DEF Confirmed
  <2>8. Merged(m, l, rumlog[pk])
    BY <1>1, <2>4, <2>6, <2>7 DEF Merged, Confirmed
  <2> QED
    BY <2>1, <2>3, <2>8
<1> QED
  BY <1>2, <1>3

-----------------------------------------------------------------------------
(***************************************************************************)
(* The steps.                                                              *)
(***************************************************************************)
LEMMA SyncStarts == SyncInit => SyncInv
<1> SUFFICES ASSUME SyncInit PROVE SyncInv
  OBVIOUS
<1>1. log.qso = << >> /\ log.pending = << >> /\ log.cursor = 0 /\ DOMAIN log = {"qso", "pending", "cursor"}
  BY DEF SyncInit
<1>2. rumlog = << >> /\ Len(rumlog) = 0 /\ rumlog \in Seq(RumlogRow) /\ Ids(log) = {}
  BY <1>1 DEF SyncInit, Ids
<1>3. LogInvariant(log, rumlog)
  BY <1>1, <1>2 DEF LogInvariant, LogOK, Linked, AllKept, Ids
<1> QED
  BY <1>1, <1>2, <1>3 DEF SyncInit, SyncInv, RowsInHand, Unpushed

\* The next state's invariant, from what the step leaves.
LEMMA LogsChange ==
  ASSUME SyncInv, UNCHANGED rumlog, round' \in {"idle", "pulling", "pushing"},
         LogInvariant(log', rumlog), LogInvariant(tx', rumlog),
         round' = "idle" => tx' = log',
         RowsInHand(tx', rumlog, rows'), round' # "pulling" => rows' = {},
         to_push' \cup batch' \cup ok' \subseteq Unpushed(tx'),
         round' # "pushing" => to_push' = {} /\ batch' = {} /\ ok' = {}
  PROVE  SyncInv'
BY DEF SyncInv

LEMMA NoneInHand == \A l, R : RowsInHand(l, R, {})
BY DEF RowsInHand

LEMMA CommitsKeeps ==
  ASSUME SyncInv, NEW l, LogInvariant(l, rumlog), Commits(l)
  PROVE  SyncInv'
BY LogsChange, NoneInHand DEF Commits, push, SyncInv

LEMMA RumlogChanges ==
  ASSUME SyncInv, rumlog' \in Seq(RumlogRow), Len(rumlog) <= Len(rumlog'),
         \A pk \in 1 .. Len(rumlog) :
           /\ rumlog'[pk].call = rumlog[pk].call /\ rumlog'[pk].at = rumlog[pk].at
           /\ rumlog'[pk].kept => rumlog[pk].kept,
         UNCHANGED <<log, tx, round, rows, ok>>, to_push' \cup batch' \subseteq to_push \cup batch
  PROVE  SyncInv'
<1>1. Len(rumlog) \in Nat /\ Len(rumlog') \in Nat
  BY DEF SyncInv
<1>2. LogInvariant(log, rumlog') /\ LogInvariant(tx, rumlog') /\ RowsInHand(tx, rumlog', rows)
  BY <1>1, LogOutlives DEF SyncInv
<1> QED
  BY <1>2 DEF SyncInv

LEMMA RowAdded ==
  ASSUME rumlog \in Seq(RumlogRow), NEW call \in Calls, NEW at \in Times,
         rumlog' = Append(rumlog, Row(call, at))
  PROVE  /\ rumlog' \in Seq(RumlogRow) /\ Len(rumlog') = Len(rumlog) + 1 /\ Len(rumlog) \in Nat
         /\ rumlog'[Len(rumlog) + 1] = Row(call, at) /\ Row(call, at) \in RumlogRow
         /\ \A pk \in 1 .. Len(rumlog) : rumlog'[pk] = rumlog[pk]
<1>1. Row(call, at) \in RumlogRow
  BY DEF Row, RumlogRow
<1> DEFINE row == Row(call, at)
<1> HIDE DEF row
<1>2. row \in RumlogRow /\ rumlog' = Append(rumlog, row)
  BY <1>1 DEF row
<1> QED
  BY <1>2 DEF row

LEMMA OutsideKeeps ==
  ASSUME SyncInv,
         \/ \E c \in Calls, t \in Times : ServerLogs(c, t) \/ OperatorLogs(c, t)
         \/ \E i \in DOMAIN log.qso : ServerVoids(i)
         \/ \E pk \in DOMAIN rumlog : OperatorDeletes(pk)
  PROVE  SyncInv'
<1>1. ASSUME NEW c \in Calls, NEW t \in Times, ServerLogs(c, t)
      PROVE  SyncInv'
  <2>1. Logged(c, t) \in QsoRow /\ Logged(c, t).uuid = NoUuid
    BY DEF Logged, QsoRow, NoUuid
  <2>2. LogInvariant([log EXCEPT !.qso = Append(@, Logged(c, t))], rumlog)
    BY <2>1, LogAppends DEF SyncInv
  <2> QED
    BY <1>1, <2>2, CommitsKeeps DEF ServerLogs
<1>2. ASSUME NEW c \in Calls, NEW t \in Times, OperatorLogs(c, t)
      PROVE  SyncInv'
  <2>1. /\ rumlog' \in Seq(RumlogRow) /\ Len(rumlog) <= Len(rumlog')
        /\ \A pk \in 1 .. Len(rumlog) : rumlog'[pk] = rumlog[pk]
    BY <1>2, RowAdded DEF OperatorLogs, SyncInv
  <2> QED
    BY <1>2, <2>1, RumlogChanges DEF OperatorLogs, push
<1>3. ASSUME NEW i \in DOMAIN log.qso, ServerVoids(i)
      PROVE  SyncInv'
  <2>1. i \in Ids(log)
    BY DEF Ids
  <2>2. LogInvariant([log EXCEPT !.qso[i].status = "void"], rumlog)
    BY <2>1, LogVoids DEF SyncInv
  <2> QED
    BY <1>3, <2>2, CommitsKeeps DEF ServerVoids
<1>4. ASSUME NEW pk \in DOMAIN rumlog, OperatorDeletes(pk)
      PROVE  SyncInv'
  <2> DEFINE row == [rumlog[pk] EXCEPT !.kept = FALSE]
  <2>1. rumlog \in Seq(RumlogRow) /\ pk \in 1 .. Len(rumlog) /\ rumlog[pk] \in RumlogRow
    BY DEF SyncInv
  <2>2. row \in RumlogRow /\ row.call = rumlog[pk].call /\ row.at = rumlog[pk].at /\ row.kept = FALSE
    BY <2>1 DEF RumlogRow
  <2>3. rumlog' = [rumlog EXCEPT ![pk] = row]
    BY <1>4 DEF OperatorDeletes
  <2> HIDE DEF row
  <2>4. /\ rumlog' \in Seq(RumlogRow) /\ Len(rumlog') = Len(rumlog)
        /\ \A p \in 1 .. Len(rumlog) : rumlog'[p] = IF p = pk THEN row ELSE rumlog[p]
    BY <2>1, <2>2, <2>3, ExceptSeq
  <2>5. \A p \in 1 .. Len(rumlog) : /\ rumlog'[p].call = rumlog[p].call /\ rumlog'[p].at = rumlog[p].at
                                    /\ rumlog'[p].kept => rumlog[p].kept
    BY <2>2, <2>4
  <2>6. Len(rumlog) <= Len(rumlog')
    BY <2>1, <2>4
  <2> QED
    BY <1>4, <2>4, <2>5, <2>6, RumlogChanges DEF OperatorDeletes, push
<1> QED
  BY <1>1, <1>2, <1>3, <1>4

LEMMA StartKeeps == ASSUME SyncInv, RoundStarts PROVE SyncInv'
<1> DEFINE m == Aged(log)
<1>0. LogInvariant(log, rumlog)
  BY DEF SyncInv
<1>1. LogInvariant(m, rumlog) /\ LogOK(log, rumlog)
  BY <1>0, LogAges DEF LogInvariant
<1>2. m.cursor = log.cursor
  BY <1>1, AgedIs
<1>3. /\ rumlog' = rumlog /\ log' = m /\ tx' = m /\ round' = "pulling" /\ rows' = Fetched(log)
      /\ to_push' = {} /\ batch' = {} /\ ok' = {}
  BY DEF RoundStarts, push, SyncInv
<1> HIDE DEF m
<1>4. Fetched(log) = {pk \in 1 .. Len(rumlog) : pk > log.cursor /\ rumlog[pk].kept}
  BY DEF Fetched, SyncInv
<1>5. RowsInHand(m, rumlog, Fetched(log))
  BY <1>2, <1>4 DEF RowsInHand
<1> QED
  BY <1>1, <1>3, <1>5, LogsChange

LEMMA PullKeeps == ASSUME SyncInv, RowPulled PROVE SyncInv'
<1>1. PICK pk \in rows : /\ IsNext(pk, rows) /\ rows' = rows \ {pk}
                         /\ tx' = [Merge(tx, pk) EXCEPT !.cursor = pk]
  BY DEF RowPulled
<1> DEFINE m == Merge(tx, pk)
<1>2. /\ rumlog' = rumlog /\ log' = log /\ round' = "pulling"
      /\ to_push' = {} /\ batch' = {} /\ ok' = {}
  BY DEF RowPulled, push, SyncInv
<1>3. /\ rumlog \in Seq(RumlogRow) /\ LogInvariant(tx, rumlog) /\ LogInvariant(log, rumlog)
      /\ RowsInHand(tx, rumlog, rows)
  BY DEF SyncInv
<1>4. pk \in 1 .. Len(rumlog) /\ pk \in Nat /\ pk > tx.cursor /\ tx.cursor \in Nat /\ Len(rumlog) \in Nat
  BY <1>3 DEF RowsInHand, LogInvariant, LogOK
<1>5. LogInvariant(m, rumlog) /\ Merged(m, tx, rumlog[pk])
  BY <1>3, <1>4, MergeIs
<1>6. tx' = [m EXCEPT !.cursor = pk]
  BY <1>1
<1> HIDE DEF m
<1>7. \A p \in 1 .. Len(rumlog) : m.cursor < p /\ p < pk => ~rumlog[p].kept
  <2> SUFFICES ASSUME NEW p \in 1 .. Len(rumlog), m.cursor < p, p < pk, rumlog[p].kept
               PROVE  FALSE
    OBVIOUS
  <2>1. m.cursor = tx.cursor
    BY <1>5 DEF Merged
  <2>2. p \in rows
    BY <1>3, <1>4, <2>1 DEF RowsInHand
  <2> QED
    BY <1>1, <1>4, <2>2 DEF IsNext
<1>8. LogInvariant(tx', rumlog) /\ tx'.cursor = pk
  BY <1>4, <1>5, <1>6, <1>7, LogPasses DEF Merged
<1>9. RowsInHand(tx', rumlog, rows')
  <2>1. rows' \subseteq {p \in 1 .. Len(rumlog) : p > pk}
    BY <1>1, <1>3, <1>4 DEF RowsInHand, IsNext
  <2>2. ASSUME NEW p \in 1 .. Len(rumlog), NEW r \in rows', pk < p, p <= r, rumlog[p].kept
        PROVE  p \in rows'
    BY <1>1, <1>3, <1>4, <2>2 DEF RowsInHand
  <2> QED
    BY <1>8, <2>1, <2>2 DEF RowsInHand
<1> QED
  BY <1>2, <1>3, <1>8, <1>9, LogsChange

LEMMA PushKeeps == ASSUME SyncInv, PushStarts PROVE SyncInv'
<1>1. LogInvariant(Tick(tx), rumlog) /\ LogInvariant(log, rumlog)
  BY LogTicks DEF SyncInv
<1>2. /\ rumlog' = rumlog /\ log' = log /\ tx' = Tick(tx) /\ round' = "pushing" /\ rows' = {}
      /\ to_push' = Deduped(tx') /\ batch' = {} /\ ok' = {}
  BY DEF PushStarts, SyncInv
<1>3. Deduped(tx') \subseteq Unpushed(tx')
  BY DEF Deduped
<1> QED
  BY <1>1, <1>2, <1>3, LogsChange, NoneInHand

LEMMA SubmitKeeps ==
  ASSUME SyncInv, NEW i \in to_push, Submits(i), UNCHANGED <<log, tx, round, rows, ok>>,
         UNCHANGED rumlog \/ rumlog' = Append(rumlog, Row(tx.qso[i].call, tx.qso[i].at))
  PROVE  SyncInv'
<1>1. to_push' \cup batch' \subseteq to_push \cup batch
  BY DEF Submits
<1>2. CASE UNCHANGED rumlog
  BY <1>1, <1>2, RumlogChanges DEF SyncInv
<1>3. CASE rumlog' = Append(rumlog, Row(tx.qso[i].call, tx.qso[i].at))
  <2>1. tx.qso[i] \in QsoRow
    BY RowIs DEF SyncInv, Unpushed, LogInvariant
  <2>2. tx.qso[i].call \in Calls /\ tx.qso[i].at \in Times
    BY <2>1 DEF QsoRow
  <2>3. /\ rumlog' \in Seq(RumlogRow) /\ Len(rumlog) <= Len(rumlog')
        /\ \A pk \in 1 .. Len(rumlog) : rumlog'[pk] = rumlog[pk]
    BY <1>3, <2>2, RowAdded DEF SyncInv
  <2> QED
    BY <1>1, <2>3, RumlogChanges
<1> QED
  BY <1>2, <1>3

LEMMA RoundKeeps ==
  ASSUME SyncInv, BatchSucceeds \/ BatchFails \/ RoundCommits \/ RoundFails
  PROVE  SyncInv'
<1>1. /\ LogInvariant(tx, rumlog) /\ LogInvariant(log, rumlog) /\ RowsInHand(tx, rumlog, rows)
      /\ to_push \cup batch \cup ok \subseteq Unpushed(tx)
  BY DEF SyncInv
<1>2. CASE BatchSucceeds \/ BatchFails
  <2>1. /\ rumlog' = rumlog /\ log' = log /\ tx' = tx /\ round' = round /\ rows' = rows
        /\ to_push' \subseteq to_push /\ batch' = {} /\ ok' \subseteq ok \cup batch
    BY <1>2 DEF BatchSucceeds, BatchFails
  <2> QED
    BY <1>1, <2>1 DEF SyncInv
<1>3. CASE RoundCommits
  <2>1. LogInvariant(MarkPushed(tx, ok), rumlog)
    BY <1>1, LogMarks
  <2> QED
    BY <1>1, <1>3, <2>1, LogsChange, NoneInHand DEF RoundCommits, Quiet
<1>4. CASE RoundFails
  BY <1>1, <1>4, LogsChange, NoneInHand DEF RoundFails, Quiet
<1> QED
  BY <1>2, <1>3, <1>4

LEMMA SyncStep == SyncInv /\ [SyncNext]_syncVars => SyncInv'
<1> SUFFICES ASSUME SyncInv, [SyncNext]_syncVars PROVE SyncInv'
  OBVIOUS
<1>1. CASE RumlogTakes \/ RumlogIgnores
  BY <1>1, SubmitKeeps DEF RumlogTakes, RumlogIgnores
<1>2. CASE UNCHANGED syncVars
  BY <1>2 DEF syncVars, push, SyncInv
<1> QED
  BY <1>1, <1>2, OutsideKeeps, StartKeeps, PullKeeps, PushKeeps, RoundKeeps DEF SyncNext, Round

\* A pull or a push that fails leaves cursor and retry queue inside the log they
\* belong to (run_sync_once, sync.py).
THEOREM SyncTypeCorrect == SyncSpec => []SyncTypeOK
<1>1. SyncInv => SyncTypeOK
  <2>1. ASSUME SyncInv PROVE Unpushed(tx) \subseteq Ids(tx)
    BY DEF Unpushed
  <2> QED
    BY <2>1 DEF SyncInv, LogInvariant, LogOK, SyncTypeOK
<1> QED
  BY <1>1, SyncStarts, SyncStep, PTL DEF SyncSpec

\* No failure of a round separates the cursor from the rows it has passed
\* (run_sync_once is one transaction; fetch_since never looks back).
THEOREM PulledRowsAreKept == SyncSpec => []PulledIsKept
<1>1. SyncInv => PulledIsKept
  BY DEF SyncInv, LogInvariant, AllKept, Same, PulledIsKept
<1> QED
  BY <1>1, SyncStarts, SyncStep, PTL DEF SyncSpec

\* A QSO that RUMLogNG is known to hold is never pushed again (merge,
\* tick_push_pending, mark_pushed).
THEOREM NothingIsEchoed == SyncSpec => []NeverEchoed
<1>1. SyncInv => NeverEchoed
  BY DEF SyncInv, LogInvariant, Linked, Unpushed, NeverEchoed
<1> QED
  BY <1>1, SyncStarts, SyncStep, PTL DEF SyncSpec

-----------------------------------------------------------------------------
(***************************************************************************)
(* Copies. A QSO that RUMLogNG has more copies of than faults account for  *)
(* is never queued again: it is void, or confirmed, or a row that matches  *)
(* it is on its way to the merge that will confirm it.                     *)
(***************************************************************************)
Copies(i, B) == IF i \in DOMAIN B THEN B[i] ELSE 0

\* Nothing will queue it again.
Done(l, i) ==
  \/ l.qso[i].status = "void"
  \/ l.qso[i].pushed /\ i \notin DOMAIN l.pending

\* Some row of S confirms it when it is merged.
Coming(l, R, S, i) ==
  \E pk \in S : pk \in 1 .. Len(R) /\ pk > l.cursor /\ R[pk].kept /\ Same(l.qso[i], R[pk])

Written(l, R, S, i) == l.qso[i].status = "completed" /\ l.qso[i].pushed /\ Coming(l, R, S, i)

Safe(i) ==
  /\ i \in Ids(tx)
  /\ \/ round = "idle" /\ (Done(tx, i) \/ Written(tx, rumlog, 1 .. Len(rumlog), i))
     \/ round = "pulling" /\ (Done(tx, i) \/ Written(tx, rumlog, rows, i))
     \/ /\ round = "pushing"
        /\ Done(tx, i) \/ (i \in batch \cup ok /\ i \notin to_push /\ Coming(tx, rumlog, 1 .. Len(rumlog), i))

CopiesInv ==
  /\ faults \in Nat /\ \A i \in DOMAIN sent : sent[i] \in Nat
  /\ \A i \in DOMAIN sent : sent[i] <= faults \/ (sent[i] <= 1 + faults /\ Safe(i))

LEMMA CopiesAdded ==
  ASSUME NEW i, \A j \in DOMAIN sent : sent[j] \in Nat, sent' = sent (+) SetToBag({i})
  PROVE  /\ DOMAIN sent' = DOMAIN sent \cup {i}
         /\ \A j \in DOMAIN sent' : sent'[j] = Copies(j, sent) + (IF j = i THEN 1 ELSE 0)
         /\ \A j \in DOMAIN sent' : sent'[j] \in Nat
<1>1. DOMAIN SetToBag({i}) = {i} /\ SetToBag({i})[i] = 1
  BY DEF SetToBag
<1>2. sent' = [e \in DOMAIN sent \cup {i} |->
                 (IF e \in DOMAIN sent THEN sent[e] ELSE 0) + (IF e \in {i} THEN SetToBag({i})[e] ELSE 0)]
  BY <1>1 DEF (+)
<1>3. \A j \in DOMAIN sent' : sent'[j] = Copies(j, sent) + (IF j = i THEN 1 ELSE 0)
  BY <1>1, <1>2 DEF Copies
<1>4. \A j : Copies(j, sent) \in Nat
  BY DEF Copies
<1> QED
  BY <1>2, <1>3, <1>4

\* One more fault accounts for one more copy.
LEMMA FaultAccounts ==
  ASSUME CopiesInv, faults' = faults + 1, sent' = sent
  PROVE  CopiesInv'
BY DEF CopiesInv

LEMMA NoneSent ==
  ASSUME CopiesInv, UNCHANGED <<faults, sent>>, \A i \in DOMAIN sent : Safe(i) => Safe(i)'
  PROVE  CopiesInv'
BY DEF CopiesInv

LEMMA DoneAlike ==
  ASSUME NEW l, NEW m, NEW i, Alike(m.qso[i], l.qso[i]), Done(l, i),
         l.qso[i].pushed => m.qso[i].pushed, i \notin DOMAIN l.pending => i \notin DOMAIN m.pending
  PROVE  Done(m, i)
BY DEF Done, Alike

LEMMA ComingAlike ==
  ASSUME NEW l, NEW m, NEW R, NEW S, NEW i, Alike(m.qso[i], l.qso[i]), m.cursor = l.cursor, Coming(l, R, S, i)
  PROVE  Coming(m, R, S, i)
BY SameRow DEF Coming

\* What the server and the operator do while no round has the log.
LEMMA OutsideOnce ==
  ASSUME SyncInv, CopiesInv,
         \/ \E c \in Calls, t \in Times : ServerLogs(c, t) \/ OperatorLogs(c, t)
         \/ \E i \in DOMAIN log.qso : ServerVoids(i)
         \/ \E pk \in DOMAIN rumlog : OperatorDeletes(pk)
  PROVE  CopiesInv'
<1>1. ASSUME NEW c \in Calls, NEW t \in Times, ServerLogs(c, t)
      PROVE  CopiesInv'
  <2> DEFINE m == [log EXCEPT !.qso = Append(@, Logged(c, t))]
  <2>1. Logged(c, t) \in QsoRow /\ LogOK(log, rumlog)
    BY DEF Logged, QsoRow, NoUuid, SyncInv, LogInvariant
  <2>2. /\ m.cursor = log.cursor /\ m.pending = log.pending
        /\ Ids(m) = Ids(log) \cup {Len(log.qso) + 1}
        /\ \A i \in Ids(log) : m.qso[i] = log.qso[i]
    BY <2>1, AppendIs, ZenonT(60)
  <2>3. round = "idle" /\ tx = log /\ tx' = m /\ UNCHANGED <<rumlog, round, batch, ok, to_push, rows, sent, faults>>
    BY <1>1 DEF ServerLogs, Commits, push, SyncInv
  <2> HIDE DEF m
  <2>4. ASSUME NEW i, Safe(i) PROVE Safe(i)'
    <3>1. i \in Ids(log) /\ (Done(log, i) \/ Written(log, rumlog, 1 .. Len(rumlog), i))
      BY <2>3, <2>4 DEF Safe
    <3>2. m.qso[i] = log.qso[i] /\ i \in Ids(m)
      BY <2>2, <3>1
    <3>3. Done(m, i) \/ Written(m, rumlog, 1 .. Len(rumlog), i)
      BY <2>2, <3>1, <3>2 DEF Done, Written, Coming
    <3> QED
      BY <2>3, <3>2, <3>3 DEF Safe
  <2> QED
    BY <2>3, <2>4, NoneSent
<1>2. ASSUME NEW c \in Calls, NEW t \in Times, OperatorLogs(c, t)
      PROVE  CopiesInv'
  <2>1. /\ Len(rumlog') = Len(rumlog) + 1 /\ Len(rumlog) \in Nat
        /\ \A pk \in 1 .. Len(rumlog) : rumlog'[pk] = rumlog[pk]
    BY <1>2, RowAdded DEF OperatorLogs, SyncInv
  <2>2. UNCHANGED <<tx, round, batch, ok, to_push, rows, sent, faults>>
    BY <1>2 DEF OperatorLogs, push
  <2>3. ASSUME NEW i, NEW S, Coming(tx, rumlog, S, i) PROVE Coming(tx, rumlog', S, i)
    BY <2>1, <2>3 DEF Coming
  <2>4. ASSUME NEW i, Coming(tx, rumlog, 1 .. Len(rumlog), i) PROVE Coming(tx, rumlog', 1 .. Len(rumlog'), i)
    BY <2>1, <2>4 DEF Coming
  <2>5. \A i : Safe(i) => Safe(i)'
    BY <2>2, <2>3, <2>4 DEF Safe, Written
  <2> QED
    BY <2>2, <2>5, NoneSent
<1>3. ASSUME NEW v \in DOMAIN log.qso, ServerVoids(v)
      PROVE  CopiesInv'
  <2> DEFINE m == [log EXCEPT !.qso[v].status = "void"]
  <2>1. v \in Ids(log) /\ LogInvariant(log, rumlog)
    BY DEF Ids, SyncInv
  <2>2. /\ Ids(m) = Ids(log) /\ m.cursor = log.cursor /\ m.pending = log.pending /\ m.qso[v].status = "void"
        /\ \A j \in Ids(log) : /\ m.qso[j].call = log.qso[j].call /\ m.qso[j].at = log.qso[j].at
                               /\ m.qso[j].pushed = log.qso[j].pushed
                               /\ j # v => m.qso[j].status = log.qso[j].status
    BY <2>1, LogVoids
  <2>3. round = "idle" /\ tx = log /\ tx' = m /\ UNCHANGED <<rumlog, round, batch, ok, to_push, rows, sent, faults>>
    BY <1>3 DEF ServerVoids, Commits, push, SyncInv
  <2> HIDE DEF m
  <2>4. ASSUME NEW i, Safe(i) PROVE Safe(i)'
    <3>1. i \in Ids(log) /\ (Done(log, i) \/ Written(log, rumlog, 1 .. Len(rumlog), i))
      BY <2>3, <2>4 DEF Safe
    <3>2. Done(m, i) \/ Written(m, rumlog, 1 .. Len(rumlog), i)
      BY <2>2, <3>1 DEF Done, Written, Coming, Same
    <3> QED
      BY <2>2, <2>3, <3>1, <3>2 DEF Safe
  <2> QED
    BY <2>3, <2>4, NoneSent
<1>4. ASSUME NEW pk \in DOMAIN rumlog, OperatorDeletes(pk)
      PROVE  CopiesInv'
  BY <1>4, FaultAccounts DEF OperatorDeletes
<1> QED
  BY <1>1, <1>2, <1>3, <1>4

LEMMA StartOnce == ASSUME SyncInv, CopiesInv, RoundStarts PROVE CopiesInv'
<1> DEFINE m == Aged(log)
<1>1. LogOK(log, rumlog)
  BY DEF SyncInv, LogInvariant
<1>2. /\ Ids(m) = Ids(log) /\ m.cursor = log.cursor /\ m.pending = log.pending
      /\ \A i \in Ids(log) : Alike(m.qso[i], log.qso[i]) /\ m.qso[i].pushed = log.qso[i].pushed
  BY <1>1, AgedIs
<1>3. /\ round = "idle" /\ tx = log /\ tx' = m /\ round' = "pulling" /\ rows' = Fetched(log)
      /\ UNCHANGED <<rumlog, sent, faults>>
  BY DEF RoundStarts, SyncInv
<1> HIDE DEF m
<1>4. ASSUME NEW i, Safe(i) PROVE Safe(i)'
  <2>1. i \in Ids(log) /\ (Done(log, i) \/ Written(log, rumlog, 1 .. Len(rumlog), i))
    BY <1>3, <1>4 DEF Safe
  <2>2. CASE Done(log, i)
    <3>1. Done(m, i)
      BY <1>2, <2>1, <2>2, DoneAlike
    <3> QED
      BY <1>2, <1>3, <2>1, <3>1 DEF Safe
  <2>3. CASE Written(log, rumlog, 1 .. Len(rumlog), i)
    <3>1. Fetched(log) = {pk \in 1 .. Len(rumlog) : pk > log.cursor /\ rumlog[pk].kept}
      BY DEF Fetched, SyncInv
    <3>2. Coming(log, rumlog, Fetched(log), i)
      BY <2>3, <3>1 DEF Written, Coming
    <3>3. Coming(m, rumlog, Fetched(log), i)
      BY <1>2, <2>1, <3>2, ComingAlike
    <3>4. Written(m, rumlog, Fetched(log), i)
      BY <1>2, <2>1, <2>3, <3>3 DEF Written, Alike
    <3> QED
      BY <1>2, <1>3, <2>1, <3>4 DEF Safe
  <2> QED
    BY <2>1, <2>2, <2>3
<1> QED
  BY <1>3, <1>4, NoneSent

LEMMA PullOnce == ASSUME SyncInv, CopiesInv, RowPulled PROVE CopiesInv'
<1>1. PICK pk \in rows : /\ IsNext(pk, rows) /\ rows' = rows \ {pk}
                         /\ tx' = [Merge(tx, pk) EXCEPT !.cursor = pk]
  BY DEF RowPulled
<1> DEFINE m == Merge(tx, pk)
<1>2. round = "pulling" /\ round' = "pulling" /\ UNCHANGED <<rumlog, sent, faults>>
  BY DEF RowPulled
<1>3. pk \in 1 .. Len(rumlog) /\ pk \in Nat /\ LogInvariant(tx, rumlog) /\ rumlog \in Seq(RumlogRow)
      /\ rows \subseteq 1 .. Len(rumlog)
  BY DEF SyncInv, RowsInHand
<1>4. LogInvariant(m, rumlog) /\ Merged(m, tx, rumlog[pk])
  BY <1>3, MergeIs
<1>5. tx' = [m EXCEPT !.cursor = pk]
  BY <1>1
<1> HIDE DEF m
<1>6. tx'.qso = m.qso /\ tx'.pending = m.pending /\ tx'.cursor = pk /\ Ids(tx') = Ids(m)
  BY <1>4, <1>5 DEF LogInvariant, LogOK, Ids
<1>7. ASSUME NEW i, Safe(i) PROVE Safe(i)'
  <2>1. i \in Ids(tx) /\ (Done(tx, i) \/ Written(tx, rumlog, rows, i))
    BY <1>2, <1>7 DEF Safe
  <2>2. /\ Alike(tx'.qso[i], tx.qso[i]) /\ i \in Ids(tx')
        /\ tx.qso[i].pushed => tx'.qso[i].pushed
        /\ i \notin DOMAIN tx.pending => i \notin DOMAIN tx'.pending
        /\ tx.qso[i].status = "completed" /\ Same(tx.qso[i], rumlog[pk])
             => tx'.qso[i].pushed /\ i \notin DOMAIN tx'.pending
    BY <1>4, <1>6, <2>1 DEF Merged
  <2>3. CASE Done(tx, i)
    <3>1. Done(tx', i)
      BY <2>2, <2>3, DoneAlike
    <3> QED
      BY <1>2, <2>2, <3>1 DEF Safe
  <2>4. CASE Written(tx, rumlog, rows, i)
    <3>1. PICK p \in rows : p \in 1 .. Len(rumlog) /\ rumlog[p].kept /\ Same(tx.qso[i], rumlog[p])
      BY <2>4 DEF Written, Coming
    <3>2. CASE p = pk
      <4>1. Done(tx', i)
        BY <2>2, <2>4, <3>1, <3>2 DEF Written, Done
      <4> QED
        BY <1>2, <2>2, <4>1 DEF Safe
    <3>3. CASE p # pk
      <4>1. p \in rows' /\ p > tx'.cursor
        BY <1>1, <1>3, <1>6, <3>1, <3>3 DEF IsNext
      <4>2. Same(tx'.qso[i], rumlog[p])
        BY <2>2, <3>1, SameRow
      <4>3. Written(tx', rumlog, rows', i)
        BY <2>2, <2>4, <3>1, <4>1, <4>2 DEF Written, Coming, Alike
      <4> QED
        BY <1>2, <2>2, <4>3 DEF Safe
    <3> QED
      BY <3>2, <3>3
  <2> QED
    BY <2>1, <2>3, <2>4
<1> QED
  BY <1>2, <1>7, NoneSent

LEMMA PushOnce == ASSUME SyncInv, CopiesInv, PushStarts PROVE CopiesInv'
<1>1. LogOK(tx, rumlog)
  BY DEF SyncInv, LogInvariant
<1>2. round = "pulling" /\ rows = {} /\ round' = "pushing" /\ tx' = Tick(tx) /\ UNCHANGED <<sent, faults>>
  BY DEF PushStarts
<1>3. ASSUME NEW i, Safe(i) PROVE Safe(i)'
  <2>1. i \in Ids(tx) /\ Done(tx, i)
    BY <1>2, <1>3 DEF Safe, Written, Coming
  <2>2. /\ Alike(tx'.qso[i], tx.qso[i]) /\ i \in Ids(tx')
        /\ i \notin Overdue(tx) => tx'.qso[i] = tx.qso[i]
        /\ DOMAIN tx'.pending = DOMAIN tx.pending \ Overdue(tx)
    BY <1>1, <1>2, <2>1, TickIs
  <2>3. i \notin DOMAIN tx.pending => i \notin Overdue(tx)
    BY DEF Overdue
  <2>4. Done(tx', i)
    BY <2>1, <2>2, <2>3 DEF Done, Alike
  <2> QED
    BY <1>2, <2>2, <2>4 DEF Safe
<1> QED
  BY <1>2, <1>3, NoneSent

\* What is queued is not safe yet.
LEMMA QueuedIsNotSafe == ASSUME SyncInv, NEW i \in to_push PROVE round = "pushing" /\ ~Safe(i)
<1>1. round = "pushing" /\ i \in Unpushed(tx)
  BY DEF SyncInv
<1> QED
  BY <1>1 DEF Safe, Done, Unpushed

LEMMA TakeOnce == ASSUME SyncInv, CopiesInv, RumlogTakes PROVE CopiesInv'
<1>1. PICK i \in to_push : /\ Submits(i)
                           /\ rumlog' = Append(rumlog, Row(tx.qso[i].call, tx.qso[i].at))
                           /\ sent' = sent (+) SetToBag({i})
  BY DEF RumlogTakes
<1>2. UNCHANGED <<tx, round, ok, faults>> /\ batch' = batch \cup {i} /\ to_push' = to_push \ {i}
  BY <1>1 DEF RumlogTakes, Submits
<1>3. round = "pushing" /\ ~Safe(i) /\ i \in Unpushed(tx)
  BY QueuedIsNotSafe DEF SyncInv
<1>4. LogOK(tx, rumlog) /\ i \in Ids(tx) /\ tx.qso[i] \in QsoRow
  BY <1>3, RowIs DEF SyncInv, LogInvariant, Unpushed
<1> DEFINE n == Len(rumlog) + 1
           row == Row(tx.qso[i].call, tx.qso[i].at)
<1>5. tx.qso[i].call \in Calls /\ tx.qso[i].at \in Times
  BY <1>4 DEF QsoRow
<1>6. /\ Len(rumlog') = n /\ Len(rumlog) \in Nat /\ rumlog'[n] = row /\ row \in RumlogRow
      /\ \A pk \in 1 .. Len(rumlog) : rumlog'[pk] = rumlog[pk]
  BY <1>1, <1>5, RowAdded DEF SyncInv
<1>7. row.kept = TRUE /\ row.call = tx.qso[i].call /\ row.at = tx.qso[i].at
  BY DEF Row
<1> HIDE DEF row
<1>8. Same(tx.qso[i], rumlog'[n])
  BY <1>6, <1>7, SameAsItself
<1>9. Coming(tx, rumlog', 1 .. Len(rumlog'), i)
  <2>1. tx.cursor \in 0 .. Len(rumlog)
    BY <1>4 DEF LogOK
  <2>2. n \in 1 .. Len(rumlog') /\ n > tx.cursor
    BY <1>6, <2>1
  <2> HIDE DEF n
  <2> QED
    BY <1>6, <1>7, <1>8, <2>2 DEF Coming
<1>10. Safe(i)'
  BY <1>2, <1>3, <1>4, <1>9 DEF Safe
<1>11. ASSUME NEW j, j # i, Safe(j) PROVE Safe(j)'
  <2>1. /\ j \in Ids(tx)
        /\ Done(tx, j) \/ (j \in batch \cup ok /\ j \notin to_push /\ Coming(tx, rumlog, 1 .. Len(rumlog), j))
    BY <1>3, <1>11 DEF Safe
  <2>2. Coming(tx, rumlog, 1 .. Len(rumlog), j) => Coming(tx, rumlog', 1 .. Len(rumlog'), j)
    BY <1>6 DEF Coming
  <2> QED
    BY <1>2, <1>3, <2>1, <2>2 DEF Safe
<1>12. /\ DOMAIN sent' = DOMAIN sent \cup {i} /\ faults \in Nat
       /\ \A j \in DOMAIN sent' : sent'[j] = Copies(j, sent) + (IF j = i THEN 1 ELSE 0)
       /\ \A j \in DOMAIN sent' : sent'[j] \in Nat
  BY <1>1, CopiesAdded DEF CopiesInv
<1>13. ASSUME NEW j \in DOMAIN sent' PROVE sent'[j] <= faults \/ (sent'[j] <= 1 + faults /\ Safe(j)')
  <2>1. CASE j = i
    <3>1. Copies(i, sent) <= faults /\ Copies(i, sent) \in Nat
      BY <1>3, <1>12 DEF CopiesInv, Copies
    <3> QED
      BY <1>10, <1>12, <2>1, <3>1
  <2>2. CASE j # i
    <3>1. j \in DOMAIN sent /\ sent'[j] = sent[j]
      BY <1>12, <2>2 DEF Copies, CopiesInv
    <3> QED
      BY <1>11, <2>2, <3>1 DEF CopiesInv
  <2> QED
    BY <2>1, <2>2
<1> QED
  BY <1>2, <1>12, <1>13 DEF CopiesInv

LEMMA RoundOnce ==
  ASSUME SyncInv, CopiesInv, BatchSucceeds \/ RoundCommits
  PROVE  CopiesInv'
<1>1. CASE BatchSucceeds
  <2>1. /\ UNCHANGED <<tx, rumlog, round, rows, to_push, sent, faults>>
        /\ batch' = {} /\ ok' = ok \cup batch
    BY <1>1 DEF BatchSucceeds
  <2>2. \A i : Safe(i) => Safe(i)'
    BY <2>1 DEF Safe
  <2> QED
    BY <2>1, <2>2, NoneSent
<1>2. CASE RoundCommits
  <2>1. /\ round = "pushing" /\ batch = {} /\ tx' = MarkPushed(tx, ok) /\ round' = "idle"
        /\ UNCHANGED <<rumlog, sent, faults>>
    BY <1>2 DEF RoundCommits
  <2>2. LogOK(tx, rumlog) /\ ok \in SUBSET Ids(tx) /\ ok \subseteq Unpushed(tx)
    BY DEF SyncInv, LogInvariant, Unpushed
  <2>3. /\ Ids(tx') = Ids(tx) /\ tx'.cursor = tx.cursor
        /\ \A i \in Ids(tx) : /\ Alike(tx'.qso[i], tx.qso[i])
                              /\ i \in ok => tx'.qso[i].pushed = TRUE
                              /\ i \notin ok => tx'.qso[i] = tx.qso[i]
        /\ DOMAIN tx'.pending = DOMAIN tx.pending \cup ok
    BY <2>1, <2>2, MarkIs
  <2>4. ASSUME NEW i, Safe(i) PROVE Safe(i)'
    <3>1. i \in Ids(tx) /\ (Done(tx, i) \/ (i \in ok /\ Coming(tx, rumlog, 1 .. Len(rumlog), i)))
      BY <2>1, <2>4 DEF Safe
    <3>2. CASE Done(tx, i)
      <4>1. i \notin ok
        BY <2>2, <3>2 DEF Done, Unpushed
      <4>2. Done(tx', i)
        BY <2>3, <3>1, <3>2, <4>1 DEF Done
      <4> QED
        BY <2>1, <2>3, <3>1, <4>2 DEF Safe
    <3>3. CASE i \in ok /\ Coming(tx, rumlog, 1 .. Len(rumlog), i)
      <4>1. tx'.qso[i].status = "completed" /\ tx'.qso[i].pushed
        BY <2>2, <2>3, <3>1, <3>3 DEF Unpushed, Alike
      <4>2. Coming(tx', rumlog, 1 .. Len(rumlog), i)
        BY <2>3, <3>1, <3>3, ComingAlike
      <4>3. Written(tx', rumlog, 1 .. Len(rumlog), i)
        BY <4>1, <4>2 DEF Written
      <4> QED
        BY <2>1, <2>3, <3>1, <4>3 DEF Safe
    <3> QED
      BY <3>1, <3>2, <3>3
  <2> QED
    BY <2>1, <2>4, NoneSent
<1> QED
  BY <1>1, <1>2

LEMMA CopiesStep == ASSUME SyncInv, CopiesInv, [SyncNext]_syncVars PROVE CopiesInv'
<1>1. CASE RumlogIgnores \/ BatchFails \/ RoundFails
  BY <1>1, FaultAccounts DEF RumlogIgnores, BatchFails, RoundFails
<1>2. CASE UNCHANGED syncVars
  <2>1. UNCHANGED <<tx, rumlog, round, rows, to_push, batch, ok, sent, faults>>
    BY <1>2 DEF syncVars, push
  <2>2. \A i : Safe(i) => Safe(i)'
    BY <2>1 DEF Safe
  <2> QED
    BY <2>1, <2>2, NoneSent
<1> QED
  BY <1>1, <1>2, OutsideOnce, StartOnce, PullOnce, PushOnce, TakeOnce, RoundOnce DEF SyncNext, Round

\* A row is written to RUMLogNG a second time only when something failed
\* (find_all_existing, tick_push_pending).
THEOREM OnlyFaultsWriteTwice == SyncSpec => []TwiceOnlyAfterFault
<1>1. SyncInit => CopiesInv
  BY DEF SyncInit, CopiesInv, EmptyBag, SetToBag
<1>2. CopiesInv => TwiceOnlyAfterFault
  BY DEF CopiesInv, TwiceOnlyAfterFault, BagToSet
<1>3. SyncInv /\ CopiesInv /\ [SyncNext]_syncVars => (SyncInv /\ CopiesInv)'
  BY SyncStep, CopiesStep
<1> QED
  BY <1>1, <1>2, <1>3, SyncStarts, PTL DEF SyncSpec
=============================================================================
