------------------------------- MODULE QsoLog -------------------------------
(***************************************************************************)
(* The durable QSO queue of server/engine/qso_log.py: a record leaves the  *)
(* sequencer once, waits in memory, and is written to the canonical store  *)
(* by a thread (repository.record_qso). What cannot be written is spilled  *)
(* to the dead-letter journal, a file; the next start queues it again.     *)
(*                                                                         *)
(* A call to the store is begun, executed by its thread and answered to    *)
(* the event loop in three steps: the task that awaits the answer may be   *)
(* cancelled after the thread has begun, and the process may die.          *)
(***************************************************************************)
EXTENDS Integers, Sequences, FiniteSets, SequencesExt

CONSTANTS
  Qsos,         \* completed QSOs, each as the record that names it
  NoQso,        \* no record
  MaxAttempts,  \* max_attempts
  MaxStarts     \* bound: how often the process starts

ASSUME QsosAssumption     == NoQso \notin Qsos
ASSUME AttemptsAssumption == MaxAttempts \in Nat \ {0} /\ MaxStarts \in Nat

VARIABLES
  phase,        \* where the process is
  queue,        \* QsoLog._queue, the records
  attempts,     \* the attempts of its head; the others have none
  hand,         \* the record the loop awaits the store for
  outcome,      \* what the store's thread has done about it
  orphan,       \* a record whose thread runs on after its task was cancelled
  recovered,    \* flush()'s copy of the journal, what is left of it
  store,        \* how often the store holds each record
  journal,      \* the dead-letter file
  unjournaled,  \* records whose journal line could not be written
  completed,    \* QSOs the sequencer has completed
  owned,        \* records this process has queued
  cuts,         \* how often a call for each record was cut off by the end of
                \* the process
  starts        \* how often the process has started

volatile == <<queue, attempts, hand, outcome, orphan, recovered>>
disk     == <<store, journal, unjournaled>>
history  == <<completed, owned, cuts, starts>>
vars     == <<phase, volatile, disk, history>>

Phases   == {"booting", "running", "flushing", "retrying", "down"}
Outcomes == {"none", "writing", "inserted", "failed"}

Once(q, f) == [f EXCEPT ![q] = @ + 1]

Init ==
  /\ phase = "booting"
  /\ queue = << >> /\ attempts = 0 /\ hand = NoQso /\ outcome = "none"
  /\ orphan = NoQso /\ recovered = << >>
  /\ store = [q \in Qsos |-> 0] /\ journal = << >> /\ unjournaled = {}
  /\ completed = {} /\ owned = {} /\ cuts = [q \in Qsos |-> 0] /\ starts = 1

-----------------------------------------------------------------------------
(***************************************************************************)
(* The store: one INSERT in one transaction. It fails when the disk does.  *)
(***************************************************************************)
StoreWrites ==
  /\ outcome = "writing"
  /\ \/ outcome' = "inserted" /\ store' = Once(hand, store)
     \/ outcome' = "failed" /\ UNCHANGED store
  /\ UNCHANGED <<phase, queue, attempts, hand, orphan, recovered, journal, unjournaled, history>>

OrphanWrites ==
  /\ orphan # NoQso
  /\ orphan' = NoQso
  /\ store' \in {store, Once(orphan, store)}
  /\ UNCHANGED <<phase, queue, attempts, hand, outcome, recovered, journal, unjournaled, history>>

CallStore(q) == hand' = q /\ outcome' = "writing"
StoreAnswers == hand' = NoQso /\ outcome' = "none"

\* _journal(): an OSError is logged and the line is gone.
Journal(q) ==
  \/ journal' = Append(journal, q) /\ UNCHANGED unjournaled
  \/ unjournaled' = unjournaled \cup {q} /\ UNCHANGED journal

-----------------------------------------------------------------------------
(***************************************************************************)
(* Startup and the running server.                                         *)
(***************************************************************************)
\* recover() if it did not clear the file it has read.
RecoverKeepsFile ==
  /\ phase = "booting"
  /\ phase' = "running"
  /\ queue' = queue \o journal
  /\ owned' = ToSet(journal)
  /\ UNCHANGED <<attempts, hand, outcome, orphan, recovered, disk, completed, cuts, starts>>

Recover ==
  /\ phase = "booting"
  /\ phase' = "running"
  /\ queue' = queue \o journal
  /\ journal' = << >>
  /\ owned' = ToSet(journal)
  /\ UNCHANGED <<attempts, hand, outcome, orphan, recovered, store, unjournaled,
                 completed, cuts, starts>>

\* Sequencer.on_qso
Enqueue(q) ==
  /\ phase = "running"
  /\ q \notin completed
  /\ completed' = completed \cup {q}
  /\ owned' = owned \cup {q}
  /\ queue' = Append(queue, q)
  /\ UNCHANGED <<phase, attempts, hand, outcome, orphan, recovered, disk, cuts, starts>>

DrainBegins ==
  /\ phase = "running"
  /\ queue # << >> /\ outcome = "none"
  /\ CallStore(Head(queue))
  /\ UNCHANGED <<phase, queue, attempts, orphan, recovered, disk, history>>

DrainSucceeds ==
  /\ phase = "running" /\ outcome = "inserted"
  /\ StoreAnswers
  /\ queue' = Tail(queue) /\ attempts' = 0
  /\ UNCHANGED <<phase, orphan, recovered, disk, history>>

LastAttempt == attempts + 1 >= MaxAttempts

DrainFails ==
  /\ phase = "running" /\ outcome = "failed"
  /\ ~LastAttempt
  /\ StoreAnswers
  /\ attempts' = attempts + 1
  /\ UNCHANGED <<phase, queue, orphan, recovered, disk, history>>

\* DrainSpills if a record given up stayed at the head.
DrainSpillsInPlace ==
  /\ phase = "running" /\ outcome = "failed"
  /\ LastAttempt
  /\ StoreAnswers
  /\ UNCHANGED <<queue, attempts, phase, orphan, recovered, disk, history>>

\* DrainSpills without the journal.
DrainDrops ==
  /\ phase = "running" /\ outcome = "failed"
  /\ LastAttempt
  /\ StoreAnswers
  /\ queue' = Tail(queue) /\ attempts' = 0
  /\ UNCHANGED <<phase, orphan, recovered, disk, history>>

DrainSpills ==
  /\ phase = "running" /\ outcome = "failed"
  /\ LastAttempt
  /\ StoreAnswers
  /\ queue' = Tail(queue) /\ attempts' = 0
  /\ Journal(hand)
  /\ UNCHANGED <<phase, orphan, recovered, store, history>>

-----------------------------------------------------------------------------
(***************************************************************************)
(* Shutdown: the watchdog task is cancelled, wherever it awaits, and       *)
(* flush() writes the queue, then the journal.                             *)
(***************************************************************************)
ShutdownIdle ==
  /\ phase = "running" /\ outcome = "none"
  /\ phase' = "flushing"
  /\ UNCHANGED <<volatile, disk, history>>

\* The await is cut: the record is still the head of the queue, and the thread
\* runs on if it has not ended.
ShutdownCutsDrain ==
  /\ phase = "running" /\ outcome # "none"
  /\ phase' = "flushing"
  /\ orphan' = IF outcome = "writing" THEN hand ELSE NoQso
  /\ cuts' = Once(hand, cuts)
  /\ StoreAnswers
  /\ UNCHANGED <<queue, attempts, recovered, disk, completed, owned, starts>>

FlushTakes ==
  /\ phase = "flushing" /\ outcome = "none"
  /\ queue # << >>
  /\ CallStore(Head(queue))
  /\ queue' = Tail(queue) /\ attempts' = 0
  /\ UNCHANGED <<phase, orphan, recovered, disk, history>>

FlushReturns ==
  /\ phase = "flushing" /\ outcome \in {"inserted", "failed"}
  /\ StoreAnswers
  /\ IF outcome = "inserted" THEN UNCHANGED <<journal, unjournaled>> ELSE Journal(hand)
  /\ UNCHANGED <<phase, queue, attempts, orphan, recovered, store, history>>

FlushReadsJournal ==
  /\ phase = "flushing" /\ outcome = "none"
  /\ queue = << >>
  /\ phase' = "retrying"
  /\ recovered' = journal
  /\ UNCHANGED <<queue, attempts, hand, outcome, orphan, disk, history>>

RetryTakes ==
  /\ phase = "retrying" /\ outcome = "none"
  /\ recovered # << >>
  /\ CallStore(Head(recovered))
  /\ recovered' = Tail(recovered)
  /\ UNCHANGED <<phase, queue, attempts, orphan, disk, history>>

\* A failure is logged, no more.
RetryReturns ==
  /\ phase = "retrying" /\ outcome \in {"inserted", "failed"}
  /\ StoreAnswers
  /\ UNCHANGED <<phase, queue, attempts, orphan, recovered, disk, history>>

\* The journal is cleared whatever the retries came to.
FlushEnds ==
  /\ phase = "retrying" /\ outcome = "none"
  /\ recovered = << >>
  /\ phase' = "down"
  /\ journal' = << >>
  /\ UNCHANGED <<volatile, store, unjournaled, history>>

-----------------------------------------------------------------------------
\* What is in memory is gone; a transaction that has not committed is too.
Boots ==
  /\ starts < MaxStarts
  /\ starts' = starts + 1
  /\ phase' = "booting"
  /\ queue' = << >> /\ attempts' = 0 /\ hand' = NoQso /\ outcome' = "none"
  /\ orphan' = NoQso /\ recovered' = << >>
  /\ owned' = {}
  /\ UNCHANGED <<disk, completed>>

\* A retry that has been written is still in the file until flush() clears it.
Crash ==
  /\ phase # "down"
  /\ Boots
  /\ cuts' = [q \in Qsos |-> cuts[q] + IF phase = "retrying" /\ q \in ToSet(journal) THEN 1 ELSE 0]

Restart == phase = "down" /\ Boots /\ UNCHANGED cuts

Drain    == DrainBegins \/ DrainSucceeds \/ DrainFails \/ DrainSpills
Shutdown == ShutdownIdle \/ ShutdownCutsDrain
Flush    == \/ FlushTakes \/ FlushReturns \/ FlushReadsJournal
            \/ RetryTakes \/ RetryReturns \/ FlushEnds

Next ==
  \/ Recover \/ (\E q \in Qsos : Enqueue(q)) \/ Drain
  \/ Shutdown \/ Flush
  \/ StoreWrites \/ OrphanWrites
  \/ Crash \/ Restart

Spec == Init /\ [][Next]_vars

\* The watchdog ticks and the store answers; flush() goes on once begun.
Fairness == WF_vars(Drain) /\ WF_vars(StoreWrites) /\ WF_vars(Flush) /\ WF_vars(Recover)

FairSpec == Spec /\ Fairness

-----------------------------------------------------------------------------
TypeOK ==
  /\ phase \in Phases
  /\ queue \in Seq(Qsos) /\ attempts \in 0 .. MaxAttempts - 1
  /\ hand \in Qsos \cup {NoQso} /\ outcome \in Outcomes
  /\ orphan \in Qsos \cup {NoQso}
  /\ recovered \in Seq(Qsos) /\ journal \in Seq(Qsos)
  /\ store \in [Qsos -> Nat] /\ cuts \in [Qsos -> Nat]
  /\ unjournaled \subseteq Qsos /\ completed \subseteq Qsos /\ owned \subseteq completed
  /\ starts \in Nat

Kept(q) ==
  \/ store[q] > 0
  \/ q \in ToSet(queue) \cup ToSet(journal) \cup unjournaled \cup {hand}

\* While the process runs, and while flush() empties its queue, a record it
\* has queued is in the store, in the queue, in the file or in the thread's
\* hands; nothing falls between two of them (UC-005).
RecordsKept == phase \in {"running", "flushing"} => \A q \in owned : Kept(q)

\* Each record has one place to be written from, so that no retry, spill,
\* recovery or flush writes it twice; what does is the end of a process: a
\* drain whose task is cancelled while its thread goes on, or a death between
\* a retry and the clearing of the file.
OnlyCutsDuplicate == \A q \in Qsos : store[q] <= 1 + cuts[q]

\* A store that fails for one record does not hold up those behind it: each
\* record leaves the queue while the process runs.
HeadMovesOn ==
  \A q \in Qsos :
    phase = "running" /\ q \in ToSet(queue)
      ~> phase # "running" \/ q \notin ToSet(queue)

\* A shutdown ends, whatever the store does: flush() retries nothing forever.
ShutdownEnds == phase \in {"flushing", "retrying"} ~> phase \in {"down", "booting"}

-----------------------------------------------------------------------------
(***************************************************************************)
(* What the documents say and the code does not do (see README.md).        *)
(***************************************************************************)
\* "persistent failures spill to a dead-letter file so a restart can retry
\* them" (qso_log.py): a process that is down has left each record it queued
\* in the store or in the file.
RestartCanRetry == phase = "down" => \A q \in owned : Kept(q)
=============================================================================
