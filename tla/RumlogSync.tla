----------------------------- MODULE RumlogSync -----------------------------
(***************************************************************************)
(* The two-way synchronisation of rumlog_sync/ between the canonical log   *)
(* of the server (ft8_db.py) and the operator's log RUMLogNG, which is     *)
(* read through its SQLite store (rumlog_reader.py) and written through    *)
(* AppleScript (apple_push.py).                                            *)
(*                                                                         *)
(* A round (run_sync_once) is one transaction on the canonical log: pull   *)
(* and merge what RUMLogNG has past the cursor, push what RUMLogNG lacks,  *)
(* commit. What it has pushed stays in RUMLogNG whatever becomes of the    *)
(* round: this module is about the rounds that fail half way.              *)
(***************************************************************************)
EXTENDS Integers, Sequences, FiniteSets, SequencesExt

CONSTANTS
  Calls,          \* a station on a band: dx_call with band
  Times,          \* when a QSO may be completed
  Window,         \* MATCH_WINDOW_S, in the unit of Times
  ConfirmRetries, \* confirm_retries
  BatchSize,      \* DEFAULT_BATCH
  MaxQsos,        \* bound: rows of the canonical log the server adds
  MaxRows,        \* bound: rows of RUMLogNG when the operator adds one
  MaxFaults       \* bound: faults of AppleScript, of rounds and of the operator

ASSUME SyncAssumption ==
  /\ Times \subseteq Nat /\ Window \in Nat \ {0}
  /\ ConfirmRetries \in Nat \ {0} /\ BatchSize \in Nat \ {0}
  /\ {MaxQsos, MaxRows, MaxFaults} \subseteq Nat

VARIABLES
  log,     \* the canonical log as committed: [qso, pending, cursor]
  tx,      \* the transaction of the round
  rumlog,  \* RUMLogNG: its rows by Z_PK; a row that was deleted is not kept
  round,   \* what the round is at
  rows,    \* the rows of RUMLogNG it has fetched and not merged, taken by Z_PK
  to_push, \* what is left to push, as ids of tx.qso, taken in their order
  batch,   \* ids that the current osascript has gone through
  ok,      \* ids of the batches that have succeeded
  sent,    \* history: the ids written to RUMLogNG, a bag
  faults   \* history: faults so far

push == <<to_push, batch, ok>>
syncVars == <<log, tx, rumlog, round, rows, push, sent, faults>>

NoUuid == 0          \* no rumlog_uuid; a row of RUMLogNG has its Z_PK for one
Settled == 2       \* age of a QSO that can no more be voided

Ids(l) == DOMAIN l.qso

(***************************************************************************)
(* find_existing, find_all_existing: completed rows of the same station on *)
(* the same band within the window.                                        *)
(***************************************************************************)
Near(a, b) == a - b \in -Window .. Window

(* as with find_existing: the nearest one only *)
MatchingFirst(l, row) ==
  LET all == {i \in Ids(l) : /\ l.qso[i].status = "completed"
                             /\ l.qso[i].call = row.call
                             /\ Near(l.qso[i].at, row.at)}
  IN {i \in all : \A j \in all : i <= j}

Matching(l, row) ==
  {i \in Ids(l) : /\ l.qso[i].status = "completed" /\ l.qso[i].call = row.call
                  /\ Near(l.qso[i].at, row.at)}

ByUuid(l, pk) == {i \in Ids(l) : l.qso[i].uuid = pk}

SyncInit ==
  /\ log = [qso |-> << >>, pending |-> << >>, cursor |-> 0] /\ tx = log
  /\ rumlog = << >> /\ round = "idle" /\ rows = {}
  /\ to_push = {} /\ batch = {} /\ ok = {}
  /\ sent = EmptyBag /\ faults = 0

-----------------------------------------------------------------------------
(***************************************************************************)
(* The server and the operator. The server cannot write while a round      *)
(* holds its transaction. A QSO can be voided for 30 s, in which at most   *)
(* one round of the crontab begins: its age counts the rounds.             *)
(***************************************************************************)
Logged(call, at) == [call |-> call, at |-> at, status |-> "completed",
                     uuid |-> NoUuid, pushed |-> FALSE, age |-> 0]

Commits(l) ==
  /\ round = "idle" /\ log' = l /\ tx' = l
  /\ UNCHANGED <<rumlog, round, rows, push, sent, faults>>

ServerLogs(call, at) ==
  /\ Len(log.qso) < MaxQsos
  /\ Commits([log EXCEPT !.qso = Append(@, Logged(call, at))])

ServerVoids(i) ==
  /\ log.qso[i].status = "completed" /\ log.qso[i].age < Settled
  /\ Commits([log EXCEPT !.qso[i].status = "void"])

Row(call, at) == [call |-> call, at |-> at, kept |-> TRUE]

OperatorLogs(call, at) ==
  /\ Len(rumlog) < MaxRows
  /\ rumlog' = Append(rumlog, Row(call, at))
  /\ UNCHANGED <<log, tx, round, rows, push, sent, faults>>

OperatorDeletes(pk) ==
  /\ rumlog[pk].kept /\ faults < MaxFaults
  /\ rumlog' = [rumlog EXCEPT ![pk].kept = FALSE] /\ faults' = faults + 1
  /\ UNCHANGED <<log, tx, round, rows, push, sent>>

-----------------------------------------------------------------------------
(***************************************************************************)
(* Pull. Each new row of RUMLogNG is inserted, as pushed, or confirms      *)
(* every row it matches.                                                   *)
(***************************************************************************)
Pulled(pk) == [call |-> rumlog[pk].call, at |-> rumlog[pk].at,
               status |-> "completed", uuid |-> pk, pushed |-> TRUE, age |-> 1]

Insert(l, pk) == [l EXCEPT !.qso = Append(@, Pulled(pk))]

(* the push stays pending *)
ConfirmKeepsPending(l, pk, matched) ==
  [l EXCEPT !.qso = [i \in Ids(l) |->
     IF i \in matched THEN [l.qso[i] EXCEPT !.uuid = pk, !.pushed = TRUE]
                      ELSE l.qso[i]]]

(* update_from_rumlog, confirm_pushed *)
Confirm(l, pk, matched) ==
  [l EXCEPT
    !.qso = [i \in Ids(l) |-> IF i \in matched
                              THEN [l.qso[i] EXCEPT !.uuid = pk, !.pushed = TRUE]
                              ELSE l.qso[i]],
    !.pending = Restrict(@, DOMAIN @ \ matched)]

Merge(l, pk) ==
  LET matched == Matching(l, rumlog[pk]) IN
  IF ByUuid(l, pk) \cup matched = {} THEN Insert(l, pk)
                                     ELSE Confirm(l, pk, matched)

(* fetch_since *)
Fetched(l) == {pk \in DOMAIN rumlog : pk > l.cursor /\ rumlog[pk].kept}

\* Rows and records are gone through in ascending order.
IsNext(i, S) == i \in S /\ \A j \in S : i <= j

-----------------------------------------------------------------------------
(***************************************************************************)
(* Push. A push that no row of RUMLogNG has confirmed for ConfirmRetries   *)
(* rounds is queued again.                                                 *)
(***************************************************************************)
Overdue(l) == {i \in DOMAIN l.pending : l.pending[i] >= ConfirmRetries}

(* pushed once and for all *)
TickForgets(l) == [l EXCEPT !.pending = Restrict(@, DOMAIN @ \ Overdue(l))]

Tick(l) ==
  [l EXCEPT
    !.qso = [i \in Ids(l) |-> IF i \in Overdue(l)
                              THEN [l.qso[i] EXCEPT !.pushed = FALSE]
                              ELSE l.qso[i]],
    !.pending = [i \in DOMAIN @ \ Overdue(l) |-> @[i] + 1]]

Unpushed(l) == {i \in Ids(l) : l.qso[i].status = "completed" /\ ~l.qso[i].pushed}

(* _dedupe_pending: the first of each bucket of Window *)
Bucket(q) == <<q.call, q.at \div Window>>

First(l, i) == \A j \in Unpushed(l) : Bucket(l.qso[i]) = Bucket(l.qso[j]) => i <= j

Deduped(l) == {i \in Unpushed(l) : First(l, i)}

(* mark_pushed *)
MarkPushed(l, ids) ==
  [l EXCEPT
    !.qso = [i \in Ids(l) |-> IF i \in ids
                              THEN [l.qso[i] EXCEPT !.pushed = TRUE]
                              ELSE l.qso[i]],
    !.pending = [i \in DOMAIN @ \cup ids |-> IF i \in ids THEN 1 ELSE @[i]]]

Aged(l) ==
  [l EXCEPT !.qso = [i \in Ids(l) |->
     [l.qso[i] EXCEPT !.age = Min({@ + 1, Settled})]]]

-----------------------------------------------------------------------------
(***************************************************************************)
(* A round: crontab starts it unless one holds the lock file. From its     *)
(* first write to its commit it holds the write lock of the database.      *)
(***************************************************************************)
Quiet == rows' = {} /\ to_push' = {} /\ batch' = {} /\ ok' = {}

RoundStarts ==
  /\ round = "idle" /\ round' = "pulling"
  /\ log' = Aged(log) /\ tx' = log' /\ rows' = Fetched(log)
  /\ UNCHANGED <<rumlog, push, sent, faults>>

RowPulled ==
  /\ round = "pulling"
  /\ \E pk \in rows : /\ IsNext(pk, rows) /\ rows' = rows \ {pk}
                      /\ tx' = [Merge(tx, pk) EXCEPT !.cursor = pk]
  /\ UNCHANGED <<log, rumlog, round, push, sent, faults>>

PushStarts ==
  /\ round = "pulling" /\ rows = {} /\ round' = "pushing"
  /\ tx' = Tick(tx) /\ to_push' = Deduped(tx')
  /\ UNCHANGED <<log, rumlog, rows, batch, ok, sent, faults>>

(* logQSO of the next record of the script *)
Submits(i) ==
  /\ IsNext(i, to_push) /\ Cardinality(batch) < BatchSize
  /\ batch' = batch \cup {i} /\ to_push' = to_push \ {i}

RumlogTakes ==
  /\ \E i \in to_push :
       /\ Submits(i)
       /\ rumlog' = Append(rumlog, Row(tx.qso[i].call, tx.qso[i].at))
       /\ sent' = sent (+) SetToBag({i})
  /\ UNCHANGED <<log, tx, round, rows, ok, faults>>

(* the script goes on, and RUMLogNG has not logged the record *)
RumlogIgnores ==
  /\ \E i \in to_push : Submits(i)
  /\ faults < MaxFaults /\ faults' = faults + 1
  /\ UNCHANGED <<log, tx, rumlog, round, rows, ok, sent>>

BatchDone == Cardinality(batch) = BatchSize \/ (to_push = {} /\ batch # {})

BatchSucceeds ==
  /\ BatchDone
  /\ ok' = ok \cup batch /\ batch' = {}
  /\ UNCHANGED <<log, tx, rumlog, round, rows, to_push, sent, faults>>

(* osascript fails or is killed after 60 s: the rest of its script is lost *)
BatchFails ==
  /\ round = "pushing" /\ to_push \cup batch # {} /\ faults < MaxFaults
  /\ batch' = {} /\ faults' = faults + 1
  /\ to_push' = {i \in to_push :
                   Cardinality(batch) + Cardinality({j \in to_push : j < i}) >= BatchSize}
  /\ UNCHANGED <<log, tx, rumlog, round, rows, ok, sent>>

RoundCommits ==
  /\ round = "pushing" /\ to_push = {} /\ batch = {}
  /\ log' = MarkPushed(tx, ok) /\ tx' = log' /\ round' = "idle" /\ Quiet
  /\ UNCHANGED <<rumlog, sent, faults>>

(* the cursor is saved outside the transaction *)
RoundFailsPastCursor ==
  /\ round # "idle" /\ faults < MaxFaults
  /\ log' = [log EXCEPT !.cursor = tx.cursor]
  /\ tx' = log' /\ round' = "idle" /\ Quiet /\ faults' = faults + 1
  /\ UNCHANGED <<rumlog, sent>>

(* an exception rolls the round back; so does the end of its process *)
RoundFails ==
  /\ round # "idle" /\ faults < MaxFaults
  /\ tx' = log /\ round' = "idle" /\ Quiet /\ faults' = faults + 1
  /\ UNCHANGED <<log, rumlog, sent>>

Round == RoundStarts \/ RowPulled \/ PushStarts \/ RumlogTakes \/ BatchSucceeds \/ RoundCommits

SyncNext ==
  \/ Round
  \/ RumlogIgnores \/ BatchFails \/ RoundFails
  \/ \E c \in Calls, t \in Times : ServerLogs(c, t) \/ OperatorLogs(c, t)
  \/ \E i \in DOMAIN log.qso : ServerVoids(i)
  \/ \E pk \in DOMAIN rumlog : OperatorDeletes(pk)

(* crontab starts rounds for ever, and a round goes on *)
SyncFairness == WF_syncVars(Round)

SyncSpec == SyncInit /\ [][SyncNext]_syncVars /\ SyncFairness

-----------------------------------------------------------------------------
SyncTypeOK ==
  /\ round \in {"idle", "pulling", "pushing"} /\ (round = "idle" => tx = log)
  /\ \A l \in {log, tx} : l.cursor \in 0 .. Len(rumlog)
                         /\ DOMAIN l.pending \subseteq Ids(l)
  /\ to_push \cup batch \cup ok \subseteq Ids(tx)

(***************************************************************************)
(* The cursor never passes a row of RUMLogNG that the canonical log lacks: *)
(* no failure of a round, wherever it strikes, separates the two (one      *)
(* transaction, sync.py; fetch_since never looks back).                    *)
(***************************************************************************)
PulledIsKept ==
  \A pk \in 1 .. log.cursor : rumlog[pk].kept =>
    \E i \in Ids(log) : /\ log.qso[i].call = rumlog[pk].call
                        /\ Near(log.qso[i].at, rumlog[pk].at)

(***************************************************************************)
(* A QSO that RUMLogNG is known to hold is never pushed again, neither one *)
(* that was pulled nor one whose push a later round has confirmed.         *)
(***************************************************************************)
NeverEchoed == \A i \in to_push : tx.qso[i].uuid = NoUuid

(***************************************************************************)
(* A row is written to RUMLogNG a second time only when something failed:  *)
(* a script, a round, or a row the operator deleted before it was read.    *)
(* Rows that duplicate one another are all confirmed (find_all_existing),  *)
(* or they would be queued for ever.                                       *)
(***************************************************************************)
TwiceOnlyAfterFault == \A i \in BagToSet(sent) : sent[i] <= 1 + faults

(***************************************************************************)
(* AD-016: the two logs converge. What the server has logged reaches       *)
(* RUMLogNG unless it is voided, though scripts and rounds fail and        *)
(* RUMLogNG drops what it was told; what the operator logs is pulled.      *)
(***************************************************************************)
Settles(i) ==
  /\ i \in Ids(log)
  /\ \/ log.qso[i].status = "void"
     \/ \E pk \in DOMAIN rumlog : /\ rumlog[pk].call = log.qso[i].call
                                 /\ Near(rumlog[pk].at, log.qso[i].at)

Converges ==
  /\ \A i \in 1 .. MaxQsos : i \in Ids(log) ~> Settles(i)
  /\ \A pk \in 1 .. MaxRows : pk \in DOMAIN rumlog ~> (log.cursor >= pk \/ (pk \in DOMAIN rumlog /\ ~rumlog[pk].kept))
=============================================================================
