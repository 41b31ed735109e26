----------------------------- MODULE WebProofs ------------------------------
(***************************************************************************)
(* What the server owes its browsers. What arms TX for a holder is a       *)
(* request that no loss of the lease has overtaken, and such a request is  *)
(* one of the session that holds the lease now: Attended is inductive      *)
(* beside the type invariant and Covered. And a client of decodes gets     *)
(* every batch from the oldest it can still have, in order and once.       *)
(***************************************************************************)
EXTENDS Console, Streams, SequenceTheorems, TLAPS

\* What is under way is a request, and one that arms.
Requested ==
  \A t \in Tasks : at[t] # "free" =>
    /\ req[t].op \in Ops
    /\ req[t].op = AUTO => req[t].call \in Stations
    /\ at[t] \in {"scheduled", "arming"} => req[t].op # "select"

ConsoleInv == TypeOK /\ Covered /\ Attended

THEOREM ConsoleInit == ASSUME LeaseAssumption, Init PROVE ConsoleInv
<1>1. streams \in [Sessions -> 0 .. MaxStreams] /\ at \in [Tasks -> Places]
  BY DEF LeaseAssumption, Init, Places
<1>2. req \in [Tasks -> [op : Ops \cup {None}, by : Sessions \cup {None}, call : Stations \cup {None}]]
  BY DEF Init, NoReq
<1>3. TypeOK
  BY <1>1, <1>2 DEF Init, TypeOK
<1> QED
  BY <1>3 DEF Init, ConsoleInv, Covered, Attended

-----------------------------------------------------------------------------
(***************************************************************************)
(* The lease and the STOPs.                                                *)
(***************************************************************************)
\* What safety.disarm() leaves keeps the invariant, whatever the lease does.
LEMMA DisarmKeeps ==
  ASSUME LeaseAssumption, ConsoleInv, Disarm, UNCHANGED browser,
         lease' \in {lease, None}, dead_man' \in BOOLEAN
  PROVE  ConsoleInv'
<1>1. TypeOK'
  BY DEF LeaseAssumption, ConsoleInv, TypeOK, Disarm, browser, IDLE, DONE, InFlight
<1>2. Covered'
  BY DEF ConsoleInv, Covered, Disarm, InFlight
<1> QED
  BY <1>1, <1>2 DEF ConsoleInv, Attended, Disarm

\* A lease that goes leaves no request covered.
LEMMA GoesKeeps ==
  ASSUME ConsoleInv, Goes, UNCHANGED <<browser, selected>>, dead_man' = TRUE,
         lease' \in [by : Sessions, left : 0 .. Ttl] \cup {None}
  PROVE  ConsoleInv'
<1>1. TypeOK'
  BY DEF ConsoleInv, TypeOK, Goes, browser, InFlight
<1>2. Covered'
  BY DEF ConsoleInv, Covered, Goes, InFlight
<1> QED
  BY <1>1, <1>2 DEF ConsoleInv, Attended, Goes, TypeOK

\* A lease renewed, or grown older, is the same session's.
LEMMA RenewKeeps ==
  ASSUME LeaseAssumption, ConsoleInv, UNCHANGED <<browser, dead_man, tx, selected, flight>>,
         lease' \in [by : Sessions, left : 0 .. Ttl],
         lease = None \/ lease'.by = lease.by
  PROVE  ConsoleInv'
<1>1. TypeOK'
  BY DEF ConsoleInv, TypeOK, tx, flight, browser
<1>2. lease' # None
  BY DEF LeaseAssumption, TypeOK
<1> QED
  BY <1>1, <1>2 DEF ConsoleInv, Covered, Attended, tx, flight

-----------------------------------------------------------------------------
(***************************************************************************)
(* The requests.                                                           *)
(***************************************************************************)
\* A request that arrives is its holder's, or an unattended call.
LEMMA EnterKeeps ==
  ASSUME LeaseAssumption, ConsoleInv, NEW t \in Tasks, NEW op \in Ops,
         NEW s \in Sessions \cup {None}, NEW call \in Stations \cup {None}, NEW place \in Places,
         Enter(t, op, s, call, place), op = AUTO \/ (lease # None /\ lease.by = s),
         UNCHANGED <<browser, lease, dead_man, tx, selected, overtaken>>
  PROVE  ConsoleInv'
<1>1. TypeOK'
  <2>1. req' \in [Tasks -> [op : Ops \cup {None}, by : Sessions \cup {None},
                            call : Stations \cup {None}]]
    BY DEF ConsoleInv, TypeOK, Enter
  <2>2. at' \in [Tasks -> Places]
    BY DEF ConsoleInv, TypeOK, Enter
  <2> QED
    BY <2>1, <2>2 DEF ConsoleInv, TypeOK, browser, tx
<1>2. Covered'
  <2> SUFFICES ASSUME NEW u \in Tasks, at'[u] # "free", req'[u].op # AUTO, u \notin overtaken
               PROVE  lease # None /\ lease.by = req'[u].by
    BY DEF Covered
  <2>1. CASE u = t
    BY <2>1 DEF ConsoleInv, TypeOK, Enter
  <2>2. CASE u # t
    <3>1. at[u] = at'[u] /\ req[u] = req'[u]
      BY <2>2 DEF ConsoleInv, TypeOK, Enter
    <3> QED
      BY <3>1 DEF ConsoleInv, Covered
  <2> QED
    BY <2>1, <2>2
<1> QED
  BY <1>1, <1>2 DEF ConsoleInv, Attended, tx

\* One that leaves takes its own mark with it and no other.
LEMMA LeaveKeeps ==
  ASSUME ConsoleInv, NEW t \in Tasks, Leave(t), lease' = lease
  PROVE  /\ Covered' /\ overtaken' \subseteq Tasks /\ at' \in [Tasks -> Places]
         /\ req' \in [Tasks -> [op : Ops \cup {None}, by : Sessions \cup {None},
                                call : Stations \cup {None}]]
<1>1. at' \in [Tasks -> Places] /\ at'[t] = "free" /\ overtaken' \subseteq Tasks
  BY DEF ConsoleInv, TypeOK, Leave, Places
<1>2. req' \in [Tasks -> [op : Ops \cup {None}, by : Sessions \cup {None},
                          call : Stations \cup {None}]]
  BY DEF ConsoleInv, TypeOK, Leave, NoReq
<1>3. \A u \in Tasks \ {t} : at'[u] = at[u] /\ req'[u] = req[u] /\ (u \in overtaken' <=> u \in overtaken)
  BY DEF ConsoleInv, TypeOK, Leave
<1> QED
  BY <1>1, <1>2, <1>3 DEF ConsoleInv, Covered

\* What arms for "holder" is covered by the lease.
LEMMA StartsKeeps ==
  ASSUME LeaseAssumption, ConsoleInv, NEW t \in Tasks, at[t] # "free", req[t].op \in {"reply", CQ, AUTO},
         NEW selection \in Stations \cup {None}, Starts(t, selection),
         req[t].op = AUTO => req[t].call \in Stations,
         UNCHANGED <<browser, lease, dead_man>>
  PROVE  ConsoleInv'
<1>1. Leave(t)
  BY DEF Starts
<1>2. qso' \in {IDLE, DONE, CQ} \cup Stations
  BY DEF Starts, ConsoleInv, TypeOK, CQ, AUTO
<1>3. selected' \in Stations \cup {None} /\ armed' = TRUE /\ uncertain' = FALSE
  BY DEF Starts
<1>4. /\ armed_as' \in {"holder", "overtaken", AUTO}
      /\ armed_as' = "holder" => req[t].op # AUTO /\ t \notin overtaken
  BY DEF Starts, AUTO
<1>5. TypeOK' /\ Covered'
  BY <1>1, <1>2, <1>3, <1>4, LeaveKeeps DEF ConsoleInv, TypeOK, browser
<1>6. Attended'
  BY <1>4 DEF Attended, ConsoleInv, Covered, AUTO
<1> QED
  BY <1>5, <1>6 DEF ConsoleInv

-----------------------------------------------------------------------------
\* The steps of a browser and its session.
LEMMA SessionKeeps ==
  ASSUME LeaseAssumption, ConsoleInv, NEW s \in Sessions,
         \/ Login(s) \/ LogOut(s) \/ StreamOpens(s) \/ Disconnected(s)
         \/ Acquire(s) \/ Heartbeat(s) \/ Release(s) \/ Stop(s)
  PROVE  ConsoleInv'
<1> DEFINE Leases == [by : Sessions, left : 0 .. Ttl]
<1> USE DEF LeaseAssumption
<1>1. ASSUME logged' \subseteq Sessions, streams' \in [Sessions -> 0 .. MaxStreams],
             UNCHANGED <<lease, dead_man, tx, selected, flight>>
      PROVE  ConsoleInv'
  BY <1>1 DEF ConsoleInv, TypeOK, Covered, Attended, tx, flight
<1>2. CASE Login(s) \/ LogOut(s)
  BY <1>1, <1>2 DEF Login, LogOut, ConsoleInv, TypeOK
<1>3. CASE StreamOpens(s)
  <2>1. streams' \in [Sessions -> 0 .. MaxStreams]
    BY <1>3 DEF StreamOpens, ConsoleInv, TypeOK
  <2> QED
    BY <1>1, <1>3, <2>1 DEF StreamOpens, ConsoleInv, TypeOK
<1>4. CASE Disconnected(s)
  <2>1. streams' \in [Sessions -> 0 .. MaxStreams] /\ logged' \subseteq Sessions
    BY <1>4 DEF Disconnected, ConsoleInv, TypeOK
  <2>2. CASE IsOwner(s)
    <3>1. ConsoleInv /\ Goes /\ dead_man' = TRUE /\ selected' = selected /\ lease' = None
      BY <1>4, <2>2 DEF Disconnected, DropByLoss
    <3>2. TypeOK'
      BY <2>1, <3>1 DEF ConsoleInv, TypeOK, Goes, InFlight
    <3>3. Covered' /\ Attended'
      BY <3>1, <3>2 DEF ConsoleInv, Covered, Attended, Goes, InFlight, TypeOK
    <3> QED
      BY <3>2, <3>3 DEF ConsoleInv
  <2>3. CASE ~IsOwner(s)
    BY <1>1, <1>4, <2>1, <2>3 DEF Disconnected
  <2> QED
    BY <2>2, <2>3
<1>5. CASE Acquire(s)
  <2>1. lease' \in Leases /\ lease'.by = s
    BY <1>5 DEF Acquire, Renew
  <2>2. CASE lease # None /\ ~Live
    BY <1>5, <2>1, <2>2, GoesKeeps DEF Acquire, browser
  <2>3. CASE ~(lease # None /\ ~Live)
    <3>1. lease = None \/ lease'.by = lease.by
      BY <1>5, <2>1, <2>3 DEF Acquire, Live
    <3>2. dead_man' = dead_man
      BY <1>5, <2>3 DEF Acquire, ConsoleInv, TypeOK
    <3> QED
      BY <1>5, <2>1, <2>3, <3>1, <3>2, RenewKeeps DEF Acquire, browser
  <2> QED
    BY <2>2, <2>3
<1>6. CASE Heartbeat(s)
  <2>1. lease' \in Leases /\ lease'.by = lease.by
    BY <1>6 DEF Heartbeat, Renew, IsOwner
  <2> QED
    BY <1>6, <2>1, RenewKeeps DEF Heartbeat
<1>7. CASE Release(s)
  BY <1>7, DisarmKeeps DEF Release, ConsoleInv, TypeOK, browser
<1>8. CASE Stop(s)
  BY <1>8, DisarmKeeps DEF Stop, ConsoleInv, TypeOK, browser
<1> QED
  BY <1>2, <1>3, <1>4, <1>5, <1>6, <1>7, <1>8

\* The steps of a request.
LEMMA RequestKeeps ==
  ASSUME LeaseAssumption, ConsoleInv, Requested, NEW t \in Tasks,
         \/ \E s \in Sessions : Arrives(t, s)
         \/ AutoCall(t) \/ SelectEnds(t) \/ ArmAtOnce(t) \/ ArmAwaits(t) \/ ArmReturns(t)
         \/ ArmRefused(t)
  PROVE  ConsoleInv'
<1>1. ASSUME NEW s \in Sessions, Arrives(t, s) PROVE ConsoleInv'
  <2>1. lease # None /\ lease.by = s
    BY <1>1 DEF Arrives, IsOwner, Live
  <2>2. PICK op \in Ops, call \in Stations \cup {None} : Enter(t, op, s, call, "body")
    BY <1>1 DEF Arrives, Ops
  <2> QED
    BY <1>1, <2>1, <2>2, EnterKeeps DEF Arrives, Places
<1>2. CASE AutoCall(t)
  <2>1. PICK call \in Stations : Enter(t, AUTO, None, call, "scheduled")
    BY <1>2 DEF AutoCall
  <2> QED
    BY <1>2, <2>1, EnterKeeps DEF AutoCall, Places, Ops
<1>3. Selecting(t) \in Stations \cup {None}
  BY DEF Selecting, ConsoleInv, TypeOK
<1>4. CASE SelectEnds(t) \/ ArmRefused(t)
  <2>1. Leave(t) /\ UNCHANGED <<browser, lease, dead_man, tx>>
    BY <1>4 DEF SelectEnds, ArmRefused
  <2>2. selected' \in Stations \cup {None}
    BY <1>3, <1>4 DEF SelectEnds, ArmRefused, ConsoleInv, TypeOK
  <2>3. TypeOK' /\ Covered'
    BY <2>1, <2>2, LeaveKeeps DEF ConsoleInv, TypeOK, browser, tx
  <2> QED
    BY <2>1, <2>3 DEF ConsoleInv, Attended, tx
<1>5. CASE ArmAtOnce(t) \/ ArmReturns(t)
  <2>1. at[t] # "free" /\ req[t].op \in {"reply", CQ, AUTO}
    BY <1>5 DEF ArmAtOnce, ArmReturns, Reaches, Requested, Ops
  <2>2. PICK selection \in Stations \cup {None} : Starts(t, selection)
    BY <1>3, <1>5 DEF ArmAtOnce, ArmReturns, ConsoleInv, TypeOK
  <2>3. req[t].op = AUTO => req[t].call \in Stations
    BY <2>1 DEF Requested
  <2> QED
    BY <1>5, <2>1, <2>2, <2>3, StartsKeeps DEF ArmAtOnce, ArmReturns
<1>6. CASE ArmAwaits(t)
  <2>1. at' \in [Tasks -> Places] /\ \A u \in Tasks : at'[u] # "free" => at[u] # "free"
    BY <1>6 DEF ArmAwaits, Reaches, ConsoleInv, TypeOK, Places
  <2>2. TypeOK'
    BY <1>3, <1>6, <2>1 DEF ArmAwaits, ConsoleInv, TypeOK, browser, tx
  <2> QED
    BY <1>6, <2>1, <2>2 DEF ArmAwaits, ConsoleInv, Covered, Attended, tx
<1> QED
  BY <1>1, <1>2, <1>4, <1>5, <1>6

LEMMA RequestedKept ==
  ASSUME TypeOK, Requested, [Next]_vars
  PROVE  Requested'
<1>1. ASSUME NEW t \in Tasks, NEW op \in Ops, NEW s, NEW call, NEW place \in {"body", "scheduled"},
             Enter(t, op, s, call, place), op = AUTO => call \in Stations,
             place = "scheduled" => op # "select"
      PROVE  Requested'
  BY <1>1 DEF Enter, Requested, TypeOK
<1>2. ASSUME NEW t \in Tasks, Leave(t) PROVE Requested'
  BY <1>2 DEF Leave, Requested, TypeOK
<1>3. ASSUME NEW t \in Tasks, ArmAwaits(t) PROVE Requested'
  BY <1>3 DEF ArmAwaits, Reaches, Requested, TypeOK
<1>4. ASSUME UNCHANGED <<req, at>> PROVE Requested'
  BY <1>4 DEF Requested
<1>5. ASSUME NEW t \in Tasks, NEW s \in Sessions, Arrives(t, s) PROVE Requested'
  <2>1. PICK op \in Ops \ {AUTO}, call \in Stations \cup {None} : Enter(t, op, s, call, "body")
    BY <1>5 DEF Arrives, Ops, CQ, AUTO
  <2> QED
    BY <1>1, <2>1
<1>6. ASSUME NEW t \in Tasks, AutoCall(t) PROVE Requested'
  <2>1. PICK call \in Stations : Enter(t, AUTO, None, call, "scheduled")
    BY <1>6 DEF AutoCall
  <2> QED
    BY <1>1, <2>1 DEF Ops, AUTO
<1>7. ASSUME NEW t \in Tasks, SelectEnds(t) \/ ArmAtOnce(t) \/ ArmReturns(t) \/ ArmRefused(t)
      PROVE  Requested'
  BY <1>2, <1>7 DEF SelectEnds, ArmAtOnce, ArmReturns, ArmRefused, Starts
<1>8. ASSUME NEW s \in Sessions,
             \/ Login(s) \/ LogOut(s) \/ StreamOpens(s) \/ Disconnected(s)
             \/ Acquire(s) \/ Heartbeat(s) \/ Release(s) \/ Stop(s)
      PROVE  UNCHANGED <<req, at>>
  BY <1>8 DEF Login, LogOut, StreamOpens, Disconnected, Acquire, Heartbeat, Release, Stop,
     DropByLoss, Disarm, Goes, flight
<1>9. ASSUME ClockTicks \/ CheckExpiry \/ DeadManStops \/ PttUncertain \/ QsoEnds \/ UNCHANGED vars
      PROVE  UNCHANGED <<req, at>>
  BY <1>9 DEF ClockTicks, CheckExpiry, DeadManStops, PttUncertain, QsoEnds, DropByLoss, Disarm,
     Goes, vars, flight
<1> QED
  BY <1>3, <1>4, <1>5, <1>6, <1>7, <1>8, <1>9 DEF Next

-----------------------------------------------------------------------------
(***************************************************************************)
(* The specification.                                                      *)
(***************************************************************************)
LEMMA ConsoleKept ==
  ASSUME LeaseAssumption, ConsoleInv, Requested, [Next]_vars
  PROVE  ConsoleInv'
<1>1. CASE ClockTicks
  <2>1. lease' \in [by : Sessions, left : 0 .. Ttl] /\ lease'.by = lease.by
    BY <1>1 DEF ClockTicks, Live, ConsoleInv, TypeOK, LeaseAssumption
  <2> QED
    BY <1>1, <2>1, RenewKeeps DEF ClockTicks
<1>2. CASE CheckExpiry
  BY <1>2, GoesKeeps DEF CheckExpiry, DropByLoss, browser
<1>3. CASE DeadManStops
  BY <1>3, DisarmKeeps DEF DeadManStops, browser
<1>4. CASE PttUncertain
  BY <1>4 DEF PttUncertain, ConsoleInv, TypeOK, Covered, Attended, browser, flight
<1>5. CASE QsoEnds
  BY <1>5 DEF QsoEnds, ConsoleInv, TypeOK, Covered, Attended, browser, flight
<1>6. CASE UNCHANGED vars
  BY <1>6 DEF vars, ConsoleInv, TypeOK, Covered, Attended, browser, tx, flight
<1> QED
  BY <1>1, <1>2, <1>3, <1>4, <1>5, <1>6, SessionKeeps, RequestKeeps DEF Next

\* ConsoleInv holds always, for any sessions, stations and requests in flight.
THEOREM ConsoleInvariant == ASSUME LeaseAssumption PROVE Spec => [](ConsoleInv /\ Requested)
<1>1. Init => ConsoleInv /\ Requested
  BY ConsoleInit DEF Init, Requested
<1>2. ConsoleInv /\ Requested /\ [Next]_vars => (ConsoleInv /\ Requested)'
  BY ConsoleKept, RequestedKept DEF ConsoleInv
<1> QED
  BY <1>1, <1>2, PTL DEF Spec

\* The variables keep their types (all of lease.py and of what main.py and
\* api.py do with it).
THEOREM TypeCorrect == ASSUME LeaseAssumption PROVE Spec => []TypeOK
<1>1. ConsoleInv => TypeOK
  BY DEF ConsoleInv
<1> QED
  BY <1>1, ConsoleInvariant, PTL

\* What the holder of a lease has armed does not stay armed when the lease
\* goes, however it goes (15.4): TX is off, or the dead man is on its way.
THEOREM ArmedIsAttended == ASSUME LeaseAssumption PROVE Spec => []Attended
<1>1. ConsoleInv => Attended
  BY DEF ConsoleInv
<1> QED
  BY <1>1, ConsoleInvariant, PTL

-----------------------------------------------------------------------------
(***************************************************************************)
(* Consecutive batches.                                                    *)
(***************************************************************************)
\* s is m, m + 1, ...
Counts(s, m) == s \in Seq(Int) /\ \A i \in 1 .. Len(s) : s[i] = m + i - 1

LEMMA CountsAppend ==
  ASSUME NEW s, NEW m \in Int, Counts(s, m)
  PROVE  Counts(Append(s, m + Len(s)), m) /\ Len(Append(s, m + Len(s))) = Len(s) + 1
BY DEF Counts

LEMMA CountsTail ==
  ASSUME NEW s, NEW m \in Int, Counts(s, m), s # << >>
  PROVE  /\ Head(s) = m /\ Counts(Tail(s), m + 1)
         /\ Len(Tail(s)) = Len(s) - 1 /\ Len(s) \in Nat \ {0}
<1>1. s \in Seq(Int) /\ Len(s) \in Nat \ {0} /\ s[1] = m
  BY EmptySeq DEF Counts
<1>2. Len(Tail(s)) = Len(s) - 1 /\ Tail(s) \in Seq(Int) /\ \A i \in 1 .. Len(Tail(s)) : Tail(s)[i] = s[i + 1]
  BY <1>1, HeadTailProperties
<1> QED
  BY <1>1, <1>2 DEF Counts

LEMMA CountsConcat ==
  ASSUME NEW s, NEW t, NEW m \in Int, Counts(s, m), Counts(t, m + Len(s))
  PROVE  Counts(s \o t, m) /\ Len(s \o t) = Len(s) + Len(t)
<1>1. s \in Seq(Int) /\ t \in Seq(Int) /\ Len(s) \in Nat /\ Len(t) \in Nat
  BY DEF Counts
<1>2. /\ s \o t \in Seq(Int) /\ Len(s \o t) = Len(s) + Len(t)
      /\ \A i \in 1 .. Len(s) + Len(t) : (s \o t)[i] = IF i <= Len(s) THEN s[i] ELSE t[i - Len(s)]
  BY <1>1, ConcatProperties
<1> QED
  BY <1>1, <1>2 DEF Counts

LEMMA CountsIsPrefix ==
  ASSUME NEW s, NEW m \in Int, NEW n \in Int, Counts(s, m), n >= m - 1, Len(s) <= n - m + 1
  PROVE  IsPrefix(s, Upto(m, n)) /\ (Len(s) = n - m + 1 => s = Upto(m, n))
<1> DEFINE all == Upto(m, n)
<1>1. s \in Seq(Int) /\ Len(s) \in Nat
  BY DEF Counts
<1>2. all \in Seq(Int) /\ Len(all) = n - m + 1 /\ \A i \in 1 .. Len(all) : all[i] = m + i - 1
  BY DEF Upto
<1> HIDE DEF all
<1>3. /\ SubSeq(all, 1, Len(s)) \in Seq(Int) /\ Len(SubSeq(all, 1, Len(s))) = Len(s)
      /\ \A i \in 1 .. Len(s) : SubSeq(all, 1, Len(s))[i] = all[i]
  <2>1. \A i \in 1 .. Len(s) : all[i] \in Int
    BY <1>1, <1>2
  <2> QED
    BY <1>1, <2>1, SubSeqProperties
<1>4. SubSeq(s, 1, Len(s)) = s
  BY <1>1, SubSeqFull
<1>5. SubSeq(all, 1, Len(s)) = s
  BY <1>1, <1>2, <1>3, SeqEqual DEF Counts
<1>6. Len(s) = Len(all) => s = all
  BY <1>1, <1>2, SeqEqual DEF Counts
<1> QED
  BY <1>1, <1>2, <1>4, <1>5, <1>6 DEF IsPrefix, all

\* The oldest of the newest History batches, when n are published.
Oldest(n) == IF n >= History THEN n - History + 1 ELSE 1

LEMMA AtLeastOne == \A x \in Int : Max({1, x}) = IF x > 1 THEN x ELSE 1
<1> SUFFICES ASSUME NEW x \in Int PROVE Max({1, x}) = IF x > 1 THEN x ELSE 1
  OBVIOUS
<1> DEFINE y == IF x > 1 THEN x ELSE 1
<1>1. y \in {1, x} /\ \A z \in {1, x} : y >= z
  OBVIOUS
<1>2. \A w \in {1, x} : (\A z \in {1, x} : w >= z) => w = y
  OBVIOUS
<1> QED
  BY <1>1, <1>2 DEF Max

\* The replay ring is cut from the left.
LEMMA RingCounts ==
  ASSUME NEW n \in Nat, NEW s, Counts(s, Oldest(n)), Len(s) = n - Oldest(n) + 1
  PROVE  LET r == Ring(Append(s, n + 1))
         IN Counts(r, Oldest(n + 1)) /\ Len(r) = n + 1 - Oldest(n + 1) + 1
<1> DEFINE a == Append(s, n + 1)
           p == IF n >= History THEN 2 ELSE 1
<1>1. Counts(a, Oldest(n)) /\ Len(a) = n + 1 - Oldest(n) + 1
  BY CountsAppend, QueueAssumption DEF Oldest, QueueAssumption
<1> HIDE DEF a
<1>2. Max({1, Len(a) - History + 1}) = p
  BY <1>1, AtLeastOne, QueueAssumption DEF Oldest, QueueAssumption
<1>3. a \in Seq(Int) /\ Len(a) \in Nat /\ p \in 1 .. Len(a)
  BY <1>1, QueueAssumption DEF Counts, Oldest, QueueAssumption
<1> DEFINE r == SubSeq(a, p, Len(a))
<1>4. /\ r \in Seq(Int) /\ Len(r) = Len(a) - p + 1
      /\ \A i \in 1 .. Len(a) - p + 1 : r[i] = a[p + i - 1]
  <2>1. \A i \in p .. Len(a) : a[i] \in Int
    BY <1>3
  <2> HIDE DEF p
  <2> QED
    BY <1>3, <2>1, SubSeqProperties
<1> HIDE DEF r
<1>5. Len(r) = n + 1 - Oldest(n + 1) + 1
  BY <1>1, <1>4, QueueAssumption DEF Oldest, QueueAssumption
<1>6. \A i \in 1 .. Len(r) : r[i] = Oldest(n + 1) + i - 1
  <2> SUFFICES ASSUME NEW i \in 1 .. Len(r) PROVE r[i] = Oldest(n + 1) + i - 1
    OBVIOUS
  <2>1. r[i] = a[p + i - 1] /\ p + i - 1 \in 1 .. Len(a)
    BY <1>3, <1>4
  <2>2. a[p + i - 1] = Oldest(n) + (p + i - 1) - 1
    BY <1>1, <2>1 DEF Counts
  <2> QED
    BY <2>1, <2>2, <1>4, <1>3, QueueAssumption DEF Oldest, QueueAssumption
<1>7. Ring(a) = r
  BY <1>2 DEF Ring, r
<1> QED
  BY <1>4, <1>5, <1>6, <1>7 DEF Counts, a

-----------------------------------------------------------------------------
(***************************************************************************)
(* A decode client. DecodesInOrder is not inductive: where its batches are *)
(* must be known, in what it has received, in the send under way and in    *)
(* the queue, and that a queue still open lacks none of those published.   *)
(***************************************************************************)
\* What a client has been sent, has in hand (hand: 0 or 1) and has queued goes
\* on from m without a gap, to n unless it is closed (cl).
Placed(m, n, sh, hand, q, cl) ==
  /\ Counts(sh, m) /\ Counts(q, m + Len(sh) + hand)
  /\ Len(sh) + hand + Len(q) <= n - m + 1
  /\ cl \/ Len(sh) + hand + Len(q) = n - m + 1

LEMMA PlacedTakes ==
  ASSUME NEW m \in Nat, NEW n \in Nat, NEW sh, NEW q, NEW cl, Placed(m, n, sh, 0, q, cl), q # << >>
  PROVE  Head(q) = m + Len(sh) /\ Placed(m, n, sh, 1, Tail(q), cl)
<1> DEFINE a == Len(sh)
           b == Len(q)
           t == Len(Tail(q))
<1>1. a \in Nat /\ Counts(sh, m) /\ Counts(q, m + a + 0)
  BY DEF Placed, Counts
<1>2. a + 0 + b <= n - m + 1 /\ (cl \/ a + 0 + b = n - m + 1)
  BY DEF Placed
<1>3. SUFFICES /\ Head(q) = m + a /\ Counts(Tail(q), m + a + 1)
               /\ a + 1 + t <= n - m + 1 /\ (cl \/ a + 1 + t = n - m + 1)
  BY <1>1 DEF Placed
<1> HIDE DEF a
<1>4. m + a + 0 = m + a /\ m + a \in Int
  BY <1>1
<1>5. Head(q) = m + a /\ Counts(Tail(q), m + a + 1) /\ t = b - 1 /\ b \in Nat
  BY <1>1, <1>4, CountsTail
<1> HIDE DEF b, t
<1> QED
  BY <1>1, <1>2, <1>5

LEMMA PlacedSends ==
  ASSUME NEW m \in Nat, NEW n \in Nat, NEW sh, NEW q, NEW cl, Placed(m, n, sh, 1, q, cl)
  PROVE  Placed(m, n, Append(sh, m + Len(sh)), 0, q, cl)
<1> DEFINE a == Len(sh)
           b == Len(q)
           t == Append(sh, m + Len(sh))
           e == Len(t)
<1>1. a \in Nat /\ b \in Nat /\ Counts(q, m + a + 1)
  BY DEF Placed, Counts
<1>2. a + 1 + b <= n - m + 1 /\ (cl \/ a + 1 + b = n - m + 1)
  BY DEF Placed
<1>3. Counts(t, m) /\ e = a + 1
  BY CountsAppend DEF Placed
<1>4. SUFFICES /\ Counts(t, m) /\ Counts(q, m + e + 0)
               /\ e + 0 + b <= n - m + 1 /\ (cl \/ e + 0 + b = n - m + 1)
  BY DEF Placed
<1> HIDE DEF a, b, t, e
<1>5. m + e + 0 = m + a + 1
  BY <1>1, <1>3
<1> QED
  BY <1>1, <1>2, <1>3, <1>5

LEMMA PlacedPublishes ==
  ASSUME NEW m \in Nat, NEW n \in Nat, NEW sh, NEW hand \in {0, 1}, NEW q, Placed(m, n, sh, hand, q, FALSE)
  PROVE  Placed(m, n + 1, sh, hand, Append(q, n + 1), FALSE)
<1> DEFINE a == Len(sh)
           b == Len(q)
           t == Append(q, n + 1)
           e == Len(t)
<1>1. a \in Nat /\ b \in Nat /\ Counts(sh, m) /\ Counts(q, m + a + hand)
  BY DEF Placed, Counts
<1>2. a + hand + b = n - m + 1
  BY DEF Placed
<1>3. SUFFICES Counts(t, m + a + hand) /\ e = b + 1
  <2> HIDE DEF t
  <2>1. SUFFICES a + hand + e <= n + 1 - m + 1 /\ a + hand + e = n + 1 - m + 1
    BY <1>1, <1>3 DEF Placed, t
  <2> HIDE DEF a, b, e
  <2> QED
    BY <1>1, <1>2, <1>3
<1>4. m + a + hand \in Int /\ n + 1 = m + a + hand + b
  <2> HIDE DEF a, b
  <2> QED
    BY <1>1, <1>2
<1> HIDE DEF a
<1> QED
  BY <1>1, <1>4, CountsAppend

LEMMA PlacedOverflows ==
  ASSUME NEW m \in Nat, NEW n \in Nat, NEW sh, NEW hand \in {0, 1}, NEW q, NEW cl, Placed(m, n, sh, hand, q, cl)
  PROVE  Placed(m, n + 1, sh, hand, q, TRUE)
<1> DEFINE a == Len(sh)
           b == Len(q)
<1>1. a \in Nat /\ b \in Nat /\ Counts(sh, m) /\ Counts(q, m + a + hand) /\ a + hand + b <= n - m + 1
  BY DEF Placed, Counts
<1>2. SUFFICES a + hand + b <= n + 1 - m + 1
  BY <1>1 DEF Placed
<1> HIDE DEF a, b
<1> QED
  BY <1>1

Boxes == /\ DOMAIN pump = Clients /\ DOMAIN kind = Clients /\ DOMAIN queue = Clients
         /\ DOMAIN item = Clients /\ DOMAIN shown = Clients /\ DOMAIN joined = Clients
         /\ DOMAIN closed = Clients

Ringed == /\ published.decodes \in Nat
          /\ Counts(batches, Oldest(published.decodes))
          /\ Len(batches) = published.decodes - Oldest(published.decodes) + 1

InHand(c) == IF pump[c] = "sending" THEN 1 ELSE 0

Ordered(c) ==
  /\ joined[c] \in 0 .. published.decodes
  /\ pump[c] = "sending" => item[c] = Oldest(joined[c]) + Len(shown[c])
  /\ Placed(Oldest(joined[c]), published.decodes, shown[c], InHand(c), queue[c], closed[c])

DecodesInv == Boxes /\ Ringed /\ \A c \in Clients : Open(c, "decodes") => Ordered(c)

LEMMA OldestIs == \A n \in Nat : Oldest(n) \in Nat /\ 1 <= Oldest(n) /\ Oldest(n) <= n + 1
BY QueueAssumption DEF Oldest, QueueAssumption

LEMMA OrderedIs ==
  ASSUME DecodesInv, NEW c \in Clients, Ordered(c)
  PROVE  /\ published.decodes \in Nat /\ joined[c] \in Nat /\ Oldest(joined[c]) \in Nat
         /\ InHand(c) \in {0, 1}
<1>1. published.decodes \in Nat
  BY DEF DecodesInv, Ringed
<1>2. joined[c] \in Nat
  BY <1>1 DEF Ordered
<1> QED
  BY <1>1, <1>2, OldestIs DEF InHand

LEMMA DecodesInit == ASSUME StreamsInit PROVE DecodesInv
BY QueueAssumption DEF StreamsInit, DecodesInv, Boxes, Ringed, Open, Counts, Oldest, QueueAssumption

\* Ordered of the next state, spelt out.
LEMMA OrderedNext ==
  ASSUME NEW c \in Clients, joined'[c] = joined[c],
         joined[c] \in 0 .. published'.decodes,
         pump'[c] = "sending" => item'[c] = Oldest(joined[c]) + Len(shown'[c]),
         Placed(Oldest(joined[c]), published'.decodes, shown'[c],
                IF pump'[c] = "sending" THEN 1 ELSE 0, queue'[c], closed'[c])
  PROVE  Ordered(c)'
BY DEF Ordered, InHand, Placed, Counts, Oldest

\* What another client does, or a publisher of another stream.
LEMMA OrderedStays ==
  ASSUME NEW c \in Clients, Ordered(c), published'.decodes = published.decodes,
         pump'[c] = "sending" <=> pump[c] = "sending",
         shown'[c] = shown[c], queue'[c] = queue[c], item'[c] = item[c], joined'[c] = joined[c],
         closed'[c] = closed[c]
  PROVE  Ordered(c)'
BY OrderedNext DEF Ordered, InHand

LEMMA DeliverElsewhere ==
  ASSUME DecodesInv, NEW k \in {"state", "waterfall"}, NEW offered, Deliver(k, offered),
         published'.decodes = published.decodes, batches' = batches
  PROVE  DecodesInv'
<1>1. Boxes'
  BY DEF Deliver, DecodesInv, Boxes
<1>2. Ringed'
  BY DEF DecodesInv, Ringed
<1>3. ASSUME NEW c \in Clients, Open(c, "decodes")'
      PROVE  Ordered(c)'
  <2>1. kind[c] = "decodes"
    BY <1>3 DEF Deliver, Open
  <2>2. pump'[c] = pump[c] /\ queue'[c] = queue[c] /\ closed'[c] = closed[c]
    BY <2>1 DEF Deliver, Open, Box
  <2>3. Ordered(c)
    BY <1>3, <2>1, <2>2 DEF Open, DecodesInv
  <2> QED
    BY <2>2, <2>3, OrderedStays DEF Deliver
<1> QED
  BY <1>1, <1>2, <1>3 DEF DecodesInv

LEMMA PublishInOrder ==
  ASSUME DecodesInv, PublishDecodes
  PROVE  DecodesInv'
<1> DEFINE n == published.decodes
<1>1. Boxes'
  BY DEF PublishDecodes, Deliver, DecodesInv, Boxes
<1>2. n \in Nat /\ published'.decodes = n + 1
  BY DEF PublishDecodes, DecodesInv, Ringed
<1>3. Ringed'
  <2>1. batches' = Ring(Append(batches, n + 1)) /\ n + 1 \in Nat
    BY <1>2 DEF PublishDecodes
  <2>2. Counts(batches', Oldest(n + 1)) /\ Len(batches') = n + 1 - Oldest(n + 1) + 1
    BY <1>2, <2>1, RingCounts DEF DecodesInv, Ringed
  <2> DEFINE k == published'.decodes
  <2>3. k = n + 1
    BY <1>2
  <2> HIDE DEF k, n
  <2>4. Oldest(k) = Oldest(n + 1)
    BY <2>3
  <2>5. k \in Nat /\ Counts(batches', Oldest(k))
    BY <2>1, <2>2, <2>3, <2>4
  <2>6. Len(batches') = k - Oldest(k) + 1
    <3> DEFINE o == Oldest(k)
    <3>1. n \in Nat /\ o \in Nat
      BY <1>2, <2>5, OldestIs DEF n
    <3>2. Len(batches') = n + 1 - o + 1
      BY <2>2, <2>4
    <3> HIDE DEF o
    <3>3. Len(batches') = k - o + 1
      BY <2>3, <3>1, <3>2
    <3> QED
      BY <3>3 DEF o
  <2> QED
    BY <2>5, <2>6 DEF Ringed, Counts, Oldest, k
<1>4. ASSUME NEW c \in Clients, Open(c, "decodes")'
      PROVE  Ordered(c)'
  <2> DEFINE m == Oldest(joined[c])
  <2>1. kind[c] = "decodes" /\ Open(c, "decodes")
    BY <1>4 DEF PublishDecodes, Deliver, Open, Woken
  <2>2. /\ joined'[c] = joined[c] /\ shown'[c] = shown[c] /\ item'[c] = item[c]
        /\ pump'[c] = "sending" <=> pump[c] = "sending"
    BY <2>1 DEF PublishDecodes, Deliver, Woken
  <2>3. Ordered(c)
    BY <2>1 DEF DecodesInv
  <2>4. m \in Nat /\ joined[c] \in 0 .. n /\ InHand(c) \in {0, 1}
    BY <2>3, OrderedIs DEF Ordered
  <2>5. Placed(m, n, shown[c], InHand(c), queue[c], closed[c])
    BY <2>3 DEF Ordered
  <2>6. Placed(m, n + 1, shown[c], InHand(c), queue'[c], closed'[c])
    <3>1. CASE closed[c]
      <4>1. queue'[c] = queue[c] /\ closed'[c] = closed[c]
        BY <3>1 DEF PublishDecodes, Deliver, Box
      <4>2. Placed(m, n + 1, shown[c], InHand(c), queue[c], TRUE)
        BY <1>2, <2>4, <2>5, PlacedOverflows
      <4> QED
        BY <3>1, <4>1, <4>2 DEF Placed
    <3>2. CASE ~closed[c] /\ Len(queue[c]) < DecodeQueue
      <4>1. queue'[c] = Append(queue[c], n + 1) /\ ~closed'[c]
        BY <2>1, <3>2 DEF PublishDecodes, Deliver, Box, OfferDecodes
      <4>2. Placed(m, n, shown[c], InHand(c), queue[c], FALSE)
        BY <2>5, <3>2 DEF Placed
      <4>3. Placed(m, n + 1, shown[c], InHand(c), queue'[c], FALSE)
        BY <1>2, <2>4, <4>1, <4>2, PlacedPublishes
      <4> QED
        BY <4>1, <4>3 DEF Placed
    <3>3. CASE ~closed[c] /\ ~(Len(queue[c]) < DecodeQueue)
      <4>1. queue'[c] = queue[c] /\ closed'[c]
        BY <2>1, <3>3 DEF PublishDecodes, Deliver, Box, OfferDecodes
      <4>2. Placed(m, n + 1, shown[c], InHand(c), queue[c], TRUE)
        BY <1>2, <2>4, <2>5, PlacedOverflows
      <4> QED
        BY <4>1, <4>2 DEF Placed
    <3> QED
      BY <3>1, <3>2, <3>3
  <2> HIDE DEF n
  <2>7. joined[c] \in 0 .. n + 1
    BY <1>2, <2>4
  <2> QED
    BY <1>2, <2>2, <2>3, <2>6, <2>7, OrderedNext DEF Ordered, InHand
<1> QED
  BY <1>1, <1>3, <1>4 DEF DecodesInv

LEMMA ConnectInOrder ==
  ASSUME DecodesInv, NEW c \in Clients, Connect(c)
  PROVE  DecodesInv'
<1>1. Boxes'
  BY DEF Connect, ConnectState, ConnectDecodes, ConnectWaterfall, Subscribe, DecodesInv, Boxes
<1>2. Ringed' /\ published' = published
  BY DEF Connect, ConnectState, ConnectDecodes, ConnectWaterfall, Subscribe, DecodesInv, Ringed
<1>3. ASSUME NEW d \in Clients, d # c, Open(d, "decodes")'
      PROVE  Ordered(d)'
  <2>1. /\ pump'[d] = pump[d] /\ kind'[d] = kind[d] /\ shown'[d] = shown[d] /\ queue'[d] = queue[d]
        /\ item'[d] = item[d] /\ joined'[d] = joined[d] /\ closed'[d] = closed[d]
    BY <1>3 DEF Connect, ConnectState, ConnectDecodes, ConnectWaterfall, Subscribe, DecodesInv, Boxes
  <2> QED
    BY <1>2, <1>3, <2>1, OrderedStays DEF DecodesInv, Open
<1>4. ASSUME Open(c, "decodes")'
      PROVE  Ordered(c)'
  <2>1. ConnectDecodes(c)
    BY <1>4 DEF Connect, ConnectState, ConnectWaterfall, Subscribe, Open, DecodesInv, Boxes
  <2>2. /\ pump'[c] = "ready" /\ shown'[c] = << >> /\ queue'[c] = batches
        /\ joined'[c] = published.decodes
    BY <2>1 DEF ConnectDecodes, Subscribe, DecodesInv, Boxes
  <2> DEFINE n == published.decodes
             m == Oldest(n)
  <2>3. n \in Nat /\ m \in Nat /\ Counts(batches, m) /\ Len(batches) = n - m + 1
    BY OldestIs DEF DecodesInv, Ringed
  <2>4. Counts(<< >>, m) /\ Len(<< >>) = 0
    BY DEF Counts
  <2> HIDE DEF n, m
  <2>5. m + 0 + 0 = m /\ 0 + 0 + Len(batches) = n - m + 1 /\ n \in 0 .. n
    BY <2>3
  <2>6. Placed(m, n, << >>, 0, batches, closed'[c])
    BY <2>3, <2>4, <2>5 DEF Placed
  <2> QED
    BY <1>2, <2>2, <2>5, <2>6 DEF Ordered, InHand, Placed, Counts, Oldest, n, m
<1> QED
  BY <1>1, <1>2, <1>3, <1>4 DEF DecodesInv

LEMMA PumpInOrder ==
  ASSUME DecodesInv, NEW c \in Clients, SocketDies(c) \/ PumpStep(c)
  PROVE  DecodesInv'
<1>1. Boxes'
  BY DEF SocketDies, PumpStep, PumpTakes, PumpFindsNothing, PumpSleeps, PumpSends, SendFails, mailbox,
         DecodesInv, Boxes
<1>2. Ringed' /\ published' = published /\ kind' = kind /\ joined' = joined
  BY DEF SocketDies, PumpStep, PumpTakes, PumpFindsNothing, PumpSleeps, PumpSends, SendFails, DecodesInv, Ringed
<1>3. ASSUME NEW d \in Clients, d # c, Open(d, "decodes")'
      PROVE  Ordered(d)'
  <2>1. /\ pump'[d] = pump[d] /\ shown'[d] = shown[d] /\ queue'[d] = queue[d]
        /\ item'[d] = item[d] /\ closed'[d] = closed[d]
    BY <1>3 DEF SocketDies, PumpStep, PumpTakes, PumpFindsNothing, PumpSleeps, PumpSends, SendFails, mailbox,
                DecodesInv, Boxes
  <2> QED
    BY <1>2, <1>3, <2>1, OrderedStays DEF DecodesInv, Open
<1>4. ASSUME Open(c, "decodes")'
      PROVE  Ordered(c)'
  <2> DEFINE m == Oldest(joined[c])
  <2>1. Ordered(c) /\ kind[c] = "decodes"
    BY <1>2, <1>4 DEF SocketDies, PumpStep, PumpTakes, PumpFindsNothing, PumpSleeps, PumpSends, SendFails,
                DecodesInv, Open
  <2>2. m \in Nat /\ published.decodes \in Nat
    BY <2>1, OrderedIs
  <2>3. CASE SocketDies(c) \/ PumpFindsNothing(c) \/ PumpSleeps(c)
    BY <1>2, <2>1, <2>3, OrderedStays
    DEF SocketDies, PumpFindsNothing, PumpSleeps, mailbox, DecodesInv, Boxes
  <2>4. CASE PumpTakes(c)
    <3>1. /\ pump[c] = "ready" /\ pump'[c] = "sending" /\ item'[c] = Head(queue[c]) /\ queue[c] # << >>
          /\ queue'[c] = Tail(queue[c]) /\ shown' = shown /\ closed' = closed
      BY <2>4 DEF PumpTakes, DecodesInv, Boxes
    <3>2. Placed(m, published.decodes, shown[c], 0, queue[c], closed[c])
      BY <2>1, <3>1 DEF Ordered, InHand
    <3>3. /\ Head(queue[c]) = m + Len(shown[c])
          /\ Placed(m, published.decodes, shown[c], 1, Tail(queue[c]), closed[c])
      BY <2>2, <3>1, <3>2, PlacedTakes
    <3> QED
      BY <1>2, <2>1, <3>1, <3>3, OrderedNext DEF Ordered
  <2>5. CASE PumpSends(c)
    <3>1. /\ pump[c] = "sending" /\ pump'[c] = "ready" /\ queue' = queue /\ closed' = closed
          /\ shown'[c] = Append(shown[c], item[c])
      BY <1>4, <2>1, <2>5 DEF PumpSends, Seen, Open, mailbox, DecodesInv, Boxes
    <3>2. Placed(m, published.decodes, shown[c], 1, queue[c], closed[c]) /\ item[c] = m + Len(shown[c])
      BY <2>1, <3>1 DEF Ordered, InHand
    <3>3. Placed(m, published.decodes, shown'[c], 0, queue[c], closed[c])
      BY <2>2, <3>1, <3>2, PlacedSends
    <3> QED
      BY <1>2, <2>1, <3>1, <3>3, OrderedNext DEF Ordered
  <2>6. CASE SendFails(c)
    BY <1>4, <2>6 DEF SendFails, Open, DecodesInv, Boxes
  <2> QED
    BY <2>3, <2>4, <2>5, <2>6 DEF PumpStep
<1> QED
  BY <1>1, <1>2, <1>3, <1>4 DEF DecodesInv

LEMMA DecodesStep == ASSUME DecodesInv, [StreamsNext]_streamsVars PROVE DecodesInv'
<1>1. CASE PublishState
  <2>1. published'.decodes = published.decodes /\ batches' = batches
    BY <1>1 DEF PublishState
  <2> QED
    BY <1>1, <2>1, DeliverElsewhere DEF PublishState
<1>2. CASE PublishFrame
  BY <1>2, DeliverElsewhere DEF PublishFrame
<1>3. CASE Push \/ UNCHANGED streamsVars
  <2>1. UNCHANGED <<published, batches, socket, mailbox>>
    BY <1>3 DEF Push, streamsVars
  <2>2. ASSUME NEW c \in Clients, Open(c, "decodes")' PROVE Ordered(c)'
    BY <2>1, <2>2, OrderedStays DEF socket, mailbox, Open, DecodesInv
  <2> QED
    BY <2>1, <2>2 DEF socket, mailbox, DecodesInv, Boxes, Ringed
<1> QED
  BY <1>1, <1>2, <1>3, PublishInOrder, ConnectInOrder, PumpInOrder DEF StreamsNext

LEMMA PlacedIs ==
  ASSUME NEW m \in Nat, NEW n \in Nat, NEW sh, NEW h, NEW q, NEW cl, Placed(m, n, sh, Len(h), q, cl),
         Counts(h, m + Len(sh)), n >= m - 1
  PROVE  LET all == Upto(m, n)
         IN /\ IsPrefix(sh \o h \o q, all)
            /\ Len(sh) + Len(h) + Len(q) = n - m + 1 => sh \o h \o q = all
<1> DEFINE a == Len(sh)
           b == Len(h)
           e == Len(q)
           r == (sh \o h) \o q
           l == Len(r)
<1>1. a \in Nat /\ b \in Nat /\ e \in Nat /\ Counts(sh, m) /\ Counts(h, m + a) /\ Counts(q, m + a + b)
  BY DEF Placed, Counts
<1>2. a + b + e <= n - m + 1
  BY DEF Placed
<1>3. Counts(sh \o h, m) /\ Len(sh \o h) = a + b
  BY <1>1, CountsConcat
<1>4. m + (a + b) = m + a + b
  <2> HIDE DEF a, b
  <2> QED
    BY <1>1
<1>5. Counts(r, m) /\ l = a + b + e
  <2> DEFINE f == Len(sh \o h)
  <2>1. Counts(q, m + f)
    BY <1>1, <1>3, <1>4
  <2>2. Counts(sh \o h, m) /\ m \in Int
    BY <1>3
  <2>3. Counts(r, m) /\ l = f + e
    BY <2>1, <2>2, CountsConcat
  <2> QED
    BY <1>3, <2>3
<1>6. l <= n - m + 1
  <2> HIDE DEF a, b, e, l
  <2> QED
    BY <1>1, <1>2, <1>5
<1> HIDE DEF r
<1>7. IsPrefix(r, Upto(m, n)) /\ (l = n - m + 1 => r = Upto(m, n))
  <2>1. Counts(r, m) /\ Len(r) <= n - m + 1 /\ n >= m - 1 /\ m \in Int /\ n \in Int
    BY <1>5, <1>6
  <2> HIDE DEF l
  <2>2. IsPrefix(r, Upto(m, n)) /\ (Len(r) = n - m + 1 => r = Upto(m, n))
    BY ONLY <2>1, CountsIsPrefix
  <2> QED
    BY <2>2 DEF l
<1> HIDE DEF l
<1> QED
  BY <1>5, <1>7 DEF r

\* A decode client gets the newest batches of its arrival and all that follow,
\* each once and in order, until it is closed: the bounded queue never drops one
\* silently (DecodeBroadcaster, ws.py).
THEOREM DecodesComeInOrder == StreamsSpec => []DecodesInOrder
<1>1. DecodesInv => DecodesInOrder
  <2> SUFFICES ASSUME DecodesInv, NEW c \in Clients, Open(c, "decodes")
               PROVE  LET all == Upto(Max({1, joined[c] - History + 1}), published.decodes)
                      IN IF closed[c] THEN IsPrefix(Received(c), all) ELSE Received(c) = all
    BY DEF DecodesInOrder
  <2> DEFINE m == Oldest(joined[c])
  <2>1. /\ Ordered(c) /\ joined[c] \in Nat /\ joined[c] <= published.decodes
        /\ published.decodes \in Nat
    BY DEF DecodesInv, Ordered, Ringed
  <2>2. Max({1, joined[c] - History + 1}) = m /\ m \in Int /\ published.decodes >= m - 1
    BY <2>1, QueueAssumption, AtLeastOne, OldestIs DEF QueueAssumption, Oldest
  <2> DEFINE h == IF pump[c] = "sending" THEN <<item[c]>> ELSE << >>
             n == published.decodes
  <2>3. Counts(h, m + Len(shown[c])) /\ Len(h) = InHand(c)
    BY <2>1, <2>2 DEF Ordered, Counts, InHand, Placed
  <2>4. Placed(m, n, shown[c], Len(h), queue[c], closed[c]) /\ m \in Nat
    BY <2>1, <2>3, OrderedIs DEF Ordered
  <2> HIDE DEF h
  <2>5. IsPrefix(shown[c] \o h \o queue[c], Upto(m, n)) /\ (closed[c] \/ shown[c] \o h \o queue[c] = Upto(m, n))
    <3> DEFINE sh == shown[c]
               q == queue[c]
    <3>1. m \in Nat /\ n \in Nat /\ n >= m - 1
      BY <2>1, <2>2, <2>4
    <3>2. Counts(h, m + Len(sh)) /\ Placed(m, n, sh, Len(h), q, closed[c])
      BY <2>3, <2>4
    <3>3. closed[c] \/ Len(sh) + Len(h) + Len(q) = n - m + 1
      BY <3>2 DEF Placed
    <3> HIDE DEF m, n, sh, q
    <3>4. /\ IsPrefix(sh \o h \o q, Upto(m, n))
          /\ Len(sh) + Len(h) + Len(q) = n - m + 1 => sh \o h \o q = Upto(m, n)
      BY <3>1, <3>2, PlacedIs
    <3> QED
      BY <3>3, <3>4 DEF sh, q
  <2> QED
    BY <2>2, <2>5 DEF Received, h
<1>2. StreamsInit => DecodesInv
  BY DecodesInit
<1>3. DecodesInv /\ [StreamsNext]_streamsVars => DecodesInv'
  BY DecodesStep
<1> QED
  BY <1>1, <1>2, <1>3, PTL DEF StreamsSpec

-----------------------------------------------------------------------------
(***************************************************************************)
(* Newest wins. What a state client has been shown, has in hand (hand) and *)
(* has queued rises, and ends with the newest unless the client is closed. *)
(***************************************************************************)
Rising(s) == s \in Seq(Nat) /\ \A i, j \in 1 .. Len(s) : i < j => s[i] < s[j]

\* All of s lies past k.
Past(k, s) == \A i \in 1 .. Len(s) : k < s[i]

EndsWith(n, sh, hand, it, q) ==
  \/ Len(q) > 0 /\ q[Len(q)] = n
  \/ Len(q) = 0 /\ hand /\ it = n
  \/ Len(q) = 0 /\ ~hand /\ Len(sh) = 1 /\ sh[1] = n

Newer(n, sh, hand, it, q, cl) ==
  /\ Rising(q) /\ \A i \in 1 .. Len(q) : q[i] <= n
  /\ hand => it \in 0 .. n /\ Past(it, q)
  /\ sh \in Seq(Nat) /\ Len(sh) <= 1
  /\ \A k \in 1 .. Len(sh) : sh[k] <= n /\ (hand => sh[k] < it) /\ Past(sh[k], q)
  /\ cl \/ EndsWith(n, sh, hand, it, q)

LEMMA TailRises ==
  ASSUME NEW q, Rising(q), q # << >>
  PROVE  /\ Head(q) = q[1] /\ q[1] \in Nat /\ Len(q) \in Nat \ {0}
         /\ Rising(Tail(q)) /\ Len(Tail(q)) = Len(q) - 1
         /\ \A i \in 1 .. Len(Tail(q)) : i + 1 \in 1 .. Len(q) /\ Tail(q)[i] = q[i + 1]
         /\ Past(q[1], Tail(q))
<1>1. q \in Seq(Nat) /\ Len(q) \in Nat \ {0} /\ Head(q) = q[1] /\ q[1] \in Nat
  BY EmptySeq DEF Rising
<1>2. Len(Tail(q)) = Len(q) - 1 /\ Tail(q) \in Seq(Nat) /\ \A i \in 1 .. Len(Tail(q)) : Tail(q)[i] = q[i + 1]
  BY <1>1, HeadTailProperties
<1>3. \A i \in 1 .. Len(Tail(q)) : i + 1 \in 1 .. Len(q)
  BY <1>1, <1>2
<1>4. Rising(Tail(q))
  BY <1>1, <1>2, <1>3 DEF Rising
<1>5. Past(q[1], Tail(q))
  BY <1>1, <1>2, <1>3 DEF Rising, Past
<1> QED
  BY <1>1, <1>2, <1>3, <1>4, <1>5

LEMMA AppendRises ==
  ASSUME NEW q, NEW n \in Nat, Rising(q), \A i \in 1 .. Len(q) : q[i] <= n
  PROVE  /\ Rising(Append(q, n + 1)) /\ Len(Append(q, n + 1)) = Len(q) + 1 /\ Len(q) \in Nat
         /\ Append(q, n + 1)[Len(q) + 1] = n + 1
         /\ \A i \in 1 .. Len(q) + 1 : Append(q, n + 1)[i] <= n + 1
         /\ \A k \in Nat : Past(k, q) /\ k <= n => Past(k, Append(q, n + 1))
<1> DEFINE a == Append(q, n + 1)
           m == Len(q) + 1
<1>1. q \in Seq(Nat) /\ Len(q) \in Nat /\ \A i \in 1 .. Len(q) : q[i] \in Nat
  BY DEF Rising
<1>2. /\ a \in Seq(Nat) /\ Len(a) = m /\ a[m] = n + 1
      /\ \A i \in 1 .. Len(q) : a[i] = q[i]
  BY <1>1
<1>6. m \in 1 .. m /\ \A i \in 1 .. m : i = m \/ i \in 1 .. Len(q)
  BY <1>1
<1>7. \A i \in 1 .. m, j \in 1 .. m : i < j => i \in 1 .. Len(q)
  BY <1>1
<1> HIDE DEF a, m
<1>3. Rising(a)
  <2>1. ASSUME NEW i \in 1 .. Len(a), NEW j \in 1 .. Len(a), i < j
        PROVE  a[i] < a[j]
    <3>1. i \in 1 .. Len(q) /\ a[i] = q[i]
      BY <1>2, <1>7, <2>1
    <3>4. q[i] \in Nat /\ q[i] <= n
      BY <1>1, <3>1
    <3>2. CASE j = m
      BY <1>2, <3>1, <3>2, <3>4
    <3>3. CASE j \in 1 .. Len(q)
      <4>1. a[j] = q[j] /\ q[i] < q[j]
        BY <1>2, <2>1, <3>1, <3>3 DEF Rising
      <4> QED
        BY <3>1, <4>1
    <3> QED
      BY <1>2, <1>6, <3>2, <3>3
  <2> QED
    BY <1>2, <2>1 DEF Rising
<1>4. \A i \in 1 .. m : a[i] <= n + 1
  <2>1. ASSUME NEW i \in 1 .. Len(q) PROVE a[i] <= n + 1
    <3>1. a[i] = q[i] /\ q[i] \in Nat /\ q[i] <= n
      BY <1>1, <1>2
    <3> QED
      BY <3>1
  <2> QED
    BY <1>2, <1>6, <2>1
<1>5. ASSUME NEW k \in Nat, Past(k, q), k <= n
      PROVE  Past(k, a)
  <2>1. k < a[m]
    BY <1>2, <1>5
  <2>2. ASSUME NEW i \in 1 .. Len(q) PROVE k < a[i]
    <3>1. a[i] = q[i] /\ k < q[i]
      BY <1>2, <1>5 DEF Past
    <3> QED
      BY <3>1
  <2> QED
    BY <1>2, <1>6, <2>1, <2>2 DEF Past
<1> QED
  BY <1>1, <1>2, <1>3, <1>4, <1>5 DEF a, m

\* A snapshot is queued.
LEMMA NewerQueues ==
  ASSUME NEW n \in Nat, NEW sh, NEW hand \in BOOLEAN, NEW it, NEW q, NEW cl, Newer(n, sh, hand, it, q, cl)
  PROVE  Newer(n + 1, sh, hand, it, Append(q, n + 1), FALSE)
<1> DEFINE a == Append(q, n + 1)
<1>1. /\ Rising(a) /\ Len(a) = Len(q) + 1 /\ Len(q) \in Nat /\ a[Len(q) + 1] = n + 1
      /\ \A i \in 1 .. Len(q) + 1 : a[i] <= n + 1
      /\ \A k \in Nat : Past(k, q) /\ k <= n => Past(k, a)
  BY AppendRises DEF Newer
<1> HIDE DEF a
<1>2. hand => it \in 0 .. n + 1 /\ Past(it, a)
  BY <1>1 DEF Newer
<1>3. /\ sh \in Seq(Nat) /\ Len(sh) <= 1
      /\ \A k \in 1 .. Len(sh) : sh[k] <= n + 1 /\ (hand => sh[k] < it) /\ Past(sh[k], a)
  <2>1. sh \in Seq(Nat) /\ \A k \in 1 .. Len(sh) : sh[k] \in Nat /\ sh[k] <= n
    BY DEF Newer
  <2> QED
    BY <1>1, <2>1 DEF Newer
<1>4. EndsWith(n + 1, sh, hand, it, a)
  BY <1>1 DEF EndsWith
<1> QED
  BY <1>1, <1>2, <1>3, <1>4 DEF Newer, a

\* The oldest queued is dropped; a closed client may end with anything.
LEMMA NewerDrops ==
  ASSUME NEW n \in Nat, NEW sh, NEW hand \in BOOLEAN, NEW it, NEW q, NEW cl, Newer(n, sh, hand, it, q, cl), q # << >>
  PROVE  Newer(n, sh, hand, it, Tail(q), TRUE)
<1> DEFINE t == Tail(q)
<1>1. /\ Rising(t) /\ Len(t) \in Nat
      /\ \A i \in 1 .. Len(t) : i + 1 \in 1 .. Len(q) /\ t[i] = q[i + 1]
  BY TailRises DEF Newer, Rising
<1> HIDE DEF t
<1>2. /\ \A k : Past(k, q) => Past(k, t)
      /\ \A i \in 1 .. Len(t) : t[i] <= n
  BY <1>1 DEF Newer, Past
<1> QED
  BY <1>1, <1>2 DEF Newer, t

LEMMA NewerOverflows ==
  ASSUME NEW n \in Nat, NEW sh, NEW hand \in BOOLEAN, NEW it, NEW q, NEW cl, Newer(n, sh, hand, it, q, cl)
  PROVE  Newer(n + 1, sh, hand, it, q, TRUE)
<1>1. /\ q \in Seq(Nat) /\ sh \in Seq(Nat) /\ \A i \in 1 .. Len(q) : q[i] \in Nat /\ q[i] <= n
      /\ \A k \in 1 .. Len(sh) : sh[k] \in Nat /\ sh[k] <= n
  BY DEF Newer, Rising
<1> QED
  BY <1>1 DEF Newer

\* The pump takes the first, and sends it.
LEMMA NewerTakes ==
  ASSUME NEW n \in Nat, NEW sh, NEW it, NEW q, NEW cl, Newer(n, sh, FALSE, it, q, cl), q # << >>
  PROVE  Newer(n, sh, TRUE, Head(q), Tail(q), cl)
<1> DEFINE t == Tail(q)
           h == Head(q)
<1>1. /\ h = q[1] /\ h \in Nat /\ Len(q) \in Nat \ {0}
      /\ Rising(t) /\ Len(t) = Len(q) - 1 /\ Past(h, t)
      /\ \A i \in 1 .. Len(t) : i + 1 \in 1 .. Len(q) /\ t[i] = q[i + 1]
  BY TailRises DEF Newer
<1> HIDE DEF t, h
<1>2. /\ \A i \in 1 .. Len(t) : t[i] <= n
      /\ h \in 0 .. n
      /\ \A k \in 1 .. Len(sh) : sh[k] < h /\ Past(sh[k], t)
  BY <1>1 DEF Newer, Past
<1>3. EndsWith(n, sh, FALSE, it, q) => EndsWith(n, sh, TRUE, h, t)
  <2>1. CASE Len(q) = 1
    BY <1>1, <2>1 DEF EndsWith
  <2>2. CASE Len(q) > 1
    <3>1. Len(t) \in 1 .. Len(t) /\ t[Len(t)] = q[Len(t) + 1] /\ Len(t) + 1 = Len(q)
      BY <1>1, <2>2
    <3> QED
      BY <1>1, <2>2, <3>1 DEF EndsWith
  <2>3. Len(q) = 1 \/ Len(q) > 1
    <3> DEFINE b == Len(q)
    <3>1. b \in Nat \ {0}
      BY <1>1
    <3> HIDE DEF b
    <3>2. b = 1 \/ b > 1
      BY <3>1
    <3> QED
      BY <3>2 DEF b
  <2> QED
    BY <2>1, <2>2, <2>3
<1> QED
  BY <1>1, <1>2, <1>3 DEF Newer, t, h

LEMMA NewerSends ==
  ASSUME NEW n \in Nat, NEW sh, NEW it, NEW q, NEW cl, NEW any, Newer(n, sh, TRUE, it, q, cl)
  PROVE  Newer(n, <<it>>, FALSE, any, q, cl)
<1>1. it \in 0 .. n /\ Past(it, q)
  BY DEF Newer
<1>2. <<it>> \in Seq(Nat) /\ Len(<<it>>) = 1 /\ <<it>>[1] = it
  BY <1>1
<1>3. EndsWith(n, sh, TRUE, it, q) => EndsWith(n, <<it>>, FALSE, any, q)
  BY <1>2 DEF EndsWith
<1> DEFINE s == <<it>>
<1> HIDE DEF s
<1>4. s \in Seq(Nat) /\ Len(s) <= 1 /\ \A k \in 1 .. Len(s) : s[k] = it
  BY <1>2 DEF s
<1>5. /\ Rising(q) /\ \A i \in 1 .. Len(q) : q[i] <= n
      /\ cl \/ EndsWith(n, s, FALSE, any, q)
  BY <1>3 DEF Newer, s
<1>6. \A k \in 1 .. Len(s) : s[k] <= n /\ Past(s[k], q)
  BY <1>1, <1>4
<1> QED
  BY <1>4, <1>5, <1>6 DEF Newer, s

NewestInv ==
  /\ Boxes /\ published.state \in Nat
  /\ \A c \in Clients : Open(c, "state") =>
       Newer(published.state, shown[c], pump[c] = "sending", item[c], queue[c], closed[c])

LEMMA NewestInit == ASSUME StreamsInit PROVE NewestInv
BY DEF StreamsInit, NewestInv, Boxes, Open

\* The connection's part of the next state, spelt out.
LEMMA NewerNext ==
  ASSUME NEW c \in Clients,
         Newer(published'.state, shown'[c], pump'[c] = "sending", item'[c], queue'[c], closed'[c])
  PROVE  Newer(published.state, shown[c], pump[c] = "sending", item[c], queue[c], closed[c])'
BY DEF Newer, EndsWith, Rising, Past

\* What another client does, or a publisher of another stream.
LEMMA NewerStays ==
  ASSUME NewestInv, NEW c \in Clients, Open(c, "state"), published'.state = published.state,
         pump'[c] = "sending" <=> pump[c] = "sending",
         shown'[c] = shown[c], queue'[c] = queue[c], item'[c] = item[c], closed'[c] = closed[c]
  PROVE  Newer(published.state, shown[c], pump[c] = "sending", item[c], queue[c], closed[c])'
<1>1. Newer(published.state, shown[c], pump[c] = "sending", item[c], queue[c], closed[c])
  BY DEF NewestInv
<1>2. (pump'[c] = "sending") = (pump[c] = "sending")
  OBVIOUS
<1>3. Newer(published'.state, shown'[c], pump'[c] = "sending", item'[c], queue'[c], closed'[c])
  BY <1>1, <1>2
<1> QED
  BY <1>3, NewerNext

LEMMA DeliverBesides ==
  ASSUME NewestInv, NEW k \in {"decodes", "waterfall"}, NEW offered, Deliver(k, offered),
         published'.state = published.state
  PROVE  NewestInv'
<1>1. Boxes'
  BY DEF Deliver, NewestInv, Boxes
<1>2. ASSUME NEW c \in Clients, Open(c, "state")'
      PROVE  Newer(published.state, shown[c], pump[c] = "sending", item[c], queue[c], closed[c])'
  <2>1. kind[c] = "state"
    BY <1>2 DEF Deliver, Open
  <2>2. pump'[c] = pump[c] /\ queue'[c] = queue[c] /\ closed'[c] = closed[c]
    BY <2>1 DEF Deliver, Open, Box
  <2>3. Open(c, "state")
    BY <1>2, <2>1, <2>2 DEF Open
  <2> QED
    BY <2>2, <2>3, NewerStays DEF Deliver
<1> QED
  BY <1>1, <1>2 DEF NewestInv

\* Of a full queue the oldest goes; a client too far behind is closed instead of
\* being given the newest.
LEMMA PublishNewest ==
  ASSUME NewestInv, PublishState
  PROVE  NewestInv'
<1> DEFINE n == published.state
<1>1. Boxes'
  BY DEF PublishState, Deliver, NewestInv, Boxes
<1>2. n \in Nat /\ published'.state = n + 1
  BY DEF PublishState, NewestInv
<1>3. ASSUME NEW c \in Clients, Open(c, "state")'
      PROVE  Newer(published.state, shown[c], pump[c] = "sending", item[c], queue[c], closed[c])'
  <2> DEFINE hand == pump[c] = "sending"
             q == queue[c]
  <2>1. kind[c] = "state" /\ Open(c, "state")
    BY <1>3 DEF PublishState, Deliver, Open, Woken
  <2>2. /\ shown'[c] = shown[c] /\ item'[c] = item[c]
        /\ (pump'[c] = "sending") = hand
    BY <2>1 DEF PublishState, Deliver, Woken
  <2>3. Newer(n, shown[c], hand, item[c], q, closed[c]) /\ hand \in BOOLEAN
    BY <2>1 DEF NewestInv
  <2>4. Newer(n + 1, shown[c], hand, item[c], queue'[c], closed'[c])
    <3>1. CASE closed[c]
      <4>1. queue'[c] = q /\ closed'[c] = closed[c]
        BY <3>1 DEF PublishState, Deliver, Box
      <4>2. Newer(n + 1, shown[c], hand, item[c], q, TRUE)
        BY <1>2, <2>3, NewerOverflows
      <4> QED
        BY <3>1, <4>1, <4>2 DEF Newer
    <3>2. CASE ~closed[c] /\ Len(q) < StateQueue
      <4>1. queue'[c] = Append(q, n + 1) /\ ~closed'[c]
        BY <2>1, <3>2 DEF PublishState, Deliver, Box, OfferState
      <4>2. Newer(n + 1, shown[c], hand, item[c], Append(q, n + 1), FALSE)
        BY <1>2, <2>3, NewerQueues
      <4> QED
        BY <4>1, <4>2 DEF Newer
    <3>3. CASE ~closed[c] /\ ~(Len(q) < StateQueue)
      <4>1. q # << >>
        BY <3>3, QueueAssumption DEF QueueAssumption
      <4>2. Newer(n, shown[c], hand, item[c], Tail(q), TRUE)
        BY <1>2, <2>3, <4>1, NewerDrops
      <4>3. CASE drops[c] + 1 >= CloseAfter
        <5>1. queue'[c] = Tail(q) /\ closed'[c]
          BY <2>1, <3>3, <4>3 DEF PublishState, Deliver, Box, OfferState
        <5>2. Newer(n + 1, shown[c], hand, item[c], Tail(q), TRUE)
          BY <1>2, <2>3, <4>2, NewerOverflows
        <5> QED
          BY <5>1, <5>2 DEF Newer
      <4>4. CASE ~(drops[c] + 1 >= CloseAfter)
        <5>1. queue'[c] = Append(Tail(q), n + 1) /\ ~closed'[c]
          BY <2>1, <3>3, <4>4 DEF PublishState, Deliver, Box, OfferState
        <5>2. Newer(n + 1, shown[c], hand, item[c], Append(Tail(q), n + 1), FALSE)
          BY <1>2, <2>3, <4>2, NewerQueues
        <5> QED
          BY <5>1, <5>2 DEF Newer
      <4> QED
        BY <4>3, <4>4
    <3> QED
      BY <3>1, <3>2, <3>3
  <2> QED
    BY <1>2, <2>2, <2>4, NewerNext
<1> QED
  BY <1>1, <1>2, <1>3 DEF NewestInv

\* The hello snapshot is the newest there is.
LEMMA ConnectNewest ==
  ASSUME NewestInv, NEW c \in Clients, Connect(c)
  PROVE  NewestInv'
<1>1. Boxes' /\ published' = published
  BY DEF Connect, ConnectState, ConnectDecodes, ConnectWaterfall, Subscribe, NewestInv, Boxes
<1>2. ASSUME NEW d \in Clients, d # c, Open(d, "state")'
      PROVE  Newer(published.state, shown[d], pump[d] = "sending", item[d], queue[d], closed[d])'
  <2>1. /\ pump'[d] = pump[d] /\ kind'[d] = kind[d] /\ shown'[d] = shown[d] /\ queue'[d] = queue[d]
        /\ item'[d] = item[d] /\ closed'[d] = closed[d]
    BY <1>2 DEF Connect, ConnectState, ConnectDecodes, ConnectWaterfall, Subscribe, NewestInv, Boxes
  <2>2. Open(d, "state")
    BY <1>2, <2>1 DEF Open
  <2> QED
    BY <1>1, <2>1, <2>2, NewerStays
<1>3. ASSUME Open(c, "state")'
      PROVE  Newer(published.state, shown[c], pump[c] = "sending", item[c], queue[c], closed[c])'
  <2>1. ConnectState(c)
    BY <1>3 DEF Connect, ConnectDecodes, ConnectWaterfall, Subscribe, Open, NewestInv, Boxes
  <2>2. /\ pump'[c] = "sending" /\ shown'[c] = << >> /\ queue'[c] = << >>
        /\ item'[c] = published.state /\ published.state \in Nat
    BY <2>1 DEF ConnectState, Subscribe, NewestInv, Boxes
  <2>3. Newer(published.state, << >>, TRUE, published.state, << >>, closed'[c])
    BY <2>2 DEF Newer, EndsWith, Rising, Past
  <2>4. (pump'[c] = "sending") = TRUE
    BY <2>2
  <2>5. Newer(published'.state, shown'[c], pump'[c] = "sending", item'[c], queue'[c], closed'[c])
    BY <1>1, <2>2, <2>3, <2>4
  <2> QED
    BY <2>5, NewerNext
<1> QED
  BY <1>1, <1>2, <1>3 DEF NewestInv

LEMMA PumpNewest ==
  ASSUME NewestInv, NEW c \in Clients, SocketDies(c) \/ PumpStep(c)
  PROVE  NewestInv'
<1>1. Boxes' /\ published' = published /\ kind' = kind
  BY DEF SocketDies, PumpStep, PumpTakes, PumpFindsNothing, PumpSleeps, PumpSends, SendFails, mailbox,
         NewestInv, Boxes
<1>2. ASSUME NEW d \in Clients, d # c, Open(d, "state")'
      PROVE  Newer(published.state, shown[d], pump[d] = "sending", item[d], queue[d], closed[d])'
  <2>1. /\ pump'[d] = pump[d] /\ shown'[d] = shown[d] /\ queue'[d] = queue[d]
        /\ item'[d] = item[d] /\ closed'[d] = closed[d]
    BY <1>2 DEF SocketDies, PumpStep, PumpTakes, PumpFindsNothing, PumpSleeps, PumpSends, SendFails, mailbox,
                NewestInv, Boxes
  <2>2. Open(d, "state")
    BY <1>1, <1>2, <2>1 DEF Open
  <2> QED
    BY <1>1, <2>1, <2>2, NewerStays
<1>3. ASSUME Open(c, "state")'
      PROVE  Newer(published.state, shown[c], pump[c] = "sending", item[c], queue[c], closed[c])'
  <2> DEFINE n == published.state
  <2>1. Open(c, "state") /\ kind[c] = "state"
    BY <1>1, <1>3 DEF SocketDies, PumpStep, PumpTakes, PumpFindsNothing, PumpSleeps, PumpSends, SendFails, Open
  <2>2. n \in Nat /\ Newer(n, shown[c], pump[c] = "sending", item[c], queue[c], closed[c])
    BY <2>1 DEF NewestInv
  <2>3. CASE SocketDies(c) \/ PumpFindsNothing(c) \/ PumpSleeps(c)
    BY <1>1, <2>1, <2>3, NewerStays
    DEF SocketDies, PumpFindsNothing, PumpSleeps, mailbox, NewestInv, Boxes
  <2>4. CASE PumpTakes(c)
    <3>1. /\ pump[c] = "ready" /\ pump'[c] = "sending" /\ item'[c] = Head(queue[c]) /\ queue[c] # << >>
          /\ queue'[c] = Tail(queue[c]) /\ shown' = shown /\ closed' = closed
      BY <2>4 DEF PumpTakes, NewestInv, Boxes
    <3>2. (pump[c] = "sending") = FALSE /\ (pump'[c] = "sending") = TRUE
      BY <3>1
    <3>3. Newer(n, shown[c], FALSE, item[c], queue[c], closed[c])
      BY <2>2, <3>2
    <3>4. Newer(n, shown[c], TRUE, Head(queue[c]), Tail(queue[c]), closed[c])
      BY <2>2, <3>1, <3>3, NewerTakes
    <3>5. Newer(published'.state, shown'[c], pump'[c] = "sending", item'[c], queue'[c], closed'[c])
      BY <1>1, <3>1, <3>2, <3>4
    <3> QED
      BY <3>5, NewerNext
  <2>5. CASE PumpSends(c)
    <3>1. /\ pump[c] = "sending" /\ pump'[c] = "ready" /\ queue' = queue /\ closed' = closed
          /\ shown'[c] = <<item[c]>>
      BY <1>3, <2>1, <2>5 DEF PumpSends, Seen, Open, mailbox, NewestInv, Boxes
    <3>2. (pump[c] = "sending") = TRUE /\ (pump'[c] = "sending") = FALSE
      BY <3>1
    <3>3. Newer(n, shown[c], TRUE, item[c], queue[c], closed[c])
      BY <2>2, <3>2
    <3>4. Newer(n, <<item[c]>>, FALSE, item'[c], queue[c], closed[c])
      BY <2>2, <3>3, NewerSends
    <3>5. Newer(published'.state, shown'[c], pump'[c] = "sending", item'[c], queue'[c], closed'[c])
      BY <1>1, <3>1, <3>2, <3>4
    <3> QED
      BY <3>5, NewerNext
  <2>6. CASE SendFails(c)
    BY <1>3, <2>6 DEF SendFails, Open, NewestInv, Boxes
  <2> QED
    BY <2>3, <2>4, <2>5, <2>6 DEF PumpStep
<1> QED
  BY <1>1, <1>2, <1>3 DEF NewestInv

LEMMA NewestStep == ASSUME NewestInv, [StreamsNext]_streamsVars PROVE NewestInv'
<1>1. CASE PublishDecodes
  <2>1. published'.state = published.state
    BY <1>1 DEF PublishDecodes
  <2> QED
    BY <1>1, <2>1, DeliverBesides DEF PublishDecodes
<1>2. CASE PublishFrame
  BY <1>2, DeliverBesides DEF PublishFrame
<1>3. CASE Push \/ UNCHANGED streamsVars
  <2>1. UNCHANGED <<published, socket, mailbox>>
    BY <1>3 DEF Push, streamsVars
  <2>2. ASSUME NEW c \in Clients, Open(c, "state")'
        PROVE  Newer(published.state, shown[c], pump[c] = "sending", item[c], queue[c], closed[c])'
    <3>1. Open(c, "state")
      BY <2>1, <2>2 DEF socket, Open
    <3> QED
      BY <2>1, <3>1, NewerStays DEF socket, mailbox
  <2> QED
    BY <2>1, <2>2 DEF socket, mailbox, NewestInv, Boxes
<1> QED
  BY <1>1, <1>2, <1>3, PublishNewest, ConnectNewest, PumpNewest DEF StreamsNext

\* All of t lies past all of s.
AllPast(s, t) == \A i \in 1 .. Len(s) : Past(s[i], t)

\* r is s and then t, and rises.
Joined(s, t, r) ==
  /\ Rising(r) /\ Len(r) = Len(s) + Len(t)
  /\ \A k \in 1 .. Len(s) : r[k] = s[k]
  /\ \A k \in 1 .. Len(t) : r[Len(s) + k] = t[k]

LEMMA JoinRises ==
  ASSUME NEW s, NEW t, Rising(s), Rising(t), AllPast(s, t)
  PROVE  Joined(s, t, s \o t)
<1> DEFINE r == s \o t
           a == Len(s)
           b == Len(t)
<1>1. s \in Seq(Nat) /\ t \in Seq(Nat) /\ a \in Nat /\ b \in Nat
  BY DEF Rising
<1>2. /\ r \in Seq(Nat) /\ Len(r) = a + b
      /\ \A k \in 1 .. a + b : r[k] = IF k <= a THEN s[k] ELSE t[k - a]
  BY <1>1
<1> HIDE DEF r
<1>3. /\ \A k \in 1 .. a : r[k] = s[k]
      /\ \A k \in 1 .. b : r[a + k] = t[k]
  <2> HIDE DEF a, b
  <2> QED
    BY <1>1, <1>2
<1>4. ASSUME NEW i \in 1 .. a + b, NEW j \in 1 .. a + b, i < j
      PROVE  r[i] < r[j]
  <2>1. CASE j <= a
    <3>1. i \in 1 .. a /\ j \in 1 .. a
      BY <1>1, <1>4, <2>1
    <3>2. s[i] < s[j]
      BY <1>4, <3>1 DEF Rising
    <3> QED
      BY <1>3, <3>1, <3>2
  <2>2. CASE i <= a /\ a < j
    <3> DEFINE k == j - a
    <3>1. i \in 1 .. a /\ k \in 1 .. b /\ a + k = j
      BY <1>1, <1>4, <2>2
    <3> HIDE DEF k
    <3>2. s[i] < t[k]
      BY <3>1 DEF AllPast, Past
    <3> QED
      BY <1>3, <3>1, <3>2
  <2>3. CASE a < i
    <3> DEFINE k == j - a
               l == i - a
    <3>1. l \in 1 .. b /\ k \in 1 .. b /\ a + k = j /\ a + l = i /\ l < k
      BY <1>1, <1>4, <2>3
    <3> HIDE DEF k, l
    <3>2. t[l] < t[k]
      BY <3>1 DEF Rising
    <3> QED
      BY <1>3, <3>1, <3>2
  <2> QED
    BY <1>1, <1>4, <2>1, <2>2, <2>3
<1>5. Rising(r)
  BY <1>2, <1>4 DEF Rising
<1> QED
  BY <1>2, <1>3, <1>5 DEF Joined, r

\* What rises and ends with n, unless the client is closed.
EndsNewest(n, cl, all) ==
  /\ \A i, j \in 1 .. Len(all) : i < j => all[i] < all[j]
  /\ cl \/ (all # << >> /\ Last(all) = n)

\* The three places one after another.
LEMMA NewerIs ==
  ASSUME NEW n \in Nat, NEW sh, NEW hand \in BOOLEAN, NEW it, NEW q, NEW cl, Newer(n, sh, hand, it, q, cl)
  PROVE  EndsNewest(n, cl, sh \o (IF hand THEN <<it>> ELSE << >>) \o q)
<1> DEFINE h == IF hand THEN <<it>> ELSE << >>
           r == sh \o h
           all == r \o q
<1>1. /\ Rising(q) /\ sh \in Seq(Nat) /\ Len(sh) \in {0, 1}
      /\ hand => it \in Nat /\ Past(it, q)
      /\ \A k \in 1 .. Len(sh) : (hand => sh[k] < it) /\ Past(sh[k], q)
  <2>1. sh \in Seq(Nat) /\ Len(sh) \in Nat /\ Len(sh) <= 1 /\ (hand => it \in 0 .. n)
    BY DEF Newer
  <2>2. Len(sh) \in {0, 1} /\ (hand => it \in Nat)
    <3> DEFINE b == Len(sh)
    <3>1. b \in Nat /\ b <= 1
      BY <2>1
    <3> HIDE DEF b
    <3>2. b \in {0, 1}
      BY <3>1
    <3> QED
      BY <2>1, <3>2 DEF b
  <2> QED
    BY <2>1, <2>2 DEF Newer
<1>2. Rising(sh)
  BY <1>1 DEF Rising
<1>3. /\ Rising(h) /\ Len(h) = IF hand THEN 1 ELSE 0
      /\ hand => h[1] = it
      /\ \A k \in 1 .. Len(sh) : Past(sh[k], h)
      /\ \A k \in 1 .. Len(h) : Past(h[k], q)
  BY <1>1 DEF Rising, Past
<1> HIDE DEF h
<1>4. /\ Rising(r) /\ Len(r) = Len(sh) + Len(h)
      /\ \A k \in 1 .. Len(sh) : r[k] = sh[k]
      /\ \A k \in 1 .. Len(h) : r[Len(sh) + k] = h[k]
  <2>1. Rising(sh) /\ Rising(h) /\ AllPast(sh, h)
    BY <1>2, <1>3 DEF AllPast
  <2>2. Joined(sh, h, r)
    BY <2>1, JoinRises
  <2> HIDE DEF r
  <2> QED
    BY <2>2 DEF Joined
<1> HIDE DEF r
<1>5. \A k \in 1 .. Len(r) : Past(r[k], q)
  <2>1. ASSUME NEW k \in 1 .. Len(r) PROVE Past(r[k], q)
    <3>1. CASE k \in 1 .. Len(sh)
      BY <1>1, <1>4, <3>1
    <3>2. CASE k = Len(sh) + 1 /\ hand
      <4>1. 1 \in 1 .. Len(h) /\ r[k] = h[1]
        BY <1>3, <1>4, <3>2
      <4> QED
        BY <1>3, <4>1
    <3> QED
      BY <1>1, <1>3, <1>4, <3>1, <3>2
  <2> QED
    BY <2>1
<1>6. /\ Rising(all) /\ Len(all) = Len(r) + Len(q)
      /\ \A k \in 1 .. Len(r) : all[k] = r[k]
      /\ \A k \in 1 .. Len(q) : all[Len(r) + k] = q[k]
  <2>1. Rising(r) /\ Rising(q) /\ AllPast(r, q)
    BY <1>1, <1>4, <1>5 DEF AllPast
  <2>2. Joined(r, q, all)
    BY <2>1, JoinRises
  <2> HIDE DEF all
  <2> QED
    BY <2>2 DEF Joined
<1> HIDE DEF all
<1>7. ASSUME ~cl PROVE all # << >> /\ Last(all) = n
  <2>1. EndsWith(n, sh, hand, it, q) /\ Len(q) \in Nat /\ Len(r) \in Nat
    BY <1>1, <1>4, <1>7 DEF Newer, Rising
  <2>2. Len(all) > 0 /\ all[Len(all)] = n
    <3>1. CASE Len(q) > 0 /\ q[Len(q)] = n
      <4>1. Len(q) \in 1 .. Len(q)
        BY <2>1, <3>1
      <4> QED
        BY <1>6, <2>1, <3>1, <4>1
    <3>2. CASE Len(q) = 0 /\ hand /\ it = n
      <4>1. Len(h) = 1 /\ 1 \in 1 .. Len(h) /\ h[1] = n /\ Len(sh) \in Nat
        BY <1>1, <1>3, <3>2
      <4>2. Len(r) = Len(sh) + 1 /\ r[Len(sh) + 1] = n /\ Len(sh) + 1 \in 1 .. Len(r)
        BY <1>4, <4>1
      <4> QED
        BY <1>6, <3>2, <4>1, <4>2
    <3>3. CASE Len(q) = 0 /\ ~hand /\ Len(sh) = 1 /\ sh[1] = n
      <4>1. Len(h) = 0 /\ Len(r) = 1 /\ 1 \in 1 .. Len(sh) /\ r[1] = n
        BY <1>3, <1>4, <3>3
      <4> QED
        BY <1>6, <3>3, <4>1
    <3> QED
      BY <2>1, <3>1, <3>2, <3>3 DEF EndsWith
  <2> QED
    BY <2>2 DEF Last
<1> QED
  <2>1. EndsNewest(n, cl, all)
    BY <1>6, <1>7 DEF Rising, EndsNewest
  <2> QED
    BY <2>1 DEF all, r, h

\* Whatever the bounded queue of a state client has dropped, what it is shown
\* never goes back, and until it is closed it has the newest snapshot or will get
\* it (StateBroadcaster._offer, ws.py: newest wins).
THEOREM NewestWins == StreamsSpec => []NewestIsLast
<1>1. NewestInv => NewestIsLast
  <2> SUFFICES ASSUME NewestInv, NEW c \in Clients, Open(c, "state")
               PROVE  EndsNewest(published.state, closed[c], Received(c))
    BY DEF NewestIsLast, EndsNewest
  <2> DEFINE hand == pump[c] = "sending"
  <2>1. /\ published.state \in Nat /\ hand \in BOOLEAN
        /\ Newer(published.state, shown[c], hand, item[c], queue[c], closed[c])
    BY DEF NewestInv
  <2>2. Received(c) = shown[c] \o (IF hand THEN <<item[c]>> ELSE << >>) \o queue[c]
    BY DEF Received
  <2> HIDE DEF hand
  <2> QED
    BY <2>1, <2>2, NewerIs
<1>2. StreamsInit => NewestInv
  BY NewestInit
<1>3. NewestInv /\ [StreamsNext]_streamsVars => NewestInv'
  BY NewestStep
<1> QED
  BY <1>1, <1>2, <1>3, PTL DEF StreamsSpec

-----------------------------------------------------------------------------
(***************************************************************************)
(* The cadence of the spectrum: where the buffer starts and where every    *)
(* line starts is a number of hops from where the stream began.            *)
(***************************************************************************)
OnGrid(b, x) == x \in Int /\ x >= b /\ (x - b) % Hop = 0

GridInv ==
  /\ heard \in Nat /\ base \in Nat /\ buffer.size \in Int /\ OnGrid(base, buffer.first)
  /\ buffer.first + buffer.size = heard
  /\ lines \in Seq(Int) /\ \A i \in 1 .. Len(lines) : OnGrid(base, lines[i])

LEMMA Hops ==
  ASSUME NEW h \in Nat \ {0}, NEW a \in Int, NEW k \in Nat, a % h = 0, a >= 0
  PROVE  k * h \in Nat /\ (a + k * h) % h = 0 /\ a + k * h >= 0
<1>1. a = (a \div h) * h /\ a \div h \in Int
  OBVIOUS
<1> DEFINE j == a \div h
<1> HIDE DEF j
<1>2. j \in Int /\ a = j * h
  BY <1>1 DEF j
<1>3. j * h + k * h = (j + k) * h
  BY <1>2
<1>4. \A i \in Int : (i * h) % h = 0
  OBVIOUS
<1>5. ((j + k) * h) % h = 0
  BY <1>2, <1>4
<1>6. k * h \in Nat
  OBVIOUS
<1> QED
  BY <1>2, <1>3, <1>5, <1>6

LEMMA GridInit == ASSUME StreamsInit PROVE GridInv
BY LineAssumption DEF StreamsInit, GridInv, OnGrid, LineAssumption

\* A block makes as many lines as fit, each a hop after the one before.
LEMMA PushOnGrid ==
  ASSUME GridInv, Push
  PROVE  GridInv'
<1>1. PICK first \in {heard, heard + 1} :
        LET buf == Continued(first)
            n   == LinesIn(buf)
        IN /\ heard' = first + BlockSize
           /\ base' = IF first = heard THEN base ELSE first
           /\ lines' = [i \in 1 .. n |-> buf.first + (i - 1) * Hop]
           /\ buffer' = [first |-> buf.first + n * Hop, size |-> buf.size - n * Hop]
  BY DEF Push
<1> DEFINE buf == Continued(first)
           n   == LinesIn(buf)
           f   == buf.first
           z   == buf.size
<1>2. Hop \in Nat \ {0} /\ FftSize \in Int /\ BlockSize \in Nat \ {0}
  <2>1. Hop \in Int /\ BlockSize \in Nat \ {0} /\ Hop >= 1 /\ FftSize >= Hop
    BY LineAssumption DEF LineAssumption
  <2> QED
    BY <2>1, LineAssumption DEF LineAssumption
<1>3. first \in Nat /\ heard' \in Nat /\ base' \in Nat
  BY <1>1, <1>2 DEF GridInv
<1>4. f \in Int /\ z \in Int /\ f + z = first + BlockSize
  <2>1. CASE first = buffer.first + buffer.size
    <3>1. f = buffer.first /\ z = buffer.size + BlockSize
      BY <2>1 DEF Continued
    <3> HIDE DEF f, z
    <3> QED
      BY <1>2, <2>1, <3>1 DEF GridInv, OnGrid
  <2>2. CASE first # buffer.first + buffer.size
    <3>1. f = first /\ z = BlockSize
      BY <2>2 DEF Continued
    <3> HIDE DEF f, z
    <3> QED
      BY <1>2, <1>3, <3>1
  <2> QED
    BY <2>1, <2>2
<1>5. f >= base' /\ (f - base') % Hop = 0
  <2>1. CASE first = heard
    <3>1. base' = base /\ f = buffer.first
      BY <1>1, <2>1 DEF GridInv, Continued
    <3> HIDE DEF f
    <3> QED
      BY <3>1 DEF GridInv, OnGrid
  <2>2. CASE first # heard
    <3>1. base' = first /\ f = first
      BY <1>1, <2>2 DEF GridInv, Continued
    <3> HIDE DEF f
    <3>2. f - base' = 0 /\ f >= base' /\ 0 % Hop = 0
      BY <1>2, <1>3, <3>1
    <3> QED
      BY <3>2
  <2> QED
    BY <2>1, <2>2
<1>6. n \in Nat
  <2> HIDE DEF buf
  <2>1. n = IF z < FftSize THEN 0 ELSE (z - FftSize) \div Hop + 1
    BY DEF LinesIn
  <2> HIDE DEF z, n
  <2>2. ~(z < FftSize) => (z - FftSize) \div Hop \in Nat
    BY <1>2, <1>4
  <2> QED
    BY <2>1, <2>2
<1>7. /\ heard' = first + BlockSize
      /\ lines' = [i \in 1 .. n |-> f + (i - 1) * Hop]
      /\ buffer'.first = f + n * Hop /\ buffer'.size = z - n * Hop
  BY <1>1
<1> HIDE DEF buf, n, f, z
<1>8. ASSUME NEW k \in Nat
      PROVE  OnGrid(base', f + k * Hop) /\ f + k * Hop \in Int
  <2> DEFINE a == f - base'
             x == f + k * Hop
  <2>1. a \in Int /\ a >= 0 /\ a % Hop = 0
    <3>1. \A u \in Int, v \in Nat : u - v \in Int /\ (u >= v => u - v >= 0)
      OBVIOUS
    <3>2. f - base' \in Int /\ (f >= base' => f - base' >= 0)
      BY <1>3, <1>4, <3>1, Zenon
    <3> QED
      BY <1>5, <3>2
  <2>2. k * Hop \in Nat /\ (a + k * Hop) % Hop = 0 /\ a + k * Hop >= 0
    <3> HIDE DEF a
    <3> QED
      BY <1>2, <2>1, Hops
  <2>3. x - base' = a + k * Hop
    BY <1>3, <1>4, <2>2
  <2>4. x \in Int /\ x >= base' /\ (x - base') % Hop = 0
    <3>1. x \in Int /\ x - base' >= 0
      BY <1>3, <1>4, <2>2, <2>3
    <3> QED
      BY <1>3, <2>2, <2>3, <3>1
  <2> QED
    BY <2>4 DEF OnGrid
<1>9. lines' \in Seq(Int) /\ \A i \in 1 .. Len(lines') : OnGrid(base', lines'[i])
  <2>1. Len(lines') = n /\ \A i \in 1 .. n : lines'[i] = f + (i - 1) * Hop
    BY <1>6, <1>7
  <2>2. ASSUME NEW i \in 1 .. n PROVE lines'[i] \in Int /\ OnGrid(base', lines'[i])
    <3>1. i - 1 \in Nat
      BY <1>6
    <3>2. OnGrid(base', f + (i - 1) * Hop) /\ f + (i - 1) * Hop \in Int
      BY <1>8, <3>1
    <3> QED
      BY <2>1, <3>2 DEF OnGrid
  <2>3. lines' = [i \in 1 .. n |-> lines'[i]]
    BY <1>7, <2>1
  <2> QED
    BY <1>6, <2>1, <2>2, <2>3
<1>10. OnGrid(base', buffer'.first) /\ buffer'.size \in Int
  <2>1. OnGrid(base', f + n * Hop) /\ f + n * Hop \in Int
    BY <1>6, <1>8
  <2>2. n * Hop \in Int
    BY <1>2, <1>6
  <2> QED
    BY <1>4, <1>7, <2>1, <2>2 DEF OnGrid
<1>11. buffer'.first + buffer'.size = heard'
  <2> DEFINE m == n * Hop
  <2>1. m \in Int
    BY <1>2, <1>6
  <2>2. buffer'.first = f + m /\ buffer'.size = z - m
    BY <1>7
  <2> HIDE DEF m
  <2> QED
    BY <1>4, <1>7, <2>1, <2>2
<1> QED
  BY <1>3, <1>9, <1>10, <1>11 DEF GridInv

LEMMA GridStep == ASSUME GridInv, [StreamsNext]_streamsVars PROVE GridInv'
<1>1. CASE PublishFrame
  <2>1. lines # << >> /\ lines' = Tail(lines) /\ UNCHANGED <<buffer, heard, base>>
    BY <1>1 DEF PublishFrame
  <2>2. lines \in Seq(Int) /\ Len(lines) \in Nat \ {0}
    BY <2>1, EmptySeq DEF GridInv
  <2>3. /\ lines' \in Seq(Int) /\ Len(lines') = Len(lines) - 1
        /\ \A i \in 1 .. Len(lines') : lines'[i] = lines[i + 1] /\ i + 1 \in 1 .. Len(lines)
    BY <2>1, <2>2, HeadTailProperties
  <2>4. \A i \in 1 .. Len(lines') : OnGrid(base', lines'[i])
    BY <2>1, <2>3 DEF GridInv, OnGrid
  <2> QED
    BY <2>1, <2>3, <2>4 DEF GridInv, OnGrid
<1>2. CASE UNCHANGED <<buffer, heard, base, lines>>
  BY <1>2 DEF GridInv, OnGrid
<1>3. ASSUME PublishState \/ PublishDecodes \/ (\E c \in Clients : Connect(c) \/ SocketDies(c) \/ PumpStep(c))
             \/ UNCHANGED streamsVars
      PROVE  UNCHANGED <<buffer, heard, base, lines>>
  BY <1>3
  DEF PublishState, PublishDecodes, Connect, ConnectState, ConnectDecodes, ConnectWaterfall, Subscribe, SocketDies,
      PumpStep, PumpTakes, PumpFindsNothing, PumpSleeps, PumpSends, SendFails, streamsVars, source
<1> QED
  BY <1>1, <1>2, <1>3, PushOnGrid DEF StreamsNext

\* Between two gaps of the capture stream the lines start Hop apart, in whatever
\* blocks the samples came (SpectrumComputer.push, waterfall.py: chunking never
\* shifts the cadence).
THEOREM LinesKeepCadence == StreamsSpec => []LinesOnGrid
<1>1. GridInv => LinesOnGrid
  BY DEF GridInv, OnGrid, LinesOnGrid
<1> QED
  BY <1>1, GridInit, GridStep, PTL DEF StreamsSpec
=============================================================================
