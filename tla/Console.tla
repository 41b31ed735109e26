------------------------------ MODULE Console ------------------------------
(***************************************************************************)
(* Who may transmit: the control lease (server/web/lease.py), the sessions *)
(* it is granted to (auth.py), their state streams (ws.py), the operations *)
(* that start and stop transmission (api.py) and the unattended call of    *)
(* main.py, on top of SafetyController.arm() and the sequencer, which are  *)
(* modelled in TxSafety and Sequencer and are here what a request sees of  *)
(* them.                                                                   *)
(*                                                                         *)
(* A request is checked when it arrives and acts later: it awaits its own  *)
(* body, and arm() awaits a PTT-off when the state of the line is          *)
(* uncertain. Whatever else happens in between is what this module is for. *)
(***************************************************************************)
EXTENDS Integers, FiniteSets

CONSTANTS
  Sessions,   \* authenticated browsers
  Stations,   \* stations that can be called
  Tasks,      \* requests and auto-calls in flight at once
  Ttl,        \* LEASE_TTL_S, in ticks of the clock
  MaxStreams, \* bound: state streams of one session
  None

ASSUME LeaseAssumption ==
  /\ Ttl \in Nat \ {0} /\ MaxStreams \in Nat
  /\ None \notin Sessions \cup Stations \cup [by : Sessions, left : 0 .. Ttl]

VARIABLES
  logged,     \* AuthService._sessions: the sessions that are alive
  streams,    \* state streams of each session, those with a dead socket included
  lease,      \* LeaseService._lease: [by |-> session, left |-> ticks], or None
  dead_man,   \* safety.stop_tx() is scheduled and has not run
  armed,      \* SafetyController.armed
  uncertain,  \* SafetyController.ptt_uncertain
  qso,        \* Sequencer.state: idle, done, calling CQ, or the station called
  selected,   \* AppState.selected
  req,        \* the request of each task: [op, by, call]
  at,         \* what it awaits
  overtaken,  \* history: tasks in flight whose session has lost the lease, or
              \* that a STOP has come after
  armed_as    \* history: what armed TX: the lease that is held ("holder"), one
              \* that is not any more ("former"), a request that was overtaken
              \* ("overtaken"), or AUTO

browser == <<logged, streams>>
tx      == <<armed, uncertain, qso, armed_as>>
flight  == <<req, at, overtaken>>
vars    == <<browser, lease, dead_man, tx, selected, flight>>

IDLE == "idle"
DONE == "done"
CQ   == "cq"
AUTO == "auto"

Ops    == {"select", "reply", CQ, AUTO}
NoReq  == [op |-> None, by |-> None, call |-> None]
Places == {"free", "body", "scheduled", "arming"}

Init ==
  /\ logged = {} /\ lease = None /\ dead_man = FALSE
  /\ streams = [s \in Sessions |-> 0]
  /\ armed = FALSE /\ uncertain = FALSE /\ qso = IDLE /\ selected = None
  /\ armed_as = "holder"
  /\ req = [t \in Tasks |-> NoReq] /\ at = [t \in Tasks |-> "free"] /\ overtaken = {}

-----------------------------------------------------------------------------
(***************************************************************************)
(* The lease.                                                              *)
(***************************************************************************)
Live == lease # None /\ lease.left > 0   \* current() is not None

IsOwner(s) == Live /\ lease.by = s

InFlight == {t \in Tasks : at[t] # "free"}

\* safety.disarm(): both flags, and the selection goes with the session.
Disarm ==
  /\ armed' = FALSE
  /\ qso' = IF qso = DONE THEN DONE ELSE IDLE
  /\ selected' = None
  /\ overtaken' = overtaken \cup InFlight
  /\ UNCHANGED <<uncertain, armed_as, req, at>>

\* A lease goes: what it covered is overtaken.
Goes ==
  /\ overtaken' = overtaken \cup InFlight
  /\ armed_as' = IF armed_as = "holder" THEN "former" ELSE armed_as
  /\ UNCHANGED <<armed, uncertain, qso, req, at>>

\* _drop() for an expiry or a disconnect: the dead man's STOP is scheduled.
DropByLoss ==
  /\ lease' = None
  /\ dead_man' = TRUE
  /\ Goes
  /\ UNCHANGED selected

Renew(s) == lease' = [by |-> s, left |-> Ttl]

\* acquire() finds the expired lease before the watchdog does.
Acquire(s) ==
  /\ s \in logged
  /\ Live => lease.by = s
  /\ Renew(s)
  /\ dead_man' = (dead_man \/ (lease # None /\ ~Live))
  /\ IF lease # None /\ ~Live THEN Goes ELSE UNCHANGED <<tx, flight>>
  /\ UNCHANGED <<browser, selected>>

\* Heartbeat if it did not ask for the session.
HeartbeatOfAny(s) == IsOwner(s) /\ Renew(s) /\ UNCHANGED <<browser, dead_man, tx, selected, flight>>

Heartbeat(s) ==
  /\ s \in logged /\ IsOwner(s)
  /\ Renew(s)
  /\ UNCHANGED <<browser, dead_man, tx, selected, flight>>

\* Release if the event handler of main.py left safety alone.
ReleaseArmed(s) ==
  /\ s \in logged /\ IsOwner(s)
  /\ lease' = None
  /\ Goes
  /\ UNCHANGED <<browser, dead_man, selected>>

Release(s) ==
  /\ s \in logged /\ IsOwner(s)
  /\ lease' = None
  /\ Disarm
  /\ UNCHANGED <<browser, dead_man>>

ClockTicks ==
  /\ Live
  /\ lease' = [lease EXCEPT !.left = @ - 1]
  /\ UNCHANGED <<browser, dead_man, tx, selected, flight>>

\* check_expiry() of the watchdog task.
CheckExpiry ==
  /\ lease # None /\ ~Live
  /\ DropByLoss
  /\ UNCHANGED browser

DeadManStops ==
  /\ dead_man
  /\ dead_man' = FALSE
  /\ Disarm
  /\ UNCHANGED <<browser, lease>>

-----------------------------------------------------------------------------
(***************************************************************************)
(* Sessions and their state streams. A stream is authenticated once, when  *)
(* it opens. A socket that goes is noticed when the next snapshot is sent  *)
(* to it: the pump waits in the subscription's queue and not on the socket.*)
(***************************************************************************)
Login(s) ==
  /\ s \notin logged
  /\ logged' = logged \cup {s}
  /\ UNCHANGED <<streams, lease, dead_man, tx, selected, flight>>

\* logout(), or an idle or absolute expiry.
LogOut(s) ==
  /\ s \in logged
  /\ logged' = logged \ {s}
  /\ UNCHANGED <<streams, lease, dead_man, tx, selected, flight>>

StreamOpens(s) ==
  /\ s \in logged
  /\ streams[s] < MaxStreams
  /\ streams' = [streams EXCEPT ![s] = @ + 1]
  /\ UNCHANGED <<logged, lease, dead_man, tx, selected, flight>>

\* The finally clause of state_stream: disconnect() of the session, whatever
\* other streams it has.
Disconnected(s) ==
  /\ streams[s] > 0
  /\ streams' = [streams EXCEPT ![s] = @ - 1]
  /\ IF IsOwner(s) THEN DropByLoss ELSE UNCHANGED <<lease, dead_man, tx, selected, flight>>
  /\ UNCHANGED logged

-----------------------------------------------------------------------------
(***************************************************************************)
(* Requests. require_lease() looks at the lease when the request arrives;  *)
(* its body is read later.                                                 *)
(***************************************************************************)
Enter(t, op, s, call, place) ==
  /\ at[t] = "free"
  /\ req' = [req EXCEPT ![t] = [op |-> op, by |-> s, call |-> call]]
  /\ at' = [at EXCEPT ![t] = place]

Leave(t) ==
  /\ req' = [req EXCEPT ![t] = NoReq]
  /\ at' = [at EXCEPT ![t] = "free"]
  /\ overtaken' = overtaken \ {t}

Arrives(t, s) ==
  /\ s \in logged /\ IsOwner(s)
  /\ \/ \E op \in {"select", "reply"}, call \in Stations : Enter(t, op, s, call, "body")
     \/ Enter(t, CQ, s, None, "body")
  /\ UNCHANGED <<browser, lease, dead_man, tx, selected, overtaken>>

\* on_decode(): the first CQ of a new entity, when nothing is on. The call is
\* a task of its own.
AutoCall(t) ==
  /\ qso = IDLE /\ selected = None
  /\ \E call \in Stations : Enter(t, AUTO, None, call, "scheduled")
  /\ UNCHANGED <<browser, lease, dead_man, tx, selected, overtaken>>

\* The body has been read: what operation_select() and operation_reply() select.
Selecting(t) == IF req[t].op \in {"select", "reply"} THEN req[t].call ELSE selected

SelectEnds(t) ==
  /\ at[t] = "body" /\ req[t].op = "select"
  /\ selected' = Selecting(t)
  /\ Leave(t)
  /\ UNCHANGED <<browser, lease, dead_man, tx>>

Reaches(t) == at[t] = "scheduled" \/ (at[t] = "body" /\ req[t].op # "select")

\* arm() has returned: start_cq(), or reply_to() with what is selected now; a
\* reply whose selection has gone raises, and leaves TX armed.
Starts(t, selection) ==
  /\ armed' = TRUE
  /\ armed_as' = IF req[t].op = AUTO THEN AUTO
                 ELSE IF t \in overtaken THEN "overtaken" ELSE "holder"
  /\ uncertain' = FALSE
  /\ selected' = IF req[t].op = AUTO THEN req[t].call ELSE selection
  /\ qso' = CASE req[t].op = CQ      -> CQ
              [] req[t].op = AUTO    -> req[t].call
              [] req[t].op = "reply" -> IF selection = None THEN qso ELSE selection
  /\ Leave(t)

\* Nothing has to be awaited: the handler runs from its body to its end.
ArmAtOnce(t) ==
  /\ Reaches(t) /\ ~uncertain
  /\ Starts(t, Selecting(t))
  /\ UNCHANGED <<browser, lease, dead_man>>

ArmAwaits(t) ==
  /\ Reaches(t) /\ uncertain
  /\ selected' = Selecting(t)
  /\ at' = [at EXCEPT ![t] = "arming"]
  /\ UNCHANGED <<browser, lease, dead_man, tx, req, overtaken>>

ArmReturns(t) ==
  /\ at[t] = "arming"
  /\ Starts(t, selected)
  /\ UNCHANGED <<browser, lease, dead_man>>

\* A fault is latched, or the PTT-off has failed. The selection stays.
ArmRefused(t) ==
  /\ Reaches(t) \/ at[t] = "arming"
  /\ selected' = IF at[t] = "body" THEN Selecting(t) ELSE selected
  /\ Leave(t)
  /\ UNCHANGED <<browser, lease, dead_man, tx>>

\* operation_stop() of any session, operation_enable_tx_off() of the holder.
Stop(s) ==
  /\ s \in logged
  /\ Disarm
  /\ UNCHANGED <<browser, lease, dead_man>>

\* A PTT command has failed. Its fault may have been cleared since.
PttUncertain ==
  /\ ~uncertain
  /\ uncertain' = TRUE
  /\ UNCHANGED <<browser, lease, dead_man, armed, qso, armed_as, selected, flight>>

\* The sequencer ends the session: retries, a partner lost, or a QSO done.
QsoEnds ==
  /\ qso \notin {IDLE, DONE}
  /\ qso' \in {IDLE, DONE}
  /\ selected' = None
  /\ UNCHANGED <<browser, lease, dead_man, armed, uncertain, armed_as, flight>>

Next ==
  \/ \E s \in Sessions :
       \/ Login(s) \/ LogOut(s) \/ StreamOpens(s) \/ Disconnected(s)
       \/ Acquire(s) \/ Heartbeat(s) \/ Release(s) \/ Stop(s)
  \/ \E t \in Tasks, s \in Sessions : Arrives(t, s)
  \/ \E t \in Tasks :
       AutoCall(t) \/ SelectEnds(t) \/ ArmAtOnce(t) \/ ArmAwaits(t) \/ ArmReturns(t) \/ ArmRefused(t)
  \/ ClockTicks \/ CheckExpiry \/ DeadManStops \/ PttUncertain \/ QsoEnds

\* Time passes, the watchdog task looks once per second, and the loop runs
\* what was scheduled on it. Nothing makes a browser do anything.
Spec == Init /\ [][Next]_vars /\ WF_vars(ClockTicks) /\ WF_vars(CheckExpiry) /\ WF_vars(DeadManStops)

-----------------------------------------------------------------------------
TypeOK ==
  /\ logged \subseteq Sessions /\ selected \in Stations \cup {None}
  /\ streams \in [Sessions -> 0 .. MaxStreams]
  /\ lease \in [by : Sessions, left : 0 .. Ttl] \cup {None}
  /\ dead_man \in BOOLEAN /\ armed \in BOOLEAN /\ uncertain \in BOOLEAN
  /\ qso \in {IDLE, DONE, CQ} \cup Stations
  /\ req \in [Tasks -> [op : Ops \cup {None}, by : Sessions \cup {None}, call : Stations \cup {None}]]
  /\ at \in [Tasks -> Places] /\ overtaken \subseteq Tasks
  /\ armed_as \in {"holder", "former", "overtaken", AUTO}

\* However a lease goes (released, expired and found so by the watchdog or by
\* another session's acquire, its stream closed), what its holder armed does
\* not stay armed, with no lease or under a successor's: TX is off already or
\* the dead man's STOP is on its way (15.4). Only a request that arms after its
\* lease has gone escapes.
Attended ==
  /\ armed /\ armed_as = "former" => dead_man
  /\ armed /\ armed_as = "holder" => lease # None

\* What Attended needs to be inductive: a request that nothing has overtaken
\* is one of the session that holds the lease.
Covered ==
  \A t \in Tasks :
    at[t] # "free" /\ req[t].op # AUTO /\ t \notin overtaken
      => lease # None /\ lease.by = req[t].by

\* A lease does not outlive its session by more than its TTL.
LeaseEnds ==
  \A s \in Sessions :
    lease # None /\ s = lease.by /\ s \notin logged
      ~> s \in logged \/ lease = None \/ s # lease.by

-----------------------------------------------------------------------------
\* What the code says and does not do (see README.md): "A deliberate release
\* must not leave TX armed and unattended (I1)" (server/main.py:378).
ArmedAttended == armed /\ armed_as # AUTO => lease # None \/ dead_man
=============================================================================
