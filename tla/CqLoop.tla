------------------------------- MODULE CqLoop -------------------------------
(***************************************************************************)
(* The automatic CQ loop of server/engine/cq_loop.py around the sequencer, *)
(* with those who start and stop sessions beside it: the operations of     *)
(* web/api.py, the unattended call of main.py, the safety controller and   *)
(* the control lease.                                                      *)
(*                                                                         *)
(* The loop polls: it sees the sequencer once per second, and whatever     *)
(* happened between two ticks only as its outcome. A request that starts a *)
(* session awaits safety.arm(), which asks the rig for PTT off when the    *)
(* state of the line is uncertain; others run meanwhile.                   *)
(***************************************************************************)
EXTENDS Sequencer, FiniteSets

CONSTANT MaxArming  \* bound: requests that await safety.arm() at once

ASSUME ArmingAssumption == MaxArming \in Nat

VARIABLES
  armed,      \* SafetyController.armed
  lease,      \* LeaseService.current() is not None
  dead_man,   \* the STOP of a lost lease is scheduled and has not run
  arming,     \* requests that await safety.arm()
  active,     \* CqLoopController.active
  observed,   \* CqLoopController._observed
  idle_over   \* more than idle_timeout() has passed since _last_progress

loopVars == <<active, observed, idle_over>>
vars     == <<seqVars, armed, lease, dead_man, arming, loopVars>>

Requests     == {"cq", "loop", "reply", "auto"}
\* The table with a row forgotten.
RearmRetryOnly == {"retry_exhausted"}
StopManualOnly == {"manual"}

RearmReasons == {"retry_exhausted", "partner_lost"}
StopReasons  == {"manual", "fault"}

LoopInit ==
  /\ Init
  /\ armed = FALSE /\ lease = FALSE /\ dead_man = FALSE /\ arming = {}
  /\ active = FALSE /\ observed = <<IDLE, NoReason>> /\ idle_over = FALSE

-----------------------------------------------------------------------------
(***************************************************************************)
(* Requests. Those of the API need the lease when they come in; the        *)
(* unattended call needs an idle sequencer. Neither is looked at again     *)
(* after the await. start() of a loop that runs returns at once.           *)
(***************************************************************************)
Request(kind) ==
  /\ kind \notin arming /\ Cardinality(arming) < MaxArming
  /\ IF kind = "auto" THEN state = IDLE ELSE lease
  /\ kind = "loop" => ~active
  /\ arming' = arming \cup {kind}
  /\ UNCHANGED <<seqVars, armed, lease, dead_man, loopVars>>

ArmRefused(kind) ==
  /\ kind \in arming
  /\ arming' = arming \ {kind}
  /\ UNCHANGED <<seqVars, armed, lease, dead_man, loopVars>>

Armed(kind) ==
  /\ kind \in arming
  /\ arming' = arming \ {kind}
  /\ armed' = TRUE
  /\ UNCHANGED <<lease, dead_man>>

CqArmed ==
  /\ Armed("cq")
  /\ StartCq
  /\ UNCHANGED loopVars

LoopArmed ==
  /\ Armed("loop")
  /\ StartCq
  /\ active' = TRUE
  /\ observed' = <<CALLING, NoReason>>
  /\ idle_over' = FALSE

\* A session that ends during the await takes the selection with it (on_stop),
\* and the reply fails on its missing message, armed.
ReplyArmed ==
  /\ \E kind \in {"reply", "auto"} : Armed(kind)
  /\ \/ \E p \in Stations, parity \in {0, 1} : ReplyTo(p, parity)
     \/ UNCHANGED seqVars
  /\ UNCHANGED loopVars

-----------------------------------------------------------------------------
(***************************************************************************)
(* Stops: safety.disarm() drops both flags, by the operator (STOP, TX off) *)
(* or by the system (a fault, the dead man).                               *)
(***************************************************************************)
DisarmBy(reason) ==
  /\ armed' = FALSE
  /\ Stop(reason)
  /\ UNCHANGED <<arming, loopVars>>

OperatorStops == DisarmBy("manual") /\ UNCHANGED <<lease, dead_man>>
FaultStops    == DisarmBy("fault")  /\ UNCHANGED <<lease, dead_man>>

AcquireLease ==
  /\ ~lease
  /\ lease' = TRUE
  /\ UNCHANGED <<seqVars, armed, dead_man, arming, loopVars>>

ReleaseLease ==
  /\ lease
  /\ lease' = FALSE
  /\ DisarmBy("manual")
  /\ UNCHANGED dead_man

\* The TTL passes, or the controller's state stream closes.
LoseLease ==
  /\ lease
  /\ lease' = FALSE
  /\ dead_man' = TRUE
  /\ UNCHANGED <<seqVars, armed, arming, loopVars>>

DeadManStops ==
  /\ dead_man
  /\ dead_man' = FALSE
  /\ DisarmBy("fault")
  /\ UNCHANGED lease

-----------------------------------------------------------------------------
(***************************************************************************)
(* tick(): lease gate, transition table, idle timeout.                     *)
(***************************************************************************)
IdleElapses ==
  /\ active
  /\ idle_over' = TRUE
  /\ UNCHANGED <<seqVars, armed, lease, dead_man, arming, active, observed>>

Current == <<state, disarm_reason>>

Ticks == active /\ lease /\ UNCHANGED <<armed, lease, dead_man, arming>>

\* TickLeaseLost if the gate returned without stop().
TickLeaseLostIgnored ==
  /\ active /\ ~lease
  /\ UNCHANGED vars

TickLeaseLost ==
  /\ active /\ ~lease
  /\ active' = FALSE
  /\ UNCHANGED <<seqVars, armed, lease, dead_man, arming, observed, idle_over>>

Restart == StartCq /\ observed' = <<CALLING, NoReason>> /\ UNCHANGED active

TickDone ==
  /\ Ticks
  /\ Current # observed /\ state = DONE
  /\ Restart
  /\ idle_over' = FALSE

\* TickFailed if a state that has gone on since its stop counted as well.
TickFailedOrBusy ==
  /\ Ticks
  /\ Current # observed /\ state # DONE
  /\ disarm_reason \in RearmReasons \/ state \in Exchanging
  /\ ~idle_over
  /\ Restart
  /\ UNCHANGED idle_over

TickFailed ==
  /\ Ticks
  /\ Current # observed /\ state # DONE
  /\ disarm_reason \in RearmReasons
  /\ ~idle_over
  /\ Restart
  /\ UNCHANGED idle_over

\* The same, and the timeout that has passed meanwhile stops the new CQ.
TickFailedTooLate ==
  /\ Ticks
  /\ Current # observed /\ state # DONE
  /\ disarm_reason \in RearmReasons
  /\ idle_over
  /\ ResetPartner
  /\ state' = IDLE /\ tx_enabled' = FALSE /\ disarm_reason' = "manual"
  /\ dx_call' = NoCall /\ tx_phase' = 0 /\ partner_loss_stop' = TRUE
  /\ active' = FALSE /\ observed' = <<CALLING, NoReason>>
  /\ UNCHANGED idle_over

TickStopped ==
  /\ Ticks
  /\ Current # observed /\ state # DONE
  /\ disarm_reason \in StopReasons
  /\ active' = FALSE /\ observed' = Current
  /\ UNCHANGED <<seqVars, idle_over>>

\* Nothing the table has a row for.
Unremarkable ==
  \/ Current = observed
  \/ state # DONE /\ disarm_reason \notin RearmReasons \cup StopReasons

TickObserves ==
  /\ Ticks
  /\ Unremarkable /\ ~idle_over
  /\ observed' = Current
  /\ UNCHANGED <<seqVars, active, idle_over>>

TickTimeout ==
  /\ Ticks
  /\ Unremarkable /\ idle_over
  /\ Stop("manual")
  /\ active' = FALSE /\ observed' = Current
  /\ UNCHANGED idle_over

Tick ==
  \/ TickLeaseLost \/ TickDone \/ TickFailed \/ TickFailedTooLate
  \/ TickStopped \/ TickObserves \/ TickTimeout

-----------------------------------------------------------------------------
\* The orchestrator feeds messages and the driver pulls them, armed or not.
Exchange ==
  /\ \/ PartnerTurnsAway
     \/ \E p \in Stations, kind \in Kinds : OnMessage(p, kind)
     \/ NextTxMessage
  /\ UNCHANGED <<armed, lease, dead_man, arming, loopVars>>

Next ==
  \/ \E kind \in Requests : Request(kind) \/ ArmRefused(kind)
  \/ CqArmed \/ LoopArmed \/ ReplyArmed
  \/ OperatorStops \/ FaultStops \/ DeadManStops
  \/ AcquireLease \/ ReleaseLease \/ LoseLease
  \/ IdleElapses
  \/ Tick
  \/ Exchange

Spec == LoopInit /\ [][Next]_vars

\* The watchdog task ticks every second.
FairSpec == Spec /\ WF_vars(Tick)

-----------------------------------------------------------------------------
LoopTypeOK ==
  /\ armed \in BOOLEAN /\ lease \in BOOLEAN /\ dead_man \in BOOLEAN
  /\ arming \subseteq Requests
  /\ active \in BOOLEAN /\ idle_over \in BOOLEAN
  /\ observed \in States \X (Reasons \cup {NoReason})

\* A session is started by the loop only when none is on: it may replace a
\* session that has ended, never an exchange that goes on.
NeverInterrupts ==
  [][session' # session /\ arming' = arming => state \in {IDLE, DONE}]_vars

\* A loop that runs never leaves the station silent: when the session ends, it
\* calls again or it stops.
NeverSilent == active /\ state \notin Active ~> ~active \/ state \in Active

\* Without a lease the loop stops.
StopsWithLease == active /\ ~lease ~> ~active \/ lease

\* A stop of a session that was on, by operator or system, ends the loop unless
\* somebody starts a session anew before it is noticed.
StopEndsLoop ==
  active /\ state = IDLE /\ disarm_reason \in StopReasons
    ~> ~active \/ state \in Active

-----------------------------------------------------------------------------
(***************************************************************************)
(* What the documents say and the code does not do (see README.md).        *)
(***************************************************************************)
\* "manual or fault disarm stops the loop and is never re-armed automatically"
\* (SDD/15, 15.6): a tick starts no CQ after a disarm.
NeverRearms ==
  [][session' # session /\ arming' = arming => armed]_vars
=============================================================================
