------------------------------ MODULE Capture ------------------------------
(***************************************************************************)
(* The supervision of the capture child (server/engine/capture_proc.py)    *)
(* and what the composition root restarts it for (server/main.py): a child *)
(* that dies or falls silent, a band change seen by one of two pollers, a  *)
(* stream that is hot and decodes nothing; and the shutdown.               *)
(*                                                                         *)
(* Each restart() runs in a thread of its own and waits for one lock. The  *)
(* event loop goes on meanwhile. Children are named 0 and 1 in turn: all    *)
(* that is compared is a child with its successor. The ring is RxRing.     *)
(***************************************************************************)
EXTENDS Naturals, FiniteSets

CONSTANTS
  Bands,       \* the bands the radio may be on
  Streak,      \* hot slots without a message that raise an episode
  VerifySlots, \* VERIFY_SLOTS
  MaxBounces,  \* MAX_CAPTURE_BOUNCES
  MaxTroubles, \* bound: deaths, silences and failed spawns
  MaxEvents,   \* bound: turns of the radio, transmissions, and episodes
  Absent       \* no process, no pipe, no band

Pollers == {"rig_poll", "band_hunt"}
Callers == Pollers \cup {"recover"}
Threads == Callers \cup {"watchdog"}

ASSUME CaptureAssumption ==
  /\ Bands # {} /\ Absent \notin Bands /\ Absent \notin Nat /\ Absent \notin Threads
  /\ Streak \in Nat \ {0} /\ VerifySlots \in Nat \ {0} /\ MaxBounces \in Nat

VARIABLES
  pc,          \* where the restart() of each thread is
  lock,        \* who holds CaptureProcess._lock
  process,     \* the child of the handle _process
  alive,       \* the children that run
  generation,  \* CaptureProcess._generation, modulo 2
  fresh,       \* _last_block is not older than the stall timeout
  held,        \* the reader thread has a block it has not written yet
  main,        \* the life of the process: running, stopping, stopped
  spawn_failed,\* the last spawn raised
  radio,       \* the band the radio is on
  ptt_on,      \* SafetyController.ptt_on
  last_band,   \* _last_restart_band
  deferred,    \* _deferred_band
  wanted,      \* the band each poller restarts for
  fresh_band,  \* the band a poller last opened the stream for; nothing reads it
  overlapped,  \* the restarts of the two pollers have overlapped; nothing reads it
  hot_silent,  \* CaptureHealthMonitor._hot_silent
  triggered,   \* CaptureHealthMonitor._triggered
  bounces,     \* capture_bounces
  verify,      \* _restart_verify
  faulted,     \* whether AUDIO is latched
  heard,       \* a message was decoded since recover's last restart
  troubles, events \* what the bounds count

supervisor  == <<lock, process, alive, generation, fresh, spawn_failed>>
bands       == <<radio, ptt_on, last_band, deferred, wanted, fresh_band, overlapped>>
health      == <<hot_silent, triggered, bounces, verify, faulted, heard>>
counts      == <<troubles, events>>
captureVars == <<pc, supervisor, held, main, bands, health, counts>>

CaptureInit ==
  /\ pc = [t \in Threads |-> "idle"] /\ lock = Absent
  /\ process = 1 /\ alive = {1} /\ generation = 1
  /\ fresh = TRUE /\ spawn_failed = FALSE
  /\ held = FALSE
  /\ main = "running"
  /\ radio = (CHOOSE b \in Bands : TRUE) /\ ptt_on = FALSE  \* no band differs from another
  /\ last_band = Absent /\ deferred = Absent /\ wanted = [p \in Pollers |-> Absent]
  /\ fresh_band = Absent /\ overlapped = FALSE
  /\ hot_silent = 0 /\ triggered = FALSE /\ bounces = 0
  /\ verify = [slots_left |-> 0, hot_silent |-> 0]
  /\ faulted = FALSE /\ heard = TRUE
  /\ troubles = 0 /\ events = 0

MovesTo(t, place) == pc' = [pc EXCEPT ![t] = place]

-----------------------------------------------------------------------------
(* restart(): the lock, the teardown, the spawn.                           *)

(* The band a poller restarts for. *)
Aim(p) == IF wanted[p] = "deferred" THEN deferred ELSE wanted[p]

\* TeardownChild if the child were told to end and not waited for.
TeardownAsks ==
  /\ process' = Absent
  /\ alive' \in {alive, alive \ {process}}

(* The old child is gone before the handle is given up. *)
TeardownChild ==
  /\ process' = Absent
  /\ alive' = alive \ {process}

TakesLock(t) ==
  /\ pc[t] = "wanting" /\ lock = Absent
  /\ lock' = t /\ MovesTo(t, "torn")
  /\ TeardownChild
  /\ fresh_band' = IF t \in Pollers THEN Aim(t) ELSE fresh_band
  /\ UNCHANGED <<generation, fresh, spawn_failed, held, main, radio, ptt_on, last_band,
                 deferred, wanted, overlapped, health, counts>>

\* Back if the watchdog did not catch what restart() raises.
BackOrDead(t, ok) ==
  IF ok THEN IF t = "watchdog" THEN "idle" ELSE "restarted" ELSE "raised"

(* Where a thread goes from restart(): the watchdog catches what it raises, *)
(* so do the pollers; the task of recover_capture dies of it.              *)
Back(t, ok) ==
  IF t = "watchdog" THEN "idle" ELSE IF ok THEN "restarted" ELSE "raised"

Spawns(t) ==
  /\ pc[t] = "torn"
  /\ generation' = 1 - generation
  /\ process' = generation' /\ alive' = alive \cup {generation'}
  /\ fresh' = TRUE /\ spawn_failed' = FALSE
  /\ lock' = Absent /\ MovesTo(t, Back(t, TRUE))
  /\ UNCHANGED <<held, main, bands, health, counts>>

SpawnRaises(t) ==
  /\ pc[t] = "torn" /\ troubles < MaxTroubles
  /\ troubles' = troubles + 1
  /\ generation' = 1 - generation /\ spawn_failed' = TRUE
  /\ lock' = Absent /\ MovesTo(t, Back(t, FALSE))
  /\ UNCHANGED <<process, alive, fresh, held, main, bands, health, events>>

-----------------------------------------------------------------------------
(* The child, and the reader thread of its blocks.                         *)

ChildDies ==
  /\ alive # {} /\ troubles < MaxTroubles
  /\ alive' = {} /\ troubles' = troubles + 1
  /\ UNCHANGED <<pc, lock, process, generation, fresh, spawn_failed, held, main,
                 bands, health, events>>

(* The stall timeout passes without a block. *)
FallsSilent ==
  /\ fresh /\ troubles < MaxTroubles
  /\ fresh' = FALSE /\ troubles' = troubles + 1
  /\ UNCHANGED <<pc, lock, process, alive, generation, spawn_failed, held, main,
                 bands, health, events>>

(* The reader has a block in hand; its pipe may be replaced meanwhile. *)
ReaderReceives ==
  /\ main = "running" /\ ~held /\ process \in alive
  /\ held' = TRUE
  /\ UNCHANGED <<pc, supervisor, main, bands, health, counts>>

(* The block goes to the ring, and counts as a sign of life. *)
ReaderWrites ==
  /\ held
  /\ held' = FALSE /\ fresh' = TRUE
  /\ UNCHANGED <<pc, lock, process, alive, generation, spawn_failed, main, bands, health, counts>>

-----------------------------------------------------------------------------
(* The watchdog thread.                                                    *)

Healthy == process \in alive /\ fresh

(* What healthy has answered under the lock is acted upon after it. *)
WatchdogLooks ==
  /\ pc["watchdog"] = "idle" /\ main = "running" /\ lock = Absent
  /\ ~Healthy
  /\ MovesTo("watchdog", "wanting")
  /\ UNCHANGED <<supervisor, held, main, bands, health, counts>>

-----------------------------------------------------------------------------
(* The pollers: a band change reopens the capture.                         *)

RadioTurns(b) ==
  /\ b # radio /\ events < MaxEvents
  /\ radio' = b /\ events' = events + 1
  /\ UNCHANGED <<pc, supervisor, held, main, ptt_on, last_band, deferred, wanted, fresh_band,
                 overlapped, health, troubles>>

PttChanges ==
  /\ main = "running"
  /\ ~ptt_on => events < MaxEvents
  /\ ptt_on' = ~ptt_on /\ events' = IF ptt_on THEN events ELSE events + 1
  /\ UNCHANGED <<pc, supervisor, held, main, radio, last_band, deferred, wanted, fresh_band,
                 overlapped, health, troubles>>

(* band_hunt tunes the radio itself, when nothing is on the air. *)
HunterTunes(b) ==
  /\ pc["band_hunt"] = "idle" /\ main = "running" /\ ~ptt_on /\ events < MaxEvents
  /\ radio' = b /\ events' = events + 1
  /\ wanted' = [wanted EXCEPT !["band_hunt"] = b] /\ MovesTo("band_hunt", "tuned")
  /\ UNCHANGED <<supervisor, held, main, ptt_on, last_band, deferred, fresh_band, overlapped,
                 health, troubles>>

(* A poller has found, or made, the radio on band b. *)
Sees(p, b) ==
  /\ main = "running"
  /\ IF p = "rig_poll" THEN pc[p] = "idle" /\ b = radio ELSE pc[p] = "tuned" /\ b = wanted[p]

(* The first band seen is the baseline. *)
SeesBaseline(p, b) ==
  /\ Sees(p, b) /\ last_band = Absent
  /\ last_band' = b
  /\ fresh_band' = IF fresh_band = Absent THEN b ELSE fresh_band
  /\ MovesTo(p, "idle")
  /\ UNCHANGED <<supervisor, held, main, radio, ptt_on, deferred, wanted, overlapped,
                 health, counts>>

IsDeferred(b) == b = deferred /\ ~ptt_on

Restarting == {"wanting", "torn", "restarted", "raised"}

(* A change put off during a transmission, and one that need not be. *)
SeesChange(p, b) ==
  /\ Sees(p, b) /\ last_band # Absent
  /\ IsDeferred(b) \/ (b # last_band /\ ~ptt_on)
  /\ wanted' = [wanted EXCEPT ![p] = IF IsDeferred(b) THEN "deferred" ELSE b]
  /\ MovesTo(p, "wanting")
  /\ overlapped' = (overlapped \/ \E q \in Pollers \ {p} : pc[q] \in Restarting)
  /\ UNCHANGED <<supervisor, held, main, radio, ptt_on, last_band, deferred, fresh_band,
                 health, counts>>

\* SeesNothing if a band seen during a transmission counted as handled.
SeesNothingButHandled(p, b) ==
  /\ Sees(p, b) /\ last_band # Absent
  /\ ~IsDeferred(b) /\ (b = last_band \/ ptt_on)
  /\ last_band' = b
  /\ MovesTo(p, "idle") /\ wanted' = [wanted EXCEPT ![p] = Absent]
  /\ UNCHANGED <<supervisor, held, main, radio, ptt_on, deferred, fresh_band,
                 overlapped, health, counts>>

(* The band it was, or a transmission: a restart now could do harm. *)
SeesNothing(p, b) ==
  /\ Sees(p, b) /\ last_band # Absent
  /\ ~IsDeferred(b) /\ (b = last_band \/ ptt_on)
  /\ deferred' = IF b = last_band THEN deferred ELSE b
  /\ MovesTo(p, "idle") /\ wanted' = [wanted EXCEPT ![p] = Absent]
  /\ UNCHANGED <<supervisor, held, main, radio, ptt_on, last_band, fresh_band,
                 overlapped, health, counts>>

(* Back from the thread: restarted or not, this band is done. *)
PollerResumes(p) ==
  /\ pc[p] \in {"restarted", "raised"} /\ main = "running"
  /\ last_band' = Aim(p)
  /\ deferred' = Absent /\ wanted' = [wanted EXCEPT ![p] = Absent]
  /\ MovesTo(p, "idle")
  /\ UNCHANGED <<supervisor, held, main, radio, ptt_on, fresh_band, overlapped,
                 health, counts>>

-----------------------------------------------------------------------------
(* on_decode(): the monitor, the episode, the verification.                *)

(* observe(): a message or a cold slot resets, the streak raises one edge.  *)
Observes(hot, messages) ==
  IF messages \/ ~hot
  THEN hot_silent' = 0 /\ triggered' = FALSE
  ELSE /\ hot_silent' = IF hot_silent < Streak THEN hot_silent + 1 ELSE hot_silent
       /\ triggered' = (hot_silent' >= Streak)

Edge == triggered' /\ ~triggered

\* Verified if a message did not close the window.
VerifiedRegardless(hot, messages) ==
  IF verify.slots_left = 0 THEN verify
  ELSE [slots_left |-> verify.slots_left - 1,
        hot_silent |-> verify.hot_silent + IF hot THEN 1 ELSE 0]

(* The window after a restart: how many of its slots are still to come, and *)
(* how many were hot and silent.                                           *)
Verified(hot, messages) ==
  IF verify.slots_left = 0 THEN verify
  ELSE IF messages THEN [slots_left |-> 0, hot_silent |-> 0]
  ELSE [slots_left |-> verify.slots_left - 1,
        hot_silent |-> verify.hot_silent + IF hot THEN 1 ELSE 0]

(* The fresh stream is as silent as the old one: it was the band. *)
FalseAlarm(hot, messages) ==
  LET v == Verified(hot, messages)
  IN verify.slots_left > 0 /\ v.slots_left = 0 /\ v.hot_silent >= VerifySlots

OnDecode(hot, messages) ==
  /\ main = "running"
  /\ Observes(hot, messages)
  /\ Edge => pc["recover"] = "idle" /\ events < MaxEvents
  /\ bounces' = (IF messages THEN 0 ELSE bounces) + IF Edge THEN 1 ELSE 0
  /\ verify' = IF FalseAlarm(hot, messages)
               THEN [slots_left |-> 0, hot_silent |-> 0] ELSE Verified(hot, messages)
  /\ faulted' = ((faulted /\ ~FalseAlarm(hot, messages)) \/ Edge)
  /\ heard' = (heard \/ messages)
  /\ IF Edge THEN MovesTo("recover", "reporting") /\ events' = events + 1
             ELSE UNCHANGED <<pc, events>>
  /\ UNCHANGED <<supervisor, held, main, bands, troubles>>

(* recover_capture(), once AUDIO is reported: a restart if any is left.     *)
RecoverGoesOn ==
  /\ pc["recover"] = "reporting"
  /\ MovesTo("recover", IF bounces <= MaxBounces THEN "wanting" ELSE "idle")
  /\ UNCHANGED <<supervisor, held, main, bands, hot_silent, triggered, bounces, verify,
                 faulted, heard, counts>>

(* The window opens when the thread has returned. *)
RecoverResumes ==
  /\ pc["recover"] = "restarted"
  /\ verify' = [slots_left |-> VerifySlots, hot_silent |-> 0] /\ heard' = FALSE
  /\ MovesTo("recover", "idle")
  /\ UNCHANGED <<supervisor, held, main, bands, hot_silent, triggered, bounces, faulted,
                 counts>>

(* A spawn that raises ends the task; the watchdog tries again. *)
RecoverRaises ==
  /\ pc["recover"] = "raised"
  /\ MovesTo("recover", "idle")
  /\ UNCHANGED <<supervisor, held, main, bands, health, counts>>

(* The operator clears the fault. *)
ClearFault ==
  /\ faulted /\ main = "running"
  /\ faulted' = FALSE
  /\ UNCHANGED <<pc, supervisor, held, main, bands, hot_silent, triggered, bounces, verify,
                 heard, counts>>

-----------------------------------------------------------------------------
(* stop(), at the end of the lifespan: the tasks are cancelled, threads are *)
(* not.                                                                    *)

StopSets ==
  /\ main = "running"
  /\ main' = "stopping"
  /\ UNCHANGED <<pc, supervisor, held, bands, health, counts>>

(* The joins that follow change nothing: they wait, or time out. *)
StopTearsDown ==
  /\ main = "stopping" /\ lock = Absent
  /\ main' = "stopped"
  /\ TeardownChild
  /\ UNCHANGED <<pc, lock, generation, fresh, spawn_failed, held, bands, health, counts>>

CaptureNext ==
  \/ \E t \in Threads : TakesLock(t) \/ Spawns(t) \/ SpawnRaises(t)
  \/ ChildDies \/ FallsSilent \/ ReaderReceives \/ ReaderWrites
  \/ WatchdogLooks
  \/ \E b \in Bands : RadioTurns(b) \/ HunterTunes(b)
  \/ PttChanges
  \/ \E p \in Pollers, b \in Bands : SeesBaseline(p, b) \/ SeesChange(p, b) \/ SeesNothing(p, b)
  \/ \E p \in Pollers : PollerResumes(p)
  \/ \E hot, messages \in BOOLEAN : OnDecode(hot, messages)
  \/ RecoverGoesOn \/ RecoverResumes \/ RecoverRaises \/ ClearFault
  \/ StopSets \/ StopTearsDown

(* Threads run, the loop polls, a live child sends. Nothing makes a radio   *)
(* turn, a stream decode, or the operator act.                             *)
CaptureFairness ==
  /\ \A t \in Threads : WF_captureVars(TakesLock(t)) /\ WF_captureVars(Spawns(t))
  /\ WF_captureVars(WatchdogLooks)
  /\ WF_captureVars(ReaderReceives) /\ WF_captureVars(ReaderWrites)
  /\ \A p \in Pollers :
       /\ WF_captureVars(\E b \in Bands : SeesBaseline(p, b) \/ SeesChange(p, b))
       /\ WF_captureVars(PollerResumes(p))
  /\ WF_captureVars(RecoverGoesOn) /\ WF_captureVars(RecoverResumes)
  /\ WF_captureVars(RecoverRaises) /\ WF_captureVars(StopTearsDown)

CaptureSpec == CaptureInit /\ [][CaptureNext]_captureVars /\ CaptureFairness

-----------------------------------------------------------------------------
(* Properties.                                                             *)

CaptureTypeOK ==
  /\ pc \in [Threads -> {"idle", "tuned", "reporting", "wanting", "torn", "restarted", "raised"}]
  /\ lock \in Threads \cup {Absent}
  /\ process \in {0, 1, Absent} /\ alive \subseteq {0, 1}
  /\ last_band \in Bands \cup {Absent} /\ deferred \in Bands \cup {Absent}
  /\ hot_silent \in 0 .. Streak /\ verify.slots_left \in 0 .. VerifySlots

(* One child at most has the audio device, and none while a restart is      *)
(* between its teardown and its spawn.                                     *)
OneChild ==
  /\ Cardinality(alive) <= 1
  /\ lock # Absent => alive = {}

(* The watchdog never takes the gap between the teardown and the spawn of   *)
(* another restart for a dead child: where it finds no process, the last   *)
(* spawn has failed.                                                       *)
WatchdogSeesSettled ==
  [][ pc["watchdog"] = "idle" /\ pc'["watchdog"] = "wanting" /\ process = Absent
       => spawn_failed ]_captureVars

(* The fault of an episode is cleared by the operator, or because not one   *)
(* message was decoded since the restart that followed it.                 *)
ClearedForSilence ==
  [][ faulted /\ ~faulted' => ClearFault \/ ~heard' ]_captureVars

(* As long as the process runs, a dead or silent child is replaced.         *)
Recovers == []<>(Healthy \/ main # "running")

(* Once the radio rests on a band, a poller has reopened the stream for it: *)
(* a change during a transmission is made up for. Two restarts of the      *)
(* pollers that overlap may end in the order that leaves _last_restart_band *)
(* on the band the stream was not opened for.                              *)
StreamFollowsBand ==
  []<>(fresh_band \in {Absent, radio} \/ ptt_on \/ overlapped \/ main # "running")

(* stop() always leaves the device released, once its threads have ended.   *)
StopReleases ==
  main = "stopped" /\ (\A t \in Threads : pc[t] \notin {"reporting", "wanting", "torn"}) => alive = {}

(* A child that is healthy is restarted only by those who mean it.          *)
NeverDoubleRestarts ==
  [][ pc["watchdog"] = "wanting" /\ pc'["watchdog"] = "torn" => ~Healthy ]_captureVars
=============================================================================
