----------------------------- MODULE DspWorker -----------------------------
(***************************************************************************)
(* The supervised DSP worker: WorkerSupervisor of server/core/supervisor.py *)
(* under its one lock, the process of server/core/worker.py at the other   *)
(* end of the pipe, and the callers of dsp_encode.py and dsp_decode.py,    *)
(* which hand samples and waveforms over in shared memory.                 *)
(*                                                                         *)
(* A caller's request runs in a thread and holds the lock from its first   *)
(* look at the state to its last, restarts included; the caller reads the  *)
(* result on the event loop, after the lock is gone. The worker may die or *)
(* hang anywhere, and a timer may win over its answer. Init is the server  *)
(* after start(): a start() that fails ends the startup.                   *)
(***************************************************************************)
EXTENDS Integers, Sequences, FiniteSets

CONSTANTS
  Encoders,   \* callers of SupervisorEncoder.encode(), each with its segment
  Decoders,   \* callers of SupervisorDecoder.decode(), each with its segment
  Nobody,     \* the lock is free; the client of a ping
  MaxCalls    \* bound: calls of each caller

Clients == Encoders \cup Decoders

ASSUME ClientsAssumption == Encoders \cap Decoders = {} /\ Nobody \notin Clients
ASSUME CallsAssumption   == MaxCalls \in Nat

VARIABLES
  state,       \* WorkerSupervisor._state
  generation,  \* WorkerSupervisor._generation
  next_id,     \* WorkerSupervisor._next_request_id
  lock,        \* WorkerSupervisor._lock: the caller whose thread holds it
  pc,          \* where each caller is
  call,        \* the number of each caller's latest call
  decoded,     \* the call whose samples each decode was computed from
  segment,     \* the call whose samples or waveform each segment holds
  requests,    \* the pipe to the worker
  replies,     \* the pipe from the worker
  workers      \* the processes alive

supervisor == <<state, generation, next_id, lock>>
callers    == <<pc, call, decoded>>
pipe       == <<requests, replies>>
vars       == <<supervisor, callers, segment, pipe, workers>>

States == {"starting", "ready", "degraded", "stopped"}
Places == {"idle", "waiting", "sent", "pinging", "repinging", "served", "failed"}

\* Frames name the generation and the request, replies what they are worth.
Frames  == [generation : Nat, id : Nat, client : Clients \cup {Nobody}, call : Nat]
Replies == [frame : Frames, kind : {"ok", "error", "garbage"}, samples : Nat]

\* A worker is idle, at work on a request, or done with it.
Jobs      == {"idle", "working", "done"}
Processes == [generation : Nat, job : Jobs, on : Seq(Frames), samples : Nat]
Process(g) == [generation |-> g, job |-> "idle", on |-> << >>, samples |-> 0]

Init ==
  /\ state = "ready" /\ generation = 1 /\ next_id = 1 /\ lock = Nobody
  /\ pc = [c \in Clients |-> "idle"]
  /\ call = [c \in Clients |-> 0] /\ decoded = call /\ segment = call
  /\ requests = << >> /\ replies = << >>
  /\ workers = {Process(1)}

Goto(c, place) == pc' = [pc EXCEPT ![c] = place]

-----------------------------------------------------------------------------
(***************************************************************************)
(* The callers, on the event loop. A decode fills its segment first; the   *)
(* waveform of an encode is read out of the segment when the thread's      *)
(* answer reaches the loop.                                                *)
(***************************************************************************)
Call(c) ==
  /\ pc[c] = "idle" /\ call[c] < MaxCalls
  /\ call' = [call EXCEPT ![c] = @ + 1]
  /\ segment' = IF c \in Decoders THEN [segment EXCEPT ![c] = call'[c]] ELSE segment
  /\ Goto(c, "waiting")
  /\ UNCHANGED <<supervisor, decoded, pipe, workers>>

Return(c) ==
  /\ pc[c] \in {"served", "failed"}
  /\ Goto(c, "idle")
  /\ UNCHANGED <<supervisor, call, decoded, segment, pipe, workers>>

-----------------------------------------------------------------------------
(***************************************************************************)
(* request(), with the lock. Whoever leaves it releases the lock.          *)
(***************************************************************************)
Leave(c, place) == Goto(c, place) /\ lock' = Nobody

Frame(g, c) == [generation |-> g, id |-> next_id + 1, client |-> c,
                call |-> IF c = Nobody THEN 0 ELSE call[c]]

Send(c) ==
  /\ next_id' = next_id + 1
  /\ requests' = Append(requests, Frame(generation, c))

\* The answer at the head of the pipe is the one this request waits for. A
\* second check finds it even though each generation has a pipe of its own.
Correlates(reply) ==
  /\ reply.kind # "garbage"
  /\ reply.frame.generation = generation /\ reply.frame.id = next_id

\* Otherwise: no answer in time, no worker, or an answer that is not ours.
Answered == replies # << >> /\ Correlates(Head(replies))
NoAnswer == ~Answered

\* Spawn if the old process were told to end, and not waited for.
SpawnBesideOld(c, place) ==
  /\ generation' = generation + 1
  /\ replies' = << >>
  /\ \/ /\ state' = "starting" /\ Goto(c, place) /\ lock' = c
        /\ workers' = workers \cup {Process(generation')}
        /\ next_id' = next_id + 1
        /\ requests' = <<Frame(generation', Nobody)>>
     \/ /\ state' = "degraded" /\ Leave(c, "failed")
        /\ workers' = {} /\ requests' = << >>
        /\ UNCHANGED next_id
  /\ UNCHANGED <<call, decoded, segment>>

\* _spawn_locked() up to its ping: the old process is gone, and its pipe with
\* it, before there is a new one. It may not come up at all.
Spawn(c, place) ==
  /\ generation' = generation + 1
  /\ replies' = << >>
  /\ \/ /\ state' = "starting" /\ Goto(c, place) /\ lock' = c
        /\ workers' = {Process(generation')}
        /\ next_id' = next_id + 1
        /\ requests' = <<Frame(generation', Nobody)>>
     \/ /\ state' = "degraded" /\ Leave(c, "failed")
        /\ workers' = {} /\ requests' = << >>
        /\ UNCHANGED next_id
  /\ UNCHANGED <<call, decoded, segment>>

TakeReady(c) ==
  /\ pc[c] = "waiting" /\ lock = Nobody
  /\ state = "ready"
  /\ Send(c)
  /\ Goto(c, "sent") /\ lock' = c
  /\ UNCHANGED <<state, generation, call, decoded, segment, replies, workers>>

\* The last restart has failed: try one before the request.
TakeDegraded(c) ==
  /\ pc[c] = "waiting" /\ lock = Nobody
  /\ state = "degraded"
  /\ Spawn(c, "pinging")

TakeStopped(c) ==
  /\ pc[c] = "waiting" /\ lock = Nobody
  /\ state = "stopped"
  /\ Goto(c, "failed")
  /\ UNCHANGED <<supervisor, call, decoded, segment, pipe, workers>>

\* An error frame is the worker's answer, and no fault of the worker's.
Replied(c) ==
  /\ pc[c] = "sent" /\ Answered
  /\ replies' = Tail(replies)
  /\ decoded' = [decoded EXCEPT ![c] = Head(replies).samples]
  /\ Leave(c, IF Head(replies).kind = "ok" THEN "served" ELSE "failed")
  /\ UNCHANGED <<state, generation, next_id, call, segment, requests, workers>>

\* Fault without the timer: a dead worker and a wrong answer are noticed.
FaultUntimed(c) ==
  /\ pc[c] = "sent" /\ NoAnswer
  /\ replies # << >> \/ workers = {}
  /\ Spawn(c, "repinging")

\* _fail_locked(): the request is lost, and one restart is tried.
Fault(c) ==
  /\ pc[c] = "sent" /\ NoAnswer
  /\ Spawn(c, "repinging")

PingAnswered(c) ==
  /\ pc[c] \in {"pinging", "repinging"} /\ Answered
  /\ state' = "ready"
  /\ replies' = Tail(replies)
  /\ UNCHANGED <<generation, call, decoded, segment, workers>>
  /\ IF pc[c] = "pinging"
     THEN Send(c) /\ Goto(c, "sent") /\ UNCHANGED lock
     ELSE Leave(c, "failed") /\ UNCHANGED <<next_id, requests>>

PingFails(c) ==
  /\ pc[c] \in {"pinging", "repinging"} /\ NoAnswer
  /\ state' = "degraded"
  /\ workers' = {} /\ requests' = << >> /\ replies' = << >>
  /\ Leave(c, "failed")
  /\ UNCHANGED <<generation, next_id, call, decoded, segment>>

\* Stop if it asked the worker to end, and did not insist.
StopPolitely ==
  /\ lock = Nobody /\ state # "stopped"
  /\ state' = "stopped"
  /\ workers' \in {{}, workers} /\ requests' = << >> /\ replies' = << >>
  /\ UNCHANGED <<generation, next_id, lock, callers, segment>>

\* stop(): asked to, told to, killed.
Stop ==
  /\ lock = Nobody /\ state # "stopped"
  /\ state' = "stopped"
  /\ workers' = {} /\ requests' = << >> /\ replies' = << >>
  /\ UNCHANGED <<generation, next_id, lock, callers, segment>>

-----------------------------------------------------------------------------
(***************************************************************************)
(* The worker: it takes a frame, works on it and answers, in this order.   *)
(* What it does in shared memory it does while it works.                   *)
(***************************************************************************)
Becomes(w, v) == workers' = (workers \ {w}) \cup {v}

\* The worker at the other end of the pipe that is open.
AtPipe(w) == w.generation = generation

WorkerTakes(w) ==
  /\ AtPipe(w) /\ w.job = "idle" /\ requests # << >>
  /\ requests' = Tail(requests)
  /\ Becomes(w, [w EXCEPT !.job = "working", !.on = <<Head(requests)>>])
  /\ UNCHANGED <<supervisor, callers, segment, replies>>

WorkerWorks(w) ==
  /\ w.job = "working"
  /\ LET frame == Head(w.on)  c == frame.client IN
       /\ segment' = IF c \in Encoders THEN [segment EXCEPT ![c] = frame.call] ELSE segment
       /\ Becomes(w, [w EXCEPT !.job = "done",
                               !.samples = IF c \in Decoders THEN segment[c] ELSE 0])
  /\ UNCHANGED <<supervisor, callers, pipe>>

\* An error may come from any step of the work, a ping's pong from none.
WorkerReplies(w) ==
  /\ AtPipe(w)
  /\ \E kind \in {"ok", "error", "garbage"} :
       /\ CASE w.job = "done"    -> Head(w.on).client = Nobody => kind # "error"
            [] w.job = "working" -> Head(w.on).client # Nobody /\ kind = "error"
            [] w.job = "idle"    -> FALSE
       /\ replies' = Append(replies, [frame |-> Head(w.on), kind |-> kind, samples |-> w.samples])
  /\ Becomes(w, Process(w.generation))
  /\ UNCHANGED <<supervisor, callers, segment, requests>>

WorkerDies(w) ==
  /\ workers' = workers \ {w}
  /\ UNCHANGED <<supervisor, callers, segment, pipe>>

-----------------------------------------------------------------------------
Take(c)    == TakeReady(c) \/ TakeDegraded(c) \/ TakeStopped(c)
Request(c) == Replied(c) \/ Fault(c) \/ PingAnswered(c) \/ PingFails(c)

Next ==
  \/ \E c \in Clients : Call(c) \/ Return(c) \/ Take(c) \/ Request(c)
  \/ \E w \in workers : WorkerTakes(w) \/ WorkerWorks(w) \/ WorkerReplies(w) \/ WorkerDies(w)
  \/ Stop

Spec == Init /\ [][Next]_vars

\* A thread that waits for the lock gets it once it stays free, as it does
\* when the other callers have nothing more to ask; poll() has a timeout.
\* Nothing is assumed of the worker.
Fairness == \A c \in Clients : WF_vars(Take(c)) /\ WF_vars(Request(c)) /\ WF_vars(Return(c))

FairSpec == Spec /\ Fairness

-----------------------------------------------------------------------------
TypeOK ==
  /\ state \in States /\ generation \in Nat /\ next_id \in Nat
  /\ lock \in Clients \cup {Nobody}
  /\ pc \in [Clients -> Places] /\ call \in [Clients -> 0 .. MaxCalls]
  /\ decoded \in [Clients -> Nat] /\ segment \in [Clients -> Nat]
  /\ requests \in Seq(Frames) /\ replies \in Seq(Replies)
  /\ workers \subseteq Processes
  /\ \A c \in Clients : lock = c <=> pc[c] \in {"sent", "pinging", "repinging"}

\* One process at a time has the segments mapped, and none outlives stop():
\* through timeouts, deaths, failed restarts and shutdown (AD-003).
OneWorker == Cardinality(workers) <= 1 /\ (state = "stopped" => workers = {})

\* What a caller gets is its own: a decode was computed from the samples of
\* this call, and the waveform in the segment is the one this call asked for,
\* also when an earlier request was given up while the worker was at it. (For
\* callers that do not overlap, as dsp_encode.py asks of them.)
GetsOwn ==
  \A c \in Clients :
    pc[c] = "served" => call[c] = IF c \in Encoders THEN segment[c] ELSE decoded[c]

\* What GetsOwn needs to be inductive. A frame anywhere belongs to the holder
\* of the lock: to its request, or to the ping before or after it.
Current(frame) ==
  /\ lock # Nobody
  /\ frame.id = next_id /\ frame.generation = generation
  /\ IF pc[lock] = "sent"
     THEN frame.client = lock /\ frame.call = call[lock]
     ELSE frame.client = Nobody

\* The work on it is done, on this call's data.
Computed(frame, samples) ==
  /\ frame.client \in Encoders => segment[frame.client] = call[frame.client]
  /\ frame.client \in Decoders => samples = call[frame.client]

AllIdle == \A w \in workers : w.job = "idle"

\* One process, of this generation; one frame, in one place: on its way, in
\* work, or answered. The samples of a decode stay until it returns.
OneProcess  == \A v, w \in workers : v = w /\ w.generation = generation
RequestInv  ==
  requests # << >> =>
    /\ requests = <<Head(requests)>> /\ Current(Head(requests))
    /\ replies = << >> /\ AllIdle
WorkInv     ==
  \A w \in workers : w.job # "idle" =>
    /\ w.on = <<Head(w.on)>> /\ Current(Head(w.on))
    /\ requests = << >> /\ replies = << >>
    /\ w.job = "done" => Computed(Head(w.on), w.samples)
ReplyInv    ==
  replies # << >> =>
    /\ replies = <<Head(replies)>> /\ Current(Head(replies).frame)
    /\ requests = << >> /\ AllIdle
    /\ Head(replies).kind = "ok" => Computed(Head(replies).frame, Head(replies).samples)
SamplesStay == \A c \in Decoders : pc[c] # "idle" => segment[c] = call[c]
NobodyLeft  == state = "stopped" => workers = {} /\ lock = Nobody

DspInv ==
  /\ TypeOK /\ OneProcess /\ RequestInv /\ WorkInv /\ ReplyInv
  /\ SamplesStay /\ NobodyLeft /\ GetsOwn

\* A worker that is said to be ready has nothing of an earlier request left:
\* no frame in the pipe, no job in hand (section 11.1, stale responses).
ReadyIsClean ==
  state = "ready" /\ lock = Nobody
    => requests = << >> /\ replies = << >> /\ \A w \in workers : w.job = "idle"

\* A stopped supervisor stays stopped: a request that waited for the lock
\* through the shutdown, or a late one, starts no process.
StaysStopped == [][state = "stopped" => state' = "stopped" /\ workers' = {}]_vars

\* A call ends, with a result or a fault, whatever the worker does.
CallsEnd == \A c \in Clients : pc[c] = "waiting" ~> pc[c] = "idle"
=============================================================================
