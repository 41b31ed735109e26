----------------------------- MODULE LinkProofs -----------------------------
(***************************************************************************)
(* Two links that a request goes down and an answer comes back on: the     *)
(* pipe to the DSP worker and the session with rigctld. A caller's result  *)
(* is that of its own call whatever was given up before it, one worker is  *)
(* alive at a time, and no frequency reaches a rig on the air but for the  *)
(* faults the property names. DspInv and LinkInv are inductive: both say   *)
(* whose the frames, or the lines, under way are.                          *)
(***************************************************************************)
EXTENDS DspWorker, RigLink, SequenceTheorems, FiniteSetTheorems, TLAPS

\* What the type invariant says, and how a caller moves.
LEMMA GotoTyped ==
  ASSUME TypeOK, NEW c \in Clients, NEW place \in Places, Goto(c, place)
  PROVE  /\ pc' \in [Clients -> Places] /\ pc'[c] = place
         /\ \A d \in Clients \ {c} : pc'[d] = pc[d]
BY DEF Goto, TypeOK

\* The lock follows the caller that has it.
LEMMA LockFollows ==
  ASSUME ClientsAssumption, TypeOK, NEW c \in Clients, lock = c \/ lock = Nobody,
         \A d \in Clients \ {c} : pc'[d] = pc[d],
         \/ lock' = c /\ pc'[c] \in {"sent", "pinging", "repinging"}
         \/ lock' = Nobody /\ pc'[c] \notin {"sent", "pinging", "repinging"}
  PROVE  /\ lock' \in Clients \cup {Nobody}
         /\ \A d \in Clients : lock' = d <=> pc'[d] \in {"sent", "pinging", "repinging"}
BY DEF TypeOK, ClientsAssumption

\* A frame that is sent is a frame.
LEMMA FrameTyped ==
  ASSUME TypeOK, CallsAssumption, NEW g \in Nat, NEW c \in Clients \cup {Nobody}
  PROVE  Frame(g, c) \in Frames
BY DEF TypeOK, CallsAssumption, Frame, Frames

\* With the lock free there is nothing in the pipe and no work in hand.
LEMMA FreeIsClean ==
  ASSUME DspInv, lock = Nobody
  PROVE  requests = << >> /\ replies = << >> /\ AllIdle
BY DEF DspInv, RequestInv, WorkInv, ReplyInv, Current, AllIdle

THEOREM DspInvInit == ASSUME ClientsAssumption, CallsAssumption, Init PROVE DspInv
<1>1. Process(1) \in Processes
  BY DEF Process, Processes, Jobs
<1>2. TypeOK
  BY <1>1 DEF Init, TypeOK, States, Places, ClientsAssumption, CallsAssumption
<1> QED
  BY <1>2 DEF Init, DspInv, OneProcess, RequestInv, WorkInv, ReplyInv, SamplesStay,
     NobodyLeft, GetsOwn, Process

-----------------------------------------------------------------------------
(***************************************************************************)
(* The callers. What a caller does without the lock is no matter of any    *)
(* frame: frames are of the caller that holds it.                          *)
(***************************************************************************)
LEMMA BystanderKeeps ==
  ASSUME ClientsAssumption, DspInv, NEW c \in Clients, c # lock,
         UNCHANGED <<generation, next_id, lock, requests, replies, workers>>,
         \A d \in Clients \ {c} : pc'[d] = pc[d] /\ call'[d] = call[d] /\ segment'[d] = segment[d]
  PROVE  OneProcess' /\ RequestInv' /\ WorkInv' /\ ReplyInv'
<1>1. lock # Nobody => lock \in Clients /\ pc'[lock] = pc[lock] /\ call'[lock] = call[lock]
  BY DEF DspInv, TypeOK
<1>2. ASSUME NEW f, Current(f) PROVE Current(f)' /\ f.client # c
  <2>1. f.client = lock \/ f.client = Nobody
    BY <1>2 DEF Current
  <2> QED
    BY <1>1, <1>2, <2>1, ClientsAssumption DEF Current
<1>3. ASSUME NEW f, NEW n, Current(f), Computed(f, n) PROVE Computed(f, n)'
  <2>1. f.client # c
    BY <1>2, <1>3
  <2> QED
    BY <1>3, <2>1 DEF Computed, Clients
<1>4. OneProcess' /\ RequestInv'
  BY <1>2 DEF DspInv, OneProcess, RequestInv, AllIdle
<1>5. WorkInv'
  BY <1>2, <1>3 DEF DspInv, WorkInv
<1>6. ReplyInv'
  BY <1>2, <1>3 DEF DspInv, ReplyInv, AllIdle
<1> QED
  BY <1>4, <1>5, <1>6

LEMMA CallKeeps ==
  ASSUME ClientsAssumption, CallsAssumption, DspInv, NEW c \in Clients, Call(c)
  PROVE  DspInv'
<1> USE DEF Clients
<1>1. /\ pc' \in [Clients -> Places] /\ pc'[c] = "waiting"
      /\ \A d \in Clients \ {c} : pc'[d] = pc[d]
  BY GotoTyped DEF Call, DspInv, Places
<1>2. /\ call' \in [Clients -> 0 .. MaxCalls] /\ call'[c] = call[c] + 1
      /\ \A d \in Clients \ {c} : call'[d] = call[d]
  BY DEF Call, DspInv, TypeOK, CallsAssumption
<1>3. /\ segment' \in [Clients -> Nat]
      /\ c \in Decoders => segment'[c] = call'[c]
      /\ \A d \in Clients \ {c} : segment'[d] = segment[d]
  BY <1>2, CallsAssumption DEF Call, DspInv, TypeOK
<1>4. /\ UNCHANGED <<state, generation, next_id, lock, decoded, requests, replies, workers>>
      /\ pc[c] = "idle"
  BY DEF Call, supervisor, pipe
<1>5. TypeOK' /\ c # lock
  BY <1>1, <1>2, <1>3, <1>4 DEF DspInv, TypeOK
<1>6. OneProcess' /\ RequestInv' /\ WorkInv' /\ ReplyInv'
  BY <1>1, <1>2, <1>3, <1>4, <1>5, BystanderKeeps
<1>7. SamplesStay'
  BY <1>1, <1>2, <1>3 DEF DspInv, SamplesStay
<1>8. GetsOwn' /\ NobodyLeft'
  BY <1>1, <1>2, <1>3, <1>4 DEF DspInv, GetsOwn, NobodyLeft
<1> QED
  BY <1>5, <1>6, <1>7, <1>8 DEF DspInv

\* Return and TakeStopped move a caller that has no lock, and nothing else.
LEMMA MoveKeeps ==
  ASSUME ClientsAssumption, DspInv, NEW c \in Clients, NEW place \in {"idle", "failed"},
         Goto(c, place), pc[c] \notin {"idle", "sent", "pinging", "repinging"},
         UNCHANGED <<supervisor, call, decoded, segment, pipe, workers>>
  PROVE  DspInv'
<1>1. /\ pc' \in [Clients -> Places] /\ pc'[c] = place
      /\ \A d \in Clients \ {c} : pc'[d] = pc[d]
  BY GotoTyped DEF DspInv, Places
<1>2. UNCHANGED <<state, generation, next_id, lock, call, decoded, segment, requests, replies, workers>>
  BY DEF supervisor, pipe
<1>3. TypeOK' /\ c # lock
  BY <1>1, <1>2 DEF DspInv, TypeOK
<1>4. OneProcess' /\ RequestInv' /\ WorkInv' /\ ReplyInv'
  BY <1>1, <1>2, <1>3, BystanderKeeps
<1>5. SamplesStay' /\ GetsOwn' /\ NobodyLeft'
  BY <1>1, <1>2 DEF DspInv, SamplesStay, GetsOwn, NobodyLeft, Clients
<1> QED
  BY <1>3, <1>4, <1>5 DEF DspInv

-----------------------------------------------------------------------------
(***************************************************************************)
(* The requests.                                                           *)
(***************************************************************************)
\* With the pipe empty and no work in hand there is no frame to speak of.
LEMMA EmptyPipe ==
  ASSUME requests' = << >>, replies' = << >>, AllIdle'
  PROVE  RequestInv' /\ WorkInv' /\ ReplyInv'
BY DEF RequestInv, WorkInv, ReplyInv, AllIdle

\* One frame on its way is all there is.
LEMMA OneRequest ==
  ASSUME NEW f, Current(f)', requests' = <<f>>, replies' = << >>, AllIdle'
  PROVE  RequestInv' /\ WorkInv' /\ ReplyInv'
BY DEF RequestInv, WorkInv, ReplyInv, AllIdle

\* A caller that moves on within its call, the segments as they are, keeps
\* what its call has, and breaks GetsOwn only if it claims to be served.
LEMMA MovingOn ==
  ASSUME DspInv, NEW c \in Clients, NEW place \in Places \ {"idle", "served"}, Goto(c, place),
         pc[c] # "idle", UNCHANGED <<call, segment>>,
         \A d \in Clients \ {c} : decoded'[d] = decoded[d]
  PROVE  SamplesStay' /\ GetsOwn'
<1>1. /\ pc' \in [Clients -> Places] /\ pc'[c] = place
      /\ \A d \in Clients \ {c} : pc'[d] = pc[d]
  BY GotoTyped DEF DspInv
<1> QED
  BY <1>1 DEF DspInv, SamplesStay, GetsOwn, Clients

LEMMA SpawnKeeps ==
  ASSUME ClientsAssumption, CallsAssumption, DspInv, NEW c \in Clients,
         NEW place \in {"pinging", "repinging"},
         lock = Nobody \/ lock = c, pc[c] # "idle", Spawn(c, place)
  PROVE  DspInv'
<1>1. /\ generation' = generation + 1 /\ generation' \in Nat /\ replies' = << >>
      /\ UNCHANGED <<call, decoded, segment>>
  BY DEF Spawn, DspInv, TypeOK
<1>2. CASE /\ state' = "starting" /\ Goto(c, place) /\ lock' = c
           /\ workers' = {Process(generation')}
           /\ next_id' = next_id + 1
           /\ requests' = <<Frame(generation', Nobody)>>
  <2>1. /\ pc' \in [Clients -> Places] /\ pc'[c] = place
        /\ \A d \in Clients \ {c} : pc'[d] = pc[d]
    BY <1>2, GotoTyped DEF DspInv, Places
  <2>2. Process(generation') \in Processes
    BY <1>1 DEF Process, Processes, Jobs
  <2>3. Frame(generation', Nobody) \in Frames
    BY <1>1, FrameTyped DEF DspInv
  <2>4. next_id' \in Nat
    BY <1>2 DEF DspInv, TypeOK
  <2>5. TypeOK'
    BY <1>1, <1>2, <2>1, <2>2, <2>3, <2>4, ClientsAssumption DEF DspInv, TypeOK, States
  <2>6. OneProcess' /\ AllIdle'
    BY <1>2 DEF OneProcess, AllIdle, Process
  <2>7. PICK f : f = Frame(generation', Nobody)
    OBVIOUS
  <2>8. Current(f)'
    BY <1>1, <1>2, <2>1, <2>7, ClientsAssumption DEF Current, Frame
  <2>9. RequestInv' /\ WorkInv' /\ ReplyInv'
    BY <1>1, <1>2, <2>6, <2>7, <2>8, OneRequest
  <2>10. SamplesStay' /\ GetsOwn'
    BY <1>1, <1>2, MovingOn DEF Places
  <2> QED
    BY <1>2, <2>5, <2>6, <2>9, <2>10 DEF DspInv, NobodyLeft
<1>3. CASE /\ state' = "degraded" /\ Leave(c, "failed")
           /\ workers' = {} /\ requests' = << >>
           /\ UNCHANGED next_id
  <2>1. /\ pc' \in [Clients -> Places] /\ pc'[c] = "failed"
        /\ \A d \in Clients \ {c} : pc'[d] = pc[d]
    BY <1>3, GotoTyped DEF Leave, DspInv, Places
  <2>2. TypeOK'
    BY <1>1, <1>3, <2>1, ClientsAssumption, SMTT(30) DEF Leave, DspInv, TypeOK, States
  <2>3. SamplesStay' /\ GetsOwn'
    BY <1>1, <1>3, MovingOn DEF Leave, Places
  <2> QED
    BY <1>1, <1>3, <2>2, <2>3 DEF DspInv, OneProcess, RequestInv, WorkInv, ReplyInv, NobodyLeft
<1> QED
  BY <1>2, <1>3 DEF Spawn

LEMMA Sending ==
  ASSUME ClientsAssumption, DspInv, NEW c \in Clients, requests = << >>, AllIdle,
         Send(c), Goto(c, "sent"), lock' = c, replies' = << >>,
         UNCHANGED <<generation, call, workers>>
  PROVE  RequestInv' /\ WorkInv' /\ ReplyInv'
<1>1. pc'[c] = "sent"
  BY GotoTyped DEF DspInv, Places
<1>2. PICK f : f = Frame(generation, c)
  OBVIOUS
<1>3. requests' = <<f>> /\ next_id' = next_id + 1
  BY <1>2 DEF Send
<1>4. Current(f)'
  BY <1>1, <1>2, <1>3, ClientsAssumption DEF Current, Frame
<1>5. AllIdle'
  BY DEF AllIdle
<1> QED
  BY <1>3, <1>4, <1>5, OneRequest

LEMMA SendTyped ==
  ASSUME DspInv, CallsAssumption, NEW c \in Clients, requests = << >>, Send(c)
  PROVE  next_id' \in Nat /\ requests' \in Seq(Frames)
<1>1. Frame(generation, c) \in Frames
  BY FrameTyped DEF DspInv, TypeOK
<1> QED
  BY <1>1 DEF Send, DspInv, TypeOK

LEMMA TakeReadyKeeps ==
  ASSUME ClientsAssumption, CallsAssumption, DspInv, NEW c \in Clients, TakeReady(c)
  PROVE  DspInv'
<1>1. /\ pc[c] = "waiting" /\ lock = Nobody /\ state = "ready" /\ Send(c) /\ Goto(c, "sent") /\ lock' = c
      /\ UNCHANGED <<state, generation, call, decoded, segment, replies, workers>>
  BY DEF TakeReady
<1>2. requests = << >> /\ replies = << >> /\ AllIdle
  BY <1>1, FreeIsClean
<1>3. /\ pc' \in [Clients -> Places] /\ pc'[c] = "sent"
      /\ \A d \in Clients \ {c} : pc'[d] = pc[d]
  BY <1>1, GotoTyped DEF DspInv, Places
<1>4. next_id' \in Nat /\ requests' \in Seq(Frames)
  BY <1>1, <1>2, SendTyped
<1>5. TypeOK'
  BY <1>1, <1>3, <1>4, ClientsAssumption DEF DspInv, TypeOK
<1>6. RequestInv' /\ WorkInv' /\ ReplyInv'
  BY <1>1, <1>2, Sending
<1>7. SamplesStay' /\ GetsOwn'
  BY <1>1, MovingOn DEF Places
<1> QED
  BY <1>1, <1>5, <1>6, <1>7 DEF DspInv, OneProcess, NobodyLeft

\* What an answer that correlates is: the only frame there was, and current.
LEMMA AnswerIsAll ==
  ASSUME DspInv, Answered
  PROVE  /\ replies = <<Head(replies)>> /\ Head(replies) \in Replies /\ Tail(replies) = << >>
         /\ requests = << >> /\ AllIdle
         /\ Current(Head(replies).frame)
         /\ Head(replies).kind = "ok" => Computed(Head(replies).frame, Head(replies).samples)
<1>1. replies # << >> /\ replies \in Seq(Replies)
  BY DEF Answered, DspInv, TypeOK
<1>2. replies = <<Head(replies)>>
  BY <1>1 DEF DspInv, ReplyInv
<1>3. Head(replies) \in Replies
  BY <1>1
<1>4. Tail(replies) = << >>
  <2>1. \A r : Tail(<<r>>) = << >>
    OBVIOUS
  <2> QED
    BY <1>2, <2>1
<1> QED
  BY <1>1, <1>2, <1>3, <1>4 DEF DspInv, ReplyInv

LEMMA RepliedKeeps ==
  ASSUME ClientsAssumption, DspInv, NEW c \in Clients, Replied(c)
  PROVE  DspInv'
<1> DEFINE place == IF Head(replies).kind = "ok" THEN "served" ELSE "failed"
<1>1. /\ pc[c] = "sent" /\ Answered
      /\ decoded' = [decoded EXCEPT ![c] = Head(replies).samples]
      /\ Goto(c, place) /\ lock' = Nobody
      /\ UNCHANGED <<state, generation, next_id, call, segment, requests, workers>>
  BY DEF Replied, Leave
<1>2. /\ pc' \in [Clients -> Places] /\ pc'[c] = place
      /\ \A d \in Clients \ {c} : pc'[d] = pc[d]
  BY <1>1, GotoTyped DEF DspInv, Places
<1>3. /\ Head(replies) \in Replies /\ replies' = << >> /\ requests = << >> /\ AllIdle
      /\ Current(Head(replies).frame)
      /\ Head(replies).kind = "ok" => Computed(Head(replies).frame, Head(replies).samples)
  BY <1>1, AnswerIsAll DEF Replied
<1>4. /\ decoded' \in [Clients -> Nat] /\ decoded'[c] = Head(replies).samples
      /\ \A d \in Clients \ {c} : decoded'[d] = decoded[d]
  BY <1>1, <1>3 DEF DspInv, TypeOK, Replies
<1>5. lock = c
  BY <1>1 DEF DspInv, TypeOK
<1>6. TypeOK'
  <2>1. /\ lock' \in Clients \cup {Nobody}
        /\ \A d \in Clients : lock' = d <=> pc'[d] \in {"sent", "pinging", "repinging"}
    BY <1>1, <1>2, <1>5, LockFollows DEF DspInv
  <2> QED
    BY <1>1, <1>2, <1>3, <1>4, <2>1 DEF DspInv, TypeOK
<1>7. RequestInv' /\ WorkInv' /\ ReplyInv'
  <2>1. AllIdle'
    BY <1>1, <1>3 DEF AllIdle
  <2> QED
    BY <1>1, <1>3, <2>1, EmptyPipe
<1>8. Head(replies).frame.client = c
  BY <1>1, <1>3, <1>5 DEF Current
<1>9. GetsOwn'
  BY <1>1, <1>2, <1>3, <1>4, <1>8 DEF DspInv, GetsOwn, Computed, Clients
<1>10. SamplesStay'
  BY <1>1, <1>2 DEF DspInv, SamplesStay, Clients
<1> QED
  BY <1>1, <1>5, <1>6, <1>7, <1>9, <1>10, ClientsAssumption DEF DspInv, OneProcess, NobodyLeft

LEMMA PingAnsweredKeeps ==
  ASSUME ClientsAssumption, CallsAssumption, DspInv, NEW c \in Clients, PingAnswered(c)
  PROVE  DspInv'
<1>1. /\ pc[c] \in {"pinging", "repinging"} /\ Answered
      /\ state' = "ready"
      /\ UNCHANGED <<generation, call, decoded, segment, workers>>
  BY DEF PingAnswered
<1>2. replies' = << >> /\ requests = << >> /\ AllIdle
  BY <1>1, AnswerIsAll DEF PingAnswered
<1>3. lock = c
  BY <1>1 DEF DspInv, TypeOK
<1>4. CASE Send(c) /\ Goto(c, "sent") /\ UNCHANGED lock
  <2>1. /\ pc' \in [Clients -> Places] /\ pc'[c] = "sent"
        /\ \A d \in Clients \ {c} : pc'[d] = pc[d]
    BY <1>4, GotoTyped DEF DspInv, Places
  <2>2. next_id' \in Nat /\ requests' \in Seq(Frames)
    BY <1>2, <1>4, SendTyped
  <2>3. TypeOK'
    <3>1. /\ lock' \in Clients \cup {Nobody}
          /\ \A d \in Clients : lock' = d <=> pc'[d] \in {"sent", "pinging", "repinging"}
      BY <1>3, <1>4, <2>1, LockFollows DEF DspInv
    <3> QED
      BY <1>1, <1>2, <2>1, <2>2, <3>1 DEF DspInv, TypeOK, States
  <2>4. RequestInv' /\ WorkInv' /\ ReplyInv'
    BY <1>1, <1>2, <1>3, <1>4, Sending
  <2>5. SamplesStay' /\ GetsOwn'
    BY <1>1, <1>4, MovingOn DEF Places
  <2> QED
    BY <1>1, <2>3, <2>4, <2>5 DEF DspInv, OneProcess, NobodyLeft
<1>5. CASE Leave(c, "failed") /\ UNCHANGED <<next_id, requests>>
  <2>1. /\ pc' \in [Clients -> Places] /\ pc'[c] = "failed"
        /\ \A d \in Clients \ {c} : pc'[d] = pc[d]
    BY <1>5, GotoTyped DEF Leave, DspInv, Places
  <2>2. TypeOK'
    <3>1. /\ lock' \in Clients \cup {Nobody}
          /\ \A d \in Clients : lock' = d <=> pc'[d] \in {"sent", "pinging", "repinging"}
      BY <1>3, <1>5, <2>1, LockFollows DEF Leave, DspInv
    <3> QED
      BY <1>1, <1>2, <1>5, <2>1, <3>1 DEF DspInv, TypeOK, States
  <2>3. AllIdle'
    BY <1>1, <1>2 DEF AllIdle
  <2>4. RequestInv' /\ WorkInv' /\ ReplyInv'
    BY <1>2, <1>5, <2>3, EmptyPipe
  <2>5. SamplesStay' /\ GetsOwn'
    BY <1>1, <1>5, MovingOn DEF Leave, Places
  <2> QED
    BY <1>1, <2>2, <2>4, <2>5 DEF DspInv, OneProcess, NobodyLeft
<1> QED
  BY <1>4, <1>5 DEF PingAnswered

LEMMA PingFailsKeeps ==
  ASSUME ClientsAssumption, DspInv, NEW c \in Clients, PingFails(c)
  PROVE  DspInv'
<1>1. /\ pc[c] \in {"pinging", "repinging"} /\ state' = "degraded"
      /\ workers' = {} /\ requests' = << >> /\ replies' = << >>
      /\ Goto(c, "failed") /\ lock' = Nobody
      /\ UNCHANGED <<generation, next_id, call, decoded, segment>>
  BY DEF PingFails, Leave
<1>2. /\ pc' \in [Clients -> Places] /\ pc'[c] = "failed"
      /\ \A d \in Clients \ {c} : pc'[d] = pc[d]
  BY <1>1, GotoTyped DEF DspInv, Places
<1>3. lock = c
  BY <1>1 DEF DspInv, TypeOK
<1>4. /\ lock' \in Clients \cup {Nobody}
      /\ \A d \in Clients : lock' = d <=> pc'[d] \in {"sent", "pinging", "repinging"}
  BY <1>1, <1>2, <1>3, LockFollows DEF DspInv
<1>5. TypeOK'
  BY <1>1, <1>2, <1>4 DEF DspInv, TypeOK, States
<1>6. SamplesStay' /\ GetsOwn'
  BY <1>1, MovingOn DEF Places
<1> QED
  BY <1>1, <1>5, <1>6 DEF DspInv, OneProcess, RequestInv, WorkInv, ReplyInv, NobodyLeft

LEMMA StopKeeps ==
  ASSUME DspInv, Stop
  PROVE  DspInv'
<1>1. /\ lock = Nobody /\ state' = "stopped"
      /\ workers' = {} /\ requests' = << >> /\ replies' = << >>
      /\ UNCHANGED <<generation, next_id, lock, pc, call, decoded, segment>>
  BY DEF Stop, callers
<1>2. TypeOK' /\ SamplesStay' /\ GetsOwn'
  BY <1>1 DEF DspInv, TypeOK, States, SamplesStay, GetsOwn
<1> QED
  BY <1>1, <1>2 DEF DspInv, OneProcess, RequestInv, WorkInv, ReplyInv, NobodyLeft

-----------------------------------------------------------------------------
(***************************************************************************)
(* The worker.                                                             *)
(***************************************************************************)
LEMMA Alone ==
  ASSUME DspInv, NEW w \in workers
  PROVE  /\ workers = {w} /\ w \in Processes /\ w.generation = generation
         /\ \A v : Becomes(w, v) => workers' = {v}
         /\ w.job # "idle" => w.on = <<Head(w.on)>> /\ Head(w.on) \in Frames
<1>1. workers = {w} /\ w \in Processes /\ w.generation = generation
  BY DEF DspInv, OneProcess, TypeOK
<1>2. ASSUME w.job # "idle" PROVE w.on = <<Head(w.on)>> /\ Head(w.on) \in Frames
  <2>1. w.on = <<Head(w.on)>>
    BY <1>2 DEF DspInv, WorkInv
  <2>2. w.on \in Seq(Frames)
    BY <1>1 DEF Processes
  <2> QED
    BY <2>1, <2>2
<1> QED
  BY <1>1, <1>2 DEF Becomes

\* What the worker does leaves the supervisor and the callers where they are,
\* and so every frame as current as it was.
LEMMA WorkerLeaves ==
  ASSUME UNCHANGED <<supervisor, callers>>
  PROVE  /\ UNCHANGED <<state, generation, next_id, lock, pc, call, decoded>>
         /\ \A f : Current(f)' <=> Current(f)
BY DEF supervisor, callers, Current

LEMMA WorkerTakesKeeps ==
  ASSUME DspInv, NEW w \in workers, WorkerTakes(w)
  PROVE  DspInv'
<1> DEFINE v == [w EXCEPT !.job = "working", !.on = <<Head(requests)>>]
<1>1. /\ w.job = "idle" /\ requests # << >> /\ requests' = Tail(requests) /\ Becomes(w, v)
      /\ UNCHANGED <<supervisor, callers, segment, replies>>
  BY DEF WorkerTakes
<1>2. /\ UNCHANGED <<state, generation, next_id, lock, pc, call, decoded, segment, replies>>
      /\ \A f : Current(f)' <=> Current(f)
  BY <1>1, WorkerLeaves
<1>3. /\ requests = <<Head(requests)>> /\ Head(requests) \in Frames
      /\ Current(Head(requests)) /\ replies = << >>
  BY <1>1 DEF DspInv, RequestInv, TypeOK
<1>4. requests' = << >>
  <2>1. \A r : Tail(<<r>>) = << >>
    OBVIOUS
  <2> QED
    BY <1>1, <1>3, <2>1
<1>5. /\ v \in Processes /\ v.job = "working" /\ v.generation = generation
      /\ v.on = <<Head(requests)>> /\ Head(v.on) = Head(requests)
  <2>1. w \in Processes /\ w.generation = generation
    BY Alone
  <2>2. \A f \in Frames : <<f>> \in Seq(Frames) /\ Head(<<f>>) = f
    OBVIOUS
  <2>3. v.job = "working" /\ v.on = <<Head(requests)>> /\ v.generation = generation
    BY <2>1 DEF Processes
  <2>4. v \in Processes
    BY <1>3, <2>1, <2>2 DEF Processes, Jobs
  <2> QED
    BY <1>3, <2>2, <2>3, <2>4
<1>6. workers' = {v}
  BY <1>1, Alone
<1>7. TypeOK' /\ OneProcess'
  BY <1>2, <1>4, <1>5, <1>6 DEF DspInv, TypeOK, OneProcess
<1>8. RequestInv' /\ ReplyInv'
  BY <1>2, <1>3, <1>4 DEF RequestInv, ReplyInv
<1>9. WorkInv'
  <2>1. PICK f : f = Head(requests)
    OBVIOUS
  <2>2. Current(f)'
    BY <1>2, <1>3, <2>1
  <2>3. ASSUME NEW u \in workers' PROVE u.job = "working" /\ u.on = <<f>> /\ Head(u.on) = f
    BY <1>5, <1>6, <2>1
  <2> QED
    BY <1>2, <1>3, <1>4, <2>2, <2>3 DEF WorkInv
<1>10. SamplesStay' /\ GetsOwn'
  BY <1>2 DEF DspInv, SamplesStay, GetsOwn
<1>11. NobodyLeft'
  BY <1>2 DEF DspInv, NobodyLeft
<1> QED
  BY <1>7, <1>8, <1>9, <1>10, <1>11 DEF DspInv

LEMMA WorkerDiesKeeps ==
  ASSUME DspInv, NEW w \in workers, WorkerDies(w)
  PROVE  DspInv'
<1>1. /\ UNCHANGED <<state, generation, next_id, lock, pc, call, decoded, segment, requests, replies>>
      /\ \A f : Current(f)' <=> Current(f)
  BY WorkerLeaves DEF WorkerDies, pipe
<1>2. workers' = {}
  BY Alone DEF WorkerDies
<1>3. TypeOK' /\ OneProcess' /\ WorkInv' /\ AllIdle'
  BY <1>1, <1>2 DEF DspInv, TypeOK, OneProcess, WorkInv, AllIdle
<1>4. RequestInv'
  BY <1>1, <1>3 DEF DspInv, RequestInv, Current
<1>5. ReplyInv'
  BY <1>1, <1>3 DEF DspInv, ReplyInv, Current, Computed
<1> QED
  BY <1>1, <1>2, <1>3, <1>4, <1>5 DEF DspInv, SamplesStay, GetsOwn, NobodyLeft

LEMMA WorkerWorksKeeps ==
  ASSUME ClientsAssumption, CallsAssumption, DspInv, NEW w \in workers, WorkerWorks(w)
  PROVE  DspInv'
<1> DEFINE frame == Head(w.on)
           c == frame.client
           v == [w EXCEPT !.job = "done", !.samples = IF c \in Decoders THEN segment[c] ELSE 0]
<1>1. /\ w.job = "working" /\ Becomes(w, v)
      /\ segment' = IF c \in Encoders THEN [segment EXCEPT ![c] = frame.call] ELSE segment
      /\ UNCHANGED <<supervisor, callers, pipe>>
  BY DEF WorkerWorks
<1>2. /\ UNCHANGED <<state, generation, next_id, lock, pc, call, decoded, requests, replies>>
      /\ \A f : Current(f)' <=> Current(f)
  BY <1>1, WorkerLeaves DEF pipe
<1>3. /\ w.on = <<frame>> /\ frame \in Frames /\ Current(frame)
      /\ requests = << >> /\ replies = << >>
  BY <1>1, Alone DEF DspInv, WorkInv
<1>4. ASSUME c \in Clients PROVE c = lock /\ pc[c] = "sent" /\ frame.call = call[c]
  BY <1>3, <1>4, ClientsAssumption DEF Current
<1>5. c \in Decoders => segment[c] = call[c] /\ segment[c] \in Nat
  BY <1>4 DEF DspInv, SamplesStay, TypeOK, Clients
<1>6. /\ segment' \in [Clients -> Nat]
      /\ c \in Encoders => segment'[c] = call[c]
      /\ \A d \in Clients : c # d \/ d \notin Encoders => segment'[d] = segment[d]
  BY <1>1, <1>3, <1>4 DEF DspInv, TypeOK, Frames, Clients
<1>7. /\ v \in Processes /\ v.job = "done" /\ v.generation = generation /\ v.on = <<frame>>
      /\ v.samples = IF c \in Decoders THEN segment[c] ELSE 0
  <2>1. w \in Processes /\ w.generation = generation
    BY Alone
  <2> HIDE DEF c, frame
  <2> QED
    BY <1>3, <1>5, <2>1 DEF Processes, Jobs
<1>8. workers' = {v}
  BY <1>1, Alone
<1>9. TypeOK' /\ OneProcess'
  BY <1>2, <1>6, <1>7, <1>8 DEF DspInv, TypeOK, OneProcess
<1>10. RequestInv' /\ ReplyInv'
  BY <1>2, <1>3 DEF RequestInv, ReplyInv
<1>11. WorkInv'
  <2>1. PICK f : f = frame
    OBVIOUS
  <2>2. Current(f)'
    BY <1>2, <1>3, <2>1
  <2>3. PICK n : n = v.samples
    OBVIOUS
  <2>4. Computed(f, n)'
    BY <1>2, <1>5, <1>6, <1>7, <2>1, <2>3 DEF Computed, Clients
  <2>5. ASSUME NEW u \in workers' PROVE u.on = <<f>> /\ Head(u.on) = f /\ u.samples = n
    <3> HIDE DEF v, frame
    <3>1. u = v
      BY <1>8
    <3> QED
      BY <1>7, <2>1, <2>3, <3>1
  <2> QED
    BY <1>2, <1>3, <2>2, <2>4, <2>5 DEF WorkInv
<1>12. SamplesStay'
  BY <1>2, <1>6, ClientsAssumption DEF DspInv, SamplesStay, Clients
<1>13. GetsOwn'
  BY <1>2, <1>4, <1>6 DEF DspInv, GetsOwn
<1>14. NobodyLeft'
  <2>1. state # "stopped"
    BY DEF DspInv, NobodyLeft
  <2> QED
    BY <1>2, <2>1 DEF NobodyLeft
<1> QED
  BY <1>9, <1>10, <1>11, <1>12, <1>13, <1>14 DEF DspInv

LEMMA WorkerRepliesKeeps ==
  ASSUME DspInv, NEW w \in workers, WorkerReplies(w)
  PROVE  DspInv'
<1> DEFINE frame == Head(w.on)
<1>1. PICK kind \in {"ok", "error", "garbage"} :
        /\ CASE w.job = "done"    -> Head(w.on).client = Nobody => kind # "error"
             [] w.job = "working" -> Head(w.on).client # Nobody /\ kind = "error"
             [] w.job = "idle"    -> FALSE
        /\ replies' = Append(replies, [frame |-> Head(w.on), kind |-> kind, samples |-> w.samples])
  BY DEF WorkerReplies
<1>2. /\ UNCHANGED <<state, generation, next_id, lock, pc, call, decoded, segment, requests>>
      /\ \A f : Current(f)' <=> Current(f)
  BY WorkerLeaves DEF WorkerReplies
<1>3. w \in Processes /\ w.generation = generation /\ w.samples \in Nat /\ w.job \in Jobs
  BY Alone DEF Processes
<1>4. w.job \in {"working", "done"} /\ (kind = "ok" => w.job = "done")
  BY <1>1, <1>3 DEF Jobs
<1>5. /\ frame \in Frames /\ Current(frame) /\ requests = << >> /\ replies = << >>
      /\ kind = "ok" => Computed(frame, w.samples)
  BY <1>4, Alone DEF DspInv, WorkInv
<1>6. PICK r : r = [frame |-> frame, kind |-> kind, samples |-> w.samples]
  OBVIOUS
<1>7. /\ r \in Replies /\ r.frame = frame /\ r.kind = kind /\ r.samples = w.samples
  BY <1>3, <1>5, <1>6 DEF Replies
<1>8. replies' = <<r>> /\ replies' \in Seq(Replies)
  BY <1>1, <1>5, <1>6, <1>7
<1>9. workers' = {Process(generation)} /\ Process(generation) \in Processes
  BY <1>3, Alone DEF WorkerReplies, Process, Processes, Jobs, DspInv, TypeOK
<1>10. TypeOK' /\ OneProcess' /\ AllIdle'
  BY <1>2, <1>8, <1>9 DEF DspInv, TypeOK, OneProcess, AllIdle, Process
<1>11. RequestInv' /\ WorkInv'
  BY <1>2, <1>5, <1>10 DEF RequestInv, WorkInv, AllIdle
<1>12. ReplyInv'
  <2>1. PICK f : f = frame
    OBVIOUS
  <2>2. PICK n : n = w.samples
    OBVIOUS
  <2>3. Current(f)'
    BY <1>2, <1>5, <2>1
  <2>4. r.kind = "ok" => Computed(f, n)'
    BY <1>2, <1>5, <1>7, <2>1, <2>2 DEF Computed
  <2>5. Head(replies') = r /\ r.frame = f /\ r.samples = n
    BY <1>7, <1>8, <2>1, <2>2
  <2> QED
    BY <1>2, <1>5, <1>8, <1>10, <2>3, <2>4, <2>5 DEF ReplyInv
<1>13. SamplesStay' /\ GetsOwn'
  BY <1>2 DEF DspInv, SamplesStay, GetsOwn
<1>14. NobodyLeft'
  <2>1. state # "stopped"
    BY DEF DspInv, NobodyLeft
  <2> QED
    BY <1>2, <2>1 DEF NobodyLeft
<1> QED
  BY <1>10, <1>11, <1>12, <1>13, <1>14 DEF DspInv

-----------------------------------------------------------------------------
(***************************************************************************)
(* The invariant, and what it says of the specification.                   *)
(***************************************************************************)
\* DspInv is preserved by every step: of a caller, of the thread that holds
\* the lock, of the worker, and of stop().
THEOREM DspInvStep ==
  ASSUME ClientsAssumption, CallsAssumption, DspInv, [Next]_vars
  PROVE  DspInv'
<1>1. ASSUME NEW c \in Clients, Call(c) PROVE DspInv'
  BY <1>1, CallKeeps
<1>2. ASSUME NEW c \in Clients, Return(c) PROVE DspInv'
  BY <1>2, MoveKeeps DEF Return
<1>3. ASSUME NEW c \in Clients, Take(c) PROVE DspInv'
  <2>1. CASE TakeReady(c)
    BY <2>1, TakeReadyKeeps
  <2>2. CASE TakeDegraded(c)
    BY <2>2, SpawnKeeps DEF TakeDegraded
  <2>3. CASE TakeStopped(c)
    BY <2>3, MoveKeeps DEF TakeStopped
  <2> QED
    BY <1>3, <2>1, <2>2, <2>3 DEF Take
<1>4. ASSUME NEW c \in Clients, Request(c) PROVE DspInv'
  <2>1. CASE Replied(c)
    BY <2>1, RepliedKeeps
  <2>2. CASE Fault(c)
    <3>1. lock = c
      BY <2>2 DEF Fault, DspInv, TypeOK
    <3> QED
      BY <2>2, <3>1, SpawnKeeps DEF Fault
  <2>3. CASE PingAnswered(c)
    BY <2>3, PingAnsweredKeeps
  <2>4. CASE PingFails(c)
    BY <2>4, PingFailsKeeps
  <2> QED
    BY <1>4, <2>1, <2>2, <2>3, <2>4 DEF Request
<1>5. ASSUME NEW w \in workers, WorkerTakes(w) \/ WorkerWorks(w) \/ WorkerReplies(w) \/ WorkerDies(w)
      PROVE DspInv'
  BY <1>5, WorkerTakesKeeps, WorkerWorksKeeps, WorkerRepliesKeeps, WorkerDiesKeeps
<1>6. CASE Stop
  BY <1>6, StopKeeps
<1>7. CASE UNCHANGED vars
  BY <1>7 DEF vars, supervisor, callers, pipe, DspInv, TypeOK, OneProcess, RequestInv, WorkInv,
     ReplyInv, SamplesStay, NobodyLeft, GetsOwn, Current, Computed, AllIdle
<1> QED
  BY <1>1, <1>2, <1>3, <1>4, <1>5, <1>6, <1>7 DEF Next

\* DspInv holds in every state, for any number of callers and calls.
THEOREM DspInvariant == Spec => []DspInv
<1>1. Init => DspInv
  BY DspInvInit, ClientsAssumption, CallsAssumption
<1>2. DspInv /\ [Next]_vars => DspInv'
  BY DspInvStep, ClientsAssumption, CallsAssumption
<1> QED
  BY <1>1, <1>2, PTL DEF Spec

\* Every variable stays in its set, and the lock is held by the caller whose
\* request is under way.
THEOREM TypeCorrect == Spec => []TypeOK
<1>1. DspInv => TypeOK
  BY DEF DspInv
<1> QED
  BY <1>1, DspInvariant, PTL

\* At most one DSP process is alive, whatever fails; none after stop().
THEOREM OneWorkerAtATime == Spec => []OneWorker
<1>1. DspInv => OneWorker
  <2> SUFFICES ASSUME DspInv PROVE Cardinality(workers) <= 1
    BY DEF DspInv, NobodyLeft, OneWorker
  <2>1. CASE workers = {}
    BY <2>1, FS_EmptySet
  <2>2. CASE workers # {}
    <3>1. PICK w : w \in workers
      BY <2>2
    <3>2. workers = {w}
      BY <3>1 DEF DspInv, OneProcess
    <3> QED
      BY <3>2, FS_Singleton
  <2> QED
    BY <2>1, <2>2
<1> QED
  BY <1>1, DspInvariant, PTL

\* A caller that is served has the result of its own call: no late answer,
\* no work of a request that was given up, no frame of an earlier generation.
THEOREM ResultsAreOwn == Spec => []GetsOwn
<1>1. DspInv => GetsOwn
  BY DEF DspInv
<1> QED
  BY <1>1, DspInvariant, PTL

\* A supervisor that is ready and free has nothing in the pipe or in hand.
THEOREM ReadyMeansClean == Spec => []ReadyIsClean
<1>1. DspInv => ReadyIsClean
  BY FreeIsClean DEF ReadyIsClean, AllIdle
<1> QED
  BY <1>1, DspInvariant, PTL

\* No step takes a stopped supervisor out of "stopped" or starts a process.
THEOREM StoppedForGood == Spec => StaysStopped
<1>1. DspInv /\ [Next]_vars => [state = "stopped" => state' = "stopped" /\ workers' = {}]_vars
  <2> SUFFICES ASSUME DspInv, Next, state = "stopped" PROVE state' = "stopped" /\ workers' = {}
    OBVIOUS
  <2>1. lock = Nobody /\ workers = {}
    BY DEF DspInv, NobodyLeft
  <2>2. ASSUME NEW c \in Clients, Call(c) \/ Return(c) \/ TakeStopped(c)
        PROVE state' = "stopped" /\ workers' = {}
    BY <2>1, <2>2 DEF Call, Return, TakeStopped, supervisor
  <2>3. \A c \in Clients : ~(TakeReady(c) \/ TakeDegraded(c))
    BY DEF TakeReady, TakeDegraded
  <2>4. \A c \in Clients : pc[c] \notin {"sent", "pinging", "repinging"}
    BY <2>1, ClientsAssumption DEF DspInv, TypeOK
  <2>5. \A c \in Clients : ~Request(c)
    BY <2>4 DEF Request, Replied, Fault, PingAnswered, PingFails
  <2> QED
    BY <2>1, <2>2, <2>3, <2>5 DEF Next, Take, Stop
<1> QED
  BY <1>1, DspInvariant, PTL DEF Spec, StaysStopped

-----------------------------------------------------------------------------
Methods == {"none", "poll", "mode", "tune", "key", "unkey", "width", "level", "read"}
Cmds    == {"none", "f", ";f", "m", "F", "T1", "T0", "SH", "wr", "rd", "l", "L"}
Kinds   == {"ok", "err", "value", "dotted", "mode", "raw"}

\* A task inside the lock with a command written.
Within == {"reading", "healing", "draining"}
RigPlaces == {"idle", "queued", "second"} \cup Within

Recs     == [op : Methods, cmd : Cmds, at : RigPlaces, n : Nat, s : Nat, again : BOOLEAN]
Lines    == [k : Kinds, n : Nat, p : BOOLEAN]
Commands == [cmd : Cmds, n : Nat, s : Nat]

-----------------------------------------------------------------------------
(***************************************************************************)
(* Sequences.                                                              *)
(***************************************************************************)
LEMMA TailIs ==
  ASSUME NEW S, NEW q \in Seq(S), q # << >>
  PROVE  /\ Tail(q) \in Seq(S) /\ Len(q) \in Nat \ {0} /\ Len(Tail(q)) = Len(q) - 1
         /\ Head(q) = q[1] /\ q[1] \in S
         /\ \A i \in 1 .. Len(q) - 1 : Tail(q)[i] = q[i + 1]
         /\ Len(q) = 1 => Tail(q) = << >>
<1>1. /\ Tail(q) \in Seq(S) /\ Len(q) \in Nat \ {0} /\ Len(Tail(q)) = Len(q) - 1
      /\ Head(q) = q[1] /\ q[1] \in S /\ \A i \in 1 .. Len(q) - 1 : Tail(q)[i] = q[i + 1]
  OBVIOUS
<1>2. Len(Tail(q)) = 0 => Tail(q) = << >>
  BY <1>1, EmptySeq
<1> QED
  BY <1>1, <1>2

LEMMA AppendIs ==
  ASSUME NEW S, NEW q \in Seq(S), NEW e \in S
  PROVE  /\ Append(q, e) \in Seq(S) /\ Len(q) \in Nat /\ Len(Append(q, e)) = Len(q) + 1
         /\ \A i \in 1 .. Len(q) : Append(q, e)[i] = q[i]
         /\ Append(q, e)[Len(q) + 1] = e
OBVIOUS

-----------------------------------------------------------------------------
(***************************************************************************)
(* Types, and which command belongs to which method.                       *)
(***************************************************************************)
RigOK ==
  /\ task \in [Tasks -> Recs] /\ queue \in Seq(Tasks)
  /\ session \in [up : BOOLEAN, no : Nat]
  /\ wire \in Seq(Lines) /\ todo \in Seq(Commands) /\ written \in Nat
  /\ poisoned \in BOOLEAN

Suits(r) ==
  /\ r.cmd = "T1" <=> r.op = "key"
  /\ r.cmd = "T0" <=> r.op = "unkey"
  /\ r.cmd = "F" <=> r.op = "tune"

OpOK(r) ==
  /\ Suits(r)
  /\ r.at = "idle" => r = Idle
  /\ r.at = "second" => r.cmd = "m"
  /\ r.at = "healing" => r.cmd \in Sets
  /\ r.at = "draining" => r.cmd = "l"

OpInv == \A t \in Tasks : OpOK(task[t])

LineTypeOK == RigOK /\ OpInv

\* t alone moves.
Moves(t) ==
  /\ task' \in [Tasks -> Recs] /\ OpOK(task'[t])
  /\ \A u \in Tasks \ {t} : task'[u] = task[u]

\* Where a step of t leaves it in the queue of the lock.
Stays(t)    == Holds(t) /\ queue' = queue /\ task'[t].at \in {"queued"} \cup Within
Leaves(t)   == Holds(t) /\ queue' = Tail(queue) /\ task'[t].at \in {"idle", "second"}
Requeues(t) == Holds(t) /\ queue' = Append(Tail(queue), t) /\ task'[t].at = "queued"
               /\ task[t].op \notin {"key", "unkey", "tune"}
Departs(t)  == task[t].at = "second" /\ queue' = queue /\ task'[t] = Idle

Queues(t) == Stays(t) \/ Leaves(t) \/ Requeues(t) \/ Departs(t)

SameOp(t) == task'[t] = Idle \/ task'[t].op = task[t].op

LEMMA CmdSuits ==
  ASSUME NEW op \in Ops
  PROVE  [Idle EXCEPT !.op = op, !.cmd = CmdOf[op], !.at = "queued"] \in Recs
         /\ OpOK([Idle EXCEPT !.op = op, !.cmd = CmdOf[op], !.at = "queued"])
<1>1. op \in {"poll", "mode", "tune", "key", "unkey", "width", "level", "read"}
  BY RigAssumption DEF CmdOf
<1>2. /\ CmdOf[op] \in Cmds /\ (CmdOf[op] = "T1" <=> op = "key")
      /\ (CmdOf[op] = "T0" <=> op = "unkey") /\ (CmdOf[op] = "F" <=> op = "tune")
  <2>1. /\ CmdOf["poll"] = "f" /\ CmdOf["mode"] = "m" /\ CmdOf["tune"] = "F" /\ CmdOf["key"] = "T1"
        /\ CmdOf["unkey"] = "T0" /\ CmdOf["width"] = "SH" /\ CmdOf["level"] = "wr" /\ CmdOf["read"] = "rd"
    BY DEF CmdOf
  <2> QED
    BY <1>1, <2>1 DEF Cmds
<1>3. Idle \in Recs /\ op \in Methods /\ "queued" \in RigPlaces
  BY <1>1 DEF Idle, Recs, Methods, Cmds, RigPlaces
<1> DEFINE r1 == [Idle EXCEPT !.op = op]
           r2 == [r1 EXCEPT !.cmd = CmdOf[op]]
           r3 == [r2 EXCEPT !.at = "queued"]
<1>4. r1 \in Recs /\ r1.op = op
  BY <1>3 DEF Recs
<1> HIDE DEF r1
<1>5. r2 \in Recs /\ r2.op = op /\ r2.cmd = CmdOf[op]
  BY <1>2, <1>4 DEF Recs
<1> HIDE DEF r2
<1>6. r3 \in Recs /\ r3.op = op /\ r3.cmd = CmdOf[op] /\ r3.at = "queued"
  BY <1>3, <1>5 DEF Recs
<1> HIDE DEF r3
<1>7. OpOK(r3)
  BY <1>2, <1>6 DEF OpOK, Suits
<1> QED
  BY <1>6, <1>7 DEF r1, r2, r3

LEMMA IdleOK == Idle \in Recs /\ OpOK(Idle) /\ Idle.at = "idle" /\ Idle.op = "none"
<1>1. Idle.op = "none" /\ Idle.cmd = "none" /\ Idle.at = "idle"
  BY DEF Idle
<1>2. Idle \in Recs
  BY DEF Idle, Recs, Methods, Cmds, RigPlaces
<1>3. OpOK(Idle)
  BY <1>1 DEF OpOK, Suits
<1> QED
  BY <1>1, <1>2, <1>3

LEMMA EndMoves ==
  ASSUME LineTypeOK, NEW t \in Tasks, Raises(t) \/ Collides(t) \/ \E own : Returns(t, own)
  PROVE  Moves(t) /\ task'[t] = Idle
<1>1. task' = [task EXCEPT ![t] = Idle]
  BY DEF Raises, Collides, Returns
<1> QED
  BY <1>1, IdleOK DEF Moves, LineTypeOK, RigOK

LEMMA FailMoves ==
  ASSUME LineTypeOK, NEW t \in Tasks, Fails(t), Holds(t), task[t].at # "idle"
  PROVE  Moves(t) /\ SameOp(t) /\ (Leaves(t) \/ Requeues(t))
<1>1. CASE task[t].cmd \in DOMAIN Fallback
  <2>1. task' = [task EXCEPT ![t].cmd = Fallback[task[t].cmd], ![t].at = "queued"]
        /\ queue' = Append(Tail(queue), t)
    BY <1>1 DEF Fails
  <2>0. DOMAIN Fallback = {"wr", "rd"} /\ Fallback["wr"] = "l" /\ Fallback["rd"] = "L"
    BY DEF Fallback
  <2>2. task[t].cmd \in {"wr", "rd"} /\ Fallback[task[t].cmd] \in {"l", "L"}
    BY <1>1, <2>0
  <2>3. task[t] \in Recs /\ OpOK(task[t])
    BY DEF LineTypeOK, RigOK, OpInv
  <2> DEFINE c == Fallback[task[t].cmd]
  <2>8. task \in [Tasks -> Recs] /\ c \in Cmds /\ "queued" \in RigPlaces
    BY <2>2 DEF LineTypeOK, RigOK, Cmds, RigPlaces
  <2>9. task' = [task EXCEPT ![t].cmd = c, ![t].at = "queued"]
    BY <2>1
  <2> HIDE DEF c
  <2>4. task' \in [Tasks -> Recs]
    BY <2>8, <2>9 DEF Recs
  <2>5. task'[t].op = task[t].op /\ task'[t].cmd \in {"l", "L"} /\ task'[t].at = "queued"
        /\ \A u \in Tasks \ {t} : task'[u] = task[u]
    BY <2>1, <2>2 DEF LineTypeOK, RigOK, Recs
  <2>6. task[t].op \notin {"key", "unkey", "tune"}
    BY <2>2, <2>3 DEF OpOK, Suits
  <2>7. OpOK(task'[t])
    BY <2>5, <2>6 DEF OpOK, Suits
  <2> QED
    BY <2>1, <2>4, <2>5, <2>6, <2>7 DEF Moves, SameOp, Requeues
<1>2. CASE task[t].cmd \notin DOMAIN Fallback
  <2>1. Raises(t) /\ queue' = Tail(queue)
    BY <1>2 DEF Fails, Releases
  <2> QED
    BY <2>1, EndMoves DEF SameOp, Leaves, Idle
<1> QED
  BY <1>1, <1>2

\* What the begin of a command, or of the command again, makes of a task.
LEMMA ReadingMoves ==
  ASSUME LineTypeOK, NEW t \in Tasks, NEW c \in Cmds, NEW no \in Nat, Reading(t, c, no)
  PROVE  /\ task' \in [Tasks -> Recs] /\ \A u \in Tasks \ {t} : task'[u] = task[u]
         /\ task'[t].op = task[t].op /\ task'[t].cmd = c /\ task'[t].at = "reading"
         /\ task'[t].n = written + 1 /\ task'[t].s = no /\ task'[t].again = task[t].again
<1>1. /\ task \in [Tasks -> Recs] /\ written + 1 \in Nat /\ "reading" \in RigPlaces
      /\ task' = [task EXCEPT ![t].cmd = c, ![t].at = "reading", ![t].n = written + 1, ![t].s = no]
  BY DEF LineTypeOK, RigOK, Reading, RigPlaces, Within
<1> QED
  BY <1>1 DEF Recs

Orderly(t) == Moves(t) /\ Queues(t) /\ SameOp(t)

\* A method that is over lets the lock go.
LEMMA OverOrderly ==
  ASSUME LineTypeOK, NEW t \in Tasks, Holds(t), Releases,
         Raises(t) \/ Collides(t) \/ \E own : Returns(t, own)
  PROVE  Orderly(t)
<1>1. Moves(t) /\ task'[t] = Idle
  BY EndMoves
<1> QED
  BY <1>1, IdleOK DEF Orderly, Queues, Leaves, SameOp, Releases

\* One that has not changed its place keeps it.
LEMMA SameOrderly ==
  ASSUME LineTypeOK, NEW t \in Tasks, Holds(t), UNCHANGED <<task, queue>>, task[t].at \in Within
  PROVE  Orderly(t)
BY DEF Orderly, Moves, Queues, Stays, SameOp, LineTypeOK, RigOK, OpInv

\* One that is edited within the lock.
LEMMA EditOrderly ==
  ASSUME LineTypeOK, NEW t \in Tasks, Holds(t), queue' = queue,
         task' \in [Tasks -> Recs], \A u \in Tasks \ {t} : task'[u] = task[u],
         task'[t].op = task[t].op, task'[t].cmd = task[t].cmd, task'[t].at \in Within,
         task'[t].at = "healing" => task[t].cmd \in Sets,
         task'[t].at = "draining" => task[t].cmd = "l"
  PROVE  Orderly(t)
<1>1. OpOK(task[t])
  BY DEF LineTypeOK, OpInv
<1>2. OpOK(task'[t])
  BY <1>1 DEF OpOK, Suits, Within
<1> QED
  BY <1>2 DEF Orderly, Moves, Queues, Stays, SameOp

LEMMA FailOrderly ==
  ASSUME LineTypeOK, NEW t \in Tasks, Fails(t), Holds(t), task[t].at # "idle"
  PROVE  Orderly(t)
BY FailMoves DEF Orderly, Queues

LEMMA StepOrderly ==
  ASSUME LineTypeOK, NEW t \in Tasks, Step(t)
  PROVE  Orderly(t)
<1>0. task \in [Tasks -> Recs] /\ task[t] \in Recs /\ OpOK(task[t]) /\ written + 1 \in Nat
      /\ session.no \in Nat
  BY DEF LineTypeOK, RigOK, OpInv
<1>1. CASE Begins(t)
  <2> DEFINE no == IF session.up THEN session.no ELSE session.no + 1
  <2>1. CASE Reading(t, task[t].cmd, no) /\ UNCHANGED queue
    <3>1. no \in Nat /\ task[t].cmd \in Cmds
      BY <1>0 DEF Recs
    <3> HIDE DEF no
    <3>2. /\ task' \in [Tasks -> Recs] /\ \A u \in Tasks \ {t} : task'[u] = task[u]
          /\ task'[t].op = task[t].op /\ task'[t].cmd = task[t].cmd /\ task'[t].at = "reading"
      BY <2>1, <3>1, ReadingMoves
    <3>3. Holds(t) /\ queue' = queue
      BY <1>1, <2>1 DEF Begins
    <3> QED
      BY <3>2, <3>3, EditOrderly DEF Within
  <2>2. CASE Collides(t) /\ Releases
    BY <1>1, <2>2, OverOrderly DEF Begins
  <2> QED
    BY <1>1, <2>1, <2>2 DEF Begins
<1>2. CASE BeginFails(t)
  BY <1>2, FailOrderly DEF BeginFails
<1>3. CASE ReadFails(t)
  BY <1>3, FailOrderly DEF ReadFails
<1>4. CASE HealFails(t)
  BY <1>4, OverOrderly DEF HealFails
<1>5. CASE DrainEnds(t)
  BY <1>5, OverOrderly DEF DrainEnds
<1>6. CASE SecondFails(t)
  <2>1. Moves(t) /\ task'[t] = Idle
    BY <1>6, EndMoves DEF SecondFails
  <2> QED
    BY <1>6, <2>1 DEF SecondFails, Orderly, Queues, Departs, SameOp
<1>7. CASE Skips(t)
  BY <1>7, SameOrderly DEF Skips, Reads, Within
<1>8. CASE ReadsFrequency(t)
  <2>1. Holds(t) /\ task[t].at = "reading" /\ task[t].cmd = "f"
    BY <1>8 DEF ReadsFrequency, Reads
  <2>2. CASE /\ task' = [task EXCEPT ![t].cmd = ";f", ![t].at = "queued", ![t].again = TRUE]
             /\ queue' = Append(Tail(queue), t)
    <3>1. ";f" \in Cmds /\ "queued" \in RigPlaces /\ TRUE \in BOOLEAN
      BY DEF Cmds, RigPlaces
    <3>2. /\ task' \in [Tasks -> Recs] /\ \A u \in Tasks \ {t} : task'[u] = task[u]
          /\ task'[t].op = task[t].op /\ task'[t].cmd = ";f" /\ task'[t].at = "queued"
      BY <1>0, <2>2, <3>1 DEF Recs
    <3>3. OpOK(task'[t]) /\ task[t].op \notin {"key", "unkey", "tune"}
      BY <1>0, <2>1, <3>2 DEF OpOK, Suits
    <3> QED
      BY <2>1, <2>2, <3>2, <3>3 DEF Orderly, Moves, Queues, Requeues, SameOp
  <2>3. CASE (Returns(t, Own(t)) \/ Raises(t)) /\ Releases
    BY <2>1, <2>3, OverOrderly
  <2> QED
    BY <1>8, <2>2, <2>3 DEF ReadsFrequency
<1>9. CASE ReadsMode(t)
  <2>1. Holds(t) /\ task[t].at = "reading" /\ task[t].cmd = "m" /\ Releases
    BY <1>9 DEF ReadsMode, Reads
  <2>2. CASE task' = [task EXCEPT ![t].at = "second", ![t].again = Own(t)]
    <3>1. "second" \in RigPlaces /\ Own(t) \in BOOLEAN
      BY DEF RigPlaces, Own
    <3>2. /\ task' \in [Tasks -> Recs] /\ \A u \in Tasks \ {t} : task'[u] = task[u]
          /\ task'[t].op = task[t].op /\ task'[t].cmd = "m" /\ task'[t].at = "second"
      BY <1>0, <2>1, <2>2, <3>1 DEF Recs
    <3>3. OpOK(task'[t])
      BY <1>0, <2>1, <3>2 DEF OpOK, Suits
    <3> QED
      BY <2>1, <3>2, <3>3 DEF Orderly, Moves, Queues, Leaves, SameOp, Releases
  <2>3. CASE Returns(t, Own(t)) \/ Raises(t) \/ Collides(t)
    BY <2>1, <2>3, OverOrderly
  <2> QED
    BY <1>9, <2>2, <2>3 DEF ReadsMode
<1>10. CASE ReadsSecond(t)
  <2>1. Returns(t, Own(t) /\ task[t].again) \/ Raises(t)
    BY <1>10 DEF ReadsSecond
  <2>2. Moves(t) /\ task'[t] = Idle
    BY <2>1, EndMoves
  <2> QED
    BY <1>10, <2>2 DEF ReadsSecond, Orderly, Queues, Departs, SameOp
<1>11. CASE ReadsSet(t)
  <2>1. Holds(t) /\ task[t].at = "reading" /\ task[t].cmd \in Sets
    BY <1>11 DEF ReadsSet, Reads
  <2>2. CASE /\ task' = [task EXCEPT ![t].at = "healing", ![t].n = written + 1, ![t].again = TRUE]
             /\ UNCHANGED queue
    <3>1. "healing" \in RigPlaces /\ TRUE \in BOOLEAN
      BY DEF RigPlaces, Within
    <3>2. /\ task' \in [Tasks -> Recs] /\ \A u \in Tasks \ {t} : task'[u] = task[u]
          /\ task'[t].op = task[t].op /\ task'[t].cmd = task[t].cmd /\ task'[t].at = "healing"
      BY <1>0, <2>2, <3>1 DEF Recs
    <3> QED
      BY <2>1, <2>2, <3>2, EditOrderly DEF Within
  <2>3. CASE (Returns(t, Own(t)) \/ Raises(t)) /\ Releases
    BY <2>1, <2>3, OverOrderly
  <2> QED
    BY <1>11, <2>2, <2>3 DEF ReadsSet
<1>12. CASE Heals(t)
  <2>1. Holds(t) /\ task[t].at \in Within
    BY <1>12 DEF Heals, Within
  <2>2. CASE UNCHANGED <<task, queue>>
    BY <2>1, <2>2, SameOrderly
  <2>3. CASE Raises(t) /\ Releases
    BY <2>1, <2>3, OverOrderly
  <2>4. CASE Reading(t, task[t].cmd, task[t].s) /\ UNCHANGED queue
    <3>1. task[t].s \in Nat /\ task[t].cmd \in Cmds
      BY <1>0 DEF Recs
    <3>2. /\ task' \in [Tasks -> Recs] /\ \A u \in Tasks \ {t} : task'[u] = task[u]
          /\ task'[t].op = task[t].op /\ task'[t].cmd = task[t].cmd /\ task'[t].at = "reading"
      BY <2>4, <3>1, ReadingMoves
    <3> QED
      BY <2>1, <2>4, <3>2, EditOrderly DEF Within
  <2>5. CASE /\ task' = [task EXCEPT ![t].cmd = "f", ![t].at = "queued"]
             /\ queue' = Append(Tail(queue), t) /\ task[t].cmd = ";f"
    <3>1. "f" \in Cmds /\ "queued" \in RigPlaces
      BY DEF Cmds, RigPlaces
    <3>2. /\ task' \in [Tasks -> Recs] /\ \A u \in Tasks \ {t} : task'[u] = task[u]
          /\ task'[t].op = task[t].op /\ task'[t].cmd = "f" /\ task'[t].at = "queued"
      BY <1>0, <2>5, <3>1 DEF Recs
    <3>3. OpOK(task'[t]) /\ task[t].op \notin {"key", "unkey", "tune"}
      BY <1>0, <2>5, <3>2 DEF OpOK, Suits
    <3> QED
      BY <2>1, <2>5, <3>2, <3>3 DEF Orderly, Moves, Queues, Requeues, SameOp
  <2> QED
    <3>1. Kind \notin {"err"} /\ Kind \in Rprt => Kind = "ok"
      BY DEF Rprt
    <3> QED
      BY <1>12, <2>2, <2>3, <2>4, <2>5, <3>1 DEF Heals
<1>13. CASE ReadsRaw(t)
  <2>1. Holds(t) /\ task[t].at # "idle"
    BY <1>13 DEF ReadsRaw
  <2>2. Fails(t) \/ (Returns(t, Own(t)) /\ Releases)
    BY <1>13 DEF ReadsRaw
  <2> QED
    BY <2>1, <2>2, FailOrderly, OverOrderly
<1>14. CASE ReadsLevel(t)
  <2>1. Holds(t)
    BY <1>14 DEF ReadsLevel, Reads
  <2>2. CASE /\ task' = [task EXCEPT ![t].at = "draining", ![t].again = Own(t)]
             /\ UNCHANGED queue /\ task[t].cmd = "l"
    <3>1. "draining" \in RigPlaces /\ Own(t) \in BOOLEAN
      BY DEF RigPlaces, Within, Own
    <3>2. /\ task' \in [Tasks -> Recs] /\ \A u \in Tasks \ {t} : task'[u] = task[u]
          /\ task'[t].op = task[t].op /\ task'[t].cmd = task[t].cmd /\ task'[t].at = "draining"
      BY <1>0, <2>2, <3>1 DEF Recs
    <3> QED
      BY <2>1, <2>2, <3>2, EditOrderly DEF Within
  <2>3. CASE (Returns(t, Own(t)) \/ Raises(t)) /\ Releases
    BY <2>1, <2>3, OverOrderly
  <2> QED
    BY <1>14, <2>2, <2>3 DEF ReadsLevel
<1>15. CASE Drains(t)
  <2>1. Holds(t) /\ task[t].at \in Within
    BY <1>15 DEF Drains, Within
  <2>2. \/ UNCHANGED <<task, queue>>
        \/ (Returns(t, task[t].again) \/ Raises(t)) /\ Releases
    BY <1>15 DEF Drains
  <2> QED
    BY <2>1, <2>2, SameOrderly, OverOrderly
<1> QED
  BY <1>1, <1>2, <1>3, <1>4, <1>5, <1>6, <1>7, <1>8, <1>9, <1>10, <1>11, <1>12, <1>13, <1>14, <1>15 DEF Step

-----------------------------------------------------------------------------
(***************************************************************************)
(* The lock's queue: each task that is at the lock is in it once, and only *)
(* its head is inside.                                                     *)
(***************************************************************************)
QueueInv ==
  /\ \A i, j \in 1 .. Len(queue) : queue[i] = queue[j] => i = j
  /\ \A i \in 1 .. Len(queue) : task[queue[i]].at \in {"queued"} \cup Within
  /\ \A i \in 2 .. Len(queue) : task[queue[i]].at = "queued"
  /\ \A t \in Tasks : task[t].at \in {"queued"} \cup Within => \E i \in 1 .. Len(queue) : queue[i] = t

LEMMA HolderIs ==
  ASSUME LineTypeOK, QueueInv, NEW t \in Tasks, Holds(t)
  PROVE  /\ queue # << >> /\ queue[1] = t /\ Len(queue) \in Nat \ {0}
         /\ task[t].at \in {"queued"} \cup Within
         /\ \A u \in Tasks \ {t} : task[u].at \notin Within
<1>1. queue \in Seq(Tasks) /\ queue # << >> /\ Head(queue) = t
  BY DEF LineTypeOK, RigOK, Holds
<1>2. Len(queue) \in Nat \ {0} /\ queue[1] = t
  BY <1>1, TailIs
<1>3. task[t].at \in {"queued"} \cup Within
  <2>1. 1 \in 1 .. Len(queue)
    BY <1>2
  <2> QED
    BY <1>2, <2>1 DEF QueueInv
<1>4. ASSUME NEW u \in Tasks \ {t}, task[u].at \in Within PROVE FALSE
  <2>1. PICK i \in 1 .. Len(queue) : queue[i] = u
    BY <1>4 DEF QueueInv
  <2>2. i \in 2 .. Len(queue)
    BY <1>2, <2>1
  <2>3. task[u].at = "queued"
    BY <2>1, <2>2 DEF QueueInv
  <2> QED
    BY <1>4, <2>3 DEF Within
<1> QED
  BY <1>1, <1>2, <1>3, <1>4

LEMMA HolderIsWithin ==
  ASSUME LineTypeOK, QueueInv, NEW t \in Tasks, task[t].at \in Within
  PROVE  Holds(t)
<1>1. PICK i \in 1 .. Len(queue) : queue[i] = t
  BY DEF QueueInv
<1>2. i \notin 2 .. Len(queue)
  BY <1>1 DEF QueueInv, Within
<1>3. queue \in Seq(Tasks) /\ i = 1 /\ queue # << >>
  BY <1>1, <1>2 DEF LineTypeOK, RigOK
<1> QED
  BY <1>1, <1>3, TailIs DEF Holds

\* What is left when the holder goes: the others, in their order.
LEMMA HeadGoes ==
  ASSUME LineTypeOK, QueueInv, NEW t \in Tasks, Holds(t)
  PROVE  /\ Tail(queue) \in Seq(Tasks) /\ Len(Tail(queue)) = Len(queue) - 1 /\ Len(queue) \in Nat \ {0}
         /\ \A i \in 1 .. Len(queue) - 1 : Tail(queue)[i] = queue[i + 1]
         /\ \A i \in 1 .. Len(queue) - 1 : Tail(queue)[i] \in Tasks \ {t} /\ task[Tail(queue)[i]].at = "queued"
         /\ \A i, j \in 1 .. Len(queue) - 1 : Tail(queue)[i] = Tail(queue)[j] => i = j
         /\ \A u \in Tasks \ {t} : task[u].at \in {"queued"} \cup Within =>
              \E i \in 1 .. Len(queue) - 1 : Tail(queue)[i] = u
<1>1. queue \in Seq(Tasks) /\ queue # << >> /\ queue[1] = t /\ Len(queue) \in Nat \ {0}
  BY HolderIs DEF LineTypeOK, RigOK
<1>2. /\ Tail(queue) \in Seq(Tasks) /\ Len(Tail(queue)) = Len(queue) - 1
      /\ \A i \in 1 .. Len(queue) - 1 : Tail(queue)[i] = queue[i + 1]
  BY <1>1, TailIs
<1>3. ASSUME NEW i \in 1 .. Len(queue) - 1
      PROVE  Tail(queue)[i] \in Tasks \ {t} /\ task[Tail(queue)[i]].at = "queued"
  <2>1. i + 1 \in 2 .. Len(queue) /\ i + 1 \in 1 .. Len(queue) /\ 1 \in 1 .. Len(queue) /\ i + 1 # 1
    BY <1>1
  <2>2. queue[i + 1] \in Tasks /\ queue[i + 1] # queue[1]
    BY <1>1, <2>1 DEF QueueInv
  <2> QED
    BY <1>1, <1>2, <2>1, <2>2 DEF QueueInv
<1>4. ASSUME NEW i \in 1 .. Len(queue) - 1, NEW j \in 1 .. Len(queue) - 1, Tail(queue)[i] = Tail(queue)[j]
      PROVE  i = j
  <2>1. i + 1 \in 1 .. Len(queue) /\ j + 1 \in 1 .. Len(queue) /\ queue[i + 1] = queue[j + 1]
    BY <1>1, <1>2, <1>4
  <2> QED
    BY <2>1 DEF QueueInv
<1>5. ASSUME NEW u \in Tasks \ {t}, task[u].at \in {"queued"} \cup Within
      PROVE  \E i \in 1 .. Len(queue) - 1 : Tail(queue)[i] = u
  <2>1. PICK i \in 1 .. Len(queue) : queue[i] = u
    BY <1>5 DEF QueueInv
  <2>2. i - 1 \in 1 .. Len(queue) - 1 /\ i - 1 + 1 = i
    BY <1>1, <2>1
  <2> QED
    BY <1>2, <2>1, <2>2
<1> QED
  BY <1>1, <1>2, <1>3, <1>4, <1>5

LEMMA QueuesKeepQueue ==
  ASSUME LineTypeOK, QueueInv, NEW t \in Tasks, Orderly(t)
  PROVE  queue' \in Seq(Tasks) /\ QueueInv'
<1>1. /\ task \in [Tasks -> Recs] /\ queue \in Seq(Tasks) /\ task' \in [Tasks -> Recs]
      /\ \A u \in Tasks \ {t} : task'[u] = task[u]
      /\ \A i \in 1 .. Len(queue) : queue[i] \in Tasks
  BY DEF Orderly, Moves, LineTypeOK, RigOK
<1>2. CASE Stays(t)
  <2>1. queue' = queue /\ Holds(t) /\ task'[t].at \in {"queued"} \cup Within
    BY <1>2 DEF Stays
  <2>2. queue[1] = t /\ Len(queue) \in Nat \ {0} /\ task[t].at \in {"queued"} \cup Within
    BY <2>1, HolderIs
  <2>3. \A i \in 2 .. Len(queue) : queue[i] # t /\ i \in 1 .. Len(queue)
    BY <2>2 DEF QueueInv
  <2>4. \A i \in 1 .. Len(queue) : task'[queue[i]].at \in {"queued"} \cup Within
    BY <1>1, <2>1 DEF QueueInv
  <2>5. \A i \in 2 .. Len(queue) : task'[queue[i]].at = "queued"
    BY <1>1, <2>3 DEF QueueInv
  <2>6. \A u \in Tasks : task'[u].at \in {"queued"} \cup Within => \E i \in 1 .. Len(queue) : queue[i] = u
    BY <1>1, <2>2 DEF QueueInv
  <2>7. \A i, j \in 1 .. Len(queue) : queue[i] = queue[j] => i = j
    BY DEF QueueInv
  <2> QED
    BY <1>1, <2>1, <2>4, <2>5, <2>6, <2>7 DEF QueueInv
<1>3. CASE Departs(t)
  <2>1. queue' = queue /\ task[t].at = "second" /\ task'[t].at = "idle"
    BY <1>3, IdleOK DEF Departs
  <2>2. \A i \in 1 .. Len(queue) : queue[i] # t
    BY <2>1 DEF QueueInv, Within
  <2>3. \A i \in 1 .. Len(queue) : task'[queue[i]] = task[queue[i]]
    BY <1>1, <2>2
  <2>4. \A i \in 2 .. Len(queue) : i \in 1 .. Len(queue)
    BY <1>1
  <2>5. \A u \in Tasks : task'[u].at \in {"queued"} \cup Within => task[u].at \in {"queued"} \cup Within
    BY <1>1, <2>1 DEF Within
  <2>6. \A u \in Tasks : task'[u].at \in {"queued"} \cup Within => \E i \in 1 .. Len(queue) : queue[i] = u
    BY <2>5 DEF QueueInv
  <2>7. /\ \A i, j \in 1 .. Len(queue) : queue[i] = queue[j] => i = j
        /\ \A i \in 1 .. Len(queue) : task'[queue[i]].at \in {"queued"} \cup Within
        /\ \A i \in 2 .. Len(queue) : task'[queue[i]].at = "queued"
    BY <2>3, <2>4 DEF QueueInv
  <2> QED
    BY <1>1, <2>1, <2>6, <2>7 DEF QueueInv
<1>4. CASE Leaves(t) \/ Requeues(t)
  <2> DEFINE rest == Tail(queue)
             m == Len(queue) - 1
  <2>0. Holds(t)
    BY <1>4 DEF Leaves, Requeues
  <2>1. /\ rest \in Seq(Tasks) /\ Len(rest) = m /\ m \in Nat
        /\ \A i \in 1 .. m : rest[i] \in Tasks \ {t} /\ task[rest[i]].at = "queued"
        /\ \A i, j \in 1 .. m : rest[i] = rest[j] => i = j
        /\ \A u \in Tasks \ {t} : task[u].at \in {"queued"} \cup Within =>
              \E i \in 1 .. m : rest[i] = u
    BY <2>0, HeadGoes
  <2>2. \A i \in 1 .. m : task'[rest[i]].at = "queued"
    BY <1>1, <2>1
  <2> HIDE DEF rest, m
  <2>3. CASE Leaves(t)
    <3>1. queue' = rest /\ task'[t].at \in {"idle", "second"}
      BY <2>3 DEF Leaves, rest
    <3>2. \A u \in Tasks : task'[u].at \in {"queued"} \cup Within => \E i \in 1 .. m : rest[i] = u
      BY <1>1, <2>1, <3>1 DEF Within
    <3>3. \A i \in 2 .. m : i \in 1 .. m
      BY <2>1
    <3> QED
      BY <2>1, <2>2, <3>1, <3>2, <3>3 DEF QueueInv
  <2>4. CASE Requeues(t)
    <3> DEFINE q == Append(rest, t)
    <3>1. queue' = q /\ task'[t].at = "queued"
      BY <2>4 DEF Requeues, rest
    <3>2. /\ q \in Seq(Tasks) /\ Len(q) = m + 1 /\ \A i \in 1 .. m : q[i] = rest[i]
          /\ q[m + 1] = t
      BY <2>1, AppendIs
    <3> HIDE DEF q
    <3>3. \A i \in 1 .. m + 1 : i \in 1 .. m \/ i = m + 1
      BY <2>1
    <3>4. \A i \in 1 .. m + 1 : task'[q[i]].at = "queued"
      BY <2>2, <3>1, <3>2, <3>3
    <3>5. ASSUME NEW i \in 1 .. m + 1, NEW j \in 1 .. m + 1, q[i] = q[j] PROVE i = j
      BY <2>1, <3>2, <3>3, <3>5
    <3>6. ASSUME NEW u \in Tasks PROVE task'[u].at \in {"queued"} \cup Within => \E i \in 1 .. m + 1 : q[i] = u
      <4>1. CASE u = t
        BY <2>1, <3>2, <4>1
      <4>2. CASE u # t /\ task'[u].at \in {"queued"} \cup Within
        <5>1. PICK i \in 1 .. m : rest[i] = u
          BY <1>1, <2>1, <4>2
        <5>2. i \in 1 .. m + 1 /\ q[i] = u
          BY <2>1, <3>2, <5>1
        <5> QED
          BY <5>2
      <4> QED
        BY <4>1, <4>2
    <3>7. \A i \in 2 .. m + 1 : i \in 1 .. m + 1
      BY <2>1
    <3> QED
      BY <3>1, <3>2, <3>4, <3>5, <3>6, <3>7 DEF QueueInv
  <2> QED
    BY <1>4, <2>3, <2>4
<1> QED
  BY <1>2, <1>3, <1>4 DEF Orderly, Queues

LEMMA CallsQueue ==
  ASSUME LineTypeOK, QueueInv, NEW t \in Tasks, NEW op \in Ops, Calls(t, op)
  PROVE  /\ queue' = Append(queue, t) /\ queue' \in Seq(Tasks) /\ QueueInv'
         /\ Moves(t) /\ task'[t].at = "queued" /\ task'[t].op = op /\ task'[t].s = 0 /\ task[t] = Idle
<1> DEFINE r == [Idle EXCEPT !.op = op, !.cmd = CmdOf[op], !.at = "queued"]
           m == Len(queue)
           q == Append(queue, t)
<1>1. r \in Recs /\ OpOK(r)
  BY CmdSuits
<1>2. r.op = op /\ r.at = "queued" /\ r.s = 0
  BY DEF Idle
<1>3. task' = [task EXCEPT ![t] = r] /\ queue' = q /\ task[t].at = "idle"
  BY DEF Calls
<1> HIDE DEF r
<1>4. /\ task \in [Tasks -> Recs] /\ queue \in Seq(Tasks) /\ task[t] = Idle
  BY <1>3 DEF LineTypeOK, RigOK, OpInv, OpOK
<1>5. /\ task' \in [Tasks -> Recs] /\ task'[t] = r /\ \A u \in Tasks \ {t} : task'[u] = task[u]
  BY <1>1, <1>3, <1>4
<1>6. /\ q \in Seq(Tasks) /\ Len(q) = m + 1 /\ m \in Nat /\ \A i \in 1 .. m : q[i] = queue[i]
      /\ q[m + 1] = t
  BY <1>4, AppendIs
<1>7. \A i \in 1 .. m : queue[i] # t /\ queue[i] \in Tasks
  BY <1>3, <1>4 DEF QueueInv, Within
<1>8. /\ \A i, j \in 1 .. m : queue[i] = queue[j] => i = j
      /\ \A i \in 1 .. m : task[queue[i]].at \in {"queued"} \cup Within
      /\ \A i \in 2 .. m : task[queue[i]].at = "queued"
      /\ \A u \in Tasks : task[u].at \in {"queued"} \cup Within => \E i \in 1 .. m : queue[i] = u
  BY DEF QueueInv
<1> HIDE DEF q, m
<1>9. \A i \in 1 .. m + 1 : (i \in 1 .. m /\ (i \in 2 .. m + 1 => i \in 2 .. m)) \/ i = m + 1
  BY <1>6
<1>10. \A i \in 1 .. m + 1 : task'[q[i]].at \in {"queued"} \cup Within
  BY <1>2, <1>5, <1>6, <1>7, <1>8, <1>9
<1>11. ASSUME NEW i \in 2 .. m + 1 PROVE task'[q[i]].at = "queued"
  <2>1. i \in 1 .. m + 1
    BY <1>6
  <2>2. CASE i = m + 1
    BY <1>2, <1>5, <1>6, <2>2
  <2>3. CASE i \in 1 .. m /\ i \in 2 .. m
    BY <1>5, <1>6, <1>7, <1>8, <2>3
  <2> QED
    BY <1>9, <2>1, <2>2, <2>3
<1>12. ASSUME NEW i \in 1 .. m + 1, NEW j \in 1 .. m + 1, q[i] = q[j] PROVE i = j
  BY <1>6, <1>7, <1>8, <1>9, <1>12
<1>13. ASSUME NEW u \in Tasks, task'[u].at \in {"queued"} \cup Within PROVE \E i \in 1 .. m + 1 : q[i] = u
  <2>1. CASE u = t
    BY <1>6, <2>1
  <2>2. CASE u # t
    <3>1. PICK i \in 1 .. m : queue[i] = u
      BY <1>5, <1>8, <1>13, <2>2
    <3>2. i \in 1 .. m + 1 /\ q[i] = u
      BY <1>6, <3>1
    <3> QED
      BY <3>2
  <2> QED
    BY <2>1, <2>2
<1>14. QueueInv'
  BY <1>3, <1>6, <1>10, <1>11, <1>12, <1>13 DEF QueueInv
<1> QED
  BY <1>1, <1>2, <1>3, <1>4, <1>5, <1>6, <1>14 DEF Moves, q

-----------------------------------------------------------------------------
(***************************************************************************)
(* The session, the lines and the commands.                                *)
(***************************************************************************)
LEMMA KindIs == wire \in Seq(Lines) /\ wire # << >> => Head(wire) = wire[1] /\ wire[1] \in Lines /\ Kind \in Kinds
<1> SUFFICES ASSUME wire \in Seq(Lines), wire # << >>
             PROVE  Head(wire) = wire[1] /\ wire[1] \in Lines /\ Kind \in Kinds
  OBVIOUS
<1>1. Head(wire) = wire[1] /\ wire[1] \in Lines
  BY TailIs
<1> QED
  BY <1>1 DEF Kind, Lines

LEMMA WritesIs ==
  ASSUME RigOK, NEW t \in Tasks, NEW c \in Cmds, NEW no \in Nat, Writes(t, c, no)
  PROVE  /\ todo' \in Seq(Commands) /\ written' = written + 1 /\ written' \in Nat
         /\ Len(todo') = Len(todo) + 1 /\ Len(todo) \in Nat
         /\ \A i \in 1 .. Len(todo) : todo'[i] = todo[i]
         /\ todo'[Len(todo) + 1].cmd = c /\ todo'[Len(todo) + 1].n = written + 1
         /\ todo'[Len(todo) + 1].s = no
<1> DEFINE e == [cmd |-> c, n |-> written + 1, s |-> no]
<1>1. e \in Commands /\ e.cmd = c /\ e.n = written + 1 /\ e.s = no
  BY DEF Commands, RigOK
<1>2. todo \in Seq(Commands) /\ written \in Nat /\ todo' = Append(todo, e) /\ written' = written + 1
  BY DEF Writes, RigOK
<1> HIDE DEF e
<1> QED
  BY <1>1, <1>2, AppendIs

\* What a task does to the session and its lines.
Keeps    == session' = session /\ wire' = wire
TakesOne == session' = session /\ wire # << >> /\ wire' = Tail(wire)
TakesAll == session' = session /\ wire # << >> /\ wire' = << >>
Opens    == session' = [up |-> TRUE, no |-> IF session.up THEN session.no ELSE session.no + 1] /\ wire' = wire

Wires == Drops \/ TakesOne \/ TakesAll \/ Opens

\* What it writes.
Says(t) ==
  \/ UNCHANGED <<todo, written>>
  \/ \E c \in Cmds, no \in Nat : Writes(t, c, no)

LEMMA StepWires ==
  ASSUME LineTypeOK, NEW t \in Tasks, Step(t)
  PROVE  Wires /\ Says(t)
<1>0. task[t] \in Recs /\ task[t].cmd \in Cmds /\ task[t].s \in Nat
  BY DEF LineTypeOK, RigOK, Recs
<1>1. CASE Begins(t)
  <2> DEFINE no == IF session.up THEN session.no ELSE session.no + 1
  <2>1. no \in Nat
    BY DEF LineTypeOK, RigOK
  <2>2. session' = [up |-> TRUE, no |-> no] /\ wire' = wire /\ Writes(t, task[t].cmd, no)
    BY <1>1 DEF Begins
  <2> QED
    BY <1>0, <2>1, <2>2 DEF Wires, Opens, Says
<1>2. CASE BeginFails(t) \/ ReadFails(t) \/ HealFails(t) \/ DrainEnds(t) \/ SecondFails(t)
  BY <1>2 DEF BeginFails, ReadFails, HealFails, DrainEnds, SecondFails, Wires, Says, rig
<1>3. CASE Skips(t) \/ ReadsFrequency(t) \/ ReadsMode(t) \/ ReadsLevel(t)
  BY <1>3 DEF Skips, ReadsFrequency, ReadsMode, ReadsLevel, Reads, Wires, TakesOne, Says
<1>4. CASE ReadsSecond(t) \/ Drains(t)
  BY <1>4 DEF ReadsSecond, Drains, Wires, TakesOne, Says, rig
<1>5. CASE ReadsRaw(t)
  BY <1>5 DEF ReadsRaw, Wires, TakesOne, TakesAll, Says, rig
<1>6. CASE ReadsSet(t)
  <2>1. TakesOne
    BY <1>6 DEF ReadsSet, Reads, TakesOne
  <2>2. UNCHANGED <<todo, written>> \/ Writes(t, ";f", task[t].s)
    BY <1>6 DEF ReadsSet
  <2> QED
    BY <1>0, <2>1, <2>2 DEF Wires, Says, Cmds
<1>7. CASE Heals(t)
  <2>1. TakesOne
    BY <1>7 DEF Heals, TakesOne
  <2>2. UNCHANGED <<todo, written>> \/ Writes(t, task[t].cmd, task[t].s)
    BY <1>7 DEF Heals
  <2> QED
    BY <1>0, <2>1, <2>2 DEF Wires, Says
<1> QED
  BY <1>1, <1>2, <1>3, <1>4, <1>5, <1>6, <1>7 DEF Step

\* What an answer may be.
LEMMA AnswerIs ==
  ASSUME NEW c \in Cmds, NEW kinds \in Answers(c)
  PROVE  /\ kinds \in Seq(Kinds) /\ Len(kinds) \in 0 .. 2
         /\ Len(kinds) = 2 => /\ kinds[2] # "mode"
                              /\ \/ c = "m" /\ ~poisoned /\ kinds[1] = "mode"
                                 \/ c = "l" /\ kinds[1] = "value"
         /\ Len(kinds) >= 1 /\ kinds[1] = "mode" => Len(kinds) = 2
         /\ c \in Sets => Len(kinds) = 1 /\ kinds \in {<<"ok">>, <<"err">>}
<1>1. kinds \in {<<"ok">>, <<"err">>, <<"value">>, <<"dotted">>, <<"raw">>, << >>,
                 <<"mode", "value">>, <<"value", "ok">>}
      /\ (kinds = <<"mode", "value">> => c = "m" /\ ~poisoned)
      /\ (kinds = <<"value", "ok">> => c = "l")
      /\ (c \in Sets => kinds \in {<<"ok">>, <<"err">>})
  <2>1. CASE c \in Sets
    <3>1. Answers(c) = {<<"ok">>, <<"err">>}
      BY <2>1 DEF Answers, Sets
    <3> QED
      BY <3>1
  <2>2. CASE c \in {";f", "f", "L"} \/ (c = "m" /\ poisoned)
    <3>1. Answers(c) \subseteq {<<"ok">>, <<"err">>, <<"value">>, <<"dotted">>, << >>}
      BY <2>2 DEF Answers, Sets
    <3>2. kinds # <<"mode", "value">> /\ kinds # <<"value", "ok">>
      BY <3>1
    <3>3. c \notin Sets
      BY <2>2 DEF Sets
    <3> QED
      BY <3>1, <3>2, <3>3
  <2>3. CASE c = "m" /\ ~poisoned
    <3>1. Answers(c) = {<<"mode", "value">>, <<"err">>}
      BY <2>3 DEF Answers, Sets
    <3> QED
      BY <2>3, <3>1 DEF Sets
  <2>4. CASE c = "l"
    <3>1. Answers(c) = {<<"ok">>, <<"err">>, <<"value">>, <<"value", "ok">>}
      BY <2>4 DEF Answers, Sets
    <3> QED
      BY <2>4, <3>1 DEF Sets
  <2>5. CASE c \in {"none", "SH", "wr", "rd"}
    <3>1. Answers(c) = {<<"raw">>, <<"err">>}
      BY <2>5 DEF Answers, Sets
    <3> QED
      BY <2>5, <3>1 DEF Sets
  <2> QED
    BY <2>1, <2>2, <2>3, <2>4, <2>5 DEF Cmds, Sets
<1>2. /\ <<"ok">> \in Seq(Kinds) /\ <<"err">> \in Seq(Kinds) /\ <<"value">> \in Seq(Kinds)
      /\ <<"dotted">> \in Seq(Kinds) /\ <<"raw">> \in Seq(Kinds) /\ << >> \in Seq(Kinds)
      /\ <<"mode", "value">> \in Seq(Kinds) /\ <<"value", "ok">> \in Seq(Kinds)
  BY DEF Kinds
<1>3. /\ Len(<<"ok">>) = 1 /\ Len(<<"err">>) = 1 /\ Len(<<"value">>) = 1 /\ Len(<<"dotted">>) = 1
      /\ Len(<<"raw">>) = 1 /\ Len(<< >>) = 0 /\ Len(<<"mode", "value">>) = 2
      /\ Len(<<"value", "ok">>) = 2
  OBVIOUS
<1>4. kinds \in Seq(Kinds)
  BY <1>1, <1>2
<1>5. /\ Len(kinds) \in 0 .. 2
      /\ Len(kinds) = 2 => kinds = <<"mode", "value">> \/ kinds = <<"value", "ok">>
      /\ c \in Sets => Len(kinds) = 1
  BY <1>1, <1>3
<1>6. Len(kinds) >= 1 /\ kinds[1] = "mode" => Len(kinds) = 2
  BY <1>1, <1>3
<1> QED
  BY <1>1, <1>4, <1>5, <1>6

\* The lines of an answer to the command c.
Said(kinds, c) == [i \in DOMAIN kinds |-> [k |-> kinds[i], n |-> c.n, p |-> poisoned]]

LEMMA SaidIs ==
  ASSUME poisoned \in BOOLEAN, NEW c \in Commands, NEW kinds \in Seq(Kinds)
  PROVE  /\ Said(kinds, c) \in Seq(Lines) /\ Len(Said(kinds, c)) = Len(kinds)
         /\ \A i \in 1 .. Len(kinds) : Said(kinds, c)[i] = [k |-> kinds[i], n |-> c.n, p |-> poisoned]
<1>1. DOMAIN kinds = 1 .. Len(kinds) /\ Len(kinds) \in Nat
  OBVIOUS
<1>2. \A i \in 1 .. Len(kinds) : [k |-> kinds[i], n |-> c.n, p |-> poisoned] \in Lines
  BY DEF Lines, Commands
<1>3. Said(kinds, c) = [i \in 1 .. Len(kinds) |-> [k |-> kinds[i], n |-> c.n, p |-> poisoned]]
  BY <1>1 DEF Said
<1> QED
  BY <1>1, <1>2, <1>3

LEMMA StepLeaves == \A t \in Tasks : Step(t) => UNCHANGED <<poisoned, onair>>
BY ZenonT(60) DEF Step, Begins, BeginFails, ReadFails, HealFails, DrainEnds, SecondFails, Skips, ReadsFrequency,
       ReadsMode, ReadsSecond, ReadsSet, Heals, ReadsRaw, ReadsLevel, Drains, Reads, rig

\* What rigctld does with its next command.
LEMMA AnswersIs ==
  ASSUME LineTypeOK, RigctldAnswers
  PROVE  LET c == Head(todo) IN
         /\ todo # << >> /\ todo' = Tail(todo) /\ c \in Commands /\ c = todo[1]
         /\ UNCHANGED <<task, queue, session, flags, written, collided, alien>>
         /\ poisoned' \in BOOLEAN
         /\ \E kinds \in Answers(c.cmd) :
              /\ kinds \in Seq(Kinds)
              /\ wire' = IF session.up /\ session.no = c.s THEN wire \o Said(kinds, c) ELSE wire
              /\ onair' = IF kinds = <<"ok">> /\ c.cmd \in {"T0", "T1"} THEN c.cmd = "T1" ELSE onair
<1>1. todo # << >> /\ todo' = Tail(todo) /\ UNCHANGED <<task, queue, session, flags, written, collided, alien>>
  BY DEF RigctldAnswers
<1>2. Head(todo) \in Commands /\ Head(todo) = todo[1] /\ Head(todo).cmd \in Cmds
  <2>1. todo \in Seq(Commands)
    BY DEF LineTypeOK, RigOK
  <2>2. Head(todo) \in Commands /\ Head(todo) = todo[1]
    BY <1>1, <2>1, TailIs
  <2> QED
    BY <2>2 DEF Commands
<1>3. PICK kinds \in Answers(Head(todo).cmd) :
        /\ wire' = IF session.up /\ session.no = Head(todo).s
                   THEN wire \o Said(kinds, Head(todo)) ELSE wire
        /\ onair' = IF kinds = <<"ok">> /\ Head(todo).cmd \in {"T0", "T1"} THEN Head(todo).cmd = "T1" ELSE onair
        /\ poisoned' = (poisoned /\ Head(todo).cmd # ";f")
  BY DEF RigctldAnswers, Said
<1>4. kinds \in Seq(Kinds)
  BY <1>2, AnswerIs
<1>5. poisoned' \in BOOLEAN
  BY <1>3
<1> QED
  BY <1>1, <1>2, <1>3, <1>4, <1>5

LEMMA TypeStep ==
  ASSUME LineTypeOK, QueueInv, [RigNext]_rigVars
  PROVE  LineTypeOK' /\ QueueInv'
<1>0. /\ task \in [Tasks -> Recs] /\ queue \in Seq(Tasks) /\ session \in [up : BOOLEAN, no : Nat]
      /\ wire \in Seq(Lines) /\ todo \in Seq(Commands) /\ written \in Nat /\ poisoned \in BOOLEAN
      /\ \A t \in Tasks : OpOK(task[t])
  BY DEF LineTypeOK, RigOK, OpInv
<1>1. ASSUME NEW t \in Tasks, Step(t) PROVE LineTypeOK' /\ QueueInv'
  <2>1. Moves(t) /\ queue' \in Seq(Tasks) /\ QueueInv'
    BY <1>1, StepOrderly, QueuesKeepQueue DEF Orderly
  <2>2. session' \in [up : BOOLEAN, no : Nat] /\ wire' \in Seq(Lines)
    <3>1. Drops \/ TakesOne \/ TakesAll \/ Opens
      BY <1>1, StepWires DEF Wires
    <3>2. << >> \in Seq(Lines)
      OBVIOUS
    <3>3. CASE Drops
      BY <1>0, <3>2, <3>3 DEF Drops
    <3>4. CASE TakesOne
      BY <1>0, <3>4, TailIs DEF TakesOne
    <3>5. CASE TakesAll
      BY <1>0, <3>2, <3>5 DEF TakesAll
    <3>6. CASE Opens
      BY <1>0, <3>6 DEF Opens
    <3> QED
      BY <3>1, <3>3, <3>4, <3>5, <3>6
  <2>3. todo' \in Seq(Commands) /\ written' \in Nat
    BY <1>0, <1>1, StepWires, WritesIs DEF Says, LineTypeOK
  <2>4. poisoned' = poisoned
    BY <1>1, StepLeaves
  <2>5. OpInv'
    BY <1>0, <2>1 DEF Moves, OpInv
  <2> QED
    BY <1>0, <2>1, <2>2, <2>3, <2>4, <2>5 DEF LineTypeOK, RigOK, Moves
<1>2. ASSUME NEW t \in Tasks, NEW op \in Ops, Calls(t, op) PROVE LineTypeOK' /\ QueueInv'
  <2>1. queue' \in Seq(Tasks) /\ QueueInv' /\ Moves(t)
    BY <1>2, CallsQueue
  <2>2. UNCHANGED <<session, wire, todo, written, poisoned>>
    BY <1>2 DEF Calls, rig
  <2>3. OpInv'
    BY <1>0, <2>1 DEF Moves, OpInv
  <2> QED
    BY <1>0, <2>1, <2>2, <2>3 DEF LineTypeOK, RigOK, Moves
<1>3. CASE RigctldAnswers
  <2>1. PICK kinds \in Seq(Kinds) :
          wire' = IF session.up /\ session.no = Head(todo).s THEN wire \o Said(kinds, Head(todo)) ELSE wire
    BY <1>3, AnswersIs
  <2>2. /\ todo # << >> /\ todo' = Tail(todo) /\ Head(todo) \in Commands /\ poisoned' \in BOOLEAN
        /\ UNCHANGED <<task, queue, session, written>>
    BY <1>3, AnswersIs
  <2>3. Said(kinds, Head(todo)) \in Seq(Lines)
    BY <1>0, <2>2, SaidIs
  <2>4. wire' \in Seq(Lines)
    BY <1>0, <2>1, <2>3
  <2>5. todo' \in Seq(Commands)
    BY <1>0, <2>2, TailIs
  <2> QED
    BY <1>0, <2>2, <2>4, <2>5 DEF LineTypeOK, RigOK, OpInv, QueueInv
<1>4. CASE RigctldLoses
  <2>1. todo' \in Seq(Commands) /\ UNCHANGED <<task, queue, session, wire, written, poisoned>>
    BY <1>0, <1>4, TailIs DEF RigctldLoses, marks
  <2> QED
    BY <1>0, <2>1 DEF LineTypeOK, RigOK, OpInv, QueueInv
<1>5. CASE Poisons \/ Arms \/ Disarms \/ UNCHANGED rigVars
  <2>1. UNCHANGED <<task, queue, session, wire, todo, written>> /\ poisoned' \in BOOLEAN
    BY <1>0, <1>5 DEF Poisons, Arms, Disarms, rigVars, rig, marks
  <2> QED
    BY <1>0, <2>1 DEF LineTypeOK, RigOK, OpInv, QueueInv
<1> QED
  BY <1>1, <1>2, <1>3, <1>4, <1>5 DEF RigNext

LEMMA TypeInit == RigInit => LineTypeOK /\ QueueInv
<1> SUFFICES ASSUME RigInit PROVE LineTypeOK /\ QueueInv
  OBVIOUS
<1>1. Idle \in Recs /\ OpOK(Idle) /\ Idle.at = "idle"
  BY IdleOK
<1>2. \A t \in Tasks : task[t] = Idle
  BY DEF RigInit
<1>3. task \in [Tasks -> Recs]
  BY <1>1 DEF RigInit
<1>4. queue = << >> /\ Len(queue) = 0
  BY DEF RigInit
<1>8. /\ queue \in Seq(Tasks) /\ wire \in Seq(Lines) /\ todo \in Seq(Commands)
      /\ session \in [up : BOOLEAN, no : Nat] /\ written \in Nat /\ poisoned \in BOOLEAN
  <2>1. << >> \in Seq(Tasks) /\ << >> \in Seq(Lines) /\ << >> \in Seq(Commands)
    OBVIOUS
  <2>2. [up |-> FALSE, no |-> 0] \in [up : BOOLEAN, no : Nat]
    OBVIOUS
  <2> QED
    BY <2>1, <2>2 DEF RigInit
<1>5. RigOK
  BY <1>3, <1>8 DEF RigOK
<1>6. OpInv
  BY <1>1, <1>2 DEF OpInv
<1>7. QueueInv
  BY <1>1, <1>2, <1>4 DEF QueueInv, Within
<1> QED
  BY <1>5, <1>6, <1>7 DEF LineTypeOK

(***************************************************************************)
(* What RigTypeOK adds to that: the queue's members are as many as its     *)
(* length, and there are lines only of a session that is up, because       *)
(* _drop_locked() closes the stream with what is unread on it.             *)
(***************************************************************************)
LEMMA EachOnce ==
  ASSUME LineTypeOK, QueueInv
  PROVE  Len(queue) = Cardinality(ToSet(queue))
<1>1. queue \in Seq(Tasks) /\ Len(queue) \in Nat /\ DOMAIN queue = 1 .. Len(queue)
  BY DEF LineTypeOK, RigOK
<1>2. queue \in [1 .. Len(queue) -> ToSet(queue)]
  BY <1>1 DEF ToSet
<1>3. queue \in Bijection(1 .. Len(queue), ToSet(queue))
  <2>1. \A i, j \in 1 .. Len(queue) : queue[i] = queue[j] => i = j
    BY DEF QueueInv
  <2>2. \A u \in ToSet(queue) : \E i \in 1 .. Len(queue) : queue[i] = u
    BY <1>1 DEF ToSet
  <2> QED
    BY <1>2, <2>1, <2>2 DEF Bijection, Injection, Surjection, IsInjective
<1>4. ExistsBijection(1 .. Len(queue), ToSet(queue))
  BY <1>3 DEF ExistsBijection
<1> QED
  BY <1>1, <1>4, FS_CountingElements

LinesAreLive == wire # << >> => session.up

LEMMA LinesStep ==
  ASSUME LineTypeOK, QueueInv, LinesAreLive, [RigNext]_rigVars
  PROVE  LinesAreLive'
<1>0. wire \in Seq(Lines) /\ session \in [up : BOOLEAN, no : Nat]
  BY DEF LineTypeOK, RigOK
<1>1. ASSUME NEW t \in Tasks, Step(t) PROVE LinesAreLive'
  <2>1. Drops \/ TakesOne \/ TakesAll \/ Opens
    BY <1>1, StepWires DEF Wires
  <2>2. CASE Drops
    BY <2>2 DEF Drops, LinesAreLive
  <2>3. CASE TakesOne \/ TakesAll
    BY <2>3 DEF TakesOne, TakesAll, LinesAreLive
  <2>4. CASE Opens
    BY <2>4 DEF Opens, LinesAreLive
  <2> QED
    BY <2>1, <2>2, <2>3, <2>4
<1>2. CASE RigctldAnswers
  <2>1. session' = session /\ (session.up \/ wire' = wire)
    BY <1>2 DEF RigctldAnswers
  <2> QED
    BY <2>1 DEF LinesAreLive
<1>3. CASE ~RigctldAnswers /\ ~\E t \in Tasks : Step(t)
  <2>1. UNCHANGED <<wire, session>>
    BY <1>3 DEF RigNext, Calls, RigctldLoses, Poisons, Arms, Disarms, rigVars
  <2> QED
    BY <2>1 DEF LinesAreLive
<1> QED
  BY <1>1, <1>2, <1>3

(***************************************************************************)
(* The coroutines that want the client are the ones in its lock's queue,   *)
(* each once; what is unread belongs to the session that is up.            *)
(***************************************************************************)
THEOREM RigTypeCorrect == RigSpec => []RigTypeOK
<1>1. RigInit => LineTypeOK /\ QueueInv /\ LinesAreLive
  BY TypeInit DEF RigInit, LinesAreLive
<1>2. LineTypeOK /\ QueueInv /\ LinesAreLive /\ [RigNext]_rigVars
        => LineTypeOK' /\ QueueInv' /\ LinesAreLive'
  BY TypeStep, LinesStep
<1>3. LineTypeOK /\ QueueInv /\ LinesAreLive => RigTypeOK
  <2> SUFFICES ASSUME LineTypeOK, QueueInv, LinesAreLive PROVE RigTypeOK
    OBVIOUS
  <2>1. queue \in Seq(Tasks) /\ DOMAIN queue = 1 .. Len(queue)
    BY DEF LineTypeOK, RigOK
  <2>2. \A i \in 1 .. Len(queue) : queue[i] \in Tasks /\ task[queue[i]].at \notin {"idle", "second"}
    BY <2>1 DEF QueueInv, Within
  <2>3. ToSet(queue) \subseteq {t \in Tasks : task[t].at \notin {"idle", "second"}}
    BY <2>1, <2>2 DEF ToSet
  <2> QED
    BY <2>3, EachOnce DEF RigTypeOK, LinesAreLive
<1> QED
  BY <1>1, <1>2, <1>3, PTL DEF RigSpec

-----------------------------------------------------------------------------
(***************************************************************************)
(* What a line is taken for. A task waits when it has a command of the     *)
(* session that is up; then all that is on the wire answers that command,  *)
(* and rigctld has no other command of the session.                        *)
(***************************************************************************)
Heal == ";f"

LEMMA HealIs == Heal \in Cmds /\ Heal \notin Sets /\ Heal # "m" /\ Heal # "l"
BY Zenon DEF Heal, Cmds, Sets

Waits(t) == session.up /\ task[t].s = session.no /\ task[t].at \in {"second"} \cup Within
Live(i)  == session.up /\ todo[i].s = session.no

InHand(t) ==
  /\ wire # << >> => todo = << >>
  /\ \A i \in 1 .. Len(wire) : wire[i].n = task[t].n
  /\ \A i \in 1 .. Len(todo) : Live(i) =>
       /\ i = Len(todo) /\ todo[i].n = task[t].n /\ task[t].at \in {"reading", "healing"}
       /\ todo[i].cmd = IF task[t].at = "healing" THEN Heal ELSE task[t].cmd
  /\ Len(wire) <= 2
  /\ Len(wire) = 2 => wire[2].k # "mode"
  /\ Len(wire) >= 1 /\ wire[1].k = "mode" => Len(wire) = 2
  /\ Len(wire) = 2 =>
       /\ task[t].at = "reading"
       /\ \/ task[t].cmd = "m" /\ wire[1].k = "mode" /\ ~wire[1].p
          \/ task[t].cmd = "l" /\ wire[1].k = "value"

LinkFacts ==
  /\ ~alien
  /\ \A t \in Tasks : /\ task[t].s <= session.no
                      /\ task[t].at \in Within => task[t].s = session.no
                      /\ task[t].at \in {"second", "draining"} => task[t].again
  /\ \A i \in 1 .. Len(todo) : todo[i].s <= session.no
  /\ wire # << >> => session.up
  /\ \A t, u \in Tasks : Waits(t) /\ Waits(u) => t = u
  /\ wire # << >> => \E t \in Tasks : Waits(t)
  /\ \A i \in 1 .. Len(todo) : Live(i) => \E t \in Tasks : Waits(t)
  /\ \A t \in Tasks : Waits(t) => InHand(t)

\* A collision is the one thing that breaks it.
LinkInv == ~collided => LinkFacts

(***************************************************************************)
(* The steps of a task, by what they do to the link.                       *)
(***************************************************************************)
\* The first line of the wire is the last that its command has to read.
LastLine(t) ==
  ~ (task[t].at = "reading" /\ \/ task[t].cmd = "m" /\ Kind = "mode" /\ ~Head(wire).p
                               \/ task[t].cmd = "l" /\ Kind = "value")

\* It may take a line: it is inside the lock, or reads its second line.
Reader(t) ==
  /\ wire # << >>
  /\ \/ Holds(t) /\ task[t].at \in Within
     \/ task[t].at = "second" /\ session.up /\ session.no = task[t].s

\* It ends, asks for the lock again, or nothing has come of the line.
Settles(t) == \/ task'[t] = task[t]
              \/ task'[t].at \in {"idle", "queued"} /\ task'[t].s \in {0, task[t].s}

Asks(t, c, at) == /\ task'[t].cmd = task[t].cmd /\ task'[t].at = at /\ task'[t].n = written + 1
                  /\ Writes(t, c, task'[t].s)

Opening(t) == /\ Holds(t) /\ task[t].at = "queued" /\ Opens /\ task'[t].s = session'.no
              /\ Asks(t, task[t].cmd, "reading") /\ ~Awaited(session'.no) /\ alien' = alien

Cutting(t) == /\ Drops /\ todo' = todo /\ Settles(t)
              /\ alien' => alien \/ (task[t].at = "draining" /\ ~task[t].again)

Taking(t)  == /\ Reader(t) /\ LastLine(t) /\ (TakesOne \/ TakesAll) /\ todo' = todo /\ Settles(t)
              /\ alien' => \/ alien \/ ~Own(t)
                           \/ task[t].at \in {"second", "draining"} /\ ~task[t].again

Passing(t) == /\ Reader(t) /\ TakesOne /\ todo' = todo /\ alien' = alien
              /\ task[t].at = "reading" /\ task'[t].at \in {"second", "draining"}
              /\ task'[t].s = task[t].s /\ task'[t].n = task[t].n /\ (Own(t) => task'[t].again)

Writing(t) == /\ Reader(t) /\ LastLine(t) /\ TakesOne /\ alien' = alien /\ task'[t].s = task[t].s
              /\ Asks(t, Heal, "healing") \/ Asks(t, task[t].cmd, "reading")

LEMMA EndSettles ==
  ASSUME LineTypeOK, NEW t \in Tasks, Raises(t) \/ \E own : Returns(t, own)
  PROVE  Settles(t) /\ task'[t] = Idle /\ (Raises(t) => alien' = alien)
<1>1. task'[t] = Idle
  BY EndMoves
<1>2. Idle.at = "idle" /\ Idle.s = 0
  BY DEF Idle
<1> QED
  BY <1>1, <1>2 DEF Settles, Raises

LEMMA FailSettles ==
  ASSUME LineTypeOK, NEW t \in Tasks, Fails(t)
  PROVE  Settles(t) /\ alien' = alien
<1>1. CASE task[t].cmd \in DOMAIN Fallback
  <2>1. task' = [task EXCEPT ![t].cmd = Fallback[task[t].cmd], ![t].at = "queued"] /\ alien' = alien
    BY <1>1 DEF Fails
  <2>2. task'[t].at = "queued" /\ task'[t].s = task[t].s
    BY <2>1 DEF LineTypeOK, RigOK, Recs
  <2> QED
    BY <2>1, <2>2 DEF Settles
<1>2. CASE task[t].cmd \notin DOMAIN Fallback
  BY <1>2, EndSettles DEF Fails
<1> QED
  BY <1>1, <1>2

LEMMA OverTakes ==
  ASSUME LineTypeOK, NEW t \in Tasks, NEW own, Reader(t), LastLine(t), TakesOne \/ TakesAll, todo' = todo,
         Returns(t, own) \/ Raises(t),
         Own(t) /\ (task[t].at \in {"second", "draining"} => task[t].again) => own
  PROVE  Taking(t) /\ collided' = collided
<1>1. Settles(t) /\ collided' = collided
  BY EndSettles DEF Returns, Raises
<1>2. alien' => alien \/ ~own
  BY DEF Returns, Raises
<1>3. alien' => \/ alien \/ ~Own(t)
                \/ task[t].at \in {"second", "draining"} /\ ~task[t].again
  BY <1>2
<1> QED
  BY <1>1, <1>3 DEF Taking

LEMMA StepLinks ==
  ASSUME LineTypeOK, NEW t \in Tasks, Step(t), ~collided'
  PROVE  ~collided /\ (Opening(t) \/ Cutting(t) \/ Taking(t) \/ Passing(t) \/ Writing(t))
<1>0. task \in [Tasks -> Recs] /\ task[t] \in Recs /\ task[t].cmd \in Cmds /\ task[t].s \in Nat
      /\ written + 1 \in Nat /\ session.no \in Nat /\ OpOK(task[t])
  BY DEF LineTypeOK, RigOK, OpInv, Recs
<1>a. ~ Collides(t) /\ \A own : ~ (Collides(t) /\ Returns(t, own))
  BY DEF Collides
<1>b. Own(t) \in BOOLEAN
  BY DEF Own
<1>1. CASE Begins(t)
  <2> DEFINE no == IF session.up THEN session.no ELSE session.no + 1
  <2>1. /\ Holds(t) /\ task[t].at = "queued" /\ session' = [up |-> TRUE, no |-> no]
        /\ Writes(t, task[t].cmd, no) /\ wire' = wire /\ ~collided /\ ~Awaited(no)
        /\ Reading(t, task[t].cmd, no) /\ alien' = alien
    BY <1>1, <1>a DEF Begins
  <2>2. no \in Nat /\ session'.no = no
    BY <1>0, <2>1
  <2>3. Opens
    BY <2>1 DEF Opens
  <2> HIDE DEF no
  <2>4. /\ task'[t].cmd = task[t].cmd /\ task'[t].at = "reading" /\ task'[t].n = written + 1
        /\ task'[t].s = no
    BY <1>0, <2>1, <2>2, ReadingMoves
  <2> QED
    BY <2>1, <2>2, <2>3, <2>4 DEF Opening, Asks
<1>2. CASE BeginFails(t) \/ ReadFails(t)
  <2>1. Drops /\ Fails(t) /\ todo' = todo
    BY <1>2 DEF BeginFails, ReadFails, rig
  <2>2. collided' = collided
    BY <2>1 DEF Fails, Raises
  <2> QED
    BY <2>1, <2>2, FailSettles DEF Cutting
<1>3. CASE HealFails(t) \/ SecondFails(t)
  <2>1. Drops /\ Raises(t) /\ todo' = todo
    BY <1>3 DEF HealFails, SecondFails, rig
  <2> QED
    BY <2>1, EndSettles DEF Cutting, Raises
<1>4. CASE DrainEnds(t)
  <2>1. Drops /\ Returns(t, task[t].again) /\ todo' = todo /\ task[t].at = "draining"
    BY <1>4 DEF DrainEnds, rig
  <2> QED
    BY <2>1, EndSettles DEF Cutting, Returns
<1>5. CASE Skips(t)
  <2>1. Reader(t) /\ TakesOne /\ todo' = todo /\ task' = task /\ alien' = alien /\ collided' = collided
    BY <1>5 DEF Skips, Reads, Reader, TakesOne, Within
  <2>2. LastLine(t)
    BY <1>5 DEF Skips, Reads, LastLine, Rprt
  <2> QED
    BY <2>1, <2>2 DEF Taking, Settles
<1>6. CASE ReadsFrequency(t)
  <2>1. Reader(t) /\ TakesOne /\ todo' = todo
    BY <1>6 DEF ReadsFrequency, Reads, Reader, TakesOne, Within
  <2>2. LastLine(t)
    BY <1>6 DEF ReadsFrequency, Reads, LastLine
  <2>3. CASE /\ task' = [task EXCEPT ![t].cmd = ";f", ![t].at = "queued", ![t].again = TRUE]
             /\ alien' = alien /\ collided' = collided
    <3>1. task'[t].at = "queued" /\ task'[t].s = task[t].s
      BY <1>0, <2>3 DEF Recs
    <3> QED
      BY <2>1, <2>2, <2>3, <3>1 DEF Taking, Settles
  <2>4. CASE Returns(t, Own(t)) \/ Raises(t)
    BY <2>1, <2>2, <2>4, <1>b, OverTakes
  <2> QED
    BY <1>6, <2>3, <2>4 DEF ReadsFrequency
<1>7. CASE ReadsMode(t)
  <2>1. Reader(t) /\ TakesOne /\ todo' = todo /\ task[t].at = "reading"
    BY <1>7 DEF ReadsMode, Reads, Reader, TakesOne, Within
  <2>2. CASE Kind = "dotted" \/ Head(wire).p
    <3>1. LastLine(t)
      <4>1. task[t].cmd = "m"
        BY <1>7 DEF ReadsMode, Reads
      <4> QED
        BY <2>2, <4>1 DEF LastLine
    <3>2. Returns(t, Own(t)) \/ Raises(t)
      BY <1>7, <2>2 DEF ReadsMode
    <3> QED
      BY <2>1, <3>1, <3>2, <1>b, OverTakes
  <2>3. CASE ~ (Kind = "dotted" \/ Head(wire).p)
    <3>1. /\ task' = [task EXCEPT ![t].at = "second", ![t].again = Own(t)]
          /\ alien' = alien /\ collided' = collided
      BY <1>7, <2>3, <1>a DEF ReadsMode
    <3>2. Own(t) \in BOOLEAN
      BY DEF Own
    <3>3. /\ task'[t].at = "second" /\ task'[t].s = task[t].s /\ task'[t].n = task[t].n
          /\ task'[t].again = Own(t)
      BY <1>0, <3>1, <3>2 DEF Recs
    <3> QED
      BY <2>1, <3>1, <3>3 DEF Passing
  <2> QED
    BY <2>2, <2>3
<1>8. CASE ReadsSecond(t)
  <2>1. Reader(t) /\ TakesOne /\ todo' = todo /\ task[t].at = "second"
    BY <1>8 DEF ReadsSecond, Reader, TakesOne, rig
  <2>3. LastLine(t)
    BY <2>1 DEF LastLine
  <2>2. Returns(t, Own(t) /\ task[t].again) \/ Raises(t)
    BY <1>8 DEF ReadsSecond
  <2> QED
    BY <2>1, <2>2, <2>3, <1>b, OverTakes
<1>9. CASE ReadsSet(t)
  <2>1. Reader(t) /\ TakesOne /\ task[t].at = "reading" /\ task[t].cmd \in Sets
    BY <1>9 DEF ReadsSet, Reads, Reader, TakesOne, Within
  <2>2. LastLine(t)
    BY <2>1 DEF LastLine, Sets
  <2>3. CASE /\ task' = [task EXCEPT ![t].at = "healing", ![t].n = written + 1, ![t].again = TRUE]
             /\ Writes(t, ";f", task[t].s) /\ alien' = alien /\ collided' = collided
    <3>1. /\ task'[t].at = "healing" /\ task'[t].s = task[t].s /\ task'[t].n = written + 1
          /\ task'[t].cmd = task[t].cmd
      BY <1>0, <2>3 DEF Recs
    <3> QED
      BY <2>1, <2>2, <2>3, <3>1, Zenon DEF Writing, Asks, Heal
  <2>4. CASE (Returns(t, Own(t)) \/ Raises(t)) /\ todo' = todo
    BY <2>1, <2>2, <2>4, <1>b, OverTakes
  <2> QED
    BY <1>9, <2>3, <2>4 DEF ReadsSet
<1>10. CASE Heals(t)
  <2>1. Reader(t) /\ TakesOne /\ (task[t].at = "healing" \/ task[t].cmd = ";f")
    BY <1>10 DEF Heals, Reader, TakesOne, Within
  <2>2. LastLine(t)
    BY <2>1 DEF LastLine
  <2>3. CASE UNCHANGED <<task, todo, alien, collided>>
    BY <2>1, <2>2, <2>3 DEF Taking, Settles
  <2>4. CASE Raises(t) /\ todo' = todo
    BY <2>1, <2>2, <2>4, EndSettles DEF Taking, Raises
  <2>5. CASE /\ Writes(t, task[t].cmd, task[t].s) /\ Reading(t, task[t].cmd, task[t].s)
             /\ alien' = alien /\ collided' = collided
    <3>1. /\ task'[t].at = "reading" /\ task'[t].s = task[t].s /\ task'[t].n = written + 1
          /\ task'[t].cmd = task[t].cmd
      BY <1>0, <2>5, ReadingMoves
    <3> QED
      BY <2>1, <2>2, <2>5, <3>1 DEF Writing, Asks
  <2>6. CASE /\ task' = [task EXCEPT ![t].cmd = "f", ![t].at = "queued"] /\ todo' = todo
             /\ alien' = alien /\ collided' = collided
    <3>1. task'[t].at = "queued" /\ task'[t].s = task[t].s
      BY <1>0, <2>6 DEF Recs
    <3> QED
      BY <2>1, <2>2, <2>6, <3>1 DEF Taking, Settles
  <2> QED
    BY <1>10, <2>3, <2>4, <2>5, <2>6 DEF Heals
<1>11. CASE ReadsRaw(t)
  <2>1. Reader(t) /\ (TakesOne \/ TakesAll) /\ todo' = todo /\ task[t].cmd \in {"SH", "wr", "rd"}
    BY <1>11 DEF ReadsRaw, Reader, TakesOne, TakesAll, Within, rig
  <2>2. LastLine(t)
    BY <2>1 DEF LastLine
  <2>3. CASE Fails(t)
    <3>1. collided' = collided
      BY <2>3 DEF Fails, Raises
    <3> QED
      BY <2>1, <2>2, <2>3, <3>1, FailSettles DEF Taking
  <2>4. CASE Returns(t, Own(t))
    BY <2>1, <2>2, <2>4, <1>b, OverTakes
  <2> QED
    BY <1>11, <2>3, <2>4 DEF ReadsRaw
<1>12. CASE ReadsLevel(t)
  <2>1. Reader(t) /\ TakesOne /\ todo' = todo /\ task[t].at = "reading" /\ task[t].cmd \in {"l", "L"}
    BY <1>12 DEF ReadsLevel, Reads, Reader, TakesOne, Within
  <2>2. CASE task[t].cmd = "l" /\ Kind = "value"
    <3>1. /\ task' = [task EXCEPT ![t].at = "draining", ![t].again = Own(t)]
          /\ alien' = alien /\ collided' = collided
      BY <1>12, <2>2 DEF ReadsLevel
    <3>2. Own(t) \in BOOLEAN
      BY DEF Own
    <3>3. /\ task'[t].at = "draining" /\ task'[t].s = task[t].s /\ task'[t].n = task[t].n
          /\ task'[t].again = Own(t)
      BY <1>0, <3>1, <3>2 DEF Recs
    <3> QED
      BY <2>1, <3>1, <3>3 DEF Passing
  <2>3. CASE ~ (task[t].cmd = "l" /\ Kind = "value")
    <3>1. Returns(t, Own(t)) \/ Raises(t)
      BY <1>12, <2>3 DEF ReadsLevel
    <3>2. LastLine(t)
      BY <2>1, <2>3 DEF LastLine
    <3> QED
      BY <2>1, <3>1, <3>2, <1>b, OverTakes
  <2> QED
    BY <2>2, <2>3
<1>13. CASE Drains(t)
  <2>1. Reader(t) /\ TakesOne /\ todo' = todo /\ task[t].at = "draining"
    BY <1>13 DEF Drains, Reader, TakesOne, Within, rig
  <2>2. LastLine(t)
    BY <2>1 DEF LastLine
  <2>3. UNCHANGED <<task, alien, collided>> \/ Returns(t, task[t].again) \/ Raises(t)
    BY <1>13 DEF Drains
  <2>4. CASE UNCHANGED <<task, alien, collided>>
    BY <2>1, <2>2, <2>4 DEF Taking, Settles
  <2>5. CASE Returns(t, task[t].again) \/ Raises(t)
    BY <2>1, <2>2, <2>5, <1>b, OverTakes
  <2> QED
    BY <2>3, <2>4, <2>5
<1> QED
  BY <1>1, <1>2, <1>3, <1>4, <1>5, <1>6, <1>7, <1>8, <1>9, <1>10, <1>11, <1>12, <1>13 DEF Step

-----------------------------------------------------------------------------
(***************************************************************************)
(* Each of them keeps it.                                                  *)
(***************************************************************************)
\* Whoever may take a line has it from rigctld for its own command, and
\* there is no other on the wire that it does not have to read.
LEMMA ReaderWaits ==
  ASSUME LineTypeOK, LinkFacts, NEW t \in Tasks, Reader(t)
  PROVE  /\ Waits(t) /\ Own(t) /\ todo = << >> /\ Len(wire) \in {1, 2}
         /\ LastLine(t) => Len(wire) = 1
         /\ task[t].at \in {"second", "draining"} => task[t].again
         /\ \A i \in 1 .. Len(wire) : wire[i].n = task[t].n
         /\ Len(wire) = 2 => wire[2].k # "mode"
<1>1. wire \in Seq(Lines) /\ wire # << >> /\ Head(wire) = wire[1] /\ Len(wire) \in Nat \ {0}
  BY TailIs DEF LineTypeOK, RigOK, Reader
<1>2. Waits(t) /\ (task[t].at \in {"second", "draining"} => task[t].again)
  BY DEF Reader, Waits, LinkFacts
<1>3. InHand(t)
  BY <1>2 DEF LinkFacts
<1>4. /\ todo = << >> /\ Len(wire) <= 2 /\ \A i \in 1 .. Len(wire) : wire[i].n = task[t].n
      /\ (Len(wire) = 2 => wire[2].k # "mode")
      /\ Len(wire) = 2 => /\ task[t].at = "reading"
                          /\ \/ task[t].cmd = "m" /\ wire[1].k = "mode" /\ ~wire[1].p
                             \/ task[t].cmd = "l" /\ wire[1].k = "value"
  BY <1>1, <1>3 DEF InHand
<1>5. Own(t)
  BY <1>1, <1>4 DEF Own
<1>6. LastLine(t) => Len(wire) # 2
  BY <1>1, <1>4 DEF LastLine, Kind
<1>7. Len(wire) \in {1, 2}
  <2> DEFINE m == Len(wire)
  <2>1. m \in Nat \ {0} /\ m <= 2
    BY <1>1, <1>4
  <2> HIDE DEF m
  <2>2. m \in {1, 2}
    BY <2>1
  <2> QED
    BY <2>2 DEF m
<1>8. LastLine(t) => Len(wire) = 1
  BY <1>6, <1>7
<1> QED
  BY <1>2, <1>4, <1>5, <1>7, <1>8

LEMMA OpeningLinks ==
  ASSUME LineTypeOK, QueueInv, LinkFacts, NEW t \in Tasks, Orderly(t), Opening(t)
  PROVE  LinkFacts' /\ wire' = << >>
<1> DEFINE no == IF session.up THEN session.no ELSE session.no + 1
           m == Len(todo)
<1>1. /\ session \in [up : BOOLEAN, no : Nat] /\ wire \in Seq(Lines) /\ todo \in Seq(Commands)
      /\ written \in Nat /\ RigOK /\ m \in Nat /\ task[t].cmd \in Cmds
      /\ \A u \in Tasks : task[u].s \in Nat
      /\ \A i \in 1 .. m : todo[i].s \in Nat
  <2>1. RigOK /\ \A i \in 1 .. m : todo[i] \in Commands
    BY DEF LineTypeOK, RigOK
  <2>2. \A u \in Tasks : task[u] \in Recs
    BY DEF LineTypeOK, RigOK
  <2> QED
    BY <2>1, <2>2 DEF RigOK, Recs, Commands
<1>2. no \in Nat /\ session.no <= no /\ session' = [up |-> TRUE, no |-> no] /\ session'.up /\ session'.no = no
      /\ wire' = wire /\ (session.up => session.no = no) /\ (~session.up => session.no < no)
  BY <1>1 DEF Opening, Opens
<1> HIDE DEF no
<1>3. /\ task'[t].s = no /\ task'[t].cmd = task[t].cmd /\ task'[t].at = "reading"
      /\ task'[t].n = written + 1 /\ Writes(t, task[t].cmd, no)
      /\ \A u \in Tasks \ {t} : task'[u] = task[u]
      /\ ~Awaited(no) /\ alien' = alien /\ Holds(t) /\ task[t].at = "queued"
  BY <1>2 DEF Opening, Asks, Orderly, Moves
<1>4. /\ todo' \in Seq(Commands) /\ Len(todo') = m + 1
      /\ \A i \in 1 .. m : todo'[i] = todo[i]
      /\ todo'[m + 1].cmd = task[t].cmd /\ todo'[m + 1].n = written + 1 /\ todo'[m + 1].s = no
  BY <1>1, <1>2, <1>3, WritesIs
<1> HIDE DEF m
<1>5. \A u \in Tasks \ {t} : ~ (task[u].s = no /\ task[u].at \in {"second"} \cup Within)
  BY <1>3, HolderIs DEF Awaited
<1>6. \A u \in Tasks : ~Waits(u)
  BY <1>2, <1>3, <1>5 DEF Waits, Within
<1>7. wire = << >> /\ \A i \in 1 .. m : todo[i].s # no
  <2>1. wire = << >>
    BY <1>6 DEF LinkFacts
  <2>2. ASSUME NEW i \in 1 .. m, todo[i].s = no PROVE FALSE
    <3>1. todo[i].s <= session.no
      BY DEF LinkFacts, m
    <3>2. session.up
      BY <1>1, <1>2, <2>2, <3>1
    <3>3. Live(i)
      BY <1>2, <2>2, <3>2 DEF Live
    <3> QED
      BY <1>6, <3>3 DEF LinkFacts, m
  <2> QED
    BY <2>1, <2>2
<1>8. \A i \in 1 .. m + 1 : i \in 1 .. m \/ i = m + 1
  BY <1>1
<1>9. \A i \in 1 .. Len(todo') : Live(i)' => i = m + 1
  BY <1>2, <1>4, <1>7, <1>8 DEF Live
<1>10. \A u \in Tasks : Waits(u)' => u = t
  BY <1>2, <1>3, <1>5 DEF Waits
<1>11. Waits(t)'
  BY <1>2, <1>3 DEF Waits, Within
<1>12. InHand(t)'
  <2>1. wire' = << >> /\ Len(wire') = 0
    BY <1>2, <1>7
  <2> QED
    BY <1>3, <1>4, <1>9, <2>1 DEF InHand
<1>13. \A u \in Tasks : /\ task'[u].s <= session'.no
                        /\ task'[u].at \in Within => task'[u].s = session'.no
                        /\ task'[u].at \in {"second", "draining"} => task'[u].again
  <2>1. ASSUME NEW u \in Tasks \ {t}
        PROVE  task[u].s <= no /\ task[u].at \notin Within /\ (task[u].at \in {"second", "draining"} => task[u].again)
    <3>1. task[u].s <= session.no /\ (task[u].at \in {"second", "draining"} => task[u].again)
      BY DEF LinkFacts
    <3>2. task[u].at \notin Within
      BY <1>3, HolderIs
    <3> QED
      BY <1>1, <1>2, <3>1, <3>2
  <2> QED
    BY <1>2, <1>3, <2>1
<1>14. \A i \in 1 .. Len(todo') : todo'[i].s <= session'.no
  <2>1. \A i \in 1 .. m : todo[i].s <= session.no
    BY DEF LinkFacts, m
  <2>2. \A i \in 1 .. m : todo[i].s <= no
    BY <1>1, <1>2, <2>1
  <2> QED
    BY <1>2, <1>4, <1>8, <2>2
<1>15. ~alien' /\ wire' = << >>
  BY <1>2, <1>3, <1>7 DEF LinkFacts
<1> QED
  BY <1>2, <1>9, <1>10, <1>11, <1>12, <1>13, <1>14, <1>15 DEF LinkFacts

\* What settles waits no more, unless it waited and nothing has come.
LEMMA SettlesIs ==
  ASSUME LineTypeOK, LinkFacts, NEW t \in Tasks, Orderly(t), Settles(t), session'.no = session.no
  PROVE  \A u \in Tasks :
           /\ task'[u].s <= session'.no
           /\ task'[u].at \in Within => task'[u].s = session'.no
           /\ task'[u].at \in {"second", "draining"} => task'[u].again
           /\ task'[u].at \in {"second"} \cup Within => task'[u] = task[u]
<1> SUFFICES ASSUME NEW u \in Tasks
             PROVE  /\ task'[u].s <= session'.no
                    /\ task'[u].at \in Within => task'[u].s = session'.no
                    /\ task'[u].at \in {"second", "draining"} => task'[u].again
                    /\ task'[u].at \in {"second"} \cup Within => task'[u] = task[u]
  OBVIOUS
<1>1. /\ task[u].s <= session.no /\ session.no \in Nat
      /\ task[u].at \in Within => task[u].s = session.no
      /\ task[u].at \in {"second", "draining"} => task[u].again
  BY DEF LinkFacts, LineTypeOK, RigOK
<1>2. CASE task'[u] = task[u]
  BY <1>1, <1>2
<1>3. CASE task'[u] # task[u]
  <2>1. u = t /\ task'[u].at \in {"idle", "queued"} /\ task'[u].s \in {0, task[u].s}
    BY <1>3 DEF Settles, Orderly, Moves
  <2> QED
    BY <1>1, <2>1 DEF Within
<1> QED
  BY <1>2, <1>3

LEMMA CuttingLinks ==
  ASSUME LineTypeOK, LinkFacts, NEW t \in Tasks, Orderly(t), Cutting(t)
  PROVE  LinkFacts'
<1>1. ~session'.up /\ session'.no = session.no /\ wire' = << >> /\ todo' = todo /\ Settles(t)
  BY DEF Cutting, Drops, LineTypeOK, RigOK
<1>2. ~alien'
  BY DEF Cutting, LinkFacts
<1>3. Len(wire') = 0 /\ \A u \in Tasks : ~Waits(u)'
  BY <1>1 DEF Waits
<1>4. \A i \in 1 .. Len(todo') : ~Live(i)' /\ todo'[i].s <= session'.no
  BY <1>1 DEF Live, LinkFacts
<1> QED
  BY <1>1, <1>2, <1>3, <1>4, SettlesIs DEF LinkFacts

LEMMA TakingLinks ==
  ASSUME LineTypeOK, LinkFacts, NEW t \in Tasks, Orderly(t), Taking(t)
  PROVE  LinkFacts' /\ wire' = << >> /\ todo' = << >>
<1>1. /\ Reader(t) /\ LastLine(t) /\ (TakesOne \/ TakesAll) /\ todo' = todo /\ Settles(t)
      /\ session' = session /\ wire \in Seq(Lines) /\ wire # << >>
  BY DEF Taking, TakesOne, TakesAll, LineTypeOK, RigOK
<1>2. Waits(t) /\ Own(t) /\ todo = << >> /\ Len(wire) = 1 /\ (task[t].at \in {"second", "draining"} => task[t].again)
  BY <1>1, ReaderWaits
<1>3. wire' = << >>
  BY <1>1, <1>2, TailIs DEF TakesOne, TakesAll
<1>4. ~alien'
  BY <1>2 DEF Taking, LinkFacts
<1>5. \A u \in Tasks : /\ task'[u].s <= session'.no
                       /\ task'[u].at \in Within => task'[u].s = session'.no
                       /\ task'[u].at \in {"second", "draining"} => task'[u].again
                       /\ task'[u].at \in {"second"} \cup Within => task'[u] = task[u]
  BY <1>1, SettlesIs
<1>6. \A u \in Tasks : Waits(u)' => Waits(u)
  BY <1>1, <1>5 DEF Waits
<1>7. todo' = << >> /\ Len(todo') = 0 /\ Len(wire') = 0
  BY <1>1, <1>2, <1>3
<1>8. \A u \in Tasks : InHand(u)'
  BY <1>3, <1>7 DEF InHand
<1> QED
  BY <1>1, <1>3, <1>4, <1>5, <1>6, <1>7, <1>8 DEF LinkFacts

LEMMA PassingLinks ==
  ASSUME LineTypeOK, QueueInv, LinkFacts, NEW t \in Tasks, Orderly(t), Passing(t)
  PROVE  LinkFacts' /\ todo' = << >> /\ \A u \in Tasks : Waits(u)' => task'[u].at \in {"second", "draining"}
<1>1. /\ Reader(t) /\ TakesOne /\ todo' = todo /\ alien' = alien /\ task[t].at = "reading"
      /\ task'[t].at \in {"second", "draining"} /\ task'[t].s = task[t].s /\ task'[t].n = task[t].n
      /\ session' = session /\ wire \in Seq(Lines) /\ wire # << >> /\ wire' = Tail(wire)
      /\ \A u \in Tasks \ {t} : task'[u] = task[u]
  BY DEF Passing, TakesOne, LineTypeOK, RigOK, Orderly, Moves
<1>2. /\ Waits(t) /\ Own(t) /\ todo = << >> /\ Len(wire) \in {1, 2}
      /\ \A i \in 1 .. Len(wire) : wire[i].n = task[t].n
      /\ Len(wire) = 2 => wire[2].k # "mode"
  BY <1>1, ReaderWaits
<1>3. task'[t].again
  BY <1>2 DEF Passing
<1>4. Len(todo') = 0 /\ Len(wire') = Len(wire) - 1 /\ \A i \in 1 .. Len(wire) - 1 : wire'[i] = wire[i + 1]
  BY <1>1, <1>2, TailIs
<1>5. InHand(t)'
  <2>1. Len(wire') \in {0, 1} /\ (Len(wire') = 1 => wire'[1].k # "mode")
    BY <1>2, <1>4
  <2>2. \A i \in 1 .. Len(wire') : wire'[i].n = task'[t].n
    BY <1>1, <1>2, <1>4
  <2> QED
    BY <1>1, <1>2, <1>4, <2>1, <2>2 DEF InHand
<1>6. Waits(t)' /\ \A u \in Tasks \ {t} : ~Waits(u)' /\ ~Waits(u)
  BY <1>1, <1>2 DEF Waits, Within, LinkFacts
<1>7. \A u \in Tasks : /\ task'[u].s <= session'.no
                       /\ task'[u].at \in Within => task'[u].s = session'.no
                       /\ task'[u].at \in {"second", "draining"} => task'[u].again
  BY <1>1, <1>2, <1>3 DEF LinkFacts, Waits
<1>8. ~alien' /\ session'.up
  BY <1>1, <1>2 DEF LinkFacts, Waits
<1> QED
  BY <1>1, <1>2, <1>4, <1>5, <1>6, <1>7, <1>8 DEF LinkFacts

LEMMA WritingLinks ==
  ASSUME LineTypeOK, QueueInv, LinkFacts, NEW t \in Tasks, Orderly(t), Writing(t)
  PROVE  LinkFacts' /\ wire' = << >>
<1>1. /\ Reader(t) /\ LastLine(t) /\ TakesOne /\ alien' = alien /\ task'[t].s = task[t].s
      /\ session' = session /\ wire \in Seq(Lines) /\ wire # << >> /\ wire' = Tail(wire)
      /\ \A u \in Tasks \ {t} : task'[u] = task[u]
      /\ RigOK /\ task[t].cmd \in Cmds /\ Heal \in Cmds /\ task'[t].s \in Nat
  BY HealIs DEF Writing, TakesOne, LineTypeOK, RigOK, Orderly, Moves, Recs
<1>2. Waits(t) /\ todo = << >> /\ Len(wire) = 1
  BY <1>1, ReaderWaits
<1>3. wire' = << >> /\ Len(wire') = 0 /\ Len(todo) = 0
  <2>1. Tail(wire) = << >>
    BY <1>1, <1>2, TailIs
  <2> QED
    BY <1>1, <1>2, <2>1
<1>4. /\ task'[t].cmd = task[t].cmd /\ task'[t].n = written + 1 /\ task'[t].at \in {"reading", "healing"}
      /\ Writes(t, IF task'[t].at = "healing" THEN Heal ELSE task'[t].cmd, task'[t].s)
  BY DEF Writing, Asks
<1> DEFINE c == IF task'[t].at = "healing" THEN Heal ELSE task'[t].cmd
<1>a. c \in Cmds /\ Writes(t, c, task'[t].s)
  BY <1>1, <1>4
<1> HIDE DEF c
<1>b. /\ todo' \in Seq(Commands) /\ Len(todo') = Len(todo) + 1 /\ todo'[Len(todo) + 1].n = written + 1
      /\ todo'[Len(todo) + 1].s = task'[t].s /\ todo'[Len(todo) + 1].cmd = c
  BY <1>1, <1>a, WritesIs
<1>5. /\ todo' \in Seq(Commands) /\ Len(todo') = 1 /\ todo'[1].n = task'[t].n /\ todo'[1].s = task'[t].s
      /\ todo'[1].cmd = IF task'[t].at = "healing" THEN Heal ELSE task'[t].cmd
  BY <1>3, <1>4, <1>b DEF c
<1>6. InHand(t)'
  BY <1>3, <1>4, <1>5 DEF InHand
<1>7. Waits(t)' /\ \A u \in Tasks \ {t} : ~Waits(u)' /\ ~Waits(u)
  BY <1>1, <1>2, <1>4 DEF Waits, Within, LinkFacts
<1>8. \A u \in Tasks : /\ task'[u].s <= session'.no
                       /\ task'[u].at \in Within => task'[u].s = session'.no
                       /\ task'[u].at \in {"second", "draining"} => task'[u].again
  BY <1>1, <1>2, <1>4 DEF LinkFacts, Waits
<1>9. \A i \in 1 .. Len(todo') : todo'[i].s <= session'.no
  BY <1>5, <1>8
<1> QED
  BY <1>1, <1>3, <1>6, <1>7, <1>8, <1>9 DEF LinkFacts

\* rigctld comes to a command of the session: it is the only one it has, and
\* nothing is on the wire.
LEMMA HeadIs ==
  ASSUME LineTypeOK, LinkFacts, todo # << >>
  PROVE  /\ wire = << >>
         /\ Live(1) => /\ Len(todo) = 1
                       /\ \E w \in Tasks :
                            /\ Waits(w) /\ task[w].at \in {"reading", "healing"} /\ todo[1].n = task[w].n
                            /\ todo[1].cmd = IF task[w].at = "healing" THEN Heal ELSE task[w].cmd
<1>1. todo \in Seq(Commands) /\ Len(todo) \in Nat \ {0} /\ 1 \in 1 .. Len(todo)
  BY TailIs DEF LineTypeOK, RigOK
<1>2. wire = << >>
  BY DEF LinkFacts, InHand
<1>3. ASSUME Live(1)
      PROVE  /\ Len(todo) = 1
             /\ \E w \in Tasks :
                  /\ Waits(w) /\ task[w].at \in {"reading", "healing"} /\ todo[1].n = task[w].n
                  /\ todo[1].cmd = IF task[w].at = "healing" THEN Heal ELSE task[w].cmd
  <2>1. PICK w \in Tasks : Waits(w)
    BY <1>1, <1>3 DEF LinkFacts
  <2>2. InHand(w)
    BY <2>1 DEF LinkFacts
  <2>3. /\ 1 = Len(todo) /\ task[w].at \in {"reading", "healing"} /\ todo[1].n = task[w].n
        /\ todo[1].cmd = IF task[w].at = "healing" THEN Heal ELSE task[w].cmd
    BY <1>1, <1>3, <2>2 DEF InHand
  <2> QED
    BY <2>1, <2>3
<1> QED
  BY <1>2, <1>3

LEMMA AnswerLinks ==
  ASSUME LineTypeOK, LinkFacts, RigctldAnswers
  PROVE  LinkFacts'
<1> DEFINE c == Head(todo)
<1>1. /\ todo # << >> /\ todo' = Tail(todo) /\ c \in Commands /\ c = todo[1]
      /\ UNCHANGED <<task, session, alien>>
  BY AnswersIs
<1>2. PICK kinds \in Answers(c.cmd) :
        /\ kinds \in Seq(Kinds)
        /\ wire' = IF session.up /\ session.no = c.s THEN wire \o Said(kinds, c) ELSE wire
  BY AnswersIs
<1> HIDE DEF c
<1>3. /\ todo \in Seq(Commands) /\ Tail(todo) \in Seq(Commands) /\ Len(todo) \in Nat \ {0}
      /\ Len(Tail(todo)) = Len(todo) - 1
      /\ \A i \in 1 .. Len(todo) - 1 : Tail(todo)[i] = todo[i + 1]
  BY <1>1, TailIs DEF LineTypeOK, RigOK
<1>4. wire = << >> /\ c.cmd \in Cmds /\ c.n \in Nat
  BY <1>1, HeadIs DEF Commands
<1>5. \A i \in 1 .. Len(todo') : i + 1 \in 1 .. Len(todo) /\ todo'[i] = todo[i + 1]
  BY <1>1, <1>3
<1>6. \A i \in 1 .. Len(todo') : todo'[i].s <= session'.no
  BY <1>1, <1>5 DEF LinkFacts
<1>7. \A i \in 1 .. Len(todo') : Live(i)' => Live(i + 1)
  BY <1>1, <1>5 DEF Live
<1>8. \A u \in Tasks : Waits(u)' <=> Waits(u)
  BY <1>1 DEF Waits
<1>9. \A i \in 1 .. Len(todo') : Live(i)' => \E u \in Tasks : Waits(u)'
  BY <1>5, <1>7, <1>8 DEF LinkFacts
<1>10. CASE session.up /\ session.no = c.s
  <2>1. Live(1)
    BY <1>1, <1>10 DEF Live
  <2>2. PICK w \in Tasks :
          /\ Waits(w) /\ task[w].at \in {"reading", "healing"} /\ c.n = task[w].n
          /\ c.cmd = IF task[w].at = "healing" THEN Heal ELSE task[w].cmd
    BY <1>1, <2>1, HeadIs
  <2>3. Len(todo) = 1 /\ todo' = << >> /\ Len(todo') = 0
    <3>1. Len(todo) = 1
      BY <1>1, <2>1, HeadIs
    <3>2. Tail(todo) = << >>
      BY <1>1, <1>3, <3>1, TailIs
    <3> QED
      BY <1>1, <3>1, <3>2
  <2>4. /\ wire' = Said(kinds, c) /\ wire' \in Seq(Lines) /\ Len(wire') = Len(kinds)
        /\ \A i \in 1 .. Len(kinds) : wire'[i] = [k |-> kinds[i], n |-> c.n, p |-> poisoned]
    <3>1. /\ Said(kinds, c) \in Seq(Lines) /\ Len(Said(kinds, c)) = Len(kinds)
          /\ \A i \in 1 .. Len(kinds) : Said(kinds, c)[i] = [k |-> kinds[i], n |-> c.n, p |-> poisoned]
      BY <1>1, <1>2, SaidIs DEF LineTypeOK, RigOK
    <3>2. << >> \o Said(kinds, c) = Said(kinds, c)
      BY <3>1
    <3> QED
      BY <1>2, <1>4, <1>10, <3>1, <3>2
  <2>5. /\ Len(kinds) \in 0 .. 2
        /\ Len(kinds) = 2 => /\ kinds[2] # "mode"
                             /\ \/ c.cmd = "m" /\ ~poisoned /\ kinds[1] = "mode"
                                \/ c.cmd = "l" /\ kinds[1] = "value"
        /\ Len(kinds) >= 1 /\ kinds[1] = "mode" => Len(kinds) = 2
    BY <1>2, <1>4, AnswerIs
  <2>6. \A i \in 1 .. Len(wire') : wire'[i].n = c.n /\ wire'[i].k = kinds[i] /\ wire'[i].p = poisoned
    <3> TAKE i \in 1 .. Len(wire')
    <3>1. wire'[i] = [k |-> kinds[i], n |-> c.n, p |-> poisoned]
      BY <2>4
    <3> QED
      BY <3>1
  <2>7. InHand(w)'
    <3>1. ASSUME Len(wire') = 2
          PROVE  /\ wire'[2].k # "mode" /\ task'[w].at = "reading"
                 /\ \/ task'[w].cmd = "m" /\ wire'[1].k = "mode" /\ ~wire'[1].p
                    \/ task'[w].cmd = "l" /\ wire'[1].k = "value"
      <4>1. 1 \in 1 .. Len(wire') /\ 2 \in 1 .. Len(wire') /\ Len(kinds) = 2
        BY <2>4, <3>1
      <4>2. c.cmd \in {"m", "l"} /\ task[w].at = "reading" /\ c.cmd = task[w].cmd
        BY <2>2, <2>5, <4>1, HealIs
      <4> QED
        BY <1>1, <2>5, <2>6, <4>1, <4>2
    <3>2. Len(wire') >= 1 /\ wire'[1].k = "mode" => Len(wire') = 2
      <4>1. Len(wire') >= 1 => 1 \in 1 .. Len(wire')
        BY <2>4
      <4> QED
        BY <2>4, <2>5, <2>6, <4>1
    <3>3. Len(wire') <= 2
      BY <2>4, <2>5
    <3>4. \A i \in 1 .. Len(wire') : wire'[i].n = task'[w].n
      BY <1>1, <2>2, <2>6
    <3> QED
      BY <2>3, <3>1, <3>2, <3>3, <3>4 DEF InHand
  <2>8. \A u \in Tasks : Waits(u)' => InHand(u)'
    BY <1>8, <2>2, <2>7 DEF LinkFacts
  <2>9. session'.up /\ \E u \in Tasks : Waits(u)'
    BY <1>1, <1>8, <1>10, <2>2
  <2> QED
    BY <1>1, <1>6, <1>8, <1>9, <2>8, <2>9 DEF LinkFacts
<1>11. CASE ~ (session.up /\ session.no = c.s)
  <2>1. wire' = << >> /\ Len(wire') = 0
    BY <1>2, <1>4, <1>11
  <2>2. ASSUME NEW u \in Tasks, Waits(u)' PROVE InHand(u)'
    <3>1. InHand(u)
      BY <1>8, <2>2 DEF LinkFacts
    <3>2. \A i \in 1 .. Len(todo') : Live(i)' =>
            /\ i = Len(todo') /\ todo'[i].n = task'[u].n /\ task'[u].at \in {"reading", "healing"}
            /\ todo'[i].cmd = IF task'[u].at = "healing" THEN Heal ELSE task'[u].cmd
      <4> TAKE i \in 1 .. Len(todo')
      <4> HAVE Live(i)'
      <4>1. /\ i + 1 = Len(todo) /\ todo[i + 1].n = task[u].n /\ task[u].at \in {"reading", "healing"}
            /\ todo[i + 1].cmd = IF task[u].at = "healing" THEN Heal ELSE task[u].cmd
        BY <1>5, <1>7, <3>1 DEF InHand
      <4>2. Len(todo') = Len(todo) - 1
        BY <1>1, <1>3
      <4>3. i = Len(todo')
        <5>1. i \in Nat /\ Len(todo) \in Nat
          BY <1>3, <4>2
        <5>2. i + 1 = Len(todo)
          BY <4>1
        <5> QED
          BY ONLY <5>1, <5>2, <4>2
      <4> QED
        BY <1>1, <1>5, <4>1, <4>3
    <3> QED
      BY <2>1, <3>2 DEF InHand
  <2> QED
    BY <1>1, <1>6, <1>8, <1>9, <2>1, <2>2 DEF LinkFacts
<1> QED
  BY <1>10, <1>11

\* Commands that are lost answer nothing.
LEMMA LosesLinks ==
  ASSUME LineTypeOK, LinkFacts, RigctldLoses
  PROVE  LinkFacts'
<1>1. todo # << >> /\ todo' = Tail(todo) /\ UNCHANGED <<task, session, wire, alien>>
  BY DEF RigctldLoses, marks
<1>3. /\ todo \in Seq(Commands) /\ Len(todo) \in Nat \ {0} /\ Len(Tail(todo)) = Len(todo) - 1
      /\ \A i \in 1 .. Len(todo) - 1 : Tail(todo)[i] = todo[i + 1]
  BY <1>1, TailIs DEF LineTypeOK, RigOK
<1>4. wire = << >> /\ wire' = << >> /\ Len(wire') = 0
  BY <1>1, HeadIs
<1>5. \A i \in 1 .. Len(todo') : i + 1 \in 1 .. Len(todo) /\ todo'[i] = todo[i + 1]
  BY <1>1, <1>3
<1>6. \A i \in 1 .. Len(todo') : todo'[i].s <= session'.no
  BY <1>1, <1>5 DEF LinkFacts
<1>7. \A i \in 1 .. Len(todo') : Live(i)' => Live(i + 1)
  BY <1>1, <1>5 DEF Live
<1>8. \A u \in Tasks : Waits(u)' <=> Waits(u)
  BY <1>1 DEF Waits
<1>9. \A i \in 1 .. Len(todo') : Live(i)' => \E u \in Tasks : Waits(u)'
  BY <1>5, <1>7, <1>8 DEF LinkFacts
<1>10. ASSUME NEW u \in Tasks, Waits(u)' PROVE InHand(u)'
  <3>1. InHand(u)
    BY <1>8, <1>10 DEF LinkFacts
  <3>2. \A i \in 1 .. Len(todo') : Live(i)' =>
          /\ i = Len(todo') /\ todo'[i].n = task'[u].n /\ task'[u].at \in {"reading", "healing"}
          /\ todo'[i].cmd = IF task'[u].at = "healing" THEN Heal ELSE task'[u].cmd
    <4> TAKE i \in 1 .. Len(todo')
    <4> HAVE Live(i)'
    <4>1. /\ i + 1 = Len(todo) /\ todo[i + 1].n = task[u].n /\ task[u].at \in {"reading", "healing"}
          /\ todo[i + 1].cmd = IF task[u].at = "healing" THEN Heal ELSE task[u].cmd
      BY <1>5, <1>7, <3>1 DEF InHand
    <4>2. Len(todo') = Len(todo) - 1
      BY <1>1, <1>3
    <4>3. i = Len(todo')
      <5>1. i \in Nat /\ Len(todo) \in Nat
        BY <1>3, <4>2
      <5>2. i + 1 = Len(todo)
        BY <4>1
      <5> QED
        BY ONLY <5>1, <5>2, <4>2
    <4> QED
      BY <1>1, <1>5, <4>1, <4>3
  <3> QED
    BY <1>4, <3>2 DEF InHand
<1> QED
  BY <1>1, <1>4, <1>6, <1>8, <1>9, <1>10 DEF LinkFacts

LEMMA CallsLinks ==
  ASSUME LineTypeOK, QueueInv, LinkFacts, NEW t \in Tasks, NEW op \in Ops, Calls(t, op)
  PROVE  LinkFacts' /\ \A u \in Tasks : Waits(u)' => task'[u] = task[u]
<1>1. /\ task'[t].at = "queued" /\ task'[t].s = 0 /\ task[t] = Idle
      /\ \A u \in Tasks \ {t} : task'[u] = task[u]
      /\ UNCHANGED <<session, wire, todo, alien>> /\ session.no \in Nat
  BY CallsQueue DEF Calls, rig, Moves, LineTypeOK, RigOK
<1>2. \A u \in Tasks : Waits(u)' => u # t /\ Waits(u) /\ task'[u] = task[u]
  BY <1>1 DEF Waits, Within
<1>3. \A u \in Tasks : Waits(u) => Waits(u)'
  <2>1. Idle.at = "idle"
    BY DEF Idle
  <2> QED
    BY <1>1, <2>1 DEF Waits, Within
<1>4. \A u \in Tasks : Waits(u)' => InHand(u)'
  BY <1>1, <1>2 DEF LinkFacts, InHand, Live
<1>5. \A u \in Tasks : /\ task'[u].s <= session'.no
                       /\ task'[u].at \in Within => task'[u].s = session'.no
                       /\ task'[u].at \in {"second", "draining"} => task'[u].again
  BY <1>1 DEF LinkFacts, Within
<1> QED
  BY <1>1, <1>2, <1>3, <1>4, <1>5 DEF LinkFacts, Live

\* Once a task has taken a step nothing is on the wire, but the second line
\* of what it reads.
LEMMA StepLinkFacts ==
  ASSUME LineTypeOK, QueueInv, LinkFacts, NEW t \in Tasks, Step(t), ~collided'
  PROVE  /\ LinkFacts'
         /\ wire' = << >> \/ \A u \in Tasks : Waits(u)' => task'[u].at \in {"second", "draining"}
<1>1. Orderly(t)
  BY StepOrderly
<1>2. Opening(t) \/ Cutting(t) \/ Taking(t) \/ Passing(t) \/ Writing(t)
  BY StepLinks
<1>3. CASE Opening(t)
  BY <1>1, <1>3, OpeningLinks
<1>4. CASE Cutting(t)
  BY <1>1, <1>4, CuttingLinks DEF Cutting, Drops
<1>5. CASE Taking(t)
  BY <1>1, <1>5, TakingLinks
<1>6. CASE Passing(t)
  BY <1>1, <1>6, PassingLinks
<1>7. CASE Writing(t)
  BY <1>1, <1>7, WritingLinks
<1> QED
  BY <1>2, <1>3, <1>4, <1>5, <1>6, <1>7

LEMMA LinkStep ==
  ASSUME LineTypeOK, QueueInv, LinkInv, [RigNext]_rigVars
  PROVE  LinkInv'
<1> SUFFICES ASSUME ~collided' PROVE LinkFacts'
  BY DEF LinkInv
<1>1. ASSUME NEW t \in Tasks, Step(t) PROVE LinkFacts'
  <2>1. ~collided
    BY <1>1, StepLinks
  <2> QED
    BY <1>1, <2>1, StepLinkFacts DEF LinkInv
<1>2. ASSUME NEW t \in Tasks, NEW op \in Ops, Calls(t, op) PROVE LinkFacts'
  BY <1>2, CallsLinks DEF LinkInv, Calls
<1>3. CASE RigctldAnswers
  BY <1>3, AnswerLinks DEF LinkInv, RigctldAnswers
<1>4. CASE RigctldLoses
  BY <1>4, LosesLinks DEF LinkInv, RigctldLoses, marks
<1>5. CASE Poisons \/ Arms \/ Disarms \/ UNCHANGED rigVars
  <2>1. UNCHANGED <<task, session, wire, todo, alien, collided>>
    BY <1>5 DEF Poisons, Arms, Disarms, rigVars, rig, marks
  <2> QED
    BY <2>1 DEF LinkInv, LinkFacts, Waits, Live, InHand
<1> QED
  BY <1>1, <1>2, <1>3, <1>4, <1>5 DEF RigNext

LEMMA LinkInit == RigInit => LinkInv
<1> SUFFICES ASSUME RigInit PROVE LinkFacts
  BY DEF LinkInv
<1>1. /\ \A t \in Tasks : task[t] = Idle
      /\ session.no = 0 /\ ~session.up /\ wire = << >> /\ todo = << >> /\ ~alien
  BY DEF RigInit
<1>2. Idle.s = 0 /\ Idle.at = "idle" /\ Len(todo) = 0
  BY <1>1 DEF Idle
<1> QED
  BY <1>1, <1>2 DEF LinkFacts, Waits, Within

(***************************************************************************)
(* A method that succeeds has read its own answer, unless reads have       *)
(* collided: for any number of coroutines, whatever is lost, dropped,      *)
(* poisoned or late.                                                       *)
(***************************************************************************)
THEOREM MethodsReadTheirOwn == RigSpec => []RepliesAreOwn
<1>1. RigInit => LineTypeOK /\ QueueInv /\ LinkInv
  BY TypeInit, LinkInit
<1>2. LineTypeOK /\ QueueInv /\ LinkInv /\ [RigNext]_rigVars => LineTypeOK' /\ QueueInv' /\ LinkInv'
  BY TypeStep, LinkStep
<1>3. LinkInv => RepliesAreOwn
  BY DEF LinkInv, LinkFacts, RepliesAreOwn
<1> QED
  BY <1>1, <1>2, <1>3, PTL DEF RigSpec

-----------------------------------------------------------------------------
(***************************************************************************)
(* No frequency reaches a rig on the air. The callers look at the flags    *)
(* before they queue; what follows says why that is enough. A method that  *)
(* keys the rig holds TX armed, so none to tune queues behind it; one to   *)
(* tune that is ahead of it has its command carried out first; and the     *)
(* flags are right about the rig, which the answer to a PTT-off settles.   *)
(***************************************************************************)
Clear ==
  /\ onair \/ (\E i \in 1 .. Len(todo) : todo[i].cmd = "T1") =>
       ptt_on \/ \E t \in Tasks : task[t].op = "key"
  /\ \A t \in Tasks : task[t].op = "tune" => ~onair /\ \A i \in 1 .. Len(todo) : todo[i].cmd # "T1"
  /\ \A i \in 1 .. Len(todo) : todo[i].cmd = "F" => ~onair /\ \A j \in 1 .. i : todo[j].cmd # "T1"

\* A method that tunes is ahead of every one that keys in the queue.
TunesFirst == \A i, j \in 1 .. Len(queue) :
                task[queue[i]].op = "key" /\ task[queue[j]].op = "tune" => j < i

AirFacts ==
  /\ \A t \in Tasks : task[t].op = "key" => armed
  /\ TunesFirst
  /\ \A t \in Tasks : Waits(t) /\ task[t].op = "unkey" /\ task[t].at = "reading"
                        /\ wire # << >> /\ wire[1].k = "ok" => ~onair
  /\ ~uncertain => Clear

AirInv == ~overtaken /\ ~collided => AirFacts

\* What a step of t tells the flags, and rigctld.
Signals(t) ==
  /\ task'[t] = Idle /\ todo' = todo
  /\ \E good \in BOOLEAN :
       /\ Flagged(t, good)
       /\ good /\ task[t].op = "unkey" => Reader(t) /\ task[t].at = "reading" /\ Kind = "ok"

Silent(t) == task'[t].op = task[t].op /\ UNCHANGED flags

Tells(t) ==
  \/ todo' = todo
  \/ /\ Holds(t) /\ task'[t].op = task[t].op /\ task'[t] # Idle
     /\ \E c \in {Heal, task[t].cmd}, no \in Nat : Writes(t, c, no)

LEMMA StepTells ==
  ASSUME LineTypeOK, NEW t \in Tasks, Step(t), ~collided'
  PROVE  Tells(t) /\ (task'[t] = Idle => todo' = todo)
<1>1. Orderly(t)
  BY StepOrderly
<1>2. CASE todo' = todo
  BY <1>2 DEF Tells
<1>3. CASE todo' # todo
  <2>1. /\ task'[t].at \in {"reading", "healing"}
        /\ \E c \in {Heal, task[t].cmd} : Writes(t, c, task'[t].s)
    <3>1. Opening(t) \/ Writing(t)
      BY <1>3, StepLinks DEF Cutting, Taking, Passing
    <3> QED
      BY <3>1 DEF Opening, Writing, Asks, Heal
  <2>2. task'[t] # Idle /\ task'[t].op = task[t].op
    BY <1>1, <2>1 DEF Orderly, SameOp, Idle
  <2>3. Holds(t)
    BY <1>1, <2>1, <2>2 DEF Orderly, Queues, Stays, Leaves, Requeues, Departs
  <2>4. task'[t].s \in Nat
    BY <1>1 DEF Orderly, Moves, Recs
  <2> QED
    BY <2>1, <2>2, <2>3, <2>4 DEF Tells
<1> QED
  BY <1>2, <1>3

LEMMA StepSignals ==
  ASSUME LineTypeOK, NEW t \in Tasks, Step(t), ~collided'
  PROVE  Signals(t) \/ Silent(t)
<1>0. task \in [Tasks -> Recs] /\ task[t] \in Recs /\ OpOK(task[t]) /\ written + 1 \in Nat
      /\ session.no \in Nat /\ ~ Collides(t)
  BY DEF LineTypeOK, RigOK, OpInv, Collides
<1>b. ASSUME Raises(t) PROVE Signals(t)
  <2>1. task'[t] = Idle /\ todo' = todo
    BY <1>b, EndMoves, StepTells
  <2> QED
    BY <1>b, <2>1 DEF Signals, Raises
<1>c. ASSUME NEW own, Returns(t, own), task[t].cmd # "T0" PROVE Signals(t)
  <2>1. task'[t] = Idle /\ todo' = todo
    BY <1>c, EndMoves, StepTells
  <2>2. task[t].op # "unkey"
    BY <1>0, <1>c DEF OpOK, Suits
  <2> QED
    BY <1>c, <2>1, <2>2 DEF Signals, Returns
<1>d. ASSUME Fails(t) PROVE Signals(t) \/ Silent(t)
  <2>1. CASE task[t].cmd \in DOMAIN Fallback
    <3>1. task' = [task EXCEPT ![t].cmd = Fallback[task[t].cmd], ![t].at = "queued"] /\ UNCHANGED flags
      BY <1>d, <2>1 DEF Fails
    <3>2. task'[t].op = task[t].op
      BY <1>0, <3>1 DEF Recs
    <3> QED
      BY <3>1, <3>2 DEF Silent
  <2>2. CASE task[t].cmd \notin DOMAIN Fallback
    BY <1>b, <1>d, <2>2 DEF Fails
  <2> QED
    BY <2>1, <2>2
<1>1. CASE Begins(t)
  <2> DEFINE no == IF session.up THEN session.no ELSE session.no + 1
  <2>1. Reading(t, task[t].cmd, no) /\ UNCHANGED flags
    BY <1>0, <1>1 DEF Begins
  <2>2. no \in Nat /\ task[t].cmd \in Cmds
    BY <1>0 DEF Recs
  <2> HIDE DEF no
  <2>3. task'[t].op = task[t].op
    BY <1>0, <2>1, <2>2, ReadingMoves
  <2> QED
    BY <2>1, <2>3 DEF Silent
<1>2. CASE BeginFails(t) \/ ReadFails(t)
  BY <1>2, <1>d DEF BeginFails, ReadFails
<1>3. CASE HealFails(t) \/ SecondFails(t)
  BY <1>3, <1>b DEF HealFails, SecondFails
<1>4. CASE DrainEnds(t)
  <2>1. Returns(t, task[t].again) /\ task[t].cmd # "T0"
    BY <1>0, <1>4 DEF DrainEnds, OpOK
  <2> QED
    BY <2>1, <1>c
<1>5. CASE Skips(t)
  BY <1>5 DEF Skips, Silent
<1>6. CASE ReadsFrequency(t)
  <2>1. task[t].cmd # "T0"
    BY <1>6 DEF ReadsFrequency, Reads
  <2>2. CASE /\ task' = [task EXCEPT ![t].cmd = ";f", ![t].at = "queued", ![t].again = TRUE]
             /\ UNCHANGED flags
    <3>1. task'[t].op = task[t].op
      BY <1>0, <2>2 DEF Recs
    <3> QED
      BY <2>2, <3>1 DEF Silent
  <2>3. CASE Returns(t, Own(t)) \/ Raises(t)
    BY <1>b, <1>c, <2>1, <2>3
  <2> QED
    BY <1>6, <2>2, <2>3 DEF ReadsFrequency
<1>7. CASE ReadsMode(t)
  <2>1. task[t].cmd # "T0"
    BY <1>7 DEF ReadsMode, Reads
  <2>2. CASE task' = [task EXCEPT ![t].at = "second", ![t].again = Own(t)] /\ UNCHANGED flags
    <3>1. task'[t].op = task[t].op
      BY <1>0, <2>2 DEF Recs
    <3> QED
      BY <2>2, <3>1 DEF Silent
  <2>3. CASE Returns(t, Own(t)) \/ Raises(t)
    BY <1>b, <1>c, <2>1, <2>3
  <2> QED
    BY <1>0, <1>7, <2>2, <2>3 DEF ReadsMode
<1>8. CASE ReadsSecond(t)
  <2>1. task[t].cmd # "T0"
    BY <1>0, <1>8 DEF ReadsSecond, OpOK
  <2>2. Returns(t, Own(t) /\ task[t].again) \/ Raises(t)
    BY <1>8 DEF ReadsSecond
  <2> QED
    BY <1>b, <1>c, <2>1, <2>2
<1>9. CASE ReadsSet(t)
  <2>1. Reader(t) /\ task[t].at = "reading"
    BY <1>9 DEF ReadsSet, Reads, Reader, Within
  <2>2. CASE task' = [task EXCEPT ![t].at = "healing", ![t].n = written + 1, ![t].again = TRUE] /\ UNCHANGED flags
    <3>1. task'[t].op = task[t].op
      BY <1>0, <2>2 DEF Recs
    <3> QED
      BY <2>2, <3>1 DEF Silent
  <2>3. CASE Kind = "ok" /\ Returns(t, Own(t))
    <3>1. task'[t] = Idle /\ todo' = todo
      BY <2>3, EndMoves, StepTells
    <3>2. Flagged(t, TRUE)
      BY <2>3 DEF Returns
    <3> QED
      BY <2>1, <2>3, <3>1, <3>2 DEF Signals
  <2>4. CASE Raises(t)
    BY <1>b, <2>4
  <2> QED
    BY <1>9, <2>2, <2>3, <2>4 DEF ReadsSet
<1>10. CASE Heals(t)
  <2>1. CASE UNCHANGED <<task, flags>>
    BY <2>1 DEF Silent
  <2>2. CASE Raises(t)
    BY <1>b, <2>2
  <2>3. CASE Reading(t, task[t].cmd, task[t].s) /\ UNCHANGED flags
    <3>1. task[t].s \in Nat /\ task[t].cmd \in Cmds
      BY <1>0 DEF Recs
    <3>2. task'[t].op = task[t].op
      BY <1>0, <2>3, <3>1, ReadingMoves
    <3> QED
      BY <2>3, <3>2 DEF Silent
  <2>4. CASE task' = [task EXCEPT ![t].cmd = "f", ![t].at = "queued"] /\ UNCHANGED flags
    <3>1. task'[t].op = task[t].op
      BY <1>0, <2>4 DEF Recs
    <3> QED
      BY <2>4, <3>1 DEF Silent
  <2> QED
    BY <1>10, <2>1, <2>2, <2>3, <2>4 DEF Heals
<1>11. CASE ReadsRaw(t)
  <2>1. task[t].cmd # "T0"
    BY <1>11 DEF ReadsRaw
  <2>2. Fails(t) \/ Returns(t, Own(t))
    BY <1>11 DEF ReadsRaw
  <2> QED
    BY <1>c, <1>d, <2>1, <2>2
<1>12. CASE ReadsLevel(t)
  <2>1. task[t].cmd # "T0"
    BY <1>12 DEF ReadsLevel, Reads
  <2>2. CASE task' = [task EXCEPT ![t].at = "draining", ![t].again = Own(t)] /\ UNCHANGED flags
    <3>1. task'[t].op = task[t].op
      BY <1>0, <2>2 DEF Recs
    <3> QED
      BY <2>2, <3>1 DEF Silent
  <2>3. CASE Returns(t, Own(t)) \/ Raises(t)
    BY <1>b, <1>c, <2>1, <2>3
  <2> QED
    BY <1>12, <2>2, <2>3 DEF ReadsLevel
<1>13. CASE Drains(t)
  <2>1. task[t].cmd # "T0"
    BY <1>0, <1>13 DEF Drains, OpOK
  <2>2. UNCHANGED <<task, flags>> \/ Returns(t, task[t].again) \/ Raises(t)
    BY <1>13 DEF Drains
  <2>3. CASE UNCHANGED <<task, flags>>
    BY <2>3 DEF Silent
  <2> QED
    BY <1>b, <1>c, <2>1, <2>2, <2>3
<1> QED
  BY <1>1, <1>2, <1>3, <1>4, <1>5, <1>6, <1>7, <1>8, <1>9, <1>10, <1>11, <1>12, <1>13 DEF Step

\* What a command of t is for.
LEMMA SpokenIs ==
  ASSUME LineTypeOK, NEW t \in Tasks, NEW c \in {Heal, task[t].cmd}
  PROVE  c \in Cmds /\ (c = "T1" => task[t].op = "key") /\ (c = "F" => task[t].op = "tune")
<1>1. task[t].cmd \in Cmds /\ OpOK(task[t])
  BY DEF LineTypeOK, RigOK, OpInv, Recs
<1>2. Heal # "T1" /\ Heal # "F" /\ Heal \in Cmds
  BY HealIs DEF Sets
<1> QED
  BY <1>1, <1>2 DEF OpOK, Suits

\* A method keeps its kind from call to end.
LEMMA OpsKept ==
  ASSUME LineTypeOK, NEW t \in Tasks, Orderly(t)
  PROVE  \A u \in Tasks : task'[u].op \in {"key", "unkey", "tune"} => task'[u].op = task[u].op
BY IdleOK DEF Orderly, Moves, SameOp

LEMMA StepTunesFirst ==
  ASSUME LineTypeOK, QueueInv, TunesFirst, NEW t \in Tasks, Orderly(t)
  PROVE  TunesFirst'
<1>1. \A u \in Tasks : task'[u].op \in {"key", "unkey", "tune"} => task'[u].op = task[u].op
  BY OpsKept
<1>2. queue \in Seq(Tasks) /\ \A i \in 1 .. Len(queue) : queue[i] \in Tasks
  BY DEF LineTypeOK, RigOK
<1>3. CASE queue' = queue
  BY <1>1, <1>2, <1>3 DEF TunesFirst
<1>4. CASE Leaves(t) \/ Requeues(t)
  <2> DEFINE rest == Tail(queue)
             m == Len(queue) - 1
  <2>1. Holds(t)
    BY <1>4 DEF Leaves, Requeues
  <2>2. /\ rest \in Seq(Tasks) /\ Len(rest) = m /\ m \in Nat
        /\ \A i \in 1 .. m : rest[i] = queue[i + 1] /\ rest[i] \in Tasks /\ i + 1 \in 1 .. Len(queue)
    BY <2>1, HeadGoes
  <2> HIDE DEF rest, m
  <2>3. ASSUME NEW i \in 1 .. m, NEW j \in 1 .. m, task'[rest[i]].op = "key", task'[rest[j]].op = "tune"
        PROVE  j < i
    <3>1. task[queue[i + 1]].op = "key" /\ task[queue[j + 1]].op = "tune"
      BY <1>1, <2>2, <2>3
    <3>2. j + 1 < i + 1
      BY <2>2, <3>1 DEF TunesFirst
    <3> QED
      BY <2>2, <3>2
  <2>4. CASE Leaves(t)
    <3>1. queue' = rest
      BY <2>4 DEF Leaves, rest
    <3> QED
      BY <2>2, <2>3, <3>1 DEF TunesFirst
  <2>5. CASE Requeues(t)
    <3> DEFINE q == Append(rest, t)
    <3>1. queue' = q /\ task[t].op \notin {"key", "tune"}
      BY <2>5 DEF Requeues, rest
    <3>2. /\ q \in Seq(Tasks) /\ Len(q) = m + 1 /\ \A i \in 1 .. m : q[i] = rest[i]
          /\ q[m + 1] = t
      BY <2>2, AppendIs
    <3> HIDE DEF q
    <3>3. ASSUME NEW i \in 1 .. m + 1, NEW j \in 1 .. m + 1, task'[q[i]].op = "key", task'[q[j]].op = "tune"
          PROVE  j < i
      <4>1. i # m + 1 /\ j # m + 1
        BY <1>1, <3>1, <3>2, <3>3
      <4>2. i \in 1 .. m /\ j \in 1 .. m
        BY <2>2, <4>1
      <4> QED
        BY <2>3, <3>2, <3>3, <4>2
    <3> QED
      BY <3>1, <3>2, <3>3 DEF TunesFirst
  <2> QED
    BY <1>4, <2>4, <2>5
<1> QED
  BY <1>3, <1>4 DEF Orderly, Queues, Stays, Departs

LEMMA CallsTunesFirst ==
  ASSUME LineTypeOK, QueueInv, TunesFirst, NEW t \in Tasks, NEW op \in Ops, Calls(t, op),
         op = "tune" => \A u \in Tasks : task[u].op # "key"
  PROVE  TunesFirst'
<1> DEFINE m == Len(queue)
           q == Append(queue, t)
<1>1. /\ queue' = q /\ Moves(t) /\ task'[t].op = op /\ task[t] = Idle /\ queue \in Seq(Tasks)
      /\ \A u \in Tasks \ {t} : task'[u] = task[u]
  BY CallsQueue DEF Moves, LineTypeOK, RigOK
<1>2. /\ q \in Seq(Tasks) /\ Len(q) = m + 1 /\ m \in Nat /\ \A i \in 1 .. m : q[i] = queue[i]
      /\ q[m + 1] = t /\ \A i \in 1 .. m : queue[i] \in Tasks
  BY <1>1, AppendIs
<1>3. \A i \in 1 .. m : queue[i] # t
  BY <1>1, IdleOK DEF QueueInv, Within
<1>4. \A i, j \in 1 .. m : task[queue[i]].op = "key" /\ task[queue[j]].op = "tune" => j < i
  BY DEF TunesFirst
<1> HIDE DEF q, m
<1>5. ASSUME NEW i \in 1 .. m + 1, NEW j \in 1 .. m + 1, task'[q[i]].op = "key", task'[q[j]].op = "tune"
      PROVE  j < i
  <2>1. CASE i \in 1 .. m /\ j \in 1 .. m
    BY <1>1, <1>2, <1>3, <1>4, <1>5, <2>1
  <2>2. CASE i \in 1 .. m /\ j = m + 1
    <3>1. op = "tune" /\ task[queue[i]].op = "key" /\ queue[i] \in Tasks
      BY <1>1, <1>2, <1>3, <1>5, <2>2
    <3> QED
      BY <3>1
  <2>3. CASE i = m + 1
    <3>1. op = "key"
      BY <1>1, <1>2, <1>5, <2>3
    <3>2. j # m + 1
      BY <1>1, <1>2, <1>5, <3>1
    <3> QED
      BY <1>2, <2>3, <3>2
  <2> QED
    BY <1>2, <2>1, <2>2, <2>3
<1> QED
  BY <1>1, <1>2, <1>5 DEF TunesFirst

\* A task at the head that keys has no tune beside it.
LEMMA KeyAlone ==
  ASSUME LineTypeOK, QueueInv, TunesFirst, NEW t \in Tasks, Holds(t), task[t].op = "key",
         NEW u \in Tasks, task[u].op = "tune"
  PROVE  FALSE
<1>1. OpOK(task[u]) /\ task[u] \in Recs
  BY DEF LineTypeOK, RigOK, OpInv
<1>2. task[u].at \in {"queued"} \cup Within
  <2>1. task[u].at # "idle"
    BY <1>1, IdleOK DEF OpOK
  <2>2. task[u].at # "second"
    BY <1>1 DEF OpOK, Suits
  <2>3. task[u].at \in RigPlaces
    BY <1>1 DEF Recs
  <2> QED
    BY <2>1, <2>2, <2>3 DEF RigPlaces
<1>3. PICK j \in 1 .. Len(queue) : queue[j] = u
  BY <1>2 DEF QueueInv
<1>4. queue[1] = t /\ Len(queue) \in Nat \ {0} /\ 1 \in 1 .. Len(queue)
  BY HolderIs
<1>5. j < 1
  BY <1>3, <1>4 DEF TunesFirst
<1> QED
  BY <1>3, <1>4, <1>5

LEMMA StepClear ==
  ASSUME LineTypeOK, QueueInv, LinkFacts, AirFacts, NEW t \in Tasks, Orderly(t), Tells(t),
         Signals(t) \/ Silent(t), onair' = onair, ~uncertain'
  PROVE  Clear'
<1>0. \A u \in Tasks : task'[u].op \in {"key", "unkey", "tune"} => task'[u].op = task[u].op
  BY OpsKept
<1>a. \A u \in Tasks \ {t} : task'[u] = task[u]
  BY DEF Orderly, Moves
<1>1. CASE Signals(t)
  <2>1. task'[t] = Idle /\ todo' = todo /\ Idle.op = "none"
    BY <1>1, IdleOK DEF Signals
  <2>2. PICK good \in BOOLEAN :
          /\ Flagged(t, good)
          /\ good /\ task[t].op = "unkey" => Reader(t) /\ task[t].at = "reading" /\ Kind = "ok"
    BY <1>1 DEF Signals
  <2>3. CASE task[t].op = "unkey" /\ good
    <3>1. Waits(t) /\ todo = << >> /\ wire \in Seq(Lines) /\ wire # << >>
      BY <2>2, <2>3, ReaderWaits DEF LineTypeOK, RigOK, Reader
    <3>2. wire[1].k = "ok"
      BY <2>2, <2>3, <3>1, TailIs DEF Kind
    <3>3. ~onair'
      BY <2>2, <2>3, <3>1, <3>2 DEF AirFacts
    <3>4. Len(todo') = 0
      BY <2>1, <3>1
    <3> QED
      BY <3>3, <3>4 DEF Clear
  <2>4. CASE task[t].op \in {"key", "unkey"} /\ ~good
    BY <2>2, <2>4 DEF Flagged
  <2>5. CASE task[t].op = "key" /\ good
    <3>1. ptt_on' /\ ~uncertain
      BY <2>2, <2>5 DEF Flagged
    <3> QED
      BY <1>0, <2>1, <3>1 DEF AirFacts, Clear
  <2>6. CASE task[t].op \notin {"key", "unkey"}
    <3>1. ptt_on' = ptt_on /\ ~uncertain
      BY <2>2, <2>6 DEF Flagged
    <3>2. Clear
      BY <3>1 DEF AirFacts
    <3>3. \A u \in Tasks : task[u].op = "key" => task'[u].op = "key"
      BY <1>a, <2>6
    <3> QED
      BY <1>0, <2>1, <3>1, <3>2, <3>3 DEF Clear
  <2> QED
    BY <2>3, <2>4, <2>5, <2>6
<1>2. CASE Silent(t)
  <2>1. ptt_on' = ptt_on /\ ~uncertain /\ task'[t].op = task[t].op
    BY <1>2 DEF Silent, flags
  <2>2. Clear
    BY <2>1 DEF AirFacts
  <2>3. \A u \in Tasks : task'[u].op = task[u].op
    BY <1>a, <2>1
  <2>4. CASE todo' = todo
    BY <2>1, <2>2, <2>3, <2>4 DEF Clear
  <2>5. CASE todo' # todo
    <3> DEFINE m == Len(todo)
    <3>1. PICK c \in {Heal, task[t].cmd}, no \in Nat : Writes(t, c, no)
      BY <2>5 DEF Tells
    <3>2. Holds(t)
      BY <2>5 DEF Tells
    <3>3. c \in Cmds /\ (c = "T1" => task[t].op = "key") /\ (c = "F" => task[t].op = "tune")
      BY SpokenIs
    <3>4. /\ todo' \in Seq(Commands) /\ Len(todo') = m + 1 /\ m \in Nat
          /\ \A i \in 1 .. m : todo'[i] = todo[i]
          /\ todo'[m + 1].cmd = c
      BY <3>1, <3>3, WritesIs DEF LineTypeOK
    <3>5. \A i \in 1 .. m : todo[i].cmd = "F" => ~onair /\ \A j \in 1 .. i : todo[j].cmd # "T1"
      BY <2>2 DEF Clear
    <3>6. \A u \in Tasks : task[u].op = "tune" => ~onair /\ \A i \in 1 .. m : todo[i].cmd # "T1"
      BY <2>2 DEF Clear
    <3>7. onair \/ (\E i \in 1 .. m : todo[i].cmd = "T1") => ptt_on \/ \E u \in Tasks : task[u].op = "key"
      BY <2>2 DEF Clear
    <3> HIDE DEF m
    <3>8. \A i \in 1 .. m + 1 : i \in 1 .. m \/ i = m + 1
      BY <3>4
    <3>9. onair' \/ (\E i \in 1 .. m + 1 : todo'[i].cmd = "T1") => ptt_on' \/ \E u \in Tasks : task'[u].op = "key"
      <4>1. CASE c = "T1"
        BY <2>3, <3>3, <4>1
      <4>2. CASE c # "T1"
        BY <2>1, <2>3, <3>4, <3>7, <3>8, <4>2
      <4> QED
        BY <4>1, <4>2
    <3>10. ASSUME NEW u \in Tasks, task'[u].op = "tune"
           PROVE  ~onair' /\ \A i \in 1 .. m + 1 : todo'[i].cmd # "T1"
      <4>1. task[u].op = "tune"
        BY <2>3, <3>10
      <4>2. c # "T1"
        BY <3>2, <3>3, <4>1, KeyAlone DEF AirFacts, TunesFirst
      <4> QED
        BY <3>4, <3>6, <3>8, <4>1, <4>2
    <3>11. ASSUME NEW i \in 1 .. m + 1, todo'[i].cmd = "F"
           PROVE  ~onair' /\ \A j \in 1 .. i : todo'[j].cmd # "T1"
      <4>1. CASE i \in 1 .. m
        <5>1. ~onair /\ \A j \in 1 .. i : todo[j].cmd # "T1"
          BY <3>4, <3>5, <3>11, <4>1
        <5>2. \A j \in 1 .. i : j \in 1 .. m
          BY <3>4, <4>1
        <5> QED
          BY <3>4, <5>1, <5>2
      <4>2. CASE i = m + 1
        <5>1. c = "F" /\ task[t].op = "tune"
          BY <3>3, <3>4, <3>11, <4>2
        <5>2. ~onair /\ \A j \in 1 .. m : todo[j].cmd # "T1"
          BY <3>6, <5>1
        <5>3. \A j \in 1 .. i : j \in 1 .. m \/ j = m + 1
          BY <3>8, <4>2
        <5> QED
          BY <3>4, <5>1, <5>2, <5>3
      <4> QED
        BY <3>8, <4>1, <4>2
    <3> QED
      BY <3>4, <3>9, <3>10, <3>11 DEF Clear
  <2> QED
    BY <2>4, <2>5
<1> QED
  BY <1>1, <1>2

LEMMA StepAir ==
  ASSUME LineTypeOK, QueueInv, LinkFacts, AirFacts, NEW t \in Tasks, Step(t), ~collided', ~overtaken'
  PROVE  AirFacts'
<1>1. Orderly(t) /\ Tells(t) /\ (Signals(t) \/ Silent(t)) /\ onair' = onair
  BY StepOrderly, StepTells, StepSignals, StepLeaves
<1>2. TunesFirst'
  BY <1>1, StepTunesFirst DEF AirFacts, TunesFirst
<1>3. ~uncertain' => Clear'
  BY <1>1, StepClear
<1>4. wire' = << >> \/ \A u \in Tasks : Waits(u)' => task'[u].at \in {"second", "draining"}
  BY StepLinkFacts
<1>5. ASSUME NEW u \in Tasks, task'[u].op = "key" PROVE armed'
  <2>1. task[u].op = "key" /\ armed
    BY <1>1, <1>5, OpsKept DEF AirFacts
  <2>2. CASE Silent(t)
    BY <2>1, <2>2 DEF Silent, flags
  <2>3. CASE Signals(t)
    <3>1. u # t
      BY <1>5, <2>3, IdleOK DEF Signals
    <3>2. ~ (armed /\ ~armed' /\ \E v \in Tasks \ {t} : task[v].op = "key")
      BY <2>3 DEF Signals, Flagged
    <3> QED
      BY <2>1, <3>1, <3>2
  <2> QED
    BY <1>1, <2>2, <2>3
<1> QED
  BY <1>2, <1>3, <1>4, <1>5 DEF AirFacts, TunesFirst

LEMMA CallsAir ==
  ASSUME LineTypeOK, QueueInv, LinkFacts, AirFacts, NEW t \in Tasks, NEW op \in Ops, Calls(t, op)
  PROVE  AirFacts'
<1>1. /\ task'[t].op = op /\ task[t] = Idle /\ \A u \in Tasks \ {t} : task'[u] = task[u]
      /\ UNCHANGED <<wire, todo, onair, armed, ptt_on, uncertain>>
  BY CallsQueue DEF Moves, Calls, rig, flags
<1>2. op = "tune" => ~armed /\ ~ptt_on /\ \A u \in Tasks : task[u].op # "key"
  BY DEF Calls, MayTune, AirFacts
<1>3. TunesFirst'
  BY <1>2, CallsTunesFirst DEF AirFacts, TunesFirst
<1>4. \A u \in Tasks : Waits(u)' => Waits(u) /\ task'[u] = task[u]
  <2>1. \A u \in Tasks : Waits(u)' => task'[u] = task[u]
    BY CallsLinks
  <2>2. session' = session
    BY DEF Calls
  <2> QED
    BY <2>1, <2>2 DEF Waits
<1>5. \A u \in Tasks : task'[u].op = "key" => armed'
  BY <1>1 DEF Calls, AirFacts
<1>6. ASSUME ~uncertain' PROVE Clear'
  <2>1. Clear
    BY <1>1, <1>6 DEF AirFacts
  <2>2. \A u \in Tasks : task[u].op = "key" => task'[u].op = "key"
    BY <1>1, IdleOK
  <2>3. ASSUME NEW u \in Tasks, task'[u].op = "tune"
        PROVE  ~onair /\ \A i \in 1 .. Len(todo) : todo[i].cmd # "T1"
    <3>1. CASE u = t
      <4>1. op = "tune"
        BY <1>1, <2>3, <3>1
      <4> QED
        BY <1>2, <2>1, <4>1 DEF Clear
    <3>2. CASE u # t
      BY <1>1, <2>1, <2>3, <3>2 DEF Clear
    <3> QED
      BY <3>1, <3>2
  <2> QED
    BY <1>1, <2>1, <2>2, <2>3 DEF Clear
<1> QED
  BY <1>1, <1>3, <1>4, <1>5, <1>6 DEF AirFacts, TunesFirst

\* What is left of the commands when the first is gone.
LEMMA FirstGone ==
  ASSUME LineTypeOK, todo # << >>, todo' = Tail(todo)
  PROVE  /\ todo \in Seq(Commands) /\ Len(todo) \in Nat \ {0} /\ 1 \in 1 .. Len(todo)
         /\ \A i \in 1 .. Len(todo') : i + 1 \in 1 .. Len(todo) /\ todo'[i] = todo[i + 1]
         /\ \A i \in 1 .. Len(todo') : 1 \in 1 .. i + 1 /\ \A j \in 1 .. i : j \in 1 .. Len(todo') /\ j + 1 \in 1 .. i + 1
BY TailIs DEF LineTypeOK, RigOK

LEMMA LosesAir ==
  ASSUME LineTypeOK, LinkFacts, AirFacts, RigctldLoses
  PROVE  AirFacts'
<1>1. /\ todo # << >> /\ todo' = Tail(todo)
      /\ UNCHANGED <<task, queue, session, wire, onair, armed, ptt_on, uncertain>>
  BY DEF RigctldLoses, flags
<1>2. /\ \A i \in 1 .. Len(todo') : i + 1 \in 1 .. Len(todo) /\ todo'[i] = todo[i + 1]
      /\ \A i \in 1 .. Len(todo') : \A j \in 1 .. i : j \in 1 .. Len(todo') /\ j + 1 \in 1 .. i + 1
  BY <1>1, FirstGone
<1>3. Clear => Clear'
  BY <1>1, <1>2, SMTT(30) DEF Clear
<1> QED
  BY <1>1, <1>3 DEF AirFacts, TunesFirst, Waits

LEMMA AnswerAir ==
  ASSUME LineTypeOK, LinkFacts, AirFacts, RigctldAnswers
  PROVE  AirFacts'
<1> DEFINE c == Head(todo)
<1>1. /\ todo # << >> /\ todo' = Tail(todo) /\ c \in Commands /\ c = todo[1]
      /\ UNCHANGED <<task, queue, session, armed, ptt_on, uncertain>>
  BY AnswersIs DEF flags
<1>2. PICK kinds \in Answers(c.cmd) :
        /\ kinds \in Seq(Kinds)
        /\ wire' = IF session.up /\ session.no = c.s THEN wire \o Said(kinds, c) ELSE wire
        /\ onair' = IF kinds = <<"ok">> /\ c.cmd \in {"T0", "T1"} THEN c.cmd = "T1" ELSE onair
  BY AnswersIs
<1> HIDE DEF c
<1>3. /\ 1 \in 1 .. Len(todo)
      /\ \A i \in 1 .. Len(todo') : i + 1 \in 1 .. Len(todo) /\ todo'[i] = todo[i + 1]
      /\ \A i \in 1 .. Len(todo') : 1 \in 1 .. i + 1 /\ \A j \in 1 .. i : j \in 1 .. Len(todo') /\ j + 1 \in 1 .. i + 1
  BY <1>1, FirstGone
<1>4. wire = << >>
  BY <1>1, HeadIs
<1>5. onair' => onair \/ c.cmd = "T1"
  BY <1>2
<1>6. Clear => Clear'
  <2> SUFFICES ASSUME Clear PROVE Clear'
    OBVIOUS
  <2>1. onair' \/ (\E i \in 1 .. Len(todo') : todo'[i].cmd = "T1") =>
          onair \/ \E i \in 1 .. Len(todo) : todo[i].cmd = "T1"
    BY <1>1, <1>3, <1>5
  <2>2. ASSUME NEW u \in Tasks, task'[u].op = "tune"
        PROVE  ~onair' /\ \A i \in 1 .. Len(todo') : todo'[i].cmd # "T1"
    <3>1. ~onair /\ \A i \in 1 .. Len(todo) : todo[i].cmd # "T1"
      BY <1>1, <2>2 DEF Clear
    <3> QED
      BY <1>1, <1>3, <1>5, <3>1
  <2>3. ASSUME NEW i \in 1 .. Len(todo'), todo'[i].cmd = "F"
        PROVE  ~onair' /\ \A j \in 1 .. i : todo'[j].cmd # "T1"
    <3>1. ~onair /\ \A j \in 1 .. i + 1 : todo[j].cmd # "T1"
      BY <1>3, <2>3 DEF Clear
    <3> QED
      BY <1>1, <1>3, <1>5, <3>1
  <2> QED
    BY <1>1, <2>1, <2>2, <2>3 DEF Clear
<1>7. ASSUME NEW u \in Tasks, Waits(u)', task'[u].op = "unkey", task'[u].at = "reading",
             wire' # << >>, wire'[1].k = "ok"
      PROVE  ~onair'
  <2>1. session.up /\ session.no = c.s
    BY <1>2, <1>4, <1>7
  <2>2. Live(1) /\ Waits(u)
    BY <1>1, <1>7, <2>1 DEF Live, Waits
  <2>3. c.cmd = task[u].cmd
    <3>1. PICK w \in Tasks : Waits(w) /\ c.cmd = IF task[w].at = "healing" THEN Heal ELSE task[w].cmd
      BY <1>1, <2>2, HeadIs
    <3>2. w = u
      BY <2>2, <3>1 DEF LinkFacts
    <3> QED
      BY <1>1, <1>7, <3>1, <3>2
  <2>4. c.cmd = "T0"
    BY <1>1, <1>7, <2>3 DEF LineTypeOK, OpInv, OpOK, Suits
  <2>5. c.cmd \in Sets /\ c.cmd \in Cmds
    BY <2>4 DEF Sets, Cmds
  <2>6. kinds \in {<<"ok">>, <<"err">>} /\ Len(kinds) = 1
    BY <1>2, <2>5, AnswerIs
  <2>7. wire'[1].k = kinds[1]
    <3>1. /\ Said(kinds, c) \in Seq(Lines) /\ Len(Said(kinds, c)) = 1
          /\ Said(kinds, c)[1] = [k |-> kinds[1], n |-> c.n, p |-> poisoned]
      BY <1>1, <1>2, <2>6, SaidIs DEF LineTypeOK, RigOK
    <3>2. << >> \o Said(kinds, c) = Said(kinds, c)
      BY <3>1
    <3> QED
      BY <1>2, <1>4, <2>1, <3>1, <3>2
  <2>8. kinds = <<"ok">>
    BY <1>7, <2>6, <2>7
  <2> QED
    BY <1>2, <2>4, <2>8
<1> QED
  BY <1>1, <1>6, <1>7 DEF AirFacts, TunesFirst

LEMMA AirStep ==
  ASSUME LineTypeOK, QueueInv, LinkInv, AirInv, [RigNext]_rigVars
  PROVE  AirInv'
<1> SUFFICES ASSUME ~collided', ~overtaken' PROVE AirFacts'
  BY DEF AirInv
<1>1. ASSUME NEW t \in Tasks, Step(t) PROVE AirFacts'
  <2>1. ~collided
    BY <1>1, StepLinks
  <2>2. ~overtaken
    BY <1>1, StepSignals DEF Signals, Silent, Flagged, flags
  <2> QED
    BY <1>1, <2>1, <2>2, StepAir DEF LinkInv, AirInv
<1>2. ASSUME NEW t \in Tasks, NEW op \in Ops, Calls(t, op) PROVE AirFacts'
  BY <1>2, CallsAir DEF LinkInv, AirInv, Calls, flags
<1>3. CASE RigctldAnswers
  BY <1>3, AnswerAir DEF LinkInv, AirInv, RigctldAnswers, flags
<1>4. CASE RigctldLoses
  BY <1>4, LosesAir DEF LinkInv, AirInv, RigctldLoses, flags, marks
<1>5. CASE Poisons \/ Arms \/ UNCHANGED rigVars
  <2>1. UNCHANGED <<task, queue, session, wire, todo, onair, ptt_on, uncertain, overtaken, collided>>
    BY <1>5 DEF Poisons, Arms, rigVars, rig, marks, flags
  <2>2. armed => armed'
    BY <1>5 DEF Poisons, Arms, rigVars, flags
  <2> QED
    BY <2>1, <2>2 DEF AirInv, AirFacts, TunesFirst, Clear, Waits
<1>6. CASE Disarms
  <2>1. /\ UNCHANGED <<task, queue, session, wire, todo, onair, ptt_on, uncertain, collided>>
        /\ ~overtaken /\ \A t \in Tasks : task[t].op # "key"
    BY <1>6 DEF Disarms, rig, marks
  <2> QED
    BY <2>1 DEF AirInv, AirFacts, TunesFirst, Clear, Waits
<1> QED
  BY <1>1, <1>2, <1>3, <1>4, <1>5, <1>6 DEF RigNext

LEMMA AirInit == RigInit => AirInv
<1> SUFFICES ASSUME RigInit PROVE AirFacts
  BY DEF AirInv
<1>1. /\ \A t \in Tasks : task[t] = Idle
      /\ queue = << >> /\ wire = << >> /\ todo = << >> /\ ~onair
  BY DEF RigInit
<1>2. Idle.op = "none" /\ Len(queue) = 0 /\ Len(todo) = 0
  BY <1>1 DEF Idle
<1> QED
  BY <1>1, <1>2 DEF AirFacts, TunesFirst, Clear

(***************************************************************************)
(* No frequency reaches a rig on the air, but for the three faults that    *)
(* TunesOffAir names: for any number of coroutines, though a command that  *)
(* was given up may still be carried out, in a session that is gone.       *)
(***************************************************************************)
THEOREM NeverTunesOnAir == RigSpec => []TunesOffAir
<1>1. RigInit => LineTypeOK /\ QueueInv /\ LinkInv /\ AirInv
  BY TypeInit, LinkInit, AirInit
<1>2. LineTypeOK /\ QueueInv /\ LinkInv /\ AirInv /\ [RigNext]_rigVars => (LineTypeOK /\ QueueInv /\ LinkInv /\ AirInv)'
  BY TypeStep, LinkStep, AirStep
<1>3. LineTypeOK /\ AirInv => TunesOffAir
  <2> SUFFICES ASSUME LineTypeOK, AirInv, todo # << >>, Head(todo).cmd = "F", onair,
                      ~uncertain, ~overtaken, ~collided
               PROVE  FALSE
    BY DEF TunesOffAir
  <2>1. Head(todo) = todo[1] /\ 1 \in 1 .. Len(todo)
    <3>1. todo \in Seq(Commands)
      BY DEF LineTypeOK, RigOK
    <3>2. Len(todo) \in Nat \ {0} /\ Head(todo) = todo[1]
      BY <3>1, TailIs
    <3> QED
      BY <3>2
  <2>2. Clear
    BY DEF AirInv, AirFacts
  <2> QED
    BY <2>1, <2>2 DEF Clear
<1> QED
  BY <1>1, <1>2, <1>3, PTL DEF RigSpec
=============================================================================
