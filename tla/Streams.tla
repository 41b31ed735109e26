------------------------------ MODULE Streams ------------------------------
(***************************************************************************)
(* The three bounded delivery paths of server/web/ws.py and the fan-out of *)
(* server/engine/waterfall.py: state (newest wins, a hopeless client is    *)
(* closed), decodes (in order, overflow closes, history for a new client), *)
(* waterfall (drop oldest), each read by the pump of its WebSocket.        *)
(*                                                                         *)
(* State and decodes are published on the event loop, between two awaits   *)
(* of every pump. A spectrum line is published by the reader thread of the *)
(* capture process, and its queue is an asyncio.Queue all the same: a line *)
(* may be put between get()'s look at the queue and its waiting, and then  *)
(* wakes nobody.                                                           *)
(***************************************************************************)
EXTENDS Integers, Sequences, SequencesExt, FiniteSetsExt

CONSTANTS
  Clients,       \* WebSocket connections
  StateQueue,    \* STATE_QUEUE
  CloseAfter,    \* STATE_CLOSE_AFTER_DROPS
  DecodeQueue,   \* DECODE_QUEUE
  History,       \* DECODE_HISTORY
  FrameQueue,    \* max_frames_per_subscriber
  FftSize,       \* samples of one spectrum line
  Hop,           \* samples between two lines
  BlockSize,     \* samples of one capture block
  MaxPublished,  \* bound: snapshots, and batches, published
  MaxSample      \* bound: the sample the capture stream ends at

ASSUME QueueAssumption ==
  /\ StateQueue \in Nat \ {0} /\ CloseAfter \in Nat \ {0}
  /\ DecodeQueue \in Nat \ {0} /\ History \in 1 .. DecodeQueue
  /\ FrameQueue \in Nat \ {0}
ASSUME LineAssumption == BlockSize \in Nat \ {0} /\ FftSize \in Nat /\ Hop \in 1 .. FftSize

VARIABLES
  published,   \* the number of snapshots, and of batches; each item is its number
  batches,     \* DecodeBroadcaster.batches: the replay ring
  buffer,      \* SpectrumComputer: [first |-> _next_index, size |-> _buf.size]
  heard,       \* the sample the next block starts at
  base,        \* where the block after the last gap started
  lines,       \* lines computed and not published yet: the thread's frames
  latest,      \* the line published last
  kind,        \* the stream each connection reads
  pump,        \* where its pump is
  queue,       \* Subscription.queue
  drops,       \* StateSubscription.consecutive_drops
  closed,      \* Subscription.closed
  item,        \* what send() is sending
  shown,       \* what it has received here: all the batches, or the last item
  joined,      \* batches published when it subscribed
  dead         \* the socket is gone, whether the pump knows or not

source      == <<buffer, heard, base, lines, latest>>
socket      == <<kind, pump, item, shown, joined, dead>>
mailbox     == <<queue, drops, closed>>
streamsVars == <<published, batches, source, socket, mailbox>>

Kinds == {"state", "decodes", "waterfall"}
Nothing == -1

Open(c, k) == pump[c] # "off" /\ kind[c] = k

StreamsInit ==
  /\ published = [state |-> 0, decodes |-> 0]
  /\ batches = << >>
  /\ buffer = [first |-> 0, size |-> 0] /\ heard = 0 /\ base = 0
  /\ lines = << >> /\ latest = Nothing
  /\ kind = [c \in Clients |-> "state"]
  /\ pump = [c \in Clients |-> "off"]
  /\ item = [c \in Clients |-> Nothing]
  /\ shown = [c \in Clients |-> << >>]
  /\ joined = [c \in Clients |-> 0]
  /\ dead = [c \in Clients |-> FALSE]
  /\ queue = [c \in Clients |-> << >>]
  /\ drops = [c \in Clients |-> 0]
  /\ closed = [c \in Clients |-> FALSE]

-----------------------------------------------------------------------------
(***************************************************************************)
(* Delivery to one subscription: the three _offer() methods, each as the   *)
(* subscription's record after it.                                         *)
(***************************************************************************)
Box(c) == [queue |-> queue[c], drops |-> drops[c], closed |-> closed[c]]

\* OfferState if a full queue kept what it has.
OfferStateIfRoom(box, n) ==
  IF Len(box.queue) < StateQueue THEN [box EXCEPT !.queue = Append(@, n)]
  ELSE [box EXCEPT !.drops = @ + 1, !.closed = box.drops + 1 >= CloseAfter]

OfferState(box, n) ==
  IF Len(box.queue) < StateQueue THEN [box EXCEPT !.queue = Append(@, n)]
  ELSE IF box.drops + 1 >= CloseAfter
  THEN [queue |-> Tail(box.queue), drops |-> box.drops + 1, closed |-> TRUE]
  ELSE [queue |-> Append(Tail(box.queue), n), drops |-> box.drops + 1, closed |-> FALSE]

OfferDecodes(box, n) ==
  IF Len(box.queue) < DecodeQueue
  THEN [box EXCEPT !.queue = Append(@, n)]
  ELSE [box EXCEPT !.closed = TRUE]

OfferFrame(box, n) ==
  [box EXCEPT !.queue = Append(IF Len(@) < FrameQueue THEN @ ELSE Tail(@), n)]

\* put_nowait() wakes the getter that waits, if one does.
Woken(c) == IF pump[c] = "asleep" THEN "ready" ELSE pump[c]

\* What each open subscription of a kind becomes, given for every client.
Deliver(k, offered) ==
  LET takes(c) == Open(c, k) /\ ~closed[c]
      after(c) == IF takes(c) THEN offered[c] ELSE Box(c)
  IN /\ queue'  = [c \in Clients |-> after(c).queue]
     /\ drops'  = [c \in Clients |-> after(c).drops]
     /\ closed' = [c \in Clients |-> after(c).closed]
     /\ pump'   = [c \in Clients |-> IF takes(c) THEN Woken(c) ELSE pump[c]]
     /\ UNCHANGED <<kind, item, shown, joined, dead>>

-----------------------------------------------------------------------------
(***************************************************************************)
(* The publishers.                                                         *)
(***************************************************************************)
PublishState ==
  /\ published.state < MaxPublished
  /\ published' = [published EXCEPT !.state = @ + 1]
  /\ Deliver("state", [c \in Clients |-> OfferState(Box(c), published.state + 1)])
  /\ UNCHANGED <<batches, source>>

\* Ring if it were cut one batch short.
RingShort(bs) == SubSeq(bs, Max({1, Len(bs) - History + 2}), Len(bs))

\* The newest History batches, the one just published among them.
Ring(bs) == SubSeq(bs, Max({1, Len(bs) - History + 1}), Len(bs))

PublishDecodes ==
  /\ published.decodes < MaxPublished
  /\ published' = [published EXCEPT !.decodes = @ + 1]
  /\ batches' = Ring(Append(batches, published.decodes + 1))
  /\ Deliver("decodes", [c \in Clients |-> OfferDecodes(Box(c), published.decodes + 1)])
  /\ UNCHANGED source

(***************************************************************************)
(* SpectrumComputer.push(): a block that does not continue the buffer      *)
(* starts a new one; every FftSize samples make a line, named by the       *)
(* sample it starts at.                                                    *)
(***************************************************************************)

Continued(first) ==
  IF first = buffer.first + buffer.size
  THEN [first |-> buffer.first, size |-> buffer.size + BlockSize]
  ELSE [first |-> first, size |-> BlockSize]

LinesIn(buf) == IF buf.size < FftSize THEN 0 ELSE (buf.size - FftSize) \div Hop + 1

Push ==
  /\ lines = << >>
  /\ \E first \in {heard, heard + 1} :   \* a lost sample is a gap
       LET buf == Continued(first)
           n   == LinesIn(buf)
       IN /\ first + BlockSize <= MaxSample
          /\ heard' = first + BlockSize
          /\ base' = IF first = heard THEN base ELSE first
          /\ lines' = [i \in 1 .. n |-> buf.first + (i - 1) * Hop]
          /\ buffer' = [first |-> buf.first + n * Hop, size |-> buf.size - n * Hop]
  /\ UNCHANGED <<published, batches, latest, socket, mailbox>>

PublishFrame ==
  /\ lines # << >>
  /\ lines' = Tail(lines)
  /\ latest' = Head(lines)
  /\ Deliver("waterfall", [c \in Clients |-> OfferFrame(Box(c), Head(lines))])
  /\ UNCHANGED <<published, batches, buffer, heard, base>>

-----------------------------------------------------------------------------
(***************************************************************************)
(* A connection: upgrade, subscription, and for the state stream the hello *)
(* snapshot, built before the first await after it.                        *)
(***************************************************************************)
Subscribe(c, k, replay) ==
  /\ pump[c] = "off"
  /\ kind' = [kind EXCEPT ![c] = k]
  /\ queue' = [queue EXCEPT ![c] = replay]
  /\ drops' = [drops EXCEPT ![c] = 0]
  /\ closed' = [closed EXCEPT ![c] = FALSE]
  /\ shown' = [shown EXCEPT ![c] = << >>]
  /\ joined' = [joined EXCEPT ![c] = published.decodes]
  /\ dead' = [dead EXCEPT ![c] = FALSE]
  /\ UNCHANGED <<published, batches, source>>

ConnectState(c) ==
  /\ Subscribe(c, "state", << >>)
  /\ pump' = [pump EXCEPT ![c] = "sending"]
  /\ item' = [item EXCEPT ![c] = published.state]

ConnectDecodes(c) ==
  /\ Subscribe(c, "decodes", batches)
  /\ pump' = [pump EXCEPT ![c] = "ready"]
  /\ UNCHANGED item

ConnectWaterfall(c) ==
  /\ Subscribe(c, "waterfall", << >>)
  /\ pump' = [pump EXCEPT ![c] = "ready"]
  /\ UNCHANGED item

SocketDies(c) ==
  /\ pump[c] # "off" /\ ~dead[c]
  /\ dead' = [dead EXCEPT ![c] = TRUE]
  /\ UNCHANGED <<published, batches, source, kind, pump, item, shown, joined, mailbox>>

-----------------------------------------------------------------------------
(***************************************************************************)
(* _pump(): get(), send(), and a look at closed between two rounds.        *)
(***************************************************************************)
PumpTakes(c) ==
  /\ pump[c] = "ready" /\ queue[c] # << >>
  /\ pump' = [pump EXCEPT ![c] = "sending"]
  /\ item' = [item EXCEPT ![c] = Head(queue[c])]
  /\ queue' = [queue EXCEPT ![c] = Tail(@)]
  /\ drops' = [drops EXCEPT ![c] = 0]
  /\ UNCHANGED <<published, batches, source, kind, shown, joined, dead, closed>>

\* The queue is seen empty. What is published on the loop cannot come in
\* between this and the wait.
PumpFindsNothing(c) ==
  /\ pump[c] = "ready" /\ queue[c] = << >>
  /\ pump' = [pump EXCEPT ![c] = IF kind[c] = "waterfall" THEN "checked" ELSE "asleep"]
  /\ UNCHANGED <<published, batches, source, kind, item, shown, joined, dead, mailbox>>

PumpSleeps(c) ==
  /\ pump[c] = "checked"
  /\ pump' = [pump EXCEPT ![c] = "asleep"]
  /\ UNCHANGED <<published, batches, source, kind, item, shown, joined, dead, mailbox>>

Seen(c) == IF kind[c] = "decodes" THEN Append(shown[c], item[c]) ELSE <<item[c]>>

\* PumpSends if closed were looked at when the pump starts only.
PumpSendsOn(c) ==
  /\ pump[c] = "sending"
  /\ ~dead[c]
  /\ shown' = [shown EXCEPT ![c] = Seen(c)]
  /\ item' = [item EXCEPT ![c] = Nothing]
  /\ pump' = [pump EXCEPT ![c] = "ready"]
  /\ UNCHANGED <<published, batches, source, kind, joined, dead, mailbox>>

PumpSends(c) ==
  /\ pump[c] = "sending"
  /\ ~dead[c]
  /\ shown' = [shown EXCEPT ![c] = Seen(c)]
  /\ item' = [item EXCEPT ![c] = Nothing]
  /\ pump' = [pump EXCEPT ![c] = IF closed[c] THEN "off" ELSE "ready"]
  /\ UNCHANGED <<published, batches, source, kind, joined, dead, mailbox>>

\* send() raises WebSocketDisconnect; the finally clause closes the
\* subscription.
SendFails(c) ==
  /\ pump[c] = "sending" /\ dead[c]
  /\ pump' = [pump EXCEPT ![c] = "off"]
  /\ item' = [item EXCEPT ![c] = Nothing]
  /\ closed' = [closed EXCEPT ![c] = TRUE]
  /\ UNCHANGED <<published, batches, source, kind, shown, joined, dead, queue, drops>>

PumpStep(c) == PumpTakes(c) \/ PumpFindsNothing(c) \/ PumpSleeps(c) \/ PumpSends(c) \/ SendFails(c)

Connect(c) == ConnectState(c) \/ ConnectDecodes(c) \/ ConnectWaterfall(c)

StreamsNext ==
  \/ PublishState \/ PublishDecodes \/ Push \/ PublishFrame
  \/ \E c \in Clients : Connect(c) \/ SocketDies(c) \/ PumpStep(c)

\* A send ends: the client reads, or its socket times out (external). The
\* reader thread publishes the lines it has computed.
StreamsSpec ==
  /\ StreamsInit /\ [][StreamsNext]_streamsVars
  /\ WF_streamsVars(PublishFrame) /\ \A c \in Clients : WF_streamsVars(PumpStep(c))

-----------------------------------------------------------------------------
Upto(m, n) == [i \in 1 .. n - m + 1 |-> m + i - 1]

\* All the batches a decode client has been sent, is being sent and will be.
Received(c) ==
  shown[c] \o (IF pump[c] = "sending" THEN <<item[c]>> ELSE << >>) \o queue[c]

\* A decode client gets the newest History batches of its arrival and all
\* that follow, each once and in order, until it is closed for having fallen
\* behind: the bounded queue never drops one silently (10.2).
DecodesInOrder ==
  \A c \in Clients : Open(c, "decodes") =>
    LET all == Upto(Max({1, joined[c] - History + 1}), published.decodes)
    IN IF closed[c] THEN IsPrefix(Received(c), all) ELSE Received(c) = all

\* Within a stream without a gap the lines start Hop apart, whatever the
\* blocks they came in (waterfall.py: chunking never shifts the cadence).
LinesOnGrid ==
  /\ \A i \in 1 .. Len(lines) : lines[i] >= base /\ (lines[i] - base) % Hop = 0
  /\ heard > base => buffer.first + buffer.size = heard

\* A state client that stays connected is shown the newest snapshot or a newer
\* one, however slow it was (newest wins).
NewestStateArrives ==
  \A c \in Clients, n \in 1 .. MaxPublished :
    Open(c, "state") /\ published.state = n
      ~> pump[c] = "off" \/ (shown[c] # << >> /\ Last(shown[c]) >= n)

\* Newest wins: what a state client is shown never goes back, and while it is
\* not closed the newest snapshot is the last of what it has or will get,
\* whatever the bounded queue has dropped before it.
NewestIsLast ==
  \A c \in Clients : Open(c, "state") =>
    LET all == Received(c)
    IN /\ \A i, j \in 1 .. Len(all) : i < j => all[i] < all[j]
       /\ closed[c] \/ (all # << >> /\ Last(all) = published.state)

\* A line that was put while the pump was about to wait wakes nobody. It is
\* late, but not lost: the next line wakes the pump.
Stranded(c) == Open(c, "waterfall") /\ pump[c] = "asleep" /\ queue[c] # << >>

NextLineWakes ==
  \A c \in Clients, n \in 0 .. MaxSample :
    Stranded(c) /\ latest = n ~> ~Stranded(c) \/ [](latest = n)

\* A client that is closed for its slowness is let go when its send ends.
ClosedLeaves == \A c \in Clients : closed[c] ~> pump[c] = "off" \/ ~closed[c]
=============================================================================
