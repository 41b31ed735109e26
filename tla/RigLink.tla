------------------------------ MODULE RigLink ------------------------------
(***************************************************************************)
(* The conversation of RigClient (server/engine/rig.py) with rigctld: one  *)
(* TCP session, one lock, commands answered in order by one or more lines  *)
(* that carry nothing to tell whose answer they are. Its callers: the      *)
(* poller and the band hunter of main.py, the handlers of /radio, and the  *)
(* safety controller, whose armed and ptt_on flags forbid to tune.         *)
(*                                                                         *)
(* TxSafety has the controller in full, over a rig that answers or not;    *)
(* this module is about what the lines of the link are taken for.          *)
(***************************************************************************)
EXTENDS Integers, Sequences, FiniteSets, SequencesExt

CONSTANTS
  Tasks,       \* coroutines that may use the client at once
  Ops,         \* methods they call, among the domain of CmdOf
  MaxOps,      \* bound: methods called
  MaxPoisons   \* bound: how often another client changes the separator

CmdOf == [poll |-> "f", mode |-> "m", tune |-> "F", key |-> "T1", unkey |-> "T0",
          width |-> "SH", level |-> "wr", read |-> "rd"]

ASSUME RigAssumption ==
  /\ Ops \subseteq DOMAIN CmdOf /\ MaxOps \in Nat /\ MaxPoisons \in Nat

VARIABLES
  task,      \* what each task is at
  queue,     \* the lock: its holder and those who wait, in order
  session,   \* [up, no]: whether _writer is set, and how many were opened
  wire,      \* lines of this session that the client has not read
  todo,      \* commands that rigctld has not carried out
  poisoned,  \* rigctld's separator is not the newline
  armed, ptt_on, uncertain,  \* flags of the safety controller
  onair,     \* the rig
  written, ops, poisons,     \* counts: lines written, methods, poisonings
  collided,  \* history: a command was begun while a second line was awaited
  alien,     \* history: a method succeeded on a line that was not its own
  overtaken  \* history: TX was disarmed while a PTT-on was on its way

flags == <<armed, ptt_on, uncertain, overtaken>>
rig == <<todo, onair>>
marks == <<poisoned, poisons, ops, collided, alien>>
rigVars == <<task, queue, session, wire, rig, flags, written, marks>>

Sets == {"F", "T1", "T0"}
Fallback == [wr |-> "l", rd |-> "L"]
Rprt == {"ok", "err"}
Idle == [op |-> "none", cmd |-> "none", at |-> "idle", n |-> 0, s |-> 0, again |-> FALSE]

RigInit ==
  /\ task = [t \in Tasks |-> Idle] /\ queue = << >>
  /\ session = [up |-> FALSE, no |-> 0] /\ wire = << >> /\ todo = << >>
  /\ poisoned = FALSE /\ armed = FALSE /\ ptt_on = FALSE /\ uncertain = FALSE
  /\ onair = FALSE /\ written = 0 /\ ops = 0 /\ poisons = 0
  /\ collided = FALSE /\ alien = FALSE /\ overtaken = FALSE

Holds(t) == queue # << >> /\ Head(queue) = t
Own(t) == Head(wire).n = task[t].n

-----------------------------------------------------------------------------
(***************************************************************************)
(* rigctld: it carries commands out one by one, those of a session that    *)
(* has been dropped too; only their answers are lost.                      *)
(***************************************************************************)
Answers(c) ==
  CASE c \in Sets            -> {<<"ok">>, <<"err">>}
    [] c = ";f"              -> {<<"ok">>}
    [] c = "f"               -> {<<"value">>, <<"err">>}
    [] c = "m" /\ poisoned   -> {<<"dotted">>, <<"err">>}
    [] c = "m" /\ ~poisoned  -> {<<"mode", "value">>, <<"err">>}
    [] c = "l"               -> {<<"ok">>, <<"err">>, <<"value">>, <<"value", "ok">>}
    [] c = "L"               -> {<<"value">>, <<"err">>, << >>}
    [] OTHER                 -> {<<"raw">>, <<"err">>}

RigctldAnswers ==
  /\ todo # << >>
  /\ LET c == Head(todo) IN \E kinds \in Answers(c.cmd) :
       /\ wire' = IF session.up /\ session.no = c.s
                  THEN wire \o [i \in DOMAIN kinds |-> [k |-> kinds[i], n |-> c.n, p |-> poisoned]]
                  ELSE wire
       /\ onair' = IF kinds = <<"ok">> /\ c.cmd \in {"T0", "T1"} THEN c.cmd = "T1" ELSE onair
       /\ poisoned' = (poisoned /\ c.cmd # ";f")
  /\ todo' = Tail(todo)
  /\ UNCHANGED <<task, queue, session, flags, written, poisons, ops, collided, alien>>

\* It ends, or its rig is off: the command comes to nothing.
RigctldLoses ==
  /\ todo # << >> /\ todo' = Tail(todo)
  /\ UNCHANGED <<task, queue, session, wire, onair, flags, written, marks>>

\* Another client's command begins with a punctuation mark.
Poisons ==
  /\ ~poisoned /\ poisons < MaxPoisons
  /\ poisoned' = TRUE /\ poisons' = poisons + 1
  /\ UNCHANGED <<task, queue, session, wire, rig, flags, written, ops, collided, alien>>

-----------------------------------------------------------------------------
(***************************************************************************)
(* The callers. /radio/band and the band hunter look at both flags and     *)
(* call at once; so does a transmission at armed.                          *)
(***************************************************************************)
\* as if a transmission were on only while TX is armed
MayTuneUnarmed == ~armed

MayTune == ~armed /\ ~ptt_on

Calls(t, op) ==
  /\ task[t].at = "idle" /\ ops < MaxOps
  /\ op = "tune" => MayTune
  /\ op = "key" => armed /\ ~uncertain
  /\ task' = [task EXCEPT ![t] = [Idle EXCEPT !.op = op, !.cmd = CmdOf[op], !.at = "queued"]]
  /\ queue' = Append(queue, t) /\ ops' = ops + 1
  /\ UNCHANGED <<session, wire, rig, flags, written, poisoned, poisons, collided, alien>>

Arms ==
  /\ ~armed /\ ~uncertain /\ armed' = TRUE
  /\ UNCHANGED <<task, queue, session, wire, rig, ptt_on, uncertain, overtaken, written, marks>>

Disarms ==
  /\ armed /\ armed' = FALSE
  /\ overtaken' = (overtaken \/ \E t \in Tasks : task[t].op = "key")
  /\ UNCHANGED <<task, queue, session, wire, rig, ptt_on, uncertain, written, marks>>

\* What a method's return, or its RigError, does to the flags.
Flagged(t, good) ==
  /\ ptt_on' = IF good /\ task[t].op \in {"key", "unkey"} THEN task[t].op = "key" ELSE ptt_on
  /\ uncertain' = IF task[t].op \in {"key", "unkey"} /\ (~good \/ task[t].op = "unkey")
                  THEN ~good ELSE uncertain
  /\ armed' = (armed /\ (good \/ task[t].op # "key"))
  /\ overtaken' = (overtaken \/ (armed /\ ~armed' /\ \E u \in Tasks \ {t} : task[u].op = "key"))

Returns(t, own) ==
  /\ task' = [task EXCEPT ![t] = Idle] /\ Flagged(t, TRUE)
  /\ alien' = (alien \/ ~own)
  /\ UNCHANGED collided

Raises(t) ==
  /\ task' = [task EXCEPT ![t] = Idle] /\ Flagged(t, FALSE)
  /\ UNCHANGED <<alien, collided>>

\* A RuntimeError of asyncio: no caller knows it for a failure of the rig.
Collides(t) ==
  /\ task' = [task EXCEPT ![t] = Idle] /\ collided' = TRUE
  /\ UNCHANGED <<flags, alien>>

Releases == queue' = Tail(queue)

\* A level has a second way: the lock is let go and asked for again.
Fails(t) ==
  IF task[t].cmd \in DOMAIN Fallback
  THEN /\ task' = [task EXCEPT ![t].cmd = Fallback[@], ![t].at = "queued"]
       /\ queue' = Append(Tail(queue), t)
       /\ UNCHANGED <<flags, alien, collided>>
  ELSE Raises(t) /\ Releases

Drops == session' = [session EXCEPT !.up = FALSE] /\ wire' = << >>

-----------------------------------------------------------------------------
(***************************************************************************)
(* A command, under the lock. The second line of a mode is awaited after   *)
(* the lock is gone, and asyncio lets one coroutine wait on a stream.      *)
(***************************************************************************)
Awaited(no) == \E u \in Tasks : task[u].at = "second" /\ task[u].s = no

Writes(t, c, no) ==
  /\ written' = written + 1
  /\ todo' = Append(todo, [cmd |-> c, n |-> written + 1, s |-> no])

Reading(t, c, no) ==
  task' = [task EXCEPT ![t].cmd = c, ![t].at = "reading", ![t].n = written + 1, ![t].s = no]

Begins(t) ==
  /\ Holds(t) /\ task[t].at = "queued"
  /\ LET no == IF session.up THEN session.no ELSE session.no + 1 IN
       /\ session' = [up |-> TRUE, no |-> no]
       /\ Writes(t, task[t].cmd, no)
       /\ collided' = (collided \/ Awaited(no))
       /\ \/ /\ Awaited(no) => wire # << >>
             /\ Reading(t, task[t].cmd, no) /\ UNCHANGED <<queue, flags, alien>>
          \/ Awaited(no) /\ Collides(t) /\ Releases
  /\ UNCHANGED <<wire, onair, poisoned, poisons, ops>>

\* rigctld cannot be reached, or the write fails.
BeginFails(t) ==
  /\ Holds(t) /\ task[t].at = "queued"
  /\ Drops /\ Fails(t)
  /\ UNCHANGED <<rig, written, poisoned, poisons, ops>>

\* as if a timeout left the session open
ReadFailsOpen(t) ==
  /\ Holds(t) /\ task[t].at = "reading"
  /\ Fails(t)
  /\ UNCHANGED <<session, wire, rig, written, poisoned, poisons, ops>>

\* A timeout, the end of the session, or a line that cannot be one.
ReadFails(t) ==
  /\ Holds(t) /\ task[t].at = "reading"
  /\ Drops /\ Fails(t)
  /\ UNCHANGED <<rig, written, poisoned, poisons, ops>>

Reads(t, cmds) ==
  /\ Holds(t) /\ task[t].at = "reading" /\ task[t].cmd \in cmds
  /\ wire # << >> /\ wire' = Tail(wire)
  /\ UNCHANGED <<onair, poisoned, poisons, ops>>

Kind == Head(wire).k

Skips(t) ==
  /\ Reads(t, {"f", "m"}) /\ Kind \in Rprt
  /\ UNCHANGED <<task, queue, session, todo, flags, written, collided, alien>>

\* get_frequency: once, a poisoned separator is healed; ";f" takes the lock anew.
ReadsFrequency(t) ==
  /\ Reads(t, {"f"}) /\ Kind \notin Rprt
  /\ CASE Head(wire).p /\ ~task[t].again ->
            /\ task' = [task EXCEPT ![t].cmd = ";f", ![t].at = "queued", ![t].again = TRUE]
            /\ queue' = Append(Tail(queue), t) /\ UNCHANGED <<flags, alien, collided>>
       [] ~(Head(wire).p /\ ~task[t].again) /\ Kind = "value" -> Returns(t, Own(t)) /\ Releases
       [] OTHER -> Raises(t) /\ Releases
  /\ UNCHANGED <<session, todo, written>>

ReadsMode(t) ==
  /\ Reads(t, {"m"}) /\ Kind \notin Rprt
  /\ Releases
  /\ CASE Kind = "dotted" -> Returns(t, Own(t))
       [] Kind # "dotted" /\ Head(wire).p -> Raises(t)
       [] OTHER -> \/ /\ task' = [task EXCEPT ![t].at = "second", ![t].again = Own(t)]
                      /\ ~Awaited(session.no) /\ UNCHANGED <<flags, alien, collided>>
                   \/ Awaited(session.no) /\ Collides(t)
  /\ UNCHANGED <<session, todo, written>>

ReadsSecond(t) ==
  /\ task[t].at = "second" /\ session.up /\ session.no = task[t].s /\ wire # << >>
  /\ wire' = Tail(wire)
  /\ IF Kind = "value" THEN Returns(t, Own(t) /\ task[t].again) ELSE Raises(t)
  /\ UNCHANGED <<queue, session, rig, written, poisoned, poisons, ops>>

\* Its session ended under it, or it timed out: _drop_locked() without the
\* lock, of whatever session there is now.
SecondFails(t) ==
  /\ task[t].at = "second" /\ Drops /\ Raises(t)
  /\ UNCHANGED <<queue, rig, written, poisoned, poisons, ops>>

ReadsSet(t) ==
  /\ Reads(t, Sets)
  /\ IF Kind \in Rprt /\ Head(wire).p /\ ~task[t].again
     THEN /\ Writes(t, ";f", task[t].s)
          /\ task' = [task EXCEPT ![t].at = "healing", ![t].n = written + 1, ![t].again = TRUE]
          /\ UNCHANGED <<queue, flags, alien, collided>>
     ELSE /\ IF Kind = "ok" THEN Returns(t, Own(t)) ELSE Raises(t)
          /\ Releases /\ UNCHANGED <<todo, written>>
  /\ UNCHANGED session

\* _heal_separator_locked: up to the line with RPRT; then the command again.
Heals(t) ==
  /\ Holds(t) /\ wire # << >> /\ wire' = Tail(wire)
  /\ \/ task[t].at = "healing"
     \/ task[t].at = "reading" /\ task[t].cmd = ";f"
  /\ CASE Kind \notin Rprt ->
            UNCHANGED <<task, queue, todo, written, flags, alien, collided>>
       [] Kind = "err" -> Raises(t) /\ Releases /\ UNCHANGED <<todo, written>>
       [] Kind = "ok" /\ task[t].at = "healing" ->
            /\ Writes(t, task[t].cmd, task[t].s) /\ Reading(t, task[t].cmd, task[t].s)
            /\ UNCHANGED <<queue, flags, alien, collided>>
       [] OTHER ->
            /\ task' = [task EXCEPT ![t].cmd = "f", ![t].at = "queued"]
            /\ queue' = Append(Tail(queue), t)
            /\ UNCHANGED <<todo, written, flags, alien, collided>>
  /\ UNCHANGED <<session, onair, poisoned, poisons, ops>>

HealFails(t) ==
  /\ Holds(t) /\ task[t].at = "healing" /\ Drops /\ Raises(t) /\ Releases
  /\ UNCHANGED <<rig, written, poisoned, poisons, ops>>

\* One line, whatever it is: a write takes anything but an error, a read asks
\* for its own prefix. After the write of a level the stream is emptied.
ReadsRaw(t) ==
  /\ Holds(t) /\ task[t].at = "reading" /\ task[t].cmd \in {"SH", "wr", "rd"} /\ wire # << >>
  /\ IF Kind = "err" \/ (task[t].cmd = "rd" /\ Kind # "raw")
     THEN Fails(t) ELSE Returns(t, Own(t)) /\ Releases
  /\ wire' = IF task[t].cmd = "wr" /\ Kind # "err" THEN << >> ELSE Tail(wire)
  /\ UNCHANGED <<session, rig, written, poisoned, poisons, ops>>

\* The level path of Hamlib: a set may answer with its new value, and lines.
ReadsLevel(t) ==
  /\ Reads(t, {"l", "L"})
  /\ IF task[t].cmd = "l" /\ Kind = "value"
     THEN /\ task' = [task EXCEPT ![t].at = "draining", ![t].again = Own(t)]
          /\ UNCHANGED <<queue, flags, alien, collided>>
     ELSE /\ IF Kind = (IF task[t].cmd = "l" THEN "ok" ELSE "value")
             THEN Returns(t, Own(t)) ELSE Raises(t)
          /\ Releases
  /\ UNCHANGED <<session, todo, written>>

Drains(t) ==
  /\ Holds(t) /\ task[t].at = "draining" /\ wire # << >> /\ wire' = Tail(wire)
  /\ CASE Kind = "ok"  -> Returns(t, task[t].again) /\ Releases
       [] Kind = "err" -> Raises(t) /\ Releases
       [] OTHER        -> UNCHANGED <<task, queue, flags, alien, collided>>
  /\ UNCHANGED <<session, rig, written, poisoned, poisons, ops>>

DrainEnds(t) ==
  /\ Holds(t) /\ task[t].at = "draining"
  /\ Drops /\ Returns(t, task[t].again) /\ Releases
  /\ UNCHANGED <<rig, written, poisoned, poisons, ops>>

Step(t) ==
  \/ Begins(t) \/ BeginFails(t) \/ ReadFails(t) \/ HealFails(t) \/ DrainEnds(t) \/ SecondFails(t)
  \/ Skips(t) \/ ReadsFrequency(t) \/ ReadsMode(t) \/ ReadsSecond(t) \/ ReadsSet(t)
  \/ Heals(t) \/ ReadsRaw(t) \/ ReadsLevel(t) \/ Drains(t)

RigNext ==
  \/ \E t \in Tasks : Step(t) \/ \E op \in Ops : Calls(t, op)
  \/ RigctldAnswers \/ RigctldLoses \/ Poisons \/ Arms \/ Disarms

RigSpec == RigInit /\ [][RigNext]_rigVars

-----------------------------------------------------------------------------
RigTypeOK ==
  /\ ToSet(queue) \subseteq {t \in Tasks : task[t].at \notin {"idle", "second"}}
  /\ Len(queue) = Cardinality(ToSet(queue)) /\ (wire # << >> => session.up)

(***************************************************************************)
(* A method that succeeds has read its own answer: after timeouts, errors, *)
(* a reconnect, a poisoned separator or an answer of many lines nothing is *)
(* left for the next command. The one way to lose step is a collision, in  *)
(* the second line of a mode, which is read without the lock.              *)
(***************************************************************************)
RepliesAreOwn == alien => collided

(***************************************************************************)
(* "never tunes during TX" (NFR-088), and /radio/band refuses while TX is  *)
(* armed: both look at the flags first and then wait for the lock. No      *)
(* frequency reaches a rig on the air, unless its PTT-off has failed (the  *)
(* callers do not look at ptt_uncertain), TX was disarmed while PTT-on was *)
(* on its way (neither flag is up), or reads have collided.                *)
(***************************************************************************)
TunesOffAir ==
  todo # << >> /\ Head(todo).cmd = "F" /\ onair => uncertain \/ overtaken \/ collided
=============================================================================
