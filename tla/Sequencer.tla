----------------------------- MODULE Sequencer -----------------------------
(***************************************************************************)
(* The one-QSO sequencer of server/engine/sequencer.py, fed by the decoded *)
(* messages of orchestrator.py and pulled by tx_driver.py.                 *)
(*                                                                         *)
(* Its methods are synchronous, so each is one step. A decoded message is  *)
(* the station it comes from and the kind of its last token (msgparse.py): *)
(* the station may be anyone, the kind may be any, whatever was sent to    *)
(* it. A message that on_message() ignores leaves the state as it is.      *)
(***************************************************************************)
EXTENDS Integers, Sequences

CONSTANTS
  Stations,            \* base callsigns of the other stations
  NoCall,              \* dx_call while no partner is known
  NoReason,            \* disarm_reason while none is set
  MaxRetransmissions,  \* max_retransmissions
  MaxHeard             \* bound: messages that concern us in one behaviour

ASSUME StationsAssumption == NoCall \notin Stations
ASSUME RetryAssumption    == MaxRetransmissions \in Nat /\ MaxHeard \in Nat

VARIABLES
  state,              \* Sequencer.state
  tx_enabled,         \* Sequencer.tx_enabled
  dx_call,            \* Sequencer.dx_call
  report_rcvd,        \* Sequencer.report_rcvd is set
  disarm_reason,      \* Sequencer.disarm_reason
  tx_phase,           \* Sequencer.tx_phase: the parity of the slots to send in
  tx_count,           \* Sequencer._tx_count
  signoff_sent,       \* Sequencer._signoff_sent
  partner_loss_stop,  \* Sequencer._partner_loss_stop
  qso_logged,         \* Sequencer._qso_logged
  log,                \* the records handed to on_qso
  heard,              \* messages that concerned us so far
  finals,             \* of this session: final messages heard from the partner
  courtesies,         \* of this session: courtesy 73s handed out
  session             \* flips when a new session starts

qso      == <<dx_call, report_rcvd, tx_phase, partner_loss_stop>>
logging  == <<qso_logged, log>>
tally    == <<heard, finals, courtesies, session>>
seqVars  == <<state, tx_enabled, disarm_reason, tx_count, signoff_sent, qso, logging, tally>>

IDLE         == "idle"
CALLING      == "calling"
REPLYING     == "replying"
REPORT       == "report"
ROGER_REPORT == "roger_report"
ROGERS       == "rogers"
SIGNOFF      == "signoff"
DONE         == "done"

Exchanging == {REPLYING, REPORT, ROGER_REPORT, ROGERS, SIGNOFF}
Active     == {CALLING} \cup Exchanging
States     == {IDLE, DONE} \cup Active
Reasons    == {"manual", "fault", "retry_exhausted", "partner_lost", "complete"}

ASSUME ReasonAssumption == NoReason \notin Reasons

\* The last token of a message to us: a grid or nothing at all ("call"), a
\* report without or with roger, or one of the three final tokens.
Finals == {"RRR", "RR73", "73"}
Kinds  == {"call", "report", "r_report"} \cup Finals

HasReport(kind) == kind \in {"report", "r_report"}

\* The match of on_message(): a message of the second kind takes a QSO from
\* the first state to the third.
Advances ==
       {REPLYING}     \X {"report", "r_report"} \X {ROGER_REPORT}
  \cup {REPORT}       \X {"r_report", "RRR"}    \X {ROGERS}
  \cup {REPORT}       \X {"RR73", "73"}         \X {SIGNOFF}
  \cup {ROGER_REPORT} \X Finals                 \X {SIGNOFF}
  \cup {ROGERS}       \X Finals                 \X {DONE}

Init ==
  /\ state = IDLE /\ tx_enabled = FALSE
  /\ dx_call = NoCall /\ report_rcvd = FALSE /\ disarm_reason = NoReason
  /\ tx_phase = 0 /\ tx_count = 0 /\ signoff_sent = FALSE
  /\ partner_loss_stop = TRUE
  /\ qso_logged = FALSE /\ log = << >>
  /\ heard = 0 /\ finals = 0 /\ courtesies = 0 /\ session = 0

-----------------------------------------------------------------------------
(***************************************************************************)
(* External triggers. start_cq() and reply_to() replace whatever was being *)
(* worked; stop() keeps its context.                                       *)
(***************************************************************************)
ResetPartner ==
  /\ report_rcvd' = FALSE
  /\ tx_count' = 0 /\ signoff_sent' = FALSE /\ qso_logged' = FALSE
  /\ finals' = 0 /\ courtesies' = 0 /\ session' = 1 - session
  /\ UNCHANGED <<log, heard>>

StartCq ==
  /\ ResetPartner
  /\ state' = CALLING /\ tx_enabled' = TRUE /\ disarm_reason' = NoReason
  /\ dx_call' = NoCall /\ tx_phase' = 0
  /\ partner_loss_stop' = TRUE

ReplyTo(p, parity) ==
  /\ ResetPartner
  /\ state' = REPLYING /\ tx_enabled' = TRUE /\ disarm_reason' = NoReason
  /\ dx_call' = p /\ tx_phase' = parity
  /\ partner_loss_stop' = FALSE

Stop(reason) ==
  /\ tx_enabled' = FALSE
  /\ state' = IF state = DONE THEN DONE ELSE IDLE
  /\ disarm_reason' = reason
  /\ UNCHANGED <<tx_count, signoff_sent, qso, logging, tally>>

\* EnsureLog without its early return.
EnsureLogTwice ==
  /\ qso_logged' = TRUE
  /\ log' = Append(log, [dx_call |-> dx_call, report_rcvd |-> report_rcvd'])

EnsureLog ==
  /\ qso_logged' = TRUE
  /\ log' = IF qso_logged THEN log
            ELSE Append(log, [dx_call |-> dx_call, report_rcvd |-> report_rcvd'])

-----------------------------------------------------------------------------
(***************************************************************************)
(* on_message()                                                            *)
(***************************************************************************)
Listening == tx_enabled /\ state \in Active /\ heard < MaxHeard

\* The partner calls a third station. A reply the operator asked for keeps
\* calling; a QSO out of a CQ stops.
PartnerTurnsAway ==
  /\ Listening
  /\ partner_loss_stop
  /\ dx_call # NoCall
  /\ Stop("partner_lost")

\* A message to us from p that is not ignored.
Concerns(p, kind) ==
  /\ Listening
  /\ dx_call \in {NoCall, p}
  /\ heard' = heard + 1
  /\ tx_count' = 0
  /\ report_rcvd' = (report_rcvd \/ HasReport(kind))
  /\ finals' = finals + IF kind \in Finals THEN 1 ELSE 0
  /\ UNCHANGED <<tx_phase, partner_loss_stop, courtesies, session>>

\* HearAnswer in whatever state the sequencer is.
HearAnswerAnyTime(p, kind) ==
  /\ Concerns(p, kind)
  /\ dx_call' = p
  /\ state' = REPORT
  /\ UNCHANGED <<tx_enabled, disarm_reason, signoff_sent, logging>>

\* Any message to us answers a CQ.
HearAnswer(p, kind) ==
  /\ state = CALLING
  /\ Concerns(p, kind)
  /\ dx_call' = p
  /\ state' = REPORT
  /\ UNCHANGED <<tx_enabled, disarm_reason, signoff_sent, logging>>

HearProgress(p, kind) ==
  /\ Concerns(p, kind)
  /\ \E s \in States : <<state, kind, s>> \in Advances /\ state' = s
  /\ IF state' \in {SIGNOFF, DONE} THEN EnsureLog ELSE UNCHANGED logging
  /\ IF state' = DONE
     THEN tx_enabled' = FALSE /\ disarm_reason' = "complete"
     ELSE UNCHANGED <<tx_enabled, disarm_reason>>
  /\ UNCHANGED <<dx_call, signoff_sent>>

\* HearAgain if every message of a partner that signed off allowed a 73.
HearAgainCourteous(p, kind) ==
  /\ state # CALLING
  /\ Concerns(p, kind)
  /\ \A s \in States : <<state, kind, s>> \notin Advances
  /\ signoff_sent' = (signoff_sent /\ state # SIGNOFF)
  /\ UNCHANGED <<state, tx_enabled, disarm_reason, dx_call, logging>>

\* The partner repeats itself, or sends what the exchange does not expect
\* now. After sign-off, a repeated final message allows one more 73.
HearAgain(p, kind) ==
  /\ state # CALLING
  /\ Concerns(p, kind)
  /\ \A s \in States : <<state, kind, s>> \notin Advances
  /\ signoff_sent' = (signoff_sent /\ ~(state = SIGNOFF /\ kind \in Finals))
  /\ UNCHANGED <<state, tx_enabled, disarm_reason, dx_call, logging>>

-----------------------------------------------------------------------------
(***************************************************************************)
(* next_tx_message(), once per eligible slot. A CQ is handed out without a *)
(* trace; so is nothing at all, while tx_enabled is down.                  *)
(***************************************************************************)
\* The text handed out names the partner and the state it belongs to.
Message == IF state = CALLING THEN <<NoCall, "CQ">> ELSE <<dx_call, state>>

Exhausted == tx_count >= 1 + MaxRetransmissions
SignedOff == state = SIGNOFF /\ signoff_sent

\* HandOut if a message handed out again were not counted.
HandOutUncounted ==
  /\ tx_enabled /\ state \in Exchanging
  /\ ~SignedOff /\ ~Exhausted
  /\ tx_count' = 1
  /\ signoff_sent' = (signoff_sent \/ state = SIGNOFF)
  /\ courtesies' = courtesies + IF state = SIGNOFF THEN 1 ELSE 0
  /\ UNCHANGED <<state, tx_enabled, disarm_reason, qso, logging, heard, finals, session>>

HandOut ==
  /\ tx_enabled /\ state \in Exchanging
  /\ ~SignedOff /\ ~Exhausted
  /\ tx_count' = tx_count + 1
  /\ signoff_sent' = (signoff_sent \/ state = SIGNOFF)
  /\ courtesies' = courtesies + IF state = SIGNOFF THEN 1 ELSE 0
  /\ UNCHANGED <<state, tx_enabled, disarm_reason, qso, logging, heard, finals, session>>

RetryExhausted ==
  /\ tx_enabled /\ state \in Exchanging
  /\ ~SignedOff /\ Exhausted
  /\ Stop("retry_exhausted")

\* The partner stayed silent after the courtesy 73.
CourtesyOver ==
  /\ tx_enabled /\ SignedOff
  /\ UNCHANGED <<tx_count, signoff_sent, qso, tally>>
  /\ EnsureLog
  /\ tx_enabled' = FALSE /\ state' = DONE /\ disarm_reason' = "complete"

NextTxMessage == HandOut \/ RetryExhausted \/ CourtesyOver

-----------------------------------------------------------------------------
OnMessage(p, kind) == HearAnswer(p, kind) \/ HearProgress(p, kind) \/ HearAgain(p, kind)

SeqNext ==
  \/ StartCq
  \/ \E p \in Stations, parity \in {0, 1} : ReplyTo(p, parity)
  \/ \E reason \in {"manual", "fault"} : Stop(reason)
  \/ PartnerTurnsAway
  \/ \E p \in Stations, kind \in Kinds : OnMessage(p, kind)
  \/ NextTxMessage

SeqSpec == Init /\ [][SeqNext]_seqVars

\* The driver asks in every eligible slot.
FairSeqSpec == SeqSpec /\ WF_seqVars(NextTxMessage)

-----------------------------------------------------------------------------
Records == [dx_call : Stations, report_rcvd : BOOLEAN]

SeqFlagsOK ==
  /\ tx_enabled \in BOOLEAN /\ report_rcvd \in BOOLEAN /\ signoff_sent \in BOOLEAN
  /\ partner_loss_stop \in BOOLEAN /\ qso_logged \in BOOLEAN

SeqDataOK ==
  /\ state \in States
  /\ dx_call \in Stations \cup {NoCall}
  /\ disarm_reason \in Reasons \cup {NoReason}
  /\ tx_phase \in {0, 1}
  /\ tx_count \in 0 .. 1 + MaxRetransmissions
  /\ log \in Seq(Records)
  /\ heard \in 0 .. MaxHeard /\ finals \in Nat /\ courtesies \in Nat
  /\ session \in {0, 1}

SeqTypeOK == SeqFlagsOK /\ SeqDataOK

\* The sequencer sends exactly while a QSO or a CQ is on: no path leaves the
\* flag up in IDLE or DONE, where on_message() and next_tx_message() would be
\* dead, or down in a state that the UI shows as active.
EnabledIffActive == tx_enabled <=> state \in Active

\* A partner is known exactly in the exchanging states and, retained, after.
PartnerKnown ==
  /\ state = CALLING => dx_call = NoCall
  /\ state \in Exchanging \cup {DONE} => dx_call # NoCall

\* A QSO that is signed off or done has its record, which names the partner
\* (UC-005, NFR-056): no end of an exchange loses it.
SignedOffIsLogged ==
  state \in {SIGNOFF, DONE} => qso_logged /\ log # << >> /\ log[Len(log)].dx_call = dx_call

\* Exactly one 73 for each final message of the partner, never two in a row
\* on our own (15.6), whatever else the partner sends in between.
OneCourtesyEach == courtesies <= finals

\* The budget the courtesy 73 still has (makes OneCourtesyEach inductive).
CourtesyAllowed ==
  state = SIGNOFF => courtesies + (IF signoff_sent THEN 0 ELSE 1) <= finals

\* An exchange never goes back: within a session a late, repeated or stray
\* message leaves it where it is or moves it on, the partner once known stays,
\* and what has ended does not go on.
Rank ==
  [s \in States |->
     CASE s = CALLING -> 0 [] s \in {REPLYING, REPORT} -> 1
       [] s \in {ROGER_REPORT, ROGERS} -> 2 [] s = SIGNOFF -> 3
       [] s \in {IDLE, DONE} -> 4]

SessionOnward ==
  [][session' = session
       => /\ Rank[state'] >= Rank[state]
          /\ state \in {IDLE, DONE} => state' = state
          /\ dx_call # NoCall => dx_call' = dx_call]_seqVars

\* A session ends its exchange whatever the partner does, also when it falls
\* silent for good at any point of it (NFR-055).
QsoEnds ==
  \A s \in {0, 1} :
    session = s /\ state \in Exchanging ~> session # s \/ state \notin Exchanging

(***************************************************************************)
(* The logbook's view of the sequencer.                                    *)
(***************************************************************************)
ContactPhase ==
  IF dx_call = NoCall THEN "none"
  ELSE IF ~qso_logged THEN "open"
  ELSE IF state = DONE THEN "completed" ELSE "written"

Contract == INSTANCE QsoContract
              WITH partner <- dx_call, phase <- ContactPhase,
                   logbook <- [i \in 1 .. Len(log) |-> log[i].dx_call]

KeepsContract == Contract!Spec
=============================================================================
