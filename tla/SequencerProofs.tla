-------------------------- MODULE SequencerProofs ---------------------------
(***************************************************************************)
(* What Sequencer guarantees for any set of stations, any retry budget and *)
(* any number of messages heard: its types, its flag, its log record, its  *)
(* courtesy, and that it keeps the contract of its logbook. CqLoopProofs   *)
(* and SlotTxProofs show that it still does where it is driven.            *)
(***************************************************************************)
EXTENDS Sequencer, SequenceTheorems, TLAPS

\* A session that has not signed off has written nothing.
Unwritten == {CALLING, REPLYING, REPORT, ROGER_REPORT, ROGERS}
FreshUnlogged == state \in Unwritten => ~qso_logged

SeqInv ==
  /\ SeqFlagsOK /\ SeqDataOK
  /\ EnabledIffActive /\ PartnerKnown
  /\ SignedOffIsLogged /\ FreshUnlogged
  /\ OneCourtesyEach /\ CourtesyAllowed

-----------------------------------------------------------------------------
(***************************************************************************)
(* The log grows by one record at its end.                                 *)
(***************************************************************************)
LEMMA Tabulated ==
  ASSUME NEW S, NEW n \in Nat, NEW f \in [1 .. n -> S]
  PROVE  f \in Seq(S) /\ Len(f) = n
<1>1. f \in Seq(S)
  BY SeqDef
<1>2. DOMAIN f = 1 .. n
  OBVIOUS
<1>3. Len(f) \in Nat /\ DOMAIN f = 1 .. Len(f)
  BY <1>1, LenProperties
<1>4. 1 .. n = 1 .. Len(f)
  BY <1>2, <1>3
<1>5. Len(f) = n
  BY <1>3, <1>4
<1> QED BY <1>1, <1>5

LEMMA LogGrows ==
  ASSUME NEW s \in Seq(Records), NEW r \in Records
  PROVE  /\ Append(s, r) \in Seq(Records)
         /\ Append(s, r) # << >>
         /\ Len(Append(s, r)) = Len(s) + 1
         /\ Append(s, r)[Len(s) + 1] = r
         /\ \A i \in 1 .. Len(s) : Append(s, r)[i] = s[i]
BY AppendProperties

\* The stations of a log.
Calls(s) == [i \in 1 .. Len(s) |-> s[i].dx_call]

LEMMA CallsTyped ==
  ASSUME NEW s \in Seq(Records)
  PROVE  Calls(s) \in Seq(Stations) /\ Len(Calls(s)) = Len(s)
<1>1. \A i \in 1 .. Len(s) : s[i] \in Records
  BY ElementOfSeq
<1>2. \A i \in 1 .. Len(s) : s[i].dx_call \in Stations
  BY <1>1 DEF Records
<1>3. Calls(s) \in [1 .. Len(s) -> Stations]
  BY <1>2 DEF Calls
<1>4. Len(s) \in Nat
  BY LenProperties
<1> QED BY <1>3, <1>4, Tabulated

\* A record more is a station more.
LEMMA LogbookGrows ==
  ASSUME NEW s \in Seq(Records), NEW r \in Records
  PROVE  Calls(Append(s, r)) = Append(Calls(s), r.dx_call)
<1> DEFINE t == Append(s, r)
           u == Append(Calls(s), r.dx_call)
<1>0. Len(s) \in Nat
  BY LenProperties
<1>1. t \in Seq(Records) /\ Len(t) = Len(s) + 1
  BY LogGrows
<1>2. Calls(s) \in Seq(Stations) /\ Len(Calls(s)) = Len(s)
  BY CallsTyped
<1>3. Calls(t) \in Seq(Stations) /\ Len(Calls(t)) = Len(s) + 1
  BY <1>1, CallsTyped
<1>4. r.dx_call \in Stations
  BY DEF Records
<1>5. /\ u \in Seq(Stations) /\ Len(u) = Len(s) + 1
      /\ \A i \in 1 .. Len(s) : u[i] = Calls(s)[i]
      /\ u[Len(s) + 1] = r.dx_call
  BY <1>2, <1>4, AppendProperties
<1>6. /\ \A i \in 1 .. Len(s) : t[i] = s[i]
      /\ t[Len(s) + 1] = r
  BY LogGrows
<1> HIDE DEF t, u
<1>7. \A i \in 1 .. Len(s) + 1 : Calls(t)[i] = u[i]
  <2> TAKE i \in 1 .. Len(s) + 1
  <2>1. Calls(t)[i] = t[i].dx_call
    BY <1>1 DEF Calls
  <2>2. CASE i = Len(s) + 1
    BY <2>1, <2>2, <1>5, <1>6
  <2>3. CASE i # Len(s) + 1
    <3>1. i \in 1 .. Len(s)
      BY <2>3, <1>0
    <3>2. Calls(s)[i] = s[i].dx_call
      BY <3>1 DEF Calls
    <3> QED BY <3>1, <3>2, <2>1, <1>5, <1>6
  <2> QED BY <2>2, <2>3
<1>8. Calls(t) = u
  BY <1>3, <1>5, <1>7, SeqEqual
<1> QED BY <1>8 DEF t, u

-----------------------------------------------------------------------------
(***************************************************************************)
(* The inductive invariant.                                                *)
(***************************************************************************)
LEMMA SeqInvInit == Init => SeqInv
<1> SUFFICES ASSUME Init PROVE SeqInv
  OBVIOUS
<1>1. SeqFlagsOK
  BY Zenon DEF Init, SeqFlagsOK
<1>2. log \in Seq(Records)
  BY EmptySeq DEF Init
<1>3. SeqDataOK
  BY <1>2, RetryAssumption DEF Init, SeqDataOK, States, Active, Exchanging, IDLE
<1>4. state = IDLE /\ tx_enabled = FALSE
  BY DEF Init
<1>5. EnabledIffActive /\ PartnerKnown /\ SignedOffIsLogged /\ FreshUnlogged
  BY <1>4 DEF EnabledIffActive, PartnerKnown, SignedOffIsLogged, FreshUnlogged, Unwritten,
     Active, Exchanging, IDLE, CALLING, REPLYING, REPORT, ROGER_REPORT, ROGERS, SIGNOFF, DONE
<1>6. OneCourtesyEach /\ CourtesyAllowed
  BY DEF Init, OneCourtesyEach, CourtesyAllowed, IDLE, SIGNOFF
<1> QED BY <1>1, <1>3, <1>5, <1>6 DEF SeqInv

LEMMA SeqFlagsStep ==
  ASSUME SeqFlagsOK, [SeqNext]_seqVars
  PROVE  SeqFlagsOK'
<1> USE DEF SeqFlagsOK
<1>1. CASE StartCq
  BY <1>1, Zenon DEF StartCq, ResetPartner
<1>2. ASSUME NEW p \in Stations, NEW parity \in {0, 1}, ReplyTo(p, parity)
      PROVE  SeqFlagsOK'
  BY <1>2, Zenon DEF ReplyTo, ResetPartner
<1>3. ASSUME NEW reason, Stop(reason)
      PROVE  SeqFlagsOK'
  BY <1>3, Zenon DEF Stop, qso, logging
<1>4. CASE PartnerTurnsAway
  BY <1>3, <1>4 DEF PartnerTurnsAway
<1>5. ASSUME NEW p \in Stations, NEW kind \in Kinds, OnMessage(p, kind)
      PROVE  SeqFlagsOK'
  <2>1. report_rcvd' \in BOOLEAN /\ partner_loss_stop' \in BOOLEAN
    BY <1>5, Zenon DEF OnMessage, HearAnswer, HearProgress, HearAgain, Concerns
  <2>2. tx_enabled' \in BOOLEAN /\ signoff_sent' \in BOOLEAN
    BY <1>5, Zenon DEF OnMessage, HearAnswer, HearProgress, HearAgain
  <2>3. qso_logged' \in BOOLEAN
    BY <1>5, Zenon DEF OnMessage, HearAnswer, HearProgress, HearAgain, EnsureLog, logging
  <2> QED BY <2>1, <2>2, <2>3
<1>6. CASE HandOut
  BY <1>6, Zenon DEF HandOut, qso, logging
<1>7. CASE RetryExhausted
  BY <1>3, <1>7 DEF RetryExhausted
<1>8. CASE CourtesyOver
  BY <1>8, Zenon DEF CourtesyOver, EnsureLog, qso
<1>9. CASE UNCHANGED seqVars
  BY <1>9, Zenon DEF seqVars, qso, logging
<1> QED BY <1>1, <1>2, <1>3, <1>4, <1>5, <1>6, <1>7, <1>8, <1>9 DEF SeqNext, NextTxMessage

\* However a QSO comes to its end, its record is in the log then, and last.
LEMMA Recorded ==
  ASSUME SeqDataOK, dx_call \in Stations, report_rcvd' \in BOOLEAN, EnsureLog,
         qso_logged => log # << >> /\ log[Len(log)].dx_call = dx_call
  PROVE  /\ log' \in Seq(Records)
         /\ qso_logged'
         /\ log' # << >> /\ log'[Len(log')].dx_call = dx_call
<1>1. log \in Seq(Records)
  BY DEF SeqDataOK
<1>2. CASE qso_logged
  BY <1>1, <1>2 DEF EnsureLog
<1>3. CASE ~qso_logged
  <2> DEFINE r == [dx_call |-> dx_call, report_rcvd |-> report_rcvd']
  <2>1. r \in Records /\ r.dx_call = dx_call
    BY DEF Records
  <2>2. log' = Append(log, r) /\ qso_logged'
    BY <1>3 DEF EnsureLog
  <2> HIDE DEF r
  <2> QED BY <2>1, <2>2, <1>1, LogGrows
<1> QED BY <1>2, <1>3

SeqRest ==
  /\ SeqDataOK
  /\ EnabledIffActive /\ PartnerKnown
  /\ SignedOffIsLogged /\ FreshUnlogged
  /\ OneCourtesyEach /\ CourtesyAllowed

\* One lemma for each method: the flags are SeqFlagsStep's.
LEMMA StartCqKeeps ==
  ASSUME SeqFlagsOK, SeqRest, StartCq
  PROVE  SeqRest'
<1> USE DEF IDLE, CALLING, REPLYING, REPORT, ROGER_REPORT, ROGERS, SIGNOFF, DONE
<1>1. SeqDataOK'
  BY RetryAssumption DEF SeqRest, SeqDataOK, StartCq, ResetPartner, States, Active, Exchanging
<1>2. EnabledIffActive' /\ PartnerKnown' /\ SignedOffIsLogged' /\ FreshUnlogged'
  BY DEF StartCq, ResetPartner, EnabledIffActive, PartnerKnown, SignedOffIsLogged,
     FreshUnlogged, Unwritten, Active, Exchanging
<1>3. OneCourtesyEach' /\ CourtesyAllowed'
  BY DEF StartCq, ResetPartner, OneCourtesyEach, CourtesyAllowed
<1> QED BY <1>1, <1>2, <1>3 DEF SeqRest

LEMMA ReplyToKeeps ==
  ASSUME SeqFlagsOK, SeqRest, NEW p \in Stations, NEW parity \in {0, 1}, ReplyTo(p, parity)
  PROVE  SeqRest'
<1> USE DEF IDLE, CALLING, REPLYING, REPORT, ROGER_REPORT, ROGERS, SIGNOFF, DONE
<1>1. SeqDataOK'
  BY RetryAssumption DEF SeqRest, SeqDataOK, ReplyTo, ResetPartner, States, Active, Exchanging
<1>2. EnabledIffActive' /\ PartnerKnown' /\ SignedOffIsLogged' /\ FreshUnlogged'
  BY StationsAssumption
  DEF ReplyTo, ResetPartner, EnabledIffActive, PartnerKnown, SignedOffIsLogged,
     FreshUnlogged, Unwritten, Active, Exchanging
<1>3. OneCourtesyEach' /\ CourtesyAllowed'
  BY DEF ReplyTo, ResetPartner, OneCourtesyEach, CourtesyAllowed
<1> QED BY <1>1, <1>2, <1>3 DEF SeqRest

LEMMA StopKeeps ==
  ASSUME SeqFlagsOK, SeqRest, NEW reason \in Reasons, Stop(reason)
  PROVE  SeqRest'
<1> USE DEF IDLE, CALLING, REPLYING, REPORT, ROGER_REPORT, ROGERS, SIGNOFF, DONE
<1>1. SeqDataOK'
  BY DEF SeqRest, SeqDataOK, Stop, States, Active, Exchanging, qso, logging, tally
<1>2. EnabledIffActive' /\ PartnerKnown' /\ SignedOffIsLogged' /\ FreshUnlogged'
  BY DEF SeqRest, Stop, EnabledIffActive, PartnerKnown, SignedOffIsLogged,
     FreshUnlogged, Unwritten, Active, Exchanging, qso, logging
<1>3. OneCourtesyEach' /\ CourtesyAllowed'
  BY DEF SeqRest, Stop, OneCourtesyEach, CourtesyAllowed, tally
<1> QED BY <1>1, <1>2, <1>3 DEF SeqRest

\* A message that advances nothing, and one that answers a CQ.
LEMMA ConcernsCounts ==
  ASSUME SeqRest, NEW p \in Stations, NEW kind \in Kinds, Concerns(p, kind)
  PROVE  /\ tx_enabled /\ state \in Active
         /\ dx_call \in {NoCall, p}
         /\ tx_count' = 0 /\ tx_phase' \in {0, 1} /\ session' \in {0, 1}
         /\ heard' \in 0 .. MaxHeard /\ finals' \in Nat /\ courtesies' \in Nat
         /\ courtesies' = courtesies
         /\ finals' = finals + IF kind \in Finals THEN 1 ELSE 0
         /\ finals \in Nat /\ courtesies \in Nat
BY RetryAssumption DEF Concerns, Listening, SeqRest, SeqDataOK

LEMMA HearAnswerKeeps ==
  ASSUME SeqFlagsOK, SeqRest, NEW p \in Stations, NEW kind \in Kinds, HearAnswer(p, kind)
  PROVE  SeqRest'
<1> USE DEF IDLE, CALLING, REPLYING, REPORT, ROGER_REPORT, ROGERS, SIGNOFF, DONE
<1>1. Concerns(p, kind) /\ state = CALLING /\ state' = REPORT /\ dx_call' = p
      /\ UNCHANGED <<tx_enabled, disarm_reason, logging>>
  BY DEF HearAnswer
<1>2. SeqDataOK'
  BY <1>1, ConcernsCounts, RetryAssumption
  DEF SeqRest, SeqDataOK, States, Active, Exchanging, logging
<1>3. EnabledIffActive' /\ PartnerKnown' /\ SignedOffIsLogged' /\ FreshUnlogged'
  BY <1>1, StationsAssumption
  DEF SeqRest, EnabledIffActive, PartnerKnown, SignedOffIsLogged, FreshUnlogged, Unwritten,
      Active, Exchanging, logging
<1>4. OneCourtesyEach' /\ CourtesyAllowed'
  BY <1>1, ConcernsCounts DEF SeqRest, OneCourtesyEach, CourtesyAllowed
<1> QED BY <1>2, <1>3, <1>4 DEF SeqRest

LEMMA HearAgainKeeps ==
  ASSUME SeqFlagsOK, SeqRest, NEW p \in Stations, NEW kind \in Kinds, HearAgain(p, kind)
  PROVE  SeqRest'
<1> USE DEF IDLE, CALLING, REPLYING, REPORT, ROGER_REPORT, ROGERS, SIGNOFF, DONE
<1>1. Concerns(p, kind)
      /\ UNCHANGED <<state, tx_enabled, disarm_reason, dx_call, logging>>
  BY DEF HearAgain
<1>2. SeqDataOK'
  BY <1>1, ConcernsCounts, RetryAssumption DEF SeqRest, SeqDataOK, logging
<1>3. EnabledIffActive' /\ PartnerKnown' /\ SignedOffIsLogged' /\ FreshUnlogged'
  BY <1>1
  DEF SeqRest, EnabledIffActive, PartnerKnown, SignedOffIsLogged, FreshUnlogged, logging
<1>4. OneCourtesyEach'
  BY <1>1, ConcernsCounts DEF SeqRest, OneCourtesyEach
<1>5. CourtesyAllowed'
  <2>1. CASE kind \in Finals
    BY <1>1, <2>1, ConcernsCounts DEF SeqRest, OneCourtesyEach, CourtesyAllowed
  <2>2. CASE kind \notin Finals
    <3>1. state = SIGNOFF => (signoff_sent' <=> signoff_sent)
      BY <2>2 DEF HearAgain
    <3> QED BY <1>1, <2>2, <3>1, ConcernsCounts DEF SeqRest, CourtesyAllowed
  <2> QED BY <2>1, <2>2
<1> QED BY <1>2, <1>3, <1>4, <1>5 DEF SeqRest

\* What a message can advance a QSO to.
LEMMA AdvancesOnward ==
  ASSUME NEW kind, NEW s, <<state, kind, s>> \in Advances
  PROVE  /\ state \in Exchanging \ {SIGNOFF} /\ state \in Unwritten
         /\ s \in {ROGER_REPORT, ROGERS, SIGNOFF, DONE}
         /\ s = SIGNOFF => kind \in Finals
BY DEF Advances, Exchanging, Unwritten, Finals, IDLE, CALLING, REPLYING, REPORT, ROGER_REPORT, ROGERS, SIGNOFF, DONE

LEMMA HearProgressKeeps ==
  ASSUME SeqFlagsOK, SeqFlagsOK', SeqRest,
         NEW p \in Stations, NEW kind \in Kinds, HearProgress(p, kind)
  PROVE  SeqRest'
<1> USE DEF IDLE, CALLING, REPLYING, REPORT, ROGER_REPORT, ROGERS, SIGNOFF, DONE
<1>1. Concerns(p, kind) /\ dx_call' = dx_call
  BY DEF HearProgress
<1>2. /\ state \in Exchanging \ {SIGNOFF} /\ state \in Unwritten
      /\ state' \in {ROGER_REPORT, ROGERS, SIGNOFF, DONE}
      /\ state' = SIGNOFF => kind \in Finals
  BY AdvancesOnward DEF HearProgress
<1>3. dx_call \in Stations /\ ~qso_logged
  BY <1>2 DEF SeqRest, SeqDataOK, PartnerKnown, FreshUnlogged
<1>4. tx_enabled
  BY <1>1 DEF Concerns, Listening
<1>5. CASE state' \in {SIGNOFF, DONE}
  <2>1. EnsureLog /\ SeqDataOK
    BY <1>5 DEF HearProgress, SeqRest
  <2>2. report_rcvd' \in BOOLEAN
    BY DEF SeqFlagsOK
  <2>3. /\ log' \in Seq(Records) /\ qso_logged'
        /\ log' # << >> /\ log'[Len(log')].dx_call = dx_call
    BY <2>1, <2>2, <1>3, Recorded
  <2>4. IF state' = DONE THEN tx_enabled' = FALSE /\ disarm_reason' = "complete"
        ELSE UNCHANGED <<tx_enabled, disarm_reason>>
    BY DEF HearProgress
  <2>5. SeqDataOK'
    BY <1>1, <1>2, <2>3, <2>4, ConcernsCounts, RetryAssumption
    DEF SeqRest, SeqDataOK, States, Active, Exchanging, Reasons
  <2>6. EnabledIffActive'
    BY <1>4, <1>5, <2>4 DEF EnabledIffActive, Active, Exchanging
  <2>7. PartnerKnown' /\ SignedOffIsLogged' /\ FreshUnlogged'
    BY <1>1, <1>3, <1>5, <2>3, StationsAssumption
    DEF PartnerKnown, SignedOffIsLogged, FreshUnlogged, Unwritten
  <2>8. OneCourtesyEach' /\ CourtesyAllowed'
    BY <1>1, <1>2, ConcernsCounts DEF SeqRest, OneCourtesyEach, CourtesyAllowed
  <2> QED BY <2>5, <2>6, <2>7, <2>8 DEF SeqRest
<1>6. CASE state' \in {ROGER_REPORT, ROGERS}
  <2>1. UNCHANGED logging /\ UNCHANGED <<tx_enabled, disarm_reason>>
    BY <1>6 DEF HearProgress
  <2>2. SeqDataOK'
    BY <1>1, <1>6, <2>1, ConcernsCounts, RetryAssumption
    DEF SeqRest, SeqDataOK, States, Active, Exchanging, logging
  <2>3. EnabledIffActive'
    BY <1>4, <1>6, <2>1 DEF EnabledIffActive, Active, Exchanging
  <2>4. PartnerKnown' /\ SignedOffIsLogged' /\ FreshUnlogged'
    BY <1>1, <1>3, <1>6, <2>1, StationsAssumption
    DEF PartnerKnown, SignedOffIsLogged, FreshUnlogged, Exchanging, logging
  <2>5. OneCourtesyEach' /\ CourtesyAllowed'
    BY <1>1, <1>6, ConcernsCounts DEF SeqRest, OneCourtesyEach, CourtesyAllowed
  <2> QED BY <2>2, <2>3, <2>4, <2>5 DEF SeqRest
<1> QED BY <1>2, <1>5, <1>6

LEMMA HandOutKeeps ==
  ASSUME SeqFlagsOK, SeqRest, HandOut
  PROVE  SeqRest'
<1> USE DEF IDLE, CALLING, REPLYING, REPORT, ROGER_REPORT, ROGERS, SIGNOFF, DONE
<1>1. SeqDataOK'
  BY RetryAssumption DEF SeqRest, SeqDataOK, HandOut, Exhausted, qso, logging
<1>2. EnabledIffActive' /\ PartnerKnown' /\ SignedOffIsLogged' /\ FreshUnlogged'
  BY DEF SeqRest, HandOut, EnabledIffActive, PartnerKnown, SignedOffIsLogged, FreshUnlogged,
     qso, logging
<1>3. courtesies \in Nat /\ finals \in Nat
  BY DEF SeqRest, SeqDataOK
<1>4. CASE state = SIGNOFF
  <2>1. ~signoff_sent /\ courtesies + 1 <= finals
    BY <1>4 DEF SeqRest, CourtesyAllowed, HandOut, SignedOff
  <2>2. courtesies' = courtesies + 1 /\ finals' = finals /\ signoff_sent'
    BY <1>4 DEF HandOut
  <2> QED BY <1>1, <1>2, <1>3, <2>1, <2>2 DEF SeqRest, OneCourtesyEach, CourtesyAllowed
<1>5. CASE state # SIGNOFF
  <2>1. state' # SIGNOFF /\ courtesies' = courtesies /\ finals' = finals
    BY <1>3, <1>5 DEF HandOut
  <2> QED BY <1>1, <1>2, <2>1 DEF SeqRest, OneCourtesyEach, CourtesyAllowed
<1> QED BY <1>4, <1>5

LEMMA CourtesyOverKeeps ==
  ASSUME SeqFlagsOK, SeqRest, CourtesyOver
  PROVE  SeqRest'
<1> USE DEF IDLE, CALLING, REPLYING, REPORT, ROGER_REPORT, ROGERS, SIGNOFF, DONE
<1>1. /\ state = SIGNOFF /\ state' = DONE /\ tx_enabled' = FALSE /\ disarm_reason' = "complete"
      /\ UNCHANGED <<tx_count, qso, tally>> /\ EnsureLog
  BY DEF CourtesyOver, SignedOff
<1>2. dx_call \in Stations /\ (qso_logged => log # << >> /\ log[Len(log)].dx_call = dx_call)
  BY <1>1 DEF SeqRest, SeqDataOK, PartnerKnown, SignedOffIsLogged, Exchanging
<1>3. report_rcvd' \in BOOLEAN
  BY <1>1 DEF SeqFlagsOK, qso
<1>4. SeqDataOK
  BY DEF SeqRest
<1>5. /\ log' \in Seq(Records) /\ qso_logged'
      /\ log' # << >> /\ log'[Len(log')].dx_call = dx_call
  BY <1>1, <1>2, <1>3, <1>4, Recorded
<1>6. SeqDataOK'
  BY <1>1, <1>4, <1>5 DEF SeqDataOK, States, Reasons, qso, tally
<1>7. EnabledIffActive' /\ PartnerKnown' /\ SignedOffIsLogged' /\ FreshUnlogged'
  BY <1>1, <1>2, <1>5, StationsAssumption
  DEF EnabledIffActive, PartnerKnown, SignedOffIsLogged, FreshUnlogged, Unwritten,
      Active, Exchanging, qso
<1>8. OneCourtesyEach' /\ CourtesyAllowed'
  BY <1>1 DEF SeqRest, OneCourtesyEach, CourtesyAllowed, tally
<1> QED BY <1>6, <1>7, <1>8 DEF SeqRest

LEMMA SeqInvStep == SeqInv /\ [SeqNext]_seqVars => SeqInv'
<1> SUFFICES ASSUME SeqInv, [SeqNext]_seqVars PROVE SeqInv'
  OBVIOUS
<1>1. SeqFlagsOK /\ SeqRest
  BY DEF SeqInv, SeqRest
<1>2. SeqFlagsOK'
  BY <1>1, SeqFlagsStep
<1>3. SUFFICES SeqRest'
  BY <1>2 DEF SeqInv, SeqRest
<1>4. CASE StartCq
  BY <1>1, <1>4, StartCqKeeps
<1>5. ASSUME NEW p \in Stations, NEW parity \in {0, 1}, ReplyTo(p, parity)
      PROVE  SeqRest'
  BY <1>1, <1>5, ReplyToKeeps
<1>6. ASSUME NEW reason \in Reasons, Stop(reason)
      PROVE  SeqRest'
  BY <1>1, <1>6, StopKeeps
<1>7. CASE \E reason \in {"manual", "fault"} : Stop(reason)
  BY <1>6, <1>7 DEF Reasons
<1>8. CASE PartnerTurnsAway \/ RetryExhausted
  BY <1>6, <1>8 DEF PartnerTurnsAway, RetryExhausted, Reasons
<1>9. ASSUME NEW p \in Stations, NEW kind \in Kinds, OnMessage(p, kind)
      PROVE  SeqRest'
  BY <1>1, <1>2, <1>9, HearAnswerKeeps, HearProgressKeeps, HearAgainKeeps DEF OnMessage
<1>10. CASE HandOut
  BY <1>1, <1>10, HandOutKeeps
<1>11. CASE CourtesyOver
  BY <1>1, <1>11, CourtesyOverKeeps
<1>12. CASE UNCHANGED seqVars
  BY <1>1, <1>12
  DEF seqVars, qso, logging, tally, SeqRest, SeqDataOK, EnabledIffActive, PartnerKnown,
      SignedOffIsLogged, FreshUnlogged, OneCourtesyEach, CourtesyAllowed
<1> QED
  BY <1>4, <1>5, <1>7, <1>8, <1>9, <1>10, <1>11, <1>12 DEF SeqNext, NextTxMessage

THEOREM SeqInvariant == SeqSpec => []SeqInv
BY SeqInvInit, SeqInvStep, PTL DEF SeqSpec

-----------------------------------------------------------------------------
(***************************************************************************)
(* The properties.                                                         *)
(***************************************************************************)
\* The fields of Sequencer keep their ranges; tx_count never passes the budget.
THEOREM SeqTypeCorrect == SeqSpec => []SeqTypeOK
<1>1. SeqInv => SeqTypeOK
  BY DEF SeqInv, SeqTypeOK
<1> QED BY <1>1, SeqInvariant, PTL

\* tx_enabled is up exactly while a CQ or an exchange is on.
THEOREM FlagFollowsState == SeqSpec => []EnabledIffActive
<1>1. SeqInv => EnabledIffActive
  BY DEF SeqInv
<1> QED BY <1>1, SeqInvariant, PTL

\* No QSO is signed off or done without its record (_ensure_log).
THEOREM NoQsoUnlogged == SeqSpec => []SignedOffIsLogged
<1>1. SeqInv => SignedOffIsLogged
  BY DEF SeqInv
<1> QED BY <1>1, SeqInvariant, PTL

\* One courtesy 73 at most for each final message of the partner.
THEOREM CourtesiesAnswered == SeqSpec => []OneCourtesyEach
<1>1. SeqInv => OneCourtesyEach
  BY DEF SeqInv
<1> QED BY <1>1, SeqInvariant, PTL

\* What a step may do to the exchange of the session it is in.
Onward == session' = session
            => /\ Rank[state'] >= Rank[state]
               /\ state \in {IDLE, DONE} => state' = state
               /\ dx_call # NoCall => dx_call' = dx_call

LEMMA MovesOn ==
  SeqInv /\ [SeqNext]_seqVars => [Onward]_seqVars
<1> SUFFICES ASSUME SeqInv, [SeqNext]_seqVars PROVE [Onward]_seqVars
  OBVIOUS
<1>1. /\ Rank[IDLE] = 4 /\ Rank[DONE] = 4 /\ Rank[SIGNOFF] = 3
      /\ Rank[ROGERS] = 2 /\ Rank[ROGER_REPORT] = 2
      /\ Rank[REPORT] = 1 /\ Rank[REPLYING] = 1 /\ Rank[CALLING] = 0
  BY DEF Rank, States, Active, Exchanging, IDLE, CALLING, REPLYING, REPORT, ROGER_REPORT, ROGERS, SIGNOFF, DONE
<1>2. state \in States /\ session \in {0, 1}
  BY DEF SeqInv, SeqDataOK
<1>3. ASSUME session' = 1 - session
      PROVE  Onward
  BY <1>2, <1>3 DEF Onward
<1>4. CASE StartCq \/ \E p \in Stations, parity \in {0, 1} : ReplyTo(p, parity)
  BY <1>3, <1>4 DEF StartCq, ReplyTo, ResetPartner
<1>5. ASSUME state' = state, dx_call' = dx_call
      PROVE  Onward
  BY <1>1, <1>2, <1>5 DEF Onward, States, Active, Exchanging
<1>6. ASSUME state' \in {IDLE, DONE}, state \in {IDLE, DONE} => state' = state, dx_call' = dx_call
      PROVE  Onward
  BY <1>1, <1>2, <1>6 DEF Onward, States, Active, Exchanging
<1>7. CASE \E reason : Stop(reason)
  BY <1>6, <1>7 DEF Stop, qso, IDLE, DONE
<1>8. CASE PartnerTurnsAway \/ RetryExhausted
  BY <1>7, <1>8 DEF PartnerTurnsAway, RetryExhausted
<1>9. ASSUME NEW p \in Stations, NEW kind \in Kinds, OnMessage(p, kind)
      PROVE  Onward
  <2>1. CASE HearAnswer(p, kind)
    <3>1. dx_call = NoCall /\ state = CALLING /\ state' = REPORT
      BY <2>1 DEF HearAnswer, SeqInv, PartnerKnown
    <3> QED BY <1>1, <3>1 DEF Onward, IDLE, DONE, CALLING
  <2>2. CASE HearAgain(p, kind)
    BY <1>5, <2>2 DEF HearAgain
  <2>3. CASE HearProgress(p, kind)
    <3>1. \E s \in States : <<state, kind, s>> \in Advances /\ state' = s
      BY <2>3 DEF HearProgress
    <3>2. state \in {REPLYING, REPORT, ROGER_REPORT, ROGERS}
          /\ Rank[state'] >= Rank[state]
      BY <1>1, <3>1 DEF Advances, IDLE, CALLING, REPLYING, REPORT, ROGER_REPORT, ROGERS, SIGNOFF, DONE
    <3>3. dx_call' = dx_call
      BY <2>3 DEF HearProgress
    <3> QED BY <3>2, <3>3 DEF Onward, IDLE, CALLING, REPLYING, REPORT, ROGER_REPORT, ROGERS, SIGNOFF, DONE
  <2> QED BY <1>9, <2>1, <2>2, <2>3 DEF OnMessage
<1>10. CASE HandOut
  BY <1>5, <1>10 DEF HandOut, qso
<1>11. CASE CourtesyOver
  BY <1>6, <1>11 DEF CourtesyOver, SignedOff, qso, IDLE, CALLING, REPLYING, REPORT, ROGER_REPORT, ROGERS, SIGNOFF, DONE
<1>12. CASE UNCHANGED seqVars
  BY <1>12
<1>13. CASE \E reason \in {"manual", "fault"} : Stop(reason)
  BY <1>7, <1>13
<1> QED
  BY <1>4, <1>8, <1>9, <1>10, <1>11, <1>12, <1>13 DEF SeqNext, NextTxMessage

\* Within a session the exchange only moves on, with the partner it has.
THEOREM ExchangeMovesOn == SeqSpec => SessionOnward
BY MovesOn, SeqInvariant, PTL DEF SeqSpec, SessionOnward, Onward

-----------------------------------------------------------------------------
(***************************************************************************)
(* The refinement: each step of the sequencer is one of the contract, seen *)
(* from the logbook, or none.                                              *)
(***************************************************************************)
LogbookIs == [i \in 1 .. Len(log) |-> log[i].dx_call]

\* What the logbook sees of the end of a QSO.
LEMMA RecordShown ==
  ASSUME SeqDataOK, dx_call \in Stations, report_rcvd' \in BOOLEAN, EnsureLog, ~qso_logged
  PROVE  LogbookIs' = Append(LogbookIs, dx_call)
<1> DEFINE r == [dx_call |-> dx_call, report_rcvd |-> report_rcvd']
<1>1. r \in Records /\ r.dx_call = dx_call
  BY DEF Records
<1>2. log' = Append(log, r) /\ log \in Seq(Records)
  BY DEF EnsureLog, SeqDataOK
<1> HIDE DEF r
<1>3. Calls(Append(log, r)) = Append(Calls(log), dx_call)
  BY <1>1, <1>2, LogbookGrows
<1> QED BY <1>2, <1>3 DEF Calls, LogbookIs

LEMMA ContractInit == Init => Contract!Init
BY DEF Init, Contract!Init, ContactPhase

\* A step that leaves the partner, the record and the log, and does not end
\* the QSO, is not seen.
LEMMA Unseen ==
  ASSUME UNCHANGED <<dx_call, qso_logged, log>>, state' = DONE <=> state = DONE
  PROVE  UNCHANGED <<dx_call, ContactPhase, LogbookIs>>
BY DEF ContactPhase, LogbookIs

LEMMA ContractStep ==
  SeqInv /\ [SeqNext]_seqVars => [Contract!Next]_<<dx_call, ContactPhase, LogbookIs>>
<1> SUFFICES ASSUME SeqInv, [SeqNext]_seqVars
             PROVE  [Contract!Next]_<<dx_call, ContactPhase, LogbookIs>>
  OBVIOUS
<1> USE DEF IDLE, CALLING, REPLYING, REPORT, ROGER_REPORT, ROGERS, SIGNOFF, DONE
<1>1. SeqDataOK /\ SeqFlagsOK' /\ PartnerKnown /\ FreshUnlogged /\ SignedOffIsLogged
  BY SeqInvStep DEF SeqInv
<1>2. CASE StartCq
  <2>1. Contract!Listen
    BY <1>2 DEF StartCq, ResetPartner, Contract!Listen, ContactPhase
  <2> QED BY <2>1 DEF Contract!Next
<1>3. ASSUME NEW p \in Stations, NEW parity \in {0, 1}, ReplyTo(p, parity)
      PROVE  Contract!Next
  <2>1. Contract!Open(p)
    BY <1>3, StationsAssumption DEF ReplyTo, ResetPartner, Contract!Open, ContactPhase
  <2> QED BY <2>1 DEF Contract!Next
<1>4. ASSUME NEW reason, Stop(reason)
      PROVE  UNCHANGED <<dx_call, ContactPhase, LogbookIs>>
  BY <1>4, Unseen DEF Stop, qso, logging
<1>5. CASE PartnerTurnsAway \/ RetryExhausted
  BY <1>4, <1>5 DEF PartnerTurnsAway, RetryExhausted
<1>6. ASSUME NEW p \in Stations, NEW kind \in Kinds, HearAnswer(p, kind)
      PROVE  Contract!Next
  <2>1. state = CALLING /\ ~qso_logged /\ UNCHANGED <<qso_logged, log>> /\ dx_call' = p
    BY <1>1, <1>6 DEF HearAnswer, FreshUnlogged, Unwritten, logging
  <2>2. Contract!Open(p)
    BY <2>1, StationsAssumption DEF Contract!Open, ContactPhase
  <2> QED BY <2>2 DEF Contract!Next
<1>7. ASSUME NEW p \in Stations, NEW kind \in Kinds, HearAgain(p, kind)
      PROVE  UNCHANGED <<dx_call, ContactPhase, LogbookIs>>
  BY <1>7, Unseen DEF HearAgain, logging
<1>8. ASSUME NEW p \in Stations, NEW kind \in Kinds, HearProgress(p, kind)
      PROVE  [Contract!Next]_<<dx_call, ContactPhase, LogbookIs>>
  <2>1. /\ state \in Exchanging \ {SIGNOFF} /\ state \in Unwritten
        /\ state' \in {ROGER_REPORT, ROGERS, SIGNOFF, DONE}
    BY <1>8, AdvancesOnward DEF HearProgress
  <2>2. dx_call \in Stations /\ ~qso_logged /\ dx_call' = dx_call /\ report_rcvd' \in BOOLEAN
    BY <1>1, <1>8, <2>1
    DEF HearProgress, SeqDataOK, SeqFlagsOK, PartnerKnown, FreshUnlogged
  <2>3. CASE state' \in {SIGNOFF, DONE}
    <3>1. EnsureLog
      BY <1>8, <2>3 DEF HearProgress
    <3>2. qso_logged' /\ LogbookIs' = Append(LogbookIs, dx_call)
      BY <1>1, <2>2, <3>1, RecordShown DEF EnsureLog
    <3>3. ContactPhase = "open" /\ ContactPhase' \in {"written", "completed"}
      BY <2>2, <3>2, StationsAssumption DEF ContactPhase
    <3>4. Contract!Write
      BY <2>2, <3>2, <3>3 DEF Contract!Write, LogbookIs
    <3> QED BY <3>4 DEF Contract!Next
  <2>4. CASE state' \in {ROGER_REPORT, ROGERS}
    BY <1>8, <2>1, <2>2, <2>4, Unseen DEF HearProgress, logging, Unwritten
  <2> QED BY <2>1, <2>3, <2>4
<1>9. CASE HandOut
  BY <1>9, Unseen DEF HandOut, qso, logging
<1>10. CASE CourtesyOver
  <2>1. /\ state = SIGNOFF /\ state' = DONE /\ dx_call' = dx_call
        /\ qso_logged /\ qso_logged' /\ log' = log
    BY <1>1, <1>10 DEF CourtesyOver, SignedOff, SignedOffIsLogged, EnsureLog, qso
  <2>2. dx_call # NoCall
    BY <1>1, <2>1 DEF PartnerKnown, Exchanging
  <2>3. Contract!Complete
    BY <2>1, <2>2 DEF Contract!Complete, ContactPhase
  <2> QED BY <2>3 DEF Contract!Next
<1>11. CASE UNCHANGED seqVars
  BY <1>11, Unseen DEF seqVars, qso, logging
<1>12. CASE \E reason \in {"manual", "fault"} : Stop(reason)
  BY <1>4, <1>12
<1> QED
  BY <1>2, <1>3, <1>5, <1>6, <1>7, <1>8, <1>9, <1>10, <1>11, <1>12
  DEF SeqNext, NextTxMessage, OnMessage

\* The sequencer implements QsoContract: each contact is with one station, is
\* written once at most and under its name, and completes only when written.
THEOREM Refinement == SeqSpec => KeepsContract
BY ContractInit, ContractStep, SeqInvariant, PTL
DEF SeqSpec, KeepsContract, Contract!Spec, LogbookIs
=============================================================================
