---------------------------- MODULE QsoContract ----------------------------
(***************************************************************************)
(* What a one-QSO sequencer promises its logbook (UC-005): a contact is    *)
(* with one station from its first call to its last, it is written once at *)
(* most, under the name of that station, and only a written contact ends   *)
(* as a completed one.                                                     *)
(***************************************************************************)
EXTENDS Sequences

CONSTANTS
  Stations,  \* the other stations on the band
  NoCall     \* no partner yet

VARIABLES
  partner,   \* the station this contact is with
  phase,     \* what has become of it
  logbook    \* the stations written, in order

Phases == {"none", "open", "written", "completed"}

Init ==
  /\ partner = NoCall
  /\ phase = "none"
  /\ logbook = << >>

\* The operator, or a loop on his behalf, drops what was and listens.
Listen ==
  /\ partner' = NoCall
  /\ phase' = "none"
  /\ UNCHANGED logbook

\* A contact with p is opened, with a station that answers or by a choice.
Open(p) ==
  /\ partner' = p
  /\ phase' = "open"
  /\ UNCHANGED logbook

Write ==
  /\ phase = "open"
  /\ logbook' = Append(logbook, partner)
  /\ phase' \in {"written", "completed"}
  /\ UNCHANGED partner

Complete ==
  /\ phase = "written"
  /\ phase' = "completed"
  /\ UNCHANGED <<partner, logbook>>

Next == Listen \/ (\E p \in Stations : Open(p)) \/ Write \/ Complete

Spec == Init /\ [][Next]_<<partner, phase, logbook>>
=============================================================================
