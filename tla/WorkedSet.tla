----------------------------- MODULE WorkedSet -----------------------------
(***************************************************************************)
(* The set of worked entities that the new-DXCC calls, the band hunter and *)
(* the DXCC page go by: a summary of the canonical store, kept in          *)
(* state.dxcc_cache and made anew when Repository.dxcc_dirty is up         *)
(* (server/web/api.py, main.py, engine/dxcc.py, engine/repository.py).     *)
(*                                                                         *)
(* QsoLog writes the store; an operator's undo and the hourly import of    *)
(* the JTDX log do too. Every writer raises the flag in its own thread     *)
(* before it waits for the database; whoever makes the summary lowers it   *)
(* after it has read. The event loop is held by the summary of a decoded   *)
(* slot, not by the others; threads run on in either case.                 *)
(***************************************************************************)
EXTENDS QsoLog

CONSTANTS
  Readers,   \* tasks that may make the summary in a thread at once
  Imports,   \* QSOs of the JTDX log
  MaxSides,  \* bound: undos and imports
  MaxScans   \* bound: summaries under way at once

ASSUME WorkedAssumption ==
  Imports \cap Qsos = {} /\ "decode" \notin Readers /\ {MaxSides, MaxScans} \subseteq Nat

VARIABLES
  voids,     \* how many rows of each QSO are void
  imported,  \* what the import has inserted
  sides,     \* undos and imports whose thread has raised the flag, not written
  dirty,     \* repository.dxcc_dirty
  cache,     \* state.dxcc_cache: << >>, or one summary
  scan,      \* what each reader has read of the store: << >>, or one summary
  raced      \* history: the cache was taken for current beside a write

worked == <<voids, imported, sides>>
wvars  == <<vars, worked, dirty, cache, scan, raced>>

None == << >>

Scanners == Readers \cup {"decode"}

\* dxcc_summary(): the QSOs that are not void
Summary == {q \in Qsos : store[q] > voids[q]} \cup imported

Sides == Cardinality({q \in Qsos : voids[q] > 0} \cup imported \cup sides)

Writing == outcome = "writing" \/ orphan # NoQso \/ sides # {}

WInit ==
  /\ Init
  /\ voids = [q \in Qsos |-> 0] /\ imported = {} /\ sides = {}
  /\ dirty = TRUE /\ cache = None /\ scan = [r \in Scanners |-> None] /\ raced = FALSE

-----------------------------------------------------------------------------
(***************************************************************************)
(* Those who write.                                                        *)
(***************************************************************************)
\* record_qso() raises the flag as it is called
Log(step) ==
  /\ step
  /\ dirty' = (dirty \/ (outcome' = "writing" /\ outcome # "writing"))
  /\ UNCHANGED <<worked, cache, scan, raced>>

LogDrains  == Log(Drain)
LogFlushes == Log(Flush)
LogRest    == Log(Shutdown \/ Recover \/ \E q \in Qsos : Enqueue(q))

LogWrites ==
  /\ StoreWrites \/ OrphanWrites
  /\ UNCHANGED <<worked, dirty, cache, scan, raced>>

\* as if an undo, which adds nothing, did not touch the flag
VoidUnmarked(q) ==
  /\ phase = "running" /\ store[q] > voids[q] /\ q \notin sides
  /\ Sides < MaxSides
  /\ sides' = sides \cup {q}
  /\ UNCHANGED <<vars, dirty, voids, imported, cache, scan, raced>>

Void(q) ==
  /\ phase = "running" /\ store[q] > voids[q] /\ q \notin sides
  /\ Sides < MaxSides
  /\ sides' = sides \cup {q} /\ dirty' = TRUE
  /\ UNCHANGED <<vars, voids, imported, cache, scan, raced>>

Import(q) ==
  /\ phase = "running" /\ q \notin imported /\ q \notin sides /\ Sides < MaxSides
  /\ sides' = sides \cup {q} /\ dirty' = TRUE
  /\ UNCHANGED <<vars, voids, imported, cache, scan, raced>>

\* One transaction, or none.
SideWrites(q) ==
  /\ q \in sides /\ sides' = sides \ {q}
  /\ \/ UNCHANGED <<voids, imported>>
     \/ q \in Qsos /\ voids' = [voids EXCEPT ![q] = @ + 1] /\ UNCHANGED imported
     \/ q \in Imports /\ imported' = imported \cup {q} /\ UNCHANGED voids
  /\ UNCHANGED <<vars, dirty, cache, scan, raced>>

Boot ==
  /\ Crash \/ Restart
  /\ sides' = {} /\ dirty' = TRUE /\ cache' = None /\ scan' = [r \in Scanners |-> None]
  /\ raced' = FALSE /\ UNCHANGED <<voids, imported>>

-----------------------------------------------------------------------------
(***************************************************************************)
(* Those who read: _fresh_dxcc_cache() of a handler, of the band hunter or *)
(* of the startup, and the decode handler.                                 *)
(***************************************************************************)
Scans(r) ==
  /\ phase = "running" /\ scan[r] = None
  /\ Cardinality({x \in Scanners : scan[x] # None}) < MaxScans
  /\ cache = None \/ dirty
  /\ scan' = [scan EXCEPT ![r] = <<Summary>>]
  /\ UNCHANGED <<vars, worked, dirty, cache, raced>>

Freshens(r) ==
  /\ scan[r] # None
  /\ cache' = scan[r] /\ dirty' = FALSE
  /\ scan' = [scan EXCEPT ![r] = None]
  /\ raced' = (Writing \/ scan[r] # <<Summary>>)
  /\ UNCHANGED <<vars, worked>>

WNext ==
  \/ LogWrites \/ \E q \in Qsos \cup Imports : SideWrites(q)
  \/ Freshens("decode") \/ Boot
  \/ /\ scan["decode"] = None
     /\ \/ LogDrains \/ LogFlushes \/ LogRest
        \/ \E q \in Qsos : Void(q)
        \/ \E q \in Imports : Import(q)
        \/ \E r \in Scanners : Scans(r)
        \/ \E r \in Readers : Freshens(r)

WSpec == WInit /\ [][WNext]_wvars

\* As for the queue; a summary of a decoded slot comes to its end.
FairWSpec ==
  /\ WSpec /\ WF_wvars(LogDrains) /\ WF_wvars(LogFlushes)
  /\ WF_wvars(LogWrites) /\ WF_wvars(Freshens("decode"))

-----------------------------------------------------------------------------
WTypeOK ==
  /\ voids \in [Qsos -> Nat] /\ imported \subseteq Imports
  /\ sides \subseteq Qsos \cup Imports /\ dirty \in BOOLEAN /\ raced \in BOOLEAN
  /\ \A c \in {cache} \cup {scan[r] : r \in Scanners} :
       c = None \/ \E S \in SUBSET (Qsos \cup Imports) : c = <<S>>
  /\ DOMAIN scan = Scanners

(***************************************************************************)
(* "any QSO write (record / import / void) marks the cache dirty so the    *)
(* next open recomputes" (NFR-086): a summary that is not what the store   *)
(* holds has its flag up, and no committed write is behind it with the     *)
(* flag down, through failed writes, threads that outlive their task and   *)
(* restarts. The exception is what the code does not guard against: a      *)
(* summary that ends while a write is under way, or after one it has not   *)
(* read, lowers the flag that write has raised.                            *)
(***************************************************************************)
StaleIsKnown == cache # <<Summary>> => dirty \/ raced
=============================================================================
