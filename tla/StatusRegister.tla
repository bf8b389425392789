---------------------------- MODULE StatusRegister ----------------------------
(***************************************************************************)
(* What playback/history.ts promises of the account's actor.status record: *)
(* it follows the stations in the order in which they were selected.  A    *)
(* selection may be skipped; none is recorded after a later one, but by a  *)
(* write that its request gave up on.                                      *)
(***************************************************************************)
EXTENDS Naturals

VARIABLES
    selected,   \* how many selections the listener has made
    recorded,   \* the number of the one the record shows
    late        \* writes given up on: a set of [n, ...]

registerVars == <<selected, recorded, late>>

RegisterInit == selected = 0 /\ recorded = 0 /\ late = {}

Select == selected' = selected + 1 /\ UNCHANGED <<recorded, late>>

Record == recorded' \in (recorded + 1)..selected /\ UNCHANGED <<selected, late>>

GiveUp ==
    /\ \E w \in late' \ late : w.n \in 1..selected /\ late' = late \cup {w}
    /\ UNCHANGED <<selected, recorded>>

RecordLate ==
    /\ \E w \in late : recorded' = w.n /\ late' = late \ {w}
    /\ UNCHANGED selected

RegisterNext == Select \/ Record \/ GiveUp \/ RecordLate

RegisterSpec == RegisterInit /\ [][RegisterNext]_registerVars
=============================================================================
