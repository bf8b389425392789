----------------------------- MODULE WebSettings -----------------------------
(***************************************************************************)
(* The audio settings of a browser: the persisted atoms and the engine     *)
(* they are pushed to (atoms/audioSettings.ts), the controls               *)
(* (AudioSettingsModal.tsx), and the record of the signed-in user that     *)
(* AudioSettingsSync.tsx restores and writes back.  A setting, of any      *)
(* section, is 0 by default.                                               *)
(***************************************************************************)
EXTENDS Naturals, Sequences, FiniteSets

CONSTANTS WaUser, WaNoUser,  \* accounts, and none
          WaSection,         \* the sections of the settings
          WaNone,            \* no settings: no record, nothing known to be synced
          WaActs,            \* bound: sign-ins and edits
          WaFaults,          \* bound: requests that fail
          WaOpen             \* bound: writes at once

VARIABLES
    waUser,      \* client and did
    waLocal,     \* the setting atoms, as persisted
    waEngine,    \* [ready, set]: what the engine was told
    waBooting,   \* changes that wait for the engine to boot: [section, value]
    waRestored,  \* restored
    waSynced,    \* lastSyncedRef
    waReads,     \* reads of records on their way: [user, live]
    waTimer,     \* the debounced write: its settings, or none
    waPuts,      \* writes on their way: [n, user, data, own], own: of this session
    waRepo,      \* each user's record
    waOrigin,    \* history: where the settings of this session come from
    waLate,      \* history: whose writes of an earlier session were answered in this one
    waCount      \* [acts, faults]

waVars  == <<waUser, waLocal, waEngine, waBooting, waRestored, waSynced, waReads, waTimer,
             waPuts, waRepo, waOrigin, waLate, waCount>>
waPush  == <<waEngine, waBooting>>
waSync  == <<waRestored, waSynced, waReads, waTimer>>

Values   == {0, 1}   \* what a fader, a list or a switch yields: the default, another
Settings == [WaSection -> Values]
Defaults == [s \in WaSection |-> 0]

WaInit ==
    /\ waUser = WaNoUser
    /\ waLocal \in Settings
    /\ waEngine = [ready |-> FALSE, set |-> Defaults] /\ waBooting = <<>>
    /\ waRestored = FALSE /\ waSynced = WaNone
    /\ waReads = {} /\ waTimer = WaNone /\ waPuts = {}
    /\ waRepo \in [WaUser -> {WaNone, [Defaults EXCEPT ![CHOOSE s \in WaSection : TRUE] = 1]}]
    /\ waOrigin = "none" /\ waLate = {} /\ waCount = [acts |-> 0, faults |-> 0]

SettingsAct == waCount.acts < WaActs /\ waCount' = [waCount EXCEPT !.acts = @ + 1]
Fails    == waCount.faults < WaFaults /\ waCount' = [waCount EXCEPT !.faults = @ + 1]

\* The write-back effect: it runs after each render, because the settings are a new object
\* every time, and starts the debounce anew.
Debounce(user, restored, local, synced) ==
    waTimer' = IF user # WaNoUser /\ restored /\ local # synced THEN local ELSE WaNone

-----------------------------------------------------------------------------
(* The controls and the engine.                                            *)

\* A control of a section: the atom, then the engine, that boots on first use.
Edit(section, value) ==
    /\ SettingsAct
    /\ waLocal' = [waLocal EXCEPT ![section] = value]
    /\ IF waEngine.ready
       THEN /\ waEngine' = [waEngine EXCEPT !.set[section] = value]
            /\ UNCHANGED waBooting
       ELSE /\ waBooting' = Append(waBooting, [section |-> section, value |-> value])
            /\ UNCHANGED waEngine
    /\ Debounce(waUser, waRestored, waLocal', waSynced)
    /\ waOrigin' = "edit"
    /\ UNCHANGED <<waUser, waRestored, waSynced, waReads, waPuts, waRepo, waLate>>

\* A band of the equalizer enables it; the other sections have two controls each.
Equalizer == \E value \in Values : Edit("eq", value)
Effects   == \E section \in WaSection \ {"eq"}, value \in Values : Edit(section, value)

\* The engine is ready for the first change that waits for it.
EngineReady ==
    /\ waBooting # <<>>
    /\ waEngine' = [ready |-> TRUE,
                    set   |-> [waEngine.set EXCEPT ![Head(waBooting).section] =
                                                       Head(waBooting).value]]
    /\ waBooting' = Tail(waBooting)
    /\ UNCHANGED <<waUser, waLocal, waSync, waPuts, waRepo, waOrigin, waLate, waCount>>

\* applyAudioSettings, when a station is loaded.
StationLoads ==
    /\ waEngine' = [ready |-> TRUE, set |-> waLocal]
    /\ UNCHANGED <<waUser, waLocal, waBooting, waSync, waPuts, waRepo, waOrigin, waLate,
                   waCount>>

-----------------------------------------------------------------------------
(* The record.                                                             *)

Dropped == {[r EXCEPT !.live = FALSE] : r \in waReads}

\* The restore effect starts anew with each session, one of the same account too.
Session(user) ==
    /\ {user, waUser} # {WaNoUser} /\ SettingsAct
    /\ waUser' = user
    /\ waRestored' = FALSE /\ waSynced' = WaNone /\ waTimer' = WaNone
    /\ waReads' = Dropped \cup (IF user = WaNoUser THEN {} ELSE {[user |-> user, live |-> TRUE]})
    /\ waPuts' = {[p EXCEPT !.own = FALSE] : p \in waPuts}
    /\ waOrigin' = "none" /\ waLate' = {}
    /\ UNCHANGED <<waLocal, waPush, waRepo>>

\* The page renders, because the station changes: nothing new, but the effect runs again.
PageRenders ==
    /\ Debounce(waUser, waRestored, waLocal, waSynced)
    /\ UNCHANGED <<waUser, waLocal, waPush, waRestored, waSynced, waReads, waPuts, waRepo,
                   waOrigin, waLate, waCount>>

\* A read that a later session overtook changes nothing when it succeeds; when it fails, the
\* settings of now count as synced all the same.
ReadDropped == \E r \in waReads :
    /\ ~r.live
    /\ waReads' = waReads \ {r}
    /\ \/ UNCHANGED <<waSynced, waCount>>
       \/ Fails /\ waSynced' = waLocal
    /\ UNCHANGED <<waUser, waLocal, waPush, waRestored, waTimer, waPuts, waRepo, waOrigin,
                   waLate>>

\* The record wins over the atoms and the engine; without one, settings that were
\* customised seed it.
ReadOk == \E r \in waReads :
    /\ r.live
    /\ waReads' = waReads \ {r} /\ waRestored' = TRUE
    /\ LET record == waRepo[r.user]
       IN  IF record # WaNone
           THEN /\ waLocal' = record /\ waSynced' = record
                /\ waEngine' = IF waEngine.ready THEN [waEngine EXCEPT !.set = record]
                                                 ELSE waEngine
                /\ waOrigin' = "record"
           ELSE /\ waSynced' = IF waLocal = Defaults THEN waLocal ELSE WaNone
                /\ waOrigin' = "fresh"
                /\ UNCHANGED <<waLocal, waEngine>>
    /\ Debounce(waUser, TRUE, waLocal', waSynced')
    /\ UNCHANGED <<waUser, waBooting, waPuts, waRepo, waLate, waCount>>

\* Fault: after a failed read nothing counts as synced.
ReadFails_Unsynced == \E r \in waReads :
    /\ r.live /\ Fails
    /\ waReads' = waReads \ {r} /\ waRestored' = TRUE
    /\ waSynced' = WaNone
    /\ Debounce(waUser, TRUE, waLocal, WaNone)
    /\ waOrigin' = "failed"
    /\ UNCHANGED <<waUser, waLocal, waPush, waPuts, waRepo, waLate>>

\* A failed read counts the local settings as synced, the edits so far among them.
ReadFails == \E r \in waReads :
    /\ r.live /\ Fails
    /\ waReads' = waReads \ {r} /\ waRestored' = TRUE
    /\ waSynced' = waLocal
    /\ Debounce(waUser, TRUE, waLocal, waLocal)
    /\ waOrigin' = "failed"
    /\ UNCHANGED <<waUser, waLocal, waPush, waPuts, waRepo, waLate>>

\* The settings sat still for three seconds.
WriteBack ==
    /\ waTimer # WaNone /\ Cardinality(waPuts) < WaOpen
    /\ waTimer' = WaNone
    /\ waPuts' = waPuts \cup {[n |-> CHOOSE n \in 1..WaOpen : \A p \in waPuts : p.n # n,
                               user |-> waUser, data |-> waTimer, own |-> TRUE]}
    /\ UNCHANGED <<waUser, waLocal, waPush, waRestored, waSynced, waReads, waRepo, waOrigin,
                   waLate, waCount>>

\* A write is carried out; one of an earlier session too, and what it wrote counts as synced
\* here: the next render may find settings that differ from it.
Saved == \E p \in waPuts :
    /\ waPuts' = waPuts \ {p}
    /\ waRepo' = [waRepo EXCEPT ![p.user] = p.data]
    /\ waSynced' = p.data
    /\ waLate' = IF p.own THEN waLate ELSE waLate \cup {p.user}
    /\ UNCHANGED <<waUser, waLocal, waPush, waRestored, waReads, waTimer, waOrigin,
                   waCount>>

\* A failed write, that may have landed, waits for the next render or change.
SaveFails == \E p \in waPuts, landed \in BOOLEAN :
    /\ Fails
    /\ waPuts' = waPuts \ {p}
    /\ waRepo' = IF landed THEN [waRepo EXCEPT ![p.user] = p.data] ELSE waRepo
    /\ UNCHANGED <<waUser, waLocal, waPush, waSync, waOrigin, waLate>>

WaNext ==
    \/ Equalizer \/ Effects \/ EngineReady \/ StationLoads
    \/ \E user \in WaUser \cup {WaNoUser} : Session(user)
    \/ PageRenders \/ ReadDropped \/ ReadOk \/ ReadFails \/ WriteBack \/ Saved \/ SaveFails

WaSpec == WaInit /\ [][WaNext]_waVars

-----------------------------------------------------------------------------
(* Properties.                                                             *)

\* The user changed a setting in this session, or came without a record.
Asked == waOrigin \in {"edit", "fresh"}

\* "Leave lastSynced at the local state so we don't clobber the remote record with local
\* values after a transient read failure" (AudioSettingsSync.tsx:74-75), as far as the code
\* keeps it: a write starts only for the account signed in, and over other settings only
\* when it was asked for in this session, whatever reads fail, of this session or of one
\* that is over, however often the page renders, and whatever writes of earlier sessions
\* are under way or fail. The exception: the answer of another session's write moves
\* lastSyncedRef too (line 98), and a write may follow.
OnlyLateSavesClobber ==
    [][\A p \in waPuts' \ waPuts : p.own =>
           /\ p.user = waUser
           /\ Asked \/ waLate # {} \/ waRepo[p.user] = p.data]_waVars
=============================================================================
