------------------------------ MODULE MobileAudio ------------------------------
(***************************************************************************)
(* Audio settings of the mobile app: the equalizer screen edits them       *)
(* (Equalizer.tsx), AudioSettingsSync.tsx applies them to the engine one   *)
(* after the other, reads the record of the account that signs in and      *)
(* saves the edits made after that.  A setting is one value; the part that *)
(* stays on the device (precut, balance) is left out.  The account has     *)
(* granted the permission to save.                                         *)
(***************************************************************************)
EXTENDS Naturals, SequencesExt

CONSTANTS
    EqUser,    \* accounts
    NoUser,    \* signed out
    EqValue,   \* settings
    NoValue,   \* none loaded, none saved, or no record
    EqEdits,   \* bound: edits
    EqChanges  \* bound: sign-ins, sign-outs, reads and saves that fail

ASSUME EqAssumption == NoUser \notin EqUser /\ NoValue \notin EqValue

VARIABLES
    eqUser,      \* did
    eqSettings,  \* equalizerAtom
    eqEdited,    \* revision # baseline.current
    eqRead,      \* the query: "off", "fetching", "ok" or "error"
    eqRestored,  \* restored.current = did
    eqSaved,     \* lastSaved.current
    eqTimer,     \* of the effect that runs: "off", "save" in 3 s, "retry" in 15 s
    eqWrite,     \* the write of writeBusy, or NoWrite
    eqRepo,      \* [EqUser -> value]: the record
    eqQueue,     \* settings on their way to the engine
    eqEngine,    \* settings of the engine
    eqDeaf,      \* history: the last call to the engine failed
    eqFrom,      \* history: the account whose record the settings build on
    eqUnheard,   \* history: this account's effect did not hear of a success for the last
                 \* write made out to it
    eqCount      \* [edits, changes] so far

eqVars == <<eqUser, eqSettings, eqEdited, eqRead, eqRestored, eqSaved, eqTimer, eqWrite,
            eqRepo, eqQueue, eqEngine, eqDeaf, eqFrom, eqUnheard, eqCount>>

NoSave == [user |-> NoUser, value |-> NoValue, live |-> FALSE, from |-> NoUser]

EqInit ==
    /\ eqUser = NoUser /\ eqSettings = NoValue /\ eqEdited = FALSE
    /\ eqRead = "off" /\ eqRestored = FALSE
    /\ eqSaved = NoValue /\ eqTimer = "off" /\ eqWrite = NoSave
    /\ eqRepo = [u \in EqUser |-> NoValue]
    /\ eqQueue = <<>> /\ eqEngine = NoValue /\ eqDeaf = FALSE
    /\ eqFrom = NoUser /\ eqUnheard = FALSE
    /\ eqCount = [edits |-> 0, changes |-> 0]

\* The settings changed: queue them for the engine.
Apply(v) == /\ eqSettings' = v
            /\ eqQueue' = IF v = eqSettings THEN eqQueue ELSE Append(eqQueue, v)

\* Fault: the effect may save before the record was read.
Effect_Unread ==
    /\ eqTimer' = IF /\ eqUser' # NoUser /\ eqSettings' # NoValue
                     /\ eqEdited' /\ eqSettings' # eqSaved'
                  THEN "save" ELSE "off"
    /\ eqWrite' = [eqWrite EXCEPT !.live = FALSE]

\* The effect that saves runs again: its timers are cleared, a write under way is no
\* longer its own, and a save is due in three seconds if there is an edit to save.
Effect ==
    /\ eqTimer' = IF /\ eqUser' # NoUser /\ eqRestored' /\ eqSettings' # NoValue
                     /\ eqEdited' /\ eqSettings' # eqSaved'
                  THEN "save" ELSE "off"
    /\ eqWrite' = [eqWrite EXCEPT !.live = FALSE]

\* The settings stored on the device, or flat ones.
LoadLocal ==
    /\ eqSettings = NoValue
    /\ \E v \in EqValue : Apply(v)
    /\ eqRead' = IF eqUser = NoUser THEN "off" ELSE "fetching"
    /\ UNCHANGED <<eqUser, eqEdited, eqRestored, eqSaved>>
    /\ Effect
    /\ UNCHANGED <<eqRepo, eqEngine, eqDeaf, eqFrom, eqUnheard, eqCount>>

Changed == eqCount.changes < EqChanges /\ eqCount' = [eqCount EXCEPT !.changes = @ + 1]

\* Another account, or none: nothing is restored and nothing saved for it yet.
SwitchUser == \E u \in (EqUser \cup {NoUser}) \ {eqUser} :
    /\ Changed
    /\ eqUser' = u
    /\ eqRead' = IF u = NoUser \/ eqSettings = NoValue THEN "off" ELSE "fetching"
    /\ eqRestored' = FALSE /\ eqEdited' = FALSE /\ eqSaved' = NoValue
    /\ UNCHANGED <<eqSettings, eqQueue>>
    /\ Effect
    /\ UNCHANGED <<eqRepo, eqEngine, eqDeaf, eqFrom, eqUnheard>>

\* The record is read.  Remote wins on login; without a record the settings stay.
Restore ==
    /\ eqRead = "fetching"
    /\ eqRead' = "ok" /\ eqRestored' = TRUE /\ eqEdited' = FALSE
    /\ Apply(IF eqRepo[eqUser] = NoValue THEN eqSettings ELSE eqRepo[eqUser])
    /\ eqSaved' = eqSettings'
    /\ eqFrom' = eqUser
    /\ eqUnheard' = (eqWrite.user = eqUser)
    /\ UNCHANGED eqUser
    /\ Effect
    /\ UNCHANGED <<eqRepo, eqEngine, eqDeaf, eqCount>>

RecordReadFails ==
    /\ eqRead = "fetching" /\ Changed
    /\ eqRead' = "error"
    /\ UNCHANGED <<eqUser, eqSettings, eqEdited, eqRestored, eqSaved, eqTimer, eqWrite,
                   eqRepo, eqQueue, eqEngine, eqDeaf, eqFrom, eqUnheard>>

\* Every 30 seconds while the query is in error.
RefetchRecord ==
    /\ eqRead = "error"
    /\ eqRead' = "fetching"
    /\ UNCHANGED <<eqUser, eqSettings, eqEdited, eqRestored, eqSaved, eqTimer, eqWrite,
                   eqRepo, eqQueue, eqEngine, eqDeaf, eqFrom, eqUnheard, eqCount>>

\* apply(): a switch, a slider released, a reset.
EditSettings == \E v \in EqValue :
    /\ eqSettings # NoValue
    /\ eqCount.edits < EqEdits /\ eqCount' = [eqCount EXCEPT !.edits = @ + 1]
    /\ Apply(v)
    /\ eqEdited' = TRUE
    /\ UNCHANGED <<eqUser, eqRestored, eqSaved>>
    /\ Effect
    /\ UNCHANGED <<eqRead, eqRepo, eqEngine, eqDeaf, eqFrom, eqUnheard>>

\* The three seconds are over; while another write runs the effect arms itself again.
SaveDue ==
    /\ eqTimer = "save" /\ eqWrite.user = NoUser
    /\ eqTimer' = "off"
    /\ eqWrite' = [user |-> eqUser, value |-> eqSettings, live |-> TRUE, from |-> eqFrom]
    /\ eqUnheard' = TRUE
    /\ UNCHANGED <<eqUser, eqSettings, eqEdited, eqRead, eqRestored, eqSaved, eqRepo,
                   eqQueue, eqEngine, eqDeaf, eqFrom, eqCount>>


\* lastSaved moves only in the effect the write belongs to.
Written == IF eqWrite.live THEN eqWrite.value ELSE eqSaved

\* The write is answered, or fails; one that fails may have reached the record. The effect
\* it belongs to looks again in 15 seconds.
Save == \E ok, landed \in BOOLEAN :
    /\ eqWrite.user # NoUser
    /\ ok => landed
    /\ IF ok THEN UNCHANGED eqCount ELSE Changed
    /\ eqRepo' = IF landed THEN [eqRepo EXCEPT ![eqWrite.user] = eqWrite.value] ELSE eqRepo
    /\ eqSaved' = IF ok THEN Written ELSE eqSaved
    /\ eqUnheard' = (eqUnheard /\ ~(ok /\ eqWrite.live))
    /\ eqTimer' = IF eqWrite.live THEN "retry" ELSE eqTimer
    /\ eqWrite' = NoSave
    /\ UNCHANGED <<eqUser, eqSettings, eqEdited, eqRead, eqRestored, eqQueue, eqEngine,
                   eqDeaf, eqFrom>>

RetrySave ==
    /\ eqTimer = "retry"
    /\ UNCHANGED <<eqUser, eqSettings, eqEdited, eqRestored, eqSaved>>
    /\ Effect
    /\ UNCHANGED <<eqRead, eqRepo, eqQueue, eqEngine, eqDeaf, eqFrom, eqUnheard, eqCount>>

\* Fault: the calls do not wait for one another.
NextSettings_Any == 1..Len(eqQueue)

\* engineQueue: each call follows the one before.
NextSettings == {1} \cap (1..Len(eqQueue))

\* The native call sets the engine, or fails: no library, or an engine that refuses.
ApplyNext == \E i \in NextSettings, ok \in BOOLEAN :
    /\ eqEngine' = IF ok THEN eqQueue[i] ELSE eqEngine
    /\ eqDeaf' = ~ok
    /\ eqQueue' = RemoveAt(eqQueue, i)
    /\ UNCHANGED <<eqUser, eqSettings, eqEdited, eqRead, eqRestored, eqSaved, eqTimer,
                   eqWrite, eqRepo, eqFrom, eqUnheard, eqCount>>

EqNext ==
    \/ LoadLocal \/ SwitchUser \/ Restore \/ RecordReadFails \/ RefetchRecord
    \/ EditSettings \/ SaveDue \/ Save \/ RetrySave \/ ApplyNext

EqSpec == EqInit /\ [][EqNext]_eqVars

\* Timers fire; reads, writes and the engine answer.
EqFairness ==
    /\ WF_eqVars(Restore) /\ WF_eqVars(RefetchRecord)
    /\ WF_eqVars(SaveDue) /\ WF_eqVars(Save) /\ WF_eqVars(RetrySave)

-----------------------------------------------------------------------------
(* Properties.                                                             *)

\* "Remote wins on login ... Failed reads never authorize a save"
\* (AudioSettingsSync.tsx:88): what is written to an account's repository builds on
\* what was read from it, never on the settings of the account before. And the engine
\* ends with the settings the screen shows, however many of its calls fail, unless the
\* last one does: nothing tries that one again (AudioSettingsSync.tsx:51-54).
SettingsKeepTheirOwner ==
    /\ eqWrite.from = eqWrite.user
    /\ eqQueue = <<>> /\ ~eqDeaf => eqEngine = eqSettings

\* The record, or what the settings were when no record was found.
Recorded == IF eqRepo[eqUser] = NoValue THEN eqSaved ELSE eqRepo[eqUser]

\* The settings are back at what lastSaved holds, after a write whose success it did not
\* hear of: the effect takes them for saved (AudioSettingsSync.tsx:128).
TakenBack == eqUnheard /\ eqSettings = eqSaved

\* An edit of a signed-in user, not taken back like that, does not stay out of the record,
\* whatever other writes are under way, fail, or land and fail.
Kept == eqRestored /\ eqEdited /\ ~TakenBack

=============================================================================
