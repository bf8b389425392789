----------------------------- MODULE PlayHistory -----------------------------
(***************************************************************************)
(* The mobile app's play history (playback/history.ts, created in App.tsx, *)
(* writing through auth/client.ts): one actor.status write at a time, a    *)
(* failed one tried again after 15 seconds.  One account is modelled.  A   *)
(* write has two ends: flush awaits it (busy) and the WebView works on it  *)
(* (wire).  The timeout of request() ends the first only: the write goes   *)
(* on, and nobody awaits it (late).                                        *)
(***************************************************************************)
EXTENDS Naturals

CONSTANTS
    HistKey,      \* the stations of the account: `${did}|${station.id}`
    NoKey,        \* no key: an undefined target, an empty lastWritten
    HistSelects,  \* bound: selections of a station
    HistFaults    \* bound: writes that fail or time out

ASSUME PlayHistoryAssumption ==
    /\ NoKey \notin HistKey
    /\ HistKey \cap {"paused", "stopped"} = {}
    /\ HistSelects \in Nat
    /\ HistFaults \in Nat

VARIABLES
    histNow,     \* what the player shows; "stopped" also when signed out
    histTarget,  \* this.target, with the number of its selection
    histWritten, \* this.lastWritten
    histBusy,    \* the selection whose write flush awaits: this.busy
    histWait,    \* this.retryAt lies ahead
    histWire,    \* the awaited selection, while the WebView still writes it
    histLate,    \* writes that outlived their request, told apart by `id`
    histRecord,  \* the selection the actor.status record shows
    histCount,   \* selections made
    histFail,    \* writes that failed or timed out
    histLost     \* a write landed and its answer reached nobody

histVars == <<histNow, histTarget, histWritten, histBusy, histWait, histWire,
              histLate, histRecord, histCount, histFail, histLost>>

Selection == [key : HistKey, n : 1..HistSelects]
Nothing   == [key |-> NoKey, n |-> 0]

HistInit ==
    /\ histNow = "stopped"
    /\ histTarget = Nothing
    /\ histWritten = NoKey
    /\ histBusy = Nothing
    /\ histWait = FALSE
    /\ histWire = {}
    /\ histLate = {}
    /\ histRecord = Nothing
    /\ histCount = 0
    /\ histFail = 0
    /\ histLost = FALSE

\* Fault: flush does not look at busy.
Flush_Concurrent(t, written, wait, busy, wire) ==
    IF t # Nothing /\ t.key # written /\ ~wait
    THEN histBusy' = t /\ histWire' = wire \cup {t}
    ELSE histBusy' = busy /\ histWire' = wire

\* flush: write the target unless a write is awaited, or it is written already, or
\* its retry is not due.
Flush(t, written, wait, busy, wire) ==
    IF busy = Nothing /\ t # Nothing /\ t.key # written /\ ~wait
    THEN histBusy' = t /\ histWire' = wire \cup {t}
    ELSE histBusy' = busy /\ histWire' = wire

\* update() with no account or a stopped player.
UpdateStopped ==
    /\ histTarget' = Nothing
    /\ histWritten' = NoKey
    /\ histWait' = FALSE
    /\ UNCHANGED <<histBusy, histWire, histCount>>

\* update() with a player that is paused, buffering or in error.
UpdatePaused ==
    /\ histTarget' = Nothing
    /\ UNCHANGED <<histWritten, histWait, histBusy, histWire, histCount>>

\* update() with a playing station: a key other than the target's is a selection.
UpdatePlaying(k) ==
    LET new == k # histTarget.key
    IN  /\ histCount' = histCount + (IF new THEN 1 ELSE 0)
        /\ histCount' <= HistSelects
        /\ histTarget' = [key |-> k, n |-> IF new THEN histCount' ELSE histTarget.n]
        /\ histWait' = (histWait /\ ~new)
        /\ Flush(histTarget', histWritten, histWait', histBusy, histWire)
        /\ UNCHANGED histWritten

Update(now) ==
    /\ histNow' = now
    /\ CASE now = "stopped" -> UpdateStopped
         [] now = "paused"  -> UpdatePaused
         [] OTHER           -> UpdatePlaying(now)
    /\ UNCHANGED <<histLate, histRecord, histFail, histLost>>

\* The effect of App.tsx runs with a player that changed, or that a poll repeats.
Observe == \E now \in (HistKey \cup {"paused", "stopped"}) \ {histNow} : Update(now)
Repoll  == Update(histNow)

\* The put of the WebView reaches the PDS.
Land == \E t \in histWire :
    /\ histRecord' = t
    /\ histWire' = histWire \ {t}
    /\ UNCHANGED <<histNow, histTarget, histWritten, histBusy, histWait, histLate,
                   histCount, histFail, histLost>>

\* So does a put whose request has timed out.
LandLate == \E w \in histLate :
    /\ histRecord' = [key |-> w.key, n |-> w.n]
    /\ histLate' = histLate \ {w}
    /\ histLost' = TRUE
    /\ UNCHANGED <<histNow, histTarget, histWritten, histBusy, histWait, histWire,
                   histCount, histFail>>

\* The `finally` of flush: a station selected during the request is written next.
FlushNext(written, wire) ==
    Flush(IF histTarget.key # histBusy.key THEN histTarget ELSE Nothing,
          written, histWait', Nothing, wire)

\* The awaited write is answered.
Acknowledge ==
    /\ histBusy # Nothing /\ histBusy \notin histWire
    /\ histWritten' = histBusy.key
    /\ UNCHANGED histWait
    /\ FlushNext(histWritten', histWire)
    /\ UNCHANGED <<histNow, histTarget, histLate, histRecord, histCount, histFail,
                   histLost>>

\* Fault: a failed write counts as written.
Failed_Written(wire) ==
    /\ histFail < HistFaults
    /\ histFail' = histFail + 1
    /\ histWait' = (histWait \/ histTarget.key = histBusy.key)
    /\ histWritten' = histBusy.key
    /\ FlushNext(histWritten', wire)
    /\ UNCHANGED <<histNow, histTarget, histRecord, histCount>>

\* The catch of flush: the selection still wanted is tried again in 15 seconds.
Failed(wire) ==
    /\ histFail < HistFaults
    /\ histFail' = histFail + 1
    /\ histWait' = (histWait \/ histTarget.key = histBusy.key)
    /\ UNCHANGED histWritten
    /\ FlushNext(histWritten, wire)
    /\ UNCHANGED <<histNow, histTarget, histRecord, histCount>>

\* The PDS or the WebView refuses the write.
Refused ==
    /\ histBusy \in histWire
    /\ Failed(histWire \ {histBusy})
    /\ UNCHANGED <<histLate, histLost>>

\* The write landed, its answer does not come back.
Unanswered ==
    /\ histBusy # Nothing /\ histBusy \notin histWire
    /\ Failed(histWire)
    /\ histLost' = TRUE
    /\ UNCHANGED histLate

\* request() gives up after 20 seconds; the WebView goes on writing.
TimedOut ==
    /\ histBusy \in histWire
    /\ histLate' = histLate \cup {[key |-> histBusy.key, n |-> histBusy.n, id |-> histFail]}
    /\ Failed(histWire \ {histBusy})
    /\ UNCHANGED histLost

\* now() passes retryAt.
RetryDue ==
    /\ histWait
    /\ histWait' = FALSE
    /\ UNCHANGED <<histNow, histTarget, histWritten, histBusy, histWire, histLate,
                   histRecord, histCount, histFail, histLost>>

HistNext ==
    \/ Observe \/ Repoll \/ Land \/ LandLate \/ Acknowledge
    \/ Refused \/ Unanswered \/ TimedOut \/ RetryDue

HistSpec == HistInit /\ [][HistNext]_histVars

\* The app polls the player every 800 ms, time passes, a write in flight arrives
\* and is answered, unless it fails.
HistFairness ==
    /\ WF_histVars(Repoll)
    /\ WF_histVars(Land)
    /\ WF_histVars(Acknowledge)
    /\ WF_histVars(RetryDue)

-----------------------------------------------------------------------------
(* Properties.                                                             *)

Register == INSTANCE StatusRegister
    WITH selected <- histCount, recorded <- histRecord.n, late <- histLate

\* "Serialize status writes so a slower old station cannot overwrite a new one"
\* (history.ts:3): whatever fails and whenever it is retried, the record never goes
\* back to an earlier selection, but by a write that outlived its request.
RecordFollowsSelection == Register!RegisterSpec

\* A station that plays on is on the record in the end, whatever writes failed on the
\* way ("Retrying automatically", App.tsx:153), if no landed write lost its answer.
PlayedIsRecorded ==
    \A k \in HistKey : <>[](histNow = k) => <>[](histRecord.key = k \/ histLost)
=============================================================================
