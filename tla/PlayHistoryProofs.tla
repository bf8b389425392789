--------------------------- MODULE PlayHistoryProofs ---------------------------
(***************************************************************************)
(* The play history implements StatusRegister, for every set of stations   *)
(* and every number of selections, failures and timeouts.                  *)
(*                                                                         *)
(* The argument: only the awaited selection is on the wire, and            *)
(*     record, late writes <= awaited <= target <= number of selections,   *)
(* each where it exists.  An awaited write that lands can then only raise  *)
(* the record or leave it; only a late one can set it back.                *)
(***************************************************************************)
EXTENDS PlayHistory, TLAPS

HistTypeOK ==
    /\ histNow \in HistKey \cup {"paused", "stopped"}
    /\ histTarget \in Selection \cup {Nothing}
    /\ histWritten \in HistKey \cup {NoKey}
    /\ histBusy \in Selection \cup {Nothing}
    /\ histWait \in BOOLEAN
    /\ histWire \subseteq Selection
    /\ histLate \subseteq [key : HistKey, n : 1..HistSelects, id : Nat]
    /\ histRecord \in Selection \cup {Nothing}
    /\ histCount \in 0..HistSelects
    /\ histFail \in Nat
    /\ histLost \in BOOLEAN

\* busy is one request: what is on the wire is what flush awaits.
OneOnTheWire == histWire \subseteq {histBusy} \ {Nothing}

\* A write that times out is told apart from those that timed out before it.
LateAreOlder == \A w \in histLate : w.id < histFail

\* No write that may still land, and no record, is newer than m.
NoneNewerThan(m) ==
    /\ histRecord.n <= m
    /\ \A w \in histLate : w.n <= m

\* The record, the late writes, the awaited one and the target follow one another in
\* the order of selection.
InOrder ==
    /\ NoneNewerThan(histCount)
    /\ histBusy # Nothing => NoneNewerThan(histBusy.n) /\ histBusy.n <= histCount
    /\ histTarget # Nothing => NoneNewerThan(histTarget.n) /\ histTarget.n <= histCount
    /\ histBusy # Nothing /\ histTarget # Nothing => histBusy.n <= histTarget.n

HistInv == HistTypeOK /\ OneOnTheWire /\ LateAreOlder /\ InOrder

-----------------------------------------------------------------------------
(* Facts about the data.                                                   *)

\* The number of no selection is 0, that of a selection positive.
LEMMA SelectionFacts ==
    /\ Nothing \notin Selection
    /\ Nothing.n = 0 /\ Nothing.key = NoKey
    /\ \A s \in Selection : s.n \in Nat /\ s.n \in 1..HistSelects /\ s.key \in HistKey
    /\ \A s \in Selection \cup {Nothing} : s.n \in Nat
  BY PlayHistoryAssumption DEF Selection, Nothing

\* flush starts a write only when it awaits none, and writes the target it is given.
LEMMA FlushOne ==
    ASSUME NEW t, NEW written, NEW wait, NEW busy, NEW wire,
           Flush(t, written, wait, busy, wire)
    PROVE  \/ histBusy' = busy /\ histWire' = wire
           \/ busy = Nothing /\ t # Nothing /\ histBusy' = t /\ histWire' = wire \cup {t}
  BY DEF Flush

-----------------------------------------------------------------------------
(* One lemma per handler: it preserves the invariant.                      *)

\* The first state.
LEMMA InitInv == HistInit => HistInv
  <1> SUFFICES ASSUME HistInit PROVE HistInv
    OBVIOUS
  <1>1. HistTypeOK
    <2>1. 0 \in Nat /\ 0 \in 0..HistSelects
      BY PlayHistoryAssumption
    <2> QED BY <2>1 DEF HistInit, HistTypeOK
  <1>2. OneOnTheWire /\ LateAreOlder
    BY DEF HistInit, OneOnTheWire, LateAreOlder
  <1>3. InOrder
    BY SelectionFacts DEF HistInit, InOrder, NoneNewerThan
  <1> QED BY <1>1, <1>2, <1>3 DEF HistInv

\* A player that stops or pauses only takes the target away.
LEMMA IdleUpdates ==
    ASSUME HistInv, UpdateStopped \/ UpdatePaused,
           histNow' \in HistKey \cup {"paused", "stopped"},
           UNCHANGED <<histLate, histRecord, histFail, histLost>>
    PROVE  HistInv' /\ UNCHANGED histCount
  <1>1. histTarget' = Nothing /\ UNCHANGED <<histBusy, histWire, histCount>>
    BY DEF UpdateStopped, UpdatePaused
  <1>2. histWritten' \in HistKey \cup {NoKey} /\ histWait' \in BOOLEAN
    BY DEF UpdateStopped, UpdatePaused, HistInv, HistTypeOK
  <1> QED
    BY <1>1, <1>2
    DEF HistInv, HistTypeOK, OneOnTheWire, LateAreOlder, InOrder, NoneNewerThan

\* A station that plays is the target, and a new one is newer than all before it.
LEMMA PlayingUpdate ==
    ASSUME HistInv, NEW k \in HistKey, UpdatePlaying(k), histNow' = k,
           UNCHANGED <<histLate, histRecord, histFail, histLost>>
    PROVE  HistInv' /\ histCount' \in {histCount, histCount + 1}
  <1>1. /\ histCount' \in 0..HistSelects
        /\ histCount' \in {histCount, histCount + 1}
    BY PlayHistoryAssumption DEF UpdatePlaying, HistInv, HistTypeOK
  <1>2. /\ histTarget' \in Selection
        /\ histTarget'.n <= histCount'
        /\ histTarget'.n = histTarget.n \/ histTarget'.n = histCount + 1
        /\ histTarget = Nothing => histTarget'.n = histCount + 1
    <2>1. CASE k = histTarget.key
      <3>1. histTarget # Nothing
        BY <2>1, SelectionFacts, PlayHistoryAssumption
      <3>2. histTarget \in Selection /\ histCount' = histCount
        BY <2>1, <3>1 DEF HistInv, HistTypeOK, UpdatePlaying
      <3>3. histTarget' = [key |-> k, n |-> histTarget.n]
        BY <2>1 DEF UpdatePlaying
      <3> QED BY <3>1, <3>2, <3>3, SelectionFacts DEF HistInv, InOrder, Selection
    <2>2. CASE k # histTarget.key
      <3>1. /\ histCount' = histCount + 1
            /\ histTarget' = [key |-> k, n |-> histCount + 1]
        BY <2>2, PlayHistoryAssumption DEF UpdatePlaying, HistInv, HistTypeOK
      <3> QED BY <1>1, <3>1, PlayHistoryAssumption DEF Selection, HistInv, HistTypeOK
    <2> QED BY <2>1, <2>2
  <1>3. \/ histBusy' = histBusy /\ histWire' = histWire
        \/ histBusy = Nothing /\ histBusy' = histTarget'
           /\ histWire' = histWire \cup {histTarget'}
    <2>1. Flush(histTarget', histWritten, histWait', histBusy, histWire)
      BY DEF UpdatePlaying
    <2> QED BY <2>1, FlushOne
  <1>4. histWait' \in BOOLEAN /\ histWritten' = histWritten
    BY DEF UpdatePlaying, HistInv, HistTypeOK
  <1>5. NoneNewerThan(histTarget.n)' /\ NoneNewerThan(histCount)'
    BY <1>1, <1>2, SelectionFacts DEF HistInv, HistTypeOK, InOrder, NoneNewerThan
  <1>6. HistTypeOK'
    BY <1>1, <1>2, <1>3, <1>4 DEF HistInv, HistTypeOK
  <1>7. OneOnTheWire' /\ LateAreOlder'
    BY <1>2, <1>3, SelectionFacts DEF HistInv, OneOnTheWire, LateAreOlder
  <1>8. InOrder'
    <2>1. CASE histBusy' = histBusy
      BY <2>1, <1>1, <1>2, <1>5, SelectionFacts
      DEF HistInv, HistTypeOK, InOrder, NoneNewerThan
    <2>2. CASE histBusy' = histTarget'
      BY <2>2, <1>1, <1>2, <1>5, SelectionFacts
      DEF HistInv, HistTypeOK, InOrder, NoneNewerThan
    <2> QED BY <1>3, <2>1, <2>2
  <1> QED BY <1>1, <1>6, <1>7, <1>8 DEF HistInv

\* What the `finally` of flush leaves: no write, or that of the target.
NextIsTarget ==
    \/ histBusy' = Nothing /\ histWire' = {}
    \/ histTarget # Nothing /\ histBusy' = histTarget /\ histWire' = {histTarget}

\* Between two requests: the next write keeps the invariant.
LEMMA NextWrite ==
    ASSUME HistInv, NextIsTarget,
           histWritten' \in HistKey \cup {NoKey}, histWait' \in BOOLEAN,
           histFail' \in Nat, histLost' \in BOOLEAN,
           histLate' \subseteq [key : HistKey, n : 1..HistSelects, id : Nat],
           \A w \in histLate' : w.id < histFail',
           \A w \in histLate' \ histLate : histBusy # Nothing /\ w.n = histBusy.n,
           UNCHANGED <<histNow, histTarget, histRecord, histCount>>
    PROVE  HistInv'
  <1>2. HistTypeOK'
    BY DEF NextIsTarget, HistInv, HistTypeOK
  <1>3. OneOnTheWire' /\ LateAreOlder'
    BY DEF NextIsTarget, OneOnTheWire, LateAreOlder
  <1>4. /\ NoneNewerThan(histCount)'
        /\ histTarget # Nothing => NoneNewerThan(histTarget.n)'
    <2>1. \A w \in histLate : w.n \in Nat
      BY DEF HistInv, HistTypeOK
    <2> QED
      BY <2>1, SelectionFacts DEF HistInv, HistTypeOK, InOrder, NoneNewerThan
  <1>5. InOrder'
    BY <1>4, SelectionFacts DEF NextIsTarget, HistInv, HistTypeOK, InOrder, NoneNewerThan
  <1> QED BY <1>2, <1>3, <1>5 DEF HistInv

\* What is on the wire is awaited: when it is answered, or given up, nothing is left.
LEMMA WireEmpties ==
    ASSUME HistInv
    PROVE  /\ histBusy \notin histWire => histWire = {}
           /\ histWire \ {histBusy} = {}
           /\ \A t \in histWire : t = histBusy /\ t # Nothing
  BY DEF HistInv, OneOnTheWire

\* A late write keeps an id that no later one will have.
LEMMA LateIds ==
    ASSUME HistInv
    PROVE  /\ histFail \in Nat /\ histFail < histFail + 1 /\ histFail + 1 \in Nat
           /\ histLate \subseteq [key : HistKey, n : 1..HistSelects, id : Nat]
           /\ \A w \in histLate : w.id < histFail /\ w.id < histFail + 1
  <1>1. histFail \in Nat /\ \A w \in histLate : w.id \in Nat /\ w.id < histFail
    BY DEF HistInv, HistTypeOK, LateAreOlder
  <1> QED BY <1>1 DEF HistInv, HistTypeOK

\* The end of an awaited write, however it ends.
LEMMA EndOfWrite ==
    ASSUME HistInv, Acknowledge \/ Refused \/ Unanswered
    PROVE  HistInv' /\ UNCHANGED <<histCount, histRecord, histLate>>
  <1>1. ASSUME Acknowledge PROVE HistInv'
    <2>1. histBusy \in Selection /\ histWire = {}
      BY <1>1, WireEmpties DEF Acknowledge, HistInv, HistTypeOK
    <2>2. NextIsTarget
      BY <1>1, <2>1, FlushOne DEF Acknowledge, FlushNext, NextIsTarget
    <2>3. histWritten' \in HistKey \cup {NoKey}
      BY <1>1, <2>1, SelectionFacts DEF Acknowledge
    <2>4. UNCHANGED <<histNow, histTarget, histLate, histRecord, histCount, histFail,
                      histLost, histWait>>
      BY <1>1 DEF Acknowledge
    <2>5. /\ histFail' \in Nat /\ histLost' \in BOOLEAN /\ histWait' \in BOOLEAN
          /\ histLate' \subseteq [key : HistKey, n : 1..HistSelects, id : Nat]
          /\ (\A w \in histLate' : w.id < histFail') /\ histLate' \ histLate = {}
      BY <2>4, LateIds DEF HistInv, HistTypeOK
    <2> QED BY <2>2, <2>3, <2>4, <2>5, NextWrite
  <1>2. ASSUME Refused \/ Unanswered PROVE HistInv'
    <2>1. Failed({})
      BY <1>2, WireEmpties DEF Refused, Unanswered
    <2>2. NextIsTarget
      BY <2>1, FlushOne DEF Failed, FlushNext, NextIsTarget
    <2>3. /\ histWritten' \in HistKey \cup {NoKey} /\ histWait' \in BOOLEAN
          /\ histFail' = histFail + 1
          /\ UNCHANGED <<histNow, histTarget, histRecord, histCount>>
      BY <2>1 DEF Failed, HistInv, HistTypeOK
    <2>4. histLate' = histLate /\ histLost' \in BOOLEAN
      BY <1>2 DEF Refused, Unanswered, HistInv, HistTypeOK
    <2>5. /\ histFail' \in Nat
          /\ histLate' \subseteq [key : HistKey, n : 1..HistSelects, id : Nat]
          /\ (\A w \in histLate' : w.id < histFail') /\ histLate' \ histLate = {}
      BY <2>3, <2>4, LateIds
    <2> QED BY <2>2, <2>3, <2>4, <2>5, NextWrite
  <1>3. UNCHANGED <<histCount, histRecord, histLate>>
    BY DEF Acknowledge, Refused, Unanswered, Failed
  <1> QED BY <1>1, <1>2, <1>3

\* A request that gives up leaves its write behind.
LEMMA TimeoutInv ==
    ASSUME HistInv, TimedOut
    PROVE  /\ HistInv' /\ UNCHANGED <<histCount, histRecord>>
           /\ \E w \in histLate' \ histLate :
                  w.n \in 1..histCount /\ histLate' = histLate \cup {w}
  <1> DEFINE late == [key |-> histBusy.key, n |-> histBusy.n, id |-> histFail]
  <1>1. histBusy \in Selection /\ histBusy # Nothing
    BY WireEmpties DEF TimedOut, HistInv, HistTypeOK
  <1>2. Failed({}) /\ histLate' = histLate \cup {late} /\ UNCHANGED histLost
    BY WireEmpties DEF TimedOut
  <1>3. /\ histWritten' \in HistKey \cup {NoKey} /\ histWait' \in BOOLEAN
        /\ histFail' = histFail + 1
        /\ UNCHANGED <<histNow, histTarget, histRecord, histCount>>
    BY <1>2 DEF Failed, HistInv, HistTypeOK
  <1>4. /\ late \in [key : HistKey, n : 1..HistSelects, id : Nat]
        /\ late \notin histLate
        /\ late.n \in 1..histCount
    BY <1>1, SelectionFacts DEF HistInv, HistTypeOK, LateAreOlder, InOrder
  <1>5. histLate' \subseteq [key : HistKey, n : 1..HistSelects, id : Nat]
    BY <1>2, <1>4 DEF HistInv, HistTypeOK
  <1>6. /\ \A w \in histLate' : w.id < histFail'
        /\ \A w \in histLate' \ histLate : histBusy # Nothing /\ w.n = histBusy.n
    <2>1. late.id = histFail /\ late.n = histBusy.n
      OBVIOUS
    <2>2. \A w \in histLate' : w \in histLate \/ w = late
      BY <1>2
    <2>3. late.id < histFail'
      BY <1>3, <2>1, LateIds
    <2>4. \A w \in histLate' : w.id < histFail'
      BY <1>3, <2>2, <2>3, LateIds
    <2>5. \A w \in histLate' \ histLate : histBusy # Nothing /\ w.n = histBusy.n
      BY <1>1, <2>1, <2>2
    <2> QED BY <2>4, <2>5
  <1>7. HistInv'
    <2>1. NextIsTarget
      BY <1>2, FlushOne DEF Failed, FlushNext, NextIsTarget
    <2>2. histFail' \in Nat /\ histLost' \in BOOLEAN
      BY <1>2, <1>3, LateIds DEF HistInv, HistTypeOK
    <2> QED BY <1>2, <1>3, <1>5, <1>6, <2>1, <2>2, NextWrite
  <1>8. late \in histLate' \ histLate
    BY <1>2, <1>4
  <1> QED BY <1>2, <1>3, <1>4, <1>7, <1>8

\* A write that lands, awaited or late, is no older than the record, or is late.
LEMMA LandInv ==
    ASSUME HistInv, Land \/ LandLate
    PROVE  HistInv' /\ UNCHANGED histCount
  <1>1. /\ histRecord' \in Selection
        /\ \/ /\ histRecord' = histBusy /\ histBusy # Nothing
              /\ histWire' \subseteq histWire /\ histLate' = histLate
           \/ /\ \E w \in histLate : histRecord'.n = w.n
              /\ histWire' = histWire /\ histLate' \subseteq histLate
        /\ histLost' \in BOOLEAN
        /\ UNCHANGED <<histNow, histTarget, histWritten, histBusy, histWait, histCount,
                       histFail>>
    <2>1. CASE Land
      BY <2>1, WireEmpties DEF Land, HistInv, HistTypeOK
    <2>2. CASE LandLate
      BY <2>2 DEF LandLate, HistInv, HistTypeOK, Selection
    <2> QED BY <2>1, <2>2
  <1>2. HistTypeOK' /\ OneOnTheWire' /\ LateAreOlder'
    BY <1>1 DEF HistInv, HistTypeOK, OneOnTheWire, LateAreOlder
  <1>3. InOrder'
    BY <1>1, SelectionFacts DEF HistInv, HistTypeOK, InOrder, NoneNewerThan
  <1> QED BY <1>1, <1>2, <1>3 DEF HistInv

\* Each way update() goes.
LEMMA UpdateInv ==
    ASSUME HistInv, NEW now \in HistKey \cup {"paused", "stopped"}, Update(now)
    PROVE  /\ HistInv' /\ histCount' \in {histCount, histCount + 1}
           /\ UNCHANGED <<histLate, histRecord>>
  <1>1. histNow' = now /\ UNCHANGED <<histLate, histRecord, histFail, histLost>>
    BY DEF Update
  <1>2. CASE now \in {"paused", "stopped"}
    <2>1. UpdateStopped \/ UpdatePaused
      BY <1>2 DEF Update
    <2> QED BY <1>1, <2>1, IdleUpdates
  <1>3. CASE now \in HistKey
    <2>1. UpdatePlaying(now)
      BY <1>3, PlayHistoryAssumption DEF Update
    <2> QED BY <1>1, <1>3, <2>1, PlayingUpdate
  <1> QED BY <1>2, <1>3

-----------------------------------------------------------------------------
(* Every step.                                                             *)

\* A step keeps the invariant and is a step of the register.
LEMMA StepInv ==
    ASSUME HistInv, [HistNext]_histVars
    PROVE  HistInv' /\ [Register!RegisterNext]_Register!registerVars
  <1>1. CASE Observe \/ Repoll
    <2>1. PICK now \in HistKey \cup {"paused", "stopped"} : Update(now)
      BY <1>1 DEF Observe, Repoll, HistInv, HistTypeOK
    <2>2. /\ HistInv' /\ histCount' \in {histCount, histCount + 1}
          /\ UNCHANGED <<histLate, histRecord>>
      BY <2>1, UpdateInv
    <2> QED
      BY <2>2 DEF Register!RegisterNext, Register!Select, Register!registerVars
  <1>2. CASE Land
    <2>1. HistInv' /\ UNCHANGED <<histCount, histLate>>
      BY <1>2, LandInv DEF Land
    <2>2. histRecord' = histBusy /\ histBusy # Nothing
      BY <1>2, WireEmpties DEF Land
    <2>3. histBusy.n \in histRecord.n..histCount
      BY <2>2, SelectionFacts DEF HistInv, HistTypeOK, InOrder, NoneNewerThan
    <2>4. histRecord.n \in Nat /\ histCount \in Nat
      BY SelectionFacts DEF HistInv, HistTypeOK
    <2>5. histRecord'.n = histRecord.n \/ histRecord'.n \in (histRecord.n + 1)..histCount
      BY <2>2, <2>3, <2>4
    <2> QED
      BY <2>1, <2>5 DEF Register!RegisterNext, Register!Record, Register!registerVars
  <1>3. CASE LandLate
    BY <1>3, LandInv DEF LandLate, Register!RegisterNext, Register!RecordLate
  <1>4. CASE Acknowledge \/ Refused \/ Unanswered
    BY <1>4, EndOfWrite DEF Register!registerVars
  <1>5. CASE TimedOut
    BY <1>5, TimeoutInv DEF Register!RegisterNext, Register!GiveUp
  <1>6. CASE RetryDue
    BY <1>6 DEF RetryDue, Register!registerVars, HistInv, HistTypeOK, OneOnTheWire,
                LateAreOlder, InOrder, NoneNewerThan
  <1>7. CASE UNCHANGED histVars
    BY <1>7 DEF histVars, Register!registerVars, HistInv, HistTypeOK, OneOnTheWire,
                LateAreOlder, InOrder, NoneNewerThan
  <1> QED
    BY <1>1, <1>2, <1>3, <1>4, <1>5, <1>6, <1>7 DEF HistNext

\* In every reachable state the types are right and the record, the late writes, the
\* awaited write and the target are in the order in which they were selected.
THEOREM HistoryInOrder == HistSpec => []HistInv
  <1>1. HistInit => HistInv
    BY InitInv
  <1>2. HistInv /\ [HistNext]_histVars => HistInv'
    BY StepInv
  <1> QED BY <1>1, <1>2, PTL DEF HistSpec

\* "Serialize status writes so a slower old station cannot overwrite a new one"
\* (history.ts:3): the writer implements the register.
THEOREM HistoryIsARegister == HistSpec => RecordFollowsSelection
  <1>1. HistInit => Register!RegisterInit
    BY SelectionFacts DEF HistInit, Register!RegisterInit
  <1>2. HistInv /\ [HistNext]_histVars => [Register!RegisterNext]_Register!registerVars
    BY StepInv
  <1> QED
    BY <1>1, <1>2, HistoryInOrder, PTL DEF HistSpec, RecordFollowsSelection,
                                          Register!RegisterSpec

-----------------------------------------------------------------------------
(* What lastWritten stands for.                                            *)

\* A writer that finds nothing to do has the station that plays on the record.
SettledIsRecorded ==
    histNow \in HistKey /\ histBusy = Nothing /\ histWritten = histTarget.key /\ ~histLost
        => histRecord.key = histNow

\* The target is what plays. lastWritten, if there is one, is on the record; a write that
\* has landed is there in its place until it is acknowledged.
WrittenIsOnRecord ==
    /\ histNow \in HistKey => histTarget.key = histNow
    /\ ~histLost =>
         IF histBusy # Nothing /\ histBusy \notin histWire THEN histRecord = histBusy
         ELSE histWritten \in {NoKey, histRecord.key}

\* update() writes nothing itself; what it starts is on the wire.
LEMMA UpdateKeepsRecord ==
    ASSUME HistInv, WrittenIsOnRecord, NEW now \in HistKey \cup {"paused", "stopped"}, Update(now)
    PROVE  WrittenIsOnRecord'
  <1>1. histNow' = now /\ UNCHANGED <<histRecord, histLost>>
    BY DEF Update
  <1>2. CASE now \in {"paused", "stopped"}
    <2>1. UpdateStopped \/ UpdatePaused
      BY <1>2 DEF Update
    <2>2. UNCHANGED <<histBusy, histWire>> /\ histWritten' \in {NoKey, histWritten}
      BY <2>1 DEF UpdateStopped, UpdatePaused
    <2>3. now \notin HistKey
      BY <1>2, PlayHistoryAssumption
    <2> QED BY <1>1, <2>2, <2>3 DEF WrittenIsOnRecord
  <1>3. CASE now \in HistKey
    <2>1. UpdatePlaying(now)
      BY <1>3, PlayHistoryAssumption DEF Update
    <2>2. histTarget'.key = now /\ histWritten' = histWritten
      BY <2>1 DEF UpdatePlaying
    <2>3. Flush(histTarget', histWritten, histWait', histBusy, histWire)
      BY <2>1 DEF UpdatePlaying
    <2>4. \/ UNCHANGED <<histBusy, histWire>>
          \/ histBusy = Nothing /\ histBusy' \in histWire'
      BY <2>3, FlushOne
    <2> QED BY <1>1, <2>2, <2>4 DEF WrittenIsOnRecord
  <1> QED BY <1>2, <1>3

\* However an awaited write ends.
LEMMA EndKeepsRecord ==
    ASSUME HistInv, WrittenIsOnRecord, Acknowledge \/ Refused \/ Unanswered \/ TimedOut
    PROVE  WrittenIsOnRecord'
  <1>1. UNCHANGED <<histNow, histTarget, histRecord>>
    BY DEF Acknowledge, Refused, Unanswered, TimedOut, Failed
  <1>2. histBusy' = Nothing \/ histBusy' \in histWire'
    <2>1. PICK written, wire : FlushNext(written, wire)
      BY DEF Acknowledge, Refused, Unanswered, TimedOut, Failed
    <2> QED BY <2>1, FlushOne DEF FlushNext
  <1>3. CASE Acknowledge
    <2>1. histBusy # Nothing /\ histBusy \notin histWire /\ histWritten' = histBusy.key
          /\ histLost' = histLost
      BY <1>3 DEF Acknowledge
    <2> QED BY <1>1, <1>2, <2>1 DEF WrittenIsOnRecord
  <1>4. CASE Refused \/ TimedOut
    <2>1. histBusy \in histWire /\ histWritten' = histWritten /\ histLost' = histLost
      BY <1>4 DEF Refused, TimedOut, Failed
    <2> QED BY <1>1, <1>2, <2>1 DEF WrittenIsOnRecord
  <1>5. CASE Unanswered
    BY <1>1, <1>5 DEF Unanswered, WrittenIsOnRecord
  <1> QED BY <1>3, <1>4, <1>5

LEMMA RecordStays ==
    ASSUME HistInv, WrittenIsOnRecord, [HistNext]_histVars
    PROVE  WrittenIsOnRecord'
  <1>1. CASE Observe \/ Repoll
    <2>1. PICK now \in HistKey \cup {"paused", "stopped"} : Update(now)
      BY <1>1 DEF Observe, Repoll, HistInv, HistTypeOK
    <2> QED BY <2>1, UpdateKeepsRecord
  <1>2. CASE Land
    BY <1>2, WireEmpties DEF Land, WrittenIsOnRecord
  <1>3. CASE LandLate
    BY <1>3 DEF LandLate, WrittenIsOnRecord
  <1>4. CASE Acknowledge \/ Refused \/ Unanswered \/ TimedOut
    BY <1>4, EndKeepsRecord
  <1>5. CASE RetryDue \/ UNCHANGED histVars
    BY <1>5 DEF RetryDue, histVars, WrittenIsOnRecord
  <1> QED BY <1>1, <1>2, <1>3, <1>4, <1>5 DEF HistNext

\* A writer that has nothing left to write (history.ts:32-38) may rest: the record shows
\* the station that plays, whatever was refused, retried or timed out before, as long as
\* no write landed without its answer. It is the safe half of PlayedIsRecorded.
THEOREM SettledHistoryIsRecorded == HistSpec => []SettledIsRecorded
  <1>1. HistInit => WrittenIsOnRecord
    <2>1. "stopped" \notin HistKey
      BY PlayHistoryAssumption
    <2> QED BY <2>1 DEF HistInit, WrittenIsOnRecord
  <1>2. HistInv /\ WrittenIsOnRecord => SettledIsRecorded
    BY PlayHistoryAssumption DEF WrittenIsOnRecord, SettledIsRecorded
  <1>3. HistInv /\ WrittenIsOnRecord /\ [HistNext]_histVars => WrittenIsOnRecord'
    BY RecordStays
  <1> QED BY <1>1, <1>2, <1>3, HistoryInOrder, PTL DEF HistSpec
=============================================================================
