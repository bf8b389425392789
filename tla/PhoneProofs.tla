------------------------------ MODULE PhoneProofs ------------------------------
(***************************************************************************)
(* Theorems about the parts of the phone app, one section for each part:   *)
(* the bridge of the sign-in page, the player, the audio settings, the     *)
(* hearts, the search, the screens and the discussion.  Each has an        *)
(* invariant of its own, for every number of views, requests, stations,    *)
(* accounts, taps, sheets and comments.                                    *)
(***************************************************************************)
EXTENDS AuthBridge, MobilePlayer, MobileAudio, MobileFavorites, RadioSearch,
        MobileScreens, MobileDiscussion, SequenceTheorems, TLAPS


-----------------------------------------------------------------------------
(* The bridge: no command of the app reaches a page twice.                 *)

BridgeTypeOK ==
    /\ active \in View \cup {NoView}
    /\ sender \in View \cup {NoView}
    /\ mounted \subseteq View
    /\ page \in [View -> {"none", "loaded", "ready"}]
    /\ waits \in [Request -> {"new", "waiting", "sent", "settled"}]
    /\ owner \in [Request -> View \cup {NoView}]
    /\ runs \in [Request -> Nat]

\* What no page has been given was never run, and nothing was run twice.
RunOnce == \A r \in Request :
    /\ runs[r] <= 1
    /\ waits[r] \in {"new", "waiting"} => runs[r] = 0

BridgeInv == BridgeTypeOK /\ RunOnce

\* Disconnecting a view only settles requests.
LEMMA DetachInv ==
    ASSUME BridgeInv, NEW v \in View, Detach(v),
           mounted' \subseteq View,
           page' \in [View -> {"none", "loaded", "ready"}],
           UNCHANGED <<owner, runs>>
    PROVE  BridgeInv'
  <1>1. Rejected(v) \in [Request -> {"new", "waiting", "sent", "settled"}]
    BY DEF BridgeInv, BridgeTypeOK, Rejected, Pending
  <1>2. \A r \in Request : Rejected(v)[r] \in {waits[r], "settled"}
    BY DEF Rejected
  <1>3. BridgeTypeOK'
    BY <1>1 DEF Detach, BridgeInv, BridgeTypeOK
  <1>4. RunOnce'
    BY <1>1, <1>2 DEF Detach, BridgeInv, BridgeTypeOK, RunOnce
  <1> QED BY <1>3, <1>4 DEF BridgeInv

\* prepareAuthRuntime settles what the view before it was given.
LEMMA MountInv ==
    ASSUME BridgeInv, NEW v \in View, Mount(v)
    PROVE  BridgeInv'
  <1>1. /\ waits' \in [Request -> {"new", "waiting", "sent", "settled"}]
        /\ \A r \in Request : waits'[r] \in {waits[r], "settled"}
    BY DEF Mount, BridgeInv, BridgeTypeOK, Rejected, Pending
  <1>2. BridgeTypeOK'
    BY <1>1 DEF Mount, BridgeInv, BridgeTypeOK
  <1>3. RunOnce'
    BY <1>1 DEF Mount, BridgeInv, BridgeTypeOK, RunOnce
  <1> QED BY <1>2, <1>3 DEF BridgeInv

\* attachAuthRuntime submits what waits, and nothing else.
LEMMA ReadyInv ==
    ASSUME BridgeInv, NEW v \in View, Ready(v)
    PROVE  BridgeInv'
  <1> DEFINE them == {r \in Request : waits[r] = "waiting"}
  <1>1. Attach(v, them) /\ UNCHANGED <<active, mounted>>
    BY DEF Ready
  <1>2. page' \in [View -> {"none", "loaded", "ready"}]
    BY DEF Ready, BridgeInv, BridgeTypeOK
  <1>3. CASE active # v
    BY <1>1, <1>2, <1>3 DEF Attach, BridgeInv, BridgeTypeOK, RunOnce
  <1>4. CASE active = v
    <2>1. BridgeTypeOK'
      BY <1>1, <1>2, <1>4 DEF Attach, BridgeInv, BridgeTypeOK
    <2>2. ASSUME NEW r \in Request
          PROVE  runs'[r] <= 1 /\ (waits'[r] \in {"new", "waiting"} => runs'[r] = 0)
      BY <1>1, <1>4, <2>2 DEF Attach, BridgeInv, BridgeTypeOK, RunOnce
    <2> QED BY <2>1, <2>2 DEF BridgeInv, RunOnce
  <1> QED BY <1>3, <1>4

\* Every step of the bridge keeps what BridgeInv says.
LEMMA BridgeStepInv == BridgeInv /\ [BridgeNext]_bridgeVars => BridgeInv'
  <1> SUFFICES ASSUME BridgeInv, [BridgeNext]_bridgeVars PROVE BridgeInv'
    OBVIOUS
  <1>1. ASSUME NEW v \in View, Unmount(v) PROVE BridgeInv'
    BY <1>1, DetachInv DEF Unmount, BridgeInv, BridgeTypeOK
  <1>2. ASSUME NEW v \in View, Break(v) PROVE BridgeInv'
    <2>1. page' \in [View -> {"none", "loaded", "ready"}]
      BY <1>2 DEF Break, BridgeInv, BridgeTypeOK
    <2> QED BY <1>2, <2>1, DetachInv DEF Break, BridgeInv, BridgeTypeOK
  <1>3. ASSUME NEW v \in View, Load(v) PROVE BridgeInv'
    BY <1>3 DEF Load, BridgeInv, BridgeTypeOK, RunOnce
  <1>4. ASSUME NEW r \in Request, Ask(r) PROVE BridgeInv'
    BY <1>4 DEF Ask, BridgeInv, BridgeTypeOK, RunOnce
  <1>5. ASSUME NEW r \in Request, Settled(r) PROVE BridgeInv'
    BY <1>5 DEF Settled, BridgeInv, BridgeTypeOK, RunOnce
  <1>6. CASE UNCHANGED bridgeVars
    BY <1>6 DEF bridgeVars, BridgeInv, BridgeTypeOK, RunOnce
  <1> QED
    BY <1>1, <1>2, <1>3, <1>4, <1>5, <1>6, MountInv, ReadyInv DEF BridgeNext

\* "duplicate ready events do not submit an OAuth or write command twice"
\* (auth-bridge.test.js:25), in every behaviour.
THEOREM NeverSubmittedTwice == BridgeSpec => []SubmittedOnce
  <1>1. BridgeInit => BridgeInv
    BY DEF BridgeInit, BridgeInv, BridgeTypeOK, RunOnce
  <1>2. BridgeInv => SubmittedOnce
    BY DEF BridgeInv, RunOnce, SubmittedOnce
  <1> QED BY <1>1, <1>2, BridgeStepInv, PTL DEF BridgeSpec

-----------------------------------------------------------------------------
(* The player.                                                             *)

Station == MobStation \cup {NoStation}
Intent  == [act : {"playStation", "play", "pause", "stop", "destroy"}, st : Station]

Service == [on : BOOLEAN, station : Station, playing : BOOLEAN, resume : BOOLEAN,
            focus : {"none", "held", "lent"}, blamed : BOOLEAN]

MobTypeOK ==
    /\ mobPlays \subseteq [st : MobStation, live : BOOLEAN]
    /\ mobIntents \in Seq(Intent)
    /\ mobService \in Service
    /\ mobWorker \in Seq(Station) /\ mobEnded \in Seq(Seq(Station))
    /\ mobEngine \in Station /\ mobSaved \in Station
    /\ mobWish \in Station /\ mobSent \in Station

\* cmd is what the service means the engine to do: play what it believes, or, after the
\* error of a failed command, at most its station, and that with the focus.
Meant(cmd) ==
    IF mobService.blamed
    THEN cmd = NoStation \/ (cmd = mobService.station /\ mobService.focus = "held")
    ELSE cmd = IF mobService.playing THEN mobService.station ELSE NoStation

\* The worker's last command is what the service means; once all workers are idle the
\* engine does it, or is silent because commands failed or a service that ended was slow.
EngineFollows ==
    /\ mobService.playing => mobService.focus = "held"
    /\ mobWorker # <<>> => Meant(mobWorker[Len(mobWorker)])
    /\ WorkersIdle => mobEngine = NoStation \/ Meant(mobEngine)

\* An engine that is not loaded is silent, and a worker that ended ends with a stop.
SilentEnds ==
    /\ mobLoaded \/ mobEngine = NoStation
    /\ \A i \in DOMAIN mobEnded :
          mobEnded[i] # <<>> => mobEnded[i][Len(mobEnded[i])] = NoStation

\* The service knows no station but the last it was told to play; and that is the last one
\* posted, or the last one posted is still among the intents.
StationIsLatest ==
    /\ mobService.station \in {NoStation, mobSaved}
    /\ \E k \in 0..Len(mobIntents) :
          /\ k = 0 => mobSaved = mobSent
          /\ k > 0 => mobIntents[k].act = "playStation" /\ mobIntents[k].st = mobSent
          /\ \A j \in (k + 1)..Len(mobIntents) : mobIntents[j].act # "playStation"

\* A call of play() that will be heard is for the station wished for; without one the
\* wish is the last station posted, or silence.
WishIsAsked ==
    /\ \A p \in mobPlays : p.live => p.st = mobWish
    /\ (\A p \in mobPlays : ~p.live) => mobWish \in {mobSent, NoStation}

\* A wish for silence has an intent behind which nothing starts to play, or the service
\* has given up the focus and nothing it was asked makes it play.
SilenceIsAsked ==
    mobWish = NoStation /\ mobSent # NoStation =>
        \E k \in 0..Len(mobIntents) :
            /\ k = 0 => mobService.focus = "none"
            /\ k > 0 => mobIntents[k].act \in {"pause", "stop", "destroy"}
            /\ \A j \in (k + 1)..Len(mobIntents) :
                  mobIntents[j].act \in {"pause", "stop", "destroy"}

PlayerInv ==
    MobTypeOK /\ EngineFollows /\ SilentEnds /\ StationIsLatest /\ WishIsAsked /\ SilenceIsAsked

\* What the worker is given last is its last command.
LEMMA WorkIsLast ==
    ASSUME MobTypeOK, NEW cmd \in Station, Work(cmd)
    PROVE  /\ mobWorker' \in Seq(Station) /\ mobWorker' # <<>>
           /\ mobWorker'[Len(mobWorker')] = cmd
  <1>1. mobWorker \in Seq(Station) /\ mobWorker' = Append(mobWorker, cmd)
    BY DEF MobTypeOK, Work
  <1> QED BY <1>1

\* A worker's command is its last one, or the last one is still to come.
LEMMA HeadOrLast ==
    ASSUME NEW q \in Seq(Station), q # <<>>
    PROVE  /\ Head(q) \in Station /\ Tail(q) \in Seq(Station)
           /\ Tail(q) = <<>> => Head(q) = q[Len(q)]
           /\ Tail(q) # <<>> => Tail(q)[Len(Tail(q))] = q[Len(q)]
  <1>1. /\ Tail(q) \in Seq(Station) /\ Len(Tail(q)) = Len(q) - 1 /\ Head(q) = q[1]
        /\ \A j \in 1..Len(Tail(q)) : Tail(q)[j] = q[j + 1]
        /\ Len(q) \in Nat \ {0}
    OBVIOUS
  <1>2. Tail(q) = <<>> => Len(q) = 1
    BY <1>1
  <1>3. Tail(q) # <<>> => Len(Tail(q)) \in Nat \ {0}
    BY <1>1
  <1> QED BY <1>1, <1>2, <1>3

\* The worker passes a command on: the engine obeys, or the command fails.
LEMMA DriveInv ==
    ASSUME PlayerInv, Drive PROVE PlayerInv'
  <1>1. /\ mobWorker # <<>> /\ mobWorker' = Tail(mobWorker)
        /\ mobEngine' = IF mobLoaded THEN Head(mobWorker) ELSE mobEngine
        /\ UNCHANGED <<mobPlays, mobIntents, mobService, mobEnded, mobLoaded, mobSaved,
                       mobWish, mobSent>>
    BY DEF Drive, Obey
  <1>2. mobWorker \in Seq(Station)
    BY DEF PlayerInv, MobTypeOK
  <1>3. /\ Head(mobWorker) \in Station /\ mobWorker' \in Seq(Station)
        /\ mobWorker' = <<>> => Head(mobWorker) = mobWorker[Len(mobWorker)]
        /\ mobWorker' # <<>> => mobWorker'[Len(mobWorker')] = mobWorker[Len(mobWorker)]
    BY <1>1, <1>2, HeadOrLast
  <1>5. ASSUME NEW cmd, Meant(cmd) PROVE IF mobService'.blamed
            THEN cmd = NoStation \/ (cmd = mobService'.station /\ mobService'.focus = "held")
            ELSE cmd = IF mobService'.playing THEN mobService'.station ELSE NoStation
    BY <1>1, <1>5 DEF Meant
  <1>6. Meant(mobWorker[Len(mobWorker)])
    BY <1>1 DEF PlayerInv, EngineFollows
  <1>7. mobWorker' # <<>> => Meant(mobWorker[Len(mobWorker)])'
    BY <1>3, <1>5, <1>6 DEF Meant
  <1>8. WorkersIdle' => mobEngine' = NoStation \/ Meant(mobEngine)'
    <2>1. CASE mobLoaded
      BY <1>1, <1>3, <1>5, <1>6, <2>1 DEF Meant, WorkersIdle
    <2>2. CASE ~mobLoaded
      BY <1>1, <2>2 DEF PlayerInv, SilentEnds
    <2> QED BY <2>1, <2>2
  <1>9. EngineFollows'
    BY <1>1, <1>7, <1>8 DEF PlayerInv, EngineFollows
  <1>10. MobTypeOK'
    BY <1>1, <1>3 DEF PlayerInv, MobTypeOK
  <1> QED BY <1>1, <1>9, <1>10 DEF PlayerInv, SilentEnds, StationIsLatest, WishIsAsked,
                                   SilenceIsAsked

\* A worker that ended does; with its last command the engine is silent.
LEMMA DriveEndedInv ==
    ASSUME PlayerInv, DriveEnded PROVE PlayerInv'
  <1>1. PICK i \in DOMAIN mobEnded :
          /\ mobEnded[i] # <<>> /\ mobEnded' = [mobEnded EXCEPT ![i] = Tail(mobEnded[i])]
          /\ mobEngine' = IF mobLoaded THEN Head(mobEnded[i]) ELSE mobEngine
          /\ UNCHANGED <<mobPlays, mobIntents, mobService, mobWorker, mobLoaded, mobSaved,
                         mobWish, mobSent>>
    BY DEF DriveEnded, Obey
  <1>2. mobEnded \in Seq(Seq(Station)) /\ mobEnded[i] \in Seq(Station)
    BY <1>1 DEF PlayerInv, MobTypeOK
  <1>3. /\ Head(mobEnded[i]) \in Station /\ Tail(mobEnded[i]) \in Seq(Station)
        /\ Tail(mobEnded[i]) = <<>> => Head(mobEnded[i]) = NoStation
        /\ Tail(mobEnded[i]) # <<>> => Tail(mobEnded[i])[Len(Tail(mobEnded[i]))] = NoStation
    BY <1>1, <1>2, HeadOrLast DEF PlayerInv, SilentEnds
  <1>4. /\ mobEnded' \in Seq(Seq(Station)) /\ DOMAIN mobEnded' = DOMAIN mobEnded
        /\ mobEnded'[i] = Tail(mobEnded[i])
        /\ \A k \in DOMAIN mobEnded : k # i => mobEnded'[k] = mobEnded[k]
    BY <1>1, <1>2, <1>3
  <1>5. SilentEnds'
    <2>1. mobLoaded' \/ mobEngine' = NoStation
      BY <1>1 DEF PlayerInv, SilentEnds
    <2>2. \A k \in DOMAIN mobEnded' :
             mobEnded'[k] # <<>> => mobEnded'[k][Len(mobEnded'[k])] = NoStation
      BY <1>3, <1>4 DEF PlayerInv, SilentEnds
    <2> QED BY <2>1, <2>2 DEF SilentEnds
  <1>6. WorkersIdle' => mobEngine' = NoStation
    <2>1. WorkersIdle' => Tail(mobEnded[i]) = <<>>
      BY <1>4 DEF WorkersIdle
    <2> QED BY <1>1, <1>3, <2>1 DEF PlayerInv, SilentEnds
  <1>7. EngineFollows'
    BY <1>1, <1>6 DEF PlayerInv, EngineFollows, Meant
  <1>8. MobTypeOK'
    BY <1>1, <1>3, <1>4 DEF PlayerInv, MobTypeOK
  <1> QED BY <1>1, <1>5, <1>7, <1>8 DEF PlayerInv, StationIsLatest, WishIsAsked, SilenceIsAsked

\* The library is loaded, or the service learns of a failure: nothing is sounded by that.
LEMMA BlamedInv ==
    ASSUME PlayerInv, Loaded \/ Blamed PROVE PlayerInv'
  <1>1. UNCHANGED <<mobPlays, mobIntents, mobWorker, mobEnded, mobEngine, mobSaved, mobWish,
                    mobSent>>
    BY DEF Loaded, Blamed
  <1>2. /\ mobService' \in Service /\ mobService'.station = mobService.station
        /\ mobService'.focus = mobService.focus /\ (mobLoaded => mobLoaded')
        /\ mobService'.playing => mobService.playing
        /\ mobService'.blamed \/ mobService' = mobService
    <2>0. mobService \in Service
      BY DEF PlayerInv, MobTypeOK
    <2>1. CASE Loaded
      BY <2>0, <2>1 DEF Loaded
    <2>2. CASE Blamed
      BY <2>0, <2>2 DEF Blamed, Service
    <2> QED BY <2>1, <2>2
  <1>3. ASSUME NEW cmd \in Station, Meant(cmd)
        PROVE  IF mobService'.blamed
               THEN cmd = NoStation \/ (cmd = mobService'.station /\ mobService'.focus = "held")
               ELSE cmd = IF mobService'.playing THEN mobService'.station ELSE NoStation
    BY <1>2, <1>3 DEF PlayerInv, EngineFollows, Meant
  <1>4. mobWorker # <<>> => mobWorker[Len(mobWorker)] \in Station
    BY DEF PlayerInv, MobTypeOK
  <1>5. EngineFollows'
    <2>1. mobEngine \in Station
      BY DEF PlayerInv, MobTypeOK
    <2>2. mobWorker # <<>> => Meant(mobWorker[Len(mobWorker)])'
      BY <1>1, <1>3, <1>4 DEF PlayerInv, EngineFollows, Meant
    <2>3. WorkersIdle' => mobEngine' = NoStation \/ Meant(mobEngine)'
      BY <1>1, <1>3, <2>1 DEF PlayerInv, EngineFollows, Meant, WorkersIdle
    <2> QED BY <1>1, <1>2, <2>2, <2>3 DEF PlayerInv, EngineFollows
  <1> QED BY <1>1, <1>2, <1>5 DEF PlayerInv, MobTypeOK, SilentEnds, StationIsLatest,
                                  WishIsAsked, SilenceIsAsked

\* What the app does leaves the service and the engine alone.
LEMMA ServiceAlone ==
    ASSUME PlayerInv, UNCHANGED <<mobService, mobWorker, engineVars, mobSaved>>,
           mobPlays' \subseteq [st : MobStation, live : BOOLEAN],
           mobIntents' \in Seq(Intent), mobWish' \in Station, mobSent' \in Station,
           StationIsLatest', WishIsAsked', SilenceIsAsked'
    PROVE  PlayerInv'
  BY DEF PlayerInv, MobTypeOK, EngineFollows, SilentEnds, Meant, WorkersIdle, engineVars

\* The calls of play() that a new one, a pause or a stop aborts will not be heard.
LEMMA AbortedType ==
    ASSUME MobTypeOK
    PROVE  Aborted \subseteq [st : MobStation, live : BOOLEAN] /\ \A p \in Aborted : ~p.live
  <1>1. ASSUME NEW p \in mobPlays
        PROVE  /\ [p EXCEPT !.live = FALSE] \in [st : MobStation, live : BOOLEAN]
               /\ ~[p EXCEPT !.live = FALSE].live
    <2>1. p \in [st : MobStation, live : BOOLEAN]
      BY DEF MobTypeOK
    <2> QED BY <2>1
  <1> QED BY <1>1, Zenon DEF Aborted

\* play(): the wish is the station of the only call that will be heard.
LEMMA PlayInv ==
    ASSUME PlayerInv, NEW st \in MobStation, Play(st) PROVE PlayerInv'
  <1>1. /\ mobPlays' = Aborted \cup {[st |-> st, live |-> TRUE]} /\ mobWish' = st
        /\ UNCHANGED <<mobIntents, mobService, mobWorker, engineVars, mobSaved, mobSent>>
    BY DEF Play
  <1> DEFINE q == [st |-> st, live |-> TRUE]
  <1>2. q \in [st : MobStation, live : BOOLEAN] /\ q.live /\ q.st = st
    OBVIOUS
  <1>3. /\ Aborted \subseteq [st : MobStation, live : BOOLEAN]
        /\ \A p \in Aborted : ~p.live
    BY AbortedType DEF PlayerInv
  <1> HIDE DEF q
  <1>4. mobPlays' = Aborted \cup {q}
    BY <1>1 DEF q
  <1>5. mobPlays' \subseteq [st : MobStation, live : BOOLEAN] /\ mobWish' \in Station
    BY <1>1, <1>2, <1>3, <1>4 DEF Station
  <1>6. WishIsAsked'
    BY <1>1, <1>2, <1>3, <1>4 DEF WishIsAsked
  <1>7. SilenceIsAsked'
    BY <1>1, MobNoStation DEF SilenceIsAsked
  <1> QED BY <1>1, <1>5, <1>6, <1>7, ServiceAlone DEF PlayerInv, MobTypeOK, StationIsLatest

\* A call that is heard is for the wish, and its station becomes the last one posted.
LEMMA ResolvedInv ==
    ASSUME PlayerInv, Resolved PROVE PlayerInv'
  <1>1. PICK p \in mobPlays :
           /\ mobPlays' = mobPlays \ {p}
           /\ IF p.live THEN Post([act |-> "playStation", st |-> p.st]) /\ mobSent' = p.st
                        ELSE UNCHANGED <<mobIntents, mobSent>>
           /\ UNCHANGED <<mobService, mobWorker, engineVars, mobSaved, mobWish>>
    BY DEF Resolved
  <1>2. p.st \in Station /\ p.st \in MobStation /\ p \in [st : MobStation, live : BOOLEAN]
    BY DEF PlayerInv, MobTypeOK, Station
  <1>3. CASE ~p.live
    <2>1. WishIsAsked'
      BY <1>1, <1>3 DEF PlayerInv, WishIsAsked
    <2> QED BY <1>1, <1>3, <2>1, ServiceAlone DEF PlayerInv, MobTypeOK, StationIsLatest,
                                                  SilenceIsAsked
  <1>4. CASE p.live
    <2> DEFINE i == [act |-> "playStation", st |-> p.st]
    <2>1. i \in Intent /\ i.act = "playStation" /\ i.st = p.st
      BY <1>2 DEF Intent
    <2> HIDE DEF i
    <2>2. mobIntents' = Append(mobIntents, i) /\ mobSent' = p.st
      BY <1>1, <1>4 DEF Post, i
    <2>3. /\ mobIntents' \in Seq(Intent) /\ Len(mobIntents') = Len(mobIntents) + 1
          /\ mobIntents'[Len(mobIntents')] = i
      BY <2>1, <2>2 DEF PlayerInv, MobTypeOK
    <2>4. StationIsLatest'
      <3>1. mobService.station \in {NoStation, mobSaved}
        BY DEF PlayerInv, StationIsLatest
      <3>2. Len(mobIntents') \in Nat /\ Len(mobIntents') > 0
        BY <2>3
      <3> QED BY <1>1, <2>1, <2>2, <2>3, <3>1, <3>2 DEF StationIsLatest
    <2>5. p.st = mobWish
      BY <1>4 DEF PlayerInv, WishIsAsked
    <2>6. WishIsAsked'
      BY <1>1, <2>2, <2>5 DEF PlayerInv, WishIsAsked
    <2>7. SilenceIsAsked'
      BY <1>1, <1>2, <2>2, <2>5 DEF SilenceIsAsked
    <2>8. mobSent' \in Station /\ mobPlays' \subseteq [st : MobStation, live : BOOLEAN]
      BY <1>1, <1>2, <2>2 DEF PlayerInv, MobTypeOK
    <2> QED BY <1>1, <2>3, <2>4, <2>6, <2>7, <2>8, ServiceAlone DEF PlayerInv, MobTypeOK
  <1> QED BY <1>2, <1>3, <1>4

\* A call that fails gives the wish back to the last station posted.
LEMMA UnresolvedInv ==
    ASSUME PlayerInv, Unresolved PROVE PlayerInv'
  <1>1. PICK p \in mobPlays :
           /\ mobPlays' = mobPlays \ {p}
           /\ mobWish' = IF p.live THEN mobSent ELSE mobWish
           /\ UNCHANGED <<mobIntents, mobService, mobWorker, engineVars, mobSaved, mobSent>>
    BY DEF Unresolved
  <1>2. p \in [st : MobStation, live : BOOLEAN]
    BY DEF PlayerInv, MobTypeOK
  <1>3. \A q \in mobPlays : p.live /\ q.live => q = p
    BY <1>2 DEF PlayerInv, MobTypeOK, WishIsAsked
  <1>4. WishIsAsked'
    BY <1>1, <1>3 DEF PlayerInv, WishIsAsked
  <1>5. SilenceIsAsked'
    BY <1>1 DEF PlayerInv, SilenceIsAsked
  <1> QED BY <1>1, <1>4, <1>5, ServiceAlone DEF PlayerInv, MobTypeOK, StationIsLatest

\* An intent of the controls is behind the others, and is none for a station.
LEMMA AppendedStation ==
    ASSUME PlayerInv, NEW i \in Intent, i.act # "playStation",
           mobIntents' = Append(mobIntents, i),
           UNCHANGED <<mobService, mobSaved, mobSent>>
    PROVE  mobIntents' \in Seq(Intent) /\ StationIsLatest'
  <1>1. /\ mobIntents' \in Seq(Intent) /\ Len(mobIntents') = Len(mobIntents) + 1
        /\ mobIntents'[Len(mobIntents) + 1] = i
        /\ \A j \in 1..Len(mobIntents) : mobIntents'[j] = mobIntents[j]
    BY DEF PlayerInv, MobTypeOK
  <1>2. Len(mobIntents) \in Nat
    BY DEF PlayerInv, MobTypeOK
  <1>3. PICK k \in 0..Len(mobIntents) :
          /\ k = 0 => mobSaved = mobSent
          /\ k > 0 => mobIntents[k].act = "playStation" /\ mobIntents[k].st = mobSent
          /\ \A j \in (k + 1)..Len(mobIntents) : mobIntents[j].act # "playStation"
    BY DEF PlayerInv, StationIsLatest
  <1>4. /\ k \in 0..Len(mobIntents')
        /\ k > 0 => mobIntents'[k].act = "playStation" /\ mobIntents'[k].st = mobSent
        /\ \A j \in (k + 1)..Len(mobIntents') : mobIntents'[j].act # "playStation"
    BY <1>1, <1>2, <1>3
  <1> QED BY <1>1, <1>3, <1>4 DEF PlayerInv, StationIsLatest

\* The controls: "play" asks for the last station again, the others for silence.
LEMMA ControlInv ==
    ASSUME PlayerInv, NEW action \in {"play", "pause", "stop"}, Control(action)
    PROVE  PlayerInv'
  <1>1. /\ mobPlays' = IF action = "play" THEN mobPlays ELSE Aborted
        /\ ServiceCommand(action)
        /\ UNCHANGED <<mobService, mobWorker, engineVars, mobSaved, mobSent>>
    BY DEF Control
  <1> DEFINE i == [act |-> action, st |-> NoStation]
  <1>2. i \in Intent /\ i.act = action
    BY DEF Intent, Station
  <1> HIDE DEF i
  <1>3. \/ (mobService.on \/ action = "play") /\ mobIntents' = Append(mobIntents, i)
        \/ ~mobService.on /\ action # "play" /\ UNCHANGED mobIntents
    BY <1>1 DEF ServiceCommand, Post, i
  <1>4. mobIntents' \in Seq(Intent) /\ StationIsLatest'
    BY <1>1, <1>2, <1>3, AppendedStation DEF PlayerInv, MobTypeOK, StationIsLatest
  <1>5. mobPlays' \subseteq [st : MobStation, live : BOOLEAN]
    BY <1>1, AbortedType DEF PlayerInv, MobTypeOK
  <1>6. CASE action = "play"
    <2>1. mobWish' = IF PlayUnderWay THEN mobWish ELSE mobSent
      BY <1>6 DEF Control
    <2>2. WishIsAsked'
      BY <1>1, <1>6, <2>1 DEF PlayerInv, WishIsAsked, PlayUnderWay
    <2>3. SilenceIsAsked'
      <3>1. PlayUnderWay => mobWish \in MobStation
        BY DEF PlayerInv, MobTypeOK, WishIsAsked, PlayUnderWay
      <3> QED BY <1>1, <2>1, <3>1, MobNoStation DEF SilenceIsAsked
    <2>4. mobWish' \in Station
      BY <2>1 DEF PlayerInv, MobTypeOK
    <2> QED BY <1>1, <1>4, <1>5, <2>2, <2>3, <2>4, ServiceAlone DEF PlayerInv, MobTypeOK
  <1>7. CASE action # "play"
    <2>1. mobWish' = IF mobService.on THEN NoStation ELSE mobSent
      BY <1>7 DEF Control
    <2>2. WishIsAsked'
      BY <1>1, <1>7, <2>1, AbortedType DEF PlayerInv, WishIsAsked
    <2>3. SilenceIsAsked'
      <3>1. CASE mobService.on
        <4>1. /\ Len(mobIntents') = Len(mobIntents) + 1 /\ Len(mobIntents) \in Nat
              /\ mobIntents'[Len(mobIntents')] = i
          BY <1>2, <1>3, <3>1 DEF PlayerInv, MobTypeOK
        <4>2. /\ Len(mobIntents') \in 0..Len(mobIntents') /\ Len(mobIntents') > 0
              /\ mobIntents'[Len(mobIntents')].act \in {"pause", "stop", "destroy"}
          BY <1>2, <1>7, <4>1
        <4> QED BY <4>1, <4>2 DEF SilenceIsAsked
      <3>2. CASE ~mobService.on
        BY <1>1, <2>1, <3>2 DEF SilenceIsAsked
      <3> QED BY <3>1, <3>2
    <2>4. mobWish' \in Station
      BY <2>1 DEF PlayerInv, MobTypeOK, Station
    <2> QED BY <1>1, <1>4, <1>5, <2>2, <2>3, <2>4, ServiceAlone DEF PlayerInv, MobTypeOK
  <1> QED BY <1>6, <1>7

\* An intent the service takes is the first; the others move up, and shutdown adds one.
LEMMA Taken ==
    ASSUME PlayerInv, mobIntents # <<>>,
           mobIntents' \in {Tail(mobIntents),
                            Append(Tail(mobIntents), [act |-> "destroy", st |-> NoStation])}
    PROVE  /\ mobIntents' \in Seq(Intent)
           /\ Len(mobIntents) \in Nat \ {0}
           /\ Len(mobIntents') \in {Len(mobIntents) - 1, Len(mobIntents)}
           /\ \A j \in 1..(Len(mobIntents) - 1) : mobIntents'[j] = mobIntents[j + 1]
           /\ Len(mobIntents') = Len(mobIntents) =>
                 mobIntents'[Len(mobIntents)].act = "destroy"
  <1> DEFINE rest == Tail(mobIntents)
             d    == [act |-> "destroy", st |-> NoStation]
  <1>1. /\ rest \in Seq(Intent) /\ Len(mobIntents) \in Nat \ {0}
        /\ Len(rest) = Len(mobIntents) - 1
        /\ \A j \in 1..(Len(mobIntents) - 1) : rest[j] = mobIntents[j + 1]
    BY DEF PlayerInv, MobTypeOK
  <1>2. d \in Intent /\ d.act = "destroy"
    BY DEF Intent, Station
  <1> HIDE DEF rest, d
  <1>3. CASE mobIntents' = rest
    BY <1>1, <1>3
  <1>4. CASE mobIntents' = Append(rest, d)
    <2>1. /\ mobIntents' \in Seq(Intent) /\ Len(mobIntents') = Len(mobIntents)
          /\ mobIntents'[Len(mobIntents)] = d
          /\ \A j \in 1..(Len(mobIntents) - 1) : mobIntents'[j] = rest[j]
      BY <1>1, <1>2, <1>4
    <2> QED BY <1>1, <1>2, <2>1
  <1> QED BY <1>3, <1>4 DEF rest, d

\* What the service makes of a command, whichever it is: what it sends is what it means.
LEMMA SentIsMeant ==
    ASSUME MobTypeOK, SilentEnds, NEW cmd \in Station, Work(cmd), Meant(cmd)',
           mobService'.playing => mobService'.focus = "held",
           UNCHANGED <<mobEnded, mobEngine>>, mobLoaded => mobLoaded'
    PROVE  mobWorker' \in Seq(Station) /\ EngineFollows' /\ SilentEnds'
  <1>1. /\ mobWorker' \in Seq(Station) /\ mobWorker' # <<>>
        /\ mobWorker'[Len(mobWorker')] = cmd
    BY WorkIsLast
  <1>2. Meant(mobWorker[Len(mobWorker)])'
    BY <1>1 DEF Meant
  <1>3. ~WorkersIdle'
    BY <1>1 DEF WorkersIdle
  <1>4. SilentEnds'
    BY DEF SilentEnds
  <1> QED BY <1>1, <1>2, <1>3, <1>4 DEF EngineFollows

LEMMA ServiceStep ==
    ASSUME PlayerInv, NEW svc \in Service, NEW abandon \in BOOLEAN,
           Paused(svc, abandon), UNCHANGED <<mobEnded, mobEngine>>, mobLoaded => mobLoaded'
    PROVE  /\ mobService' \in Service
           /\ mobWorker' \in Seq(Station)
           /\ mobService'.station = svc.station
           /\ abandon => mobService'.focus = "none"
           /\ EngineFollows' /\ SilentEnds'
  <1>1. /\ mobService' \in Service
        /\ mobService'.station = svc.station
        /\ ~mobService'.playing /\ ~mobService'.blamed
        /\ abandon => mobService'.focus = "none"
    BY DEF Paused, Service
  <1>2. Work(NoStation) /\ NoStation \in Station
    BY DEF Paused, Station
  <1>3. Meant(NoStation)'
    BY <1>1 DEF Meant
  <1>4. MobTypeOK /\ SilentEnds
    BY DEF PlayerInv
  <1>5. mobWorker' \in Seq(Station) /\ EngineFollows' /\ SilentEnds'
    BY <1>1, <1>2, <1>3, <1>4, SentIsMeant
  <1> QED BY <1>1, <1>5

\* startLive(), for a service that does not play without the focus.
LEMMA StartLiveStep ==
    ASSUME PlayerInv, NEW svc \in Service, NEW rest,
           svc.playing => svc.focus = "held",
           svc.playing = mobService.playing, svc.blamed = mobService.blamed,
           svc.focus \in {mobService.focus, "held"},
           StartLive(svc, rest), UNCHANGED <<mobEnded, mobEngine>>, mobLoaded => mobLoaded'
    PROVE  /\ mobService' \in Service
           /\ mobWorker' \in Seq(Station)
           /\ mobService'.station = svc.station
           /\ EngineFollows' /\ SilentEnds'
           /\ mobIntents' \in {rest, Append(rest, [act |-> "destroy", st |-> NoStation])}
  <1>1. CASE svc.station = NoStation
    <2> DEFINE off == [svc EXCEPT !.station = NoStation]
    <2>1. off = svc
      BY <1>1 DEF Service
    <2>2. Paused(svc, TRUE)
      BY <1>1, <2>1 DEF StartLive, Shutdown
    <2> QED BY <1>1, <2>2, ServiceStep DEF StartLive, Shutdown
  <1>2. CASE /\ svc.station # NoStation
             /\ mobService' = [svc EXCEPT !.playing = TRUE, !.blamed = FALSE,
                                          !.focus = "held"]
             /\ Work(svc.station) /\ mobIntents' = rest
    <2>1. /\ mobService' \in Service
          /\ mobService'.station = svc.station /\ mobService'.playing
          /\ mobService'.focus = "held" /\ ~mobService'.blamed
      BY <1>2 DEF Service
    <2>2. svc.station \in Station
      BY DEF Service
    <2>3. \A cmd : cmd = svc.station => IF mobService'.blamed
            THEN cmd = NoStation \/ (cmd = mobService'.station /\ mobService'.focus = "held")
            ELSE cmd = IF mobService'.playing THEN mobService'.station ELSE NoStation
      BY <2>1
    <2>4. PICK st \in Station : st = svc.station
      BY <2>2
    <2>5. Meant(st)'
      BY <2>3, <2>4 DEF Meant
    <2>6. MobTypeOK /\ SilentEnds /\ Work(st)
      BY <1>2, <2>4 DEF PlayerInv
    <2>7. mobWorker' \in Seq(Station) /\ EngineFollows' /\ SilentEnds'
      BY <2>1, <2>5, <2>6, SentIsMeant
    <2> QED BY <1>2, <2>1, <2>7
  <1>3. CASE /\ svc.station # NoStation /\ svc.focus # "held"
             /\ mobService' = svc /\ UNCHANGED mobWorker /\ mobIntents' = rest
    <2>1. svc.focus = mobService.focus /\ ~svc.playing
      BY <1>3
    <2>2. \A cmd : Meant(cmd) => cmd = NoStation
      BY <1>3, <2>1 DEF Meant
    <2>3. EngineFollows'
      BY <1>3, <2>1, <2>2 DEF PlayerInv, EngineFollows, Meant, WorkersIdle
    <2>4. SilentEnds'
      BY DEF PlayerInv, SilentEnds
    <2> QED BY <1>3, <2>3, <2>4 DEF PlayerInv, MobTypeOK
  <1> QED BY <1>1, <1>2, <1>3 DEF StartLive

\* The last station posted is where it was, one place further to the front, or it is the
\* one that has been taken.
LEMMA TakenStation ==
    ASSUME PlayerInv, mobIntents # <<>>,
           mobIntents' \in {Tail(mobIntents),
                            Append(Tail(mobIntents), [act |-> "destroy", st |-> NoStation])},
           mobSaved' = IF mobIntents[1].act = "playStation" THEN mobIntents[1].st
                                                            ELSE mobSaved,
           mobService'.station \in {NoStation, mobSaved'},
           UNCHANGED mobSent
    PROVE  StationIsLatest'
  <1>1. PICK k \in 0..Len(mobIntents) :
          /\ k = 0 => mobSaved = mobSent
          /\ k > 0 => mobIntents[k].act = "playStation" /\ mobIntents[k].st = mobSent
          /\ \A j \in (k + 1)..Len(mobIntents) : mobIntents[j].act # "playStation"
    BY DEF PlayerInv, StationIsLatest
  <1> DEFINE m == IF k = 0 THEN 0 ELSE k - 1
  <1>2. m \in 0..Len(mobIntents')
    BY Taken
  <1>3. m = 0 => mobSaved' = mobSent'
    BY <1>1, Taken
  <1>4. m > 0 => mobIntents'[m].act = "playStation" /\ mobIntents'[m].st = mobSent'
    BY <1>1, Taken
  <1>5. ASSUME NEW j \in (m + 1)..Len(mobIntents') PROVE mobIntents'[j].act # "playStation"
    <2>1. CASE j = Len(mobIntents)
      BY <1>5, <2>1, Taken
    <2>2. CASE j # Len(mobIntents)
      BY <1>1, <1>5, <2>2, Taken
    <2> QED BY <2>1, <2>2
  <1> QED BY <1>2, <1>3, <1>4, <1>5 DEF StationIsLatest

\* The intent that asks for silence moves up, or it has been carried out.
LEMMA TakenSilence ==
    ASSUME PlayerInv, mobIntents # <<>>,
           mobIntents' \in {Tail(mobIntents),
                            Append(Tail(mobIntents), [act |-> "destroy", st |-> NoStation])},
           mobIntents[1].act \in {"pause", "stop", "destroy"} => mobService'.focus = "none",
           UNCHANGED <<mobWish, mobSent>>
    PROVE  SilenceIsAsked'
  <1> SUFFICES ASSUME mobWish = NoStation, mobSent # NoStation
               PROVE  SilenceIsAsked'
    BY DEF SilenceIsAsked
  <1>1. PICK k \in 0..Len(mobIntents) :
            /\ k = 0 => mobService.focus = "none"
            /\ k > 0 => mobIntents[k].act \in {"pause", "stop", "destroy"}
            /\ \A j \in (k + 1)..Len(mobIntents) :
                  mobIntents[j].act \in {"pause", "stop", "destroy"}
    BY DEF PlayerInv, SilenceIsAsked
  <1> DEFINE m == IF k = 0 THEN 0 ELSE k - 1
  <1>2. m \in 0..Len(mobIntents')
    BY Taken
  <1>3. m = 0 => mobService'.focus = "none"
    BY <1>1, Taken
  <1>4. m > 0 => mobIntents'[m].act \in {"pause", "stop", "destroy"}
    BY <1>1, Taken
  <1>5. ASSUME NEW j \in (m + 1)..Len(mobIntents')
        PROVE  mobIntents'[j].act \in {"pause", "stop", "destroy"}
    <2>1. CASE j = Len(mobIntents)
      BY <1>5, <2>1, Taken
    <2>2. CASE j # Len(mobIntents)
      BY <1>1, <1>5, <2>2, Taken, SMTT(40)
    <2> QED BY <2>1, <2>2
  <1> QED BY <1>2, <1>3, <1>4, <1>5 DEF SilenceIsAsked

\* onStartCommand, intent by intent.
LEMMA ServeInv ==
    ASSUME PlayerInv, Serve PROVE PlayerInv'
  <1> DEFINE intent == Head(mobIntents)
             rest   == Tail(mobIntents)
             svc    == [mobService EXCEPT !.on = TRUE]
             d      == [act |-> "destroy", st |-> NoStation]
  <1>1. /\ mobIntents # <<>> /\ intent = mobIntents[1] /\ intent \in Intent
        /\ intent.act # "destroy"
        /\ UNCHANGED <<mobPlays, mobFailures, mobEnded, mobEngine, mobWish, mobSent>>
        /\ mobLoaded => mobLoaded'
    BY DEF Serve, PlayerInv, MobTypeOK
  <1>2. intent.act \in {"playStation", "play", "pause", "stop"} /\ intent.st \in Station
    BY <1>1 DEF Intent
  <1>3. /\ svc \in Service /\ svc.station = mobService.station
        /\ svc.playing = mobService.playing /\ svc.focus = mobService.focus
        /\ svc.blamed = mobService.blamed
    BY DEF Service, PlayerInv, MobTypeOK
  <1>4. mobService.playing => mobService.focus = "held"
    BY DEF PlayerInv, EngineFollows
  <1>5. mobSaved \in Station /\ mobService.station \in {NoStation, mobSaved}
    BY DEF PlayerInv, MobTypeOK, StationIsLatest
  <1> SUFFICES /\ mobService' \in Service /\ mobWorker' \in Seq(Station)
               /\ EngineFollows' /\ SilentEnds'
               /\ mobIntents' \in {rest, Append(rest, d)}
               /\ mobSaved' = IF intent.act = "playStation" THEN intent.st ELSE mobSaved
               /\ mobService'.station \in {NoStation, mobSaved'}
               /\ intent.act \in {"pause", "stop", "destroy"} => mobService'.focus = "none"
    <2> HIDE DEF svc
    <2>1. StationIsLatest' /\ SilenceIsAsked'
      BY <1>1, TakenStation, TakenSilence
    <2>2. mobIntents' \in Seq(Intent)
      BY <1>1, Taken
    <2>3. WishIsAsked'
      BY <1>1 DEF PlayerInv, WishIsAsked
    <2>4. mobSaved' \in Station
      BY <1>5, <1>2
    <2>5. MobTypeOK'
      BY <1>1, <2>2, <2>4 DEF PlayerInv, MobTypeOK
    <2> QED BY <2>1, <2>3, <2>5 DEF PlayerInv
  <1> HIDE DEF svc, intent, rest, d
  <1>6. CASE intent.act = "playStation"
    <2> DEFINE to == [svc EXCEPT !.station = intent.st]
    <2>1. /\ to \in Service /\ to.station = intent.st /\ to.blamed = mobService.blamed
          /\ to.playing = mobService.playing /\ to.focus = mobService.focus
      BY <1>3, <1>2 DEF Service
    <2>2. mobSaved' = intent.st /\ StartLive(to, rest)
      BY <1>6 DEF Serve, svc, intent, rest
    <2> HIDE DEF to
    <2> QED BY <1>1, <1>4, <1>6, <2>1, <2>2, StartLiveStep DEF d
  <1>7. CASE intent.act = "play"
    <2> DEFINE st == IF svc.station = NoStation THEN mobSaved ELSE svc.station
               to == [svc EXCEPT !.station = st]
    <2>1. /\ to \in Service /\ to.station = st /\ st \in {NoStation, mobSaved}
          /\ to.playing = mobService.playing /\ to.focus = mobService.focus
          /\ to.blamed = mobService.blamed
      BY <1>3, <1>5 DEF Service
    <2>2. UNCHANGED mobSaved /\ StartLive(to, rest)
      BY <1>7 DEF Serve, svc, intent, rest
    <2> HIDE DEF to, st
    <2> QED BY <1>1, <1>4, <1>7, <2>1, <2>2, StartLiveStep DEF d
  <1>8. CASE intent.act = "pause"
    <2> DEFINE to == [svc EXCEPT !.resume = FALSE]
    <2>1. to \in Service /\ to.station = mobService.station
      BY <1>3 DEF Service
    <2>2. UNCHANGED mobSaved /\ Paused(to, TRUE) /\ mobIntents' = rest
      BY <1>8 DEF Serve, svc, intent, rest
    <2> HIDE DEF to
    <2> QED BY <1>1, <1>5, <1>8, <2>1, <2>2, ServiceStep
  <1>9. CASE intent.act = "stop"
    <2> DEFINE to == [svc EXCEPT !.station = NoStation]
    <2>1. to \in Service /\ to.station = NoStation
      BY <1>3 DEF Service, Station
    <2>2. UNCHANGED mobSaved /\ Paused(to, TRUE) /\ mobIntents' = Append(rest, d)
      BY <1>9 DEF Serve, Shutdown, svc, intent, rest, d
    <2> HIDE DEF to
    <2> QED BY <1>1, <1>9, <2>1, <2>2, ServiceStep
  <1> QED BY <1>2, <1>6, <1>7, <1>8, <1>9

\* onDestroy: the service is gone, its worker ends with a stop.
LEMMA DestroyInv ==
    ASSUME PlayerInv, Destroy PROVE PlayerInv'
  <1>1. /\ mobIntents # <<>> /\ mobIntents' = Tail(mobIntents)
        /\ mobIntents[1].act = "destroy"
        /\ mobService' = Off /\ mobWorker' = <<>>
        /\ mobEnded' = Append(mobEnded, Append(mobWorker, NoStation))
        /\ UNCHANGED <<mobPlays, mobLoaded, mobEngine, mobSaved, mobWish, mobSent>>
    BY DEF Destroy, PlayerInv, MobTypeOK
  <1>2. /\ Off \in Service /\ Off.station = NoStation /\ ~Off.playing /\ ~Off.blamed
        /\ Off.focus = "none"
    BY DEF Off, Service, Station
  <1>2a. mobWorker \in Seq(Station) /\ NoStation \in Station
    BY DEF PlayerInv, MobTypeOK, Station
  <1>2b. /\ Append(mobWorker, NoStation) \in Seq(Station)
         /\ Len(Append(mobWorker, NoStation)) = Len(mobWorker) + 1
         /\ Append(mobWorker, NoStation)[Len(mobWorker) + 1] = NoStation
         /\ Len(mobWorker) \in Nat
    BY <1>2a
  <1>3. PICK q \in Seq(Station) : q = Append(mobWorker, NoStation)
    BY <1>2b, Zenon
  <1>4. q # <<>> /\ q[Len(q)] = NoStation
    <2>1. Len(q) = Len(mobWorker) + 1 /\ q[Len(q)] = NoStation
      BY <1>2b, <1>3, Zenon
    <2> QED BY <1>2b, <2>1
  <1>5. /\ mobEnded' \in Seq(Seq(Station)) /\ Len(mobEnded') = Len(mobEnded) + 1
        /\ Len(mobEnded) \in Nat
        /\ mobEnded'[Len(mobEnded) + 1] = q
        /\ \A k \in 1..Len(mobEnded) : mobEnded'[k] = mobEnded[k]
    BY <1>1, <1>3 DEF PlayerInv, MobTypeOK
  <1>6. DOMAIN mobEnded = 1..Len(mobEnded) /\ DOMAIN mobEnded' = 1..(Len(mobEnded) + 1)
    BY <1>5 DEF PlayerInv, MobTypeOK
  <1>7. SilentEnds'
    BY <1>1, <1>4, <1>5, <1>6 DEF PlayerInv, SilentEnds
  <1>8. EngineFollows'
    <2>1. ~WorkersIdle'
      BY <1>4, <1>5, <1>6 DEF WorkersIdle
    <2> QED BY <1>1, <1>2, <2>1 DEF EngineFollows
  <1>9. StationIsLatest' /\ SilenceIsAsked'
    <2>1. mobSaved' = IF mobIntents[1].act = "playStation" THEN mobIntents[1].st
                                                           ELSE mobSaved
      BY <1>1
    <2>2. mobService'.station \in {NoStation, mobSaved'} /\ mobService'.focus = "none"
      BY <1>1, <1>2
    <2> QED BY <1>1, <2>1, <2>2, TakenStation, TakenSilence
  <1>10. MobTypeOK'
    <2>1. mobIntents' \in Seq(Intent)
      BY <1>1 DEF PlayerInv, MobTypeOK
    <2> QED BY <1>1, <1>2, <1>5, <2>1 DEF PlayerInv, MobTypeOK
  <1> QED BY <1>1, <1>7, <1>8, <1>9, <1>10 DEF PlayerInv, WishIsAsked

\* Whatever makes the service pause or play without an intent, the intents stay where
\* they are, but for the end of the service that shutdown adds behind them.
LEMMA BesideIntents ==
    ASSUME PlayerInv,
           mobIntents' \in {mobIntents,
                            Append(mobIntents, [act |-> "destroy", st |-> NoStation])},
           mobService'.station \in {NoStation, mobService.station},
           UNCHANGED <<mobSaved, mobSent>>
    PROVE  /\ mobIntents' \in Seq(Intent) /\ StationIsLatest'
           /\ mobIntents' # mobIntents => SilenceIsAsked'
           /\ (/\ UNCHANGED <<mobWish, mobIntents>>
               /\ mobIntents # <<>> \/ mobService'.focus \in {mobService.focus, "none"})
                 => SilenceIsAsked'
  <1>1. CASE mobIntents' = mobIntents
    <2>1. mobIntents' \in Seq(Intent) /\ StationIsLatest'
      BY <1>1 DEF PlayerInv, MobTypeOK, StationIsLatest
    <2>2. ASSUME UNCHANGED <<mobWish, mobIntents>>,
                 mobIntents # <<>> \/ mobService'.focus \in {mobService.focus, "none"},
                 mobWish = NoStation, mobSent # NoStation
          PROVE  SilenceIsAsked'
      <3>1. PICK k \in 0..Len(mobIntents) :
                /\ k = 0 => mobService.focus = "none"
                /\ k > 0 => mobIntents[k].act \in {"pause", "stop", "destroy"}
                /\ \A j \in (k + 1)..Len(mobIntents) :
                      mobIntents[j].act \in {"pause", "stop", "destroy"}
        BY <2>2 DEF PlayerInv, SilenceIsAsked
      <3>2. Len(mobIntents) \in Nat /\ (mobIntents # <<>> => Len(mobIntents) > 0)
        BY DEF PlayerInv, MobTypeOK
      <3>3. CASE k > 0 \/ mobService'.focus = "none"
        BY <1>1, <2>2, <3>1, <3>3 DEF SilenceIsAsked
      <3>4. CASE k = 0 /\ mobService'.focus # "none"
        <4>1. Len(mobIntents) > 0
          BY <2>2, <3>1, <3>2, <3>4
        <4>2. 1 \in 0..Len(mobIntents) /\ mobIntents[1].act \in {"pause", "stop", "destroy"}
          BY <3>1, <3>2, <3>4, <4>1
        <4>3. \A j \in 2..Len(mobIntents) : mobIntents[j].act \in {"pause", "stop", "destroy"}
          BY <3>1, <3>2, <3>4
        <4> QED BY <1>1, <4>2, <4>3 DEF SilenceIsAsked
      <3> QED BY <3>1, <3>3, <3>4
    <2>3. (mobWish # NoStation \/ mobSent = NoStation) /\ UNCHANGED <<mobWish, mobIntents>>
             => SilenceIsAsked'
      BY DEF SilenceIsAsked
    <2> QED BY <1>1, <2>1, <2>2, <2>3
  <1>2. CASE mobIntents' = Append(mobIntents, [act |-> "destroy", st |-> NoStation])
    <2> DEFINE d == [act |-> "destroy", st |-> NoStation]
    <2>1. d \in Intent /\ d.act = "destroy"
      BY DEF Intent, Station
    <2> HIDE DEF d
    <2>2. /\ mobIntents' \in Seq(Intent) /\ Len(mobIntents) \in Nat
          /\ Len(mobIntents') = Len(mobIntents) + 1
          /\ mobIntents'[Len(mobIntents) + 1] = d
          /\ \A j \in 1..Len(mobIntents) : mobIntents'[j] = mobIntents[j]
      BY <1>2, <2>1 DEF PlayerInv, MobTypeOK, d
    <2>3. SilenceIsAsked'
      BY <2>1, <2>2 DEF SilenceIsAsked
    <2>4. StationIsLatest'
      <3>1. PICK k \in 0..Len(mobIntents) :
              /\ k = 0 => mobSaved = mobSent
              /\ k > 0 => mobIntents[k].act = "playStation" /\ mobIntents[k].st = mobSent
              /\ \A j \in (k + 1)..Len(mobIntents) : mobIntents[j].act # "playStation"
        BY DEF PlayerInv, StationIsLatest
      <3>2. /\ k \in 0..Len(mobIntents')
            /\ k > 0 => mobIntents'[k].act = "playStation" /\ mobIntents'[k].st = mobSent
        BY <2>2, <3>1
      <3>3. ASSUME NEW j \in (k + 1)..Len(mobIntents') PROVE mobIntents'[j].act # "playStation"
        <4>1. CASE j = Len(mobIntents) + 1
          BY <2>1, <2>2, <4>1
        <4>2. CASE j # Len(mobIntents) + 1
          BY <2>2, <3>1, <3>3, <4>2
        <4> QED BY <4>1, <4>2
      <3>4. mobService'.station \in {NoStation, mobSaved'}
        BY DEF PlayerInv, StationIsLatest
      <3> QED BY <3>1, <3>2, <3>3, <3>4 DEF StationIsLatest
    <2>5. mobIntents' # mobIntents
      BY <2>2
    <2> QED BY <2>2, <2>3, <2>4, <2>5
  <1> QED BY <1>1, <1>2

\* What is left to show of such a step.
LEMMA BesideInv ==
    ASSUME PlayerInv, UNCHANGED <<mobPlays, engineVars, mobSaved, mobSent>>,
           mobService' \in Service, mobWorker' \in Seq(Station), EngineFollows', SilentEnds',
           mobIntents' \in Seq(Intent), StationIsLatest', SilenceIsAsked',
           \/ UNCHANGED mobWish
           \/ ~PlayUnderWay /\ mobWish' \in {mobSent, NoStation}
    PROVE  PlayerInv'
  <1>1. WishIsAsked' /\ mobWish' \in Station
    BY DEF PlayerInv, MobTypeOK, WishIsAsked, PlayUnderWay, Station
  <1>2. MobTypeOK'
    BY <1>1 DEF PlayerInv, MobTypeOK, engineVars
  <1> QED BY <1>1, <1>2 DEF PlayerInv

\* Without intents the service's station is the last one posted, or none.
LEMMA KnownStation ==
    ASSUME PlayerInv, mobIntents = <<>>
    PROVE  mobService.station \in {mobSent, NoStation}
  <1>1. Len(mobIntents) = 0
    OBVIOUS
  <1> QED BY <1>1 DEF PlayerInv, StationIsLatest

\* A pause from outside: other audio, the headphones, the watchdog, the media session.
LEMMA PausedInv ==
    ASSUME PlayerInv, NEW svc \in Service, NEW abandon \in BOOLEAN, Paused(svc, abandon),
           svc.station = mobService.station,
           abandon \/ mobService.focus # "none",
           UNCHANGED <<mobPlays, mobIntents, engineVars, mobSaved, mobSent>>,
           \/ UNCHANGED mobWish
           \/ /\ abandon
              /\ mobWish' = IF PlayUnderWay \/ mobIntents # <<>> THEN mobWish ELSE NoStation
    PROVE  PlayerInv'
  <1>1. /\ mobService' \in Service /\ mobWorker' \in Seq(Station)
        /\ mobService'.station = mobService.station
        /\ abandon => mobService'.focus = "none"
        /\ EngineFollows' /\ SilentEnds'
    BY ServiceStep DEF engineVars
  <1>2. mobIntents' \in Seq(Intent) /\ StationIsLatest'
    BY <1>1 DEF PlayerInv, MobTypeOK, StationIsLatest
  <1>3. SilenceIsAsked'
    <2>1. CASE UNCHANGED mobWish
      BY <1>1, <2>1 DEF PlayerInv, SilenceIsAsked
    <2>2. CASE ~(UNCHANGED mobWish)
      <3>1. mobIntents' = <<>> /\ mobService'.focus = "none"
        BY <1>1, <2>2
      <3>2. Len(mobIntents') = 0 /\ 0 \in 0..Len(mobIntents')
        BY <3>1
      <3> QED BY <3>1, <3>2 DEF SilenceIsAsked
    <2> QED BY <2>1, <2>2
  <1> QED BY <1>1, <1>2, <1>3, BesideInv

LEMMA FocusInv ==
    ASSUME PlayerInv, \/ \E transient \in BOOLEAN : FocusLost(transient)
                      \/ Unplugged \/ NoResponse
    PROVE  PlayerInv'
  <1>0. mobService \in Service /\ (mobService.playing => mobService.focus = "held")
    BY DEF PlayerInv, MobTypeOK, EngineFollows
  <1>1. ASSUME NEW transient \in BOOLEAN, FocusLost(transient) PROVE PlayerInv'
    <2> DEFINE svc == [mobService EXCEPT !.resume = transient /\ mobService.playing,
                                         !.focus = "lent"]
    <2>1. /\ Paused(svc, ~transient) /\ mobService.focus # "none"
          /\ UNCHANGED <<mobPlays, mobIntents, engineVars, mobSaved, mobSent, mobWish>>
      BY <1>1 DEF FocusLost
    <2>2. svc \in Service /\ svc.station = mobService.station
      BY <1>0 DEF Service
    <2> HIDE DEF svc
    <2> QED BY <2>1, <2>2, PausedInv
  <1>2. CASE Unplugged
    <2> DEFINE svc == [mobService EXCEPT !.resume = FALSE]
    <2>1. /\ Paused(svc, TRUE)
          /\ mobWish' = IF PlayUnderWay \/ mobIntents # <<>> THEN mobWish ELSE NoStation
          /\ UNCHANGED <<mobPlays, mobIntents, engineVars, mobSaved, mobSent>>
      BY <1>2 DEF Unplugged
    <2>2. svc \in Service /\ svc.station = mobService.station
      BY <1>0 DEF Service
    <2> HIDE DEF svc
    <2> QED BY <2>1, <2>2, PausedInv
  <1>3. CASE NoResponse
    BY <1>0, <1>3, PausedInv DEF NoResponse
  <1> QED BY <1>1, <1>2, <1>3

\* The media session's controls.
LEMMA SessionInv ==
    ASSUME PlayerInv, NEW action \in {"play", "pause", "stop"}, Session(action)
    PROVE  PlayerInv'
  <1>0. /\ mobService \in Service /\ (mobService.playing => mobService.focus = "held")
        /\ UNCHANGED <<mobPlays, engineVars, mobSaved, mobSent>>
        /\ mobWish' = IF PlayUnderWay \/ mobIntents # <<>> THEN mobWish
                      ELSE IF action = "play" THEN mobService.station ELSE NoStation
    BY DEF Session, PlayerInv, MobTypeOK, EngineFollows
  <1>1. CASE action = "pause"
    <2> DEFINE svc == [mobService EXCEPT !.resume = FALSE]
    <2>1. Paused(svc, TRUE) /\ UNCHANGED mobIntents
      BY <1>1 DEF Session
    <2>2. svc \in Service /\ svc.station = mobService.station
      BY <1>0 DEF Service
    <2> HIDE DEF svc
    <2> QED BY <1>0, <1>1, <2>1, <2>2, PausedInv
  <1>2. CASE action = "stop"
    <2> DEFINE svc == [mobService EXCEPT !.station = NoStation]
    <2>1. /\ Paused(svc, TRUE)
          /\ mobIntents' = Append(mobIntents, [act |-> "destroy", st |-> NoStation])
      BY <1>2 DEF Session, Shutdown
    <2>2. svc \in Service /\ svc.station = NoStation
      BY <1>0 DEF Service, Station
    <2> HIDE DEF svc
    <2>3. /\ mobService' \in Service /\ mobWorker' \in Seq(Station)
          /\ mobService'.station = NoStation /\ EngineFollows' /\ SilentEnds'
      BY <1>0, <2>1, <2>2, ServiceStep DEF engineVars
    <2>4. mobIntents' # mobIntents
      BY <2>1 DEF PlayerInv, MobTypeOK
    <2>5. mobIntents' \in Seq(Intent) /\ StationIsLatest' /\ SilenceIsAsked'
      BY <1>0, <2>1, <2>3, <2>4, BesideIntents
    <2> QED BY <1>0, <1>2, <2>3, <2>5, BesideInv
  <1>3. CASE action = "play"
    <2>1. StartLive(mobService, mobIntents)
      BY <1>3 DEF Session
    <2>2. /\ mobService' \in Service /\ mobWorker' \in Seq(Station)
          /\ mobService'.station = mobService.station /\ EngineFollows' /\ SilentEnds'
          /\ mobIntents' \in {mobIntents,
                              Append(mobIntents, [act |-> "destroy", st |-> NoStation])}
      BY <1>0, <2>1, StartLiveStep DEF engineVars
    <2>3. mobIntents' \in Seq(Intent) /\ StationIsLatest'
      BY <1>0, <2>2, BesideIntents
    <2>4. \/ UNCHANGED mobWish
          \/ ~PlayUnderWay /\ mobWish' \in {mobSent, NoStation}
      BY <1>0, KnownStation
    <2>5. SilenceIsAsked'
      <3>1. CASE mobIntents' # mobIntents
        BY <1>0, <2>2, <3>1, BesideIntents
      <3>2. CASE mobIntents' = mobIntents /\ mobIntents # <<>>
        BY <1>0, <2>2, <3>2, BesideIntents
      <3>3. CASE mobIntents' = mobIntents /\ mobIntents = <<>>
        <4>1. CASE mobService.station = NoStation
          BY <2>1, <3>3, <4>1 DEF StartLive, Shutdown, PlayerInv, MobTypeOK
        <4>2. CASE mobService.station # NoStation
          <5>1. PlayUnderWay => mobWish \in MobStation
            BY DEF PlayerInv, MobTypeOK, WishIsAsked, PlayUnderWay
          <5>2. mobWish' # NoStation
            BY <1>0, <1>3, <3>3, <4>2, <5>1, MobNoStation
          <5> QED BY <5>2 DEF SilenceIsAsked
        <4> QED BY <4>1, <4>2
      <3> QED BY <2>2, <3>1, <3>2, <3>3
    <2> QED BY <1>0, <2>2, <2>3, <2>4, <2>5, BesideInv
  <1> QED BY <1>1, <1>2, <1>3

\* The focus comes back: the service resumes, shuts down or stays silent.
LEMMA FocusBackInv ==
    ASSUME PlayerInv, FocusBack PROVE PlayerInv'
  <1>0. /\ mobService \in Service /\ mobService.focus = "lent" /\ ~mobService.playing
        /\ UNCHANGED <<mobPlays, engineVars, mobSaved, mobWish, mobSent>>
    BY DEF PlayerInv, MobTypeOK, EngineFollows, FocusBack
  <1>1. \/ mobIntents' = mobIntents
        \/ mobIntents' = Append(mobIntents, [act |-> "destroy", st |-> NoStation])
    <2>1. CASE mobService.resume
      BY <2>1 DEF FocusBack, StartLive, Shutdown
    <2>2. CASE ~mobService.resume
      BY <2>2 DEF FocusBack
    <2> QED BY <2>1, <2>2
  <1>2. /\ mobService' \in Service /\ mobWorker' \in Seq(Station)
        /\ mobService'.station = mobService.station /\ EngineFollows' /\ SilentEnds'
    <2>1. CASE mobService.resume
      <3> DEFINE svc == [mobService EXCEPT !.resume = FALSE, !.focus = "held"]
      <3>1. /\ svc \in Service /\ svc.station = mobService.station
            /\ svc.playing = mobService.playing /\ svc.focus = "held"
            /\ svc.blamed = mobService.blamed
        BY <1>0 DEF Service
      <3>2. StartLive(svc, mobIntents)
        BY <2>1 DEF FocusBack
      <3> HIDE DEF svc
      <3> QED BY <1>0, <3>1, <3>2, StartLiveStep DEF engineVars
    <2>2. CASE ~mobService.resume
      <3>1. mobService' = [mobService EXCEPT !.focus = "held"] /\ UNCHANGED mobWorker
        BY <2>2 DEF FocusBack
      <3>2. /\ mobService' \in Service /\ mobService'.station = mobService.station
            /\ ~mobService'.playing
        BY <1>0, <3>1 DEF Service
      <3>3. \A cmd : Meant(cmd) => cmd = NoStation
        BY <1>0 DEF Meant
      <3>4. EngineFollows'
        BY <1>0, <3>1, <3>2, <3>3 DEF PlayerInv, EngineFollows, Meant, WorkersIdle, engineVars
      <3>5. SilentEnds'
        BY <1>0 DEF PlayerInv, SilentEnds, engineVars
      <3> QED BY <3>1, <3>2, <3>4, <3>5 DEF PlayerInv, MobTypeOK
    <2> QED BY <2>1, <2>2
  <1>3. mobIntents' \in Seq(Intent) /\ StationIsLatest'
    BY <1>0, <1>1, <1>2, BesideIntents
  <1>4. SilenceIsAsked'
    <2>1. CASE mobIntents' = mobIntents
      BY <1>0, <2>1 DEF PlayerInv, SilenceIsAsked
    <2>2. CASE mobIntents' # mobIntents
      BY <1>0, <1>1, <1>2, <2>2, BesideIntents
    <2> QED BY <2>1, <2>2
  <1> QED BY <1>0, <1>2, <1>3, <1>4, BesideInv

\* Nothing but the last station wished for is heard, however plays, intents, focus, failing
\* commands and the workers of several services overtake one another.
THEOREM LastWishIsHeard == MobSpec => []LastWishHeard
  <1>1. MobInit => PlayerInv
    <2> SUFFICES ASSUME MobInit PROVE PlayerInv
      OBVIOUS
    <2>1. mobIntents = <<>> /\ mobWorker = <<>> /\ mobEnded = <<>> /\ Len(mobIntents) = 0
      BY DEF MobInit
    <2>2. Off \in Service /\ Off.station = NoStation /\ ~Off.playing
      BY DEF Off, Service, Station
    <2>3. EngineFollows /\ SilentEnds
      BY <2>1, <2>2 DEF MobInit, EngineFollows, SilentEnds
    <2> QED BY <2>1, <2>2, <2>3 DEF MobInit, PlayerInv, MobTypeOK, Station, StationIsLatest,
                                    WishIsAsked, SilenceIsAsked
  <1>2. PlayerInv /\ [MobNext]_mobVars => PlayerInv'
    <2> SUFFICES ASSUME PlayerInv, [MobNext]_mobVars PROVE PlayerInv'
      OBVIOUS
    <2>1. CASE UNCHANGED mobVars
      BY <2>1, ServiceAlone DEF mobVars, PlayerInv, MobTypeOK, StationIsLatest, WishIsAsked,
                                SilenceIsAsked
    <2> QED BY <2>1, PlayInv, ControlInv, SessionInv, ResolvedInv, UnresolvedInv, ServeInv,
               DestroyInv, DriveInv, DriveEndedInv, BlamedInv, FocusInv, FocusBackInv
            DEF MobNext
  <1>3. PlayerInv => LastWishHeard
    <2> SUFFICES ASSUME PlayerInv PROVE LastWishHeard
      OBVIOUS
    <2>1. NoStrayStream
      BY DEF PlayerInv, EngineFollows, Meant, NoStrayStream
    <2>2. ASSUME mobPlays = {}, mobIntents = <<>>, WorkersIdle
          PROVE  mobEngine \in {NoStation, mobWish}
      <3>1. Len(mobIntents) = 0
        BY <2>2
      <3>2. mobService.station \in {NoStation, mobSent}
        BY <2>2, KnownStation
      <3>3. mobWish \in {mobSent, NoStation}
        BY <2>2 DEF PlayerInv, WishIsAsked
      <3>4. mobWish = NoStation /\ mobSent # NoStation => mobService.focus = "none"
        BY <3>1 DEF PlayerInv, SilenceIsAsked
      <3>5. mobEngine # NoStation =>
               mobEngine = mobService.station /\ mobService.focus = "held"
        BY <2>2 DEF PlayerInv, EngineFollows, Meant
      <3> QED BY <3>2, <3>3, <3>4, <3>5
    <2> QED BY <2>1, <2>2 DEF LastWishHeard
  <1> QED BY <1>1, <1>2, <1>3, PTL DEF MobSpec

-----------------------------------------------------------------------------
(* The audio settings.                                                     *)

\* A save is due only for the account the settings were restored for, and is made out to
\* it; what the engine waits for ends with the settings shown, and nothing waits only if
\* it has them or its last call failed.
AudioInv ==
    /\ eqWrite \in [user : EqUser \cup {NoUser}, value : EqValue \cup {NoValue},
                    live : BOOLEAN, from : EqUser \cup {NoUser}]
    /\ eqUser \in EqUser \cup {NoUser} /\ eqFrom \in EqUser \cup {NoUser}
    /\ eqSettings \in EqValue \cup {NoValue}
    /\ eqRepo \in [EqUser -> EqValue \cup {NoValue}]
    /\ eqQueue \in Seq(EqValue \cup {NoValue})
    /\ eqRead \in {"fetching", "error"} => eqUser \in EqUser
    /\ eqRestored => eqFrom = eqUser
    /\ eqTimer = "save" => eqRestored
    /\ eqWrite.from = eqWrite.user
    /\ IF eqQueue = <<>> THEN eqDeaf \/ eqEngine = eqSettings
                         ELSE eqQueue[Len(eqQueue)] = eqSettings

\* Settings that change are the last ones on their way to the engine.
LEMMA ApplyInv ==
    ASSUME AudioInv, NEW v \in EqValue \cup {NoValue}, Apply(v), UNCHANGED <<eqEngine, eqDeaf>>
    PROVE  /\ eqSettings' \in EqValue \cup {NoValue}
           /\ eqQueue' \in Seq(EqValue \cup {NoValue})
           /\ (IF eqQueue = <<>> THEN eqDeaf \/ eqEngine = eqSettings
                                ELSE eqQueue[Len(eqQueue)] = eqSettings)'
  BY DEF AudioInv, Apply

\* Taking the first element of a sequence moves the others up.
LEMMA HeadRemoved ==
    ASSUME NEW S, NEW s \in Seq(S), s # <<>>
    PROVE  /\ RemoveAt(s, 1) \in Seq(S)
           /\ Len(RemoveAt(s, 1)) = Len(s) - 1
           /\ \A i \in 1..(Len(s) - 1) : RemoveAt(s, 1)[i] = s[i + 1]
  <1>1. SubSeq(s, 1, 1 - 1) = <<>>
    OBVIOUS
  <1>2. SubSeq(s, 1 + 1, Len(s)) = Tail(s)
    OBVIOUS
  <1>3. RemoveAt(s, 1) = Tail(s)
    BY <1>1, <1>2 DEF RemoveAt
  <1> QED BY <1>3

LEMMA AudioStarts == EqInit => AudioInv
  BY DEF EqInit, AudioInv, NoSave

LEMMA AudioSteps == AudioInv /\ [EqNext]_eqVars => AudioInv'
  <1> SUFFICES ASSUME AudioInv, [EqNext]_eqVars PROVE AudioInv'
    OBVIOUS
  <1>1. CASE LoadLocal
    BY <1>1, ApplyInv DEF LoadLocal, Effect, AudioInv
  <1>2. CASE SwitchUser
    <2>1. /\ eqUser' \in EqUser \cup {NoUser}
          /\ eqRead' \in {"fetching", "error"} => eqUser' \in EqUser
          /\ ~eqRestored'
          /\ UNCHANGED <<eqSettings, eqQueue, eqRepo, eqEngine, eqDeaf, eqFrom>>
      BY <1>2 DEF SwitchUser
    <2>2. eqTimer' # "save" /\ eqWrite' = [eqWrite EXCEPT !.live = FALSE]
      BY <1>2 DEF SwitchUser, Effect
    <2> QED BY <2>1, <2>2 DEF AudioInv
  <1>3. CASE Restore
    BY <1>3, ApplyInv DEF Restore, Effect, AudioInv
  <1>4. CASE RecordReadFails \/ RefetchRecord
    BY <1>4 DEF RecordReadFails, RefetchRecord, AudioInv
  <1>5. CASE EditSettings
    <2>1. PICK v \in EqValue : Apply(v)
      BY <1>5 DEF EditSettings
    <2>2. UNCHANGED <<eqUser, eqRestored, eqRead, eqRepo, eqEngine, eqDeaf, eqFrom>>
      BY <1>5 DEF EditSettings
    <2>3. Effect
      BY <1>5 DEF EditSettings
    <2> QED BY <2>1, <2>2, <2>3, ApplyInv DEF Effect, AudioInv
  <1>6. CASE SaveDue
    BY <1>6 DEF SaveDue, AudioInv
  <1>7. CASE Save
    BY <1>7 DEF Save, AudioInv, NoSave
  <1>8. CASE RetrySave
    BY <1>8 DEF RetrySave, Effect, AudioInv
  <1>9. CASE ApplyNext
    <2>1. /\ eqQueue # <<>> /\ eqQueue' = RemoveAt(eqQueue, 1)
          /\ eqDeaf' \/ eqEngine' = eqQueue[1]
      <3>1. PICK i \in NextSettings, ok \in BOOLEAN :
                /\ eqEngine' = IF ok THEN eqQueue[i] ELSE eqEngine
                /\ eqDeaf' = ~ok /\ eqQueue' = RemoveAt(eqQueue, i)
        BY <1>9 DEF ApplyNext
      <3>2. i = 1 /\ eqQueue # <<>>
        BY DEF NextSettings, AudioInv
      <3> QED BY <3>1, <3>2
    <2>2. /\ eqQueue' \in Seq(EqValue \cup {NoValue})
          /\ Len(eqQueue') = Len(eqQueue) - 1
          /\ \A i \in 1..(Len(eqQueue) - 1) : eqQueue'[i] = eqQueue[i + 1]
      BY <2>1, HeadRemoved DEF AudioInv
    <2>3. IF eqQueue' = <<>> THEN eqDeaf' \/ eqEngine' = eqSettings
                             ELSE eqQueue'[Len(eqQueue')] = eqSettings
      BY <2>1, <2>2 DEF AudioInv
    <2> QED BY <1>9, <2>2, <2>3 DEF ApplyNext, AudioInv
  <1>10. CASE UNCHANGED eqVars
    BY <1>10 DEF eqVars, AudioInv
  <1> QED BY <1>1, <1>2, <1>3, <1>4, <1>5, <1>6, <1>7, <1>8, <1>9, <1>10 DEF EqNext

\* A save is made out to the account its settings build on, and the engine ends with the
\* settings shown unless its last call failed, however accounts, reads, edits, writes and
\* failures interleave.
THEOREM SettingsHaveTheirOwner == EqSpec => []SettingsKeepTheirOwner
  <1>1. AudioInv => SettingsKeepTheirOwner
    BY DEF AudioInv, SettingsKeepTheirOwner
  <1> QED BY <1>1, AudioStarts, AudioSteps, PTL DEF EqSpec

\* An edit the record does not hold, and that was not taken back while it was written, is
\* not forgotten: a save or a look at it is due, or it is the one being written.
EditIsDue ==
    Kept /\ eqSettings # Recorded =>
        \/ eqTimer \in {"save", "retry"}
        \/ eqWrite.live /\ eqWrite.user = eqUser /\ eqWrite.value = eqSettings

\* The same of an edit lastSaved does not know of.
EditIsArmed ==
    eqRestored /\ eqEdited /\ eqSettings # eqSaved =>
        \/ eqTimer \in {"save", "retry"}
        \/ eqWrite.live /\ eqWrite.user = eqUser /\ eqWrite.value = eqSettings

\* And lastSaved tells the record, as far as every write to it was heard of.
SavedIsRecorded ==
    /\ eqRestored /\ ~eqUnheard => eqRepo[eqUser] \in {NoValue, eqSaved}
    /\ eqRestored /\ eqWrite.user = eqUser => eqUnheard

DueInv ==
    /\ AudioInv
    /\ eqRestored \/ eqRead \in {"fetching", "error"} => eqUser # NoUser /\ eqSettings # NoValue
    /\ EditIsArmed
    /\ SavedIsRecorded
    /\ eqUnheard \in BOOLEAN
    /\ eqWrite.live => eqWrite.user = eqUser /\ eqRestored

\* The effect that saves arms its timer for every edit it finds.
LEMMA EffectArms ==
    ASSUME AudioInv, Effect, eqRestored' => eqUser' # NoUser /\ eqSettings' # NoValue
    PROVE  EditIsArmed' /\ eqWrite'.live = FALSE
  BY DEF Effect, EditIsArmed, AudioInv

\* It leaves the writes' side as it is.
LEMMA EffectTells ==
    ASSUME DueInv, Effect, UNCHANGED <<eqRestored, eqUser, eqRepo, eqSaved, eqUnheard>>
    PROVE  SavedIsRecorded'
  BY DEF Effect, DueInv, SavedIsRecorded, AudioInv

LEMMA DueSteps == DueInv /\ [EqNext]_eqVars => DueInv'
  <1> SUFFICES ASSUME DueInv, [EqNext]_eqVars PROVE DueInv'
    OBVIOUS
  <1>1. AudioInv /\ AudioInv'
    BY AudioSteps DEF DueInv
  <1>2. CASE LoadLocal
    <2>1. PICK v \in EqValue : eqSettings' = v
      BY <1>2 DEF LoadLocal, Apply
    <2>2. ~eqRestored' /\ Effect /\ (eqRead' \in {"fetching", "error"} => eqUser' # NoUser)
      BY <1>2 DEF LoadLocal, DueInv
    <2>3. UNCHANGED eqUnheard
      BY <1>2 DEF LoadLocal
    <2> QED BY <1>1, <2>1, <2>2, <2>3, EffectArms, EqAssumption DEF DueInv, SavedIsRecorded
  <1>3. CASE SwitchUser
    <2>1. ~eqRestored' /\ Effect /\ UNCHANGED eqUnheard
      BY <1>3 DEF SwitchUser
    <2>2. eqRead' \in {"fetching", "error"} => eqUser' # NoUser /\ eqSettings' # NoValue
      BY <1>3 DEF SwitchUser
    <2> QED BY <1>1, <2>1, <2>2, EffectArms DEF DueInv, SavedIsRecorded
  <1>4. CASE Restore
    <2>1. eqUser' # NoUser /\ eqSettings' # NoValue /\ Effect
      BY <1>4 DEF Restore, Apply, DueInv
    <2>2. /\ eqUnheard' = (eqWrite.user = eqUser) /\ eqWrite'.user = eqWrite.user
          /\ eqRepo'[eqUser'] \in {NoValue, eqSaved'} /\ eqUser' = eqUser
      BY <1>1, <1>4 DEF Restore, Apply, Effect, AudioInv
    <2> QED BY <1>1, <2>1, <2>2, EffectArms DEF DueInv, SavedIsRecorded
  <1>5. CASE EditSettings
    <2>1. PICK v \in EqValue : eqSettings' = v
      BY <1>5 DEF EditSettings, Apply
    <2>2. Effect /\ UNCHANGED <<eqUser, eqRestored, eqRead, eqRepo, eqSaved, eqUnheard>>
      BY <1>5 DEF EditSettings
    <2> QED BY <1>1, <2>1, <2>2, EffectArms, EffectTells, EqAssumption DEF DueInv
  <1>6. CASE RetrySave
    <2>1. Effect /\ UNCHANGED <<eqUser, eqSettings, eqRestored, eqRead, eqRepo, eqSaved, eqUnheard>>
      BY <1>6 DEF RetrySave
    <2> QED BY <1>1, <2>1, EffectArms, EffectTells DEF DueInv
  <1>7. CASE SaveDue
    <2>1. eqRestored /\ eqUnheard' = TRUE
      BY <1>1, <1>7 DEF SaveDue, AudioInv
    <2>2. eqWrite' = [user |-> eqUser, value |-> eqSettings, live |-> TRUE, from |-> eqFrom]
      BY <1>7 DEF SaveDue
    <2>3. UNCHANGED <<eqUser, eqSettings, eqEdited, eqRead, eqRestored, eqSaved>>
      BY <1>7 DEF SaveDue
    <2> QED BY <1>1, <2>1, <2>2, <2>3 DEF DueInv, EditIsArmed, SavedIsRecorded
  <1>8. CASE Save
    <2>1. UNCHANGED <<eqUser, eqSettings, eqEdited, eqRead, eqRestored>>
      BY <1>8 DEF Save
    <2>2. EditIsArmed'
      <3>1. CASE eqWrite.live
        <4>1. eqTimer' = "retry"
          BY <1>8, <3>1 DEF Save
        <4> QED BY <2>1, <4>1 DEF EditIsArmed
      <3>2. CASE ~eqWrite.live
        <4>1. UNCHANGED <<eqTimer, eqSaved>>
          BY <1>8, <3>2 DEF Save, Written
        <4> QED BY <2>1, <3>2, <4>1 DEF DueInv, EditIsArmed
      <3> QED BY <3>1, <3>2
    <2>3. SavedIsRecorded'
      <3>1. eqWrite'.user = NoUser /\ (eqRestored => eqUser # NoUser)
        BY <1>8 DEF Save, NoSave, DueInv
      <3>2. SUFFICES ASSUME eqRestored, ~eqUnheard' PROVE eqRepo'[eqUser] \in {NoValue, eqSaved'}
        BY <2>1, <3>1 DEF SavedIsRecorded
      <3>3. CASE eqUnheard
        <4>1. eqWrite.live /\ eqSaved' = eqWrite.value /\ eqWrite.user # NoUser
          BY <1>8, <3>2, <3>3 DEF Save, Written
        <4>2. eqRepo' = [eqRepo EXCEPT ![eqWrite.user] = eqWrite.value]
          BY <1>8, <3>2, <3>3 DEF Save
        <4>3. eqWrite.user = eqUser
          BY <1>1, <3>2, <4>1 DEF DueInv
        <4> QED BY <1>1, <3>1, <3>2, <4>1, <4>2, <4>3 DEF AudioInv
      <3>4. CASE ~eqUnheard
        <4>1. eqWrite.user # eqUser /\ eqRepo[eqUser] \in {NoValue, eqSaved}
          BY <3>2, <3>4 DEF DueInv, SavedIsRecorded
        <4>2. eqRepo'[eqUser] = eqRepo[eqUser] /\ (~eqWrite.live => eqSaved' = eqSaved)
          BY <1>1, <1>8, <3>1, <3>2, <4>1 DEF Save, Written, AudioInv
        <4>3. ~eqWrite.live
          BY <3>2, <4>1 DEF DueInv
        <4> QED BY <4>1, <4>2, <4>3
      <3> QED BY <3>3, <3>4
    <2>4. eqUnheard' \in BOOLEAN
      BY <1>8 DEF Save
    <2>5. eqWrite'.live = FALSE
      BY <1>8 DEF Save, NoSave
    <2> QED BY <1>1, <2>1, <2>2, <2>3, <2>4, <2>5 DEF DueInv
  <1>9. CASE RecordReadFails \/ RefetchRecord
    <2>1. UNCHANGED <<eqUser, eqSettings, eqEdited, eqRestored, eqSaved, eqTimer, eqWrite, eqRepo, eqUnheard>>
      BY <1>9 DEF RecordReadFails, RefetchRecord
    <2>2. eqRead \in {"fetching", "error"}
      BY <1>9 DEF RecordReadFails, RefetchRecord
    <2> QED BY <1>1, <2>1, <2>2 DEF DueInv, EditIsArmed, SavedIsRecorded
  <1>10. CASE ApplyNext \/ UNCHANGED eqVars
    <2>1. UNCHANGED <<eqUser, eqSettings, eqEdited, eqRead, eqRestored, eqSaved, eqTimer, eqWrite, eqRepo, eqUnheard>>
      BY <1>10 DEF ApplyNext, eqVars
    <2> QED BY <1>1, <2>1 DEF DueInv, EditIsArmed, SavedIsRecorded
  <1> QED BY <1>2, <1>3, <1>4, <1>5, <1>6, <1>7, <1>8, <1>9, <1>10 DEF EqNext

\* While the settings differ from the record the saver is at work, unless they were taken
\* back during a write (AudioSettingsSync.tsx:118-160), through edits during a write,
\* accounts that change and writes that fail, having reached the record or not. With the
\* fairness of timers and requests this is why EditsAreSaved holds.
THEOREM EditsAreNotForgotten == EqSpec => []EditIsDue
  <1>1. EqInit => DueInv
    <2> SUFFICES ASSUME EqInit PROVE DueInv
      OBVIOUS
    <2>1. AudioInv
      BY AudioStarts
    <2>2. /\ eqRestored = FALSE /\ eqRead = "off" /\ eqUnheard = FALSE
          /\ eqWrite.live = FALSE
      BY DEF EqInit, NoSave
    <2> QED BY <2>1, <2>2 DEF DueInv, EditIsArmed, SavedIsRecorded
  <1>2. DueInv => EditIsDue
    BY DEF DueInv, EditIsDue, EditIsArmed, SavedIsRecorded, Kept, TakenBack, Recorded
  <1> QED BY <1>1, <1>2, DueSteps, PTL DEF EqSpec

-----------------------------------------------------------------------------
(* The hearts.                                                             *)

MfReads == [user : MfUser, live : BOOLEAN, read : BOOLEAN, list : SUBSET MfStation,
            sees : SUBSET MfStation]
MfToggles == [user : MfUser, st : MfStation, remove : BOOLEAN, before : SUBSET MfStation,
              step : {"sent", "written"}]

MfTypeOK ==
    /\ mfUser \in MfUser \cup {MfNoUser}
    /\ mfRepo \in [MfUser -> SUBSET MfStation]
    /\ mfCache \in [MfUser -> [has : BOOLEAN, list : SUBSET MfStation]]
    /\ mfFetch \subseteq MfReads
    /\ mfWrites \subseteq MfToggles
    /\ \A w \in mfLate : w.user \in MfUser /\ w.st \in MfStation /\ w.remove \in BOOLEAN

\* A station has one tap at a time.
OneTapEach == \A w1, w2 \in mfWrites : w1.user = w2.user /\ w1.st = w2.st => w1 = w2

\* A user has one list request at a time that will be heard.
OneLiveRead == \A f1, f2 \in mfFetch : f1.live /\ f2.live /\ f1.user = f2.user => f1 = f2

\* What it saw quiet still is, and the same.
SeenIsQuiet == \A f \in mfFetch : f.live /\ f.read => \A st \in f.sees :
    Quiet(f.user, st) /\ (st \in f.list <=> st \in mfRepo[f.user])

\* A request that will be heard has read what the repository still holds, but for the
\* stations whose tap has been carried out since, and those in doubt.
ReadsAreFresh == \A f \in mfFetch : f.live /\ f.read =>
    \A st \in MfStation :
        \/ \E w \in mfWrites : w.user = f.user /\ w.st = st /\ w.step = "written"
        \/ <<f.user, st>> \in mfDoubt
        \/ st \in f.list <=> st \in mfRepo[f.user]

\* A tap knows which way it turned the heart.
TapsAreTrue == \A w \in mfWrites : <<w.user, w.st>> \notin mfDoubt =>
    /\ (w.step = "sent") => (w.st \in mfRepo[w.user] <=> w.remove)
    /\ (w.step = "written") => (w.st \in mfRepo[w.user] <=> ~w.remove)

\* A tap whose list was removed is one of an account in doubt.
ListOrDoubt == \A w \in mfWrites :
    mfCache[w.user].has \/ \A st \in MfStation : <<w.user, st>> \in mfDoubt

LateInDoubt == \A w \in mfLate : <<w.user, w.st>> \in mfDoubt

\* A heart without a tap under way shows the repository, whatever the other hearts do.
QuietHeartsAreTrue == \A u \in MfUser, st \in MfStation :
    mfCache[u].has /\ <<u, st>> \notin mfDoubt =>
        \/ HeartPending(u, st)
        \/ st \in mfCache[u].list <=> st \in mfRepo[u]

HeartsInv ==
    /\ MfTypeOK /\ OneTapEach /\ OneLiveRead /\ SeenIsQuiet /\ ReadsAreFresh
    /\ TapsAreTrue /\ ListOrDoubt /\ LateInDoubt /\ QuietHeartsAreTrue

\* Cancelling the requests of a user leaves those of the others, which are heard.
LEMMA CancelledReads ==
    ASSUME MfTypeOK, NEW u \in MfUser
    PROVE  /\ ReadsCancelled(u) \subseteq MfReads
           /\ \A f \in ReadsCancelled(u) : f.live => f \in mfFetch /\ f.user # u
  <1>1. ASSUME NEW f \in mfFetch
        PROVE  LET c == [f EXCEPT !.live = @ /\ f.user # u]
               IN  c \in MfReads /\ (c.live => c = f /\ f.user # u)
    BY DEF MfTypeOK, MfReads
  <1> QED BY <1>1 DEF ReadsCancelled

\* What is said of the requests that will be heard stays true of fewer of them.
LEMMA FewerReads ==
    ASSUME HeartsInv, \A f \in mfFetch' : f.live => f \in mfFetch,
           UNCHANGED <<mfRepo, mfWrites, mfLate, mfDoubt>>
    PROVE  OneLiveRead' /\ SeenIsQuiet' /\ ReadsAreFresh'
  <1>1. OneLiveRead'
    BY DEF HeartsInv, OneLiveRead
  <1>2. SeenIsQuiet'
    BY DEF HeartsInv, SeenIsQuiet, Quiet, HeartPending
  <1>3. ReadsAreFresh'
    BY DEF HeartsInv, ReadsAreFresh
  <1> QED BY <1>1, <1>2, <1>3

\* A list request that reads the repository reads what is there.
LEMMA ListInv ==
    ASSUME HeartsInv, ListFavorites
    PROVE  HeartsInv'
  <1>1. PICK f \in mfFetch :
           mfFetch' = (mfFetch \ {f}) \cup
                  {[f EXCEPT !.read = TRUE, !.list = mfRepo[f.user],
                             !.sees = {st \in MfStation : Quiet(f.user, st)}]}
    BY DEF ListFavorites
  <1>2. UNCHANGED <<mfUser, mfRepo, mfCache, mfWrites, mfLate, mfDoubt>>
    BY DEF ListFavorites
  <1> DEFINE seen == {st \in MfStation : Quiet(f.user, st)}
  <1>3. seen \in SUBSET MfStation /\ \A st \in seen : Quiet(f.user, st)
    OBVIOUS
  <1> HIDE DEF seen
  <1> DEFINE g == [f EXCEPT !.read = TRUE, !.list = mfRepo[f.user], !.sees = seen]
  <1>4. /\ g \in MfReads /\ g.user = f.user /\ g.live = f.live
        /\ g.list = mfRepo[f.user] /\ g.sees = seen
    BY <1>3 DEF HeartsInv, MfTypeOK, MfReads
  <1>5. mfFetch' = (mfFetch \ {f}) \cup {g}
    BY <1>1 DEF seen
  <1> HIDE DEF g
  <1>6. MfTypeOK'
    BY <1>2, <1>4, <1>5 DEF HeartsInv, MfTypeOK
  <1>7. OneLiveRead'
    BY <1>4, <1>5 DEF HeartsInv, OneLiveRead
  <1>8. SeenIsQuiet'
    <2>1. ASSUME NEW h \in mfFetch', h.live, h.read, NEW st \in h.sees
          PROVE  Quiet(h.user, st) /\ (st \in h.list <=> st \in mfRepo[h.user])
      BY <1>3, <1>4, <1>5, <2>1 DEF HeartsInv, SeenIsQuiet
    <2> QED BY <1>2, <2>1 DEF SeenIsQuiet, Quiet, HeartPending
  <1>9. ReadsAreFresh'
    BY <1>2, <1>4, <1>5 DEF HeartsInv, ReadsAreFresh
  <1>10. OneTapEach' /\ TapsAreTrue' /\ ListOrDoubt' /\ LateInDoubt' /\ QuietHeartsAreTrue'
    BY <1>2 DEF HeartsInv, OneTapEach, TapsAreTrue, ListOrDoubt, LateInDoubt,
                QuietHeartsAreTrue, HeartPending
  <1> QED BY <1>6, <1>7, <1>8, <1>9, <1>10 DEF HeartsInv

\* Signing in, pulling to refresh and a lost request touch no list.
LEMMA SignInInv ==
    ASSUME HeartsInv, \/ \E u \in MfUser : FavoritesSignIn(u)
                      \/ RefetchFavorites \/ ListFails
    PROVE  HeartsInv'
  <1>1. mfUser' \in MfUser \cup {MfNoUser}
    BY DEF HeartsInv, MfTypeOK, FavoritesSignIn, RefetchFavorites, ListFails
  <1>2. UNCHANGED <<mfRepo, mfCache, mfWrites, mfLate, mfDoubt>>
    BY DEF FavoritesSignIn, RefetchFavorites, ListFails
  <1>3. \/ mfFetch' \subseteq mfFetch
        \/ \E u \in MfUser : ~InFlight(u) /\ mfFetch' = mfFetch \cup {Asking(u)}
    BY DEF HeartsInv, MfTypeOK, FavoritesSignIn, RefetchFavorites, ListFails
  <1>4. \A u \in MfUser : Asking(u) \in MfReads /\ ~Asking(u).read /\ Asking(u).user = u
    BY DEF Asking, MfReads
  <1>5. MfTypeOK'
    BY <1>1, <1>2, <1>3, <1>4 DEF HeartsInv, MfTypeOK
  <1>6. OneLiveRead'
    BY <1>3, <1>4 DEF HeartsInv, OneLiveRead, InFlight
  <1>7. SeenIsQuiet'
    BY <1>2, <1>3, <1>4 DEF HeartsInv, SeenIsQuiet, Quiet, HeartPending
  <1>8. ReadsAreFresh'
    BY <1>2, <1>3, <1>4 DEF HeartsInv, ReadsAreFresh
  <1>9. OneTapEach' /\ TapsAreTrue' /\ ListOrDoubt' /\ LateInDoubt' /\ QuietHeartsAreTrue'
    BY <1>2 DEF HeartsInv, OneTapEach, TapsAreTrue, ListOrDoubt, LateInDoubt,
                QuietHeartsAreTrue, HeartPending
  <1> QED BY <1>5, <1>6, <1>7, <1>8, <1>9 DEF HeartsInv

\* Signing out removes the lists, and leaves an account in doubt where a tap goes on.
LEMMA SignOutInv ==
    ASSUME HeartsInv, FavoritesSignOut
    PROVE  HeartsInv'
  <1>1. \A f \in mfFetch' : f \in MfReads /\ ~f.live
    <2>1. ASSUME NEW f \in mfFetch
          PROVE  [f EXCEPT !.live = FALSE] \in MfReads /\ ~[f EXCEPT !.live = FALSE].live
      <3>1. f \in MfReads
        BY DEF HeartsInv, MfTypeOK
      <3> QED BY <3>1 DEF MfReads
    <2>2. mfFetch' = {[f EXCEPT !.live = FALSE] : f \in mfFetch}
      BY DEF FavoritesSignOut
    <2> QED BY <2>1, <2>2, Zenon
  <1>2. mfCache' = [u \in MfUser |-> Uncached] /\ UNCHANGED <<mfRepo, mfWrites, mfLate>>
    BY DEF FavoritesSignOut
  <1>3. \A w \in mfWrites, st \in MfStation : <<w.user, st>> \in mfDoubt'
    BY DEF FavoritesSignOut
  <1>4. mfDoubt \subseteq mfDoubt'
    BY DEF FavoritesSignOut
  <1>5. MfTypeOK'
    BY <1>1, <1>2 DEF FavoritesSignOut, HeartsInv, MfTypeOK, Uncached
  <1>6. OneLiveRead' /\ SeenIsQuiet' /\ ReadsAreFresh'
    BY <1>1 DEF OneLiveRead, SeenIsQuiet, ReadsAreFresh
  <1>7. \A w \in mfWrites : w.st \in MfStation
    BY DEF HeartsInv, MfTypeOK, MfToggles
  <1>8. OneTapEach' /\ TapsAreTrue' /\ ListOrDoubt' /\ LateInDoubt'
    BY <1>2, <1>3, <1>4, <1>7 DEF HeartsInv, OneTapEach, TapsAreTrue, ListOrDoubt, LateInDoubt
  <1>9. QuietHeartsAreTrue'
    BY <1>2 DEF QuietHeartsAreTrue, Uncached
  <1> QED BY <1>5, <1>6, <1>8, <1>9 DEF HeartsInv

\* A list that arrives is right where nothing was carried out since it was read, and ends
\* the doubt about what it saw quiet.
LEMMA LoadedInv ==
    ASSUME HeartsInv, FavoritesLoaded
    PROVE  HeartsInv'
  <1>1. PICK f \in mfFetch :
           /\ f.read /\ mfFetch' = mfFetch \ {f}
           /\ IF f.live THEN SetCache(f.user, f.list) ELSE UNCHANGED mfCache
           /\ mfDoubt' = IF f.live THEN mfDoubt \ ({f.user} \X f.sees) ELSE mfDoubt
           /\ UNCHANGED <<mfUser, mfRepo, mfWrites, mfLate>>
    BY DEF FavoritesLoaded
  <1>2. f.user \in MfUser /\ f.list \in SUBSET MfStation
    BY DEF HeartsInv, MfTypeOK, MfReads
  <1>3. MfTypeOK'
    <2>1. mfCache' \in [MfUser -> [has : BOOLEAN, list : SUBSET MfStation]]
      <3>1. [has |-> TRUE, list |-> f.list] \in [has : BOOLEAN, list : SUBSET MfStation]
        BY <1>2
      <3>2. mfCache' \in {mfCache, [mfCache EXCEPT ![f.user] =
                                        [has |-> TRUE, list |-> f.list]]}
        BY <1>1 DEF SetCache
      <3> QED BY <3>1, <3>2 DEF HeartsInv, MfTypeOK
    <2> QED BY <1>1, <2>1 DEF HeartsInv, MfTypeOK
  <1>4. OneTapEach'
    BY <1>1 DEF HeartsInv, OneTapEach
  <1>5. CASE ~f.live
    <2>1. UNCHANGED <<mfCache, mfDoubt, mfRepo, mfWrites, mfLate>>
      BY <1>1, <1>5
    <2>2. OneLiveRead' /\ SeenIsQuiet' /\ ReadsAreFresh'
      BY <1>1, <2>1, FewerReads
    <2>3. TapsAreTrue' /\ ListOrDoubt' /\ LateInDoubt' /\ QuietHeartsAreTrue'
      BY <2>1 DEF HeartsInv, TapsAreTrue, ListOrDoubt, LateInDoubt, QuietHeartsAreTrue,
                  HeartPending
    <2> QED BY <1>3, <1>4, <2>2, <2>3 DEF HeartsInv
  <1>6. CASE f.live
    <2>1. /\ mfCache'[f.user].has /\ mfCache'[f.user].list = f.list
          /\ \A u \in MfUser \ {f.user} : mfCache'[u] = mfCache[u]
      BY <1>1, <1>2, <1>6 DEF SetCache, HeartsInv, MfTypeOK
    <2>2. \A u, st : <<u, st>> \in mfDoubt <=>
              <<u, st>> \in mfDoubt' \/ (u = f.user /\ st \in f.sees /\ <<u, st>> \in mfDoubt)
      BY <1>1, <1>6
    <2>3. \A st \in f.sees :
              Quiet(f.user, st) /\ (st \in f.list <=> st \in mfRepo[f.user])
      BY <1>1, <1>6 DEF HeartsInv, SeenIsQuiet
    <2>4. \A w \in mfWrites \cup mfLate : w.user = f.user => w.st \notin f.sees
      BY <2>3 DEF Quiet, HeartPending
    <2>5. OneLiveRead'
      BY <1>1 DEF HeartsInv, OneLiveRead
    <2>6. SeenIsQuiet'
      BY <1>1 DEF HeartsInv, SeenIsQuiet, Quiet, HeartPending
    <2>7. ReadsAreFresh'
      <3>1. \A g \in mfFetch' : g.live => g.user # f.user
        BY <1>1, <1>6 DEF HeartsInv, OneLiveRead
      <3> QED BY <1>1, <2>2, <3>1 DEF HeartsInv, ReadsAreFresh
    <2>8. TapsAreTrue' /\ LateInDoubt'
      BY <1>1, <2>2, <2>4 DEF HeartsInv, TapsAreTrue, LateInDoubt
    <2>9. ListOrDoubt'
      <3>1. \A w \in mfWrites : w.user \in MfUser
        BY DEF HeartsInv, MfTypeOK, MfToggles
      <3> QED BY <1>1, <2>1, <2>2, <3>1 DEF HeartsInv, ListOrDoubt
    <2>10. ASSUME NEW u \in MfUser, NEW st \in MfStation, mfCache'[u].has,
                  <<u, st>> \notin mfDoubt', ~HeartPending(u, st)
           PROVE  st \in mfCache'[u].list <=> st \in mfRepo[u]
      <3>1. CASE u # f.user
        BY <2>1, <2>2, <2>10, <3>1 DEF HeartsInv, QuietHeartsAreTrue
      <3>2. CASE u = f.user /\ st \in f.sees
        BY <2>1, <2>3, <3>2
      <3>3. CASE u = f.user /\ st \notin f.sees
        BY <1>1, <1>6, <2>1, <2>2, <2>10, <3>3 DEF HeartsInv, ReadsAreFresh, HeartPending
      <3> QED BY <3>1, <3>2, <3>3
    <2>11. QuietHeartsAreTrue'
      BY <1>1, <2>10 DEF QuietHeartsAreTrue, HeartPending
    <2> QED BY <1>3, <1>4, <2>5, <2>6, <2>7, <2>8, <2>9, <2>11 DEF HeartsInv
  <1> QED BY <1>2, <1>5, <1>6 DEF HeartsInv, MfTypeOK, MfReads

\* A tap knows which way it turned the heart, for nothing else was under way for it.
LEMMA TapInv ==
    ASSUME HeartsInv, NEW st \in MfStation, ToggleHeart(st)
    PROVE  HeartsInv'
  <1> DEFINE before == mfCache[mfUser].list
             w == [user |-> mfUser, st |-> st, remove |-> st \in before,
                   before |-> before, step |-> "sent"]
  <1>1. /\ mfUser \in MfUser /\ mfCache[mfUser].has /\ ~HeartPending(mfUser, st)
        /\ mfWrites' = mfWrites \cup {w} /\ SetCache(mfUser, ApplyToggle(w, before))
        /\ mfFetch' = ReadsCancelled(mfUser)
        /\ UNCHANGED <<mfUser, mfRepo, mfLate, mfDoubt>>
    BY DEF ToggleHeart, HeartsInv, MfTypeOK
  <1>3. before \in SUBSET MfStation
    BY <1>1 DEF HeartsInv, MfTypeOK
  <1>2. /\ w \in MfToggles
        /\ w.user = mfUser /\ w.st = st /\ w.step = "sent" /\ w.remove = (st \in before)
    <2> HIDE DEF before
    <2>1. (st \in before) \in BOOLEAN
      OBVIOUS
    <2>2. ASSUME NEW b \in BOOLEAN
          PROVE  LET x == [user |-> mfUser, st |-> st, remove |-> b, before |-> before,
                           step |-> "sent"]
                 IN  /\ x \in MfToggles
                     /\ x.user = mfUser /\ x.st = st /\ x.step = "sent" /\ x.remove = b
      BY <1>1, <1>3, <2>2 DEF MfToggles
    <2> QED BY <2>1, <2>2, Zenon
  <1> HIDE DEF w
  <1>4. ApplyToggle(w, before) \in SUBSET MfStation
    BY <1>2, <1>3 DEF ApplyToggle
  <1> HIDE DEF before
  <1>5. /\ mfCache' \in [MfUser -> [has : BOOLEAN, list : SUBSET MfStation]]
        /\ mfCache'[mfUser].has /\ mfCache'[mfUser].list = ApplyToggle(w, before)
        /\ \A u \in MfUser \ {mfUser} : mfCache'[u] = mfCache[u]
    BY <1>1, <1>4 DEF SetCache, HeartsInv, MfTypeOK
  <1>6. MfTypeOK'
    BY <1>1, <1>2, <1>5, CancelledReads DEF HeartsInv, MfTypeOK
  <1>7. OneTapEach'
    BY <1>1, <1>2 DEF HeartsInv, OneTapEach, HeartPending
  <1>8. \A f \in mfFetch' : f.live => f \in mfFetch /\ f.user # mfUser
    BY <1>1, CancelledReads DEF HeartsInv
  <1>9. OneLiveRead' /\ ReadsAreFresh'
    BY <1>1, <1>8 DEF HeartsInv, OneLiveRead, ReadsAreFresh
  <1>10. SeenIsQuiet'
    BY <1>1, <1>2, <1>8 DEF HeartsInv, SeenIsQuiet, Quiet, HeartPending
  <1>11. <<mfUser, st>> \notin mfDoubt => (st \in before <=> st \in mfRepo[mfUser])
    BY <1>1 DEF before, HeartsInv, QuietHeartsAreTrue
  <1>12. TapsAreTrue'
    BY <1>1, <1>2, <1>11 DEF HeartsInv, TapsAreTrue
  <1>13. ListOrDoubt'
    <2>1. \A v \in mfWrites : v.user \in MfUser
      BY DEF HeartsInv, MfTypeOK, MfToggles
    <2> QED BY <1>1, <1>2, <1>5, <2>1 DEF HeartsInv, ListOrDoubt
  <1>14. ASSUME NEW u \in MfUser, NEW s \in MfStation, mfCache'[u].has,
                <<u, s>> \notin mfDoubt, ~HeartPending(u, s)'
         PROVE  s \in mfCache'[u].list <=> s \in mfRepo'[u]
    <2>1. ~HeartPending(u, s) /\ (u = mfUser => s # st)
      BY <1>1, <1>2, <1>14 DEF HeartPending
    <2>2. CASE u = mfUser
      <3>1. s \in before <=> s \in mfRepo[u]
        BY <1>1, <1>14, <2>1, <2>2 DEF before, HeartsInv, QuietHeartsAreTrue
      <3> QED BY <1>1, <1>2, <1>5, <2>1, <2>2, <3>1 DEF ApplyToggle
    <2>3. CASE u # mfUser
      BY <1>1, <1>5, <1>14, <2>1, <2>3 DEF HeartsInv, QuietHeartsAreTrue
    <2> QED BY <2>2, <2>3
  <1>15. LateInDoubt'
    BY <1>1 DEF HeartsInv, LateInDoubt
  <1>16. QuietHeartsAreTrue'
    BY <1>1, <1>14 DEF QuietHeartsAreTrue
  <1> QED BY <1>6, <1>7, <1>9, <1>10, <1>12, <1>13, <1>15, <1>16 DEF HeartsInv

\* The repository carries a tap out: its own heart alone is then under way.
LEMMA WriteInv ==
    ASSUME HeartsInv, WriteFavorite
    PROVE  HeartsInv'
  <1>1. PICK w \in mfWrites :
           /\ w.step = "sent"
           /\ mfWrites' = (mfWrites \ {w}) \cup {[w EXCEPT !.step = "written"]}
           /\ mfRepo' = [mfRepo EXCEPT ![w.user] = ApplyToggle(w, @)]
           /\ UNCHANGED <<mfUser, mfCache, mfFetch, mfLate, mfDoubt>>
    BY DEF WriteFavorite
  <1> DEFINE x == [w EXCEPT !.step = "written"]
  <1>2. /\ x \in MfToggles
        /\ x.user = w.user /\ x.st = w.st /\ x.remove = w.remove /\ x.step = "written"
    BY DEF HeartsInv, MfTypeOK, MfToggles
  <1> HIDE DEF x
  <1>3. mfWrites' = (mfWrites \ {w}) \cup {x}
    BY <1>1 DEF x
  <1>4. w.user \in MfUser /\ w.st \in MfStation
    BY DEF HeartsInv, MfTypeOK, MfToggles
  <1>5. /\ mfRepo' \in [MfUser -> SUBSET MfStation]
        /\ mfRepo'[w.user] = ApplyToggle(w, mfRepo[w.user])
        /\ \A u \in MfUser \ {w.user} : mfRepo'[u] = mfRepo[u]
    BY <1>1, <1>4 DEF HeartsInv, MfTypeOK, ApplyToggle
  <1>6. /\ w.st \in mfRepo'[w.user] <=> ~w.remove
        /\ \A st \in MfStation \ {w.st} : st \in mfRepo'[w.user] <=> st \in mfRepo[w.user]
    BY <1>5 DEF ApplyToggle
  <1>7. MfTypeOK'
    BY <1>1, <1>2, <1>3, <1>5 DEF HeartsInv, MfTypeOK
  <1>8. OneTapEach' /\ OneLiveRead'
    BY <1>1, <1>2, <1>3 DEF HeartsInv, OneTapEach, OneLiveRead
  <1>9. ReadsAreFresh'
    <2> SUFFICES ASSUME NEW f \in mfFetch, f.live, f.read, NEW st \in MfStation,
                        ~\E v \in mfWrites' : v.user = f.user /\ v.st = st /\ v.step = "written",
                        <<f.user, st>> \notin mfDoubt
                 PROVE  st \in f.list <=> st \in mfRepo'[f.user]
      BY <1>1 DEF ReadsAreFresh
    <2>1. ~(f.user = w.user /\ st = w.st)
      BY <1>2, <1>3
    <2>2. ~\E v \in mfWrites : v.user = f.user /\ v.st = st /\ v.step = "written"
      BY <1>1, <1>3
    <2>3. st \in f.list <=> st \in mfRepo[f.user]
      BY <2>2 DEF HeartsInv, ReadsAreFresh
    <2>4. f.user \in MfUser
      BY DEF HeartsInv, MfTypeOK, MfReads
    <2> QED BY <1>5, <1>6, <2>1, <2>3, <2>4
  <1>10. SeenIsQuiet'
    <2> SUFFICES ASSUME NEW f \in mfFetch, f.live, f.read, NEW st \in f.sees
                 PROVE  Quiet(f.user, st)' /\ (st \in f.list <=> st \in mfRepo'[f.user])
      BY <1>1 DEF SeenIsQuiet
    <2>1. Quiet(f.user, st) /\ (st \in f.list <=> st \in mfRepo[f.user])
      BY DEF HeartsInv, SeenIsQuiet
    <2>2. ~(f.user = w.user /\ st = w.st)
      BY <2>1 DEF Quiet, HeartPending
    <2>3. f.user \in MfUser /\ st \in MfStation
      BY DEF HeartsInv, MfTypeOK, MfReads
    <2>4. Quiet(f.user, st)'
      BY <1>1, <1>2, <1>3, <2>1, <2>2 DEF Quiet, HeartPending
    <2> QED BY <1>5, <1>6, <2>1, <2>2, <2>3, <2>4
  <1>11. TapsAreTrue'
    <2> SUFFICES ASSUME NEW v \in mfWrites', <<v.user, v.st>> \notin mfDoubt
                 PROVE  /\ (v.step = "sent") => (v.st \in mfRepo'[v.user] <=> v.remove)
                        /\ (v.step = "written") => (v.st \in mfRepo'[v.user] <=> ~v.remove)
      BY <1>1 DEF TapsAreTrue
    <2>1. CASE v = x
      BY <1>1, <1>2, <1>6, <2>1
    <2>2. CASE v # x
      <3>1. v \in mfWrites /\ v # w
        BY <1>3, <2>2
      <3>2. ~(v.user = w.user /\ v.st = w.st)
        BY <3>1 DEF HeartsInv, OneTapEach
      <3>3. v.user \in MfUser /\ v.st \in MfStation
        BY <3>1 DEF HeartsInv, MfTypeOK, MfToggles
      <3>4. v.st \in mfRepo'[v.user] <=> v.st \in mfRepo[v.user]
        BY <1>5, <1>6, <3>2, <3>3
      <3> QED BY <3>1, <3>4 DEF HeartsInv, TapsAreTrue
    <2> QED BY <2>1, <2>2
  <1>12. ListOrDoubt' /\ LateInDoubt'
    BY <1>1, <1>2, <1>3 DEF HeartsInv, ListOrDoubt, LateInDoubt
  <1>13. QuietHeartsAreTrue'
    <2> SUFFICES ASSUME NEW u \in MfUser, NEW st \in MfStation, mfCache[u].has,
                        <<u, st>> \notin mfDoubt, ~HeartPending(u, st)'
                 PROVE  st \in mfCache[u].list <=> st \in mfRepo'[u]
      BY <1>1 DEF QuietHeartsAreTrue
    <2>1. ~HeartPending(u, st) /\ ~(u = w.user /\ st = w.st)
      BY <1>2, <1>3 DEF HeartPending
    <2>2. st \in mfCache[u].list <=> st \in mfRepo[u]
      BY <2>1 DEF HeartsInv, QuietHeartsAreTrue
    <2> QED BY <1>5, <1>6, <2>1, <2>2
  <1> QED BY <1>7, <1>8, <1>9, <1>10, <1>11, <1>12, <1>13 DEF HeartsInv

\* So does a write that was given up, whose station is in doubt.
LEMMA LateInv ==
    ASSUME HeartsInv, LateWrite
    PROVE  HeartsInv'
  <1>1. PICK w \in mfLate :
           /\ mfLate' = mfLate \ {w}
           /\ mfRepo' = [mfRepo EXCEPT ![w.user] = ApplyToggle(w, @)]
           /\ UNCHANGED <<mfUser, mfCache, mfFetch, mfWrites, mfDoubt>>
    BY DEF LateWrite
  <1>2. /\ w.user \in MfUser /\ w.st \in MfStation /\ <<w.user, w.st>> \in mfDoubt
    BY DEF HeartsInv, MfTypeOK, LateInDoubt
  <1>3. /\ mfRepo' \in [MfUser -> SUBSET MfStation]
        /\ mfRepo'[w.user] = ApplyToggle(w, mfRepo[w.user])
        /\ \A u \in MfUser \ {w.user} : mfRepo'[u] = mfRepo[u]
    BY <1>1, <1>2 DEF HeartsInv, MfTypeOK, ApplyToggle
  <1>4. \A u \in MfUser, st \in MfStation :
            ~(u = w.user /\ st = w.st) => (st \in mfRepo'[u] <=> st \in mfRepo[u])
    BY <1>3 DEF ApplyToggle
  <1>5. MfTypeOK' /\ OneTapEach' /\ OneLiveRead'
    BY <1>1, <1>3 DEF HeartsInv, MfTypeOK, OneTapEach, OneLiveRead
  <1>6. SeenIsQuiet'
    <2> SUFFICES ASSUME NEW f \in mfFetch, f.live, f.read, NEW st \in f.sees
                 PROVE  Quiet(f.user, st)' /\ (st \in f.list <=> st \in mfRepo'[f.user])
      BY <1>1 DEF SeenIsQuiet
    <2>1. Quiet(f.user, st) /\ (st \in f.list <=> st \in mfRepo[f.user])
      BY DEF HeartsInv, SeenIsQuiet
    <2>2. ~(f.user = w.user /\ st = w.st)
      BY <2>1 DEF Quiet
    <2>3. f.user \in MfUser /\ st \in MfStation
      BY DEF HeartsInv, MfTypeOK, MfReads
    <2> QED BY <1>1, <1>4, <2>1, <2>2, <2>3 DEF Quiet, HeartPending
  <1>7. ReadsAreFresh'
    <2>1. \A f \in mfFetch : f.user \in MfUser
      BY DEF HeartsInv, MfTypeOK, MfReads
    <2> QED BY <1>1, <1>2, <1>4, <2>1 DEF HeartsInv, ReadsAreFresh
  <1>8. TapsAreTrue'
    <2>1. \A v \in mfWrites : v.user \in MfUser /\ v.st \in MfStation
      BY DEF HeartsInv, MfTypeOK, MfToggles
    <2> QED BY <1>1, <1>2, <1>4, <2>1 DEF HeartsInv, TapsAreTrue
  <1>9. ListOrDoubt' /\ LateInDoubt'
    BY <1>1 DEF HeartsInv, ListOrDoubt, LateInDoubt
  <1>10. QuietHeartsAreTrue'
    BY <1>1, <1>2, <1>4 DEF HeartsInv, QuietHeartsAreTrue, HeartPending
  <1> QED BY <1>5, <1>6, <1>7, <1>8, <1>9, <1>10 DEF HeartsInv

\* The end of a tap, well or badly, sets its own heart right or leaves it in doubt, and
\* leaves the others.
LEMMA TapEndsInv ==
    ASSUME HeartsInv, NEW w \in mfWrites, NEW list \in SUBSET MfStation,
           mfWrites' = mfWrites \ {w}, SetCache(w.user, list),
           \A st \in MfStation \ {w.st} : st \in list <=> st \in mfCache[w.user].list,
           <<w.user, w.st>> \notin mfDoubt' => (w.st \in list <=> w.st \in mfRepo[w.user]),
           mfFetch' \subseteq MfReads,
           \A f \in mfFetch' : f.live =>
               f \in mfFetch /\ \/ f.user # w.user \/ w.step = "sent"
                                \/ <<w.user, w.st>> \in mfDoubt',
           mfDoubt \subseteq mfDoubt',
           mfLate \subseteq mfLate',
           \A v \in mfLate' \ mfLate : /\ v.user = w.user /\ v.st = w.st /\ v.remove = w.remove
                                       /\ <<w.user, w.st>> \in mfDoubt',
           UNCHANGED <<mfUser, mfRepo>>
    PROVE  HeartsInv'
  <1>1. w.user \in MfUser /\ w.st \in MfStation /\ w.remove \in BOOLEAN
    BY DEF HeartsInv, MfTypeOK, MfToggles
  <1>2. /\ mfCache' \in [MfUser -> [has : BOOLEAN, list : SUBSET MfStation]]
        /\ mfCache'[w.user].has /\ mfCache'[w.user].list = list
        /\ \A u \in MfUser \ {w.user} : mfCache'[u] = mfCache[u]
    BY <1>1 DEF SetCache, HeartsInv, MfTypeOK
  <1>3. MfTypeOK'
    BY <1>1, <1>2 DEF HeartsInv, MfTypeOK
  <1>4. OneTapEach' /\ OneLiveRead'
    BY DEF HeartsInv, OneTapEach, OneLiveRead
  <1>5. SeenIsQuiet'
    <2> SUFFICES ASSUME NEW f \in mfFetch', f.live, f.read, NEW st \in f.sees
                 PROVE  Quiet(f.user, st)' /\ (st \in f.list <=> st \in mfRepo[f.user])
      BY DEF SeenIsQuiet
    <2>1. Quiet(f.user, st) /\ (st \in f.list <=> st \in mfRepo[f.user])
      BY DEF HeartsInv, SeenIsQuiet
    <2>2. ~(w.user = f.user /\ w.st = st)
      BY <2>1 DEF Quiet, HeartPending
    <2>3. \A v \in mfLate' : v \in mfLate \/ (v.user = w.user /\ v.st = w.st)
      OBVIOUS
    <2> QED BY <2>1, <2>2, <2>3 DEF Quiet, HeartPending
  <1>6. ReadsAreFresh'
    <2> SUFFICES ASSUME NEW f \in mfFetch', f.live, f.read, NEW st \in MfStation,
                        <<f.user, st>> \notin mfDoubt',
                        ~\E v \in mfWrites' : v.user = f.user /\ v.st = st /\ v.step = "written"
                 PROVE  st \in f.list <=> st \in mfRepo[f.user]
      BY DEF ReadsAreFresh
    <2>1. f \in mfFetch /\ (f.user = w.user /\ st = w.st => w.step = "sent")
      OBVIOUS
    <2>2. ~\E v \in mfWrites : v.user = f.user /\ v.st = st /\ v.step = "written"
      BY <2>1
    <2> QED BY <2>1, <2>2 DEF HeartsInv, ReadsAreFresh
  <1>7. TapsAreTrue' /\ LateInDoubt'
    BY DEF HeartsInv, TapsAreTrue, LateInDoubt
  <1>8. ListOrDoubt'
    <2>1. \A v \in mfWrites : v.user \in MfUser
      BY DEF HeartsInv, MfTypeOK, MfToggles
    <2> QED BY <1>2, <2>1 DEF HeartsInv, ListOrDoubt
  <1>9. ASSUME NEW u \in MfUser, NEW st \in MfStation, mfCache'[u].has,
               <<u, st>> \notin mfDoubt', ~HeartPending(u, st)'
        PROVE  st \in mfCache'[u].list <=> st \in mfRepo[u]
    <2>1. CASE u = w.user /\ st = w.st
      BY <1>2, <1>9, <2>1
    <2>2. CASE ~(u = w.user /\ st = w.st)
      <3>1. ~HeartPending(u, st)
        BY <1>9, <2>2 DEF HeartPending
      <3>2. mfCache[u].has
        BY <1>2, <1>9 DEF HeartsInv, ListOrDoubt
      <3>3. st \in mfCache[u].list <=> st \in mfRepo[u]
        BY <1>9, <3>1, <3>2 DEF HeartsInv, QuietHeartsAreTrue
      <3> QED BY <1>2, <2>2, <3>3
    <2> QED BY <2>1, <2>2
  <1>10. QuietHeartsAreTrue'
    BY <1>9 DEF QuietHeartsAreTrue
  <1> QED BY <1>3, <1>4, <1>5, <1>6, <1>7, <1>8, <1>10 DEF HeartsInv

\* Every step keeps the hearts true.
LEMMA HeartsStepInv == HeartsInv /\ [MfNext]_mfVars => HeartsInv'
  <1> SUFFICES ASSUME HeartsInv, [MfNext]_mfVars PROVE HeartsInv'
    OBVIOUS
  <1>1. CASE Toggled
    <2>1. PICK w \in mfWrites :
             /\ w.step = "written" /\ mfWrites' = mfWrites \ {w}
             /\ mfFetch' = ReadsCancelled(w.user)
             /\ SetCache(w.user, ApplyToggle(w, mfCache[w.user].list))
             /\ UNCHANGED <<mfUser, mfRepo, mfLate, mfDoubt>>
      BY <1>1 DEF Toggled
    <2>2. /\ w.user \in MfUser /\ w.st \in MfStation
          /\ mfCache[w.user].list \in SUBSET MfStation
      BY DEF HeartsInv, MfTypeOK, MfToggles
    <2>3. /\ ApplyToggle(w, mfCache[w.user].list) \in SUBSET MfStation
          /\ \A st \in MfStation \ {w.st} :
                st \in ApplyToggle(w, mfCache[w.user].list) <=> st \in mfCache[w.user].list
          /\ w.st \in ApplyToggle(w, mfCache[w.user].list) <=> ~w.remove
      BY <2>2 DEF ApplyToggle
    <2>4. <<w.user, w.st>> \notin mfDoubt => (w.st \in mfRepo[w.user] <=> ~w.remove)
      BY <2>1 DEF HeartsInv, TapsAreTrue
    <2>5. /\ mfFetch' \subseteq MfReads
          /\ \A f \in mfFetch' : f.live => f \in mfFetch /\ f.user # w.user
      BY <2>1, <2>2, CancelledReads DEF HeartsInv
    <2> HIDE DEF ReadsCancelled, ApplyToggle
    <2> QED BY <2>1, <2>3, <2>4, <2>5, TapEndsInv
  <1>2. CASE ToggleFails
    <2>1. PICK w \in mfWrites, late \in BOOLEAN :
             /\ late => w.step = "sent"
             /\ mfWrites' = mfWrites \ {w}
             /\ mfLate' = IF late THEN mfLate \cup {GivenUp(w)} ELSE mfLate
             /\ SetCache(w.user, Rollback(w, mfCache[w.user].list))
             /\ mfDoubt' = IF late \/ w.step = "written"
                           THEN mfDoubt \cup {<<w.user, w.st>>} ELSE mfDoubt
             /\ UNCHANGED <<mfUser, mfRepo, mfFetch>>
      BY <1>2 DEF ToggleFails
    <2>2. /\ w.user \in MfUser /\ w.st \in MfStation /\ w.step \in {"sent", "written"}
          /\ mfCache[w.user].list \in SUBSET MfStation
          /\ mfFetch \subseteq MfReads
      BY DEF HeartsInv, MfTypeOK, MfToggles
    <2>3. /\ Rollback(w, mfCache[w.user].list) \in SUBSET MfStation
          /\ \A st \in MfStation \ {w.st} :
                st \in Rollback(w, mfCache[w.user].list) <=> st \in mfCache[w.user].list
          /\ w.st \in Rollback(w, mfCache[w.user].list) <=> w.remove
      BY <2>2 DEF Rollback
    <2>4. <<w.user, w.st>> \notin mfDoubt' => (w.st \in mfRepo[w.user] <=> w.remove)
      BY <2>1, <2>2 DEF HeartsInv, TapsAreTrue
    <2>5. /\ mfDoubt \subseteq mfDoubt' /\ mfLate \subseteq mfLate'
          /\ \A v \in mfLate' \ mfLate :
                /\ v.user = w.user /\ v.st = w.st /\ v.remove = w.remove
                /\ <<w.user, w.st>> \in mfDoubt'
      BY <2>1 DEF GivenUp
    <2>6. w.step = "sent" \/ <<w.user, w.st>> \in mfDoubt'
      BY <2>1, <2>2
    <2>7. mfFetch' = mfFetch /\ mfWrites' = mfWrites \ {w} /\ UNCHANGED <<mfUser, mfRepo>>
      BY <2>1
    <2>8. SetCache(w.user, Rollback(w, mfCache[w.user].list))
      BY <2>1
    <2> QED BY <2>2, <2>3, <2>4, <2>5, <2>6, <2>7, <2>8, TapEndsInv
  <1>3. CASE UNCHANGED mfVars
    BY <1>3 DEF mfVars, HeartsInv, MfTypeOK, OneTapEach, OneLiveRead, SeenIsQuiet,
                ReadsAreFresh, TapsAreTrue, ListOrDoubt, LateInDoubt, QuietHeartsAreTrue,
                Quiet, HeartPending
  <1> QED BY <1>1, <1>2, <1>3, SignInInv, SignOutInv, ListInv, LoadedInv, TapInv, WriteInv,
             LateInv DEF MfNext

\* Hearts without a tap under way show the repository, in every behaviour, but for those
\* of failed taps that were written or may yet be.
THEOREM HeartsShowTheRepo == MfSpec => []HeartsAreTrue
  <1>1. MfInit => HeartsInv
    BY DEF MfInit, Uncached, HeartsInv, MfTypeOK, OneTapEach, OneLiveRead, SeenIsQuiet,
           ReadsAreFresh, TapsAreTrue, ListOrDoubt, LateInDoubt, QuietHeartsAreTrue
  <1>2. HeartsInv => HeartsAreTrue
    BY DEF HeartsInv, MfTypeOK, QuietHeartsAreTrue, HeartsAreTrue, HeartPending
  <1> QED BY <1>1, <1>2, HeartsStepInv, PTL DEF MfSpec

-----------------------------------------------------------------------------
(* The search.                                                             *)

\* The cache holds for a query what it asked for; with a genre of the grid there is no
\* text, neither in the field nor in the query.
SearchInv ==
    /\ rsGenre \in [chip : Genres, grid : Genres]
    /\ \A k \in DOMAIN rsCache : rsCache[k] = AskedFor(k)
    /\ rsGenre.grid # RsNoGenre => rsText = RsBlank /\ rsQuiet = RsBlank

\* The title over a list of stations says what they were asked for, whenever the tab, the
\* genre or the text changes and whatever answers arrive late.
THEOREM TitlesAreTrue == RsSpec => []TitleIsTrue
  <1>1. RsInit => SearchInv
    BY DEF RsInit, SearchInv, Genres
  <1>2. SearchInv /\ [RsNext]_rsVars => SearchInv'
    <2> SUFFICES ASSUME SearchInv, [RsNext]_rsVars PROVE SearchInv'
      OBVIOUS
    <2> USE DEF SearchInv
    <2>1. ASSUME NEW tab, SetTab(tab) PROVE SearchInv'
      BY <2>1 DEF SetTab
    <2>2. ASSUME NEW g \in Genres, SetChip(g) PROVE SearchInv'
      BY <2>2 DEF SetChip
    <2>3. ASSUME NEW g \in RsGenre, SelectGenre(g) PROVE SearchInv'
      BY <2>3 DEF SelectGenre, GridQuiet, Genres
    <2>4. ASSUME NEW text \in Texts, TypeText(text) PROVE SearchInv'
      BY <2>4 DEF TypeText, Genres
    <2>5. CASE Debounced \/ ClearText \/ AllGenres
      BY <2>5 DEF Debounced, ClearText, AllGenres, Genres
    <2>6. CASE StartQuery \/ GetBases \/ GiveUp
      BY <2>6 DEF StartQuery, GetBases, GiveUp
    <2>7. CASE TryBase
      BY <2>7 DEF TryBase
    <2>8. CASE UNCHANGED rsVars
      BY <2>8 DEF rsVars
    <2> QED BY <2>1, <2>2, <2>3, <2>4, <2>5, <2>6, <2>7, <2>8 DEF RsNext
  <1>3. SearchInv => TitleIsTrue
    BY DEF SearchInv, TitleIsTrue, Enabled, Key, Title, AskedFor
  <1> QED BY <1>1, <1>2, <1>3, PTL DEF RsSpec

-----------------------------------------------------------------------------
(* The screens.                                                            *)

Sheet == {"login", "register", "directory", "discussion", "settings", "player"}

Has(sheets, s) == \E i \in DOMAIN sheets : sheets[i] = s
EachOnce(sheets) == \A i, j \in DOMAIN sheets : sheets[i] = sheets[j] => i = j

\* Each sheet is open once; the registration that follows a sign-in, and the form, were
\* asked for.
ScreensInv ==
    /\ msOpen \in Seq(Sheet)
    /\ EachOnce(msOpen)
    /\ msAfter => msAsked
    /\ FormWasAskedFor

\* Taking a sheet away leaves the others, in their order.
LEMMA RemoveAtEachOnce ==
    ASSUME NEW sheets \in Seq(Sheet), EachOnce(sheets), NEW k \in DOMAIN sheets
    PROVE  /\ RemoveAt(sheets, k) \in Seq(Sheet)
           /\ EachOnce(RemoveAt(sheets, k))
           /\ \A s : Has(RemoveAt(sheets, k), s) => Has(sheets, s) /\ s # sheets[k]
  <1> DEFINE front == SubSeq(sheets, 1, k - 1)
             back  == SubSeq(sheets, k + 1, Len(sheets))
             whole == front \o back
  <1>1. k \in 1..Len(sheets) /\ Len(sheets) \in Nat
    OBVIOUS
  <1>2. /\ front \in Seq(Sheet) /\ Len(front) = k - 1
        /\ \A i \in 1..(k - 1) : front[i] = sheets[i]
    BY <1>1
  <1>3. /\ back \in Seq(Sheet) /\ Len(back) = Len(sheets) - k
        /\ \A i \in 1..(Len(sheets) - k) : back[i] = sheets[i + k]
    <2>1. back \in Seq(Sheet) /\ Len(back) = Len(sheets) - k
      BY <1>1
    <2>2. ASSUME NEW i \in 1..(Len(sheets) - k) PROVE back[i] = sheets[i + k]
      BY <1>1, <2>2
    <2> QED BY <2>1, <2>2
  <1> HIDE DEF front, back
  <1>4. /\ whole \in Seq(Sheet) /\ Len(whole) = Len(sheets) - 1
        /\ \A i \in 1..(Len(sheets) - 1) :
              whole[i] = IF i < k THEN sheets[i] ELSE sheets[i + 1]
    <2>1. whole \in Seq(Sheet) /\ Len(whole) = Len(sheets) - 1
      BY <1>1, <1>2, <1>3
    <2>2. ASSUME NEW i \in 1..(Len(sheets) - 1)
          PROVE  whole[i] = IF i < k THEN sheets[i] ELSE sheets[i + 1]
      <3>1. CASE i < k
        BY <1>1, <1>2, <1>3, <3>1
      <3>2. CASE ~(i < k)
        <4>1. \A n \in 1..(Len(front) + Len(back)) : (front \o back)[n] =
                 IF n <= Len(front) THEN front[n] ELSE back[n - Len(front)]
          BY <1>2, <1>3, ConcatProperties
        <4>2. i \in 1..(Len(front) + Len(back)) /\ ~(i <= Len(front))
              /\ i - Len(front) \in 1..(Len(sheets) - k)
              /\ (i - Len(front)) + k = i + 1
          <5>1. i \in Int /\ k \in Int /\ Len(sheets) \in Int /\ k <= i /\ i <= Len(sheets) - 1
            BY <1>1, <3>2
          <5>2. Len(front) = k - 1 /\ Len(back) = Len(sheets) - k
            BY <1>2, <1>3
          <5> QED BY <1>1, <5>1, <5>2, SMTT(40)
        <4>3. whole[i] = back[i - Len(front)]
          BY <4>1, <4>2
        <4> QED BY <1>1, <1>2, <1>3, <3>2, <4>2, <4>3
      <3> QED BY <3>1, <3>2
    <2> QED BY <2>1, <2>2
  <1> HIDE DEF whole
  <1>5. DOMAIN whole = 1..(Len(sheets) - 1) /\ DOMAIN sheets = 1..Len(sheets)
    BY <1>4
  <1>6. EachOnce(whole)
    <2> SUFFICES ASSUME NEW i \in 1..(Len(sheets) - 1), NEW j \in 1..(Len(sheets) - 1),
                        whole[i] = whole[j]
                 PROVE  i = j
      BY <1>5 DEF EachOnce
    <2> DEFINE Old(n) == IF n < k THEN n ELSE n + 1
    <2>1. whole[i] = sheets[Old(i)] /\ whole[j] = sheets[Old(j)]
      BY <1>4
    <2>2. Old(i) \in DOMAIN sheets /\ Old(j) \in DOMAIN sheets
      BY <1>1, <1>5
    <2>3. Old(i) = Old(j)
      BY <2>1, <2>2 DEF EachOnce
    <2> QED BY <1>1, <2>3
  <1>7. ASSUME NEW s, Has(whole, s) PROVE Has(sheets, s) /\ s # sheets[k]
    <2>1. PICK i \in 1..(Len(sheets) - 1) : whole[i] = s
      BY <1>5, <1>7 DEF Has
    <2> DEFINE n == IF i < k THEN i ELSE i + 1
    <2>2. n \in 1..Len(sheets) /\ n # k /\ sheets[n] = s
      BY <1>1, <1>4, <2>1
    <2> QED BY <1>1, <1>5, <2>2 DEF Has, EachOnce
  <1> QED BY <1>4, <1>6, <1>7 DEF RemoveAt, whole, front, back

\* Opening a sheet puts it on top, unless it is open.
LEMMA OpenedEachOnce ==
    ASSUME NEW sheets \in Seq(Sheet), EachOnce(sheets), NEW s \in Sheet
    PROVE  /\ Opened(sheets, s) \in Seq(Sheet)
           /\ EachOnce(Opened(sheets, s))
           /\ \A x : Has(Opened(sheets, s), x) => Has(sheets, x) \/ x = s
  <1>1. CASE Has(sheets, s)
    BY <1>1 DEF Has, Opened
  <1>2. CASE ~Has(sheets, s)
    <2> DEFINE more == Append(sheets, s)
    <2>1. /\ more \in Seq(Sheet) /\ Len(more) = Len(sheets) + 1 /\ Len(sheets) \in Nat
          /\ more[Len(sheets) + 1] = s
          /\ \A i \in 1..Len(sheets) : more[i] = sheets[i]
          /\ DOMAIN more = 1..(Len(sheets) + 1) /\ DOMAIN sheets = 1..Len(sheets)
      OBVIOUS
    <2> HIDE DEF more
    <2>2. EachOnce(more)
      BY <1>2, <2>1 DEF EachOnce, Has
    <2>3. \A x : Has(more, x) => Has(sheets, x) \/ x = s
      BY <2>1 DEF Has
    <2>4. Opened(sheets, s) = more
      BY <1>2 DEF Opened, Has, more
    <2> QED BY <2>1, <2>2, <2>3, <2>4
  <1> QED BY <1>1, <1>2

\* Closing a sheet leaves the others open.
LEMMA WithoutSheet ==
    ASSUME ScreensInv, NEW s
    PROVE  /\ Without(s) \in Seq(Sheet) /\ EachOnce(Without(s))
           /\ \A x : Has(Without(s), x) => IsOpen(x) /\ x # s
  <1>1. CASE IsOpen(s)
    <2>1. Place(s) \in DOMAIN msOpen /\ msOpen[Place(s)] = s
      BY <1>1 DEF Place, IsOpen
    <2>2. msOpen \in Seq(Sheet) /\ EachOnce(msOpen)
      BY DEF ScreensInv
    <2> DEFINE k == Place(s)
    <2> HIDE DEF k
    <2>3. /\ RemoveAt(msOpen, k) \in Seq(Sheet) /\ EachOnce(RemoveAt(msOpen, k))
          /\ \A x : Has(RemoveAt(msOpen, k), x) => Has(msOpen, x) /\ x # msOpen[k]
      BY <2>1, <2>2, RemoveAtEachOnce DEF k
    <2>4. Without(s) = RemoveAt(msOpen, k)
      BY <1>1 DEF Without, k
    <2> QED BY <2>1, <2>3, <2>4 DEF IsOpen, Has, k
  <1>2. CASE ~IsOpen(s)
    BY <1>2 DEF Without, ScreensInv, IsOpen, Has
  <1> QED BY <1>1, <1>2

\* A sheet in the place of the one on top.
LEMMA InPlaceOfTop ==
    ASSUME ScreensInv, msOpen # <<>>
    PROVE  LET below == SubSeq(msOpen, 1, Len(msOpen) - 1)
           IN  /\ below \in Seq(Sheet) /\ EachOnce(below)
               /\ \A x : Has(below, x) => IsOpen(x)
  <1> DEFINE below == SubSeq(msOpen, 1, Len(msOpen) - 1)
  <1>1. /\ below \in Seq(Sheet) /\ DOMAIN below = 1..(Len(msOpen) - 1)
        /\ \A i \in 1..(Len(msOpen) - 1) : below[i] = msOpen[i]
        /\ Len(msOpen) \in Nat /\ DOMAIN msOpen = 1..Len(msOpen)
    BY DEF ScreensInv
  <1> HIDE DEF below
  <1>2. EachOnce(below) /\ \A x : Has(below, x) => IsOpen(x)
    BY <1>1 DEF ScreensInv, EachOnce, Has, IsOpen
  <1> QED BY <1>1, <1>2 DEF below

\* A sheet that is not the form opens: the form is open only if it was.
LEMMA OpensInv ==
    ASSUME ScreensInv, NEW s \in Sheet \ {"register"}, Opens(s)
    PROVE  ScreensInv'
  <1>0. /\ msOpen' = IF NoSheet THEN <<s>> ELSE Opened(SubSeq(msOpen, 1, Len(msOpen) - 1), s)
        /\ UNCHANGED <<msAfter, msAsked>>
    BY DEF Opens
  <1>1. /\ msOpen' \in Seq(Sheet) /\ EachOnce(msOpen')
        /\ \A x : Has(msOpen', x) => IsOpen(x) \/ x = s
    <2>1. CASE NoSheet
      <3>1. msOpen' = <<s>>
        BY <1>0, <2>1
      <3> QED BY <3>1 DEF EachOnce, Has
    <2>2. CASE ~NoSheet
      BY <1>0, <2>2, InPlaceOfTop, OpenedEachOnce DEF NoSheet
    <2> QED BY <2>1, <2>2
  <1>2. FormWasAskedFor'
    BY <1>0, <1>1 DEF ScreensInv, FormWasAskedFor, IsOpen, Has
  <1> QED BY <1>0, <1>1, <1>2 DEF ScreensInv

\* A sheet closes, and with the form the wish for it, unless a sign-in leads to it.
LEMMA ClosesInv ==
    ASSUME ScreensInv, NEW s \in Sheet, Closes(s),
           s = "register" => msAsked' = msAfter,
           s # "register" => UNCHANGED msAsked
    PROVE  ScreensInv'
  <1>1. msOpen' = Without(s) /\ UNCHANGED msAfter
    BY DEF Closes
  <1>2. FormWasAskedFor'
    BY <1>1, WithoutSheet DEF ScreensInv, FormWasAskedFor, IsOpen, Has
  <1> QED BY <1>1, <1>2, WithoutSheet DEF ScreensInv

\* Every way from screen to screen keeps it.
LEMMA ScreensStepInv == ScreensInv /\ [MsNext]_msVars => ScreensInv'
  <1> SUFFICES ASSUME ScreensInv, [MsNext]_msVars PROVE ScreensInv'
    OBVIOUS
  <1>1. CASE LoginClosed
    <2>1. FormWasAskedFor'
      BY <1>1, WithoutSheet DEF LoginClosed, FormWasAskedFor, IsOpen, Has
    <2> QED BY <1>1, <2>1, WithoutSheet DEF LoginClosed, AfterClosedLogin, ScreensInv
  <1>2. CASE Account
    <2>1. CASE UNCHANGED msOpen
      BY <1>2, <2>1 DEF Account, ScreensInv, FormWasAskedFor, IsOpen
    <2>2. CASE msOpen' = <<"login">>
      BY <1>2, <2>2 DEF Account, ScreensInv, Sheet, EachOnce, FormWasAskedFor, IsOpen
    <2> QED BY <1>2, <2>1, <2>2 DEF Account
  <1>3. CASE OpenRegister
    <2>1. msOpen' \in Seq(Sheet) /\ EachOnce(msOpen') /\ msAsked' = TRUE
      BY <1>3, WithoutSheet, OpenedEachOnce DEF OpenRegister, Sheet
    <2> QED BY <2>1 DEF ScreensInv, FormWasAskedFor
  <1>4. ASSUME NEW user \in MsUser, OnAuth(user) PROVE ScreensInv'
    <2>1. /\ msOpen' = IF msAfter THEN Opened(Without("login"), "register")
                                  ELSE Without("login")
          /\ msAfter' = FALSE /\ UNCHANGED msAsked
      BY <1>4 DEF OnAuth
    <2>2. CASE msAfter
      <3>1. msOpen' \in Seq(Sheet) /\ EachOnce(msOpen')
        BY <2>1, <2>2, WithoutSheet, OpenedEachOnce DEF Sheet
      <3> QED BY <2>1, <2>2, <3>1 DEF ScreensInv, FormWasAskedFor
    <2>3. CASE ~msAfter
      <3>1. FormWasAskedFor'
        BY <2>1, <2>3, WithoutSheet DEF ScreensInv, FormWasAskedFor, IsOpen, Has
      <3> QED BY <2>1, <2>3, <3>1, WithoutSheet DEF ScreensInv
    <2> QED BY <2>2, <2>3
  <1>5. CASE UNCHANGED <<msOpen, msAfter, msAsked>>
    BY <1>5 DEF ScreensInv, FormWasAskedFor, IsOpen
  <1>6. CASE OpenDirectory \/ OpenPlayer \/ OpenSettings \/ OpenDiscussion \/ OpenLogin
    BY <1>6, OpensInv DEF OpenDirectory, OpenPlayer, OpenSettings, OpenDiscussion,
                          OpenLogin, Sheet
  <1>7. CASE ClosePlayer \/ CloseSettings \/ CloseDiscussion \/ CloseDirectory
                \/ CloseRegister
    BY <1>7, ClosesInv DEF ClosePlayer, CloseSettings, CloseDiscussion, CloseDirectory,
                           CloseRegister, Sheet
  <1>8. ASSUME NEW write \in msWrites, Created(write) PROVE ScreensInv'
    <2>1. /\ msOpen' \in Seq(Sheet) /\ EachOnce(msOpen')
          /\ ~Has(msOpen', "register")
      BY <1>8, WithoutSheet, OpenedEachOnce DEF Created, Sheet
    <2>2. FormWasAskedFor'
      BY <2>1 DEF FormWasAskedFor, IsOpen, Has
    <2>3. msAfter' => msAsked'
      BY <1>8 DEF Created, ScreensInv
    <2> QED BY <2>1, <2>2, <2>3 DEF ScreensInv
  <1>9. ASSUME \/ ScreensSignOut \/ SaveForm
               \/ \E user \in MsUser \cup {MsNoUser} : AuthChanges(user)
               \/ \E tab \in Tabs : ToTab(tab)
               \/ \E write \in msWrites : FormFails(write)
               \/ UNCHANGED msVars
        PROVE  ScreensInv'
    <2>1. UNCHANGED <<msOpen, msAfter, msAsked>>
      BY <1>9 DEF ScreensSignOut, SaveForm, AuthChanges, ToTab, FormFails, msVars
    <2> QED BY <1>5, <2>1
  <1> QED BY <1>1, <1>2, <1>3, <1>4, <1>6, <1>7, <1>8, <1>9 DEF MsNext

\* The registration form is never shown to a user who did not ask for it.
THEOREM FormsAreAskedFor == MsSpec => []FormWasAskedFor
  <1>1. MsInit => ScreensInv
    <2> SUFFICES ASSUME MsInit PROVE ScreensInv
      OBVIOUS
    <2>1. msOpen \in Seq(Sheet) /\ DOMAIN msOpen = {}
      BY DEF MsInit
    <2> QED BY <2>1 DEF MsInit, ScreensInv, EachOnce, FormWasAskedFor, IsOpen
  <1>2. ScreensInv => FormWasAskedFor
    BY DEF ScreensInv
  <1> QED BY <1>1, <1>2, ScreensStepInv, PTL DEF MsSpec

-----------------------------------------------------------------------------
(* The discussion.                                                         *)

\* A screen that is closed waits for no write, and the text of a write under way stays
\* in the composer.
DiscussionInv ==
    /\ ~mdOpen => ~Sending
    /\ NothingTypedIsLost

\* What is typed is sent or kept: the composer that an answered write empties holds what
\* that write sent, through closing, signing out and typing.
THEOREM TypedIsSentOrKept == MdSpec => []NothingTypedIsLost
  <1>1. MdInit => DiscussionInv
    BY DEF MdInit, DiscussionInv, NothingTypedIsLost, Sending, NotWriting
  <1>2. DiscussionInv /\ [MdNext]_mdVars => DiscussionInv'
    <2> SUFFICES ASSUME DiscussionInv, [MdNext]_mdVars PROVE DiscussionInv'
      OBVIOUS
    <2> USE DEF DiscussionInv, NothingTypedIsLost, Sending, NotWriting
    <2>1. CASE Enter \/ Leave \/ DidChanges
      BY <2>1 DEF Enter, Leave, DidChanges, DiscussionAct, mdForm
    <2>2. CASE RefetchFeed \/ FetchNextPage \/ PageRead \/ ReadLost
      BY <2>2 DEF RefetchFeed, FetchNextPage, PageRead, ReadLost, mdForm
    <2>3. ASSUME NEW comment, Index(comment) PROVE DiscussionInv'
      BY <2>3 DEF Index, mdForm
    <2>4. ASSUME NEW comment, Delete(comment) PROVE DiscussionInv'
      BY <2>4 DEF Delete, Begin, Writing, mdForm
    <2>5. CASE TypeComment
      BY <2>5 DEF TypeComment, Editable
    <2>6. CASE PickGif
      <3>1. UNCHANGED <<mdOpen, mdText, mdWrite>>
        BY <2>6 DEF PickGif
      <3> QED BY <3>1
    <2>7. CASE Send \/ SendReaction
      BY <2>7 DEF Send, SendReaction, Begin, Writing, mdForm
    <2>8. CASE CommentWritten \/ CommentFails
      BY <2>8 DEF CommentWritten, CommentFails, mdForm
    <2>9. ASSUME NEW write, WrittenUnheard(write) PROVE DiscussionInv'
      BY <2>9 DEF WrittenUnheard, mdForm
    <2>10. CASE UNCHANGED mdVars
      BY <2>10 DEF mdVars
    <2> QED BY <2>1, <2>2, <2>3, <2>4, <2>5, <2>6, <2>7, <2>8, <2>9, <2>10 DEF MdNext
  <1>3. DiscussionInv => NothingTypedIsLost
    BY DEF DiscussionInv
  <1> QED BY <1>1, <1>2, <1>3, PTL DEF MdSpec
================================================================================
