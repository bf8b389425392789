----------------------------- MODULE MobilePlayer -----------------------------
(***************************************************************************)
(* Playback on Android: the app's play and control (App.tsx, native.ts),   *)
(* the intents it posts (AtradioEngineModule.kt), the foreground service   *)
(* that owns audio focus (RadioService.kt) and the workers that drive the  *)
(* engine.  Intents, and the commands of one worker, arrive in order; each *)
(* service has a worker of its own, and one that ended still finishes what *)
(* it was given beside its successor's.                                    *)
(***************************************************************************)
EXTENDS Naturals, Sequences

CONSTANTS
    MobStation,  \* stations
    NoStation,   \* silence
    MobQueue,    \* bound: intents, and engine commands, that wait; services that end
    MobWishes    \* bound: what the listener does

ASSUME MobNoStation == NoStation \notin MobStation

VARIABLES
    mobPlays,    \* calls of play() before they reach the service: [st, live]
    mobIntents,  \* intents posted, the end of the service among them
    mobService,  \* [on, station, playing, resume, focus] of the service; blamed: it was
                 \* told of a failed command since it last gave one
    mobWorker,   \* commands of its worker: a station to open, or a stop
    mobFailures, \* failed commands the service has not been told of yet
    mobEnded,    \* what is left to the workers of services that ended
    mobLoaded,   \* the engine's library is loaded; it fails every command before
    mobEngine,   \* the station whose stream the engine plays
    mobSaved,    \* the preferences' last station
    mobWish,     \* history: the station the listener wants to hear
    mobSent,     \* history: the last station posted
    mobActs      \* how often the listener acted

engineVars == <<mobFailures, mobEnded, mobLoaded, mobEngine>>
mobVars    == <<mobPlays, mobIntents, mobService, mobWorker, engineVars, mobSaved,
                mobWish, mobSent, mobActs>>

Off == [on |-> FALSE, station |-> NoStation, playing |-> FALSE, resume |-> FALSE,
        focus |-> "none", blamed |-> FALSE]

MobInit ==
    /\ mobPlays = {} /\ mobIntents = <<>>
    /\ mobService = Off
    /\ mobWorker = <<>> /\ mobFailures = 0 /\ mobEnded = <<>>
    /\ mobLoaded = FALSE
    /\ mobEngine = NoStation /\ mobSaved = NoStation
    /\ mobWish = NoStation /\ mobSent = NoStation
    /\ mobActs = 0

-----------------------------------------------------------------------------
(* The app.                                                                *)

Act == mobActs < MobWishes /\ mobActs' = mobActs + 1

Post(intent) ==
    /\ Len(mobIntents) < MobQueue
    /\ mobIntents' = Append(mobIntents, intent)

PlayUnderWay == \E p \in mobPlays : p.live

Aborted == {[p EXCEPT !.live = FALSE] : p \in mobPlays}

\* play(): the previous call is aborted; permission and the playlist are awaited.
Play(st) ==
    /\ Act
    /\ mobPlays' = Aborted \cup {[st |-> st, live |-> TRUE]}
    /\ mobWish' = st
    /\ UNCHANGED <<mobIntents, mobService, mobWorker, engineVars, mobSaved, mobSent>>

\* Fault: radio.play does not look at its signal after the await.
Resolved_Aborted == \E p \in mobPlays :
    /\ mobPlays' = mobPlays \ {p}
    /\ Post([act |-> "playStation", st |-> p.st]) /\ mobSent' = p.st
    /\ UNCHANGED <<mobService, mobWorker, engineVars, mobSaved, mobWish, mobActs>>

\* resolveStation answered: an aborted call ends here.
Resolved == \E p \in mobPlays :
    /\ mobPlays' = mobPlays \ {p}
    /\ IF p.live THEN Post([act |-> "playStation", st |-> p.st]) /\ mobSent' = p.st
                 ELSE UNCHANGED <<mobIntents, mobSent>>
    /\ UNCHANGED <<mobService, mobWorker, engineVars, mobSaved, mobWish, mobActs>>

\* No playlist, a bad url or a timeout: the error is shown.
Unresolved == \E p \in mobPlays :
    /\ mobPlays' = mobPlays \ {p}
    /\ mobWish' = IF p.live THEN mobSent ELSE mobWish
    /\ UNCHANGED <<mobIntents, mobService, mobWorker, engineVars, mobSaved, mobSent,
                   mobActs>>

\* AtradioEngineModule.control: a service that is not running only hears "play".
ServiceCommand(action) ==
    IF mobService.on \/ action = "play"
    THEN Post([act |-> action, st |-> NoStation])
    ELSE UNCHANGED mobIntents

\* control(): pause and stop abort a play under way.  A stop that comes between the
\* first intent and onCreate is not heard: what was posted will play.
Control(action) ==
    /\ Act
    /\ mobPlays' = IF action = "play" THEN mobPlays ELSE Aborted
    /\ ServiceCommand(action)
    /\ mobWish' = IF action = "play"
                  THEN IF PlayUnderWay THEN mobWish ELSE mobSent
                  ELSE IF mobService.on THEN NoStation ELSE mobSent
    /\ UNCHANGED <<mobService, mobWorker, engineVars, mobSaved, mobSent>>

-----------------------------------------------------------------------------
(* The service.  All of it runs on the main thread.                        *)

Work(cmd) == Len(mobWorker) < MobQueue /\ mobWorker' = Append(mobWorker, cmd)

\* pause(): the stream is closed, to resume at the live edge.
Paused(svc, abandon) ==
    /\ mobService' = [svc EXCEPT !.playing = FALSE, !.blamed = FALSE,
                                 !.focus = IF abandon THEN "none" ELSE @]
    /\ Work(NoStation)

\* shutdown(): stopSelf ends the service behind the intents posted already.
Shutdown(svc, rest) ==
    /\ Paused([svc EXCEPT !.station = NoStation], TRUE)
    /\ mobIntents' = Append(rest, [act |-> "destroy", st |-> NoStation])

\* startLive(): Android may refuse audio focus to who does not hold it.
StartLive(svc, rest) ==
    IF svc.station = NoStation THEN Shutdown(svc, rest)
    ELSE /\ mobIntents' = rest
         /\ \/ /\ mobService' = [svc EXCEPT !.playing = TRUE, !.blamed = FALSE,
                                            !.focus = "held"]
               /\ Work(svc.station)
            \/ svc.focus # "held" /\ mobService' = svc /\ UNCHANGED mobWorker

\* onStartCommand, after onCreate, which loads the library, when the service was not
\* running.
Serve ==
    /\ mobIntents # <<>> /\ Head(mobIntents).act # "destroy"
    /\ LET intent == Head(mobIntents)
           rest   == Tail(mobIntents)
           svc    == [mobService EXCEPT !.on = TRUE]
       IN  CASE intent.act = "playStation" ->
                  /\ mobSaved' = intent.st
                  /\ StartLive([svc EXCEPT !.station = intent.st], rest)
             [] intent.act = "play" ->
                  /\ StartLive([svc EXCEPT !.station = IF @ = NoStation
                                                       THEN mobSaved ELSE @], rest)
                  /\ UNCHANGED mobSaved
             [] intent.act = "pause" ->
                  /\ Paused([svc EXCEPT !.resume = FALSE], TRUE)
                  /\ mobIntents' = rest /\ UNCHANGED mobSaved
             [] intent.act = "stop" ->
                  Shutdown(svc, rest) /\ UNCHANGED mobSaved
    /\ \/ UNCHANGED mobLoaded
       \/ ~mobService.on /\ mobLoaded' = TRUE
    /\ UNCHANGED <<mobPlays, mobFailures, mobEnded, mobEngine, mobWish, mobSent, mobActs>>

\* onDestroy: the worker gets a last stop and finishes alone; nobody hears of its
\* failures.
Destroy ==
    /\ mobIntents # <<>> /\ Head(mobIntents).act = "destroy"
    /\ Len(mobEnded) < MobQueue
    /\ mobIntents' = Tail(mobIntents)
    /\ mobService' = Off
    /\ mobEnded' = Append(mobEnded, Append(mobWorker, NoStation))
    /\ mobWorker' = <<>> /\ mobFailures' = 0
    /\ UNCHANGED <<mobPlays, mobLoaded, mobEngine, mobSaved, mobWish, mobSent, mobActs>>

\* The controls of the media session: the notification, a headset, a car. They call the
\* service past the intents on their way, and know of no play() under way.
Session(action) ==
    /\ mobService.on /\ Act
    /\ CASE action = "play"  -> StartLive(mobService, mobIntents)
         [] action = "pause" -> /\ Paused([mobService EXCEPT !.resume = FALSE], TRUE)
                                /\ UNCHANGED mobIntents
         [] action = "stop"  -> Shutdown(mobService, mobIntents)
    /\ mobWish' = IF PlayUnderWay \/ mobIntents # <<>> THEN mobWish
                  ELSE IF action = "play" THEN mobService.station ELSE NoStation
    /\ UNCHANGED <<mobPlays, engineVars, mobSaved, mobSent>>

\* The focus listener: a transient loss and its end, or a loss for good; losses may
\* follow one another.
FocusLost(transient) ==
    /\ mobService.focus \in {"held", "lent"}
    /\ Paused([mobService EXCEPT !.resume = transient /\ mobService.playing,
                                 !.focus = "lent"], ~transient)
    /\ UNCHANGED <<mobPlays, mobIntents, engineVars, mobSaved, mobWish, mobSent,
                   mobActs>>

FocusBack ==
    /\ mobService.focus = "lent"
    /\ IF mobService.resume
       THEN StartLive([mobService EXCEPT !.resume = FALSE, !.focus = "held"], mobIntents)
       ELSE /\ mobService' = [mobService EXCEPT !.focus = "held"]
            /\ UNCHANGED <<mobWorker, mobIntents>>
    /\ UNCHANGED <<mobPlays, engineVars, mobSaved, mobWish, mobSent, mobActs>>

\* The headphones are unplugged; the station did not respond for 35 seconds.
Unplugged ==
    /\ mobService.on
    /\ Paused([mobService EXCEPT !.resume = FALSE], TRUE)
    /\ mobWish' = IF PlayUnderWay \/ mobIntents # <<>> THEN mobWish ELSE NoStation
    /\ UNCHANGED <<mobPlays, mobIntents, engineVars, mobSaved, mobSent, mobActs>>

NoResponse ==
    /\ mobService.playing
    /\ Paused(mobService, TRUE)
    /\ UNCHANGED <<mobPlays, mobIntents, engineVars, mobSaved, mobWish, mobSent,
                   mobActs>>

\* A failed command's error arrives, whatever the service has been asked since: it takes
\* itself for silent.
Blamed ==
    /\ mobFailures > 0
    /\ mobFailures' = mobFailures - 1
    /\ mobService' = [mobService EXCEPT !.playing = FALSE, !.blamed = TRUE]
    /\ UNCHANGED <<mobPlays, mobIntents, mobWorker, mobEnded, mobLoaded, mobEngine,
                   mobSaved, mobWish, mobSent, mobActs>>

-----------------------------------------------------------------------------
(* The workers and the engine.                                             *)

Obey(cmd) == mobEngine' = IF mobLoaded THEN cmd ELSE mobEngine

\* The single thread of the worker reaches the engine, or its command fails.
Drive ==
    /\ mobWorker # <<>>
    /\ mobFailures < MobQueue
    /\ Obey(Head(mobWorker))
    /\ mobWorker' = Tail(mobWorker)
    /\ mobFailures' = IF mobLoaded THEN mobFailures ELSE mobFailures + 1
    /\ UNCHANGED <<mobPlays, mobIntents, mobService, mobEnded, mobLoaded, mobSaved,
                   mobWish, mobSent, mobActs>>

\* So does the worker of a service that ended.
DriveEnded == \E i \in DOMAIN mobEnded :
    /\ mobEnded[i] # <<>>
    /\ Obey(Head(mobEnded[i]))
    /\ mobEnded' = [mobEnded EXCEPT ![i] = Tail(@)]
    /\ UNCHANGED <<mobPlays, mobIntents, mobService, mobWorker, mobFailures, mobLoaded,
                   mobSaved, mobWish, mobSent, mobActs>>

\* setEqualizer loads the library too.
Loaded ==
    /\ ~mobLoaded /\ mobLoaded' = TRUE
    /\ UNCHANGED <<mobPlays, mobIntents, mobService, mobWorker, mobFailures, mobEnded,
                   mobEngine, mobSaved, mobWish, mobSent, mobActs>>

MobNext ==
    \/ \E st \in MobStation : Play(st)
    \/ \E action \in {"play", "pause", "stop"} : Control(action) \/ Session(action)
    \/ Resolved \/ Unresolved \/ Serve \/ Destroy
    \/ \E transient \in BOOLEAN : FocusLost(transient)
    \/ FocusBack \/ Unplugged \/ NoResponse \/ Blamed
    \/ Drive \/ DriveEnded \/ Loaded

MobSpec == MobInit /\ [][MobNext]_mobVars

-----------------------------------------------------------------------------
(* Properties.                                                             *)

WorkersIdle == mobWorker = <<>> /\ \A i \in DOMAIN mobEnded : mobEnded[i] = <<>>

NoStrayStream ==
    WorkersIdle /\ ~mobService.blamed /\ mobEngine # NoStation =>
        mobService.playing /\ mobEngine = mobService.station

\* Once the workers are idle no stream goes on behind a service that shows silence or
\* another station; only the late error of an earlier command makes it show silence
\* wrongly, until its next command (RadioService.kt:94-99). And when all that was asked
\* has arrived, nothing but the station last wished for is heard, whatever plays were
\* overtaken, aborted, interrupted by other audio or failed, and although the worker of
\* a service that ended may silence its successor (RadioService.kt:25, 171).
LastWishHeard ==
    /\ NoStrayStream
    /\ mobPlays = {} /\ mobIntents = <<>> /\ WorkersIdle
           => mobEngine \in {NoStation, mobWish}
=============================================================================
