------------------------------ MODULE WebPlayer ------------------------------
(***************************************************************************)
(* The browser's player (components/Player.tsx): one station, loaded by an *)
(* effect that resolves it and boots the engine, and two backends, the     *)
(* Rockbox engine and the <audio> element that HLS needs and a failing     *)
(* engine falls back to.  React runs the effects of a change before the    *)
(* next event.  External: the engine emits an error when a decode is       *)
(* stopped (Player.tsx:237).                                               *)
(***************************************************************************)
EXTENDS Naturals

CONSTANTS WpStation, WpNone,  \* stations, and none
          WpActs              \* bound: what the listener does

VARIABLES
    wpStation,  \* currentStationAtom
    wpPlaying,  \* isPlayingAtom
    wpStatus,   \* playbackStatusAtom
    wpOwner,    \* engineRef: "rockbox", "native" or "none"
    wpUrl,      \* currentUrlRef, and whether it fell back already
    wpRock,     \* the engine: [st, going, ready, muted]
    wpAudio,    \* the element: [st, going]
    wpLoads,    \* loads under way: [st, step, live]
    wpErrors,   \* the engine's error event is on its way
    wpTitle,    \* nowPlayingAtom: whose title is shown
    wpPolls,    \* ICY polls under way: [st, live]
    wpView,     \* [full, muted]: fullscreen, mute
    wpActed     \* how often the listener acted

wpVars == <<wpStation, wpPlaying, wpStatus, wpOwner, wpUrl, wpRock, wpAudio, wpLoads,
            wpErrors, wpTitle, wpPolls, wpView, wpActed>>
wpBackends == <<wpRock, wpAudio, wpErrors>>
wpFlows    == <<wpLoads, wpPolls>>

Quiet == [st |-> WpNone, going |-> FALSE]

WpInit ==
    /\ wpStation = WpNone /\ wpPlaying = FALSE /\ wpStatus = "idle"
    /\ wpOwner = "none" /\ wpUrl = [st |-> WpNone, fell |-> FALSE]
    /\ wpRock = [st |-> WpNone, going |-> FALSE, ready |-> FALSE, muted |-> FALSE]
    /\ wpAudio = Quiet /\ wpLoads = {} /\ wpErrors = FALSE
    /\ wpTitle = WpNone /\ wpPolls = {}
    /\ wpView = [full |-> FALSE, muted |-> FALSE] /\ wpActed = 0

Listener == wpActed < WpActs /\ wpActed' = wpActed + 1

-----------------------------------------------------------------------------
(* The backends.                                                           *)

\* p.stop() aborts the decode, which reports an error later.
RockStops == /\ wpRock' = [wpRock EXCEPT !.going = FALSE]
             /\ wpErrors' = (wpErrors \/ wpRock.going)

\* fallbackToNative: the engine stops before the element takes over.
FallBack(st) ==
    /\ RockStops
    /\ wpOwner' = "native" /\ wpStatus' = "loading"
    /\ wpAudio' = [st |-> st, going |-> TRUE]
    /\ wpUrl' = [st |-> st, fell |-> TRUE]

\* The play/pause effect: the intent reaches the backend that owns playback.
Drives(playing) ==
    IF wpOwner = "rockbox"
    THEN /\ \E resumes \in {playing, wpRock.going /\ playing} :
               wpRock' = [wpRock EXCEPT !.going = resumes]
         /\ UNCHANGED <<wpAudio, wpErrors>>
    ELSE /\ wpAudio' = [wpAudio EXCEPT !.going = playing /\ wpAudio.st # WpNone]
         /\ UNCHANGED <<wpRock, wpErrors>>

Intends(playing) ==
    /\ wpPlaying' = playing
    /\ IF playing = wpPlaying \/ wpStation = WpNone THEN UNCHANGED wpBackends
                                                    ELSE Drives(playing)

-----------------------------------------------------------------------------
(* Loading.                                                                *)

\* The cleanup of the load effect.
CancelLoad == /\ wpLoads' = {[l EXCEPT !.live = FALSE] : l \in wpLoads}
              /\ wpPolls' = {[p EXCEPT !.live = FALSE] : p \in wpPolls}

\* Fault: the engine still counts as the owner while the stations are switched.
LoadStation_Owned(st) ==
    /\ wpStation' = st /\ wpPlaying' = TRUE /\ wpStatus' = "loading"
    /\ wpTitle' = WpNone /\ wpUrl' = [wpUrl EXCEPT !.fell = FALSE]
    /\ wpAudio' = Quiet /\ RockStops
    /\ wpLoads' = {[l EXCEPT !.live = FALSE] : l \in wpLoads}
                  \cup {[st |-> st, step |-> "resolve", live |-> TRUE]}
    /\ wpPolls' = {[p EXCEPT !.live = FALSE] : p \in wpPolls}
    /\ UNCHANGED wpOwner

\* The load effect of another station: nobody owns playback during the switch.
LoadStation(st) ==
    /\ wpStation' = st /\ wpPlaying' = TRUE /\ wpStatus' = "loading"
    /\ wpTitle' = WpNone /\ wpUrl' = [wpUrl EXCEPT !.fell = FALSE]
    /\ wpOwner' = "none"
    /\ wpAudio' = Quiet /\ RockStops
    /\ wpLoads' = {[l EXCEPT !.live = FALSE] : l \in wpLoads}
                  \cup {[st |-> st, step |-> "resolve", live |-> TRUE]}
    /\ wpPolls' = {[p EXCEPT !.live = FALSE] : p \in wpPolls}

\* playStationAtom, from a card, the row of recent plays, or another device.
Select(st) ==
    /\ Listener
    /\ IF st # wpStation THEN LoadStation(st)
       ELSE /\ Intends(TRUE) /\ wpStatus' = "loading"
            /\ UNCHANGED <<wpStation, wpOwner, wpUrl, wpTitle, wpFlows>>
    /\ UNCHANGED wpView

\* What resolveStream finds, a playlist of TuneIn unwrapped, or failing that the url as it
\* is: HLS that the element plays, HLS for hls.js, or a stream for the engine.
ResolvedKinds == {"hls", "hls.js", "direct"}

\* resolveStream answered: HLS goes to the element, which may need hls.js first; a
\* direct stream waits for the engine while its titles are polled.
Resolve(l, kind) ==
    /\ l.step = "resolve"
    /\ wpUrl' = [wpUrl EXCEPT !.st = l.st]
    /\ CASE kind = "hls" ->
              /\ wpOwner' = "native"
              /\ wpAudio' = [st |-> l.st, going |-> TRUE]
              /\ wpLoads' = wpLoads \ {l}
              /\ UNCHANGED wpPolls
         [] kind = "hls.js" ->
              /\ wpOwner' = "native"
              /\ wpLoads' = (wpLoads \ {l}) \cup {[l EXCEPT !.step = "hls.js"]}
              /\ UNCHANGED <<wpAudio, wpPolls>>
         [] kind = "direct" ->
              /\ wpLoads' = (wpLoads \ {l}) \cup {[l EXCEPT !.step = "boot"]}
              /\ wpPolls' = wpPolls \cup {[st |-> l.st, live |-> TRUE]}
              /\ UNCHANGED <<wpOwner, wpAudio>>
    /\ UNCHANGED <<wpStatus, wpRock, wpErrors>>

\* hls.js is there, or could not be imported.
AttachHls(l, ok) ==
    /\ l.step = "hls.js"
    /\ wpLoads' = wpLoads \ {l}
    /\ IF ok THEN wpAudio' = [st |-> l.st, going |-> TRUE] /\ UNCHANGED wpStatus
             ELSE wpStatus' = "error" /\ UNCHANGED wpAudio
    /\ UNCHANGED <<wpOwner, wpUrl, wpRock, wpErrors, wpPolls>>

\* The engine is booted, or not: setQueue plays, whatever the listener wants by now.
Boot(l, ok) ==
    /\ l.step = "boot"
    /\ wpLoads' = wpLoads \ {l}
    /\ IF ok THEN /\ wpOwner' = "rockbox"
                  /\ wpRock' = [st |-> l.st, going |-> TRUE, ready |-> TRUE,
                                muted |-> wpView.muted]
                  /\ UNCHANGED <<wpStatus, wpUrl, wpAudio, wpErrors>>
             ELSE FallBack(l.st)
    /\ UNCHANGED wpPolls

\* A step of a load; one that was cancelled ends here.
Loading == \E l \in wpLoads :
    /\ IF l.live
       THEN \/ \E kind \in ResolvedKinds : Resolve(l, kind)
            \/ \E ok \in BOOLEAN : AttachHls(l, ok) \/ Boot(l, ok)
       ELSE /\ wpLoads' = wpLoads \ {l}
            /\ UNCHANGED <<wpStatus, wpOwner, wpUrl, wpBackends, wpPolls>>
    /\ UNCHANGED <<wpStation, wpPlaying, wpTitle, wpView, wpActed>>

\* A title arrives: the poll is over, or goes on; an aborted one is not heard.
IcyTitle == \E p \in wpPolls :
    /\ IF p.live THEN wpTitle' = p.st /\ UNCHANGED wpPolls
                 ELSE wpPolls' = wpPolls \ {p} /\ UNCHANGED wpTitle
    /\ UNCHANGED <<wpStation, wpPlaying, wpStatus, wpOwner, wpUrl, wpBackends, wpLoads,
                   wpView, wpActed>>

-----------------------------------------------------------------------------
(* Events of the backends; those of one that does not own playback are not  *)
(* heard, but for the element's progress.                                   *)

EnginePlays ==
    /\ wpRock.going /\ wpOwner = "rockbox"
    /\ wpStatus' = "playing" /\ wpTitle' = wpRock.st
    /\ UNCHANGED <<wpStation, wpPlaying, wpOwner, wpUrl, wpBackends, wpFlows, wpView,
                   wpActed>>

\* The engine fails, or the error of a stopped decode arrives: the url falls back once.
EngineError ==
    /\ wpErrors \/ wpRock.going
    /\ IF wpOwner # "rockbox"
       THEN wpErrors' = FALSE /\ UNCHANGED <<wpPlaying, wpStatus, wpOwner, wpUrl,
                                             wpRock, wpAudio>>
       ELSE IF wpUrl.fell
       THEN /\ wpStatus' = "error" /\ wpPlaying' = FALSE
            /\ wpRock' = [wpRock EXCEPT !.going = FALSE] /\ wpErrors' = FALSE
            /\ UNCHANGED <<wpOwner, wpUrl, wpAudio>>
       ELSE FallBack(wpUrl.st) /\ UNCHANGED wpPlaying
    /\ UNCHANGED <<wpStation, wpTitle, wpFlows, wpView, wpActed>>

AudioPlays == \E status \in {"playing", "loading"} :
    /\ wpAudio.going
    /\ wpStatus' = status
    /\ UNCHANGED <<wpStation, wpPlaying, wpOwner, wpUrl, wpBackends, wpTitle, wpFlows,
                   wpView, wpActed>>

\* The element fails, or the stream ends.
AudioEnds == \E status \in {"error", wpStatus} :
    /\ wpAudio.going /\ wpOwner = "native"
    /\ wpAudio' = [wpAudio EXCEPT !.going = FALSE]
    /\ wpStatus' = status /\ wpPlaying' = FALSE
    /\ UNCHANGED <<wpStation, wpOwner, wpUrl, wpRock, wpErrors, wpTitle, wpFlows, wpView,
                   wpActed>>

-----------------------------------------------------------------------------
(* Controls: the bar, the fullscreen view, keys, the media session, and the *)
(* commands of other devices.                                               *)

Toggle(playing) ==
    /\ Listener
    /\ Intends(playing)
    /\ UNCHANGED <<wpStation, wpStatus, wpOwner, wpUrl, wpTitle, wpFlows, wpView>>

\* handleStop: the station stays.
HandleStop ==
    /\ wpStation # WpNone /\ Listener
    /\ wpPlaying' = FALSE /\ wpStatus' = "idle" /\ wpTitle' = WpNone
    /\ RockStops /\ wpAudio' = Quiet
    /\ UNCHANGED <<wpStation, wpOwner, wpUrl, wpFlows, wpView>>

\* The "stop" of another device: no station is left, and the effects end at that.
RemoteStop ==
    /\ Listener
    /\ wpStation' = WpNone /\ wpPlaying' = FALSE /\ wpStatus' = "idle"
    /\ IF wpStation = WpNone THEN UNCHANGED wpFlows ELSE CancelLoad
    /\ wpView' = [wpView EXCEPT !.full = FALSE]
    /\ UNCHANGED <<wpOwner, wpUrl, wpBackends, wpTitle>>

\* Mute, or a volume of zero: both backends hear of it.
Mute ==
    /\ wpView' = [wpView EXCEPT !.muted = ~@]
    /\ wpRock' = IF wpRock.ready THEN [wpRock EXCEPT !.muted = ~wpView.muted] ELSE wpRock
    /\ UNCHANGED <<wpStation, wpPlaying, wpStatus, wpOwner, wpUrl, wpAudio, wpErrors,
                   wpTitle, wpFlows, wpActed>>

\* The fullscreen view opens over a station only, and closes with it.
Expand ==
    /\ wpStation # WpNone \/ wpView.full
    /\ wpView' = [wpView EXCEPT !.full = ~@]
    /\ UNCHANGED <<wpStation, wpPlaying, wpStatus, wpOwner, wpUrl, wpBackends, wpTitle,
                   wpFlows, wpActed>>

\* A card toggles its station when that is loaded, and selects it otherwise; the row of
\* recent plays, and "playStation" of another device, select.
Card(st) == IF st = wpStation THEN Toggle(~wpPlaying) ELSE Select(st)
PlayCard(st) == Select(st)

\* The system's controls, the keys, the fullscreen view and the bar.
MediaSession == HandleStop \/ \E playing \in BOOLEAN : Toggle(playing)
KeyPressed         == Mute \/ (wpStation # WpNone /\ (Toggle(~wpPlaying) \/ Expand))
Fullscreen   == wpView.full /\ (Toggle(~wpPlaying) \/ Mute \/ Expand)
Bar          == Mute \/ HandleStop
                     \/ (wpStation # WpNone /\ (Toggle(~wpPlaying) \/ (~wpView.full /\ Expand)))

WpNext ==
    \/ \E st \in WpStation : Card(st) \/ PlayCard(st)
    \/ Loading \/ IcyTitle \/ EnginePlays \/ EngineError \/ AudioPlays \/ AudioEnds
    \/ MediaSession \/ KeyPressed \/ Fullscreen \/ Bar \/ RemoteStop
    \/ Toggle(FALSE)   \* the hand-off to a remote device

WpSpec == WpInit /\ [][WpNext]_wpVars

-----------------------------------------------------------------------------
(* Properties.                                                             *)

\* "Exactly one backend is ever audible" (Player.tsx:147): not both, however late the
\* errors of a stopped engine arrive; and what is shown and muted is the selected
\* station's: no title of another, no engine louder than the mute.
OneBackend ==
    /\ ~(wpRock.going /\ wpAudio.going)
    /\ wpStation # WpNone => wpTitle \in {WpNone, wpStation}
    /\ wpRock.ready => wpRock.muted = wpView.muted
=============================================================================
