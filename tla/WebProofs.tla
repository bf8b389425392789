------------------------------- MODULE WebProofs -------------------------------
(***************************************************************************)
(* What holds in the browser for every set of stations and users and every *)
(* number of acts, failures and late answers.                              *)
(*                                                                         *)
(* The player: one backend is audible, and it is the owner's; the load of  *)
(* a station begins by taking playback from both, and only one load is not *)
(* cancelled, so that whoever boots late boots the station on the screen.  *)
(*                                                                         *)
(* The library: a write under way is the only difference between a list on *)
(* the screen and the repository, station by station, but for the stations *)
(* of failed writes that had landed; that is why it may put a whole list   *)
(* back when it fails.                                                     *)
(*                                                                         *)
(* The discussion: what a user was told of a comment is what the panel     *)
(* itself holds of it, which no poll and no live event takes away.         *)
(*                                                                         *)
(* The settings: a sign-in does not clobber the record, unless a write of  *)
(* an earlier session is answered in it. Both ways a restore can end leave *)
(* settings that count as synced, or an account without a record; a render *)
(* then finds nothing to write, until an edit or such a late answer moves  *)
(* one of the two.                                                         *)
(*                                                                         *)
(* The socket client and the session: whoever is still wanted has exactly  *)
(* one way on, a socket or a timer, a refresh that is armed or under way;  *)
(* and only the late answer of a restore takes a fresh sign-in away.       *)
(***************************************************************************)
EXTENDS WebSettings, WebPlayer, WebLibrary, WebDiscussion, WebConnect, WebSession, TLAPS

-----------------------------------------------------------------------------
(* The player (WebPlayer).                                                 *)

StationOrNone == WpStation \cup {WpNone}

UrlType   == [st : StationOrNone, fell : BOOLEAN]
RockType  == [st : StationOrNone, going : BOOLEAN, ready : BOOLEAN, muted : BOOLEAN]
AudioType == [st : StationOrNone, going : BOOLEAN]
LoadType  == [st : StationOrNone, step : {"resolve", "hls.js", "boot"}, live : BOOLEAN]
PollType  == [st : StationOrNone, live : BOOLEAN]

WpTypeOK ==
    /\ wpStation \in StationOrNone /\ wpTitle \in StationOrNone
    /\ wpPlaying \in BOOLEAN /\ wpErrors \in BOOLEAN
    /\ wpStatus \in {"idle", "loading", "playing", "error"}
    /\ wpOwner \in {"none", "native", "rockbox"}
    /\ wpUrl \in UrlType /\ wpRock \in RockType /\ wpAudio \in AudioType
    /\ wpLoads \subseteq LoadType /\ wpPolls \subseteq PollType
    /\ wpView \in [full : BOOLEAN, muted : BOOLEAN]

\* The backend that plays is the one that owns playback, and the engine owns it with the
\* station on the screen.
OwnerPlays ==
    /\ wpRock.going => wpOwner = "rockbox"
    /\ wpAudio.st # WpNone \/ wpAudio.going => wpOwner = "native"
    /\ wpOwner = "rockbox" /\ wpStation # WpNone => wpRock.st = wpStation

\* Only one load is not cancelled, that of the station on the screen; until it is over
\* nobody owns playback but the element that waits for hls.js.
OneLoad == \A l \in wpLoads : l.live =>
    /\ l.st = wpStation
    /\ wpOwner = IF l.step = "hls.js" THEN "native" ELSE "none"
    /\ \A m \in wpLoads : m.live => m = l

\* The polls that were not aborted are the station's, and so is the title.
TitlesAreCurrent ==
    /\ \A p \in wpPolls : p.live => p.st = wpStation
    /\ wpStation # WpNone => wpTitle \in {WpNone, wpStation}

MutesReach == wpRock.ready => wpRock.muted = wpView.muted

BackendInv == WpTypeOK /\ OwnerPlays /\ OneLoad /\ TitlesAreCurrent /\ MutesReach

\* The records the player's steps build are of their types.
LEMMA PlayerRecords ==
    ASSUME NEW st \in StationOrNone, NEW yes \in BOOLEAN
    PROVE  /\ WpNone \in StationOrNone
           /\ [st |-> st, going |-> yes] \in AudioType /\ Quiet \in AudioType
           /\ [st |-> st, fell |-> yes] \in UrlType
           /\ [st |-> st, live |-> yes] \in PollType
           /\ [st |-> st, step |-> "resolve", live |-> TRUE] \in LoadType
           /\ [st |-> st, going |-> TRUE, ready |-> TRUE, muted |-> yes] \in RockType
  BY DEF StationOrNone, AudioType, Quiet, UrlType, PollType, LoadType, RockType

\* So are those a step changes.
LEMMA RockUpdates ==
    ASSUME NEW rock \in RockType, NEW yes \in BOOLEAN
    PROVE  /\ [rock EXCEPT !.going = yes] \in RockType
           /\ [rock EXCEPT !.muted = yes] \in RockType
           /\ [rock EXCEPT !.going = yes].going = yes
           /\ [rock EXCEPT !.going = yes].st = rock.st
           /\ [rock EXCEPT !.going = yes].ready = rock.ready
           /\ [rock EXCEPT !.going = yes].muted = rock.muted
           /\ rock.going \in BOOLEAN
  BY DEF RockType

LEMMA AudioUpdates ==
    ASSUME NEW audio \in AudioType, NEW yes \in BOOLEAN
    PROVE  /\ [audio EXCEPT !.going = yes] \in AudioType
           /\ [audio EXCEPT !.going = yes].going = yes
           /\ [audio EXCEPT !.going = yes].st = audio.st
           /\ audio.going \in BOOLEAN
  BY DEF AudioType

LEMMA UrlUpdates ==
    ASSUME NEW url \in UrlType, NEW st \in StationOrNone, NEW yes \in BOOLEAN
    PROVE  /\ [url EXCEPT !.st = st] \in UrlType /\ [url EXCEPT !.fell = yes] \in UrlType
           /\ url.st \in StationOrNone
  BY DEF UrlType

\* What a cancelled load or an aborted poll leaves is not live.
LEMMA Cancelled ==
    ASSUME WpTypeOK
    PROVE  /\ {[l EXCEPT !.live = FALSE] : l \in wpLoads} \subseteq LoadType
           /\ {[p EXCEPT !.live = FALSE] : p \in wpPolls} \subseteq PollType
           /\ \A l \in {[l EXCEPT !.live = FALSE] : l \in wpLoads} : ~l.live
           /\ \A p \in {[p EXCEPT !.live = FALSE] : p \in wpPolls} : ~p.live
  <1>1. ASSUME NEW l \in wpLoads
        PROVE  [l EXCEPT !.live = FALSE] \in LoadType /\ ~[l EXCEPT !.live = FALSE].live
    <2>1. l \in LoadType
      BY DEF WpTypeOK
    <2> QED BY <2>1 DEF LoadType
  <1>2. ASSUME NEW p \in wpPolls
        PROVE  [p EXCEPT !.live = FALSE] \in PollType /\ ~[p EXCEPT !.live = FALSE].live
    <2>1. p \in PollType
      BY DEF WpTypeOK
    <2> QED BY <2>1 DEF PollType
  <1> QED BY <1>1, <1>2, Zenon

\* The element takes over from an engine that was stopped.
LEMMA FallBackHandsOver ==
    ASSUME WpTypeOK, NEW st \in StationOrNone, FallBack(st)
    PROVE  /\ wpRock' \in RockType /\ wpErrors' \in BOOLEAN /\ wpAudio' \in AudioType
           /\ wpUrl' \in UrlType /\ wpOwner' = "native" /\ wpStatus' = "loading"
           /\ ~wpRock'.going /\ wpRock'.ready = wpRock.ready /\ wpRock'.muted = wpRock.muted
  <1>1. wpRock \in RockType /\ wpErrors \in BOOLEAN
    BY DEF WpTypeOK
  <1>2. (wpErrors \/ wpRock.going) \in BOOLEAN
    OBVIOUS
  <1>3. wpAudio' \in AudioType /\ wpUrl' \in UrlType
    BY PlayerRecords DEF FallBack
  <1>4. wpRock' = [wpRock EXCEPT !.going = FALSE] /\ wpErrors' = (wpErrors \/ wpRock.going)
    BY DEF FallBack, RockStops
  <1> QED BY <1>1, <1>2, <1>3, <1>4, RockUpdates DEF FallBack

\* Another station is loaded: both backends are silenced before anything is resolved.
LEMMA LoadKeepsTheOwner ==
    ASSUME BackendInv, NEW st \in WpStation, LoadStation(st), UNCHANGED wpView
    PROVE  BackendInv'
  <1>1. WpTypeOK'
    <2>1. WpTypeOK /\ st \in StationOrNone
      BY DEF BackendInv, StationOrNone
    <2>2. /\ wpRock' \in RockType /\ wpErrors' \in BOOLEAN /\ wpUrl' \in UrlType
          /\ wpAudio' \in AudioType
      BY <2>1, PlayerRecords, RockUpdates, UrlUpdates DEF WpTypeOK, LoadStation, RockStops
    <2>3. wpLoads' \subseteq LoadType /\ wpPolls' \subseteq PollType
      BY <2>1, PlayerRecords, Cancelled DEF LoadStation
    <2> QED BY <2>1, <2>2, <2>3, PlayerRecords DEF WpTypeOK, LoadStation
  <1>2. OwnerPlays'
    BY DEF BackendInv, WpTypeOK, LoadStation, RockStops, Quiet, OwnerPlays
  <1>3. OneLoad'
    <2> DEFINE new  == [st |-> st, step |-> "resolve", live |-> TRUE]
               dead == {[l EXCEPT !.live = FALSE] : l \in wpLoads}
    <2>1. \A l \in dead : ~l.live
      BY Cancelled DEF BackendInv
    <2>2. wpLoads' = dead \cup {new} /\ wpStation' = st /\ wpOwner' = "none"
      BY DEF LoadStation
    <2>3. new.st = st /\ new.step = "resolve"
      OBVIOUS
    <2> HIDE DEF new, dead
    <2> QED BY <2>1, <2>2, <2>3 DEF OneLoad
  <1>4. TitlesAreCurrent'
    <2>1. \A p \in wpPolls' : ~p.live
      BY Cancelled DEF BackendInv, LoadStation
    <2> QED BY <2>1 DEF LoadStation, TitlesAreCurrent
  <1>5. MutesReach'
    BY DEF BackendInv, WpTypeOK, LoadStation, RockStops, MutesReach
  <1> QED BY <1>1, <1>2, <1>3, <1>4, <1>5 DEF BackendInv

\* Play and pause reach the backend that owns playback, and no other.
LEMMA IntentKeepsTheOwner ==
    ASSUME BackendInv, NEW playing \in BOOLEAN, Intends(playing),
           wpStatus' \in {"idle", "loading", "playing", "error"},
           UNCHANGED <<wpStation, wpOwner, wpUrl, wpTitle, wpFlows, wpView>>
    PROVE  BackendInv'
  <1>0. WpTypeOK /\ OwnerPlays /\ MutesReach
    BY DEF BackendInv
  <1>1. /\ UNCHANGED wpErrors /\ wpPlaying' = playing
        /\ \E yes \in BOOLEAN :
              \/ wpRock' = [wpRock EXCEPT !.going = yes] /\ wpOwner = "rockbox"
                 /\ UNCHANGED wpAudio
              \/ wpAudio' = [wpAudio EXCEPT !.going = yes] /\ UNCHANGED wpRock
                 /\ (yes => wpAudio.st # WpNone)
              \/ UNCHANGED <<wpRock, wpAudio>>
    <2>1. wpRock.going \in BOOLEAN
      BY <1>0, RockUpdates DEF WpTypeOK
    <2>2. (wpRock.going /\ playing) \in BOOLEAN /\ (playing /\ wpAudio.st # WpNone) \in BOOLEAN
      OBVIOUS
    <2> QED BY <2>1, <2>2 DEF Intends, Drives, wpBackends
  <1>2. /\ wpRock' \in RockType /\ wpAudio' \in AudioType
        /\ wpRock'.st = wpRock.st /\ wpRock'.ready = wpRock.ready
        /\ wpRock'.muted = wpRock.muted /\ wpAudio'.st = wpAudio.st
        /\ (wpRock'.going => wpRock.going \/ wpOwner = "rockbox")
        /\ (wpAudio'.going => wpAudio.going \/ wpAudio.st # WpNone)
    <2>1. PICK yes \in BOOLEAN :
              \/ wpRock' = [wpRock EXCEPT !.going = yes] /\ wpOwner = "rockbox"
                 /\ UNCHANGED wpAudio
              \/ wpAudio' = [wpAudio EXCEPT !.going = yes] /\ UNCHANGED wpRock
                 /\ (yes => wpAudio.st # WpNone)
              \/ UNCHANGED <<wpRock, wpAudio>>
      BY <1>1
    <2>2. wpRock \in RockType /\ wpAudio \in AudioType
      BY <1>0 DEF WpTypeOK
    <2>3. CASE wpRock' = [wpRock EXCEPT !.going = yes] /\ wpOwner = "rockbox"
               /\ UNCHANGED wpAudio
      <3>1. /\ wpRock' \in RockType /\ wpRock'.st = wpRock.st
            /\ wpRock'.ready = wpRock.ready /\ wpRock'.muted = wpRock.muted
        BY <2>2, <2>3 DEF RockType
      <3> QED BY <2>2, <2>3, <3>1
    <2>4. CASE wpAudio' = [wpAudio EXCEPT !.going = yes] /\ UNCHANGED wpRock
               /\ (yes => wpAudio.st # WpNone)
      BY <2>2, <2>4, AudioUpdates
    <2>5. CASE UNCHANGED <<wpRock, wpAudio>>
      BY <2>2, <2>5
    <2> QED BY <2>1, <2>3, <2>4, <2>5
  <1>3. WpTypeOK' /\ OwnerPlays' /\ MutesReach'
    BY <1>0, <1>1, <1>2 DEF WpTypeOK, OwnerPlays, MutesReach, wpFlows
  <1>4. OneLoad' /\ TitlesAreCurrent'
    BY DEF BackendInv, OneLoad, TitlesAreCurrent, wpFlows
  <1> QED BY <1>3, <1>4 DEF BackendInv

\* The controls of the listener and of other devices.
LEMMA ControlKeepsTheOwner ==
    ASSUME BackendInv, MediaSession \/ KeyPressed \/ Fullscreen \/ Bar \/ RemoteStop
                       \/ Toggle(FALSE)
                       \/ \E st \in WpStation : Card(st) \/ PlayCard(st)
    PROVE  BackendInv'
  <1>1. ASSUME NEW playing \in BOOLEAN, Toggle(playing) PROVE BackendInv'
    <2>1. wpStatus' \in {"idle", "loading", "playing", "error"}
      BY <1>1 DEF Toggle, BackendInv, WpTypeOK
    <2> QED BY <1>1, <2>1, IntentKeepsTheOwner DEF Toggle
  <1>2. ASSUME NEW st \in WpStation, Select(st) PROVE BackendInv'
    <2>1. CASE st # wpStation
      BY <1>2, <2>1, LoadKeepsTheOwner DEF Select
    <2>2. CASE st = wpStation
      BY <1>2, <2>2, IntentKeepsTheOwner DEF Select
    <2> QED BY <2>1, <2>2
  <1>3. CASE HandleStop
    <2>1. WpTypeOK'
      <3>1. WpTypeOK /\ WpNone \in StationOrNone
        BY DEF BackendInv, StationOrNone
      <3>2. wpRock' \in RockType /\ wpErrors' \in BOOLEAN /\ wpAudio' \in AudioType
        BY <1>3, <3>1, PlayerRecords, RockUpdates DEF WpTypeOK, HandleStop, RockStops
      <3> QED BY <1>3, <3>1, <3>2 DEF WpTypeOK, HandleStop, wpFlows
    <2>2. OwnerPlays' /\ MutesReach'
      BY <1>3 DEF HandleStop, BackendInv, WpTypeOK, RockStops, Quiet, OwnerPlays, MutesReach
    <2>3. OneLoad' /\ TitlesAreCurrent'
      BY <1>3 DEF HandleStop, BackendInv, OneLoad, TitlesAreCurrent, wpFlows
    <2> QED BY <2>1, <2>2, <2>3 DEF BackendInv
  <1>4. CASE RemoteStop
    <2>1. WpTypeOK'
      <3>1. WpTypeOK /\ WpNone \in StationOrNone
        BY DEF BackendInv, StationOrNone
      <3>2. wpLoads' \subseteq LoadType /\ wpPolls' \subseteq PollType
        BY <1>4, <3>1, Cancelled DEF RemoteStop, CancelLoad, WpTypeOK, wpFlows
      <3> QED BY <1>4, <3>1, <3>2 DEF RemoteStop, WpTypeOK, wpBackends
    <2>2. OwnerPlays' /\ MutesReach'
      BY <1>4 DEF RemoteStop, BackendInv, WpTypeOK, OwnerPlays, MutesReach, wpBackends
    <2>3. CASE wpStation = WpNone
      BY <1>4, <2>1, <2>2, <2>3 DEF RemoteStop, BackendInv, OneLoad, TitlesAreCurrent,
                                    wpFlows
    <2>4. CASE wpStation # WpNone
      <3>1. (\A l \in wpLoads' : ~l.live) /\ (\A p \in wpPolls' : ~p.live)
        BY <1>4, <2>4, Cancelled DEF RemoteStop, CancelLoad, BackendInv
      <3> QED BY <1>4, <2>1, <2>2, <3>1 DEF RemoteStop, BackendInv, OneLoad, TitlesAreCurrent
    <2> QED BY <2>3, <2>4
  <1>5. CASE Mute
    <2>1. WpTypeOK'
      <3>1. WpTypeOK /\ wpView \in [full : BOOLEAN, muted : BOOLEAN] /\ (~wpView.muted) \in BOOLEAN
        BY DEF BackendInv, WpTypeOK
      <3>2. wpRock' \in RockType
        BY <1>5, <3>1, RockUpdates DEF Mute, WpTypeOK
      <3>3. wpView' \in [full : BOOLEAN, muted : BOOLEAN]
        BY <1>5, <3>1 DEF Mute
      <3> QED BY <1>5, <3>1, <3>2, <3>3 DEF Mute, WpTypeOK, wpFlows
    <2>2. OwnerPlays' /\ MutesReach'
      BY <1>5 DEF Mute, BackendInv, WpTypeOK, RockType, OwnerPlays, MutesReach
    <2>3. OneLoad' /\ TitlesAreCurrent'
      BY <1>5 DEF Mute, BackendInv, OneLoad, TitlesAreCurrent, wpFlows
    <2> QED BY <2>1, <2>2, <2>3 DEF BackendInv
  <1>6. CASE Expand
    <2>1. WpTypeOK' /\ OwnerPlays' /\ MutesReach'
      BY <1>6 DEF Expand, BackendInv, WpTypeOK, OwnerPlays, MutesReach, wpBackends, wpFlows
    <2>2. OneLoad' /\ TitlesAreCurrent'
      BY <1>6 DEF Expand, BackendInv, OneLoad, TitlesAreCurrent, wpFlows
    <2> QED BY <2>1, <2>2 DEF BackendInv
  <1>7. wpPlaying \in BOOLEAN /\ (~wpPlaying) \in BOOLEAN
    BY DEF BackendInv, WpTypeOK
  <1>8. (\E playing \in BOOLEAN : Toggle(playing)) \/ (\E st \in WpStation : Select(st))
        \/ HandleStop \/ RemoteStop \/ Mute \/ Expand
    BY <1>7 DEF MediaSession, KeyPressed, Fullscreen, Bar, Card, PlayCard
  <1> QED BY <1>1, <1>2, <1>3, <1>4, <1>5, <1>6, <1>8

\* A load goes on, or a cancelled one ends: what it does is done for the station on the
\* screen, by the only load that is left.
LEMMA LoadingKeepsTheOwner == ASSUME BackendInv, Loading PROVE BackendInv'
  <1> PICK l \in wpLoads :
         IF l.live
         THEN \/ \E kind \in ResolvedKinds : Resolve(l, kind)
              \/ \E ok \in BOOLEAN : AttachHls(l, ok) \/ Boot(l, ok)
         ELSE /\ wpLoads' = wpLoads \ {l}
              /\ UNCHANGED <<wpStatus, wpOwner, wpUrl, wpBackends, wpPolls>>
    BY DEF Loading
  <1>1. UNCHANGED <<wpStation, wpPlaying, wpTitle, wpView, wpActed>>
    BY DEF Loading
  <1>2. WpTypeOK /\ l \in LoadType /\ l.st \in StationOrNone
    BY DEF BackendInv, WpTypeOK, LoadType
  <1>3. CASE ~l.live
    <2>1. WpTypeOK' /\ OwnerPlays' /\ MutesReach'
      BY <1>1, <1>3 DEF BackendInv, WpTypeOK, OwnerPlays, MutesReach, wpBackends
    <2>2. OneLoad' /\ TitlesAreCurrent'
      BY <1>1, <1>3 DEF BackendInv, OneLoad, TitlesAreCurrent
    <2> QED BY <2>1, <2>2 DEF BackendInv
  <1>4. ASSUME l.live
        PROVE  /\ l.st = wpStation
               /\ wpOwner = IF l.step = "hls.js" THEN "native" ELSE "none"
               /\ \A m \in wpLoads \ {l} : ~m.live
    BY <1>4 DEF BackendInv, OneLoad
  <1>5. ASSUME NEW kind \in ResolvedKinds, l.live, Resolve(l, kind) PROVE BackendInv'
    <2> DEFINE Next1(step) == [l EXCEPT !.step = step]
    <2>1. ASSUME NEW step \in {"hls.js", "boot"}
          PROVE  /\ Next1(step) \in LoadType
                 /\ Next1(step).st = l.st /\ Next1(step).step = step
      BY <1>2 DEF LoadType
    <2>2. WpTypeOK'
      <3>1. wpUrl' \in UrlType
        BY <1>2, <1>5, UrlUpdates DEF Resolve, WpTypeOK
      <3>2. wpOwner' \in {"none", "native", "rockbox"} /\ wpAudio' \in AudioType
        BY <1>2, <1>5, PlayerRecords DEF Resolve, ResolvedKinds, WpTypeOK
      <3>3. wpLoads' \subseteq LoadType
        BY <1>2, <1>5, <2>1 DEF Resolve, ResolvedKinds, WpTypeOK
      <3>4. wpPolls' \subseteq PollType
        BY <1>2, <1>5, PlayerRecords DEF Resolve, ResolvedKinds, WpTypeOK
      <3> QED BY <1>1, <1>2, <1>5, <3>1, <3>2, <3>3, <3>4 DEF Resolve, WpTypeOK
    <2>3. OwnerPlays' /\ MutesReach'
      BY <1>1, <1>4, <1>5 DEF Resolve, ResolvedKinds, BackendInv, WpTypeOK, OwnerPlays,
                              MutesReach
    <2>4. OneLoad'
      <3>1. CASE kind = "hls"
        BY <1>1, <1>4, <1>5, <3>1 DEF Resolve, OneLoad
      <3>2. CASE kind = "hls.js"
        <4>1. wpLoads' = (wpLoads \ {l}) \cup {Next1("hls.js")} /\ wpOwner' = "native"
          BY <1>5, <3>2 DEF Resolve
        <4>2. Next1("hls.js").st = l.st /\ Next1("hls.js").step = "hls.js"
          BY <2>1
        <4> HIDE DEF Next1
        <4> QED BY <1>1, <1>4, <1>5, <4>1, <4>2 DEF OneLoad
      <3>3. CASE kind = "direct"
        <4>1. wpLoads' = (wpLoads \ {l}) \cup {Next1("boot")} /\ wpOwner' = wpOwner
          BY <1>5, <3>3 DEF Resolve
        <4>2. Next1("boot").st = l.st /\ Next1("boot").step = "boot" /\ l.step = "resolve"
          BY <1>5, <2>1 DEF Resolve
        <4> HIDE DEF Next1
        <4> QED BY <1>1, <1>4, <1>5, <4>1, <4>2 DEF OneLoad
      <3> QED BY <3>1, <3>2, <3>3 DEF ResolvedKinds
    <2>5. TitlesAreCurrent'
      <3>1. \A p \in wpPolls' : p \in wpPolls \/ p = [st |-> l.st, live |-> TRUE]
        BY <1>5 DEF Resolve, ResolvedKinds
      <3> QED BY <1>1, <1>4, <1>5, <3>1 DEF BackendInv, TitlesAreCurrent
    <2> QED BY <2>2, <2>3, <2>4, <2>5 DEF BackendInv
  <1>6. ASSUME NEW ok \in BOOLEAN, l.live, AttachHls(l, ok) PROVE BackendInv'
    <2>1. WpTypeOK'
      BY <1>1, <1>2, <1>6, PlayerRecords DEF AttachHls, WpTypeOK
    <2>2. OwnerPlays' /\ MutesReach'
      BY <1>1, <1>4, <1>6 DEF AttachHls, BackendInv, WpTypeOK, OwnerPlays, MutesReach
    <2>3. OneLoad' /\ TitlesAreCurrent'
      BY <1>1, <1>4, <1>6 DEF AttachHls, BackendInv, OneLoad, TitlesAreCurrent
    <2> QED BY <2>1, <2>2, <2>3 DEF BackendInv
  <1>7. ASSUME NEW ok \in BOOLEAN, l.live, Boot(l, ok) PROVE BackendInv'
    <2>1. wpOwner = "none"
      BY <1>4, <1>7 DEF Boot
    <2>2. ASSUME ok PROVE WpTypeOK' /\ OwnerPlays' /\ MutesReach'
      <3>1. wpView.muted \in BOOLEAN
        BY <1>2 DEF WpTypeOK
      <3>2. wpRock' \in RockType
        BY <1>2, <1>7, <2>2, <3>1, PlayerRecords DEF Boot
      <3> QED BY <1>1, <1>2, <1>4, <1>7, <2>1, <2>2, <3>2
              DEF Boot, BackendInv, WpTypeOK, OwnerPlays, MutesReach
    <2>3. ASSUME ~ok PROVE WpTypeOK' /\ OwnerPlays' /\ MutesReach'
      <3>1. FallBack(l.st) /\ wpLoads' = wpLoads \ {l} /\ UNCHANGED wpPolls
        BY <1>7, <2>3 DEF Boot
      <3> QED BY <1>1, <1>2, <3>1, FallBackHandsOver
              DEF BackendInv, WpTypeOK, OwnerPlays, MutesReach
    <2>4. OneLoad' /\ TitlesAreCurrent'
      BY <1>1, <1>4, <1>7 DEF Boot, BackendInv, OneLoad, TitlesAreCurrent
    <2> QED BY <2>2, <2>3, <2>4 DEF BackendInv
  <1> QED BY <1>3, <1>5, <1>6, <1>7

\* The backends' own events: an engine that does not own playback is not heard.
LEMMA EventKeepsTheOwner ==
    ASSUME BackendInv, IcyTitle \/ EnginePlays \/ EngineError \/ AudioPlays \/ AudioEnds
    PROVE  BackendInv'
  <1>1. CASE IcyTitle
    BY <1>1 DEF IcyTitle, BackendInv, WpTypeOK, OwnerPlays, OneLoad, TitlesAreCurrent,
                MutesReach, wpBackends
  <1>2. CASE EnginePlays
    BY <1>2 DEF EnginePlays, BackendInv, WpTypeOK, RockType, OwnerPlays, OneLoad,
                TitlesAreCurrent, MutesReach, wpBackends, wpFlows
  <1>3. CASE EngineError
    <2>1. /\ WpTypeOK /\ wpUrl.st \in StationOrNone /\ wpRock \in RockType
          /\ OwnerPlays /\ MutesReach /\ OneLoad /\ TitlesAreCurrent
      BY DEF BackendInv, WpTypeOK, UrlType
    <2>2. TitlesAreCurrent' /\ UNCHANGED <<wpStation, wpLoads, wpPolls, wpTitle, wpView>>
      BY <1>3, <2>1 DEF EngineError, TitlesAreCurrent, wpFlows
    <2>3. CASE wpOwner # "rockbox"
      BY <1>3, <2>1, <2>2, <2>3 DEF EngineError, BackendInv, WpTypeOK, OwnerPlays, MutesReach,
                                    OneLoad
    <2>4. CASE wpOwner = "rockbox"
      <3>1. OneLoad'
        BY <2>1, <2>2, <2>4 DEF OneLoad
      <3>2. CASE wpUrl.fell
        <4>1. wpRock' = [wpRock EXCEPT !.going = FALSE]
          BY <1>3, <2>4, <3>2 DEF EngineError
        <4>2. /\ wpRock' \in RockType /\ ~wpRock'.going /\ wpRock'.st = wpRock.st
              /\ wpRock'.ready = wpRock.ready /\ wpRock'.muted = wpRock.muted
          BY <2>1, <4>1, RockUpdates
        <4> QED BY <1>3, <2>1, <2>2, <2>4, <3>1, <3>2, <4>2
                DEF EngineError, BackendInv, WpTypeOK, OwnerPlays, MutesReach
      <3>3. CASE ~wpUrl.fell
        <4>1. FallBack(wpUrl.st) /\ UNCHANGED wpPlaying
          BY <1>3, <2>4, <3>3 DEF EngineError
        <4> QED BY <2>1, <2>2, <3>1, <4>1, FallBackHandsOver
                DEF BackendInv, WpTypeOK, OwnerPlays, MutesReach
      <3> QED BY <3>2, <3>3
    <2> QED BY <2>3, <2>4
  <1>4. CASE AudioPlays
    BY <1>4 DEF AudioPlays, BackendInv, WpTypeOK, OwnerPlays, OneLoad, TitlesAreCurrent,
                MutesReach, wpBackends, wpFlows
  <1>5. CASE AudioEnds
    <2>1. wpAudio \in AudioType /\ wpAudio' = [wpAudio EXCEPT !.going = FALSE]
      BY <1>5 DEF AudioEnds, BackendInv, WpTypeOK
    <2>2. wpAudio' \in AudioType /\ ~wpAudio'.going /\ wpAudio'.st = wpAudio.st
      BY <2>1, AudioUpdates
    <2>3. wpStatus' \in {"idle", "loading", "playing", "error"}
      BY <1>5 DEF AudioEnds, BackendInv, WpTypeOK
    <2> QED BY <1>5, <2>2, <2>3 DEF AudioEnds, BackendInv, WpTypeOK, OwnerPlays, OneLoad,
                                    TitlesAreCurrent, MutesReach, wpFlows
  <1> QED BY <1>1, <1>2, <1>3, <1>4, <1>5

\* "Exactly one backend is ever audible" (Player.tsx:147): never the engine and the element
\* at once, no title of another station, no engine louder than the mute, whatever station is
\* chosen while a load, a fallback or the error of a stopped decode is under way.
THEOREM OneBackendIsAudible == WpSpec => []OneBackend
  <1>1. WpInit => BackendInv
    <2> SUFFICES ASSUME WpInit PROVE BackendInv
      OBVIOUS
    <2>1. WpTypeOK
      BY DEF WpInit, WpTypeOK, Quiet, StationOrNone, UrlType, RockType, AudioType
    <2>2. OwnerPlays /\ OneLoad /\ TitlesAreCurrent /\ MutesReach
      BY DEF WpInit, OwnerPlays, OneLoad, TitlesAreCurrent, MutesReach, Quiet
    <2> QED BY <2>1, <2>2 DEF BackendInv
  <1>2. BackendInv /\ [WpNext]_wpVars => BackendInv'
    <2> SUFFICES ASSUME BackendInv, [WpNext]_wpVars PROVE BackendInv'
      OBVIOUS
    <2>1. CASE UNCHANGED wpVars
      BY <2>1 DEF wpVars, BackendInv, WpTypeOK, OwnerPlays, OneLoad, TitlesAreCurrent,
                  MutesReach
    <2> QED BY <2>1, ControlKeepsTheOwner, LoadingKeepsTheOwner, EventKeepsTheOwner
            DEF WpNext
  <1>3. BackendInv => OneBackend
    BY DEF BackendInv, OwnerPlays, TitlesAreCurrent, MutesReach, OneBackend
  <1> QED BY <1>1, <1>2, <1>3, PTL DEF WpSpec

-----------------------------------------------------------------------------
(* The library (WebLibrary).                                               *)

Lists  == [List -> SUBSET WlStation]
OpType == [user : WlUser, list : List, op : {"put", "delete", "create"}, st : WlStation,
           before : SUBSET WlStation, after : SUBSET WlStation]
ListLoad == [user : WlUser, live : BOOLEAN, read : BOOLEAN, data : Lists]

WlTypeOK ==
    /\ wlUser \in WlUser \cup {WlNoUser}
    /\ wlShown \in Lists /\ wlRepo \in [WlUser -> Lists]
    /\ wlLoads \subseteq ListLoad /\ wlOps \subseteq OpType
    /\ wlDirty \in BOOLEAN

\* The stations that no failed write left in doubt.
Sure(list, st) == <<list, st>> \notin wlDoubt

\* The writes of the user that is signed in.
Own(op) == op.user = wlUser

\* What a write replaces differs from what it shows in its station only.
OpsAreSteps == \A op \in wlOps :
    \/ op.op = "delete" /\ op.st \in op.before /\ op.after = op.before \ {op.st}
    \/ op.op = "put" /\ op.st \notin op.before /\ op.after = op.before \cup {op.st}
    \/ op.op = "create" /\ op.list = "own" /\ op.after = op.before

\* Only the load of the session is not cancelled.
OneLoadLives == \A ld \in wlLoads : ld.live =>
    /\ ld.user = wlUser
    /\ \A m \in wlLoads : m.live => m = ld

\* While the session's load is under way nothing of the user is written, so that what it
\* read is what the repository still holds.
LoadIsTrue == (wlUser # WlNoUser /\ ~wlDirty) => \A ld \in wlLoads : ld.live =>
    /\ \A op \in wlOps : ~Own(op)
    /\ ld.read => ld.data = wlRepo[wlUser]

\* A write under way is the only one of its station, and the lists differ from the
\* repository by what it does.
WritesAreApart == (wlUser # WlNoUser /\ ~wlDirty) => \A op \in wlOps : Own(op) =>
    /\ op.st \in wlShown[op.list] <=> op.op = "put"
    /\ Sure(op.list, op.st) => (op.st \in wlRepo[wlUser][op.list] <=> op.op = "delete")
    /\ \A o \in wlOps : Own(o) /\ o.st = op.st => o = op

\* A station that nothing is written about is shown as the repository has it.
RestIsTrue == (wlUser # WlNoUser /\ ~wlDirty /\ ~LoadLives) =>
    \A list \in List, st \in WlStation :
        \/ ~Sure(list, st)
        \/ \E op \in wlOps : Own(op) /\ op.list = list /\ op.st = st
        \/ st \in wlShown[list] <=> st \in wlRepo[wlUser][list]

LibraryInv == WlTypeOK /\ OpsAreSteps /\ OneLoadLives /\ LoadIsTrue /\ WritesAreApart
              /\ RestIsTrue

\* What the steps of the lists build is of its type.
LEMMA LibraryTypes ==
    ASSUME WlTypeOK, NEW list \in List
    PROVE  /\ wlShown[list] \subseteq WlStation
           /\ \A st \in SUBSET WlStation : [wlShown EXCEPT ![list] = st] \in Lists
           /\ \A u \in WlUser : wlRepo[u] \in Lists /\ wlRepo[u][list] \subseteq WlStation
           /\ [l \in List |-> {}] \in Lists
  BY DEF WlTypeOK, Lists

\* A write begins: unless the lists are uncertain by it, they agreed on its station.
LEMMA StartKeepsTheLists ==
    ASSUME LibraryInv, wlUser # WlNoUser, NEW list \in List, NEW st \in WlStation,
           NEW op \in {"put", "delete", "create"}, NEW after,
           \/ op = "delete" /\ st \in wlShown[list] /\ after = wlShown[list] \ {st}
           \/ op = "put" /\ st \notin wlShown[list] /\ after = wlShown[list] \cup {st}
           \/ op = "create" /\ list = "own" /\ st \notin wlShown[list]
              /\ st \notin wlRepo[wlUser][list] /\ after = wlShown[list],
           Starts(list, op, st, after), UNCHANGED <<wlUser, wlRepo, wlLoads, wlDoubt>>
    PROVE  LibraryInv'
  <1> DEFINE new == [user |-> wlUser, list |-> list, op |-> op, st |-> st,
                     before |-> wlShown[list], after |-> after]
  <1>1. WlTypeOK /\ wlUser \in WlUser /\ wlShown[list] \subseteq WlStation
        /\ after \subseteq WlStation
    BY LibraryTypes DEF LibraryInv, WlTypeOK
  <1>2. wlOps' = wlOps \cup {new} /\ wlShown' = [wlShown EXCEPT ![list] = after]
    BY DEF Starts, Show
  <1>3. wlDirty' = (wlDirty \/ LoadLives \/ Underway(st))
    BY DEF Starts
  <1>4. ~wlDirty' => ~wlDirty /\ ~LoadLives /\ \A o \in wlOps : Own(o) => o.st # st
    BY <1>3 DEF Underway, Own
  <1>5. new \in OpType /\ wlShown' \in Lists
    BY <1>1, <1>2, LibraryTypes DEF OpType
  <1>6. WlTypeOK'
    <2>1. wlDirty' \in BOOLEAN
      BY <1>1, <1>3 DEF WlTypeOK, LoadLives, Underway
    <2> QED BY <1>1, <1>2, <1>5, <2>1 DEF WlTypeOK
  <1>7. /\ new.user = wlUser /\ new.list = list /\ new.op = op /\ new.st = st
        /\ new.before = wlShown[list] /\ new.after = after
    OBVIOUS
  <1>8. \A l \in List, s \in WlStation : l # list \/ s # st =>
            (s \in wlShown'[l] <=> s \in wlShown[l])
    BY <1>1, <1>2 DEF WlTypeOK, Lists
  <1>9. wlShown'[list] = after
    BY <1>1, <1>2 DEF WlTypeOK, Lists
  <1> HIDE DEF new
  <1>10. OpsAreSteps' /\ OneLoadLives'
    BY <1>2, <1>7 DEF LibraryInv, OpsAreSteps, OneLoadLives
  <1>11. LoadIsTrue'
    BY <1>4 DEF LibraryInv, LoadIsTrue, LoadLives
  <1>12. WritesAreApart'
    <2> SUFFICES ASSUME ~wlDirty', NEW o \in wlOps', o.user = wlUser
                 PROVE  /\ o.st \in wlShown'[o.list] <=> o.op = "put"
                        /\ Sure(o.list, o.st) =>
                              (o.st \in wlRepo[wlUser][o.list] <=> o.op = "delete")
                        /\ \A p \in wlOps' : p.user = wlUser /\ p.st = o.st => p = o
      BY DEF WritesAreApart, Own, Sure
    <2>1. CASE o = new
      <3>1. Sure(list, st) => (st \in wlShown[list] <=> st \in wlRepo[wlUser][list])
        BY <1>4 DEF LibraryInv, RestIsTrue, Own, Sure
      <3> QED BY <1>2, <1>4, <1>7, <1>9, <2>1, <3>1 DEF Own
    <2>2. CASE o # new
      <3>1. o \in wlOps /\ o.st # st /\ o.list \in List /\ o.st \in WlStation
        BY <1>1, <1>2, <1>4, <2>2 DEF WlTypeOK, OpType, Own
      <3> QED BY <1>2, <1>4, <1>7, <1>8, <3>1 DEF LibraryInv, WritesAreApart, Own, Sure
    <2> QED BY <2>1, <2>2
  <1>13. RestIsTrue'
    <2> SUFFICES ASSUME ~wlDirty', NEW l \in List, NEW s \in WlStation,
                        \A o \in wlOps' : ~(o.user = wlUser /\ o.list = l /\ o.st = s),
                        Sure(l, s)
                 PROVE  s \in wlShown'[l] <=> s \in wlRepo[wlUser][l]
      BY DEF RestIsTrue, Own, Sure
    <2>1. l # list \/ s # st
      BY <1>2, <1>7
    <2>2. s \in wlShown[l] <=> s \in wlRepo[wlUser][l]
      BY <1>2, <1>4 DEF LibraryInv, RestIsTrue, Own, Sure
    <2> QED BY <1>8, <2>1, <2>2
  <1> QED BY <1>6, <1>10, <1>11, <1>12, <1>13 DEF LibraryInv

\* A session begins: its load will replace the lists, and nothing of its user is under way.
LEMMA SessionKeepsTheLists ==
    ASSUME LibraryInv, NEW user \in WlUser \cup {WlNoUser}, LibrarySession(user)
    PROVE  LibraryInv'
  <1> DEFINE dead == {[ld EXCEPT !.live = FALSE] : ld \in wlLoads}
             new  == [user |-> user, live |-> TRUE, read |-> FALSE,
                      data |-> [l \in List |-> {}]]
  <1>1. WlTypeOK
    BY DEF LibraryInv
  <1>2. dead \subseteq ListLoad /\ \A ld \in dead : ~ld.live
    BY <1>1 DEF WlTypeOK, ListLoad
  <1>3. wlLoads' = dead \cup (IF user = WlNoUser THEN {} ELSE {new})
    BY DEF LibrarySession
  <1>4. user # WlNoUser => new \in ListLoad
    BY DEF ListLoad, Lists
  <1>5. new.user = user /\ new.live /\ ~new.read
    OBVIOUS
  <1>6. WlTypeOK'
    <2>1. wlLoads' \subseteq ListLoad
      BY <1>2, <1>3, <1>4
    <2>2. wlDirty' \in BOOLEAN /\ wlShown' \in Lists
      BY <1>1 DEF LibrarySession, WlTypeOK, Lists
    <2> QED BY <1>1, <2>1, <2>2 DEF LibrarySession, WlTypeOK
  <1> HIDE DEF dead, new
  <1>7. OpsAreSteps' /\ OneLoadLives'
    BY <1>2, <1>3, <1>5 DEF LibraryInv, OpsAreSteps, OneLoadLives, LibrarySession
  <1>8. ~wlDirty' => \A op \in wlOps' : op.user # wlUser'
    BY DEF LibrarySession
  <1>9. LoadIsTrue' /\ WritesAreApart' /\ RestIsTrue'
    <2>1. wlUser' # WlNoUser => new \in wlLoads'
      BY <1>3 DEF LibrarySession
    <2>2. LoadIsTrue'
      BY <1>2, <1>3, <1>5, <1>8 DEF LoadIsTrue, Own
    <2> QED BY <1>5, <1>8, <2>1, <2>2 DEF WritesAreApart, RestIsTrue, LoadLives, Own, Sure
  <1> QED BY <1>6, <1>7, <1>9 DEF LibraryInv

\* The repository is read, and the lists become what it said.
LEMMA LoadKeepsTheLists ==
    ASSUME LibraryInv, ListsAnswered \/ Loaded \/ LoadFails PROVE LibraryInv'
  <1>1. WlTypeOK
    BY DEF LibraryInv
  <1>2. CASE ListsAnswered
    <2> PICK ld \in wlLoads :
           wlLoads' = (wlLoads \ {ld}) \cup {[ld EXCEPT !.read = TRUE, !.data = wlRepo[ld.user]]}
      BY <1>2 DEF ListsAnswered
    <2> DEFINE got == [ld EXCEPT !.read = TRUE, !.data = wlRepo[ld.user]]
    <2>1. UNCHANGED <<wlUser, wlShown, wlRepo, wlOps, wlDirty, wlDoubt>>
      BY <1>2 DEF ListsAnswered
    <2>2. /\ got \in ListLoad /\ got.user = ld.user /\ got.live = ld.live /\ got.read
          /\ got.data = wlRepo[ld.user]
      BY <1>1 DEF WlTypeOK, ListLoad
    <2>3. wlLoads' = (wlLoads \ {ld}) \cup {got}
      OBVIOUS
    <2> HIDE DEF got
    <2>4. WlTypeOK' /\ OpsAreSteps' /\ OneLoadLives'
      BY <1>1, <2>1, <2>2, <2>3 DEF LibraryInv, WlTypeOK, OpsAreSteps, OneLoadLives
    <2>5. LoadIsTrue' /\ WritesAreApart' /\ RestIsTrue'
      <3>1. LoadIsTrue'
        BY <2>1, <2>2, <2>3 DEF LibraryInv, OneLoadLives, LoadIsTrue, Own
      <3>2. WritesAreApart'
        BY <2>1 DEF LibraryInv, WritesAreApart, Own, Sure
      <3>3. LoadLives' <=> LoadLives
        BY <2>2, <2>3 DEF LoadLives
      <3> QED BY <2>1, <3>1, <3>2, <3>3 DEF LibraryInv, RestIsTrue, Own, Sure
    <2> QED BY <2>4, <2>5 DEF LibraryInv
  <1>3. CASE Loaded
    <2> PICK ld \in wlLoads : /\ ld.read /\ wlLoads' = wlLoads \ {ld}
                              /\ wlShown' = IF ld.live THEN ld.data ELSE wlShown
      BY <1>3 DEF Loaded
    <2>1. UNCHANGED <<wlUser, wlRepo, wlOps, wlDirty, wlDoubt>>
      BY <1>3 DEF Loaded
    <2>2. ld.data \in Lists
      BY <1>1 DEF WlTypeOK, ListLoad
    <2>3. WlTypeOK' /\ OpsAreSteps' /\ OneLoadLives' /\ LoadIsTrue'
      BY <1>1, <2>1, <2>2 DEF LibraryInv, WlTypeOK, OpsAreSteps, OneLoadLives, LoadIsTrue, Own
    <2>4. WritesAreApart'
      BY <2>1 DEF LibraryInv, LoadIsTrue, WritesAreApart, Own, Sure
    <2>5. RestIsTrue'
      <3>1. CASE ld.live
        BY <2>1, <3>1 DEF LibraryInv, LoadIsTrue, RestIsTrue, Own, Sure
      <3>2. CASE ~ld.live
        <4>1. LoadLives' <=> LoadLives
          BY <3>2 DEF LoadLives
        <4> QED BY <2>1, <3>2, <4>1 DEF LibraryInv, RestIsTrue, Own, Sure
      <3> QED BY <3>1, <3>2
    <2> QED BY <2>3, <2>4, <2>5 DEF LibraryInv
  <1>4. CASE LoadFails
    <2> PICK ld \in wlLoads : wlLoads' = wlLoads \ {ld} /\ wlDirty' = (wlDirty \/ ld.live)
      BY <1>4 DEF LoadFails
    <2>1. UNCHANGED <<wlUser, wlShown, wlRepo, wlOps, wlDoubt>>
      BY <1>4 DEF LoadFails
    <2>2. ~wlDirty' => ~wlDirty /\ ~ld.live
      OBVIOUS
    <2>3. WlTypeOK' /\ OpsAreSteps' /\ OneLoadLives'
      <3>1. wlDirty' \in BOOLEAN
        BY <1>1 DEF WlTypeOK, ListLoad
      <3> QED BY <1>1, <2>1, <3>1 DEF LibraryInv, WlTypeOK, OpsAreSteps, OneLoadLives
    <2>4. LoadIsTrue' /\ WritesAreApart'
      BY <2>1, <2>2 DEF LibraryInv, LoadIsTrue, WritesAreApart, Own, Sure
    <2>5. RestIsTrue'
      <3>1. ~wlDirty' => (LoadLives' <=> LoadLives)
        BY <2>2 DEF LoadLives
      <3> QED BY <2>1, <2>2, <3>1 DEF LibraryInv, RestIsTrue, Own, Sure
    <2> QED BY <2>3, <2>4, <2>5 DEF LibraryInv
  <1> QED BY <1>2, <1>3, <1>4

\* A write is carried out: the repository catches up with the screen.
LEMMA DoneKeepsTheLists == ASSUME LibraryInv, Done PROVE LibraryInv'
  <1> PICK op \in wlOps :
         /\ wlOps' = wlOps \ {op}
         /\ wlRepo' = [wlRepo EXCEPT ![op.user][op.list] =
                          IF op.op = "delete" THEN @ \ {op.st} ELSE @ \cup {op.st}]
         /\ wlDoubt' = wlDoubt
         /\ IF op.op = "create"
            THEN /\ Show("own", wlShown["own"] \cup {op.st})
                 /\ wlForm' = Closed
                 /\ wlDirty' = (wlDirty \/ LoadLives \/ op.user # wlUser)
            ELSE /\ wlDirty' = (wlDirty \/ (LoadLives /\ op.user = wlUser))
                 /\ UNCHANGED <<wlShown, wlForm>>
    BY DEF Done, CarriedOut
  <1>1. WlTypeOK /\ UNCHANGED <<wlUser, wlLoads>>
    BY DEF Done, LibraryInv
  <1>2. /\ op.user \in WlUser /\ op.list \in List /\ op.st \in WlStation
        /\ op.op \in {"put", "delete", "create"}
    BY <1>1 DEF WlTypeOK, OpType
  <1>3. /\ wlRepo' \in [WlUser -> Lists]
        /\ \A u \in WlUser : u # op.user => wlRepo'[u] = wlRepo[u]
        /\ \A l \in List, s \in WlStation : l # op.list \/ s # op.st =>
              (s \in wlRepo'[op.user][l] <=> s \in wlRepo[op.user][l])
        /\ op.st \in wlRepo'[op.user][op.list] <=> op.op # "delete"
    BY <1>1, <1>2 DEF WlTypeOK, Lists
  <1>4. op.op = "create" => op.list = "own"
    BY DEF LibraryInv, OpsAreSteps
  <1>5. /\ wlShown' \in Lists
        /\ \A l \in List, s \in WlStation : l # op.list \/ s # op.st =>
              (s \in wlShown'[l] <=> s \in wlShown[l])
        /\ op.st \in wlShown'[op.list] <=>
              (op.op = "create" \/ op.st \in wlShown[op.list])
    BY <1>1, <1>2, <1>4 DEF WlTypeOK, Lists, Show, List
  <1>6. ~wlDirty' => ~wlDirty /\ (op.op = "create" \/ Own(op) => ~LoadLives)
                     /\ (op.op = "create" => Own(op))
    BY DEF Own
  <1>7. WlTypeOK'
    <2>1. wlDirty' \in BOOLEAN
      BY <1>1 DEF WlTypeOK, LoadLives
    <2> QED BY <1>1, <1>3, <1>5, <2>1 DEF WlTypeOK
  <1>8. OpsAreSteps' /\ OneLoadLives'
    BY <1>1 DEF LibraryInv, OpsAreSteps, OneLoadLives
  <1>9. LoadIsTrue'
    BY <1>1, <1>3, <1>6 DEF LibraryInv, LoadIsTrue, LoadLives, WlTypeOK, Own
  <1>10. WritesAreApart'
    <2> SUFFICES ASSUME wlUser # WlNoUser, ~wlDirty', NEW o \in wlOps \ {op}, o.user = wlUser
                 PROVE  /\ o.st \in wlShown'[o.list] <=> o.op = "put"
                        /\ Sure(o.list, o.st) =>
                              (o.st \in wlRepo'[wlUser][o.list] <=> o.op = "delete")
                        /\ \A p \in wlOps' : p.user = wlUser /\ p.st = o.st => p = o
      BY <1>1 DEF WritesAreApart, Own, Sure
    <2>1. /\ o.st \in wlShown[o.list] <=> o.op = "put"
          /\ Sure(o.list, o.st) => (o.st \in wlRepo[wlUser][o.list] <=> o.op = "delete")
          /\ \A p \in wlOps : p.user = wlUser /\ p.st = o.st => p = o
      BY <1>6 DEF LibraryInv, WritesAreApart, Own, Sure
    <2>2. o.list \in List /\ o.st \in WlStation /\ wlUser \in WlUser
      BY <1>1 DEF WlTypeOK, OpType
    <2>3. op.user = wlUser => op.st # o.st
      BY <2>1
    <2>4. o.st \in wlShown'[o.list] <=> o.st \in wlShown[o.list]
      BY <1>5, <1>6, <2>2, <2>3 DEF Own
    <2>5. o.st \in wlRepo'[wlUser][o.list] <=> o.st \in wlRepo[wlUser][o.list]
      BY <1>3, <2>2, <2>3
    <2> QED BY <2>1, <2>4, <2>5
  <1>11. RestIsTrue'
    <2> SUFFICES ASSUME wlUser # WlNoUser, ~wlDirty', ~LoadLives,
                        NEW l \in List, NEW s \in WlStation,
                        \A o \in wlOps \ {op} : ~(o.user = wlUser /\ o.list = l /\ o.st = s),
                        Sure(l, s)
                 PROVE  s \in wlShown'[l] <=> s \in wlRepo'[wlUser][l]
      BY <1>1 DEF RestIsTrue, LoadLives, Own, Sure
    <2>1. wlUser \in WlUser /\ ~wlDirty
      BY <1>1, <1>6 DEF WlTypeOK
    <2>2. CASE op.user = wlUser /\ l = op.list /\ s = op.st
      <3>1. op.st \in wlShown[op.list] <=> op.op = "put"
        BY <2>1, <2>2 DEF LibraryInv, WritesAreApart, Own, Sure
      <3> QED BY <1>2, <1>3, <1>5, <2>2, <3>1
    <2>3. CASE ~(op.user = wlUser /\ l = op.list /\ s = op.st)
      <3>1. s \in wlShown[l] <=> s \in wlRepo[wlUser][l]
        BY <2>1, <2>3 DEF LibraryInv, RestIsTrue, Own, Sure
      <3>2. s \in wlRepo'[wlUser][l] <=> s \in wlRepo[wlUser][l]
        BY <1>3, <2>1, <2>3
      <3>3. s \in wlShown'[l] <=> s \in wlShown[l]
        <4>1. CASE op.user = wlUser
          BY <1>5, <2>3, <4>1
        <4>2. CASE op.user # wlUser
          BY <1>6, <4>2 DEF Own
        <4> QED BY <4>1, <4>2
      <3> QED BY <3>1, <3>2, <3>3
    <2> QED BY <2>2, <2>3
  <1> QED BY <1>7, <1>8, <1>9, <1>10, <1>11 DEF LibraryInv

\* A write fails: what it replaced is what the repository holds, unless it had landed or
\* another write or another session came between.
LEMMA FailKeepsTheLists == ASSUME LibraryInv, Fail PROVE LibraryInv'
  <1> PICK op \in wlOps, landed \in BOOLEAN :
         /\ wlOps' = wlOps \ {op}
         /\ RolledBack(op)
         /\ wlDirty' = (wlDirty \/ op.user # wlUser \/ wlShown[op.list] # op.after \/ LoadLives
                                \/ \E o \in wlOps \ {op} : o.list = op.list)
         /\ IF landed
            THEN /\ wlRepo' = [wlRepo EXCEPT ![op.user][op.list] = CarriedOut(op, @)]
                 /\ wlDoubt' = wlDoubt \cup {<<op.list, op.st>>}
            ELSE UNCHANGED <<wlRepo, wlDoubt>>
    BY DEF Fail
  <1>1. WlTypeOK /\ UNCHANGED <<wlUser, wlLoads>>
    BY DEF Fail, LibraryInv
  <1>2. /\ op.user \in WlUser /\ op.list \in List /\ op.st \in WlStation
        /\ op.before \subseteq WlStation /\ op.op \in {"put", "delete", "create"}
    BY <1>1 DEF WlTypeOK, OpType
  <1>3. ~wlDirty' => /\ ~wlDirty /\ Own(op) /\ wlShown[op.list] = op.after /\ ~LoadLives
                     /\ \A o \in wlOps \ {op} : o.list # op.list
    BY DEF Own
  <1>4. /\ \/ op.op = "delete" /\ op.st \in op.before /\ op.after = op.before \ {op.st}
           \/ op.op = "put" /\ op.st \notin op.before /\ op.after = op.before \cup {op.st}
           \/ op.op = "create" /\ op.list = "own" /\ op.after = op.before
    BY DEF LibraryInv, OpsAreSteps
  <1>5. /\ wlShown' \in Lists
        /\ \A l \in List : l # op.list => wlShown'[l] = wlShown[l]
        /\ ~wlDirty' => wlShown'[op.list] = op.before
    BY <1>1, <1>2, <1>3, <1>4 DEF WlTypeOK, Lists, RolledBack, Show
  <1>6. /\ wlRepo' \in [WlUser -> Lists]
        /\ \A u \in WlUser, l \in List, s \in WlStation :
              l # op.list \/ s # op.st => (s \in wlRepo'[u][l] <=> s \in wlRepo[u][l])
        /\ \A l \in List, s \in WlStation : Sure(l, s)' => Sure(l, s)
        /\ Sure(op.list, op.st)' => wlRepo' = wlRepo
    <2>1. CASE landed
      <3>1. CarriedOut(op, wlRepo[op.user][op.list]) \subseteq WlStation
        BY <1>1, <1>2 DEF WlTypeOK, Lists, CarriedOut
      <3>2. wlRepo' \in [WlUser -> Lists]
        BY <1>1, <1>2, <2>1, <3>1 DEF WlTypeOK, Lists
      <3>3. \A u \in WlUser, l \in List, s \in WlStation :
              l # op.list \/ s # op.st => (s \in wlRepo'[u][l] <=> s \in wlRepo[u][l])
        BY <1>1, <1>2, <2>1 DEF WlTypeOK, Lists, CarriedOut
      <3>4. wlDoubt' = wlDoubt \cup {<<op.list, op.st>>}
        BY <2>1
      <3>5. ~Sure(op.list, op.st)' /\ \A l \in List, s \in WlStation : Sure(l, s)' => Sure(l, s)
        BY <3>4 DEF Sure
      <3> QED BY <3>2, <3>3, <3>5
    <2>2. CASE ~landed
      BY <1>1, <2>2 DEF WlTypeOK, Sure
    <2> QED BY <2>1, <2>2
  <1>7. WlTypeOK'
    <2>1. wlDirty' \in BOOLEAN
      BY <1>1 DEF WlTypeOK, LoadLives
    <2> QED BY <1>1, <1>5, <1>6, <2>1 DEF WlTypeOK
  <1>8. OpsAreSteps' /\ OneLoadLives' /\ LoadIsTrue'
    BY <1>1, <1>3 DEF LibraryInv, OpsAreSteps, OneLoadLives, LoadIsTrue, LoadLives, Own
  <1>9. WritesAreApart'
    <2> SUFFICES ASSUME wlUser # WlNoUser, ~wlDirty', NEW o \in wlOps \ {op}, o.user = wlUser
                 PROVE  /\ o.st \in wlShown'[o.list] <=> o.op = "put"
                        /\ Sure(o.list, o.st)' =>
                              (o.st \in wlRepo'[wlUser][o.list] <=> o.op = "delete")
                        /\ \A p \in wlOps' : p.user = wlUser /\ p.st = o.st => p = o
      BY <1>1 DEF WritesAreApart, Own
    <2>1. o.list \in List /\ o.list # op.list /\ o.st \in WlStation /\ wlUser \in WlUser
      BY <1>1, <1>3 DEF WlTypeOK, OpType
    <2>2. /\ o.st \in wlShown[o.list] <=> o.op = "put"
          /\ Sure(o.list, o.st) => (o.st \in wlRepo[wlUser][o.list] <=> o.op = "delete")
          /\ \A p \in wlOps : p.user = wlUser /\ p.st = o.st => p = o
      BY <1>3 DEF LibraryInv, WritesAreApart, Own
    <2> QED BY <1>5, <1>6, <2>1, <2>2
  <1>10. RestIsTrue'
    <2> SUFFICES ASSUME wlUser # WlNoUser, ~wlDirty',
                        NEW l \in List, NEW s \in WlStation, Sure(l, s)',
                        \A o \in wlOps \ {op} : ~(o.user = wlUser /\ o.list = l /\ o.st = s)
                 PROVE  s \in wlShown'[l] <=> s \in wlRepo'[wlUser][l]
      BY <1>1 DEF RestIsTrue, Own
    <2>1. Sure(l, s) /\ wlUser \in WlUser
      BY <1>1, <1>6 DEF WlTypeOK
    <2>2. CASE l = op.list /\ s = op.st
      <3>1. /\ op.st \in wlShown[op.list] <=> op.op = "put"
            /\ op.st \in wlRepo[wlUser][op.list] <=> op.op = "delete"
        BY <1>3, <2>1, <2>2 DEF LibraryInv, WritesAreApart
      <3> QED BY <1>3, <1>4, <1>5, <1>6, <2>2, <3>1
    <2>3. CASE l # op.list \/ s # op.st
      <3>1. s \in wlShown[l] <=> s \in wlRepo[wlUser][l]
        BY <1>3, <2>1, <2>3 DEF LibraryInv, RestIsTrue, Own
      <3>2. s \in wlRepo'[wlUser][l] <=> s \in wlRepo[wlUser][l]
        BY <1>6, <2>1, <2>3
      <3>3. s \in wlShown'[l] <=> s \in wlShown[l]
        BY <1>3, <1>4, <1>5, <2>3
      <3> QED BY <3>1, <3>2, <3>3
    <2> QED BY <2>2, <2>3
  <1> QED BY <1>7, <1>8, <1>9, <1>10 DEF LibraryInv

\* When nothing is under way the lists of atoms/favorites.ts and atoms/customStations.ts show
\* what the repository holds: a failed write is rolled back to the list it began with, and
\* outside the races the property names nobody else changed that list meanwhile. A failed
\* write that had landed (agent.ts:138-158) leaves its own station in doubt, and no other.
THEOREM ListsShowTheRepo == WlSpec => []LibraryShown
  <1>1. WlInit => LibraryInv
    BY DEF WlInit, LibraryInv, WlTypeOK, Lists, OpsAreSteps, OneLoadLives, LoadIsTrue,
           WritesAreApart, RestIsTrue
  <1>2. LibraryInv /\ [WlNext]_wlVars => LibraryInv'
    <2> SUFFICES ASSUME LibraryInv, [WlNext]_wlVars PROVE LibraryInv'
      OBVIOUS
    <2>1. ASSUME NEW st \in WlStation, ToggleFavorite(st) PROVE LibraryInv'
      BY <2>1, StartKeepsTheLists DEF ToggleFavorite, List
    <2>2. ASSUME NEW st \in WlStation, RemoveCustomStation(st) PROVE LibraryInv'
      BY <2>2, StartKeepsTheLists DEF RemoveCustomStation, List
    <2>3. ASSUME UNCHANGED <<wlUser, wlShown, wlRepo, wlLoads, wlOps, wlDirty, wlDoubt>>
          PROVE  LibraryInv'
      BY <2>3 DEF LibraryInv, WlTypeOK, OpsAreSteps, OneLoadLives, LoadIsTrue, WritesAreApart,
                  RestIsTrue, LoadLives, Own, Sure
    <2>4. ASSUME NEW st \in WlStation, AddCustomStation(st) PROVE LibraryInv'
      <3>1. CASE wlUser = WlNoUser
        BY <2>3, <2>4, <3>1 DEF AddCustomStation
      <3>2. CASE wlUser # WlNoUser
        BY <2>4, <3>2, StartKeepsTheLists DEF AddCustomStation, List
      <3> QED BY <3>1, <3>2
    <2>5. CASE LibraryTab \/ OpenForm \/ CloseForm \/ SubmitForm \/ AddAnyway \/ ProbeFails
               \/ UNCHANGED wlVars
      BY <2>3, <2>5 DEF LibraryTab, OpenForm, CloseForm, SubmitForm, AddAnyway, ProbeFails,
                        wlVars
    <2> QED BY <2>1, <2>2, <2>4, <2>5, SessionKeepsTheLists, LoadKeepsTheLists,
               DoneKeepsTheLists, FailKeepsTheLists DEF WlNext
  <1>3. LibraryInv => LibraryShown
    BY DEF LibraryInv, RestIsTrue, LoadLives, LibraryShown, Sure
  <1> QED BY <1>1, <1>2, <1>3, PTL DEF WlSpec

-----------------------------------------------------------------------------
(* The discussion (WebDiscussion).                                         *)

TalkStation == WdStation \cup {WdNone}
Ids         == 1..WdComments
Comment     == [id : Ids, st : TalkStation, mine : BOOLEAN, ver : Nat \ {0}]
Drafted     == [id : 0..WdComments, st : TalkStation, mine : BOOLEAN, ver : Nat]
BoxType     == [text : BOOLEAN, mention : BOOLEAN, busy : BOOLEAN]
Boxes       == [new : BoxType, edit : BoxType]
PanelType   == [st : TalkStation, local : SUBSET Comment, deleted : SUBSET Ids,
                editing : 0..WdComments, confirm : 0..WdComments, box : Boxes]
ReqType     == [op : {"new", "edit", "delete"}, c : Drafted, n : Nat, live : BOOLEAN,
                box : BOOLEAN, done : BOOLEAN]
FetchType   == [st : WdStation, read : BOOLEAN, data : SUBSET Comment]
Tally       == [acts : Nat, polls : Nat, faults : Nat, ids : 0..WdComments]
ToldType    == [Ids -> [ver : Nat, gone : BOOLEAN, crossed : BOOLEAN]]

\* What is written is a comment once it has an id.
Written == {r \in ReqType :
    /\ r.op = "new" => r.c.ver = 1 /\ (r.done => r.c \in Comment)
    /\ r.op = "edit" => r.c \in Comment /\ r.c.ver > 1
    /\ r.op = "delete" => r.c.id \in Ids /\ ~r.done}

WdTypeOK ==
    /\ wdPanel \in PanelType
    /\ wdServer \subseteq Comment /\ wdCache \in [WdStation -> SUBSET Comment]
    /\ wdFetch \subseteq FetchType /\ wdReqs \subseteq Written
    /\ \A e \in wdWire : e.kind = "comment" => e.c \in Comment
    /\ wdTold \in ToldType
    /\ wdCount \in Tally

\* The panel holds what the user was told: a deleted comment is hidden, and of one that
\* was posted the page has its own copy, with the last edit or a later one unless two
\* edits crossed.
PanelHoldsTheTold == \A id \in Ids :
    /\ id \in wdPanel.deleted <=> wdTold[id].gone
    /\ wdTold[id].ver > 0 =>
          \E c \in wdPanel.local : c.id = id /\ (c.ver >= wdTold[id].ver \/ wdTold[id].crossed)

TalkInv == WdTypeOK /\ PanelHoldsTheTold

\* An edit that is waited for is later than all the user was told of its comment, and the
\* only one, unless two crossed; nothing is later than the acts.
InOrder(reqs, told, acts) ==
    /\ \A id \in Ids : told[id].ver <= acts + 1
    /\ \A r \in reqs : r.op = "edit" => r.c.ver <= acts + 1
    /\ \A r, s \in reqs :
          /\ r.op = "edit" /\ r.live /\ s.op = "edit" /\ s.live /\ r.c.id = s.c.id
          /\ ~told[r.c.id].crossed
          => r = s /\ r.c.ver > told[r.c.id].ver

EditsInOrder == InOrder(wdReqs, wdTold, wdCount.acts)

\* The list shows comments.
LEMMA ListedComments ==
    ASSUME WdTypeOK PROVE CommentList \subseteq Comment
  <1>1. wdPanel.local \subseteq Comment /\ wdPanel.st \in TalkStation
    BY DEF WdTypeOK, PanelType
  <1>2. wdPanel.st # WdNone => wdCache[wdPanel.st] \subseteq Comment
    BY <1>1 DEF WdTypeOK, TalkStation
  <1> QED BY <1>1, <1>2 DEF CommentList, ListOf

\* Requests lose their composer or their panel, never what they write.
LEMMA WrittenStays ==
    ASSUME NEW reqs \in SUBSET Written, NEW box
    PROVE  Orphaned(reqs, box) \subseteq Written /\ Abandoned(reqs) \subseteq Written
  <1>1. ASSUME NEW r \in Written, NEW yes \in BOOLEAN
        PROVE  /\ [r EXCEPT !.box = yes] \in Written
               /\ [r EXCEPT !.live = FALSE, !.box = FALSE] \in Written
    BY DEF Written, ReqType
  <1>2. \A r \in Written : (r.box /\ r.op # box) \in BOOLEAN
    OBVIOUS
  <1> QED BY <1>1, <1>2 DEF Orphaned, Abandoned

\* A write that begins.
LEMMA WritesAreWritten ==
    ASSUME NEW op \in {"new", "edit", "delete"}, NEW c \in Drafted, wdCount.acts \in Nat,
           op = "new" => c.ver = 1, op = "edit" => c \in Comment /\ c.ver > 1,
           op = "delete" => c.id \in Ids
    PROVE  Write(op, c) \in Written
  <1> DEFINE r == Write(op, c)
  <1>1. r = [op |-> op, c |-> c, n |-> wdCount.acts, live |-> TRUE,
             box |-> op # "delete", done |-> FALSE]
    BY DEF Write
  <1>2. r.op = op /\ r.c = c /\ ~r.done
    BY <1>1
  <1>3. r \in ReqType
    BY <1>1 DEF ReqType
  <1> HIDE DEF r
  <1>4. r \in Written
    BY <1>2, <1>3 DEF Written
  <1> QED BY <1>4 DEF r

\* A panel that changes its boxes, and what is edited or about to be deleted.
LEMMA PanelUpdates ==
    ASSUME NEW p \in PanelType, NEW boxes \in Boxes, NEW id \in 0..WdComments,
           NEW st \in TalkStation
    PROVE  LET q == [p EXCEPT !.box = boxes]
               e == [p EXCEPT !.editing = id, !.box = boxes]
               k == [p EXCEPT !.confirm = id]
               s == [p EXCEPT !.st = st, !.editing = id, !.box = boxes]
           IN  /\ q \in PanelType /\ q.local = p.local /\ q.deleted = p.deleted
               /\ e \in PanelType /\ e.local = p.local /\ e.deleted = p.deleted
               /\ k \in PanelType /\ k.local = p.local /\ k.deleted = p.deleted
               /\ s \in PanelType /\ s.local = p.local /\ s.deleted = p.deleted
  BY DEF PanelType

\* What becomes of an editor whose comment may have left the list.
LEMMA EditorIsABox ==
    ASSUME WdTypeOK, NEW cached
    PROVE  /\ EditBox \in BoxType /\ Editor(cached) \in BoxType
           /\ [wdPanel.box EXCEPT !.edit = Editor(cached)] \in Boxes
           /\ [wdPanel.box EXCEPT !.edit = EditBox] \in Boxes
           /\ EditorStays(cached) \subseteq Written
  <1>1. EditBox \in BoxType
    BY DEF EditBox, EmptyBox, BoxType
  <1>2. wdPanel.box \in Boxes /\ wdPanel.box.edit \in BoxType
    BY DEF WdTypeOK, PanelType, Boxes
  <1>3. Editor(cached) \in BoxType
    BY <1>1, <1>2 DEF Editor
  <1>4. EditorStays(cached) \subseteq Written
    BY WrittenStays DEF EditorStays, WdTypeOK
  <1> QED BY <1>1, <1>2, <1>3, <1>4 DEF Boxes

\* Only the ids that are given out change what a count bounds.
LEMMA CountUpdates ==
    ASSUME NEW n \in Tally, NEW what \in {"acts", "polls", "faults"}
    PROVE  [n EXCEPT ![what] = @ + 1] \in Tally
  BY DEF Tally

\* What the panel holds and the user was told stays when neither changes.
LEMMA HoldingStays ==
    ASSUME PanelHoldsTheTold, UNCHANGED wdTold, wdPanel'.local = wdPanel.local,
           wdPanel'.deleted = wdPanel.deleted
    PROVE  PanelHoldsTheTold'
  BY DEF PanelHoldsTheTold

\* A comment joins the page's copies: none that was there is given up.
LEMMA JoiningKeeps ==
    ASSUME WdTypeOK, NEW c \in Comment
    PROVE  /\ OnComment(c) \subseteq Comment /\ wdPanel.local \subseteq OnComment(c)
           /\ \E d \in OnComment(c) : d.id = c.id
  BY DEF OnComment, Copies, WdTypeOK, PanelType
\* Steps of the server, of the stream and of other listeners: the panel is not touched.
LEMMA ServerKeepsTheTold ==
    ASSUME TalkInv, \/ CommentsRead \/ Poll \/ PutComment \/ DeleteDone \/ Risen
                    \/ LiveDrops
                    \/ \E st \in WdStation : React(st) \/ OthersComment(st) \/ OthersReact(st)
                    \/ \E st \in WdStation \cup {WdNone} : PlayOther(st)
    PROVE  TalkInv'
  <1>1. WdTypeOK /\ PanelHoldsTheTold
    BY DEF TalkInv
  <1>2. UNCHANGED <<wdPanel, wdTold>>
    BY DEF CommentsRead, Poll, PutComment, DeleteDone, Risen, LiveDrops, React,
           OthersComment, OthersReact, PlayOther
  <1>3. PanelHoldsTheTold'
    BY <1>1, <1>2, HoldingStays
  <1>4. ASSUME Spend("acts", WdActs) \/ Spend("polls", WdPolls) \/ Spend("faults", WdFaults)
        PROVE  wdCount' \in Tally
    BY <1>1, <1>4, CountUpdates, ZenonT(60) DEF Spend, WdTypeOK
  <1>5. CASE CommentsRead
    <2> PICK f \in wdFetch : wdFetch' = (wdFetch \ {f}) \cup
              {[f EXCEPT !.read = TRUE, !.data = {c \in wdServer : c.st = f.st}]}
      BY <1>5 DEF CommentsRead
    <2>1. [f EXCEPT !.read = TRUE, !.data = {c \in wdServer : c.st = f.st}] \in FetchType
      BY <1>1 DEF WdTypeOK, FetchType
    <2> QED BY <1>1, <1>3, <1>5, <2>1, ZenonT(60) DEF CommentsRead, TalkInv, WdTypeOK
  <1>7. CASE Poll
    <2>1. wdPanel.st \in WdStation
      BY <1>1, <1>7 DEF Poll, WdTypeOK, PanelType, TalkStation
    <2>2. [st |-> wdPanel.st, read |-> FALSE, data |-> {}] \in FetchType
      BY <2>1 DEF FetchType
    <2> QED BY <1>1, <1>3, <1>4, <1>7, <2>2 DEF Poll, TalkInv, WdTypeOK
  <1>8. CASE PutComment
    <2> PICK r \in wdReqs :
         /\ r.op \in {"new", "edit"} /\ ~r.done
         /\ r.op = "new" => wdCount.ids < WdComments
         /\ LET c == IF r.op = "new" THEN [r.c EXCEPT !.id = wdCount.ids + 1] ELSE r.c
            IN  /\ wdServer' = {x \in wdServer : x.id # c.id} \cup {c}
                /\ wdReqs' = (wdReqs \ {r}) \cup {[r EXCEPT !.c = c, !.done = TRUE]}
                /\ IF \A x \in wdServer : x.id # c.id
                   THEN PublishLive(c.st, "comment", c) ELSE wdWire' = wdWire
         /\ wdCount' = IF r.op = "new" THEN [wdCount EXCEPT !.ids = @ + 1] ELSE wdCount
      BY <1>8 DEF PutComment
    <2> DEFINE c == IF r.op = "new" THEN [r.c EXCEPT !.id = wdCount.ids + 1] ELSE r.c
    <2>1. r \in Written /\ r \in ReqType /\ r.c \in Drafted /\ wdCount \in Tally
      BY <1>1 DEF WdTypeOK, Written, ReqType
    <2>2. r.op = "new" => wdCount.ids + 1 \in Ids
      BY <2>1, WdCommentsAreCounted DEF Tally, Ids
    <2>3. /\ c \in Comment /\ c \in Drafted
          /\ (r.op = "new" => c.ver = 1) /\ (r.op = "edit" => c.ver > 1)
      <3>1. CASE r.op = "new"
        <4>1. r.c.ver = 1
          BY <2>1, <3>1 DEF Written
        <4>2. wdCount.ids + 1 \in 0..WdComments
          BY <2>2, <3>1, WdCommentsAreCounted DEF Ids
        <4> QED BY <2>1, <2>2, <3>1, <4>1, <4>2 DEF Comment, Drafted
      <3>2. CASE r.op # "new"
        BY <2>1, <3>2 DEF Written
      <3> QED BY <3>1, <3>2
    <2>4. [r EXCEPT !.c = c, !.done = TRUE] \in Written
      <3> HIDE DEF c
      <3> QED BY <2>1, <2>3 DEF Written, ReqType
    <2>5. wdServer' \subseteq Comment /\ wdReqs' \subseteq Written
      <3>1. wdServer' \subseteq wdServer \cup {c}
        OBVIOUS
      <3>2. wdReqs' \subseteq wdReqs \cup {[r EXCEPT !.c = c, !.done = TRUE]}
        OBVIOUS
      <3> HIDE DEF c
      <3> QED BY <1>1, <2>3, <2>4, <3>1, <3>2 DEF WdTypeOK
    <2>6. \A e \in wdWire' : e \in wdWire \/ e.c \in Comment
      <3>1. wdWire' \subseteq wdWire \cup {[st |-> c.st, kind |-> "comment", c |-> c]}
        BY DEF PublishLive
      <3> HIDE DEF c
      <3> QED BY <2>3, <3>1
    <2>7. wdCount' \in Tally
      <3>1. r.op = "new" => wdCount.ids + 1 \in 0..WdComments
        BY <2>2, WdCommentsAreCounted DEF Ids
      <3> QED BY <2>1, <3>1 DEF Tally
    <2> QED BY <1>1, <1>2, <1>3, <1>8, <2>5, <2>6, <2>7 DEF PutComment, TalkInv, WdTypeOK
  <1>9. CASE DeleteDone
    BY <1>1, <1>3, <1>9 DEF DeleteDone, TalkInv, WdTypeOK
  <1>10. CASE Risen
    BY <1>1, <1>3, <1>10 DEF Risen, TalkInv, WdTypeOK
  <1>11. CASE LiveDrops
    BY <1>1, <1>3, <1>4, <1>11 DEF LiveDrops, TalkInv, WdTypeOK
  <1>12. ASSUME NEW st \in WdStation, React(st) PROVE TalkInv'
    <2>1. \A e \in wdWire' : e \in wdWire \/ e.kind = "reaction"
      BY <1>12 DEF React, PublishLive
    <2> QED BY <1>1, <1>3, <1>4, <1>12, <2>1 DEF React, TalkAct, TalkInv, WdTypeOK
  <1>13. ASSUME NEW st \in WdStation, OthersComment(st) PROVE TalkInv'
    <2> DEFINE c == [id |-> wdCount.ids + 1, st |-> st, mine |-> FALSE, ver |-> 1]
    <2>1. wdCount \in Tally /\ wdCount.ids < WdComments
          /\ wdCount' = [wdCount EXCEPT !.ids = @ + 1]
      BY <1>1, <1>13 DEF OthersComment, WdTypeOK
    <2>2. wdCount' \in Tally /\ wdCount.ids + 1 \in Ids
      BY <2>1, WdCommentsAreCounted DEF Tally, Ids
    <2>3. c \in Comment
      BY <2>2 DEF Comment, TalkStation
    <2>4. wdServer' = wdServer \cup {c}
          /\ wdWire' \subseteq wdWire \cup {[st |-> st, kind |-> "comment", c |-> c]}
      BY <1>13 DEF OthersComment, PublishLive
    <2> HIDE DEF c
    <2> QED BY <1>1, <1>3, <1>13, <2>2, <2>3, <2>4 DEF OthersComment, TalkInv, WdTypeOK
  <1>14. ASSUME NEW st \in WdStation, OthersReact(st) PROVE TalkInv'
    <2>1. \A e \in wdWire' : e \in wdWire \/ e.kind = "reaction"
      BY <1>14 DEF OthersReact, PublishLive
    <2> QED BY <1>1, <1>3, <1>4, <1>14, <2>1 DEF OthersReact, TalkAct, TalkInv, WdTypeOK
  <1>15. ASSUME NEW st \in WdStation \cup {WdNone}, PlayOther(st) PROVE TalkInv'
    BY <1>1, <1>3, <1>4, <1>15 DEF PlayOther, EventsOf, TalkAct, TalkInv, WdTypeOK
  <1> QED BY <1>5, <1>7, <1>8, <1>9, <1>10, <1>11, <1>12, <1>13, <1>14, <1>15
\* The composers and the cards: what the panel holds of comments is not touched.
LEMMA ComposersKeepTheTold ==
    ASSUME TalkInv, \/ SignInOrOut \/ Type \/ InsertMention \/ CancelEdit \/ CancelDelete
                    \/ SubmitComment("new") \/ SubmitComment("edit")
                    \/ \E c \in CommentList : StartEdit(c) \/ AskDelete(c)
    PROVE  TalkInv'
  <1>1. /\ WdTypeOK /\ PanelHoldsTheTold /\ wdPanel \in PanelType /\ wdReqs \subseteq Written
        /\ wdPanel.box \in Boxes /\ wdPanel.box.new \in BoxType /\ wdPanel.box.edit \in BoxType
    BY DEF TalkInv, WdTypeOK, PanelType, Boxes
  <1>2. 0 \in 0..WdComments
    BY WdCommentsAreCounted
  <1>3. ASSUME wdPanel' \in PanelType, wdPanel'.local = wdPanel.local,
               wdPanel'.deleted = wdPanel.deleted, wdReqs' \subseteq Written,
               wdCount' \in Tally,
               UNCHANGED <<wdServer, wdCache, wdFetch, wdWire, wdTold>>
        PROVE  TalkInv'
    BY <1>1, <1>3, HoldingStays DEF TalkInv, WdTypeOK
  <1>4. wdCount \in Tally /\ (TalkAct => wdCount' \in Tally)
    BY <1>1, CountUpdates DEF TalkAct, Spend, WdTypeOK
  <1>5. CASE SignInOrOut
    <2>1. wdPanel' = [wdPanel EXCEPT !.box = Mounted(WdNone).box]
      BY <1>5 DEF SignInOrOut
    <2>2. /\ wdPanel' \in PanelType /\ wdPanel'.local = wdPanel.local
          /\ wdPanel'.deleted = wdPanel.deleted
      <3>1. Mounted(WdNone).box \in Boxes
        BY DEF Mounted, EditBox, EmptyBox, Boxes, BoxType
      <3> QED BY <1>1, <2>1, <3>1, PanelUpdates, <1>2 DEF TalkStation
    <2>3. wdReqs' \subseteq Written
      BY <1>1, <1>5, WrittenStays DEF SignInOrOut
    <2> QED BY <1>3, <1>4, <1>5, <2>2, <2>3 DEF SignInOrOut
  <1>6. ASSUME NEW b \in {"new", "edit"}, NEW box \in BoxType, SetBox(b, box)
        PROVE  /\ wdPanel' \in PanelType /\ wdPanel'.local = wdPanel.local
               /\ wdPanel'.deleted = wdPanel.deleted
    <2>1. [wdPanel.box EXCEPT ![b] = box] \in Boxes
      BY <1>1, <1>6 DEF Boxes
    <2>2. wdPanel' = [wdPanel EXCEPT !.box = [wdPanel.box EXCEPT ![b] = box]]
      BY <1>1, <1>6 DEF SetBox, PanelType
    <2> QED BY <1>1, <1>2, <2>1, <2>2, PanelUpdates DEF TalkStation
  <1>7. ASSUME NEW b \in {"new", "edit"}, NEW yes \in BOOLEAN
        PROVE  /\ [wdPanel.box[b] EXCEPT !.text = TRUE, !.mention = yes] \in BoxType
               /\ [wdPanel.box[b] EXCEPT !.mention = FALSE] \in BoxType
               /\ [wdPanel.box[b] EXCEPT !.busy = TRUE] \in BoxType
    BY <1>1 DEF BoxType
  <1>8. Composers \subseteq {"new", "edit"}
    BY DEF Composers
  <1>9. CASE Type
    BY <1>1, <1>3, <1>4, <1>6, <1>7, <1>8, <1>9 DEF Type
  <1>10. CASE InsertMention
    BY <1>1, <1>3, <1>4, <1>6, <1>7, <1>8, <1>10 DEF InsertMention
  <1>11. ASSUME NEW boxes \in Boxes, NEW id \in 0..WdComments,
                wdPanel' = [wdPanel EXCEPT !.editing = id, !.box = boxes]
         PROVE  /\ wdPanel' \in PanelType /\ wdPanel'.local = wdPanel.local
                /\ wdPanel'.deleted = wdPanel.deleted
    <2>1. LET e == [wdPanel EXCEPT !.editing = id, !.box = boxes]
          IN  e \in PanelType /\ e.local = wdPanel.local /\ e.deleted = wdPanel.deleted
      BY <1>1 DEF PanelType
    <2> QED BY <1>11, <2>1, Zenon
  <1>12. CASE CancelEdit
    <2>1. [wdPanel.box EXCEPT !.edit = EditBox] \in Boxes
      BY <1>1, EditorIsABox
    <2>2. wdPanel' = [wdPanel EXCEPT !.editing = 0,
                                     !.box = [wdPanel.box EXCEPT !.edit = EditBox]]
      BY <1>1, <1>12 DEF CancelEdit, PanelType
    <2>3. wdReqs' \subseteq Written
      BY <1>1, <1>12, WrittenStays DEF CancelEdit
    <2> QED BY <1>2, <1>3, <1>4, <1>11, <1>12, <2>1, <2>2, <2>3 DEF CancelEdit
  <1>13. ASSUME NEW c \in CommentList, StartEdit(c) PROVE TalkInv'
    <2>1. c.id \in 0..WdComments
      BY <1>1, ListedComments, WdCommentsAreCounted DEF Comment, Ids
    <2>2. [wdPanel.box EXCEPT !.edit = EditBox] \in Boxes
      BY <1>1, EditorIsABox
    <2>3. wdPanel' = [wdPanel EXCEPT !.editing = c.id,
                                     !.box = [wdPanel.box EXCEPT !.edit = EditBox]]
      BY <1>1, <1>13 DEF StartEdit, PanelType
    <2>4. wdReqs' \subseteq Written
      BY <1>1, <1>13, WrittenStays DEF StartEdit
    <2> QED BY <1>3, <1>4, <1>11, <1>13, <2>1, <2>2, <2>3, <2>4 DEF StartEdit
  <1>14. ASSUME NEW id \in 0..WdComments, wdPanel' = [wdPanel EXCEPT !.confirm = id]
         PROVE  /\ wdPanel' \in PanelType /\ wdPanel'.local = wdPanel.local
                /\ wdPanel'.deleted = wdPanel.deleted
    BY <1>1, <1>14, PanelUpdates DEF TalkStation
  <1>15. ASSUME NEW c \in CommentList, AskDelete(c) PROVE TalkInv'
    <2>1. c.id \in 0..WdComments
      BY <1>1, ListedComments, WdCommentsAreCounted DEF Comment, Ids
    <2> QED BY <1>1, <1>3, <1>4, <1>14, <1>15, <2>1 DEF AskDelete
  <1>16. CASE CancelDelete
    BY <1>1, <1>2, <1>3, <1>4, <1>14, <1>16 DEF CancelDelete
  <1>17. ASSUME NEW b \in {"new", "edit"}, SubmitComment(b) PROVE TalkInv'
    <2> DEFINE id   == IF b = "edit" THEN wdPanel.editing ELSE 0
               ver  == IF b = "edit" THEN wdCount.acts + 2 ELSE 1
               c    == [id |-> id, st |-> wdPanel.st, mine |-> TRUE, ver |-> ver]
               told == IF b = "edit" /\ EditsOf(id) # {}
                       THEN [wdTold EXCEPT ![id].crossed = TRUE] ELSE wdTold
    <2>1. wdReqs' = wdReqs \cup {Write(b, c)} /\ wdTold' = told
      BY <1>17 DEF SubmitComment
    <2>2. b = "edit" => id \in Ids
      <3>1. CASE b = "edit"
        <4>1. PICK d \in CommentList : d.id = wdPanel.editing
          BY <1>17, <3>1 DEF SubmitComment, Composers
        <4> QED BY <1>1, <3>1, <4>1, ListedComments DEF Comment
      <3> QED BY <3>1
    <2>3. wdPanel.st \in TalkStation /\ wdCount.acts \in Nat /\ id \in 0..WdComments
      BY <1>1, <1>2, <1>4 DEF PanelType, Tally
    <2>4. c \in Drafted /\ (b = "edit" => c \in Comment /\ c.ver > 1) /\ (b = "new" => c.ver = 1)
      <3>1. ver \in Nat \ {0} /\ (b = "edit" => ver > 1) /\ (b = "new" => ver = 1)
        BY <2>3
      <3>2. c.ver = ver
        OBVIOUS
      <3> HIDE DEF ver, id
      <3> QED BY <2>2, <2>3, <3>1, <3>2 DEF Drafted, Comment
    <2>5. Write(b, c) \in Written
      <3> HIDE DEF c
      <3> QED BY <2>3, <2>4, WritesAreWritten
    <2>6. wdReqs' \subseteq Written
      BY <1>1, <2>1, <2>5
    <2>7. /\ wdTold' \in ToldType
          /\ \A i \in Ids : /\ wdTold'[i].ver = wdTold[i].ver
                            /\ wdTold'[i].gone = wdTold[i].gone
                            /\ wdTold[i].crossed => wdTold'[i].crossed
      <3> HIDE DEF id
      <3> QED BY <1>1, <2>1 DEF WdTypeOK, ToldType
    <2>8. /\ wdPanel' \in PanelType /\ wdPanel'.local = wdPanel.local
          /\ wdPanel'.deleted = wdPanel.deleted
      BY <1>1, <1>6, <1>7, <1>17 DEF SubmitComment
    <2>9. PanelHoldsTheTold'
      BY <1>1, <2>7, <2>8 DEF PanelHoldsTheTold
    <2>10. UNCHANGED <<wdServer, wdCache, wdFetch, wdWire>> /\ wdCount' \in Tally
      BY <1>4, <1>17 DEF SubmitComment
    <2> QED BY <1>1, <2>6, <2>7, <2>8, <2>9, <2>10 DEF TalkInv, WdTypeOK
  <1> QED BY <1>5, <1>9, <1>10, <1>12, <1>13, <1>15, <1>16, <1>17

\* A live event joins the list; the user's own copies stay.
LEMMA EventKeepsTheTold == ASSUME TalkInv, LiveEvent PROVE TalkInv'
  <1>1. WdTypeOK /\ PanelHoldsTheTold /\ wdPanel \in PanelType
    BY DEF TalkInv, WdTypeOK
  <1> PICK e \in wdWire :
    /\ wdWire' = wdWire \ {e}
    /\ wdPanel' = IF e.kind = "comment" /\ "panel" \in wdStream[e.st]
                  THEN [wdPanel EXCEPT !.local = OnComment(e.c)] ELSE wdPanel
    BY DEF LiveEvent
  <1>2. UNCHANGED <<wdServer, wdCache, wdFetch, wdReqs, wdTold, wdCount>>
    BY DEF LiveEvent
  <1>3. CASE wdPanel' = wdPanel
    BY <1>1, <1>2, <1>3, HoldingStays DEF TalkInv, WdTypeOK
  <1>4. CASE e.kind = "comment" /\ wdPanel' = [wdPanel EXCEPT !.local = OnComment(e.c)]
    <2>1. e.c \in Comment
      BY <1>1, <1>4 DEF WdTypeOK
    <2>2. OnComment(e.c) \subseteq Comment /\ wdPanel.local \subseteq OnComment(e.c)
      BY <1>1, <2>1, JoiningKeeps
    <2>3. /\ wdPanel' \in PanelType /\ wdPanel'.local = OnComment(e.c)
          /\ wdPanel'.deleted = wdPanel.deleted
      BY <1>1, <1>4, <2>2 DEF PanelType
    <2>4. PanelHoldsTheTold'
      BY <1>1, <1>2, <2>2, <2>3 DEF PanelHoldsTheTold
    <2> QED BY <1>1, <1>2, <2>3, <2>4 DEF TalkInv, WdTypeOK
  <1> QED BY <1>3, <1>4

\* The panel follows the player with all it holds, or is mounted anew: then the user was
\* told nothing through it.
LEMMA ShowingKeepsTheTold ==
    ASSUME TalkInv, NEW st \in WdStation \cup {WdNone}, ShowPanel(st) PROVE TalkInv'
  <1>1. /\ WdTypeOK /\ PanelHoldsTheTold /\ wdPanel \in PanelType /\ wdReqs \subseteq Written
        /\ wdPanel.box \in Boxes /\ 0 \in 0..WdComments /\ st \in TalkStation
    BY WdCommentsAreCounted DEF TalkInv, WdTypeOK, PanelType, TalkStation
  <1>2. /\ UNCHANGED <<wdServer, wdCache, wdFetch>> /\ wdWire' \subseteq wdWire
        /\ wdCount' \in Tally
    BY <1>1, CountUpdates DEF ShowPanel, EventsOf, TalkAct, Spend, WdTypeOK
  <1>3. CASE st # WdNone /\ wdPanel.st # WdNone
    <2>1. [wdPanel.box EXCEPT !.edit = Editor(wdCache[st])] \in Boxes
      BY <1>1, EditorIsABox
    <2>2. wdPanel' = [wdPanel EXCEPT !.st = st,
                !.box = [wdPanel.box EXCEPT !.edit = Editor(wdCache[st])]]
      BY <1>1, <1>3 DEF ShowPanel, PanelType
    <2>3. /\ wdPanel' \in PanelType /\ wdPanel'.local = wdPanel.local
          /\ wdPanel'.deleted = wdPanel.deleted
      BY <1>1, <2>1, <2>2 DEF PanelType
    <2>4. wdReqs' \subseteq Written /\ UNCHANGED wdTold
      BY <1>1, <1>3, EditorIsABox DEF ShowPanel
    <2> QED BY <1>1, <1>2, <2>3, <2>4, HoldingStays DEF TalkInv, WdTypeOK
  <1>4. CASE ~(st # WdNone /\ wdPanel.st # WdNone)
    <2>1. wdPanel' = Mounted(st) /\ wdTold' = Untold /\ wdReqs' = Abandoned(wdReqs)
      BY <1>4 DEF ShowPanel
    <2>2. Mounted(st) \in PanelType /\ Mounted(st).local = {} /\ Mounted(st).deleted = {}
      BY <1>1 DEF Mounted, EditBox, EmptyBox, PanelType, Boxes, BoxType
    <2>3. Untold \in ToldType /\ \A id \in Ids : ~Untold[id].gone /\ Untold[id].ver = 0
      BY DEF Untold, ToldType, Ids
    <2>4. wdReqs' \subseteq Written
      BY <1>1, <2>1, WrittenStays
    <2> QED BY <1>1, <1>2, <2>1, <2>2, <2>3, <2>4 DEF TalkInv, WdTypeOK, PanelHoldsTheTold
  <1> QED BY <1>3, <1>4

\* A page arrives: the page's own copies are not touched.
LEMMA PollKeepsTheTold == ASSUME TalkInv, Polled PROVE TalkInv'
  <1> PICK f \in wdFetch :
    /\ wdFetch' = wdFetch \ {f}
    /\ wdCache' = [wdCache EXCEPT ![f.st] = f.data]
    /\ IF f.st = wdPanel.st
       THEN /\ wdPanel' = [wdPanel EXCEPT !.box.edit = Editor(f.data)]
            /\ wdReqs' = EditorStays(f.data)
       ELSE UNCHANGED <<wdPanel, wdReqs>>
    /\ UNCHANGED <<wdServer, wdWire, wdTold, wdCount>>
    BY DEF Polled
  <1>1. WdTypeOK /\ PanelHoldsTheTold /\ wdPanel \in PanelType
    BY DEF TalkInv, WdTypeOK
  <1>2. /\ wdPanel' \in PanelType /\ wdPanel'.local = wdPanel.local
        /\ wdPanel'.deleted = wdPanel.deleted
    <2> DEFINE boxes == [wdPanel.box EXCEPT !.edit = Editor(f.data)]
    <2>1. boxes \in Boxes
      BY <1>1, EditorIsABox
    <2>2. wdPanel' = wdPanel \/ wdPanel' = [wdPanel EXCEPT !.box = boxes]
      BY <1>1 DEF PanelType
    <2> HIDE DEF boxes
    <2> QED BY <1>1, <2>1, <2>2 DEF PanelType
  <1>3. wdReqs' \subseteq Written
    BY <1>1, EditorIsABox DEF WdTypeOK
  <1>4. wdFetch' \subseteq FetchType /\ wdCache' \in [WdStation -> SUBSET Comment]
    BY <1>1 DEF WdTypeOK, FetchType
  <1> QED BY <1>1, <1>2, <1>3, <1>4, HoldingStays DEF TalkInv, WdTypeOK

\* A delete is shown at once, and told.
LEMMA DeleteKeepsTheTold == ASSUME TalkInv, PerformDelete PROVE TalkInv'
  <1> DEFINE id    == wdPanel.confirm
             rest  == wdPanel.local \ Copies(id)
             boxes == [wdPanel.box EXCEPT !.edit = IF wdPanel.editing = id THEN EditBox ELSE @]
             c     == [id |-> id, st |-> wdPanel.st, mine |-> TRUE, ver |-> 1]
  <1>1. /\ WdTypeOK /\ PanelHoldsTheTold /\ wdPanel \in PanelType /\ wdReqs \subseteq Written
        /\ wdPanel.box \in Boxes /\ 0 \in 0..WdComments /\ wdPanel.st \in TalkStation
        /\ wdPanel.editing \in 0..WdComments /\ wdTold \in ToldType
        /\ wdPanel.local \subseteq Comment /\ wdPanel.deleted \subseteq Ids
    BY WdCommentsAreCounted DEF TalkInv, WdTypeOK, PanelType
  <1>2. id \in Ids /\ id \in 0..WdComments
    BY <1>1, WdCommentsAreCounted DEF PerformDelete, PanelType, Ids
  <1>3. UNCHANGED <<wdServer, wdCache, wdFetch, wdWire>> /\ wdCount' \in Tally
    BY <1>1, CountUpdates DEF PerformDelete, TalkAct, Spend, WdTypeOK
  <1>4. boxes \in Boxes
    BY <1>1, EditorIsABox DEF Boxes
  <1>5. /\ wdPanel' = [wdPanel EXCEPT !.confirm = 0, !.deleted = wdPanel.deleted \cup {id},
                           !.local = rest,
                           !.editing = IF wdPanel.editing = id THEN 0 ELSE wdPanel.editing,
                           !.box = boxes]
    BY <1>1 DEF PerformDelete, PanelType
  <1>6. /\ wdPanel' \in PanelType /\ wdPanel'.local = rest
        /\ wdPanel'.deleted = wdPanel.deleted \cup {id}
    <2>1. rest \in SUBSET Comment /\ wdPanel.deleted \cup {id} \in SUBSET Ids
      BY <1>1, <1>2
    <2>2. (IF wdPanel.editing = id THEN 0 ELSE wdPanel.editing) \in 0..WdComments
      BY <1>1
    <2> HIDE DEF rest, boxes, id
    <2> QED BY <1>1, <1>4, <1>5, <2>1, <2>2 DEF PanelType
  <1>7. wdReqs' \subseteq Written
    <2>1. c \in Drafted /\ c.id \in Ids /\ wdCount.acts \in Nat
      BY <1>1, <1>2 DEF Drafted, WdTypeOK, Tally
    <2>2. Write("delete", c) \in Written
      <3> HIDE DEF c
      <3> QED BY <2>1, WritesAreWritten
    <2>3. \E box : wdReqs' = Orphaned(wdReqs, box) \cup {Write("delete", c)}
      BY DEF PerformDelete
    <2> HIDE DEF c
    <2> QED BY <1>1, <2>2, <2>3, WrittenStays
  <1>8. /\ wdTold' \in ToldType /\ wdTold'[id].gone /\ wdTold'[id].ver = 0
        /\ \A i \in Ids : i # id => wdTold'[i] = wdTold[i]
    BY <1>1, <1>2 DEF PerformDelete, ToldType
  <1>9. PanelHoldsTheTold'
    <2>1. \A i \in Ids : i \in wdPanel'.deleted <=> wdTold'[i].gone
      BY <1>1, <1>6, <1>8 DEF PanelHoldsTheTold
    <2>2. ASSUME NEW i \in Ids, wdTold'[i].ver > 0
          PROVE  \E d \in wdPanel'.local :
                    d.id = i /\ (d.ver >= wdTold'[i].ver \/ wdTold'[i].crossed)
      <3>1. i # id /\ wdTold'[i] = wdTold[i]
        BY <1>8, <2>2
      <3>2. PICK d \in wdPanel.local : d.id = i /\ (d.ver >= wdTold[i].ver \/ wdTold[i].crossed)
        BY <1>1, <2>2, <3>1 DEF PanelHoldsTheTold
      <3> QED BY <1>6, <3>1, <3>2 DEF Copies
    <2> QED BY <2>1, <2>2 DEF PanelHoldsTheTold
  <1> QED BY <1>1, <1>3, <1>6, <1>7, <1>8, <1>9 DEF TalkInv, WdTypeOK

\* An answer: the new comment joins the list, the edited one replaces its copy.
LEMMA AnswerKeepsTheTold == ASSUME TalkInv, EditsInOrder, PostAnswered PROVE TalkInv'
  <1> PICK r \in wdReqs :
    /\ r.done
    /\ wdPanel' = IF r.live THEN OnPosted(r) ELSE wdPanel
    /\ wdReqs' = IF r.live /\ r.op = "edit" THEN Orphaned(wdReqs \ {r}, "edit") ELSE wdReqs \ {r}
    /\ wdTold' = IF r.live /\ r.c.ver > wdTold[r.c.id].ver
                 THEN [wdTold EXCEPT ![r.c.id].ver = r.c.ver] ELSE wdTold
    BY DEF PostAnswered
  <1>1. /\ WdTypeOK /\ PanelHoldsTheTold /\ wdPanel \in PanelType /\ wdReqs \subseteq Written
        /\ wdPanel.box \in Boxes /\ 0 \in 0..WdComments /\ wdTold \in ToldType
        /\ wdPanel.editing \in 0..WdComments /\ wdPanel.local \subseteq Comment
    BY WdCommentsAreCounted DEF TalkInv, WdTypeOK, PanelType
  <1>2. UNCHANGED <<wdServer, wdCache, wdFetch, wdWire, wdCount>>
    BY DEF PostAnswered
  <1>3. /\ r.op \in {"new", "edit"} /\ r.c \in Comment /\ r.c.id \in Ids
        /\ r.c.ver \in Nat \ {0} /\ (r.op = "new" => r.c.ver = 1)
    BY <1>1 DEF Written, ReqType, Comment
  <1>4. wdReqs' \subseteq Written
    BY <1>1, WrittenStays
  <1>5. CASE ~r.live
    BY <1>1, <1>2, <1>4, <1>5, HoldingStays DEF TalkInv, WdTypeOK
  <1>6. CASE r.live
    <2> DEFINE local == IF r.op = "edit" THEN (wdPanel.local \ Copies(r.c.id)) \cup {r.c}
                        ELSE OnComment(r.c)
               boxes == [new  |-> IF r.op = "new" /\ r.box THEN EmptyBox ELSE wdPanel.box.new,
                         edit |-> IF r.op = "edit" THEN EditBox ELSE wdPanel.box.edit]
    <2>1. wdPanel' = [wdPanel EXCEPT !.local = local,
                          !.editing = IF r.op = "edit" THEN 0 ELSE wdPanel.editing,
                          !.box = boxes]
      BY <1>1, <1>6 DEF OnPosted, PanelType
    <2>2. boxes \in Boxes
      BY <1>1, EditorIsABox DEF EmptyBox, Boxes, BoxType
    <2>3. /\ local \in SUBSET Comment
          /\ \A c \in wdPanel.local : c.id # r.c.id => c \in local
          /\ \E c \in local : c.id = r.c.id /\ c.ver >= r.c.ver
      <3>1. CASE r.op = "edit"
        <4>1. r.c.ver >= r.c.ver
          BY <1>3
        <4> QED BY <1>1, <1>3, <3>1, <4>1 DEF Copies
      <3>2. CASE r.op = "new"
        <4>1. OnComment(r.c) \subseteq Comment /\ wdPanel.local \subseteq OnComment(r.c)
          BY <1>1, <1>3, JoiningKeeps
        <4>2. PICK d \in OnComment(r.c) : d.id = r.c.id
          BY <1>1, <1>3, JoiningKeeps
        <4>3. d.ver >= r.c.ver
          BY <1>3, <3>2, <4>1, <4>2 DEF Comment
        <4> QED BY <3>2, <4>1, <4>2, <4>3
      <3> QED BY <1>3, <3>1, <3>2
    <2>4. /\ wdPanel' \in PanelType /\ wdPanel'.local = local
          /\ wdPanel'.deleted = wdPanel.deleted
      <3>1. (IF r.op = "edit" THEN 0 ELSE wdPanel.editing) \in 0..WdComments
        BY <1>1
      <3> HIDE DEF local, boxes
      <3> QED BY <1>1, <2>1, <2>2, <2>3, <3>1 DEF PanelType
    <2>5. /\ wdTold' \in ToldType
          /\ \A i \in Ids : /\ wdTold'[i].gone = wdTold[i].gone
                            /\ wdTold'[i].crossed = wdTold[i].crossed
          /\ \A i \in Ids : i # r.c.id => wdTold'[i] = wdTold[i]
          /\ \/ wdTold'[r.c.id].ver = r.c.ver
             \/ r.c.ver <= wdTold[r.c.id].ver /\ wdTold' = wdTold
      <3>1. CASE r.c.ver > wdTold[r.c.id].ver
        BY <1>1, <1>3, <1>6, <3>1 DEF ToldType
      <3>2. CASE ~(r.c.ver > wdTold[r.c.id].ver)
        <4>1. wdTold' = wdTold /\ wdTold[r.c.id].ver \in Nat
          BY <1>1, <1>3, <3>2 DEF ToldType
        <4> QED BY <1>1, <1>3, <3>2, <4>1
      <3> QED BY <3>1, <3>2
    <2>6. ASSUME r.op = "edit", r.c.ver <= wdTold[r.c.id].ver PROVE wdTold[r.c.id].crossed
      BY <1>1, <1>3, <1>6, <2>6 DEF EditsInOrder, InOrder, ToldType
    <2>7. r.op = "new" => wdPanel.local \subseteq local
      BY <1>1, <1>3, JoiningKeeps
    <2> HIDE DEF local, boxes
    <2>8. PanelHoldsTheTold'
      <3>1. ASSUME NEW i \in Ids, wdTold'[i].ver > 0
            PROVE  \E c \in wdPanel'.local :
                      c.id = i /\ (c.ver >= wdTold'[i].ver \/ wdTold'[i].crossed)
        <4>1. CASE i = r.c.id /\ wdTold'[i].ver = r.c.ver
          BY <2>3, <2>4, <4>1
        <4>2. CASE i = r.c.id /\ r.op = "edit" /\ r.c.ver <= wdTold[i].ver /\ wdTold' = wdTold
          BY <2>3, <2>4, <2>6, <4>2
        <4>3. ASSUME i # r.c.id \/ (r.op = "new" /\ wdTold' = wdTold)
              PROVE  \E c \in wdPanel'.local :
                        c.id = i /\ (c.ver >= wdTold'[i].ver \/ wdTold'[i].crossed)
          <5>1. wdTold'[i] = wdTold[i]
            BY <2>5, <4>3
          <5>2. PICK c \in wdPanel.local :
                   c.id = i /\ (c.ver >= wdTold[i].ver \/ wdTold[i].crossed)
            BY <1>1, <3>1, <5>1 DEF PanelHoldsTheTold
          <5>3. c \in local
            BY <2>3, <2>7, <4>3, <5>2
          <5> QED BY <2>4, <5>1, <5>2, <5>3
        <4> QED BY <1>3, <2>5, <4>1, <4>2, <4>3
      <3>2. \A i \in Ids : i \in wdPanel'.deleted <=> wdTold'[i].gone
        BY <1>1, <2>4, <2>5 DEF PanelHoldsTheTold
      <3> QED BY <3>1, <3>2 DEF PanelHoldsTheTold
    <2> QED BY <1>1, <1>2, <1>4, <2>4, <2>5, <2>8 DEF TalkInv, WdTypeOK
  <1> QED BY <1>5, <1>6

\* A write fails: of a delete that failed no more is told, and what was answered since
\* stands.
LEMMA FailureKeepsTheTold == ASSUME TalkInv, RequestFails PROVE TalkInv'
  <1> PICK r \in wdReqs, landed \in BOOLEAN :
    /\ wdReqs' = wdReqs \ {r}
    /\ wdServer' = IF landed THEN {c \in wdServer : c.id # r.c.id} ELSE wdServer
    /\ IF r.op = "delete"
       THEN /\ wdPanel' = IF r.live THEN [wdPanel EXCEPT !.deleted = @ \ {r.c.id}] ELSE wdPanel
            /\ wdTold' = IF r.live THEN [wdTold EXCEPT ![r.c.id].gone = FALSE] ELSE wdTold
       ELSE /\ wdPanel' = IF r.box THEN [wdPanel EXCEPT !.box[r.op].busy = FALSE] ELSE wdPanel
            /\ wdTold' = wdTold
    BY DEF RequestFails
  <1>1. /\ WdTypeOK /\ PanelHoldsTheTold /\ wdPanel \in PanelType /\ wdReqs \subseteq Written
        /\ wdPanel.box \in Boxes /\ 0 \in 0..WdComments /\ wdTold \in ToldType
        /\ wdPanel.deleted \subseteq Ids
    BY WdCommentsAreCounted DEF TalkInv, WdTypeOK, PanelType
  <1>2. /\ UNCHANGED <<wdCache, wdFetch, wdWire>> /\ wdCount' \in Tally
        /\ wdServer' \subseteq Comment
    BY <1>1, CountUpdates DEF RequestFails, Spend, WdTypeOK
  <1>3. CASE wdPanel' = wdPanel /\ wdTold' = wdTold
    BY <1>1, <1>2, <1>3, HoldingStays DEF TalkInv, WdTypeOK
  <1>4. CASE r.op = "delete" /\ r.live
    <2>1. r.c.id \in Ids
      BY <1>1, <1>4 DEF Written
    <2>2. /\ wdPanel' \in PanelType /\ wdPanel'.local = wdPanel.local
          /\ wdPanel'.deleted = wdPanel.deleted \ {r.c.id}
      BY <1>1, <1>4 DEF PanelType
    <2>3. /\ wdTold' \in ToldType /\ ~wdTold'[r.c.id].gone
          /\ wdTold'[r.c.id].ver = wdTold[r.c.id].ver
          /\ wdTold'[r.c.id].crossed = wdTold[r.c.id].crossed
          /\ \A i \in Ids : i # r.c.id => wdTold'[i] = wdTold[i]
      <3> DEFINE id == r.c.id
                 t  == [wdTold[id] EXCEPT !.gone = FALSE]
      <3>1. wdTold[id] \in [ver : Nat, gone : BOOLEAN, crossed : BOOLEAN]
        BY <1>1, <2>1 DEF ToldType
      <3>2. /\ t \in [ver : Nat, gone : BOOLEAN, crossed : BOOLEAN] /\ ~t.gone
            /\ t.ver = wdTold[id].ver /\ t.crossed = wdTold[id].crossed
        BY <3>1
      <3>3. wdTold' = [wdTold EXCEPT ![id] = t]
        BY <1>4
      <3> HIDE DEF t, id
      <3>4. wdTold' \in ToldType
        BY <1>1, <3>2, <3>3 DEF ToldType
      <3>5. r.c.id = id /\ wdTold'[id] = t /\ \A i \in Ids : i # id => wdTold'[i] = wdTold[i]
        BY <1>1, <2>1, <3>3 DEF ToldType, id
      <3> QED BY <3>2, <3>4, <3>5
    <2>4. PanelHoldsTheTold'
      BY <1>1, <2>1, <2>2, <2>3 DEF PanelHoldsTheTold
    <2> QED BY <1>1, <1>2, <2>2, <2>3, <2>4 DEF TalkInv, WdTypeOK
  <1>5. CASE r.op # "delete" /\ r.box
    <2>1. r.op \in {"new", "edit"}
      BY <1>1, <1>5 DEF Written, ReqType
    <2>2. [wdPanel.box EXCEPT ![r.op].busy = FALSE] \in Boxes
      BY <1>1, <2>1 DEF Boxes, BoxType
    <2>3. wdPanel' = [wdPanel EXCEPT !.box = [wdPanel.box EXCEPT ![r.op].busy = FALSE]]
      BY <1>1, <1>5 DEF PanelType
    <2>4. /\ wdPanel' \in PanelType /\ wdPanel'.local = wdPanel.local
          /\ wdPanel'.deleted = wdPanel.deleted
      <3> DEFINE boxes == [wdPanel.box EXCEPT ![r.op].busy = FALSE]
      <3>1. boxes \in Boxes /\ wdPanel' = [wdPanel EXCEPT !.box = boxes]
        BY <2>2, <2>3
      <3> HIDE DEF boxes
      <3> QED BY <1>1, <3>1 DEF PanelType
    <2> QED BY <1>1, <1>2, <1>5, <2>4, HoldingStays DEF TalkInv, WdTypeOK
  <1> QED BY <1>3, <1>4, <1>5

\* The order stands when requests end, lose their composer or their panel, or begin a
\* delete or a new comment, and when the user is told less.
LEMMA OrderStays ==
    ASSUME NEW reqs \in SUBSET Written, NEW told \in ToldType, NEW acts \in Nat,
           InOrder(reqs, told, acts), NEW later \in Nat, acts <= later,
           NEW next \in ToldType,
           \A id \in Ids : /\ next[id].ver <= told[id].ver
                           /\ told[id].crossed => next[id].crossed
    PROVE  /\ \A rest \in SUBSET reqs : InOrder(rest, next, later)
           /\ \A box : InOrder(Orphaned(reqs, box), next, later)
  <1>1. ASSUME NEW id \in Ids
        PROVE  /\ told[id].ver \in Nat /\ next[id].ver \in Nat
               /\ next[id].ver <= told[id].ver /\ told[id].ver <= acts + 1
               /\ told[id].crossed => next[id].crossed
    <2>1. told[id].ver \in Nat /\ next[id].ver \in Nat
      BY DEF ToldType
    <2>2. told[id].ver <= acts + 1
      BY DEF InOrder
    <2>3. next[id].ver <= told[id].ver
      OBVIOUS
    <2>4. told[id].crossed => next[id].crossed
      OBVIOUS
    <2> QED BY <2>1, <2>2, <2>3, <2>4
  <1>2. ASSUME NEW r \in reqs, r.op = "edit"
        PROVE  r.c.id \in Ids /\ r.c.ver \in Nat /\ r.c.ver <= acts + 1
    BY <1>2 DEF Written, Comment, InOrder
  <1>3. InOrder(reqs, next, later)
    <2>1. ASSUME NEW id \in Ids PROVE next[id].ver <= later + 1
      BY <1>1
    <2>2. ASSUME NEW r \in reqs, r.op = "edit" PROVE r.c.ver <= later + 1
      BY <1>2, <2>2
    <2>3. ASSUME NEW r \in reqs, NEW s \in reqs, r.op = "edit", r.live, s.op = "edit",
                 s.live, r.c.id = s.c.id, ~next[r.c.id].crossed
          PROVE  r = s /\ r.c.ver > next[r.c.id].ver
      <3>1. r.c.id \in Ids /\ r.c.ver \in Nat
        BY <1>2, <2>3
      <3>2. ~told[r.c.id].crossed /\ next[r.c.id].ver <= told[r.c.id].ver
        BY <1>1, <2>3, <3>1
      <3>3. r = s /\ r.c.ver > told[r.c.id].ver
        BY <2>3, <3>2 DEF InOrder
      <3>4. told[r.c.id].ver \in Nat /\ next[r.c.id].ver \in Nat
        BY <1>1, <3>1
      <3> QED BY <3>1, <3>2, <3>3, <3>4
    <2> QED BY <2>1, <2>2, <2>3 DEF InOrder
  <1>4. ASSUME NEW rest \in SUBSET reqs PROVE InOrder(rest, next, later)
    BY <1>3 DEF InOrder
  <1>5. ASSUME NEW box PROVE InOrder(Orphaned(reqs, box), next, later)
    <2>1. \A r \in Orphaned(reqs, box) : \E o \in reqs :
             /\ r = [o EXCEPT !.box = o.box /\ o.op # box]
             /\ r.op = o.op /\ r.c = o.c /\ r.live = o.live
      BY DEF Orphaned, Written, ReqType
    <2> QED BY <1>3, <2>1 DEF InOrder
  <1> QED BY <1>4, <1>5

\* No step takes an edit out of its order: one that is sent while another one is on its
\* way crosses it.
LEMMA OrderKept == ASSUME TalkInv, EditsInOrder, TalkInv', [WdNext]_wdVars PROVE EditsInOrder'
  <1>1. /\ wdReqs \in SUBSET Written /\ wdTold \in ToldType /\ wdTold' \in ToldType
        /\ wdCount.acts \in Nat /\ wdCount'.acts \in Nat
        /\ InOrder(wdReqs, wdTold, wdCount.acts)
    BY DEF TalkInv, WdTypeOK, Tally, EditsInOrder
  <1>2. ASSUME wdCount.acts <= wdCount'.acts,
               \A id \in Ids : /\ wdTold'[id].ver <= wdTold[id].ver
                               /\ wdTold[id].crossed => wdTold'[id].crossed,
               \/ wdReqs' \subseteq wdReqs \/ \E box : wdReqs' = Orphaned(wdReqs, box)
        PROVE  EditsInOrder'
    <2>1. InOrder(wdReqs', wdTold', wdCount'.acts)
      BY <1>1, <1>2, OrderStays
    <2> QED BY <2>1 DEF EditsInOrder
  <1>3. \A id \in Ids : wdTold[id].ver <= wdTold[id].ver
    BY <1>1 DEF ToldType
  <1>4. wdCount.acts <= wdCount'.acts
    <2>1. ASSUME NEW what \in {"acts", "polls", "faults"}, NEW max, Spend(what, max)
          PROVE  wdCount.acts <= wdCount'.acts
      BY <1>1, <2>1 DEF Spend, TalkInv, WdTypeOK, Tally
    <2>2. CASE UNCHANGED wdCount
      BY <1>1, <2>2
    <2>3. ASSUME wdCount' = [wdCount EXCEPT !.ids = @ + 1] PROVE wdCount.acts <= wdCount'.acts
      BY <1>1, <2>3 DEF TalkInv, WdTypeOK, Tally
    <2> QED BY <2>1, <2>2, <2>3
        DEF WdNext, wdVars, LiveEvent, LiveDrops, ShowPanel, PlayOther, Poll, CommentsRead,
            Polled, SignInOrOut, Type, InsertMention, SubmitComment, StartEdit, AskDelete,
            CancelEdit, CancelDelete, PerformDelete, PutComment, PostAnswered, DeleteDone,
            RequestFails, React, OthersComment, OthersReact, Risen, TalkAct
  <1>5. ASSUME UNCHANGED wdTold,
               \/ wdReqs' \subseteq wdReqs \/ \E box : wdReqs' = Orphaned(wdReqs, box)
        PROVE  EditsInOrder'
    BY <1>2, <1>3, <1>4, <1>5
  <1>6. CASE UNCHANGED wdVars \/ LiveEvent \/ LiveDrops \/ Poll \/ CommentsRead \/ Type
             \/ InsertMention \/ CancelDelete \/ CancelEdit \/ DeleteDone \/ Risen
    BY <1>5, <1>6 DEF wdVars, LiveEvent, LiveDrops, Poll, CommentsRead, Type, InsertMention,
                      CancelDelete, CancelEdit, DeleteDone, Risen
  <1>7. ASSUME NEW st \in WdStation \cup {WdNone},
               PlayOther(st) \/ React(st) \/ OthersComment(st) \/ OthersReact(st)
        PROVE  EditsInOrder'
    BY <1>5, <1>7 DEF PlayOther, React, OthersComment, OthersReact
  <1>8. ASSUME NEW c \in CommentList, StartEdit(c) \/ AskDelete(c) PROVE EditsInOrder'
    BY <1>5, <1>8 DEF StartEdit, AskDelete
  <1>9. CASE Polled
    BY <1>5, <1>9 DEF Polled, EditorStays
  <1>10. CASE SignInOrOut
    <2>1. InOrder(Orphaned(wdReqs, "new"), wdTold, wdCount'.acts)
      BY <1>1, <1>3, <1>4, OrderStays
    <2>2. Orphaned(wdReqs, "new") \in SUBSET Written
      BY <1>1, WrittenStays
    <2>3. InOrder(Orphaned(Orphaned(wdReqs, "new"), "edit"), wdTold, wdCount'.acts)
      BY <1>1, <1>3, <2>1, <2>2, OrderStays
    <2> QED BY <1>10, <2>3 DEF SignInOrOut, EditsInOrder
  <1>11. ASSUME NEW st \in WdStation \cup {WdNone}, ShowPanel(st) PROVE EditsInOrder'
    <2>1. CASE st # WdNone /\ wdPanel.st # WdNone
      BY <1>5, <1>11, <2>1 DEF ShowPanel, EditorStays
    <2>2. CASE ~(st # WdNone /\ wdPanel.st # WdNone)
      <3>1. wdTold' = Untold /\ wdReqs' = Abandoned(wdReqs)
        BY <1>11, <2>2 DEF ShowPanel
      <3>2. \A r \in wdReqs' : ~r.live /\ \E o \in wdReqs : r.op = o.op /\ r.c = o.c
        BY <1>1, <3>1 DEF Abandoned, Written, ReqType
      <3>3. \A r \in wdReqs' : r.op = "edit" => r.c.ver <= wdCount'.acts + 1
        BY <1>1, <1>4, <3>2 DEF InOrder, Written, Comment
      <3>4. \A id \in Ids : wdTold'[id].ver <= wdCount'.acts + 1
        BY <1>1, <3>1 DEF Untold, Ids
      <3> QED BY <3>2, <3>3, <3>4 DEF EditsInOrder, InOrder
    <2> QED BY <2>1, <2>2
  <1>12. CASE PerformDelete
    <2>1. PICK box : wdReqs' = Orphaned(wdReqs, box) \cup
                {Write("delete", [id |-> wdPanel.confirm, st |-> wdPanel.st, mine |-> TRUE, ver |-> 1])}
      BY <1>12 DEF PerformDelete
    <2>2. wdTold' = [wdTold EXCEPT ![wdPanel.confirm].gone = TRUE, ![wdPanel.confirm].ver = 0]
      BY <1>12 DEF PerformDelete
    <2>3. \A id \in Ids : /\ wdTold'[id].ver <= wdTold[id].ver
                          /\ wdTold[id].crossed => wdTold'[id].crossed
      BY <1>1, <2>2 DEF ToldType
    <2>4. InOrder(Orphaned(wdReqs, box), wdTold', wdCount'.acts)
      BY <1>1, <1>4, <2>3, OrderStays
    <2>5. \A r \in wdReqs' : r.op = "edit" => r \in Orphaned(wdReqs, box)
      BY <2>1 DEF Write
    <2> QED BY <2>4, <2>5 DEF EditsInOrder, InOrder
  <1>13. CASE RequestFails
    <2>1. PICK id \in Ids : wdTold' = wdTold \/ wdTold' = [wdTold EXCEPT ![id].gone = FALSE]
      BY <1>1, <1>13, WdCommentsAreCounted DEF RequestFails, Written, Ids
    <2>2. \A i \in Ids : /\ wdTold'[i].ver <= wdTold[i].ver
                         /\ wdTold[i].crossed => wdTold'[i].crossed
      BY <1>1, <1>3, <2>1 DEF ToldType
    <2>3. wdReqs' \subseteq wdReqs
      BY <1>13 DEF RequestFails
    <2> QED BY <1>2, <1>4, <2>2, <2>3
  <1>14. CASE PutComment
    <2> PICK r \in wdReqs :
         /\ r.op \in {"new", "edit"} /\ ~r.done
         /\ LET c == IF r.op = "new" THEN [r.c EXCEPT !.id = wdCount.ids + 1] ELSE r.c
            IN  wdReqs' = (wdReqs \ {r}) \cup {[r EXCEPT !.c = c, !.done = TRUE]}
      BY <1>14 DEF PutComment
    <2>1. wdTold' = wdTold
      BY <1>14 DEF PutComment
    <2>2. CASE r.op = "new"
      <3>1. \A q \in wdReqs' : q.op = "edit" => q \in wdReqs
        BY <1>1, <2>2 DEF Written, ReqType
      <3>2. InOrder(wdReqs, wdTold, wdCount'.acts)
        BY <1>1, <1>3, <1>4, OrderStays
      <3> QED BY <2>1, <3>1, <3>2 DEF EditsInOrder, InOrder
    <2>3. CASE r.op = "edit"
      <3> DEFINE q == [r EXCEPT !.c = r.c, !.done = TRUE]
      <3>1. q.op = r.op /\ q.c = r.c /\ q.live = r.live
        BY <1>1 DEF Written, ReqType
      <3>2. wdReqs' = (wdReqs \ {r}) \cup {q}
        BY <2>3
      <3>3. InOrder(wdReqs, wdTold, wdCount'.acts)
        BY <1>1, <1>3, <1>4, OrderStays
      <3> HIDE DEF q
      <3> QED BY <2>1, <3>1, <3>2, <3>3 DEF EditsInOrder, InOrder
    <2> QED BY <2>2, <2>3
  <1>15. CASE PostAnswered
    <2> PICK r \in wdReqs :
      /\ r.done
      /\ wdReqs' = IF r.live /\ r.op = "edit" THEN Orphaned(wdReqs \ {r}, "edit") ELSE wdReqs \ {r}
      /\ wdTold' = IF r.live /\ r.c.ver > wdTold[r.c.id].ver
                   THEN [wdTold EXCEPT ![r.c.id].ver = r.c.ver] ELSE wdTold
      BY <1>15 DEF PostAnswered
    <2>1. /\ r.op \in {"new", "edit"} /\ r.c \in Comment /\ r.c.id \in Ids
          /\ r.c.ver \in Nat \ {0} /\ (r.op = "new" => r.c.ver = 1)
      BY <1>1 DEF Written, ReqType, Comment
    <2>2. /\ \A i \in Ids : wdTold'[i].crossed = wdTold[i].crossed
          /\ \A i \in Ids : i # r.c.id => wdTold'[i].ver = wdTold[i].ver
          /\ \/ wdTold'[r.c.id].ver = wdTold[r.c.id].ver
             \/ r.live /\ wdTold'[r.c.id].ver = r.c.ver
      BY <1>1, <2>1 DEF ToldType
    <2>3. InOrder(wdReqs \ {r}, wdTold', wdCount'.acts)
      <3>1. \A i \in Ids : wdTold'[i].ver <= wdCount'.acts + 1
        <4>1. r.c.ver <= wdCount.acts + 1
          BY <1>1, <2>1 DEF InOrder
        <4> QED BY <1>1, <1>4, <2>1, <2>2, <4>1 DEF InOrder, ToldType
      <3>2. ASSUME NEW q \in wdReqs \ {r}, q.op = "edit" PROVE q.c.ver <= wdCount'.acts + 1
        BY <1>1, <1>4, <3>2 DEF InOrder, Written, Comment
      <3>3. ASSUME NEW q \in wdReqs \ {r}, NEW s \in wdReqs \ {r},
                   q.op = "edit", q.live, s.op = "edit", s.live, q.c.id = s.c.id,
                   ~wdTold'[q.c.id].crossed
            PROVE  q = s /\ q.c.ver > wdTold'[q.c.id].ver
        <4>1. q.c.id \in Ids /\ q.c.ver \in Nat /\ q.c.ver > 1
          BY <1>1, <3>3 DEF Written, Comment
        <4>2. q = s /\ q.c.ver > wdTold[q.c.id].ver
          BY <1>1, <2>2, <3>3, <4>1 DEF InOrder
        <4>3. CASE wdTold'[q.c.id].ver = wdTold[q.c.id].ver
          BY <4>2, <4>3
        <4>4. CASE q.c.id = r.c.id /\ r.live /\ wdTold'[r.c.id].ver = r.c.ver
          <5>1. r.op # "edit"
            BY <1>1, <2>2, <3>3, <4>1, <4>4 DEF InOrder
          <5> QED BY <2>1, <4>1, <4>2, <4>4, <5>1
        <4> QED BY <2>2, <4>1, <4>2, <4>3, <4>4
      <3> QED BY <3>1, <3>2, <3>3 DEF InOrder
    <2>4. InOrder(Orphaned(wdReqs \ {r}, "edit"), wdTold', wdCount'.acts)
      <3>1. \A i \in Ids : wdTold'[i].ver <= wdTold'[i].ver
        BY <1>1 DEF ToldType
      <3>2. wdReqs \ {r} \in SUBSET Written
        BY <1>1
      <3>3. wdCount'.acts <= wdCount'.acts
        BY <1>1
      <3> QED BY <1>1, <2>3, <3>1, <3>2, <3>3, OrderStays
    <2> QED BY <2>3, <2>4 DEF EditsInOrder
  <1>16. ASSUME NEW b \in {"new", "edit"}, SubmitComment(b) PROVE EditsInOrder'
    <2> DEFINE id   == IF b = "edit" THEN wdPanel.editing ELSE 0
               c    == [id |-> id, st |-> wdPanel.st, mine |-> TRUE,
                        ver |-> IF b = "edit" THEN wdCount.acts + 2 ELSE 1]
               w    == Write(b, c)
    <2>1. /\ wdReqs' = wdReqs \cup {w} /\ wdCount'.acts = wdCount.acts + 1
          /\ wdTold' = IF b = "edit" /\ EditsOf(id) # {}
                       THEN [wdTold EXCEPT ![id].crossed = TRUE] ELSE wdTold
      BY <1>16 DEF SubmitComment, TalkAct, Spend, TalkInv, WdTypeOK, Tally
    <2>2. w.op = b /\ w.c.id = id /\ (b = "edit" => w.c.ver = wdCount.acts + 2)
      BY DEF Write
    <2>3. w \in Written
      BY <2>1 DEF TalkInv, WdTypeOK
    <2> HIDE DEF w, c, id
    <2>4. /\ \A i \in Ids : wdTold'[i].ver <= wdTold[i].ver
          /\ \A i \in Ids : wdTold[i].crossed => wdTold'[i].crossed
          /\ b = "edit" /\ id \in Ids /\ EditsOf(id) # {} => wdTold'[id].crossed
      BY <1>1, <1>3, <2>1 DEF ToldType
    <2>5. InOrder(wdReqs, wdTold', wdCount'.acts)
      BY <1>1, <1>4, <2>4, OrderStays
    <2>6. CASE b = "new"
      BY <2>1, <2>2, <2>5, <2>6 DEF EditsInOrder, InOrder
    <2>7. CASE b = "edit"
      <3>1. id \in Ids /\ w.c.ver \in Nat
        BY <2>2, <2>3, <2>7 DEF Written, Comment
      <3>2. \A i \in Ids : wdTold'[i].ver <= wdCount.acts + 1
        BY <1>1, <2>4 DEF InOrder, ToldType
      <3>3. w.c.ver > wdTold'[id].ver
        BY <1>1, <2>2, <2>7, <3>1, <3>2 DEF ToldType
      <3>4. ASSUME NEW s \in wdReqs, s.op = "edit", s.live, s.c.id = id
            PROVE  wdTold'[id].crossed
        BY <2>4, <2>7, <3>1, <3>4 DEF EditsOf
      <3>5. \A q \in wdReqs' : q.op = "edit" => q.c.ver <= wdCount'.acts + 1
        BY <1>1, <2>1, <2>2, <2>5, <2>7 DEF InOrder
      <3>6. \A i \in Ids : wdTold'[i].ver <= wdCount'.acts + 1
        BY <2>5 DEF InOrder
      <3>7. ASSUME NEW q \in wdReqs', NEW s \in wdReqs',
                   q.op = "edit", q.live, s.op = "edit", s.live, q.c.id = s.c.id,
                   ~wdTold'[q.c.id].crossed
            PROVE  q = s /\ q.c.ver > wdTold'[q.c.id].ver
        <4>1. CASE q \in wdReqs /\ s \in wdReqs
          BY <2>5, <3>7, <4>1 DEF InOrder
        <4>2. CASE q = w \/ s = w
          BY <2>1, <2>2, <3>3, <3>4, <3>7, <4>2
        <4> QED BY <2>1, <4>1, <4>2
      <3> QED BY <3>5, <3>6, <3>7 DEF EditsInOrder, InOrder
    <2> QED BY <2>6, <2>7
  <1> QED BY <1>6, <1>7, <1>8, <1>9, <1>10, <1>11, <1>12, <1>13, <1>14, <1>15, <1>16 DEF WdNext

\* What a user posted or edited through a panel (CommentsPanel.tsx) stands in its list with
\* the last edit that was answered, and what was deleted stays out of it until the delete
\* fails, however late polls, live events, answers and failures come. Two edits of a comment
\* under way at once are excepted, and the page's own copy of a comment whose delete failed.
THEOREM OwnWordsAreKept == WdSpec => []OwnWordsStand
  <1>1. WdInit => TalkInv /\ EditsInOrder
    <2> SUFFICES ASSUME WdInit PROVE TalkInv /\ EditsInOrder
      OBVIOUS
    <2>1. wdPanel \in PanelType /\ wdPanel.local = {} /\ wdPanel.deleted = {}
      <3>1. EditBox \in BoxType /\ EmptyBox \in BoxType
        BY DEF EditBox, EmptyBox, BoxType
      <3>2. [new |-> EmptyBox, edit |-> EditBox] \in Boxes
        BY <3>1 DEF Boxes
      <3>3. 0 \in 0..WdComments /\ WdNone \in TalkStation
        BY WdCommentsAreCounted DEF TalkStation
      <3>4. Mounted(WdNone) \in PanelType
        BY <3>2, <3>3 DEF Mounted, PanelType
      <3>5. Mounted(WdNone).local = {} /\ Mounted(WdNone).deleted = {}
        BY DEF Mounted
      <3> QED BY <3>4, <3>5 DEF WdInit
    <2>2. wdTold \in ToldType /\ \A id \in Ids : ~wdTold[id].gone /\ wdTold[id].ver = 0
      BY DEF WdInit, Untold, ToldType, Ids
    <2>3. wdCount \in Tally /\ wdCount.acts = 0
      <3>1. wdCount.ids \in {0, 1}
        BY DEF WdInit
      <3>2. 0 \in 0..WdComments /\ 1 \in 0..WdComments
        BY WdCommentsAreCounted
      <3>3. wdCount = [acts |-> 0, polls |-> 0, faults |-> 0, ids |-> wdCount.ids]
        BY DEF WdInit
      <3> QED BY <3>1, <3>2, <3>3 DEF Tally
    <2>4. wdServer \subseteq Comment
      <3>1. 1 \in Ids
        BY WdCommentsAreCounted DEF Ids
      <3>2. ASSUME NEW c \in wdServer PROVE c \in Comment
        <4>1. PICK st \in WdStation : c = [id |-> 1, st |-> st, mine |-> TRUE, ver |-> 1]
          BY <3>2, Zenon DEF WdInit
        <4>2. st \in TalkStation
          BY DEF TalkStation
        <4> QED BY <3>1, <4>1, <4>2 DEF Comment
      <3> QED BY <3>2
    <2>5. EditsInOrder
      BY <2>2, <2>3 DEF WdInit, EditsInOrder, InOrder
    <2> QED BY <2>1, <2>2, <2>3, <2>4, <2>5 DEF WdInit, TalkInv, WdTypeOK, PanelHoldsTheTold
  <1>2. TalkInv /\ EditsInOrder /\ [WdNext]_wdVars => TalkInv' /\ EditsInOrder'
    <2> SUFFICES ASSUME TalkInv, EditsInOrder, [WdNext]_wdVars PROVE TalkInv'
      BY OrderKept
    <2>1. CASE UNCHANGED wdVars
      BY <2>1 DEF wdVars, TalkInv, WdTypeOK, PanelHoldsTheTold
    <2> QED BY <2>1, PollKeepsTheTold, ServerKeepsTheTold, ComposersKeepTheTold, EventKeepsTheTold,
               ShowingKeepsTheTold, DeleteKeepsTheTold, AnswerKeepsTheTold,
               FailureKeepsTheTold DEF WdNext
  <1>3. TalkInv => OwnWordsStand
    <2> SUFFICES ASSUME TalkInv, NEW id \in Ids
                 PROVE  IF wdTold[id].gone THEN {c \in CommentList : c.id = id} = {}
                        ELSE wdTold[id].ver > 0 => \E c \in {d \in CommentList : d.id = id} :
                                c.ver >= wdTold[id].ver \/ wdTold[id].crossed
      BY DEF OwnWordsStand, Ids
    <2> QED BY DEF TalkInv, PanelHoldsTheTold, CommentList, ListOf
  <1> QED BY <1>1, <1>2, <1>3, PTL DEF WdSpec

-----------------------------------------------------------------------------
(* The settings (WebSettings).                                             *)

\* This session has a reason to write: it was asked to, or an earlier one was answered late.
MayWrite == Asked \/ waLate # {}

\* Reads and writes are the records they are.
Requests ==
    /\ \A r \in waReads : r = [user |-> r.user, live |-> r.live]
    /\ \A p \in waPuts : p = [n |-> p.n, user |-> p.user, data |-> p.data, own |-> p.own]

\* One read is not cancelled, and it has not let anything be restored yet.
ReadComesFirst == \A r \in waReads : r.live =>
    ~waRestored /\ \A q \in waReads : q.live => q = r

\* A write of this session, armed or under way, has its reason.
WritesHaveReason ==
    /\ waTimer # WaNone => waRestored /\ MayWrite
    /\ \A p \in waPuts : p.own => waRestored /\ MayWrite

\* Without one, what is restored counts as synced, so that no render arms a write.
NothingToWrite == waRestored /\ ~MayWrite => waLocal = waSynced

SettingsInv == Requests /\ ReadComesFirst /\ WritesHaveReason /\ NothingToWrite

\* The debounce arms a write of restored settings that differ from what counts as synced.
LEMMA DebounceArms ==
    ASSUME NEW user, NEW restored, NEW local, NEW synced,
           Debounce(user, restored, local, synced), waTimer' # WaNone
    PROVE  restored /\ local # synced
  BY DEF Debounce

\* The controls, the engine and the renders: an edit is a reason of its own.
LEMMA ControlsKeepSettings ==
    ASSUME SettingsInv,
           \/ Equalizer \/ Effects \/ EngineReady \/ StationLoads \/ PageRenders
           \/ UNCHANGED waVars
    PROVE  SettingsInv'
  <1>1. CASE Equalizer \/ Effects
    <2>1. /\ waOrigin' = "edit" /\ UNCHANGED <<waRestored, waReads, waPuts, waLate>>
          /\ Debounce(waUser, waRestored, waLocal', waSynced)
      BY <1>1 DEF Equalizer, Effects, Edit
    <2>2. MayWrite'
      BY <2>1 DEF MayWrite, Asked
    <2>3. waTimer' # WaNone => waRestored
      BY <2>1, DebounceArms
    <2> QED BY <2>1, <2>2, <2>3
            DEF SettingsInv, Requests, ReadComesFirst, WritesHaveReason, NothingToWrite
  <1>2. CASE PageRenders
    <2>1. /\ UNCHANGED <<waRestored, waReads, waPuts, waLate, waOrigin, waLocal, waSynced>>
          /\ Debounce(waUser, waRestored, waLocal, waSynced)
      BY <1>2 DEF PageRenders
    <2>2. MayWrite' <=> MayWrite
      BY <2>1 DEF MayWrite, Asked
    <2>3. waTimer' # WaNone => waRestored /\ MayWrite
      BY <2>1, DebounceArms DEF SettingsInv, NothingToWrite
    <2> QED BY <2>1, <2>2, <2>3
            DEF SettingsInv, Requests, ReadComesFirst, WritesHaveReason, NothingToWrite
  <1>3. CASE EngineReady \/ StationLoads \/ UNCHANGED waVars
    <2>1. UNCHANGED <<waLocal, waSync, waPuts, waOrigin, waLate>>
      BY <1>3 DEF EngineReady, StationLoads, waVars, waSync
    <2> QED BY <2>1 DEF waSync, SettingsInv, Requests, ReadComesFirst, WritesHaveReason,
                        NothingToWrite, MayWrite, Asked
  <1> QED BY <1>1, <1>2, <1>3

\* A session begins with nothing restored, and a restore ends, either way, with settings
\* that count as synced or with an account that has no record.
LEMMA RestoreKeepsSettings ==
    ASSUME SettingsInv,
           \/ \E user \in WaUser \cup {WaNoUser} : Session(user)
           \/ ReadDropped \/ ReadOk \/ ReadFails
    PROVE  SettingsInv'
  <1>1. ASSUME NEW user, Session(user) PROVE SettingsInv'
    <2>1. waRestored' = FALSE /\ waTimer' = WaNone
      BY <1>1 DEF Session
    <2>2. waPuts' = {[p EXCEPT !.own = FALSE] : p \in waPuts}
      BY <1>1 DEF Session
    <2>3. waLate' = {} /\ waOrigin' = "none"
      BY <1>1 DEF Session
    <2>4. ASSUME NEW p \in waPuts'
          PROVE  ~p.own /\ p = [n |-> p.n, user |-> p.user, data |-> p.data, own |-> p.own]
      <3>1. PICK q \in waPuts : p = [q EXCEPT !.own = FALSE]
        BY <2>2
      <3>2. q = [n |-> q.n, user |-> q.user, data |-> q.data, own |-> q.own]
        BY DEF SettingsInv, Requests
      <3>3. p = [n |-> q.n, user |-> q.user, data |-> q.data, own |-> FALSE]
        BY <3>1, <3>2
      <3> QED BY <3>3
    <2>5. ASSUME NEW r \in Dropped PROVE ~r.live /\ r = [user |-> r.user, live |-> r.live]
      <3>1. PICK q \in waReads : r = [q EXCEPT !.live = FALSE]
        BY DEF Dropped
      <3>2. q = [user |-> q.user, live |-> q.live]
        BY DEF SettingsInv, Requests
      <3>3. r = [user |-> q.user, live |-> FALSE]
        BY <3>1, <3>2
      <3> QED BY <3>3
    <2>6. waReads' \subseteq Dropped \cup {[user |-> user, live |-> TRUE]}
      BY <1>1 DEF Session
    <2>7. Requests'
      BY <2>4, <2>5, <2>6 DEF Requests
    <2>8. ReadComesFirst'
      BY <2>1, <2>5, <2>6 DEF ReadComesFirst
    <2> QED BY <2>1, <2>4, <2>7, <2>8 DEF SettingsInv, WritesHaveReason, NothingToWrite
  <1>2. CASE ReadDropped
    <2>1. /\ waReads' \subseteq waReads /\ waSynced' \in {waSynced, waLocal}
          /\ UNCHANGED <<waRestored, waTimer, waPuts, waLate, waOrigin, waLocal>>
      BY <1>2 DEF ReadDropped
    <2>2. MayWrite' <=> MayWrite
      BY <2>1 DEF MayWrite, Asked
    <2> QED BY <2>1, <2>2 DEF SettingsInv, Requests, ReadComesFirst, WritesHaveReason,
                    NothingToWrite
  <1>3. ASSUME NEW r \in waReads, r.live, waReads' = waReads \ {r}, waRestored' = TRUE,
               UNCHANGED <<waPuts, waLate>>,
               Debounce(waUser, TRUE, waLocal', waSynced'),
               MayWrite' \/ waLocal' = waSynced'
        PROVE  SettingsInv'
    <2>1. \A p \in waPuts' : ~p.own
      BY <1>3 DEF SettingsInv, Requests, ReadComesFirst, WritesHaveReason
    <2>2. waTimer' # WaNone => MayWrite'
      BY <1>3, DebounceArms
    <2>3. \A q \in waReads' : ~q.live
      BY <1>3 DEF SettingsInv, ReadComesFirst
    <2>4. Requests'
      BY <1>3 DEF SettingsInv, Requests
    <2> QED BY <1>3, <2>1, <2>2, <2>3, <2>4
            DEF SettingsInv, Requests, ReadComesFirst, WritesHaveReason,
                    NothingToWrite
  <1>4. CASE ReadOk
    <2> PICK r \in waReads :
           /\ r.live
           /\ waReads' = waReads \ {r} /\ waRestored' = TRUE
           /\ \/ waLocal' = waRepo[r.user] /\ waSynced' = waRepo[r.user]
              \/ waOrigin' = "fresh"
           /\ Debounce(waUser, TRUE, waLocal', waSynced')
           /\ UNCHANGED <<waPuts, waLate>>
      BY <1>4 DEF ReadOk
    <2>1. MayWrite' \/ waLocal' = waSynced'
      BY DEF MayWrite, Asked
    <2> QED BY <1>3, <2>1
  <1>5. CASE ReadFails
    <2> PICK r \in waReads :
           /\ r.live
           /\ waReads' = waReads \ {r} /\ waRestored' = TRUE
           /\ waSynced' = waLocal /\ waLocal' = waLocal
           /\ Debounce(waUser, TRUE, waLocal, waLocal)
           /\ UNCHANGED <<waPuts, waLate>>
      BY <1>5 DEF ReadFails, waPush
    <2>1. Debounce(waUser, TRUE, waLocal', waSynced')
      BY DEF Debounce
    <2> QED BY <1>3, <2>1
  <1> QED BY <1>1, <1>2, <1>4, <1>5

\* A write starts, of this session and for its reason, and ends: answered in its own session
\* it leaves the reason as it is, in a later one it becomes one.
LEMMA SavesKeepSettings ==
    ASSUME SettingsInv, WriteBack \/ Saved \/ SaveFails PROVE SettingsInv'
  <1>1. CASE WriteBack
    <2> DEFINE new == [n |-> CHOOSE n \in 1..WaOpen : \A p \in waPuts : p.n # n,
                       user |-> waUser, data |-> waTimer, own |-> TRUE]
    <2>1. /\ waPuts' = waPuts \cup {new} /\ waTimer' = WaNone /\ waTimer # WaNone
          /\ UNCHANGED <<waRestored, waReads, waLate, waOrigin, waLocal, waSynced>>
      BY <1>1 DEF WriteBack
    <2>2. new = [n |-> new.n, user |-> new.user, data |-> new.data, own |-> new.own]
      OBVIOUS
    <2> HIDE DEF new
    <2>3. MayWrite' <=> MayWrite
      BY <2>1 DEF MayWrite, Asked
    <2>4. waRestored /\ MayWrite
      BY <2>1 DEF SettingsInv, WritesHaveReason
    <2>5. Requests'
      BY <2>1, <2>2 DEF SettingsInv, Requests
    <2> QED BY <2>1, <2>3, <2>4, <2>5
            DEF SettingsInv, Requests, ReadComesFirst, WritesHaveReason,
                    NothingToWrite
  <1>2. CASE Saved
    <2> PICK p \in waPuts :
           /\ waPuts' = waPuts \ {p}
           /\ waLate' = IF p.own THEN waLate ELSE waLate \cup {p.user}
           /\ UNCHANGED <<waRestored, waReads, waTimer, waOrigin, waLocal>>
      BY <1>2 DEF Saved
    <2>1. MayWrite => MayWrite'
      BY DEF MayWrite, Asked
    <2>2. MayWrite'
      <3>1. CASE p.own
        BY <2>1, <3>1 DEF SettingsInv, WritesHaveReason
      <3>2. CASE ~p.own
        BY <3>2 DEF MayWrite
      <3> QED BY <3>1, <3>2
    <2> QED BY <2>2 DEF SettingsInv, Requests, ReadComesFirst, WritesHaveReason,
                    NothingToWrite
  <1>3. CASE SaveFails
    <2>1. /\ waPuts' \subseteq waPuts
          /\ UNCHANGED <<waRestored, waReads, waTimer, waOrigin, waLate, waLocal, waSynced>>
      BY <1>3 DEF SaveFails, waSync
    <2>2. MayWrite' <=> MayWrite
      BY <2>1 DEF MayWrite, Asked
    <2> QED BY <2>1, <2>2
            DEF SettingsInv, Requests, ReadComesFirst, WritesHaveReason,
                    NothingToWrite
  <1> QED BY <1>1, <1>2, <1>3

\* Only the debounce starts a write, for the account signed in.
LEMMA WritesAreDue ==
    ASSUME SettingsInv, [WaNext]_waVars, NEW p \in waPuts' \ waPuts, p.own
    PROVE  /\ p.user = waUser
           /\ Asked \/ waLate # {} \/ waRepo[p.user] = p.data
  <1>1. CASE WriteBack
    BY <1>1 DEF WriteBack, SettingsInv, WritesHaveReason, MayWrite
  <1>2. ASSUME NEW user, Session(user) PROVE FALSE
    <2>1. PICK q \in waPuts : p = [q EXCEPT !.own = FALSE]
      BY <1>2 DEF Session
    <2>2. q = [n |-> q.n, user |-> q.user, data |-> q.data, own |-> q.own]
      BY DEF SettingsInv, Requests
    <2>3. p = [n |-> q.n, user |-> q.user, data |-> q.data, own |-> FALSE]
      BY <2>1, <2>2
    <2> QED BY <2>3
  <1>3. \/ WriteBack \/ waPuts' \subseteq waPuts
        \/ \E user \in WaUser \cup {WaNoUser} : Session(user)
    BY DEF WaNext, waVars, Equalizer, Effects, Edit, EngineReady, StationLoads, PageRenders,
           ReadDropped, ReadOk, ReadFails, Saved, SaveFails
  <1> QED BY <1>1, <1>2, <1>3

\* A sign-in keeps the record (AudioSettingsSync.tsx:44-104) as long as no write of an earlier
\* session is answered in it: reads that fail or were cancelled, and renders at any moment,
\* find settings that count as synced, or a reason of this session to write them.
THEOREM SignInKeepsTheRecord == WaSpec => OnlyLateSavesClobber
  <1>1. WaInit => SettingsInv
    BY DEF WaInit, SettingsInv, Requests, ReadComesFirst, WritesHaveReason,
                    NothingToWrite
  <1>2. SettingsInv /\ [WaNext]_waVars => SettingsInv'
    BY ControlsKeepSettings, RestoreKeepsSettings, SavesKeepSettings DEF WaNext
  <1>3. SettingsInv /\ [WaNext]_waVars
          => [\A p \in waPuts' \ waPuts : p.own =>
                 /\ p.user = waUser
                 /\ Asked \/ waLate # {} \/ waRepo[p.user] = p.data]_waVars
    BY WritesAreDue
  <1> QED BY <1>1, <1>2, <1>3, PTL DEF WaSpec, OnlyLateSavesClobber

-----------------------------------------------------------------------------
(* The socket client (WebConnect).                                         *)

\* A client that was not refused for good has a socket on its way or a timer that will
\* open one, and never both; one that was refused has neither, and the user was told.
\* The page says "online" only while the hub has this device.
ClientGoesOn ==
    /\ wcConn.on /\ ~wcConn.closed => (wcConn.timer <=> wcConn.sock = "none")
    /\ wcConn.on /\ wcConn.closed => /\ ~wcConn.timer /\ wcConn.sock = "none"
                                     /\ wcShown.authError
    /\ wcShown.status = "online" => Online

ClientType == [on : BOOLEAN, sock : {"none", "connecting", "minting", "hello", "online"},
               timer : BOOLEAN, closed : BOOLEAN, fails : Nat, notified : BOOLEAN]
ShownType  == [status : {"offline", "connecting", "online"}, authError : BOOLEAN]

\* A client that is closed does nothing, and one that notified shows it.
ClientInv ==
    /\ wcConn \in ClientType /\ wcShown \in ShownType
    /\ wcConn.closed \/ ~wcConn.on => ~wcConn.timer /\ wcConn.sock = "none"
    /\ wcConn.notified => wcShown.authError
    /\ wcConn.on /\ wcConn.closed => wcConn.notified
    /\ ClientGoesOn

LEMMA ClientStarts == WcInit => ClientInv
  BY DEF WcInit, ClientInv, ClientGoesOn, ClientType, ShownType, NoClient, Online

\* The socket opens, says hello, is welcomed, refused, closed and opened again.
LEMMA SocketSteps ==
    ASSUME ClientInv,
           SocketOpens \/ Hello \/ MintFails \/ Welcome \/ AuthFailed \/ SocketCloses \/ Reconnect
    PROVE  ClientInv'
  <1>1. CASE SocketOpens \/ Hello
    BY <1>1 DEF SocketOpens, Hello, ClientInv, ClientGoesOn, ClientType, Online
  <1>2. CASE MintFails
    <2> DEFINE more == [wcConn EXCEPT !.fails = @ + 1]
               tell == more.fails >= 2
               next == [more EXCEPT !.sock = "none", !.notified = @ \/ tell]
    <2>1. /\ wcConn.sock = "minting" /\ wcConn' = Retrying(next)
          /\ wcShown' = [(IF tell THEN Notified(more, wcShown) ELSE wcShown) EXCEPT !.status = "offline"]
      BY <1>2 DEF MintFails
    <2>2. /\ wcConn.on /\ ~wcConn.closed /\ wcConn \in ClientType /\ wcShown \in ShownType
          /\ wcConn.notified => wcShown.authError
      BY <2>1 DEF ClientInv
    <2>3. /\ more \in ClientType /\ more.notified = wcConn.notified /\ tell \in BOOLEAN
          /\ more.on /\ ~more.closed
      BY <2>2 DEF ClientType
    <2> HIDE DEF more, tell
    <2>4. /\ next \in ClientType /\ next.on /\ ~next.closed /\ next.sock = "none"
          /\ next.notified = (wcConn.notified \/ tell)
      BY <2>3 DEF ClientType
    <2> HIDE DEF next
    <2>5. /\ wcConn' \in ClientType /\ wcConn'.on /\ ~wcConn'.closed /\ wcConn'.sock = "none"
          /\ wcConn'.timer = TRUE /\ wcConn'.notified = (wcConn.notified \/ tell)
      BY <2>1, <2>4 DEF Retrying, ClientType
    <2>6. /\ wcShown' \in ShownType /\ wcShown'.status = "offline"
          /\ wcConn.notified \/ tell => wcShown'.authError
      BY <2>1, <2>2, <2>3 DEF Notified, ShownType
    <2> QED BY <2>5, <2>6 DEF ClientInv, ClientGoesOn, Online
  <1>3. CASE Welcome
    BY <1>3 DEF Welcome, ClientInv, ClientGoesOn, ClientType, ShownType, Online
  <1>4. CASE AuthFailed
    BY <1>4 DEF AuthFailed, Notified, ClientInv, ClientGoesOn, ClientType, ShownType, Online
  <1>5. CASE SocketCloses
    BY <1>5 DEF SocketCloses, Retrying, ClientInv, ClientGoesOn, ClientType, ShownType, Online
  <1>6. CASE Reconnect
    BY <1>6 DEF Reconnect, ClientInv, ClientGoesOn, ClientType, ShownType, Online
  <1> QED BY <1>1, <1>2, <1>3, <1>4, <1>5, <1>6

\* What is late writes to the page and counts failures; it opens and closes nothing.
LEMMA LateSteps ==
    ASSUME ClientInv, Late
    PROVE  ClientInv'
  <1> DEFINE c == [wcConn EXCEPT !.fails = @ + 1]
  <1>1. \/ wcConn' = wcConn /\ wcShown' = [wcShown EXCEPT !.status = "offline"]
        \/ wcConn' = wcConn /\ wcShown' \in {wcShown, [status |-> "offline", authError |-> TRUE]}
        \/ /\ wcConn' = [c EXCEPT !.notified = @ \/ c.fails >= 2]
           /\ wcShown' = IF c.fails >= 2 THEN Notified(c, wcShown) ELSE wcShown
    BY DEF Late
  <1>2. /\ wcConn \in ClientType /\ c \in ClientType /\ wcShown \in ShownType
        /\ c.notified = wcConn.notified /\ c.on = wcConn.on /\ c.sock = wcConn.sock
        /\ c.timer = wcConn.timer /\ c.closed = wcConn.closed /\ c.fails \in Nat
    BY DEF ClientInv, ClientType
  <1>3. wcConn.notified => wcShown.authError
    BY DEF ClientInv
  <1> HIDE DEF c
  <1>4. /\ wcConn' \in ClientType /\ wcShown' \in ShownType
        /\ wcConn'.on = wcConn.on /\ wcConn'.sock = wcConn.sock
        /\ wcConn'.timer = wcConn.timer /\ wcConn'.closed = wcConn.closed
        /\ wcConn.notified => wcConn'.notified
        /\ wcConn'.notified => wcShown'.authError
        /\ wcShown'.status \in {"offline", wcShown.status}
    <2>1. CASE wcConn' = wcConn /\ wcShown' = [wcShown EXCEPT !.status = "offline"]
      BY <1>2, <1>3, <2>1 DEF ShownType
    <2>2. CASE wcConn' = wcConn /\ wcShown' \in {wcShown, [status |-> "offline", authError |-> TRUE]}
      <3>1. CASE wcShown' = wcShown
        BY <1>2, <1>3, <2>2, <3>1
      <3>2. CASE wcShown' = [status |-> "offline", authError |-> TRUE]
        <4>1. wcShown' \in ShownType /\ wcShown'.authError /\ wcShown'.status = "offline"
          BY <3>2 DEF ShownType
        <4> QED BY <1>2, <2>2, <4>1
      <3> QED BY <2>2, <3>1, <3>2
    <2>3. CASE /\ wcConn' = [c EXCEPT !.notified = @ \/ c.fails >= 2]
               /\ wcShown' = IF c.fails >= 2 THEN Notified(c, wcShown) ELSE wcShown
      <3>1. CASE c.fails >= 2
        <4>1. wcConn' = [c EXCEPT !.notified = TRUE] /\ wcShown' = Notified(c, wcShown)
          BY <2>3, <3>1
        <4>2. wcShown' \in ShownType /\ wcShown'.authError /\ wcShown'.status \in {"offline", wcShown.status}
          BY <1>2, <1>3, <4>1 DEF Notified, ShownType
        <4> QED BY <1>2, <4>1, <4>2 DEF ClientType
      <3>2. CASE ~(c.fails >= 2)
        <4>1. wcConn' = [c EXCEPT !.notified = c.notified] /\ wcShown' = wcShown
          BY <1>2, <2>3, <3>2 DEF ClientType
        <4> QED BY <1>2, <1>3, <4>1 DEF ClientType
      <3> QED BY <3>1, <3>2
    <2> QED BY <1>1, <2>1, <2>2, <2>3
  <1> QED BY <1>4 DEF ClientInv, ClientGoesOn, Online

LEMMA ClientSteps == ClientInv /\ [WcNext]_wcVars => ClientInv'
  <1> SUFFICES ASSUME ClientInv, [WcNext]_wcVars PROVE ClientInv'
    OBVIOUS
  <1>1. CASE SignIn
    BY <1>1 DEF SignIn, FreshClient, NoClient, ClientInv, ClientGoesOn, ClientType, ShownType, Online
  <1>2. CASE WebSignOut
    BY <1>2 DEF WebSignOut, NoClient, ClientInv, ClientGoesOn, ClientType, ShownType, Online
  <1>3. CASE UNCHANGED <<wcConn, wcShown>>
    BY <1>3 DEF ClientInv, ClientGoesOn, Online
  <1>4. MintedLate \/ (\E st \in WcStation : RoutePlay(st)) \/ TogglePlay \/ LocalButton
          \/ Picker \/ Banner \/ (\E cmd \in Order, st \in WcStation : Ordered(cmd, st))
          \/ Devices \/ PeerMoves \/ UNCHANGED wcVars
        => UNCHANGED <<wcConn, wcShown>>
    BY DEF MintedLate, RoutePlay, TogglePlay, LocalButton, Picker, SelectRemote, SelectHere,
           Banner, Ordered, Devices, PeerMoves, wcVars, wcNet
  <1> QED BY <1>1, <1>2, <1>3, <1>4, SocketSteps, LateSteps DEF WcNext

\* A client that keeps retrying is never without its next try, and never has two sockets
\* (client.ts:61-70, 138, 166-174): however opens, mints, closes and the late events
\* of earlier sockets interleave with sign-ins and sign-outs. With the fairness of timers
\* and sockets this is why ComesBack holds.
THEOREM ClientHasOneWayOn == WcSpec => []ClientGoesOn
  <1>1. ClientInv => ClientGoesOn
    BY DEF ClientInv
  <1> QED BY <1>1, ClientStarts, ClientSteps, PTL DEF WcSpec

\* This player and the other device have a station or none.
HereType == [st : WcStation \cup {WcNone}, playing : BOOLEAN, direct : BOOLEAN]
PeerType == [on : BOOLEAN, st : WcStation \cup {WcNone}]

SilentInv == wcHere \in HereType /\ wcPeer \in PeerType /\ SilentWhileControlling

\* A step that is silent, or keeps what it controls and how it came to play, is fine.
LEMMA StaysSilent ==
    ASSUME SilentInv, wcHere' \in HereType, wcPeer' \in PeerType,
           \/ ~wcHere'.playing
           \/ ~RemoteActive'
           \/ RemoteActive' => RemoteActive /\ (wcHere'.playing => wcHere'.direct)
           \/ (RemoteActive' => RemoteActive) /\ wcHere' = wcHere
    PROVE  SilentInv'
  BY DEF SilentInv, SilentWhileControlling

LEMMA Controlled ==
    /\ UNCHANGED wcView /\ (wcTarget' => wcTarget) => (RemoteActive' => RemoteActive)
    /\ ~wcTarget' => ~RemoteActive'
  BY DEF RemoteActive, Controls

\* What buttons and commands make of the two.
LEMMA HereIsTyped ==
    ASSUME wcHere \in HereType, NEW st \in WcStation \cup {WcNone}
    PROVE  /\ Pausing(wcHere) \in HereType /\ ~Pausing(wcHere).playing
           /\ Toggling(wcHere) \in HereType /\ Starting(st) \in HereType
           /\ NothingOn \in HereType /\ ~NothingOn.playing
  BY DEF HereType, Pausing, Toggling, Starting, NothingOn

LEMMA PeerIsTyped ==
    ASSUME wcPeer \in PeerType, NEW st \in WcStation \cup {WcNone},
           NEW cmd \in {"playStation", "playPause", "stop"}
    PROVE  Command(cmd, st) \in PeerType
  BY DEF PeerType, Command

LEMMA SilentSteps == SilentInv /\ [WcNext]_wcVars => SilentInv'
  <1> SUFFICES ASSUME SilentInv, [WcNext]_wcVars PROVE SilentInv'
    OBVIOUS
  <1>t. wcHere \in HereType /\ wcPeer \in PeerType
    BY DEF SilentInv
  <1>1. CASE UNCHANGED <<wcHere, wcPeer, wcTarget>> /\ wcView' \in {wcView, {}}
    <2>1. RemoteActive' => RemoteActive
      BY <1>1 DEF RemoteActive, Controls
    <2> QED BY <1>1, <1>t, <2>1, StaysSilent
  <1>2. SocketOpens \/ Hello \/ MintFails \/ Welcome \/ AuthFailed \/ SocketCloses \/ Reconnect
          \/ Late \/ MintedLate \/ SignIn \/ WebSignOut \/ UNCHANGED wcVars
        => UNCHANGED <<wcHere, wcPeer, wcTarget>> /\ wcView' \in {wcView, {}}
    BY DEF SocketOpens, Hello, MintFails, Welcome, AuthFailed, SocketCloses, Reconnect, Late,
           MintedLate, SignIn, WebSignOut, wcVars, wcPlay
  <1>3. ASSUME NEW st \in WcStation, RoutePlay(st) PROVE SilentInv'
    <2>1. UNCHANGED <<wcTarget, wcView>>
      BY <1>3 DEF RoutePlay, wcNet
    <2>2. CASE wcTarget
      <3>1. wcHere' = wcHere /\ wcPeer' \in PeerType
        BY <1>3, <1>t, <2>2, PeerIsTyped DEF RoutePlay, Becomes
      <3> QED BY <1>t, <2>1, <3>1, Controlled, StaysSilent
    <2>3. CASE ~wcTarget
      <3>1. wcHere' \in HereType /\ wcPeer' = wcPeer
        BY <1>3, <1>t, <2>3, HereIsTyped DEF RoutePlay, Becomes
      <3> QED BY <1>t, <2>1, <2>3, <3>1, Controlled, StaysSilent
    <2> QED BY <2>2, <2>3
  <1>4. CASE TogglePlay
    <2>1. UNCHANGED <<wcTarget, wcView>>
      BY <1>4 DEF TogglePlay, wcNet
    <2>2. CASE wcTarget
      <3>1. wcHere' = wcHere /\ wcPeer' \in PeerType
        BY <1>4, <1>t, <2>2, PeerIsTyped DEF TogglePlay, Becomes
      <3> QED BY <1>t, <2>1, <3>1, Controlled, StaysSilent
    <2>3. CASE ~wcTarget
      <3>1. wcHere' \in HereType /\ wcPeer' = wcPeer
        BY <1>4, <1>t, <2>3, HereIsTyped DEF TogglePlay, Becomes
      <3> QED BY <1>t, <2>1, <2>3, <3>1, Controlled, StaysSilent
    <2> QED BY <2>2, <2>3
  <1>5. CASE LocalButton
    <2>1. UNCHANGED <<wcTarget, wcView, wcPeer>>
      BY <1>5 DEF LocalButton, Becomes, wcNet
    <2>2. \/ wcHere' = [wcHere EXCEPT !.playing = TRUE, !.direct = @ \/ RemoteActive]
          \/ wcHere' = Pausing(wcHere)
      BY <1>5 DEF LocalButton, Becomes
    <2>3. /\ wcHere' \in HereType
          /\ RemoteActive /\ wcHere'.playing => wcHere'.direct
      BY <1>t, <2>2, HereIsTyped DEF HereType, RemoteActive, Controls
    <2> QED BY <1>t, <2>1, <2>3, Controlled, StaysSilent
  <1>6. CASE SelectRemote
    <2>1. /\ wcHere' = Pausing(wcHere)
          /\ wcPeer' \in {Command("playStation", wcHere.st), wcPeer}
      BY <1>6 DEF SelectRemote, Becomes
    <2>2. wcPeer' \in PeerType
      BY <1>t, <2>1, PeerIsTyped DEF HereType
    <2> QED BY <1>t, <2>1, <2>2, HereIsTyped, StaysSilent
  <1>7. CASE SelectHere
    <2>1. ~RemoteActive'
      BY <1>7, Controlled DEF SelectHere
    <2>2. \/ wcHere' = Starting(wcPeer.st) /\ wcPeer' = Command("stop", WcNone)
          \/ wcHere' = wcHere /\ wcPeer' = wcPeer
      BY <1>7 DEF SelectHere, Becomes
    <2>3. wcHere' \in HereType /\ wcPeer' \in PeerType
      BY <1>t, <2>2, HereIsTyped, PeerIsTyped DEF PeerType
    <2> QED BY <2>1, <2>3, StaysSilent
  <1>8. CASE Banner
    <2>1. UNCHANGED <<wcHere, wcTarget, wcView>> /\ wcPeer' \in PeerType
      BY <1>8, <1>t, PeerIsTyped DEF Banner, Becomes, wcNet
    <2> QED BY <1>t, <2>1, Controlled, StaysSilent
  <1>9. ASSUME NEW cmd \in Order, NEW st \in WcStation, Ordered(cmd, st) PROVE SilentInv'
    <2>1. UNCHANGED wcView /\ wcTarget' = (wcTarget /\ cmd \notin {"play", "playStation"})
      BY <1>9 DEF Ordered, wcNet
    <2>2. /\ wcPeer' = wcPeer
          /\ wcHere' = CASE cmd = "play"        -> [wcHere EXCEPT !.playing = TRUE]
                         [] cmd = "pause"       -> Pausing(wcHere)
                         [] cmd = "playPause"   -> [Toggling(wcHere) EXCEPT
                                                      !.direct = ~wcHere.playing /\ RemoteActive]
                         [] cmd = "stop"        -> NothingOn
                         [] cmd = "playStation" -> Starting(st)
      BY <1>9 DEF Ordered, Becomes
    <2>3. CASE cmd \in {"play", "playStation"}
      <3>1. wcHere' \in HereType
        BY <1>t, <2>2, <2>3, HereIsTyped DEF HereType
      <3>2. ~RemoteActive'
        BY <2>1, <2>3, Controlled
      <3> QED BY <1>t, <2>2, <3>1, <3>2, StaysSilent
    <2>4. CASE cmd \in {"pause", "stop"}
      <3>1. wcHere' \in HereType /\ ~wcHere'.playing
        BY <1>t, <2>2, <2>4, HereIsTyped
      <3> QED BY <1>t, <2>2, <3>1, StaysSilent
    <2>5. CASE cmd = "playPause"
      <3>1. /\ wcHere' = [Toggling(wcHere) EXCEPT !.direct = ~wcHere.playing /\ RemoteActive]
            /\ RemoteActive \in BOOLEAN
        BY <2>2, <2>5 DEF RemoteActive, Controls
      <3>2. /\ wcHere' \in HereType
            /\ wcHere'.playing = ~wcHere.playing
            /\ wcHere'.direct = (~wcHere.playing /\ RemoteActive)
        BY <1>t, <3>1 DEF HereType, Toggling, Pausing
      <3>3. RemoteActive' => RemoteActive
        BY <2>1, Controlled
      <3> QED BY <1>t, <2>2, <3>2, <3>3, StaysSilent
    <2> QED BY <2>3, <2>4, <2>5 DEF Order
  <1>10. CASE Devices
    <2> DEFINE listed == {"self"} \cup (IF wcPeer.on THEN {"other"} ELSE {})
    <2>1. /\ wcView' = listed /\ wcTarget' = wcTarget /\ wcPeer' = wcPeer
          /\ wcHere' = Silenced(wcHere, listed)
      BY <1>10 DEF Devices, Becomes
    <2>2. RemoteActive' = Controls(wcTarget, listed)
      BY <2>1 DEF RemoteActive
    <2> HIDE DEF listed
    <2>3. CASE ~RemoteActive /\ Controls(wcTarget, listed)
      <3>1. wcHere' \in HereType /\ ~wcHere'.playing
        BY <1>t, <2>1, <2>3, HereIsTyped DEF Silenced
      <3> QED BY <1>t, <2>1, <3>1, StaysSilent
    <2>4. CASE ~(~RemoteActive /\ Controls(wcTarget, listed))
      <3>1. wcHere' = wcHere
        BY <2>1, <2>4 DEF Silenced
      <3>2. RemoteActive' => RemoteActive
        BY <2>2, <2>4
      <3> QED BY <1>t, <2>1, <3>1, <3>2, StaysSilent
    <2> QED BY <2>3, <2>4
  <1>11. CASE PeerMoves
    <2>1. /\ UNCHANGED <<wcHere, wcTarget, wcView>>
          /\ wcPeer' = [on |-> ~wcPeer.on, st |-> WcNone]
      BY <1>11 DEF PeerMoves, Becomes, wcNet
    <2>2. wcPeer' \in PeerType
      BY <1>t, <2>1 DEF PeerType
    <2> QED BY <1>t, <2>1, <2>2, Controlled, StaysSilent
  <1> QED BY <1>1, <1>2, <1>3, <1>4, <1>5, <1>6, <1>7, <1>8, <1>9, <1>10, <1>11 DEF WcNext, Picker

\* A page that shows another device as the one that plays is silent itself (connect.ts:66,
\* Player.tsx:369-373), but for buttons and toggles that nothing routes, for any stations:
\* whichever of the two leaves, comes back, is chosen or gives orders.
THEOREM ControllerIsSilent == WcSpec => []SilentWhileControlling
  <1>1. WcInit => SilentInv
    <2>1. WcInit => wcHere \in HereType /\ ~wcHere.playing
      BY DEF WcInit, HereType, NothingOn
    <2>2. WcInit => wcPeer \in PeerType
      BY DEF WcInit, PeerType
    <2> QED BY <2>1, <2>2 DEF SilentInv, SilentWhileControlling
  <1>2. SilentInv => SilentWhileControlling
    BY DEF SilentInv
  <1> QED BY <1>1, <1>2, SilentSteps, PTL DEF WcSpec

-----------------------------------------------------------------------------
(* The session (WebSession).                                               *)

\* The account on the page has its refresher, armed or asking, and no other account has
\* one; a page that says it is loading waits for a restore or for the profile of one.
SessionIsWatched ==
    /\ IF wsSession = WsNoUser THEN wsRefresh = Disarmed
       ELSE wsRefresh.step \in {"armed", "asking"} /\ wsRefresh.user = wsSession
    /\ wsLoading => wsRestore # WsNoUser \/ \E asked \in wsAsking : asked.restore

\* Whoever is set, the refresher follows.
LEMMA SetSessionWatches ==
    ASSUME SessionIsWatched, NEW user, SetSession(user)
    PROVE  IF wsSession' = WsNoUser THEN wsRefresh' = Disarmed
           ELSE wsRefresh'.step \in {"armed", "asking"} /\ wsRefresh'.user = wsSession'
  BY DEF SessionIsWatched, SetSession

\* A restore that was answered goes on to the profile, or the page is loaded.
LEMMA RestoreWatches ==
    ASSUME SessionIsWatched, SessionRestored
    PROVE  SessionIsWatched'
  <1>1. PICK user : SetSession(user)
    BY DEF SessionRestored
  <1>2. wsLoading' => \E asked \in wsAsking' : asked.restore
    <2>1. CASE wsSession' = WsNoUser
      BY <2>1 DEF SessionRestored
    <2>2. CASE wsSession' # WsNoUser
      <3>1. wsAsking' = wsAsking \cup {[user |-> wsRestore, restore |-> TRUE]}
        BY <2>2 DEF SessionRestored
      <3> DEFINE new == [user |-> wsRestore, restore |-> TRUE]
      <3>2. new \in wsAsking' /\ new.restore
        BY <3>1
      <3> HIDE DEF new
      <3> QED BY <3>2
    <2> QED BY <2>1, <2>2
  <1> QED BY <1>1, <1>2, SetSessionWatches DEF SessionIsWatched

LEMMA RefresherWatches ==
    ASSUME SessionIsWatched, RefresherDone
    PROVE  SessionIsWatched'
  <1>1. wsRefresh.step = "asking" /\ wsSession # WsNoUser /\ UNCHANGED <<wsLoading, wsRestore, wsAsking>>
    BY DEF RefresherDone, SessionIsWatched, Disarmed
  <1>2. \/ wsRefresh' = [wsRefresh EXCEPT !.step = "armed"] /\ wsSession' = wsSession
        \/ SetSession(WsNoUser)
    BY DEF RefresherDone, RefreshRetry
  <1>3. CASE SetSession(WsNoUser)
    BY <1>1, <1>3, SetSessionWatches DEF SessionIsWatched
  <1>4. CASE wsRefresh' = [wsRefresh EXCEPT !.step = "armed"] /\ wsSession' = wsSession
    <2>1. wsRefresh'.step = "armed" /\ wsRefresh'.user = wsRefresh.user
      BY <1>4
    <2> QED BY <1>1, <1>4, <2>1 DEF SessionIsWatched
  <1> QED BY <1>2, <1>3, <1>4

\* A page that is loaded starts from its store alone.
LEMMA LoadWatches ==
    ASSUME NEW callback, LoadPage(callback)
    PROVE  SessionIsWatched'
  BY DEF LoadPage, SessionIsWatched

\* Only the profile of the restore ends the loading, and with it the wait for it.
LEMMA ProfileWatches ==
    ASSUME SessionIsWatched, ProfileArrives
    PROVE  SessionIsWatched'
  <1>1. PICK asked \in wsAsking :
          /\ wsAsking' = wsAsking \ {asked}
          /\ wsLoading' = (wsLoading /\ ~asked.restore)
          /\ UNCHANGED <<wsSession, wsRestore, wsRefresh>>
    BY DEF ProfileArrives
  <1>2. ASSUME wsLoading', wsRestore' = WsNoUser
        PROVE  \E other \in wsAsking' : other.restore
    <2>1. wsLoading /\ ~asked.restore
      BY <1>1, <1>2
    <2>2. PICK other \in wsAsking : other.restore
      BY <1>1, <1>2, <2>1 DEF SessionIsWatched
    <2> QED BY <1>1, <2>1, <2>2
  <1> QED BY <1>1, <1>2 DEF SessionIsWatched

LEMMA SessionSteps == SessionIsWatched /\ [WsNext]_wsVars => SessionIsWatched'
  <1> SUFFICES ASSUME SessionIsWatched, [WsNext]_wsVars PROVE SessionIsWatched'
    OBVIOUS
  <1>1. ASSUME NEW user, Reload \/ Return(user) PROVE SessionIsWatched'
    BY <1>1, LoadWatches DEF Reload, Return
  <1>2. CASE FinishLogin
    <2>1. SetSession(wsCallback.user) /\ wsLoading' = FALSE
      BY <1>2 DEF FinishLogin
    <2> QED BY <2>1, SetSessionWatches DEF SessionIsWatched
  <1>3. CASE LogoutDone
    <2>1. SetSession(WsNoUser) /\ UNCHANGED <<wsAsking, wsLoading, wsRestore>>
      BY <1>3 DEF LogoutDone
    <2> QED BY <2>1, SetSessionWatches DEF SessionIsWatched
  <1>4. CASE RefreshTick
    <2>1. /\ wsRefresh.step = "armed" /\ wsRefresh' = [wsRefresh EXCEPT !.step = "asking"]
          /\ UNCHANGED <<wsSession, wsAsking, wsLoading, wsRestore>>
      BY <1>4 DEF RefreshTick
    <2>2. wsSession # WsNoUser
      BY <2>1 DEF SessionIsWatched, Disarmed
    <2>3. wsRefresh.user = wsSession
      BY <2>2 DEF SessionIsWatched
    <2>4. wsRefresh'.step = "asking" /\ wsRefresh'.user = wsRefresh.user
      BY <2>1, <2>2 DEF SessionIsWatched
    <2> QED BY <2>1, <2>2, <2>3, <2>4 DEF SessionIsWatched
  <1>5. ASSUME NEW user,
               FinishFails \/ Lapse(user) \/ OpenLogin \/ CloseLogin \/ StartLogin \/ ToProvider
                 \/ StartFails \/ Logout \/ UNCHANGED wsVars
        PROVE  SessionIsWatched'
    <2>1. UNCHANGED <<wsSession, wsRefresh, wsLoading, wsRestore, wsAsking>>
      BY <1>5 DEF FinishFails, Lapse, OpenLogin, CloseLogin, StartLogin, ToProvider, StartFails,
                  Logout, wsVars
    <2> QED BY <2>1 DEF SessionIsWatched
  <1> QED BY <1>1, <1>2, <1>3, <1>4, <1>5, RestoreWatches, ProfileWatches, RefresherWatches DEF WsNext

\* The account a page shows is watched (SessionRefresher.tsx:35-74), through restores,
\* callbacks, sign-outs and failed refreshes in any order; and a page that says it is
\* loading waits for an answer (AuthInitializer.tsx:17-36). With the fairness of timers and
\* requests this is why DeadSessionEnds holds.
THEOREM SessionHasItsRefresher == WsSpec => []SessionIsWatched
  <1>1. WsInit => SessionIsWatched
    BY DEF WsInit, SessionIsWatched
  <1> QED BY <1>1, SessionSteps, PTL DEF WsSpec

\* Once the code is exchanged the account stays, until the user ends it, the page is loaded
\* anew, its refresh token is dead, or the restore of an earlier session is answered late.
LandedStays ==
    [][wsCallback.step = "done" /\ wsSession = wsCallback.user /\ wsSession' # wsSession
       => \/ LogoutDone \/ LoadPage(wsCallback') \/ wsStore[wsSession] = "dead"
          \/ SessionRestored]_wsVars

\* Nothing but a late restore takes a fresh sign-in off the page (OAuthCallback.tsx,
\* AuthInitializer.tsx:20-22): no answer of a refresher ends a session but the one it watches,
\* and that one only when its token is dead. The run that finds LandsAuthenticated violated
\* needs its late restore.
THEOREM OnlyLateRestoresSignOut == WsSpec => LandedStays
  <1>1. SessionIsWatched /\ [WsNext]_wsVars =>
          [wsCallback.step = "done" /\ wsSession = wsCallback.user /\ wsSession' # wsSession
           => \/ LogoutDone \/ LoadPage(wsCallback') \/ wsStore[wsSession] = "dead"
              \/ SessionRestored]_wsVars
    <2> SUFFICES ASSUME SessionIsWatched, WsNext, wsCallback.step = "done", wsSession' # wsSession
                 PROVE  \/ LogoutDone \/ LoadPage(wsCallback') \/ wsStore[wsSession] = "dead"
                        \/ SessionRestored
      OBVIOUS
    <2>1. ASSUME NEW user, Reload \/ Return(user) PROVE LoadPage(wsCallback')
      BY <2>1 DEF Reload, Return, LoadPage
    <2>2. CASE SessionRestored
      BY <2>2 DEF SessionRestored
    <2>3. ~FinishLogin
      BY DEF FinishLogin
    <2>4. CASE RefresherDone
      <3>1. wsRefresh.user = wsSession
        BY <2>4 DEF RefresherDone, SessionIsWatched, Disarmed
      <3>2. wsStore[wsRefresh.user] = "dead"
        BY <2>4 DEF RefresherDone
      <3> QED BY <3>1, <3>2
    <2>5. ASSUME NEW user,
                 ProfileArrives \/ FinishFails \/ Lapse(user) \/ OpenLogin \/ CloseLogin \/ StartLogin
                   \/ ToProvider \/ StartFails \/ Logout \/ RefreshTick
          PROVE  FALSE
      BY <2>5 DEF ProfileArrives, FinishFails, Lapse, OpenLogin, CloseLogin, StartLogin, ToProvider,
                  StartFails, Logout, RefreshTick
    <2> QED BY <2>1, <2>2, <2>3, <2>4, <2>5 DEF WsNext
  <1> QED BY <1>1, SessionHasItsRefresher, PTL DEF WsSpec, LandedStays
=============================================================================
