--------------------------- MODULE MobileFavorites ---------------------------
(***************************************************************************)
(* The favorites of the phone's user: the cached list behind every heart   *)
(* (FavoriteButton.tsx, useFavorites.ts, api/favorites.ts), which is       *)
(* changed before the write and put right after it, while the list is      *)
(* pulled to refresh and other hearts are tapped; and the sign-out that    *)
(* removes it (App.tsx). The list itself is a set: its order is left out.  *)
(***************************************************************************)
EXTENDS Naturals

CONSTANTS MfUser, MfNoUser,   \* accounts, and none
          MfStation,          \* stations
          MfActs, MfFaults    \* bounds: taps, pulls and sign-ins, and failures

VARIABLES
    mfUser,   \* the account of the phone
    mfRepo,   \* each account's favorites
    mfCache,  \* the query cache of each account: [has, list]
    mfFetch,  \* list requests on their way: [user, live, read, list, sees]
    mfWrites, \* toggles under way: [user, st, remove, before, step]
    mfLate,   \* writes the app gave up that are still on their way: [user, st, remove, nth]
    mfDoubt,  \* history: <<account, station>> of a failed toggle whose write landed or may
              \* yet, and all of an account that signed out under a toggle; until a list
              \* is shown that was read with nothing under way for the station
    mfCount   \* [acts, faults]

mfVars == <<mfUser, mfRepo, mfCache, mfFetch, mfWrites, mfLate, mfDoubt, mfCount>>

Uncached == [has |-> FALSE, list |-> {}]

MfInit ==
    /\ mfUser = MfNoUser
    /\ mfRepo \in [MfUser -> SUBSET MfStation]
    /\ mfCache = [u \in MfUser |-> Uncached]
    /\ mfFetch = {} /\ mfWrites = {} /\ mfLate = {} /\ mfDoubt = {}
    /\ mfCount = [acts |-> 0, faults |-> 0]

FavoriteAct   == mfCount.acts < MfActs /\ mfCount' = [mfCount EXCEPT !.acts = @ + 1]
FavoriteFault == mfCount.faults < MfFaults /\ mfCount' = [mfCount EXCEPT !.faults = @ + 1]
InFlight(u)   == \E f \in mfFetch : f.user = u /\ f.live
ReadsCancelled(u)  == {[f EXCEPT !.live = @ /\ f.user # u] : f \in mfFetch}
Asking(u)     == [user |-> u, live |-> TRUE, read |-> FALSE, list |-> {}, sees |-> {}]
SetCache(u, list) == mfCache' = [mfCache EXCEPT ![u] = [has |-> TRUE, list |-> list]]

HeartPending(u, st) == \E w \in mfWrites : w.user = u /\ w.st = st
Quiet(u, st) == ~HeartPending(u, st) /\ \A w \in mfLate : <<w.user, w.st>> # <<u, st>>

-----------------------------------------------------------------------------
(* The account and its list.                                               *)

\* Signing in shows the cached list, which never goes stale by itself, or asks for it.
FavoritesSignIn(u) ==
    /\ mfUser = MfNoUser /\ FavoriteAct
    /\ mfUser' = u
    /\ mfFetch' = IF mfCache[u].has \/ InFlight(u) THEN mfFetch ELSE mfFetch \cup {Asking(u)}
    /\ UNCHANGED <<mfRepo, mfCache, mfWrites, mfLate, mfDoubt>>

\* Signing out removes the lists; a write under way goes on.
FavoritesSignOut ==
    /\ mfUser # MfNoUser /\ FavoriteAct
    /\ mfUser' = MfNoUser
    /\ mfCache' = [u \in MfUser |-> Uncached]
    /\ mfFetch' = {[f EXCEPT !.live = FALSE] : f \in mfFetch}
    /\ mfDoubt' = mfDoubt \cup {w.user : w \in mfWrites} \X MfStation
    /\ UNCHANGED <<mfRepo, mfWrites, mfLate>>

\* Pulling to refresh, or a tap while the list has not loaded.
RefetchFavorites ==
    /\ mfUser # MfNoUser /\ ~InFlight(mfUser) /\ FavoriteAct
    /\ mfFetch' = mfFetch \cup {Asking(mfUser)}
    /\ UNCHANGED <<mfUser, mfRepo, mfCache, mfWrites, mfLate, mfDoubt>>

\* listFavorites reads the repository; the answer of a cancelled request is dropped.
ListFavorites == \E f \in mfFetch :
    /\ ~f.read
    /\ mfFetch' = (mfFetch \ {f}) \cup
                  {[f EXCEPT !.read = TRUE, !.list = mfRepo[f.user],
                             !.sees = {st \in MfStation : Quiet(f.user, st)}]}
    /\ UNCHANGED <<mfUser, mfRepo, mfCache, mfWrites, mfLate, mfDoubt, mfCount>>

FavoritesLoaded == \E f \in mfFetch :
    /\ f.read
    /\ mfFetch' = mfFetch \ {f}
    /\ IF f.live THEN SetCache(f.user, f.list) ELSE UNCHANGED mfCache
    /\ mfDoubt' = IF f.live THEN mfDoubt \ ({f.user} \X f.sees) ELSE mfDoubt
    /\ UNCHANGED <<mfUser, mfRepo, mfWrites, mfLate, mfCount>>

ListFails == \E f \in mfFetch :
    /\ FavoriteFault
    /\ mfFetch' = mfFetch \ {f}
    /\ UNCHANGED <<mfUser, mfRepo, mfCache, mfWrites, mfLate, mfDoubt>>

-----------------------------------------------------------------------------
(* A heart.                                                                *)

\* What a toggle does to a list: to the one it finds, and to the one it leaves.
ApplyToggle(w, list) == IF w.remove THEN list \ {w.st} ELSE list \cup {w.st}

\* A tap: the list is changed at once, and a list request under way is cancelled. One tap
\* of a station at a time.
ToggleHeart(st) ==
    /\ mfUser # MfNoUser /\ mfCache[mfUser].has /\ ~HeartPending(mfUser, st) /\ FavoriteAct
    /\ LET before == mfCache[mfUser].list
           w == [user |-> mfUser, st |-> st, remove |-> st \in before, before |-> before,
                 step |-> "sent"]
       IN  mfWrites' = mfWrites \cup {w} /\ SetCache(mfUser, ApplyToggle(w, before))
    /\ mfFetch' = ReadsCancelled(mfUser)
    /\ UNCHANGED <<mfUser, mfRepo, mfLate, mfDoubt>>

\* The repository carries it out, or it fails.
WriteFavorite == \E w \in mfWrites :
    /\ w.step = "sent"
    /\ mfWrites' = (mfWrites \ {w}) \cup {[w EXCEPT !.step = "written"]}
    /\ mfRepo' = [mfRepo EXCEPT ![w.user] = ApplyToggle(w, @)]
    /\ UNCHANGED <<mfUser, mfCache, mfFetch, mfLate, mfDoubt, mfCount>>

\* "A pull-to-refresh during the write may have read the old repo state": a list request
\* is cancelled once more, and the change is applied to whatever list there is now.
Toggled == \E w \in mfWrites :
    /\ w.step = "written"
    /\ mfWrites' = mfWrites \ {w}
    /\ mfFetch' = ReadsCancelled(w.user)
    /\ SetCache(w.user, ApplyToggle(w, mfCache[w.user].list))
    /\ UNCHANGED <<mfUser, mfRepo, mfLate, mfDoubt, mfCount>>

\* Fault: the rollback restores the list as it was before the tap.
Rollback_All(w, list) == w.before

\* "Only restore this station: other stations may have changed meanwhile."
Rollback(w, list) == IF w.remove THEN list \cup {w.st} ELSE list \ {w.st}

GivenUp(w) == [user |-> w.user, st |-> w.st, remove |-> w.remove, nth |-> mfCount.faults]

\* The request fails: nothing was written, or it was and its answer or the pruning of old
\* records failed (agent.ts:144-158), or the app gave it up (client.ts:70-73) and the
\* runtime goes on with it.
ToggleFails == \E w \in mfWrites, late \in BOOLEAN :
    /\ FavoriteFault
    /\ late => w.step = "sent"
    /\ mfWrites' = mfWrites \ {w}
    /\ mfLate' = IF late THEN mfLate \cup {GivenUp(w)} ELSE mfLate
    /\ SetCache(w.user, Rollback(w, mfCache[w.user].list))
    /\ mfDoubt' = IF late \/ w.step = "written" THEN mfDoubt \cup {<<w.user, w.st>>}
                  ELSE mfDoubt
    /\ UNCHANGED <<mfUser, mfRepo, mfFetch>>

\* The write of a toggle that was given up.
LateWrite == \E w \in mfLate :
    /\ mfLate' = mfLate \ {w}
    /\ mfRepo' = [mfRepo EXCEPT ![w.user] = ApplyToggle(w, @)]
    /\ UNCHANGED <<mfUser, mfCache, mfFetch, mfWrites, mfDoubt, mfCount>>

MfNext ==
    \/ \E u \in MfUser : FavoritesSignIn(u)
    \/ FavoritesSignOut \/ RefetchFavorites \/ ListFavorites \/ FavoritesLoaded \/ ListFails
    \/ \E st \in MfStation : ToggleHeart(st)
    \/ WriteFavorite \/ Toggled \/ ToggleFails \/ LateWrite

MfSpec == MfInit /\ [][MfNext]_mfVars

-----------------------------------------------------------------------------
(* Properties.                                                             *)

\* When no tap is under way every heart shows the repository, whatever list requests and
\* other taps overlapped with the last one, and whichever of them failed. Not so for a
\* station whose tap failed though it was written, or may yet be: the heart is rolled back
\* (FavoriteButton.tsx:74-81); nor for an account that signed out under a tap, whose
\* answer makes a list of that one station, or of none. Both until the list is pulled.
HeartsAreTrue == \A u \in MfUser, st \in MfStation :
    /\ mfCache[u].has /\ <<u, st>> \notin mfDoubt
    /\ \A w \in mfWrites : w.user # u
    => (st \in mfCache[u].list <=> st \in mfRepo[u])
=============================================================================
