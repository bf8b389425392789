----------------------------- MODULE RadioSearch -----------------------------
(***************************************************************************)
(* Finding a station on the phone: the Discover and Search lists with      *)
(* their genres and their debounced text (App.tsx, GenreGrid.tsx), the     *)
(* keyed queries behind them, and the requests to Radio Browser, which try *)
(* its mirrors one after the other (api/radioBrowser.ts). What a query     *)
(* asked for stands for the stations it returns.                           *)
(***************************************************************************)
EXTENDS Naturals, FiniteSets

CONSTANTS RsText, RsBlank,  \* what the user types, and no text
          RsGenre, RsNoGenre,
          RsMirrors,        \* live mirrors, besides the directory
          RsActs            \* bound: what the user does

VARIABLES
    rsTab,    \* "Discover", "Search" or another tab
    rsText,   \* query: the text in the field
    rsQuiet,  \* debounced: the text of 300 ms ago
    rsTimer,  \* the debounce timer is running
    rsGenre,  \* [chip, grid]: the genre of Discover, and of Search
    rsBases,  \* the mirrors to try, once they are known: 0 is not known
    rsFetch,  \* requests: [key, base, tries, live]
    rsCache,  \* what the query cache holds: key -> what its stations are
    rsActs

rsVars == <<rsTab, rsText, rsQuiet, rsTimer, rsGenre, rsBases, rsFetch, rsCache, rsActs>>

Texts  == RsText \cup {RsBlank}
Genres == RsGenre \cup {RsNoGenre}
QueryKeys   == [tab : {"Discover", "Search"}, text : Texts, chip : Genres, grid : Genres]

RsInit ==
    /\ rsTab = "Discover" /\ rsText = RsBlank /\ rsQuiet = RsBlank /\ rsTimer = FALSE
    /\ rsGenre = [chip |-> RsNoGenre, grid |-> RsNoGenre]
    /\ rsBases = 0 /\ rsFetch = {} /\ rsCache = [k \in {} |-> {}] /\ rsActs = 0

SearchAct == rsActs < RsActs /\ rsActs' = rsActs + 1

\* The key of the list on the screen, and whether its query runs.
Key     == [tab |-> rsTab, text |-> rsQuiet, chip |-> rsGenre.chip, grid |-> rsGenre.grid]
Enabled == rsTab = "Discover" \/ (rsTab = "Search" /\ (rsQuiet # RsBlank \/ rsGenre.grid # RsNoGenre))

\* queryFn: what a query asks for.
AskedFor(k) == CASE k.tab = "Search" /\ k.text # RsBlank    -> [kind |-> "name", of |-> k.text]
                 [] k.tab = "Search" /\ k.text = RsBlank    -> [kind |-> "genre", of |-> k.grid]
                 [] k.tab = "Discover" /\ k.chip # RsNoGenre -> [kind |-> "genre", of |-> k.chip]
                 [] OTHER                                   -> [kind |-> "popular", of |-> RsBlank]

-----------------------------------------------------------------------------
(* The screen.                                                             *)

SetTab(tab) ==
    /\ tab # rsTab /\ SearchAct /\ rsTab' = tab
    /\ UNCHANGED <<rsText, rsQuiet, rsTimer, rsGenre, rsBases, rsFetch, rsCache>>

SetChip(g) ==
    /\ rsTab = "Discover" /\ g # rsGenre.chip /\ SearchAct
    /\ rsGenre' = [rsGenre EXCEPT !.chip = g]
    /\ UNCHANGED <<rsTab, rsText, rsQuiet, rsTimer, rsBases, rsFetch, rsCache>>

\* Typing leaves the genre, and the list follows when the typing stops.
TypeText(text) ==
    /\ rsTab = "Search" /\ text # rsText /\ SearchAct
    /\ rsText' = text /\ rsTimer' = TRUE
    /\ rsGenre' = [rsGenre EXCEPT !.grid = RsNoGenre]
    /\ UNCHANGED <<rsTab, rsQuiet, rsBases, rsFetch, rsCache>>

Debounced ==
    /\ rsTimer /\ rsTimer' = FALSE /\ rsQuiet' = rsText
    /\ UNCHANGED <<rsTab, rsText, rsGenre, rsBases, rsFetch, rsCache, rsActs>>

\* The cross: no text, no wait, and the searches under way are cancelled.
ClearText ==
    /\ rsTab = "Search" /\ rsText # RsBlank /\ SearchAct
    /\ rsText' = RsBlank /\ rsQuiet' = RsBlank /\ rsTimer' = TRUE
    /\ rsGenre' = [rsGenre EXCEPT !.grid = RsNoGenre]
    /\ rsFetch' = {[f EXCEPT !.live = @ /\ f.key.tab # "Search"] : f \in rsFetch}
    /\ UNCHANGED <<rsTab, rsBases, rsCache>>

\* Fault: the text of before is still the one searched for.
GridQuiet_Kept == rsQuiet

\* The grid is there when the field is empty, also before the list has followed: the
\* text searched for goes with the choice.
GridQuiet == RsBlank

SelectGenre(g) ==
    /\ rsTab = "Search" /\ rsText = RsBlank /\ rsGenre.grid = RsNoGenre /\ SearchAct
    /\ rsGenre' = [rsGenre EXCEPT !.grid = g] /\ rsQuiet' = GridQuiet
    /\ UNCHANGED <<rsTab, rsText, rsTimer, rsBases, rsFetch, rsCache>>

AllGenres ==
    /\ rsTab = "Search" /\ rsText = RsBlank /\ rsGenre.grid # RsNoGenre
    /\ rsGenre' = [rsGenre EXCEPT !.grid = RsNoGenre]
    /\ UNCHANGED <<rsTab, rsText, rsQuiet, rsTimer, rsBases, rsFetch, rsCache, rsActs>>

-----------------------------------------------------------------------------
(* The requests.                                                           *)

\* A query without data runs, once for each key; so does Retry and a pull.
StartQuery ==
    /\ Enabled /\ Key \notin DOMAIN rsCache /\ Cardinality(rsFetch) < 2
    /\ ~\E f \in rsFetch : f.key = Key /\ f.live
    /\ rsFetch' = rsFetch \cup {[key |-> Key, base |-> 0, tries |-> 0, live |-> TRUE]}
    /\ UNCHANGED <<rsTab, rsText, rsQuiet, rsTimer, rsGenre, rsBases, rsCache, rsActs>>

\* getBases: the directory names its live mirrors; when it does not it is the only base,
\* for as long as the app runs.
GetBases ==
    /\ rsBases = 0 /\ rsFetch # {}
    /\ rsBases' \in {1, 1 + RsMirrors}
    /\ UNCHANGED <<rsTab, rsText, rsQuiet, rsTimer, rsGenre, rsFetch, rsCache, rsActs>>

\* rbFetch: one base after the other, while the request is wanted. (The popular stations
\* are the API's.)
TryBase == \E f \in rsFetch :
    /\ rsBases > 0 /\ f.live /\ f.base < rsBases
    /\ \/ /\ rsCache' = [k \in DOMAIN rsCache \cup {f.key} |->
                            IF k = f.key THEN AskedFor(k) ELSE rsCache[k]]
          /\ rsFetch' = rsFetch \ {f}
       \/ /\ rsFetch' = (rsFetch \ {f}) \cup
                        {[f EXCEPT !.base = IF AskedFor(f.key).kind = "popular" THEN rsBases ELSE @ + 1]}
          /\ UNCHANGED rsCache
    /\ UNCHANGED <<rsTab, rsText, rsQuiet, rsTimer, rsGenre, rsBases, rsActs>>

\* Every base has failed: the query tries once more, and then shows the error. A request
\* nobody wants any more ends.
GiveUp == \E f \in rsFetch :
    /\ ~f.live \/ (rsBases > 0 /\ f.base = rsBases)
    /\ rsFetch' = (rsFetch \ {f}) \cup
                  (IF f.live /\ f.tries = 0 THEN {[f EXCEPT !.base = 0, !.tries = 1]} ELSE {})
    /\ UNCHANGED <<rsTab, rsText, rsQuiet, rsTimer, rsGenre, rsBases, rsCache, rsActs>>

RsNext ==
    \/ \E tab \in {"Discover", "Search", "Library"} : SetTab(tab)
    \/ \E g \in Genres : SetChip(g)
    \/ \E g \in RsGenre : SelectGenre(g)
    \/ \E text \in Texts : TypeText(text)
    \/ Debounced \/ ClearText \/ AllGenres \/ StartQuery \/ GetBases \/ TryBase \/ GiveUp

RsSpec == RsInit /\ [][RsNext]_rsVars

-----------------------------------------------------------------------------
(* Properties.                                                             *)

\* What the screen says its list is: the title over it.
Title == CASE rsTab = "Discover" /\ rsGenre.chip = RsNoGenre -> [kind |-> "popular", of |-> RsBlank]
           [] rsTab = "Discover" /\ rsGenre.chip # RsNoGenre -> [kind |-> "genre", of |-> rsGenre.chip]
           [] OTHER                                         -> [kind |-> "genre", of |-> rsGenre.grid]

\* A title stands over its own stations: a genre chosen before the deleted text of an
\* earlier search has left the list is not shown with the stations of that search.
TitleIsTrue ==
    rsTab = "Discover" \/ (rsTab = "Search" /\ rsText = RsBlank /\ rsGenre.grid # RsNoGenre)
    => Enabled /\ (Key \in DOMAIN rsCache => rsCache[Key] = Title)
=============================================================================
