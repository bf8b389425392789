------------------------------ MODULE RepoAgent ------------------------------
(***************************************************************************)
(* AtradioAgent (sdk/typescript/src/agent.ts): agents of one account, on   *)
(* the phone, in a browser or a script, work on one repository.  A call    *)
(* is several requests to the PDS, and calls of different agents           *)
(* interleave; a request may fail, and its call with it.  Favorites have   *)
(* keys 1..5: one derived from the station, and older random ones.         *)
(***************************************************************************)
EXTENDS Naturals, FiniteSets, FiniteSetsExt

CONSTANTS Agent,      \* agents signed in to the account
          ListLimit,  \* records on a page of listRecords
          AgentCalls  \* bound: calls

ASSUME AgentAssumption == ListLimit \in Nat \ {0}

VARIABLES
    favRecords,  \* keys of the favorite records
    ownRecords,  \* other records: the singletons, a comment, a reaction, a station
    agentCall,   \* [Agent -> call]
    agentCount   \* calls so far

agentVars == <<favRecords, ownRecords, agentCall, agentCount>>

FavKeys      == 1..5
StationOf    == <<"s", "s", "t", "s", "t">>
FavoriteRkey == [s |-> 2, t |-> 3]
Of(station)  == {k \in FavKeys : StationOf[k] = station}
Old          == FavKeys \ {FavoriteRkey[s] : s \in DOMAIN FavoriteRkey}

NoCall == [op |-> "none", station |-> "s", step |-> "done", cursor |-> 0, found |-> {},
           kept |-> {}, crossed |-> FALSE]

AgentInit ==
    /\ favRecords \in SUBSET FavKeys
    /\ ownRecords = {}
    /\ agentCall = [a \in Agent |-> NoCall]
    /\ agentCount = 0

Busy(a) == agentCall[a].step # "done"

\* A new call; it crosses those of the other kind on its station.  (`kept` is history:
\* records nobody else has written since.)
Crossing(op, other) == {op, other} = {"favorite", "unfavorite"}

Call(a, op, station, step) ==
    /\ ~Busy(a) /\ agentCount < AgentCalls
    /\ agentCount' = agentCount + 1
    /\ agentCall' = [b \in Agent |->
          IF b = a
          THEN [op |-> op, station |-> station, step |-> step, cursor |-> 0, found |-> {},
                kept |-> FavKeys,
                crossed |-> \E c \in Agent \ {a} : /\ Busy(c)
                                                   /\ agentCall[c].station = station
                                                   /\ Crossing(op, agentCall[c].op)]
          ELSE [agentCall[b] EXCEPT !.crossed = @ \/ (/\ agentCall[b].station = station
                                                      /\ Crossing(op, agentCall[b].op))]]
    /\ UNCHANGED <<favRecords, ownRecords>>

Favorite(a)      == \E s \in DOMAIN FavoriteRkey : Call(a, "favorite", s, "put")
Unfavorite(a)    == \E s \in DOMAIN FavoriteRkey : Call(a, "unfavorite", s, "list")
ListFavoritesCall(a) == Call(a, "list", "s", "list")

\* What a's request does to its call, and the records it writes to the calls of others.
Goes(a, call, written) ==
    agentCall' = [b \in Agent |-> IF b = a THEN call
                                  ELSE [agentCall[b] EXCEPT !.kept = @ \ written]]

PutFavorite(a) ==
    LET c == agentCall[a]
        k == FavoriteRkey[c.station]
    IN  /\ c.step = "put"
        /\ favRecords' = favRecords \cup {k}
        /\ Goes(a, [c EXCEPT !.step = "list"], {k})
        /\ UNCHANGED <<ownRecords, agentCount>>

\* A page of listRecords: the records behind the cursor, which is the last one's key.
Page(cursor) == {k \in favRecords : /\ k > cursor
                                    /\ Cardinality({j \in favRecords : j > cursor /\ j < k})
                                           < ListLimit}

\* #listAll keeps all of them, #favoriteRkeysFor those of the station.
Wanted(call, page) == IF call.op = "list" THEN page ELSE page \cap Of(call.station)

\* #pruneFavorites deletes what was found, but for the key to keep.
Doomed(call) == IF call.op = "favorite"
                THEN call.found \ {FavoriteRkey[call.station]} ELSE call.found

\* Fault: no page after the first.
NextCursor_First(page) == 0

\* The cursor of a page that is full; none ends the list.
NextCursor(page) == IF Cardinality(page) < ListLimit THEN 0 ELSE Max(page)

ListPage(a) ==
    LET c    == agentCall[a]
        page == Page(c.cursor)
        all  == [c EXCEPT !.cursor = NextCursor(page), !.found = @ \cup Wanted(c, page)]
    IN  /\ c.step = "list"
        /\ Goes(a, [all EXCEPT !.step =
                       IF all.cursor # 0 THEN "list"
                       ELSE IF all.op = "list" \/ Doomed(all) = {} THEN "done"
                       ELSE "delete"], {})
        /\ UNCHANGED <<favRecords, ownRecords, agentCount>>

\* Deleting a record that is gone already succeeds.
DeleteFavorite(a) ==
    LET c == agentCall[a]
        k == Min(Doomed(c))
        d == [c EXCEPT !.found = @ \ {k}]
    IN  /\ c.step = "delete"
        /\ favRecords' = favRecords \ {k}
        /\ Goes(a, [d EXCEPT !.step = IF Doomed(d) = {} THEN "done" ELSE "delete"], {k})
        /\ UNCHANGED <<ownRecords, agentCount>>

CallFails(a) ==
    /\ Busy(a)
    /\ Goes(a, NoCall, {})
    /\ UNCHANGED <<favRecords, ownRecords, agentCount>>

-----------------------------------------------------------------------------
(* Verbs of one request.                                                   *)

Put(a, record) ==
    /\ ~Busy(a) /\ agentCount < AgentCalls
    /\ agentCount' = agentCount + 1
    /\ ownRecords' = ownRecords \cup {record}
    /\ UNCHANGED <<favRecords, agentCall>>

RemoveRecord(a, record) ==
    /\ ~Busy(a) /\ agentCount < AgentCalls
    /\ agentCount' = agentCount + 1
    /\ ownRecords' = ownRecords \ {record}
    /\ UNCHANGED <<favRecords, agentCall>>

SetPlayStatus(a)    == Put(a, "status")
PutAudioSettings(a) == Put(a, "audio")
Comment(a)          == Put(a, "comment")
CreateStation(a)    == Put(a, "station")
Reaction(a)         == Put(a, "reaction")
DeletePlayStatus(a) == RemoveRecord(a, "status")
DeleteComment(a)    == RemoveRecord(a, "comment")

\* putRecord writes the comment also when it was deleted meanwhile.
UpdateComment(a)    == Put(a, "comment")

AgentNext == \E a \in Agent :
    \/ Favorite(a) \/ Unfavorite(a) \/ ListFavoritesCall(a)
    \/ PutFavorite(a) \/ ListPage(a) \/ DeleteFavorite(a) \/ CallFails(a)
    \/ SetPlayStatus(a) \/ DeletePlayStatus(a) \/ PutAudioSettings(a)
    \/ CreateStation(a) \/ Reaction(a)
    \/ Comment(a) \/ UpdateComment(a) \/ DeleteComment(a)

AgentSpec == AgentInit /\ [][AgentNext]_agentVars

-----------------------------------------------------------------------------
(* Properties.                                                             *)

\* What a call that succeeds leaves behind, `records` being the favorites then.
EndsRight(c, records) ==
    CASE c.op = "favorite"   -> /\ Old \cap Of(c.station) \cap records = {}
                                /\ c.crossed \/ FavoriteRkey[c.station] \in records
      [] c.op = "unfavorite" -> c.crossed \/ Of(c.station) \cap records = {}
      [] c.op = "list"       -> c.kept \cap c.found = c.kept \cap records
      [] OTHER               -> TRUE

\* "favoriting twice overwrites one record ... deletes any other favorite for the same
\* stationId" (agent.ts:138): whatever other agents do, a favorite that succeeds leaves
\* no old record, and the derived one unless an unfavorite crossed it; a list misses no
\* record that stayed.
CallsEndRight ==
    [][\A a \in Agent : (Busy(a) /\ agentCall'[a].step = "done" /\ agentCall'[a].op # "none")
           => EndsRight(agentCall'[a], favRecords')]_agentVars
=============================================================================
