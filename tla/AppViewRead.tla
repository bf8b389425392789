----------------------------- MODULE AppViewRead -----------------------------
(***************************************************************************)
(* The paged lists of the XRPC API (apps/api/src/xrpc/index.ts) behind its *)
(* response cache (cache.ts), as a client walks one of them while rows     *)
(* come and go.  A row belongs to an item: itself, or, where plays are     *)
(* grouped, its station or its listener.                                   *)
(***************************************************************************)
EXTENDS Naturals, FiniteSets, FiniteSetsExt

CONSTANTS ReadItem,   \* items: uris, stations or listeners
          ReadLimit,  \* the limit of the requests
          ReadTime,   \* bound: times are 1..ReadTime
          ReadWrites  \* bound: writes

\* Limits are clamped to 1..100 (index.ts:28).
ASSUME ReadAssumption ==
    ReadLimit \in Nat \ {0} /\ ReadTime \in Nat /\ IsFiniteSet(ReadItem)

VARIABLES
    readList,    \* which list is walked
    readRows,    \* the table's rows of this actor or station: [item, at]
    readFresh,   \* history: items no write has touched and none shared the time of
    readCursor,  \* the cursor of the next request
    readShown,   \* history: how often each item came back
    readDone,    \* the last page had no cursor
    readCache,   \* cached answers: [cursor, page, next]
    readWrites   \* writes so far

readVars == <<readList, readRows, readFresh, readCursor, readShown, readDone, readCache,
              readWrites>>

Cached  == {"favorites", "stations", "played", "global"}
Grouped == {"played", "global"}
Listings   == Cached \cup {"comments", "notifications"}
NoCursor == ReadTime + 1

\* Plays are grouped by station or listener, with the time of the newest.
Newest(rows) == {r \in rows : \A s \in rows : s.item = r.item => s.at <= r.at}

ReadInit ==
    /\ readList \in Listings
    /\ readRows \in SUBSET [item : ReadItem, at : 1..ReadTime]
    /\ readList \notin Grouped =>
           \A r, s \in readRows : r.item = s.item => r = s
    /\ readFresh = {i \in ReadItem : \A r, s \in readRows :
                        r.item = i /\ s.at = r.at => s.item = i}
    /\ readCursor = NoCursor /\ readDone = FALSE
    /\ readShown = [i \in ReadItem |-> 0]
    /\ readCache = {} /\ readWrites = 0

\* One page and its cursor: the newest entries, one more than the limit being asked for
\* to learn whether there are more.
Pages(entries) ==
    {[cursor |-> readCursor, page |-> p,
      next |-> IF Cardinality(entries) > ReadLimit THEN Min({r.at : r \in p}) ELSE NoCursor] :
        p \in {q \in SUBSET entries :
                  /\ Cardinality(q) = IF Cardinality(entries) > ReadLimit
                                      THEN ReadLimit ELSE Cardinality(entries)
                  /\ \A r \in q, s \in entries \ q : s.at <= r.at}}

Before(entries) == {r \in entries : r.at < readCursor}

GetFavorites == Pages(Before(readRows))

GetStations == Pages(Before(readRows))

\* Fault: the cursor is in the where clause.
GetRecentlyPlayed_Where == Pages(Newest(Before(readRows)))

\* The cursor is in the having clause.
GetRecentlyPlayed == Pages(Before(Newest(readRows)))

GetGlobalRecentlyPlayed == Pages(Before(Newest(readRows)))

GetComments == Pages(Before(readRows))

GetNotifications == Pages(Before(readRows))

Answers ==
    CASE readList = "favorites" -> GetFavorites
      [] readList = "stations"  -> GetStations
      [] readList = "played"    -> GetRecentlyPlayed
      [] readList = "global"    -> GetGlobalRecentlyPlayed
      [] readList = "comments"  -> GetComments
      [] OTHER                  -> GetNotifications

\* cacheJson: an answer of this url that is still kept.
Hits == {p \in readCache : p.cursor = readCursor}

NextPage == \E p \in IF Hits = {} THEN Answers ELSE Hits :
    /\ ~readDone
    /\ readCache' = IF readList \in Cached THEN readCache \cup {p} ELSE {}
    /\ readShown' = [i \in ReadItem |->
                        readShown[i] + Cardinality({r \in p.page : r.item = i})]
    /\ readCursor' = p.next
    /\ readDone' = (p.next = NoCursor)
    /\ UNCHANGED <<readList, readRows, readFresh, readWrites>>

\* The client begins again.
Rewalk ==
    /\ readDone
    /\ readCursor' = NoCursor /\ readDone' = FALSE
    /\ readShown' = [i \in ReadItem |-> 0]
    /\ UNCHANGED <<readList, readRows, readFresh, readCache, readWrites>>

\* The time to live of a cached answer is over.
Expire == \E p \in readCache :
    /\ readCache' = readCache \ {p}
    /\ UNCHANGED <<readList, readRows, readFresh, readCursor, readShown, readDone,
                   readWrites>>

\* The consumer writes.  Index times are those of the clock; plays, comments and
\* notifications carry the time their author wrote.
RowWritten == readWrites < ReadWrites /\ readWrites' = readWrites + 1

IndexRow == \E i \in ReadItem, at \in 1..ReadTime :
    /\ RowWritten
    /\ readList \in {"favorites", "stations"} => \A r \in readRows : r.at <= at
    /\ readRows' = (IF readList \in Grouped THEN readRows
                    ELSE {r \in readRows : r.item # i}) \cup {[item |-> i, at |-> at]}
    /\ readRows' # readRows
    /\ readFresh' = readFresh \ ({i} \cup {r.item : r \in {s \in readRows : s.at = at}})
    /\ UNCHANGED <<readList, readCursor, readShown, readDone, readCache>>

DeleteRow == \E r \in readRows :
    /\ RowWritten
    /\ readRows' = readRows \ {r}
    /\ readFresh' = readFresh \ {r.item}
    /\ UNCHANGED <<readList, readCursor, readShown, readDone, readCache>>

ReadNext == NextPage \/ Rewalk \/ Expire \/ IndexRow \/ DeleteRow

ReadSpec == ReadInit /\ [][ReadNext]_readVars

-----------------------------------------------------------------------------
(* Properties.                                                             *)

\* "Cursor paginates" (index.ts:238): whatever is written and deleted around it, an
\* item that is left alone is shown at most once, and once when the walk is over,
\* unless it shares its time with another: the cursor cuts such a group in two.
WalkShowsOnce == \A i \in readFresh :
    /\ readShown[i] <= 1
    /\ (readDone /\ \E r \in readRows : r.item = i) => readShown[i] = 1
=============================================================================
