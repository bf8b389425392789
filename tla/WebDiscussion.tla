---------------------------- MODULE WebDiscussion ----------------------------
(***************************************************************************)
(* The discussion of a station in the browser: the list of comments with   *)
(* its composer and its editor (CommentsPanel.tsx, CommentComposer.tsx),   *)
(* the emoji reactions and their rain (StationReactions.tsx,               *)
(* PlayerReactionRain.tsx), and the stream of live events the two share    *)
(* (useStationLive.ts, the /live route and its bus).                       *)
(*                                                                         *)
(* A comment is [id, st, mine, ver]: ver is 1 until it is edited, and then *)
(* tells which of the user's acts wrote it. The list shows the server's    *)
(* copies, over them the copies the page holds itself (its own writes and  *)
(* the live events), less what the user deleted here. The page's copies    *)
(* outlive a change of station: the list of the next station begins with   *)
(* the comments of the last one, and an edit of one of those moves it to   *)
(* the station that is shown.                                              *)
(***************************************************************************)
EXTENDS Naturals

CONSTANTS WdStation, WdNone,           \* stations, and none
          WdComments,                  \* bound: comments ever written
          WdActs, WdPolls, WdFaults    \* bounds: the user's acts, fetches, failures

ASSUME WdCommentsAreCounted == WdComments \in Nat \ {0}

VARIABLES
    wdIn,      \* the user is signed in
    wdPlaying, \* the player's station: the rain is about it
    wdPanel,   \* the panel: [st, local, deleted, editing, confirm, box]
    wdServer,  \* the comments the API serves
    wdCache,   \* the query cache: station -> comments
    wdFetch,   \* fetches on their way: [st, read, data]
    wdStream,  \* the registry of live streams: station -> handlers
    wdWire,    \* live events on their way: [st, kind, c]
    wdReqs,    \* writes on their way: [op, c, n, live, box, done]; n is the act
    wdRain,    \* particles on the screen
    wdTold,    \* history: what the user was told of each comment: [ver, gone, crossed]
    wdCount    \* [acts, polls, faults, ids]

wdVars == <<wdIn, wdPlaying, wdPanel, wdServer, wdCache, wdFetch, wdStream, wdWire, wdReqs,
            wdRain, wdTold, wdCount>>

EmptyBox == [text |-> FALSE, mention |-> FALSE, busy |-> FALSE]

\* An editor is a composer that begins with a comment's text.
EditBox == [EmptyBox EXCEPT !.text = TRUE]

\* The panel as it is mounted.
Mounted(st) == [st |-> st, local |-> {}, deleted |-> {}, editing |-> 0, confirm |-> 0,
                box |-> [new |-> EmptyBox, edit |-> EditBox]]

Untold == [id \in 1..WdComments |-> [ver |-> 0, gone |-> FALSE, crossed |-> FALSE]]

\* The user may have commented before the page was opened.
WdInit ==
    /\ wdIn = TRUE /\ wdPlaying = WdNone /\ wdPanel = Mounted(WdNone)
    /\ wdServer \in {{}} \cup {{[id |-> 1, st |-> st, mine |-> TRUE, ver |-> 1]} : st \in WdStation}
    /\ wdCache = [st \in WdStation |-> {}] /\ wdFetch = {}
    /\ wdStream = [st \in WdStation |-> {}] /\ wdWire = {} /\ wdReqs = {} /\ wdRain = 0
    /\ wdTold = Untold
    /\ wdCount = [acts |-> 0, polls |-> 0, faults |-> 0, ids |-> IF wdServer = {} THEN 0 ELSE 1]

Spend(what, max) == wdCount[what] < max /\ wdCount' = [wdCount EXCEPT ![what] = @ + 1]
TalkAct == Spend("acts", WdActs)

Copies(id) == {c \in wdPanel.local : c.id = id}

\* The list: the page's own copy of a comment wins over the server's.
ListOf(cached) ==
    {c \in wdPanel.local \cup {c \in cached : Copies(c.id) = {}} : c.id \notin wdPanel.deleted}

CommentList == ListOf(IF wdPanel.st = WdNone THEN {} ELSE wdCache[wdPanel.st])

\* What a card offers its author.
CommentItem(c) == c \in CommentList /\ c.mine /\ wdIn

-----------------------------------------------------------------------------
(* Live events.                                                            *)

\* One stream for each station somebody listens to.
AttachStream(streams, who, from, to) ==
    [st \in WdStation |-> CASE st = to   -> streams[st] \cup {who}
                            [] st = from /\ st # to -> streams[st] \ {who}
                            [] OTHER     -> streams[st]]

\* The bus hands an event to the streams that are open; the others miss it.
PublishLive(st, kind, c) ==
    wdWire' = IF wdStream[st] = {} THEN wdWire
              ELSE wdWire \cup {[st |-> st, kind |-> kind, c |-> c]}

\* Fault: a live copy replaces the one the page has.
OnComment_Upsert(c) == (wdPanel.local \ Copies(c.id)) \cup {c}

\* A live comment joins the list unless the page has a copy.
OnComment(c) == IF Copies(c.id) = {} THEN wdPanel.local \cup {c} ELSE wdPanel.local

\* The rain floats what others tapped: the user's own tap floated at once.
RainEchoes(e) == e.kind = "reaction" /\ ~(e.c.mine /\ wdIn)

LiveEvent == \E e \in wdWire :
    /\ wdWire' = wdWire \ {e}
    /\ wdPanel' = IF e.kind = "comment" /\ "panel" \in wdStream[e.st]
                  THEN [wdPanel EXCEPT !.local = OnComment(e.c)] ELSE wdPanel
    /\ wdRain' = IF RainEchoes(e) /\ "rain" \in wdStream[e.st] THEN wdRain + 1 ELSE wdRain
    /\ UNCHANGED <<wdIn, wdPlaying, wdServer, wdCache, wdFetch, wdStream, wdReqs,
                   wdTold, wdCount>>

\* The stream breaks, and the browser opens it again: what was on its way is lost.
LiveDrops == \E st \in WdStation :
    /\ Spend("faults", WdFaults)
    /\ \E e \in wdWire : e.st = st
    /\ wdWire' = {e \in wdWire : e.st # st}
    /\ UNCHANGED <<wdIn, wdPlaying, wdPanel, wdServer, wdCache, wdFetch, wdStream,
                   wdReqs, wdRain, wdTold>>

-----------------------------------------------------------------------------
(* The panel and its query.                                                *)

\* Requests whose composer is gone, or whose whole panel is.
Orphaned(reqs, box)   == {[r EXCEPT !.box = @ /\ r.op # box] : r \in reqs}
Abandoned(reqs)       == {[r EXCEPT !.live = FALSE, !.box = FALSE] : r \in reqs}
EventsOf(streams)     == {e \in wdWire : streams[e.st] # {}}

\* The editor lives in its comment's place in the list: it is gone when a list without
\* the comment is shown, and comes anew with the comment.
Editor(cached) ==
    IF \E c \in ListOf(cached) : c.id = wdPanel.editing THEN wdPanel.box.edit ELSE EditBox
EditorStays(cached) ==
    IF \E c \in ListOf(cached) : c.id = wdPanel.editing THEN wdReqs ELSE Orphaned(wdReqs, "edit")

\* The panel opens on a station, follows the player to another one, or closes. What it
\* holds, the comment that is edited included, follows it and goes with it.
ShowPanel(st) ==
    LET stay == st # WdNone /\ wdPanel.st # WdNone
    IN  /\ st # wdPanel.st /\ TalkAct
        /\ wdPanel' = IF stay THEN [wdPanel EXCEPT !.st = st, !.box.edit = Editor(wdCache[st])]
                              ELSE Mounted(st)
        /\ wdReqs' = IF stay THEN EditorStays(wdCache[st]) ELSE Abandoned(wdReqs)
        /\ wdTold' = IF stay THEN wdTold ELSE Untold
        /\ wdStream' = AttachStream(wdStream, "panel", wdPanel.st, st)
        /\ wdWire' = EventsOf(wdStream')
        /\ UNCHANGED <<wdIn, wdPlaying, wdServer, wdCache, wdFetch, wdRain>>

PlayOther(st) ==
    /\ st # wdPlaying /\ TalkAct
    /\ wdPlaying' = st
    /\ wdStream' = AttachStream(wdStream, "rain", wdPlaying, st)
    /\ wdWire' = EventsOf(wdStream')
    /\ UNCHANGED <<wdIn, wdPanel, wdServer, wdCache, wdFetch, wdReqs, wdRain, wdTold>>

\* The query of the panel's station: at its mount and every 20 seconds, one at a time.
Poll ==
    /\ wdPanel.st # WdNone /\ \A f \in wdFetch : f.st # wdPanel.st
    /\ Spend("polls", WdPolls)
    /\ wdFetch' = wdFetch \cup {[st |-> wdPanel.st, read |-> FALSE, data |-> {}]}
    /\ UNCHANGED <<wdIn, wdPlaying, wdPanel, wdServer, wdCache, wdStream, wdWire,
                   wdReqs, wdRain, wdTold>>

CommentsRead == \E f \in wdFetch :
    /\ ~f.read
    /\ wdFetch' = (wdFetch \ {f}) \cup
                  {[f EXCEPT !.read = TRUE, !.data = {c \in wdServer : c.st = f.st}]}
    /\ UNCHANGED <<wdIn, wdPlaying, wdPanel, wdServer, wdCache, wdStream, wdWire,
                   wdReqs, wdRain, wdTold, wdCount>>

Polled == \E f \in wdFetch :
    /\ f.read
    /\ wdFetch' = wdFetch \ {f}
    /\ wdCache' = [wdCache EXCEPT ![f.st] = f.data]
    /\ IF f.st = wdPanel.st
       THEN /\ wdPanel' = [wdPanel EXCEPT !.box.edit = Editor(f.data)]
            /\ wdReqs' = EditorStays(f.data)
       ELSE UNCHANGED <<wdPanel, wdReqs>>
    /\ UNCHANGED <<wdIn, wdPlaying, wdServer, wdStream, wdWire, wdRain, wdTold, wdCount>>

\* The session ends or begins: the composers go and come with it.
SignInOrOut ==
    /\ TalkAct
    /\ wdIn' = ~wdIn
    /\ wdPanel' = [wdPanel EXCEPT !.box = Mounted(WdNone).box]
    /\ wdReqs' = Orphaned(Orphaned(wdReqs, "new"), "edit")
    /\ UNCHANGED <<wdPlaying, wdServer, wdCache, wdFetch, wdStream, wdWire, wdRain,
                   wdTold>>

-----------------------------------------------------------------------------
(* Writing.                                                                *)

Composers == IF ~wdIn \/ wdPanel.st = WdNone THEN {}
             ELSE {"new"} \cup (IF \E c \in CommentList : c.mine /\ c.id = wdPanel.editing
                                THEN {"edit"} ELSE {})

SetBox(b, box) == wdPanel' = [wdPanel EXCEPT !.box[b] = box]

\* Typing, which may put the caret in a mention and open the suggestions.
Type == \E b \in Composers, mention \in BOOLEAN :
    /\ ~wdPanel.box[b].text \/ wdPanel.box[b].mention # mention
    /\ SetBox(b, [wdPanel.box[b] EXCEPT !.text = TRUE, !.mention = mention])
    /\ UNCHANGED <<wdIn, wdPlaying, wdServer, wdCache, wdFetch, wdStream, wdWire,
                   wdReqs, wdRain, wdTold, wdCount>>

\* A suggestion is chosen, or the popup dismissed.
InsertMention == \E b \in Composers :
    /\ wdPanel.box[b].mention
    /\ SetBox(b, [wdPanel.box[b] EXCEPT !.mention = FALSE])
    /\ UNCHANGED <<wdIn, wdPlaying, wdServer, wdCache, wdFetch, wdStream, wdWire,
                   wdReqs, wdRain, wdTold, wdCount>>

CanSubmit(b) == wdPanel.box[b].text /\ ~wdPanel.box[b].busy

\* The edits of a comment this panel waits for.
EditsOf(id) == {r \in wdReqs : r.live /\ r.op = "edit" /\ r.c.id = id}

Write(op, c) == [op |-> op, c |-> c, n |-> wdCount.acts, live |-> TRUE,
                 box |-> op # "delete", done |-> FALSE]

\* Send: the button, or the keys when the popup is closed. Either is written for the
\* station the panel shows, an edit of another station's comment as well.
SubmitComment(b) ==
    /\ b \in Composers /\ CanSubmit(b) /\ TalkAct
    /\ SetBox(b, [wdPanel.box[b] EXCEPT !.busy = TRUE])
    /\ LET id == IF b = "edit" THEN wdPanel.editing ELSE 0
       IN  /\ wdReqs' = wdReqs \cup
                  {Write(b, [id |-> id, st |-> wdPanel.st, mine |-> TRUE,
                             ver |-> IF b = "edit" THEN wdCount.acts + 2 ELSE 1])}
           /\ wdTold' = IF b = "edit" /\ EditsOf(id) # {}
                        THEN [wdTold EXCEPT ![id].crossed = TRUE] ELSE wdTold
    /\ UNCHANGED <<wdIn, wdPlaying, wdServer, wdCache, wdFetch, wdStream, wdWire, wdRain>>

\* The pencil and the bin of a card, cancel (an edit on its way goes on), and the dialog
\* that asks before a delete.
StartEdit(c) ==
    /\ CommentItem(c) /\ wdPanel.editing # c.id
    /\ wdPanel' = [wdPanel EXCEPT !.editing = c.id, !.box.edit = EditBox]
    /\ wdReqs' = Orphaned(wdReqs, "edit")
    /\ UNCHANGED <<wdIn, wdPlaying, wdServer, wdCache, wdFetch, wdStream, wdWire,
                   wdRain, wdTold, wdCount>>

CancelEdit ==
    /\ "edit" \in Composers
    /\ wdPanel' = [wdPanel EXCEPT !.editing = 0, !.box.edit = EditBox]
    /\ wdReqs' = Orphaned(wdReqs, "edit")
    /\ UNCHANGED <<wdIn, wdPlaying, wdServer, wdCache, wdFetch, wdStream, wdWire,
                   wdRain, wdTold, wdCount>>

AskDelete(c) ==
    /\ wdPanel.confirm = 0 /\ CommentItem(c)
    /\ wdPanel' = [wdPanel EXCEPT !.confirm = c.id]
    /\ UNCHANGED <<wdIn, wdPlaying, wdServer, wdCache, wdFetch, wdStream, wdWire,
                   wdReqs, wdRain, wdTold, wdCount>>

CancelDelete ==
    /\ wdPanel.confirm # 0
    /\ wdPanel' = [wdPanel EXCEPT !.confirm = 0]
    /\ UNCHANGED <<wdIn, wdPlaying, wdServer, wdCache, wdFetch, wdStream, wdWire,
                   wdReqs, wdRain, wdTold, wdCount>>

\* The delete is shown at once, and the page gives up its own copy.
PerformDelete ==
    LET id == wdPanel.confirm
        edited == wdPanel.editing = id
    IN  /\ id # 0 /\ wdIn /\ TalkAct
        /\ wdPanel' = [wdPanel EXCEPT !.confirm = 0, !.deleted = @ \cup {id},
                           !.local = @ \ Copies(id), !.editing = IF edited THEN 0 ELSE @,
                           !.box.edit = IF edited THEN EditBox ELSE @]
        /\ wdReqs' = Orphaned(wdReqs, IF edited THEN "edit" ELSE "none") \cup
                     {Write("delete", [id |-> id, st |-> wdPanel.st, mine |-> TRUE, ver |-> 1])}
        /\ wdTold' = [wdTold EXCEPT ![id].gone = TRUE, ![id].ver = 0]
        /\ UNCHANGED <<wdIn, wdPlaying, wdServer, wdCache, wdFetch, wdStream, wdWire,
                       wdRain>>

\* A comment is written and indexed, and goes to the live streams when there was no such
\* record, as after a delete; the answer may come before the event or after it.
PutComment == \E r \in wdReqs :
    /\ r.op \in {"new", "edit"} /\ ~r.done
    /\ r.op = "new" => wdCount.ids < WdComments
    /\ LET c == IF r.op = "new" THEN [r.c EXCEPT !.id = wdCount.ids + 1] ELSE r.c
       IN  /\ wdServer' = {x \in wdServer : x.id # c.id} \cup {c}
           /\ wdReqs' = (wdReqs \ {r}) \cup {[r EXCEPT !.c = c, !.done = TRUE]}
           /\ IF \A x \in wdServer : x.id # c.id
              THEN PublishLive(c.st, "comment", c) ELSE wdWire' = wdWire
    /\ wdCount' = IF r.op = "new" THEN [wdCount EXCEPT !.ids = @ + 1] ELSE wdCount
    /\ UNCHANGED <<wdIn, wdPlaying, wdPanel, wdCache, wdFetch, wdStream, wdRain,
                   wdTold>>

\* What the page does with the answer, in the panel that sent the write: a new comment
\* joins the list, an edited one replaces its copy and closes the editor.
OnPosted(r) ==
    [wdPanel EXCEPT
        !.local = IF r.op = "edit" THEN (@ \ Copies(r.c.id)) \cup {r.c} ELSE OnComment(r.c),
        !.editing = IF r.op = "edit" THEN 0 ELSE @,
        !.box = [new  |-> IF r.op = "new" /\ r.box THEN EmptyBox ELSE @.new,
                 edit |-> IF r.op = "edit" THEN EditBox ELSE @.edit]]

PostAnswered == \E r \in wdReqs :
    /\ r.done
    /\ wdPanel' = IF r.live THEN OnPosted(r) ELSE wdPanel
    /\ wdReqs' = IF r.live /\ r.op = "edit" THEN Orphaned(wdReqs \ {r}, "edit") ELSE wdReqs \ {r}
    /\ wdTold' = IF r.live /\ r.c.ver > wdTold[r.c.id].ver
                 THEN [wdTold EXCEPT ![r.c.id].ver = r.c.ver] ELSE wdTold
    /\ UNCHANGED <<wdIn, wdPlaying, wdServer, wdCache, wdFetch, wdStream, wdWire,
                   wdRain, wdCount>>

DeleteDone == \E r \in wdReqs :
    /\ r.op = "delete"
    /\ wdReqs' = wdReqs \ {r}
    /\ wdServer' = {c \in wdServer : c.id # r.c.id}
    /\ UNCHANGED <<wdIn, wdPlaying, wdPanel, wdCache, wdFetch, wdStream, wdWire, wdRain,
                   wdTold, wdCount>>

\* A write fails, after it was carried out or before: the composer keeps its text, and a
\* delete is undone as far as the list of the server goes: the page's own copy is not put
\* back.
RequestFails == \E r \in wdReqs, landed \in BOOLEAN :
    /\ Spend("faults", WdFaults)
    /\ wdReqs' = wdReqs \ {r}
    /\ landed => r.op = "delete"
    /\ wdServer' = IF landed THEN {c \in wdServer : c.id # r.c.id} ELSE wdServer
    /\ IF r.op = "delete"
       THEN /\ wdPanel' = IF r.live THEN [wdPanel EXCEPT !.deleted = @ \ {r.c.id}] ELSE wdPanel
            /\ wdTold' = IF r.live THEN [wdTold EXCEPT ![r.c.id].gone = FALSE] ELSE wdTold
       ELSE /\ wdPanel' = IF r.box THEN [wdPanel EXCEPT !.box[r.op].busy = FALSE] ELSE wdPanel
            /\ wdTold' = wdTold
    /\ UNCHANGED <<wdIn, wdPlaying, wdCache, wdFetch, wdStream, wdWire, wdRain>>

-----------------------------------------------------------------------------
(* Reactions and other listeners.                                          *)

\* A tap floats at once when it is about the station that plays, and is written after
\* that; signed out it asks for a sign-in instead.
React(st) ==
    /\ TalkAct
    /\ IF wdIn
       THEN /\ wdRain' = IF st = wdPlaying THEN wdRain + 1 ELSE wdRain
            /\ PublishLive(st, "reaction", [id |-> 0, st |-> st, mine |-> TRUE, ver |-> 0])
       ELSE UNCHANGED <<wdRain, wdWire>>
    /\ UNCHANGED <<wdIn, wdPlaying, wdPanel, wdServer, wdCache, wdFetch, wdStream,
                   wdReqs, wdTold>>

\* A particle has risen.
Risen ==
    /\ wdRain > 0 /\ wdRain' = wdRain - 1
    /\ UNCHANGED <<wdIn, wdPlaying, wdPanel, wdServer, wdCache, wdFetch, wdStream,
                   wdWire, wdReqs, wdTold, wdCount>>

\* Somebody else comments, or taps an emoji.
OthersComment(st) ==
    /\ wdCount.ids < WdComments /\ wdCount' = [wdCount EXCEPT !.ids = @ + 1]
    /\ LET c == [id |-> wdCount.ids + 1, st |-> st, mine |-> FALSE, ver |-> 1]
       IN  wdServer' = wdServer \cup {c} /\ PublishLive(st, "comment", c)
    /\ UNCHANGED <<wdIn, wdPlaying, wdPanel, wdCache, wdFetch, wdStream, wdReqs, wdRain,
                   wdTold>>

OthersReact(st) ==
    /\ TalkAct
    /\ PublishLive(st, "reaction", [id |-> 0, st |-> st, mine |-> FALSE, ver |-> 0])
    /\ UNCHANGED <<wdIn, wdPlaying, wdPanel, wdServer, wdCache, wdFetch, wdStream,
                   wdReqs, wdRain, wdTold>>

WdNext ==
    \/ LiveEvent \/ LiveDrops
    \/ \E st \in WdStation \cup {WdNone} : ShowPanel(st) \/ PlayOther(st)
    \/ Poll \/ CommentsRead \/ Polled \/ SignInOrOut
    \/ Type \/ InsertMention \/ SubmitComment("new") \/ SubmitComment("edit")
    \/ \E c \in CommentList : StartEdit(c) \/ AskDelete(c)
    \/ CancelEdit \/ CancelDelete \/ PerformDelete
    \/ PutComment \/ PostAnswered \/ DeleteDone \/ RequestFails
    \/ \E st \in WdStation : React(st) \/ OthersComment(st) \/ OthersReact(st)
    \/ Risen

WdSpec == WdInit /\ [][WdNext]_wdVars

-----------------------------------------------------------------------------
(* Properties.                                                             *)

\* While a panel is mounted, what the user wrote through it stands, whatever polls, live
\* events, answers and failures arrive late (CommentsPanel.tsx): a comment that was deleted
\* is not in the list until the delete fails, and one that was posted or edited is, not
\* older than the last edit that was answered since the page last gave up its copy for a
\* delete. Of a comment with two edits under way at once (cancel works while the first is
\* sent) the list has one of them, for the one answered last is shown, not the one sent
\* last.
OwnWordsStand == \A id \in 1..WdComments :
    LET told  == wdTold[id]
        shown == {c \in CommentList : c.id = id}
    IN  IF told.gone THEN shown = {}
        ELSE told.ver > 0 => \E c \in shown : c.ver >= told.ver \/ told.crossed
=============================================================================
