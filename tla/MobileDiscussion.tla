--------------------------- MODULE MobileDiscussion ---------------------------
(***************************************************************************)
(* A station's discussion on the phone (StationDiscussion.tsx): the feed   *)
(* of comments, kept per station and read page by page again and again;    *)
(* what this screen posted and deleted, laid over it until the index has   *)
(* it; the composer with its GIF picker; and the one write at a time.      *)
(* Other listeners and the indexer change what a page holds meanwhile.     *)
(***************************************************************************)
EXTENDS Naturals, Sequences

CONSTANTS MdOld,              \* the comments of the feed's second page
          MdActs, MdFaults    \* bounds: what the user does, what fails

VARIABLES
    mdOpen,      \* the screen is open
    mdDid,       \* somebody is signed in
    mdRepo,      \* the user's own comments, as numbers, and MdOld: those that exist
    mdIndex,     \* those of them the AppView has
    mdFeed,      \* the pages read so far
    mdRead,      \* the read under way: [pages, want], or []
    mdLocal, mdDeleted,   \* what this screen posted, what it deleted
    mdText,      \* the text typed, as a number; 0 is empty
    mdGif,       \* a GIF is attached
    mdPicker,    \* the GIF picker is open
    mdWrite,     \* the write this screen waits for: [op, comment], or []
    mdLeft,      \* writes of screens that have closed
    mdError, mdActs, mdFaults

mdVars == <<mdOpen, mdDid, mdRepo, mdIndex, mdFeed, mdRead, mdLocal, mdDeleted, mdText,
            mdGif, mdPicker, mdWrite, mdLeft, mdError, mdActs, mdFaults>>
mdData   == <<mdRepo, mdIndex>>
mdQuery  == <<mdFeed, mdRead>>
mdOverlay == <<mdLocal, mdDeleted>>
mdForm   == <<mdText, mdGif, mdPicker>>

NotWriting == [op |-> "none", comment |-> 0]
NoRead  == [pages |-> <<>>, want |-> 0]
Sending == mdWrite # NotWriting
Writing(op, comment) == [op |-> op, comment |-> comment]

MdInit ==
    /\ mdOpen = FALSE /\ mdDid \in BOOLEAN
    /\ mdRepo = MdOld /\ mdIndex = MdOld
    /\ mdFeed = <<>> /\ mdRead = NoRead
    /\ mdLocal = {} /\ mdDeleted = {} /\ mdText = 0 /\ mdGif = FALSE /\ mdPicker = FALSE
    /\ mdWrite = NotWriting /\ mdLeft = {} /\ mdError = FALSE /\ mdActs = 0 /\ mdFaults = 0

DiscussionAct == mdActs < MdActs /\ mdActs' = mdActs + 1

-----------------------------------------------------------------------------
(* The screen.                                                             *)

\* Mounted anew: nothing of an earlier screen but the feed's cache. The query is read as
\* it mounts, all its pages again.
Enter ==
    /\ ~mdOpen /\ DiscussionAct /\ mdOpen' = TRUE
    /\ mdLocal' = {} /\ mdDeleted' = {} /\ mdError' = FALSE
    /\ mdText' = 0 /\ mdGif' = FALSE /\ mdPicker' = FALSE
    /\ mdRead' = IF mdRead = NoRead
                 THEN [pages |-> <<>>, want |-> IF mdFeed = <<>> THEN 1 ELSE Len(mdFeed)]
                 ELSE mdRead
    /\ UNCHANGED <<mdDid, mdData, mdFeed, mdWrite, mdLeft, mdFaults>>

\* Close, or Sign in, which closes it. The write goes on; nobody hears its answer.
Leave ==
    /\ mdOpen /\ mdOpen' = FALSE
    /\ mdLeft' = IF Sending THEN mdLeft \cup {mdWrite} ELSE mdLeft
    /\ mdWrite' = NotWriting
    /\ UNCHANGED <<mdDid, mdData, mdQuery, mdOverlay, mdForm, mdError, mdActs,
                   mdFaults>>

DidChanges ==
    /\ DiscussionAct /\ mdDid' = ~mdDid
    /\ UNCHANGED <<mdOpen, mdData, mdQuery, mdOverlay, mdForm, mdWrite, mdLeft, mdError,
                   mdFaults>>

-----------------------------------------------------------------------------
(* The feed.                                                               *)

ReadPages(want) == [pages |-> <<>>, want |-> want]

\* refetch after a post, by pulling or by the retry: what is under way is given up; every
\* 15 s, unless a read is under way.
RefetchFeed ==
    /\ mdOpen
    /\ mdRead # ReadPages(IF mdFeed = <<>> THEN 1 ELSE Len(mdFeed))
    /\ mdRead' = ReadPages(IF mdFeed = <<>> THEN 1 ELSE Len(mdFeed))
    /\ UNCHANGED <<mdOpen, mdDid, mdData, mdFeed, mdOverlay, mdForm, mdWrite, mdLeft,
                   mdError, mdActs, mdFaults>>

\* fetchNextPage, at the end of the list: the pages there are stay, one is added.
FetchNextPage ==
    /\ mdOpen /\ ~mdPicker /\ mdRead = NoRead /\ Len(mdFeed) = 1
    /\ mdRead' = [pages |-> mdFeed, want |-> 2]
    /\ UNCHANGED <<mdOpen, mdDid, mdData, mdFeed, mdOverlay, mdForm, mdWrite, mdLeft,
                   mdError, mdActs, mdFaults>>

\* getComments reads a page; the read is done with the last one it wants.
PageRead ==
    /\ mdRead # NoRead
    /\ LET page  == IF mdRead.pages = <<>> THEN mdIndex \ MdOld ELSE mdIndex \cap MdOld
           pages == Append(mdRead.pages, page)
       IN IF Len(pages) = mdRead.want
          THEN mdFeed' = pages /\ mdRead' = NoRead
          ELSE mdRead' = [mdRead EXCEPT !.pages = pages] /\ UNCHANGED mdFeed
    /\ UNCHANGED <<mdOpen, mdDid, mdData, mdOverlay, mdForm, mdWrite, mdLeft, mdError,
                   mdActs, mdFaults>>

ReadLost ==
    /\ mdRead # NoRead /\ mdFaults < MdFaults /\ mdFaults' = mdFaults + 1
    /\ mdRead' = NoRead
    /\ UNCHANGED <<mdOpen, mdDid, mdData, mdFeed, mdOverlay, mdForm, mdWrite, mdLeft,
                   mdError, mdActs>>

\* The list: what was posted here, then the pages; without repeats, without what was
\* deleted here.
CommentsShown ==
    (mdLocal \cup UNION {mdFeed[i] : i \in DOMAIN mdFeed}) \ mdDeleted

\* The indexer catches up with the repositories.
Index(comment) ==
    /\ mdIndex' = IF comment \in mdRepo THEN mdIndex \cup {comment}
                                         ELSE mdIndex \ {comment}
    /\ mdIndex' # mdIndex
    /\ UNCHANGED <<mdOpen, mdDid, mdRepo, mdQuery, mdOverlay, mdForm, mdWrite, mdLeft,
                   mdError, mdActs, mdFaults>>

-----------------------------------------------------------------------------
(* The composer and the writes.                                            *)

\* Fault: the text can be changed while it is sent.
Editable_Always == mdOpen /\ mdDid

\* editable = {!pending}.
Editable == mdOpen /\ mdDid /\ ~Sending

TypeComment ==
    /\ Editable /\ DiscussionAct
    /\ mdText' = mdActs + 1
    /\ UNCHANGED <<mdOpen, mdDid, mdData, mdQuery, mdOverlay, mdGif, mdPicker, mdWrite,
                   mdLeft, mdError, mdFaults>>

\* The picker opens and closes; a GIF is chosen or taken off, during a write too.
PickGif ==
    /\ mdOpen /\ mdDid /\ DiscussionAct
    /\ \/ ~Sending /\ mdPicker' = ~mdPicker /\ UNCHANGED mdGif
       \/ mdPicker /\ mdPicker' = FALSE /\ mdGif' \in {TRUE, mdGif}
       \/ mdGif /\ mdGif' = FALSE /\ UNCHANGED mdPicker
    /\ UNCHANGED <<mdOpen, mdDid, mdData, mdQuery, mdOverlay, mdText, mdWrite, mdLeft,
                   mdError, mdFaults>>

\* write: not without a user (the sign-in opens instead), not during another write.
Begin(write) ==
    /\ mdOpen /\ mdDid /\ ~Sending /\ DiscussionAct
    /\ mdWrite' = write /\ mdError' = FALSE
    /\ UNCHANGED <<mdOpen, mdDid, mdData, mdQuery, mdOverlay, mdForm, mdLeft, mdFaults>>

Send == (mdText # 0 \/ mdGif) /\ Begin(Writing("comment", mdText))

SendReaction == Begin(Writing("reaction", 0))

\* The trash of an own comment, once the alert is confirmed.
Delete(comment) ==
    /\ comment \in CommentsShown \ MdOld /\ ~mdPicker
    /\ Begin(Writing("delete", comment))

\* What a write does in the repository; a comment is a record of its own, named here by
\* the act that wrote its text, or by the one that sent a GIF alone.
Stored(write, uri) ==
    CASE write.op = "comment" -> mdRepo \cup {uri}
      [] write.op = "delete"  -> mdRepo \ {write.comment}
      [] OTHER                -> mdRepo

\* send and the trash after the write: the comment heads the list, the composer is
\* emptied, the feed read again; the deleted one is hidden.
CommentWritten ==
    /\ Sending
    /\ LET uri == 10 + mdActs
       IN /\ uri \notin mdRepo
          /\ mdRepo' = Stored(mdWrite, uri)
          /\ CASE mdWrite.op = "comment" ->
                    /\ mdLocal' = mdLocal \cup {uri}
                    /\ mdText' = 0 /\ mdGif' = FALSE /\ mdPicker' = FALSE
                    /\ mdRead' = ReadPages(IF mdFeed = <<>> THEN 1 ELSE Len(mdFeed))
                    /\ UNCHANGED mdDeleted
               [] mdWrite.op = "delete" ->
                    /\ mdDeleted' = mdDeleted \cup {mdWrite.comment}
                    /\ UNCHANGED <<mdLocal, mdForm, mdRead>>
               [] OTHER -> UNCHANGED <<mdOverlay, mdForm, mdRead>>
    /\ mdWrite' = NotWriting
    /\ UNCHANGED <<mdOpen, mdDid, mdIndex, mdFeed, mdLeft, mdError, mdActs, mdFaults>>

\* The answer of a write whose screen has closed.
WrittenUnheard(write) ==
    /\ mdLeft' = mdLeft \ {write}
    /\ mdRepo' = Stored(write, 100 + write.comment)
    /\ UNCHANGED <<mdOpen, mdDid, mdIndex, mdQuery, mdOverlay, mdForm, mdWrite, mdError,
                   mdActs, mdFaults>>

\* A failed write is an error, and the text stays; it may have been stored all the same.
CommentFails ==
    /\ Sending /\ mdFaults < MdFaults /\ mdFaults' = mdFaults + 1
    /\ mdRepo' \in {mdRepo, Stored(mdWrite, 10 + mdActs)}
    /\ mdWrite' = NotWriting /\ mdError' = TRUE
    /\ UNCHANGED <<mdOpen, mdDid, mdIndex, mdQuery, mdOverlay, mdForm, mdLeft, mdActs>>

MdNext ==
    \/ Enter \/ Leave \/ DidChanges
    \/ RefetchFeed \/ FetchNextPage \/ PageRead \/ ReadLost
    \/ \E comment \in mdRepo \cup mdIndex : Index(comment) \/ Delete(comment)
    \/ TypeComment \/ PickGif \/ Send \/ SendReaction
    \/ CommentWritten \/ CommentFails
    \/ \E write \in mdLeft : WrittenUnheard(write)

MdSpec == MdInit /\ [][MdNext]_mdVars

-----------------------------------------------------------------------------
(* Properties.                                                             *)

\* A write that is answered empties the composer: what is in it then is what was sent,
\* whatever the user did while it was under way, on this screen or on the one before.
NothingTypedIsLost == mdWrite.op = "comment" => mdText = mdWrite.comment
=============================================================================
