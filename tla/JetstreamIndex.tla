--------------------------- MODULE JetstreamIndex ---------------------------
(***************************************************************************)
(* What the Jetstream consumer (apps/api/src/jetstream/consumer.ts) does   *)
(* with the commits it receives: handlers that suspend at every database   *)
(* and network call, one per message, none waiting for another, write the  *)
(* index and the notifications, broadcast live events and feed the mirror. *)
(*                                                                         *)
(* Every host delivers the whole log in order (JetstreamFeed says what may *)
(* be skipped or repeated).  The records are those of one author; a row is *)
(* the number of the commit whose content it holds.  Records are valid:    *)
(* an invalid one is skipped before the first await.                       *)
(***************************************************************************)
EXTENDS Firehose, FiniteSetsExt

CONSTANTS
    Host,     \* Jetstream hosts
    Rec,      \* records of the author
    Kind,     \* kinds of record that are tried
    Actor,    \* actors other than the author
    Mention,  \* [1..MaxLog -> SUBSET Actor]: whom a comment's text mentions
    MaxLog,   \* bound: commits in the log
    Slot,     \* bound: handlers in flight at once
    MaxError  \* bound: database errors

Kinds == {"favorite", "station", "comment", "reaction", "status"}
Commits == 1..MaxLog
Op      == {"create", "update", "delete"}

\* The hosts are those of JETSTREAM_ENDPOINTS; the keys are those of KeyOf.
ASSUME JetstreamIndexAssumption ==
    /\ Host # {}
    /\ Kind \subseteq Kinds
    /\ MaxLog \in Nat \ {0}
    /\ Mention \in [Commits -> SUBSET Actor]
    /\ MaxError \in Nat
    /\ IsFiniteSet(Slot)
    /\ Op \X Rec \X (0..MaxLog) \subseteq Key

VARIABLES
    kind,     \* [Rec -> Kind]
    log,      \* Seq([op, rec]): what the author did, in order
    pos,      \* [Host -> commit the host delivers next]
    task,     \* [Slot -> [n, pc]]: the handlers, each at its next await
    row,      \* [Rec -> 0 or commit]: the table of the record's kind
    notes,    \* [Rec -> SUBSET Actor]: recipients of the comment's notifications
    plays,    \* commits with a row in recently_played
    user,     \* the author's row in users
    enriched, \* the author is in enrichedDids
    backfill, \* the one-shot repair of blank handles: [todo, found, done]
    lives,    \* [Commits -> Nat]: live events broadcast
    handled,  \* commits that some handler has indexed to the end
    errors

logVars   == <<kind, log, pos>>
tableVars == <<row, notes, plays>>
userVars  == <<user, enriched, backfill>>
indexVars == <<tableVars, userVars, lives, handled, errors>>
vars == <<logVars, task, indexVars, firehoseVars>>

User == {"none", "blank", "good"}
Pc   == {"idle", "cached", "profile", "bare", "good", "write", "unnotify", "owner",
         "notify", "notifyOwner", "actor", "delete", "denotify", "embed"}

Idle == [n |-> 0, pc |-> "idle"]

\* A record can be created when it does not exist, updated or deleted when it does.
LegalLog(l) ==
    \A i \in DOMAIN l :
        LET before == {j \in 1..i - 1 : l[j].rec = l[i].rec}
            exists == before # {} /\ l[Max(before)].op # "delete"
        IN  exists <=> l[i].op # "create"

Logs == {l \in UNION {[1..k -> [op : Op, rec : Rec]] : k \in Commits} : LegalLog(l)}

Init ==
    /\ kind \in [Rec -> Kind]
    /\ log \in Logs
    /\ pos = [h \in Host |-> 1]
    /\ task = [t \in Slot |-> Idle]
    /\ row = [r \in Rec |-> 0]
    /\ notes = [r \in Rec |-> {}]
    /\ plays = {}
    /\ user \in User
    /\ enriched = FALSE
    /\ backfill = "todo"
    /\ lives = [n \in Commits |-> 0]
    /\ handled = {}
    /\ errors = 0
    /\ FirehoseInit

-----------------------------------------------------------------------------
OpOf(t)   == log[task[t].n].op
RecOf(t)  == log[task[t].n].rec
KindOf(t) == kind[RecOf(t)]

\* The key of the mirror: the cid pins a version, deletes of a record share one.
KeyOf(n) == IF log[n].op = "delete" THEN <<"delete", log[n].rec, 0>>
                                    ELSE <<log[n].op, log[n].rec, n>>

At(t, pc) == task[t].pc = pc

Goto(t, pc) == task' = [task EXCEPT ![t].pc = pc]

\* The end of handleEvent: the commit is mirrored unless it was claimed already.
Forward(t) ==
    LET key == KeyOf(task[t].n)
    IN  /\ IF Claimed(key)
           THEN task' = [task EXCEPT ![t] = Idle] /\ UNCHANGED <<seen, forgotten>>
           ELSE Goto(t, "embed") /\ Claim(key)
        /\ UNCHANGED <<queue, flights, posted, faults>>

\* processCommit is over.
Indexed(t) == handled' = handled \cup {task[t].n} /\ Forward(t)

\* The next await of a create or update after the author's profile was dealt with.
StartOf(n) ==
    IF log[n].op = "delete"
    THEN IF kind[log[n].rec] = "status" THEN "none" ELSE "delete"
    ELSE IF enriched THEN "write" ELSE "cached"

\* A message of host h; a deleted status leaves the play history intact, so its
\* handler goes straight to the mirror.
Deliver(h, t) ==
    LET n == pos[h]
        key == KeyOf(n)
    IN  /\ n <= Len(log) /\ At(t, "idle")
        /\ pos' = [pos EXCEPT ![h] = n + 1]
        /\ UNCHANGED <<kind, log, tableVars, userVars, lives, errors>>
        /\ IF StartOf(n) # "none"
           THEN /\ task' = [task EXCEPT ![t] = [n |-> n, pc |-> StartOf(n)]]
                /\ UNCHANGED <<handled, firehoseVars>>
           ELSE /\ handled' = handled \cup {n}
                /\ IF Claimed(key)
                   THEN UNCHANGED <<task, seen, forgotten>>
                   ELSE /\ task' = [task EXCEPT ![t] = [n |-> n, pc |-> "embed"]]
                        /\ Claim(key)
                /\ UNCHANGED <<queue, flights, posted, faults>>

-----------------------------------------------------------------------------
(* ensureUser.                                                             *)

\* The cached row answers if it has a handle and is not older than a day.
Cached(t) ==
    /\ At(t, "cached")
    /\ \/ user = "good" /\ enriched' = TRUE /\ Goto(t, "write")
       \/ Goto(t, "profile") /\ UNCHANGED enriched
    /\ UNCHANGED <<logVars, tableVars, user, backfill, lives, handled, errors, firehoseVars>>

\* getProfile answers with a profile or, whatever went wrong, with null.
Profile(t) ==
    /\ At(t, "profile")
    /\ \/ enriched' = TRUE /\ Goto(t, "good")
       \/ Goto(t, "bare") /\ UNCHANGED enriched
    /\ UNCHANGED <<logVars, tableVars, user, backfill, lives, handled, errors, firehoseVars>>

\* Fault: a failed lookup is stored like any other.
Bare_Overwrites == "blank"

\* What the users row is after onConflictDoNothing.
Bare == IF user = "none" THEN "blank" ELSE user

UpsertUser(t) ==
    /\ \/ At(t, "good") /\ user' = "good"
       \/ At(t, "bare") /\ user' = Bare
    /\ Goto(t, "write")
    /\ UNCHANGED <<logVars, tableVars, enriched, backfill, lives, handled, errors, firehoseVars>>

\* backfillMissingHandles, fired at the start and not awaited: a row found blank is
\* looked up, and refilled if the profile answers.  (If the row is not blank when
\* the query runs, nothing happens.)
BackfillSelect ==
    /\ backfill = "todo" /\ user = "blank"
    /\ backfill' = "found"
    /\ UNCHANGED <<logVars, task, tableVars, user, enriched, lives, handled, errors, firehoseVars>>

BackfillUpdate ==
    /\ backfill = "found"
    /\ backfill' = "done"
    /\ \/ user' = "good" /\ enriched' = TRUE
       \/ UNCHANGED <<user, enriched>>
    /\ UNCHANGED <<logVars, task, tableVars, lives, handled, errors, firehoseVars>>

-----------------------------------------------------------------------------
(* The tables.                                                             *)

Write(t) ==
    LET n == task[t].n
        r == RecOf(t)
    IN  /\ At(t, "write")
        /\ row' = IF \/ KindOf(t) \in {"favorite", "station", "comment"}
                     \/ KindOf(t) = "reaction" /\ row[r] = 0
                  THEN [row EXCEPT ![r] = n] ELSE row
        /\ plays' = IF KindOf(t) = "status" THEN plays \cup {n} ELSE plays
        /\ UNCHANGED <<logVars, notes, userVars, lives, errors>>
        /\ CASE KindOf(t) = "comment" ->
                    Goto(t, "unnotify") /\ UNCHANGED <<handled, firehoseVars>>
             [] KindOf(t) = "reaction" /\ OpOf(t) = "create" ->
                    Goto(t, "actor") /\ UNCHANGED <<handled, firehoseVars>>
             [] OTHER -> Indexed(t)

\* fanoutCommentNotifications: the comment's notifications are rebuilt.  Whether its
\* station is a custom one, so that the owner is looked up, is not tracked.
Unnotify(t) ==
    /\ At(t, "unnotify")
    /\ notes' = [notes EXCEPT ![RecOf(t)] = {}]
    /\ Goto(t, "owner") \/ Goto(t, "notify")
    /\ UNCHANGED <<logVars, row, plays, userVars, lives, handled, errors, firehoseVars>>

\* Neither is whether the owner's record is indexed, nor whether the owner is the
\* author or mentioned.
Owner(t) ==
    /\ At(t, "owner")
    /\ Goto(t, "notify") \/ Goto(t, "notifyOwner")
    /\ UNCHANGED <<logVars, indexVars, firehoseVars>>

\* Fault: a redundant delivery leaves the notifications to the first one.
Recipients_FirstOnly(t) ==
    IF task[t].n \in handled THEN {}
    ELSE Mention[task[t].n] \cup IF At(t, "notifyOwner") THEN {"owner"} ELSE {}

\* mentionedDids, and the owner of the station.
Recipients(t) ==
    Mention[task[t].n] \cup IF At(t, "notifyOwner") THEN {"owner"} ELSE {}

Notify(t) ==
    /\ At(t, "notify") \/ At(t, "notifyOwner")
    /\ notes' = [notes EXCEPT ![RecOf(t)] = @ \cup Recipients(t)]
    /\ UNCHANGED <<logVars, row, plays, userVars, lives, errors>>
    /\ IF OpOf(t) = "create" THEN Goto(t, "actor") /\ UNCHANGED <<handled, firehoseVars>>
                             ELSE Indexed(t)

\* getActorInfo, then publishLive.
Broadcast(t) ==
    /\ At(t, "actor")
    /\ lives' = [lives EXCEPT ![task[t].n] = @ + 1]
    /\ UNCHANGED <<logVars, tableVars, userVars, errors>>
    /\ Indexed(t)

Delete(t) ==
    /\ At(t, "delete")
    /\ row' = [row EXCEPT ![RecOf(t)] = 0]
    /\ UNCHANGED <<logVars, notes, plays, userVars, lives, errors>>
    /\ IF KindOf(t) = "comment"
       THEN Goto(t, "denotify") /\ UNCHANGED <<handled, firehoseVars>>
       ELSE Indexed(t)

Denotify(t) ==
    /\ At(t, "denotify")
    /\ notes' = [notes EXCEPT ![RecOf(t)] = {}]
    /\ UNCHANGED <<logVars, row, plays, userVars, lives, errors>>
    /\ Indexed(t)

\* A query fails: handleEvent logs it and goes on to the mirror.
Fail(t) ==
    /\ task[t].pc \notin {"idle", "embed", "profile"}
    /\ errors < MaxError
    /\ errors' = errors + 1
    /\ UNCHANGED <<logVars, tableVars, userVars, lives, handled>>
    /\ Forward(t)

\* getActorInfo, then enqueueFirehoseEmbed; an error is logged.
Embed(t) ==
    /\ At(t, "embed")
    /\ task' = [task EXCEPT ![t] = Idle]
    /\ \/ Enqueue(KeyOf(task[t].n)) /\ UNCHANGED errors
       \/ errors < MaxError /\ errors' = errors + 1 /\ UNCHANGED queue
    /\ UNCHANGED <<logVars, tableVars, userVars, lives, handled,
                   seen, flights, posted, forgotten, faults>>

TaskStep(t) ==
    \/ Cached(t)
    \/ Profile(t)
    \/ UpsertUser(t)
    \/ Write(t)
    \/ Unnotify(t)
    \/ Owner(t)
    \/ Notify(t)
    \/ Broadcast(t)
    \/ Delete(t)
    \/ Denotify(t)
    \/ Fail(t)
    \/ Embed(t)

Mirror == FirehoseStep /\ UNCHANGED <<logVars, task, indexVars>>

Next ==
    \/ \E h \in Host, t \in Slot : Deliver(h, t)
    \/ \E t \in Slot : TaskStep(t)
    \/ BackfillSelect
    \/ BackfillUpdate
    \/ Mirror

Spec == Init /\ [][Next]_vars
-----------------------------------------------------------------------------
Keys == {KeyOf(n) : n \in DOMAIN log}

TypeOK ==
    /\ kind \in [Rec -> Kind]
    /\ log \in Logs
    /\ pos \in [Host -> 1..Len(log) + 1]
    /\ task \in [Slot -> [n : 0..Len(log), pc : Pc]]
    /\ row \in [Rec -> 0..Len(log)]
    /\ notes \in [Rec -> SUBSET (Actor \cup {"owner"})]
    /\ plays \subseteq DOMAIN log
    /\ user \in User
    /\ enriched \in BOOLEAN
    /\ backfill \in {"todo", "found", "done"}
    /\ lives \in [Commits -> Nat]
    /\ handled \subseteq DOMAIN log
    /\ errors \in 0..MaxError
    /\ Len(seen) <= SeenMax
    /\ Len(queue) <= QueueMax + MaxFlights * PerMessage
    /\ DOMAIN flights = Post

\* A handle in the profile cache is never lost to a failed lookup, whatever the
\* handlers of the same author interleave (consumer.ts:74-84).
HandleNeverBlanked == [][user = "good" => user' = "good"]_user

\* Of every record version at most one embed is under way or posted, in spite of
\* redundant hosts, rate limits and failed posts; another one only after the key has
\* left the window of claimed keys (firehose.ts:35-40, 50-68, 80-90).
MirroredOnce ==
    \A key \in Keys :
        LET building == {t \in Slot : At(t, "embed") /\ KeyOf(task[t].n) = key}
            flying   == {x \in Post \X (1..PerMessage) :
                            x[2] \in DOMAIN flights[x[1]] /\ flights[x[1]][x[2]] = key}
        IN  Cardinality(building) + Copies(key, queue) + Cardinality(flying) + posted[key]
            <= 1 + forgotten[key]

Settled ==
    /\ \A h \in Host : pos[h] > Len(log)
    /\ \A t \in Slot : task[t].pc \in {"idle", "embed"}
    /\ errors = 0

\* A record that was written once is indexed, with all its notifications, when the
\* deliveries of all hosts are over: rebuilding the notifications of one comment in
\* several handlers at once leaves them complete, a failed profile lookup costs no
\* row, and a comment or reaction was broadcast to the listeners at least once
\* (consumer.ts:237-289, 355-369).
WrittenOnceIsIndexed ==
    Settled => \A n \in DOMAIN log :
        (\A m \in DOMAIN log : log[m].rec = log[n].rec => m = n) =>
            CASE kind[log[n].rec] = "status"  -> n \in plays
              [] kind[log[n].rec] = "comment" -> /\ row[log[n].rec] = n /\ lives[n] > 0
                                                 /\ Mention[n] \subseteq notes[log[n].rec]
              [] OTHER -> /\ row[log[n].rec] = n
                          /\ kind[log[n].rec] = "reaction" => lives[n] > 0

\* Duplicate events across hosts are harmless: a handler of a commit that was
\* indexed before changes nothing in the index (README.md:146-147).
DuplicatesHarmless ==
    [][\A t \in Slot :
          task[t].n \in handled /\ task'[t] # task[t] => UNCHANGED <<row, plays>>]_vars
=============================================================================
