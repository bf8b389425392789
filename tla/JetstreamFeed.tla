---------------------------- MODULE JetstreamFeed ----------------------------
(***************************************************************************)
(* How the Jetstream consumer (apps/api/src/jetstream/consumer.ts) gets    *)
(* the commits of the network: one connection per Jetstream host, all      *)
(* delivering the same commits, one cursor for all of them, persisted      *)
(* every five seconds and read back when the process starts.               *)
(*                                                                         *)
(* A commit is its place in the order of publication, and the commits are  *)
(* a clock: one per tick.  A host stamps a commit with a time of its own   *)
(* (consumer.ts:441-442, "time_us differs per host"), so many ticks ahead  *)
(* of the others.  A handler (handleEvent) is in flight from the message   *)
(* that starts it to its last await; what it does to the index is the      *)
(* subject of JetstreamIndex.                                              *)
(***************************************************************************)
EXTENDS Integers, FiniteSets

CONSTANTS
    Host,     \* Jetstream hosts (env.JETSTREAM_HOSTS)
    MaxSkew,  \* how far the hosts' stamps of one commit are apart at most
    Skew,     \* [Host -> 0..MaxSkew]: how far each host's time_us is ahead
    MaxLog,   \* bound: commits that are ever published
    MaxDrop,  \* bound: connections that break
    MaxCrash  \* bound: restarts of the consumer

ASSUME JetstreamFeedAssumption ==
    /\ Host # {}
    /\ MaxSkew \in Nat
    /\ Skew \in [Host -> 0..MaxSkew]
    /\ MaxLog \in Nat \ {0}
    /\ MaxDrop \in Nat
    /\ MaxCrash \in Nat

VARIABLES
    published, \* commits published so far: 1..published
    conn,      \* [Host -> ConnState]: "new" before the first connection
    next,      \* [Host -> commit the connection delivers next]
    cursor,    \* the module variable `cursor`, 0 if none
    saved,     \* the row of jetstream_cursor, 0 if none
    base,      \* the commit whose stamp the service first resumed from, 0 if none
    received,  \* commits handed to a handler
    working,   \* handlers in flight: the connection and the commit
    done,      \* commits a handler of which ended
    drops, crashes

vars == <<published, conn, next, cursor, saved, base, received, working, done,
          drops, crashes>>

ConnState == {"new", "up", "down"}
Commits   == 1..MaxLog

\* time_us of a commit, as a host stamps it.
Stamp(h, n) == n + Skew[h]

Later(a, b)   == IF a > b THEN a ELSE b
Earlier(a, b) == IF a < b THEN a ELSE b

Init ==
    /\ published \in {0, 1}      \* a first deployment, or a consumer that resumes
    /\ conn = [h \in Host |-> "new"]
    /\ next = [h \in Host |-> 1]
    /\ cursor \in IF published = 0 THEN {0} ELSE {Stamp(h, published) : h \in Host}
    /\ saved = cursor
    /\ base = published
    /\ received = {}
    /\ working = {}
    /\ done = {}
    /\ drops = 0
    /\ crashes = 0

\* Somebody writes a record.
Publish ==
    /\ published < MaxLog
    /\ published' = published + 1
    /\ UNCHANGED <<conn, next, cursor, saved, base, received, working, done, drops, crashes>>

\* Faults: the subscription carries no cursor; it rewinds to before the first commit.
FirstWanted_Live(h) == {published + 1}
FirstWanted_TooEarly(h) ==
    IF cursor = 0 THEN {published + 1} ELSE {cursor - Skew[h] - 1}

\* subscribeUrl: without a cursor a host sends what comes, with one it replays the
\* commits it stamped from there on; whether that includes the cursor itself, and
\* that a cursor ahead of a host's clock means "from now on", is up to the host.
FirstWanted(h) ==
    IF cursor = 0 THEN {published + 1}
    ELSE {Earlier(Later(1, cursor - Skew[h] + k), published + 1) : k \in {0, 1}}

\* Fault: one "closed" flag for all hosts, which a closed connection sets for good.
MayConnect_OneFlag(h) == conn[h] = "new" /\ \A g \in Host : conn[g] # "down"

\* When the consumer starts, and three seconds after a connection closed.
MayConnect(h) == conn[h] \in {"new", "down"}

Connect(h) ==
    /\ MayConnect(h)
    /\ conn' = [conn EXCEPT ![h] = "up"]
    /\ \E n \in FirstWanted(h) : next' = [next EXCEPT ![h] = n]
    /\ UNCHANGED <<published, cursor, saved, base, received, working, done, drops, crashes>>

Drop(h) ==
    /\ conn[h] = "up" /\ drops < MaxDrop
    /\ conn' = [conn EXCEPT ![h] = "down"]
    /\ drops' = drops + 1
    /\ UNCHANGED <<published, next, cursor, saved, base, received, working, done, crashes>>

\* A message: handleEvent advances the cursor and runs up to its first await.
Deliver(h) ==
    LET n == next[h]
    IN  /\ conn[h] = "up" /\ n <= published
        /\ next' = [next EXCEPT ![h] = n + 1]
        /\ cursor' = Later(cursor, Stamp(h, n))
        /\ received' = received \cup {n}
        /\ working' = working \cup {<<h, n>>}
        /\ UNCHANGED <<published, conn, saved, base, done, drops, crashes>>

\* A handler's last await is over, whether it succeeded or its error was logged.
Finish(h, n) ==
    /\ <<h, n>> \in working
    /\ working' = working \ {<<h, n>>}
    /\ done' = done \cup {n}
    /\ UNCHANGED <<published, conn, next, cursor, saved, base, received, drops, crashes>>

\* persistCursor, every five seconds.
Persist ==
    /\ cursor > 0
    /\ saved' = cursor
    /\ UNCHANGED <<published, conn, next, cursor, base, received, working, done, drops, crashes>>

\* The consumer restarts: handlers and connections are gone, loadCursor runs.
Crash ==
    /\ crashes < MaxCrash
    /\ crashes' = crashes + 1
    /\ conn' = [h \in Host |-> "new"]
    /\ cursor' = saved
    /\ working' = {}
    /\ UNCHANGED <<published, next, saved, base, received, done, drops>>

HostStep(h) ==
    \/ Connect(h)
    \/ Drop(h)
    \/ Deliver(h)
    \/ \E n \in Commits : Finish(h, n)

Next == Publish \/ Persist \/ Crash \/ \E h \in Host : HostStep(h)

Spec == Init /\ [][Next]_vars

\* The reconnect timer fires, hosts deliver, handlers end.  Publishing, persisting
\* and failing are free.
Fairness ==
    \A h \in Host :
        /\ WF_vars(Connect(h))
        /\ WF_vars(Deliver(h))
        /\ \A n \in Commits : WF_vars(Finish(h, n))

FairSpec == Spec /\ Fairness
-----------------------------------------------------------------------------
\* Connections stay within the log, the cursor within the stamps of its commits.
TypeOK ==
    /\ published \in 0..MaxLog
    /\ conn \in [Host -> ConnState]
    /\ next \in [Host -> 1..MaxLog + 1]
    /\ cursor \in Nat
    /\ saved \in Nat
    /\ base \in Nat
    /\ received \subseteq Commits
    /\ working \subseteq Host \X Commits
    /\ done \subseteq Commits
    /\ drops \in Nat
    /\ crashes \in Nat

\* The shared cursor passes no more commits in a row than the hosts' stamps differ by:
\* of MaxSkew + 1 successive commits that every host stamped up to it, one was handed
\* to a handler, whichever host's stamps raised it and through reconnections and
\* restarts (consumer.ts:454, 465-470).  Alike stamps: it passes none.
NoCommitSkipped ==
    base > 0 =>
        \A n \in base + 1 .. published - MaxSkew :
            (\A h \in Host : Stamp(h, n + MaxSkew) <= cursor)
                => \E m \in n .. n + MaxSkew : m \in received

\* While the process lives some commit of every MaxSkew + 1 successive ones is handled in
\* the end, whichever connections break (consumer.ts:490-499).
EveryCommitHandled ==
    <>[](base > 0 =>
           \A n \in base + 1 .. published - MaxSkew :
               (\E m \in n .. n + MaxSkew : m \in done) \/ crashes > 0)

\* A consumer that resumed and caught up has processed every commit: the saved
\* cursor stands for commits processed, not merely received (consumer.ts:43
\* "Highest time_us processed across all connections (for resume).").
CaughtUp ==
    /\ \A h \in Host : conn[h] = "up" /\ next[h] > published
    /\ working = {}

ResumeLosesNothing ==
    CaughtUp /\ base > 0 => \A n \in base + 1 .. published : n \in done

\* Connecting to several hosts is redundancy (README.md:144-145 "connects to all four
\* official instances simultaneously ... for redundancy"): a process that never
\* restarted and caught up has processed every commit, whichever connections broke.  So it
\* is where all hosts stamp a commit alike, and not elsewhere.
ReconnectLosesNothing == crashes = 0 => ResumeLosesNothing
=============================================================================
