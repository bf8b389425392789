------------------------- MODULE JetstreamFeedProofs -------------------------
(***************************************************************************)
(* Proofs about JetstreamFeed, for any number of hosts and commits and any *)
(* stamps that differ by at most MaxSkew: its types, that the shared       *)
(* cursor passes at most MaxSkew commits in a row that were not received,  *)
(* and that nothing but a restart loses more.  Where the hosts stamp a     *)
(* commit alike (MaxSkew = 0) it is every commit.                          *)
(***************************************************************************)
EXTENDS JetstreamFeed, TLAPS

LEMMA NextInLog ==
    ASSUME TypeOK, NEW h \in Host, NEW n \in FirstWanted(h)
    PROVE  n \in 1 .. published + 1
<1>1. published \in 0..MaxLog /\ cursor \in Nat /\ Skew[h] \in Nat
    BY JetstreamFeedAssumption DEF TypeOK
<1>2. CASE cursor = 0
    BY <1>1, <1>2 DEF FirstWanted
<1>3. CASE cursor # 0
    <2>1. PICK k \in {0, 1} : n = Earlier(Later(1, cursor - Skew[h] + k), published + 1)
        BY <1>3 DEF FirstWanted
    <2> QED BY <1>1, <2>1 DEF Earlier, Later
<1> QED BY <1>2, <1>3

LEMMA TypeInit == Init => TypeOK
<1> SUFFICES ASSUME Init PROVE TypeOK
    OBVIOUS
<1>1. cursor \in Nat
    BY JetstreamFeedAssumption DEF Init, Stamp
<1> QED BY <1>1, JetstreamFeedAssumption DEF Init, TypeOK, ConnState

LEMMA TypeHostStep ==
    ASSUME TypeOK, NEW h \in Host, HostStep(h)
    PROVE  TypeOK'
<1>1. CASE Connect(h)
    <2>1. PICK n \in FirstWanted(h) : next' = [next EXCEPT ![h] = n]
        BY <1>1 DEF Connect
    <2>2. n \in 1 .. MaxLog + 1
        BY <2>1, NextInLog, JetstreamFeedAssumption DEF TypeOK
    <2> QED BY <1>1, <2>1, <2>2 DEF Connect, TypeOK, ConnState
<1>2. CASE Drop(h)
    BY <1>2 DEF Drop, TypeOK, ConnState
<1>3. CASE Deliver(h)
    <2>1. next[h] \in Commits
        BY <1>3, JetstreamFeedAssumption DEF Deliver, TypeOK, Commits
    <2>2. next[h] + 1 \in 1 .. MaxLog + 1
        BY <2>1, JetstreamFeedAssumption DEF Commits
    <2>3. Later(cursor, Stamp(h, next[h])) \in Nat
        BY <2>1, JetstreamFeedAssumption DEF Later, Stamp, TypeOK, Commits
    <2> QED BY <1>3, <2>1, <2>2, <2>3 DEF Deliver, TypeOK
<1>4. ASSUME NEW n \in Commits, Finish(h, n) PROVE TypeOK'
    BY <1>4 DEF Finish, TypeOK
<1> QED BY <1>1, <1>2, <1>3, <1>4 DEF HostStep

LEMMA TypeStep == TypeOK /\ [Next]_vars => TypeOK'
<1> SUFFICES ASSUME TypeOK, [Next]_vars PROVE TypeOK'
    OBVIOUS
<1>1. CASE Publish
    BY <1>1, JetstreamFeedAssumption DEF Publish, TypeOK
<1>2. CASE Persist
    BY <1>2 DEF Persist, TypeOK
<1>3. CASE Crash
    BY <1>3 DEF Crash, TypeOK, ConnState
<1>4. CASE UNCHANGED vars
    BY <1>4 DEF vars, TypeOK
<1> QED BY <1>1, <1>2, <1>3, <1>4, TypeHostStep DEF Next

\* The feed's variables keep their types: a connection is never asked for a commit
\* beyond the next one to be published (consumer.ts:465-470).
THEOREM TypeCorrect == Spec => []TypeOK
BY TypeInit, TypeStep, PTL DEF Spec

-----------------------------------------------------------------------------
(* What the cursor passes.  NoCommitSkipped alone is not inductive: it     *)
(* says nothing of the connections, which raise the cursor to whatever     *)
(* they deliver.  Each open connection must have no gap wider than MaxSkew *)
(* before its next commit, by its own deliveries or by those before the    *)
(* cursor it resumed from; and the cursor must be the stamp of a commit    *)
(* received, by whichever host: another host's stamp is MaxSkew away.      *)

\* Of MaxSkew + 1 successive commits after the resume point and before n, one was received.
NoGapBefore(n) ==
    \A m \in Commits :
        base < m /\ m + MaxSkew < n => \E k \in m .. m + MaxSkew : k \in received

\* c is some host's stamp of commit r, and there is no gap up to r.
Stands(c, r) ==
    /\ r \in received \/ r = base
    /\ \E g \in Host : c = Stamp(g, r)
    /\ NoGapBefore(r + 1)

FeedInv ==
    /\ TypeOK
    /\ base > 0 => /\ \E r \in 0..MaxLog : Stands(cursor, r)
                   /\ \E r \in 0..MaxLog : Stands(saved, r)
                   /\ \A h \in Host : conn[h] = "up" => NoGapBefore(next[h])

LEMMA FeedInvInit == Init => FeedInv
<1> SUFFICES ASSUME Init PROVE FeedInv
    OBVIOUS
<1>1. TypeOK
    BY TypeInit
<1>2. base = published /\ base \in {0, 1} /\ saved = cursor /\ MaxSkew \in Nat
    BY JetstreamFeedAssumption DEF Init
<1>3. ASSUME base > 0 PROVE base \in 0..MaxLog /\ Stands(cursor, base)
    <2>1. \E g \in Host : cursor = Stamp(g, base)
        BY <1>2, <1>3 DEF Init
    <2>2. NoGapBefore(base + 1)
        BY <1>2 DEF NoGapBefore, Commits
    <2> QED BY <1>1, <1>2, <2>1, <2>2 DEF Stands, TypeOK
<1>4. \A h \in Host : conn[h] # "up"
    BY DEF Init
<1> QED BY <1>1, <1>2, <1>3, <1>4 DEF FeedInv

\* A connection resumes at most MaxSkew commits after the one whose stamp the cursor is.
LEMMA ResumesNear ==
    ASSUME TypeOK, NEW h \in Host, NEW n \in FirstWanted(h), cursor # 0,
           NEW r \in 0..MaxLog, NEW g \in Host, cursor = Stamp(g, r)
    PROVE  n \in Nat /\ n <= r + MaxSkew + 1
<1>1. /\ published \in Nat /\ MaxSkew \in Nat /\ Skew[h] \in 0..MaxSkew
      /\ Skew[g] \in 0..MaxSkew /\ MaxLog \in Nat
    BY JetstreamFeedAssumption DEF TypeOK
<1>2. PICK k \in {0, 1} : n = Earlier(Later(1, cursor - Skew[h] + k), published + 1)
    BY DEF FirstWanted
<1>3. cursor = r + Skew[g]
    BY DEF Stamp
<1>4. n <= Later(1, cursor - Skew[h] + k)
    BY <1>1, <1>2, <1>3 DEF Earlier, Later
<1>5. Later(1, cursor - Skew[h] + k) <= r + MaxSkew + 1
    BY <1>1, <1>2, <1>3 DEF Later
<1>6. n \in Nat
    BY <1>1, NextInLog
<1> QED BY <1>1, <1>3, <1>4, <1>5, <1>6 DEF Later

\* So it leaves no wider gap than was there: what is between them holds r itself.
LEMMA ResumesWithoutGap ==
    ASSUME TypeOK, NEW r \in 0..MaxLog, r \in received \/ r = base, NoGapBefore(r + 1),
           NEW n \in Nat, n <= r + MaxSkew + 1
    PROVE  NoGapBefore(n)
<1>1. MaxSkew \in Nat /\ MaxLog \in Nat /\ base \in Nat
    BY JetstreamFeedAssumption DEF TypeOK
<1> SUFFICES ASSUME NEW m \in Commits, base < m, m + MaxSkew < n
             PROVE  \E k \in m .. m + MaxSkew : k \in received
    BY DEF NoGapBefore
<1>2. CASE m + MaxSkew < r + 1
    BY <1>2 DEF NoGapBefore
<1>3. CASE ~(m + MaxSkew < r + 1)
    <2>1. r \in m .. m + MaxSkew
        BY <1>1, <1>3 DEF Commits
    <2>2. r # base
        BY <1>1, <2>1 DEF Commits
    <2> QED BY <2>1, <2>2
<1> QED BY <1>2, <1>3

\* A message adds a commit: what was without gap stays so, and the commit delivered
\* closes the connection's own.
LEMMA GapsClose ==
    ASSUME TypeOK, NEW n \in Commits, received' = received \cup {n}, base' = base
    PROVE  /\ \A i \in Nat : NoGapBefore(i) => NoGapBefore(i)'
           /\ NoGapBefore(n) => NoGapBefore(n + 1)'
           /\ \A c \in Nat, r \in 0..MaxLog : Stands(c, r) => Stands(c, r)'
<1>1. MaxSkew \in Nat /\ MaxLog \in Nat /\ base \in Nat
    BY JetstreamFeedAssumption DEF TypeOK
<1>2. \A i \in Nat : NoGapBefore(i) => NoGapBefore(i)'
    BY DEF NoGapBefore
<1>3. ASSUME NoGapBefore(n) PROVE NoGapBefore(n + 1)'
    <2> SUFFICES ASSUME NEW m \in Commits, base < m, m + MaxSkew < n + 1
                 PROVE  \E k \in m .. m + MaxSkew : k \in received'
        BY DEF NoGapBefore
    <2>1. CASE m + MaxSkew < n
        BY <1>3, <2>1 DEF NoGapBefore
    <2>2. CASE ~(m + MaxSkew < n)
        <3>1. n \in m .. m + MaxSkew
            BY <1>1, <2>2 DEF Commits
        <3> QED BY <3>1
    <2> QED BY <2>1, <2>2
<1>4. ASSUME NEW c \in Nat, NEW r \in 0..MaxLog, Stands(c, r) PROVE Stands(c, r)'
    <2>1. NoGapBefore(r + 1)'
        BY <1>1, <1>2, <1>4 DEF Stands
    <2> QED BY <1>4, <2>1 DEF Stands
<1> QED BY <1>2, <1>3, <1>4

LEMMA FeedInvHostStep ==
    ASSUME FeedInv, TypeOK', NEW h \in Host, HostStep(h)
    PROVE  FeedInv'
<1>0. /\ TypeOK /\ base \in Nat /\ saved \in Nat /\ cursor \in Nat /\ published \in Nat
      /\ \A g \in Host : next[g] \in Nat
    BY JetstreamFeedAssumption DEF FeedInv, TypeOK
<1>1. CASE Connect(h)
    <2>1. PICK n \in FirstWanted(h) : next' = [next EXCEPT ![h] = n]
        BY <1>1 DEF Connect
    <2>2. /\ UNCHANGED <<cursor, saved, base, received>>
          /\ conn' = [conn EXCEPT ![h] = "up"]
        BY <1>1 DEF Connect
    <2>3. ASSUME base > 0 PROVE NoGapBefore(n)
        <3>1. PICK r \in 0..MaxLog : Stands(cursor, r)
            BY <2>3 DEF FeedInv
        <3>2. PICK g \in Host : cursor = Stamp(g, r)
            BY <3>1 DEF Stands
        <3>3. cursor # 0
            <4>1. r > 0
                BY <1>0, <2>3, <3>1, JetstreamFeedAssumption DEF Stands, TypeOK, Commits
            <4> QED BY <3>2, <4>1, JetstreamFeedAssumption DEF Stamp
        <3>4. n \in Nat /\ n <= r + MaxSkew + 1
            BY <1>0, <3>2, <3>3, ResumesNear
        <3> QED BY <1>0, <3>1, <3>4, ResumesWithoutGap DEF Stands
    <2>4. ASSUME base > 0, NEW g \in Host, conn'[g] = "up" PROVE NoGapBefore(next'[g])
        <3>1. CASE g = h
            BY <1>0, <2>1, <2>3, <2>4, <3>1 DEF TypeOK
        <3>2. CASE g # h
            BY <1>0, <2>1, <2>2, <2>4, <3>2 DEF FeedInv, TypeOK
        <3> QED BY <3>1, <3>2
    <2> QED BY <2>2, <2>4 DEF FeedInv, NoGapBefore, Stands
<1>2. CASE Drop(h)
    <2>1. /\ UNCHANGED <<cursor, saved, base, received, next>>
          /\ conn' = [conn EXCEPT ![h] = "down"]
        BY <1>2 DEF Drop
    <2>2. \A g \in Host : conn'[g] = "up" => conn[g] = "up"
        BY <1>0, <2>1 DEF TypeOK
    <2> QED BY <2>1, <2>2 DEF FeedInv, NoGapBefore, Stands
<1>3. CASE Deliver(h)
    <2>0. next[h] \in Commits
        BY <1>0, <1>3, JetstreamFeedAssumption DEF Deliver, TypeOK, Commits
    <2> PICK n \in Commits : n = next[h]
        BY <2>0
    <2>1. /\ conn[h] = "up" /\ n <= published
          /\ next' = [next EXCEPT ![h] = n + 1]
          /\ cursor' = Later(cursor, Stamp(h, n))
          /\ received' = received \cup {n}
          /\ UNCHANGED <<conn, saved, base>>
        BY <1>3 DEF Deliver
    <2>2. n \in Commits /\ n \in 0..MaxLog
        BY JetstreamFeedAssumption DEF Commits
    <2>3. ASSUME base > 0 PROVE NoGapBefore(n + 1)'
        BY <1>0, <2>1, <2>2, <2>3, GapsClose DEF FeedInv
    <2>4. ASSUME base > 0 PROVE \E r \in 0..MaxLog : Stands(cursor, r)'
        <3>1. CASE cursor' = cursor
            BY <1>0, <2>1, <2>2, <2>4, <3>1, GapsClose DEF FeedInv, Stands
        <3>2. CASE cursor' = Stamp(h, n)
            BY <2>1, <2>2, <2>3, <2>4, <3>2 DEF Stands
        <3> QED BY <2>1, <3>1, <3>2 DEF Later
    <2>5. ASSUME base > 0 PROVE \E r \in 0..MaxLog : Stands(saved, r)'
        BY <1>0, <2>1, <2>2, <2>5, GapsClose DEF FeedInv, Stands
    <2>6. ASSUME base > 0, NEW g \in Host, conn[g] = "up" PROVE NoGapBefore(next[g])'
        <3>1. CASE g = h
            <4>1. next'[g] = n + 1
                BY <1>0, <2>1, <3>1 DEF TypeOK
            <4> QED BY <2>3, <2>6, <4>1 DEF NoGapBefore
        <3>2. CASE g # h
            <4>1. next'[g] = next[g]
                BY <1>0, <2>1, <3>2 DEF TypeOK
            <4>2. \A m \in Commits :
                      base < m /\ m + MaxSkew < next[g] => \E k \in m .. m + MaxSkew : k \in received'
                BY <2>1, <2>6 DEF FeedInv, NoGapBefore
            <4> QED BY <2>1, <4>1, <4>2 DEF NoGapBefore
        <3> QED BY <3>1, <3>2
    <2> QED BY <2>1, <2>4, <2>5, <2>6 DEF FeedInv
<1>4. ASSUME NEW n \in Commits, Finish(h, n) PROVE FeedInv'
    BY <1>4 DEF Finish, FeedInv, NoGapBefore, Stands
<1> QED BY <1>1, <1>2, <1>3, <1>4 DEF HostStep

LEMMA FeedInvStep == FeedInv /\ [Next]_vars => FeedInv'
<1> SUFFICES ASSUME FeedInv, [Next]_vars PROVE FeedInv'
    OBVIOUS
<1>1. TypeOK'
    BY TypeStep DEF FeedInv
<1>2. CASE Publish
    BY <1>1, <1>2 DEF Publish, FeedInv, NoGapBefore, Stands
<1>3. CASE Persist
    BY <1>1, <1>3 DEF Persist, FeedInv, NoGapBefore, Stands
<1>4. CASE Crash
    <2>1. /\ cursor' = saved /\ conn' = [h \in Host |-> "new"]
          /\ UNCHANGED <<saved, base, received>>
        BY <1>4 DEF Crash
    <2>2. \A h \in Host : conn'[h] # "up"
        BY <2>1
    <2> QED BY <1>1, <2>1, <2>2 DEF FeedInv, NoGapBefore, Stands
<1>5. CASE UNCHANGED vars
    BY <1>1, <1>5 DEF vars, FeedInv, NoGapBefore, Stands
<1> QED BY <1>1, <1>2, <1>3, <1>4, <1>5, FeedInvHostStep DEF Next

\* Whatever the stamps of the hosts, the cursor the connections share passes at most
\* MaxSkew commits in a row that none of them delivered, through reconnections and
\* restarts (consumer.ts:454, 465-470).
THEOREM CursorPassesAtMostTheSkew == Spec => []NoCommitSkipped
<1>1. FeedInv => NoCommitSkipped
    <2> SUFFICES ASSUME FeedInv, base > 0, NEW n \in base + 1 .. published - MaxSkew,
                        \A h \in Host : Stamp(h, n + MaxSkew) <= cursor
                 PROVE  \E m \in n .. n + MaxSkew : m \in received
        BY DEF NoCommitSkipped
    <2>1. PICK r \in 0..MaxLog : Stands(cursor, r)
        BY DEF FeedInv
    <2>2. PICK g \in Host : cursor = Stamp(g, r)
        BY <2>1 DEF Stands
    <2>3. /\ MaxSkew \in Nat /\ Skew[g] \in Nat /\ MaxLog \in Nat /\ base \in Nat
          /\ published \in 0..MaxLog
        BY JetstreamFeedAssumption DEF FeedInv, TypeOK
    <2>4. n + MaxSkew < r + 1
        BY <2>2, <2>3 DEF Stamp
    <2>5. n \in Commits /\ base < n
        BY <2>3 DEF Commits
    <2> QED BY <2>1, <2>4, <2>5 DEF Stands, NoGapBefore
<1> QED BY <1>1, FeedInvInit, FeedInvStep, PTL DEF Spec

-----------------------------------------------------------------------------
(* What the restart costs.  ResumeLosesNothing fails because a restart     *)
(* drops the handlers of commits the saved cursor has passed, and where    *)
(* stamps differ also by a reconnection, ReconnectLosesNothing.  Until a   *)
(* restart, what was received is in the hands of a handler, or done; so a  *)
(* reconnection loses at most MaxSkew commits in a row.                    *)

\* While the process lives no handler is lost.
ReceivedIsHandled ==
    crashes = 0 => \A n \in received : n \in done \/ \E h \in Host : <<h, n>> \in working

\* Until a restart, of MaxSkew + 1 successive commits after the resume point one is done
\* or in the hands of a handler, or the last is still to be delivered by every connection:
\* by an open one because it has not come to it, by another because it will resume no
\* later.
NoCommitIsPast ==
    base > 0 /\ crashes = 0 =>
        \A n \in base + 1 .. published - MaxSkew :
            \/ \E m \in n .. n + MaxSkew :
                   m \in done \/ \E h \in Host : <<h, m>> \in working
            \/ \A h \in Host : IF conn[h] = "up" THEN next[h] <= n + MaxSkew
                               ELSE \A f \in FirstWanted(h) : f <= n + MaxSkew

\* A consumer that never restarted and has caught up processed one of every MaxSkew + 1
\* successive commits after the one it resumed from.
LosesAtMostTheSkew ==
    crashes = 0 /\ CaughtUp /\ base > 0 =>
        \A n \in base + 1 .. published - MaxSkew : \E m \in n .. n + MaxSkew : m \in done

LiveInv == FeedInv /\ ReceivedIsHandled

LEMMA HandledHostStep ==
    ASSUME ReceivedIsHandled, NEW h \in Host, HostStep(h)
    PROVE  ReceivedIsHandled'
<1>1. CASE Connect(h) \/ Drop(h)
    <2>1. UNCHANGED <<crashes, received, done, working>>
        BY <1>1 DEF Connect, Drop
    <2> QED BY <2>1 DEF ReceivedIsHandled
<1>2. CASE Deliver(h)
    <2>1. /\ received' = received \cup {next[h]} /\ working' = working \cup {<<h, next[h]>>}
          /\ UNCHANGED <<crashes, done>>
        BY <1>2 DEF Deliver
    <2> QED BY <2>1 DEF ReceivedIsHandled
<1>3. ASSUME NEW m \in Commits, Finish(h, m) PROVE ReceivedIsHandled'
    <2>1. /\ working' = working \ {<<h, m>>} /\ done' = done \cup {m}
          /\ UNCHANGED <<crashes, received>>
        BY <1>3 DEF Finish
    <2>2. ASSUME crashes = 0, NEW n \in received
          PROVE  n \in done' \/ \E g \in Host : <<g, n>> \in working'
        <3>1. CASE n = m \/ n \in done
            BY <2>1, <3>1
        <3>2. CASE n # m /\ n \notin done
            <4>1. PICK g \in Host : <<g, n>> \in working
                BY <2>2, <3>2 DEF ReceivedIsHandled
            <4>2. <<g, n>> # <<h, m>>
                BY <3>2
            <4> QED BY <2>1, <4>1, <4>2
        <3> QED BY <3>1, <3>2
    <2> QED BY <2>1, <2>2 DEF ReceivedIsHandled
<1> QED BY <1>1, <1>2, <1>3 DEF HostStep

LEMMA LiveInvStep == LiveInv /\ [Next]_vars => LiveInv'
<1> SUFFICES ASSUME LiveInv, [Next]_vars PROVE LiveInv'
    OBVIOUS
<1>1. FeedInv'
    BY FeedInvStep DEF LiveInv
<1>2. CASE Publish \/ Persist \/ UNCHANGED vars
    <2>1. UNCHANGED <<crashes, received, done, working>>
        BY <1>2 DEF Publish, Persist, vars
    <2> QED BY <1>1, <2>1 DEF LiveInv, ReceivedIsHandled
<1>3. CASE Crash
    <2>1. crashes' # 0
        BY <1>3 DEF Crash, LiveInv, FeedInv, TypeOK
    <2> QED BY <1>1, <2>1 DEF LiveInv, ReceivedIsHandled
<1> QED BY <1>1, <1>2, <1>3, HandledHostStep DEF LiveInv, Next

LEMMA LiveInvInit == Init => LiveInv
BY FeedInvInit DEF Init, LiveInv, ReceivedIsHandled

\* A window none of whose commits was received ends ahead of every connection.
LEMMA UnreceivedIsAhead ==
    ASSUME FeedInv, base > 0, NEW n \in base + 1 .. published - MaxSkew,
           \A m \in n .. n + MaxSkew : m \notin received
    PROVE  \A h \in Host : IF conn[h] = "up" THEN next[h] <= n + MaxSkew
                           ELSE \A f \in FirstWanted(h) : f <= n + MaxSkew
<1>1. /\ base \in Nat /\ cursor \in Nat /\ published \in 0..MaxLog /\ MaxSkew \in Nat
      /\ MaxLog \in Nat /\ TypeOK /\ \A h \in Host : next[h] \in Nat /\ Skew[h] \in Nat
    BY JetstreamFeedAssumption DEF FeedInv, TypeOK
<1>2. n \in Commits /\ base < n
    BY <1>1 DEF Commits
<1>3. \A i \in Nat : NoGapBefore(i) => i <= n + MaxSkew
    BY <1>1, <1>2 DEF NoGapBefore, Commits
<1>4. PICK r \in 0..MaxLog : Stands(cursor, r)
    BY DEF FeedInv
<1>5. PICK g \in Host : cursor = Stamp(g, r)
    BY <1>4 DEF Stands
<1>6. r < n
    <2>1. r + 1 <= n + MaxSkew
        BY <1>1, <1>3, <1>4 DEF Stands
    <2>2. r \notin n .. n + MaxSkew
        BY <1>1, <1>2, <1>4 DEF Stands
    <2> QED BY <1>1, <1>2, <2>1, <2>2 DEF Commits
<1>7. cursor # 0
    <2>1. r > 0
        BY <1>1, <1>4, JetstreamFeedAssumption DEF Stands, TypeOK, Commits
    <2> QED BY <1>1, <1>5, <2>1 DEF Stamp
<1>8. ASSUME NEW h \in Host, conn[h] = "up" PROVE next[h] <= n + MaxSkew
    BY <1>1, <1>3, <1>8 DEF FeedInv
<1>9. ASSUME NEW h \in Host, NEW f \in FirstWanted(h) PROVE f <= n + MaxSkew
    <2>1. f \in Nat /\ f <= r + MaxSkew + 1
        BY <1>1, <1>5, <1>7, ResumesNear
    <2> QED BY <1>1, <1>2, <1>6, <2>1 DEF Commits
<1> QED BY <1>8, <1>9

\* Reconnections lose at most MaxSkew commits in a row (consumer.ts:465-499): while the
\* process lives, of any MaxSkew + 1 one is handled, being handled, or still ahead of
\* every connection. With the fairness of sockets and handlers this is why
\* EveryCommitHandled holds.
THEOREM ReconnectingLosesAtMostTheSkew == Spec => []NoCommitIsPast
<1>1. LiveInv => NoCommitIsPast
    <2> SUFFICES ASSUME LiveInv, base > 0, crashes = 0, NEW n \in base + 1 .. published - MaxSkew,
                        \A m \in n .. n + MaxSkew :
                            m \notin done /\ \A h \in Host : <<h, m>> \notin working
                 PROVE  \A h \in Host : IF conn[h] = "up" THEN next[h] <= n + MaxSkew
                                        ELSE \A f \in FirstWanted(h) : f <= n + MaxSkew
        BY DEF NoCommitIsPast
    <2>1. \A m \in n .. n + MaxSkew : m \notin received
        BY DEF LiveInv, ReceivedIsHandled
    <2> QED BY <2>1, UnreceivedIsAhead DEF LiveInv
<1> QED BY <1>1, LiveInvInit, LiveInvStep, PTL DEF Spec

\* Only a restart loses more than the stamps differ by (consumer.ts:43, 453-463); where
\* the hosts stamp a commit alike a consumer that never restarted loses nothing, and the
\* run that finds ResumeLosesNothing violated there needs its restart.
THEOREM OnlyRestartsLoseMore ==
    Spec => [](LosesAtMostTheSkew /\ (MaxSkew = 0 => ReconnectLosesNothing))
<1>1. LiveInv => LosesAtMostTheSkew
    <2> SUFFICES ASSUME LiveInv, crashes = 0, CaughtUp, base > 0,
                        NEW n \in base + 1 .. published - MaxSkew
                 PROVE  \E m \in n .. n + MaxSkew : m \in done
        BY DEF LosesAtMostTheSkew
    <2>1. PICK h \in Host : conn[h] = "up" /\ next[h] > published
        BY JetstreamFeedAssumption DEF CaughtUp
    <2>2. ~(next[h] <= n + MaxSkew)
        <3>1. base \in Nat /\ published \in Nat /\ next[h] \in Nat /\ MaxSkew \in Nat
            BY JetstreamFeedAssumption DEF LiveInv, FeedInv, TypeOK
        <3> QED BY <2>1, <3>1
    <2>3. \E m \in n .. n + MaxSkew : m \in received
        BY <2>1, <2>2, UnreceivedIsAhead DEF LiveInv
    <2> QED BY <2>3 DEF LiveInv, ReceivedIsHandled, CaughtUp
<1>2. LiveInv => (MaxSkew = 0 => ReconnectLosesNothing)
    <2> SUFFICES ASSUME LiveInv, MaxSkew = 0, crashes = 0, CaughtUp, base > 0,
                        NEW n \in base + 1 .. published
                 PROVE  n \in done
        BY DEF ReconnectLosesNothing, ResumeLosesNothing
    <2>1. base \in Nat /\ published \in Nat
        BY DEF LiveInv, FeedInv, TypeOK
    <2>2. n \in base + 1 .. published - MaxSkew
        BY <2>1
    <2>3. PICK m \in n .. n + MaxSkew : m \in done
        BY <1>1, <2>2 DEF LosesAtMostTheSkew
    <2> QED BY <2>1, <2>3
<1> QED BY <1>1, <1>2, LiveInvInit, LiveInvStep, PTL DEF Spec
=============================================================================
