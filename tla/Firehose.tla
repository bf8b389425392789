------------------------------ MODULE Firehose ------------------------------
(***************************************************************************)
(* The Discord mirror (apps/api/src/discord/firehose.ts): a window of the  *)
(* record versions already forwarded, which filters the deliveries of the  *)
(* redundant Jetstream hosts, and a bounded queue of embeds that a timer   *)
(* posts in batches.  An embed is the key of the record version it is      *)
(* about.  JetstreamIndex calls Claim and Enqueue.                         *)
(***************************************************************************)
EXTENDS Integers, Sequences, FiniteSets

CONSTANTS
    Key,        \* keys of record versions
    SeenMax,    \* DEDUP_MAX
    QueueMax,   \* MAX_QUEUE
    PerMessage, \* EMBEDS_PER_MESSAGE
    MaxFlights, \* bound: posts that wait for Discord's answer at once
    MaxFault    \* bound: claims that outlive DEDUP_TTL_MS, and 429 answers

ASSUME FirehoseAssumption ==
    /\ {SeenMax, QueueMax, PerMessage, MaxFlights} \subseteq Nat \ {0}
    /\ MaxFault \in Nat

VARIABLES
    seen,      \* the Map of claimed keys in insertion order: [key, live]
    queue,     \* embeds to post
    flights,   \* [1..MaxFlights -> batch posted and not answered yet, or <<>>]
    posted,    \* history: [Key -> Nat], how often Discord accepted an embed
    forgotten, \* history: [Key -> Nat], how often a key left the window
    faults

firehoseVars == <<seen, queue, flights, posted, forgotten, faults>>

Post == 1..MaxFlights

FirehoseInit ==
    /\ seen = <<>>
    /\ queue = <<>>
    /\ flights = [p \in Post |-> <<>>]
    /\ posted = [k \in Key |-> 0]
    /\ forgotten = [k \in Key |-> 0]
    /\ faults = 0

-----------------------------------------------------------------------------
Claimed(key) == \E i \in DOMAIN seen : seen[i].key = key /\ seen[i].live

\* Map.set keeps the place of a key that is still there, expired or not.
Stored(key) ==
    IF \E i \in DOMAIN seen : seen[i].key = key
    THEN [i \in DOMAIN seen |-> [seen[i] EXCEPT !.live = @ \/ seen[i].key = key]]
    ELSE Append(seen, [key |-> key, live |-> TRUE])

\* The entries of s at some places, in their order.
EntriesAt(s, places) ==
    [n \in 1..Cardinality(places) |->
        s[CHOOSE i \in places : Cardinality({j \in places : j <= i}) = n]]

\* Over DEDUP_MAX the expired entries go, then the oldest insertions.
Evicted(s) ==
    LET live   == {i \in DOMAIN s : s[i].live}
        newest == {i \in live : Cardinality({j \in live : j > i}) < SeenMax}
    IN  IF Len(s) <= SeenMax THEN s ELSE EntriesAt(s, newest)

LiveKeys(s) == {s[i].key : i \in {j \in DOMAIN s : s[j].live}}

\* claimFirstDelivery; the caller has seen that the key is not Claimed.
Claim(key) ==
    /\ seen' = Evicted(Stored(key))
    /\ forgotten' = [k \in Key |-> forgotten[k] + IF k \in LiveKeys(seen) \ LiveKeys(seen')
                                                 THEN 1 ELSE 0]

\* Fault: the queue is not capped.
Enqueue_Unbounded(key) == queue' = Append(queue, key)

\* enqueueFirehoseEmbed, with the webhook configured: over MAX_QUEUE it is dropped.
Enqueue(key) == queue' = IF Len(queue) >= QueueMax THEN queue ELSE Append(queue, key)

\* Five minutes after a claim.
Expire(i) ==
    /\ i \in DOMAIN seen /\ seen[i].live /\ faults < MaxFault
    /\ faults' = faults + 1
    /\ seen' = [seen EXCEPT ![i].live = FALSE]
    /\ forgotten' = [forgotten EXCEPT ![seen[i].key] = @ + 1]
    /\ UNCHANGED <<queue, flights, posted>>

\* The two-second timer: flush splices a batch off and posts it, whether or not
\* an earlier post has been answered.
Flush(p) ==
    LET k == IF Len(queue) < PerMessage THEN Len(queue) ELSE PerMessage
    IN  /\ queue # <<>> /\ flights[p] = <<>>
        /\ flights' = [flights EXCEPT ![p] = SubSeq(queue, 1, k)]
        /\ queue' = SubSeq(queue, k + 1, Len(queue))
        /\ UNCHANGED <<seen, posted, forgotten, faults>>

\* The answer to a batch, or that there is none.
Answered(p) == flights[p] # <<>> /\ flights' = [flights EXCEPT ![p] = <<>>]

Copies(key, s) == Cardinality({i \in DOMAIN s : s[i] = key})

\* Discord has the embeds of a batch.
Posted(p) == posted' = [k \in Key |-> posted[k] + Copies(k, flights[p])]

Accepted(p) ==
    /\ Answered(p) /\ Posted(p)
    /\ UNCHANGED <<seen, queue, forgotten, faults>>

\* 429: the batch goes back to the front.
RateLimited(p) ==
    /\ Answered(p)
    /\ faults < MaxFault
    /\ faults' = faults + 1
    /\ queue' = flights[p] \o queue
    /\ UNCHANGED <<seen, posted, forgotten>>

\* Fault: a post that failed is put back, like one that was rate limited.
Failed_Requeues(p) ==
    /\ Answered(p)
    /\ queue' = flights[p] \o queue
    /\ Posted(p) \/ UNCHANGED posted
    /\ faults < MaxFault
    /\ faults' = faults + 1
    /\ UNCHANGED <<seen, forgotten>>

\* Another status, or no answer: Discord may or may not have the batch; it is not
\* posted again.
Failed(p) ==
    /\ Answered(p)
    /\ Posted(p) \/ UNCHANGED posted
    /\ UNCHANGED <<seen, queue, forgotten, faults>>

FirehoseStep ==
    \/ \E i \in DOMAIN seen : Expire(i)
    \/ \E p \in Post : Flush(p) \/ Accepted(p) \/ RateLimited(p) \/ Failed(p)
=============================================================================
