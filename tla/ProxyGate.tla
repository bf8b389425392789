------------------------------ MODULE ProxyGate ------------------------------
(***************************************************************************)
(* The routes of the media proxy (apps/media-proxy-ts: index.ts, simple.ts,*)
(* stream.ts) behind the fixed-window limiter (ratelimit.ts), and the TTL  *)
(* cache of TuneIn and ICY answers (cache.ts).  Time is in seconds.  A url *)
(* that is no http url is a client of its own route, "bad"; one key per    *)
(* route is cached.                                                        *)
(***************************************************************************)
EXTENDS Naturals, FiniteSets

CONSTANTS GateIp,      \* client addresses, as clientIp finds them
          GateLimit,   \* RATE_LIMIT
          GateWindow,  \* RATE_WINDOW
          GateTtl,     \* seconds an answer stays cached
          GateWait,    \* seconds until a request to an upstream is given up
          GateOpen,    \* bound: requests at once
          GateEnd      \* bound: the clock

\* A window is positive: the code divides by it.  A negative limit refuses like 0 does.
ASSUME GateAssumption == GateLimit \in Nat /\ GateWindow \in Nat \ {0}
                          /\ GateTtl \in Nat /\ GateWait \in Nat

VARIABLES
    gateNow,     \* Date.now() / 1000
    gateCount,   \* counters: {[ip, end, n]}, one per slot
    gateCache,   \* table: [route -> entry, or NoEntry]
    gateCalls,   \* requests that await an upstream: [n, route, playlist, asked]
    gateHit,     \* the last answer from the cache: its entry and when it was given
    gatePassed   \* history: requests let through in this window, by ip

gateVars == <<gateNow, gateCount, gateCache, gateCalls, gateHit, gatePassed>>

Routes     == {"tunein", "icy", "image", "stream", "bad", "health", "none", "preflight"}
Counted    == Routes \ {"health", "none", "preflight"}
CacheRoute == {"tunein", "icy"}
NoEntry    == [good |-> FALSE, asked |-> 0, expiry |-> 0]
AtOnce     == {"bad", "health", "none", "preflight"}

GateInit ==
    /\ gateNow = 0
    /\ gateCount = {}
    /\ gateCache = [r \in CacheRoute |-> NoEntry]
    /\ gateCalls = {}
    /\ gateHit = [entry |-> NoEntry, now |-> 0]
    /\ gatePassed = [ip \in GateIp |-> 0]

WindowEnd == (gateNow \div GateWindow + 1) * GateWindow

\* The clock; a new window lets requests through anew. No request to an upstream outlasts
\* its timers: the signal of a fetch, the timers of the headers and of the scan for a title.
ClockTick ==
    /\ gateNow < GateEnd
    /\ \A c \in gateCalls : gateNow < c.asked + GateWait
    /\ gateNow' = gateNow + 1
    /\ gatePassed' = IF (gateNow + 1) % GateWindow = 0 THEN [ip \in GateIp |-> 0]
                                                        ELSE gatePassed
    /\ UNCHANGED <<gateCount, gateCache, gateCalls, gateHit>>

\* Fault: the sweep compares with the beginning of the window.
Ended_Begun(slot) == slot.end < gateNow + GateWindow

Ended(slot) == slot.end < gateNow

Sweep ==
    /\ \E slot \in gateCount : Ended(slot)
    /\ gateCount' = {slot \in gateCount : ~Ended(slot)}
    /\ UNCHANGED <<gateNow, gateCache, gateCalls, gateHit, gatePassed>>

\* check(): one more in the slot of this window.
Used(ip) == LET slots == {s \in gateCount : s.ip = ip /\ s.end = WindowEnd}
            IN  IF slots = {} THEN 0 ELSE (CHOOSE s \in slots : TRUE).n

\* (What is over the limit is counted once: bound.)
CountOne(ip) ==
    gateCount' = IF Used(ip) > GateLimit THEN gateCount
                 ELSE {s \in gateCount : s.ip # ip \/ s.end # WindowEnd}
                      \cup {[ip |-> ip, end |-> WindowEnd, n |-> Used(ip) + 1]}

\* cache.get: an entry that is still live.
Live(route) == route \in CacheRoute /\ gateCache[route].expiry > gateNow

\* Two requests for one key that both miss are two requests to the upstream.
FreeCall == CHOOSE n \in 1..GateOpen : \A c \in gateCalls : c.n # n

\* Where a request goes that the limiter let through: 204, 404, 200 or 400 at once, the
\* cache, or an upstream.
Forward(route) ==
    CASE route \in AtOnce -> UNCHANGED <<gateHit, gateCalls>>
      [] route \notin AtOnce /\ Live(route) ->
            /\ gateHit' = [entry |-> gateCache[route], now |-> gateNow]
            /\ UNCHANGED gateCalls
      [] OTHER ->
            /\ gateCalls' = gateCalls \cup
                   {[n |-> FreeCall, route |-> route, asked |-> gateNow,
                     playlist |-> route \in {"icy", "stream"}]}
            /\ UNCHANGED gateHit

\* A limited request is answered 429.
ProxyRequest == \E ip \in GateIp, route \in Routes :
    /\ Cardinality(gateCalls) < GateOpen
    /\ IF route \in Counted THEN CountOne(ip) ELSE UNCHANGED gateCount
    /\ IF route \in Counted /\ Used(ip) >= GateLimit
       THEN UNCHANGED <<gateHit, gateCalls, gatePassed>>
       ELSE /\ Forward(route)
            /\ gatePassed' = IF route \in Counted
                             THEN [gatePassed EXCEPT ![ip] = @ + 1] ELSE gatePassed
    /\ UNCHANGED <<gateNow, gateCache>>

\* A playlist is fetched first; what it does not name, or a failure, leaves the url.
Unwrap(route) == \E c \in gateCalls :
    /\ c.route = route /\ c.playlist
    /\ gateCalls' = (gateCalls \ {c}) \cup
                        {[c EXCEPT !.playlist = FALSE, !.asked = gateNow]}
    /\ UNCHANGED <<gateNow, gateCount, gateCache, gateHit, gatePassed>>

ResolveStream == Unwrap("icy")
ResolveTarget == Unwrap("stream")

\* TuneIn caches good answers only; a title that could not be read is cached as none.
Cachable(route, good) == (route = "tunein" /\ good) \/ route = "icy"

RouteAnswer(route, good) == \E c \in gateCalls :
    /\ c.route = route /\ ~c.playlist
    /\ LET entry == [good |-> good, asked |-> c.asked, expiry |-> gateNow + GateTtl]
       IN  gateCache' = IF Cachable(route, good)
                        THEN [gateCache EXCEPT ![route] = entry] ELSE gateCache
    /\ gateCalls' = gateCalls \ {c}
    /\ UNCHANGED <<gateNow, gateCount, gateHit, gatePassed>>

\* The upstream's answer, or 415, or 502; a title or none is good.
TuneIn == \E good \in BOOLEAN : RouteAnswer("tunein", good)
Icy    == RouteAnswer("icy", TRUE)
Image  == \E good \in BOOLEAN : RouteAnswer("image", good)
Stream == \E good \in BOOLEAN : RouteAnswer("stream", good)

GateNext ==
    \/ ClockTick \/ Sweep \/ ProxyRequest \/ ResolveStream \/ ResolveTarget
    \/ TuneIn \/ Icy \/ Image \/ Stream

GateSpec == GateInit /\ [][GateNext]_gateVars

-----------------------------------------------------------------------------
(* Properties.                                                             *)

\* No address gets more than the limit through in one window, whenever the sweep runs; what
\* the cache answers is good, and was asked of the upstream no longer ago than its time to
\* live and the timers of one request: of two concurrent misses (simple.ts:24-43, 88-93) the
\* one that answers last fills the cache, though it may have asked first.
GateHolds ==
    /\ \A ip \in GateIp : gatePassed[ip] <= GateLimit
    /\ gateHit.entry # NoEntry =>
           /\ gateHit.entry.good
           /\ gateHit.now < gateHit.entry.asked + GateWait + GateTtl
=============================================================================
