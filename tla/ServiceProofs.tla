----------------------------- MODULE ServiceProofs -----------------------------
(***************************************************************************)
(* What holds in the services and the SDK for every number of clients,     *)
(* records and requests, every limit and every window.                     *)
(*                                                                         *)
(* The gate of the media proxy: every request that passed in a window was  *)
(* counted in the one slot its address has there, which no sweep removes   *)
(* before the window is over.                                              *)
(*                                                                         *)
(* The paged lists of the read API: a page is the whole stretch of time    *)
(* between its cursor and the next one, and stays so for what no write has *)
(* touched, however old the cached answer is that it comes from.           *)
(*                                                                         *)
(* The agents of an account: what a call has listed is right up to its     *)
(* cursor, whatever the others write meanwhile; a favorite and an          *)
(* unfavorite that are under way together know that they crossed.          *)
(*                                                                         *)
(* The bodies the proxy reads: what a listener was given, with what the    *)
(* chunk decoder and the wire still owe, is the payload after every turn   *)
(* of the decoder's loop, so after every push.                             *)
(***************************************************************************)
EXTENDS ProxyGate, ProxyStream, AppViewRead, RepoAgent, SequenceTheorems, FiniteSetTheorems,
        WellFoundedInduction, TLAPS

\* A set of naturals has a least element.
LEMMA LeastNatural ==
    ASSUME NEW T \in SUBSET Nat, T # {}
    PROVE  Min(T) \in T /\ \A n \in T : Min(T) <= n
  <1>1. PICK m \in T : \A n \in T : ~(<<n, m>> \in OpToRel(<, Nat))
    BY NatLessThanWellFounded, WFMin
  <1>2. \A n \in T : m <= n
    <2> SUFFICES ASSUME NEW n \in T PROVE m <= n
      OBVIOUS
    <2>1. ~(n < m)
      BY <1>1 DEF OpToRel
    <2> QED BY <2>1
  <1> QED BY <1>2 DEF Min

\* Induction, for a set that a property defines.
LEMMA InductionOn ==
    ASSUME NEW k \in Nat, NEW T \in SUBSET (0..k), 0 \in T,
           \A n \in 0..k - 1 : n \in T => n + 1 \in T
    PROVE  T = 0..k
  <1> SUFFICES ASSUME (0..k) \ T # {} PROVE FALSE
    OBVIOUS
  <1> DEFINE m == Min((0..k) \ T)
  <1>1. m \in (0..k) \ T /\ \A n \in (0..k) \ T : m <= n
    BY LeastNatural
  <1> HIDE DEF m
  <1>2. m # 0 /\ m - 1 \in 0..k - 1
    BY <1>1
  <1>3. m - 1 \in T
    BY <1>1, <1>2
  <1> QED BY <1>1, <1>2, <1>3

-----------------------------------------------------------------------------
(* The gate of the proxy (ProxyGate).                                      *)

GateSlot  == [ip : GateIp, end : Nat, n : Nat]
GateEntry == [good : BOOLEAN, asked : Nat, expiry : Nat]

GateTypeOK ==
    /\ gateNow \in Nat
    /\ gateCount \subseteq GateSlot
    /\ \A c \in gateCalls : c.asked \in Nat
    /\ gateCache \in [CacheRoute -> GateEntry]
    /\ gateHit \in [entry : GateEntry, now : Nat]
    /\ gatePassed \in [GateIp -> Nat]

\* An address has one slot in a window, and has been counted there for every request that
\* was let through.
PassedAreCounted ==
    /\ \A s, u \in gateCount : s.ip = u.ip /\ s.end = u.end => s = u
    /\ \A ip \in GateIp : gatePassed[ip] <= Used(ip) /\ gatePassed[ip] <= GateLimit

\* What is cached is good, and lives no longer than its time after a request may last, and no
\* request has lasted longer.
Kept(e) == e.good /\ e.expiry <= e.asked + GateWait + GateTtl
InTime(c) == c.asked <= gateNow /\ gateNow <= c.asked + GateWait
CacheIsGood ==
    /\ \A c \in gateCalls : InTime(c)
    /\ \A r \in CacheRoute : gateCache[r] # NoEntry => Kept(gateCache[r])
    /\ gateHit.entry # NoEntry => Kept(gateHit.entry) /\ gateHit.now < gateHit.entry.expiry

GateInv == GateTypeOK /\ PassedAreCounted /\ CacheIsGood

\* The quotient of a division is the only one.
LEMMA OneQuotient ==
    ASSUME NEW w \in Nat \ {0}, NEW p \in Nat, NEW q \in Nat, NEW r \in Nat, NEW s \in Nat,
           r < w, s < w, w * p + r = w * q + s
    PROVE  p = q
  <1>1. ASSUME NEW a \in Nat, NEW b \in Nat, NEW c \in Nat, NEW d \in Nat, c < w, a > b,
               w * a + c = w * b + d, d < w
        PROVE  FALSE
    <2>1. PICK k \in Nat : a = b + 1 + k
      <3>1. a - b - 1 \in Nat /\ a = b + 1 + (a - b - 1)
        BY <1>1
      <3> QED BY <3>1
    <2>2. w * a = w * b + w + w * k
      BY <2>1
    <2>3. w * k \in Nat /\ w * b \in Nat
      OBVIOUS
    <2> QED BY <1>1, <2>2, <2>3
  <1> QED BY <1>1

\* The end of a window is ahead, and stays until the clock reaches it.
LEMMA WindowsEnd ==
    ASSUME NEW now \in Nat
    PROVE  /\ (now \div GateWindow + 1) * GateWindow \in Nat
           /\ (now \div GateWindow + 1) * GateWindow > now
           /\ (now + 1) % GateWindow # 0 =>
                  (now + 1) \div GateWindow = now \div GateWindow
  <1> DEFINE w == GateWindow
             q == now \div w
             r == now % w
  <1>1. w \in Nat \ {0}
    BY GateAssumption
  <1>2. ASSUME NEW n \in Nat
        PROVE  n \div w \in Nat /\ n % w \in Nat /\ n % w < w
               /\ n = w * (n \div w) + (n % w) /\ w * (n \div w + 1) > n
    BY <1>1
  <1>3. q \in Nat /\ r \in Nat /\ r < w /\ now = w * q + r /\ w * (q + 1) > now
    BY <1>2
  <1>4. w * (q + 1) \in Nat /\ w * (q + 1) = w * q + w /\ (q + 1) * w = w * (q + 1)
    <2> HIDE DEF q, w
    <2> QED BY <1>1, <1>3
  <1>5. ASSUME (now + 1) % w # 0 PROVE (now + 1) \div w = q
    <2> DEFINE p == (now + 1) \div w
               s == (now + 1) % w
    <2>1. now + 1 \in Nat /\ p \in Nat /\ s \in Nat /\ s < w /\ now + 1 = w * p + s
      BY <1>2
    <2>2. s # 0
      BY <1>5
    <2> HIDE DEF p, s, q, r, w
    <2>3. CASE r + 1 < w
      BY <1>1, <1>3, <2>1, <2>3, OneQuotient DEF p
    <2>4. CASE r + 1 = w
      <3>1. now + 1 = w * (q + 1) + 0
        BY <1>1, <1>3, <1>4, <2>4
      <3>2. q + 1 \in Nat /\ 0 \in Nat /\ 0 < w
        BY <1>1, <1>3
      <3>3. p = q + 1
        BY <1>1, <2>1, <3>1, <3>2, OneQuotient
      <3> QED BY <1>1, <2>1, <2>2, <3>1, <3>3
    <2> QED BY <1>1, <1>3, <2>3, <2>4
  <1> QED BY <1>3, <1>4, <1>5

\* What an address has used of this window is in its slot, if it has one.
LEMMA UsedIsCounted ==
    ASSUME GateTypeOK, \A s, u \in gateCount : s.ip = u.ip /\ s.end = u.end => s = u,
           NEW ip \in GateIp
    PROVE  /\ Used(ip) \in Nat
           /\ \A s \in gateCount : s.ip = ip /\ s.end = WindowEnd => Used(ip) = s.n
           /\ (\A s \in gateCount : ~(s.ip = ip /\ s.end = WindowEnd)) => Used(ip) = 0
  <1> DEFINE slots == {s \in gateCount : s.ip = ip /\ s.end = WindowEnd}
  <1>1. CASE slots = {}
    BY <1>1 DEF Used
  <1>2. CASE slots # {}
    <2> PICK s \in gateCount : s.ip = ip /\ s.end = WindowEnd
      BY <1>2
    <2>1. slots = {s}
      OBVIOUS
    <2>2. Used(ip) = s.n
      <3>1. Used(ip) = (CHOOSE u \in slots : TRUE).n
        BY <1>2 DEF Used
      <3> QED BY <2>1, <3>1
    <2>3. s.n \in Nat
      BY DEF GateTypeOK, GateSlot
    <2> QED BY <2>1, <2>2, <2>3
  <1> QED BY <1>1, <1>2

\* The slots of a window that is not over count as before.
LEMMA UsedStays ==
    ASSUME GateTypeOK, GateTypeOK', NEW ip \in GateIp, WindowEnd' = WindowEnd,
           \A s, u \in gateCount : s.ip = u.ip /\ s.end = u.end => s = u,
           \A s, u \in gateCount' : s.ip = u.ip /\ s.end = u.end => s = u,
           \A s \in gateCount \cup gateCount' : s.ip = ip /\ s.end = WindowEnd =>
               (s \in gateCount <=> s \in gateCount')
    PROVE  Used(ip)' = Used(ip)
  <1>1. CASE \E s \in gateCount : s.ip = ip /\ s.end = WindowEnd
    <2> PICK s \in gateCount : s.ip = ip /\ s.end = WindowEnd
      BY <1>1
    <2>1. Used(ip) = s.n
      BY UsedIsCounted
    <2>2. s \in gateCount' /\ s.end = WindowEnd'
      OBVIOUS
    <2>3. {u \in gateCount' : u.ip = ip /\ u.end = WindowEnd'} = {s}
      BY <2>2
    <2>4. Used(ip)' = s.n
      BY <2>3 DEF Used
    <2> QED BY <2>1, <2>4
  <1>2. CASE \A s \in gateCount : ~(s.ip = ip /\ s.end = WindowEnd)
    <2>1. {u \in gateCount' : u.ip = ip /\ u.end = WindowEnd'} = {}
      BY <1>2
    <2>2. Used(ip)' = 0
      BY <2>1 DEF Used
    <2> QED BY <1>2, <2>2, UsedIsCounted
  <1> QED BY <1>1, <1>2

\* The clock, and a new window in which nobody has been let through yet.
LEMMA ClockKeepsTheGate == ASSUME GateInv, ClockTick PROVE GateInv'
  <1>1. GateTypeOK /\ PassedAreCounted /\ CacheIsGood
    BY DEF GateInv
  <1>2. GateTypeOK'
    BY <1>1 DEF ClockTick, GateTypeOK
  <1>3. CacheIsGood'
    <2>1. ASSUME NEW c \in gateCalls PROVE InTime(c)'
      BY <1>1, <2>1, GateAssumption DEF ClockTick, CacheIsGood, InTime, GateTypeOK
    <2> QED BY <1>1, <2>1 DEF ClockTick, CacheIsGood
  <1>4. \A s, u \in gateCount' : s.ip = u.ip /\ s.end = u.end => s = u
    BY <1>1 DEF ClockTick, PassedAreCounted
  <1>5. CASE (gateNow + 1) % GateWindow = 0
    <2>1. \A ip \in GateIp : gatePassed'[ip] = 0 /\ Used(ip)' \in Nat
      <3>1. \A ip \in GateIp : gatePassed'[ip] = 0
        BY <1>5 DEF ClockTick
      <3>2. ASSUME NEW ip \in GateIp PROVE Used(ip)' \in Nat
        <4> DEFINE slots == {s \in gateCount' : s.ip = ip /\ s.end = WindowEnd'}
        <4>1. CASE slots = {}
          BY <4>1 DEF Used
        <4>2. CASE slots # {}
          <5>1. (CHOOSE s \in slots : TRUE) \in gateCount'
            BY <4>2
          <5>2. (CHOOSE s \in slots : TRUE).n \in Nat
            BY <1>2, <5>1 DEF GateTypeOK, GateSlot
          <5> QED BY <4>2, <5>2 DEF Used
        <4> QED BY <4>1, <4>2
      <3> QED BY <3>1, <3>2
    <2> QED BY <1>2, <1>3, <1>4, <2>1, GateAssumption DEF GateInv, PassedAreCounted
  <1>6. CASE (gateNow + 1) % GateWindow # 0
    <2>1. WindowEnd' = WindowEnd
      BY <1>1, <1>6, WindowsEnd DEF ClockTick, WindowEnd, GateTypeOK
    <2>2. gateCount' = gateCount /\ gatePassed' = gatePassed
      BY <1>6 DEF ClockTick
    <2>3. \A ip \in GateIp : Used(ip)' = Used(ip)
      BY <2>1, <2>2 DEF Used
    <2> QED BY <1>1, <1>2, <1>3, <1>4, <2>2, <2>3 DEF GateInv, PassedAreCounted
  <1> QED BY <1>5, <1>6

\* The sweep takes slots of windows that are over, never of this one.
LEMMA SweepKeepsTheGate == ASSUME GateInv, Sweep PROVE GateInv'
  <1>1. GateTypeOK /\ PassedAreCounted /\ CacheIsGood
    BY DEF GateInv
  <1>2. GateTypeOK' /\ CacheIsGood'
    BY <1>1 DEF Sweep, GateTypeOK, CacheIsGood, InTime
  <1>3. WindowEnd' = WindowEnd /\ WindowEnd \in Nat /\ WindowEnd > gateNow
    BY <1>1, WindowsEnd DEF Sweep, WindowEnd, GateTypeOK
  <1>4. \A s, u \in gateCount' : s.ip = u.ip /\ s.end = u.end => s = u
    BY <1>1 DEF Sweep, PassedAreCounted
  <1>5. \A s \in gateCount : s.end = WindowEnd => s \in gateCount'
    BY <1>1, <1>3 DEF Sweep, Ended, GateTypeOK
  <1>6. ASSUME NEW ip \in GateIp PROVE Used(ip)' = Used(ip)
    <2>1. gateCount' \subseteq gateCount
      BY DEF Sweep
    <2> QED BY <1>1, <1>2, <1>3, <1>4, <1>5, <2>1, UsedStays DEF PassedAreCounted
  <1> QED BY <1>1, <1>2, <1>4, <1>6 DEF GateInv, PassedAreCounted, Sweep

\* A request is let through when its slot is not full, and counted in it.
LEMMA RequestKeepsTheGate == ASSUME GateInv, ProxyRequest PROVE GateInv'
  <1>1. GateTypeOK /\ PassedAreCounted /\ CacheIsGood
    BY DEF GateInv
  <1> PICK ip \in GateIp, route \in Routes :
    /\ IF route \in Counted THEN CountOne(ip) ELSE UNCHANGED gateCount
    /\ IF route \in Counted /\ Used(ip) >= GateLimit
       THEN UNCHANGED <<gateHit, gateCalls, gatePassed>>
       ELSE /\ Forward(route)
            /\ gatePassed' = IF route \in Counted
                             THEN [gatePassed EXCEPT ![ip] = @ + 1] ELSE gatePassed
    BY DEF ProxyRequest
  <1>2. UNCHANGED <<gateNow, gateCache>>
    BY DEF ProxyRequest
  <1>3. WindowEnd' = WindowEnd /\ WindowEnd \in Nat
    BY <1>1, <1>2, WindowsEnd DEF WindowEnd, GateTypeOK
  <1>4. Used(ip) \in Nat
    BY <1>1, UsedIsCounted DEF PassedAreCounted
  <1>5. gateHit' \in [entry : GateEntry, now : Nat]
        /\ (gateHit'.entry # NoEntry =>
               Kept(gateHit'.entry) /\ gateHit'.now < gateHit'.entry.expiry)
    <2>1. CASE UNCHANGED gateHit
      BY <1>1, <2>1 DEF GateTypeOK, CacheIsGood
    <2>2. CASE Live(route) /\ gateHit' = [entry |-> gateCache[route], now |-> gateNow]
      <3>1. route \in CacheRoute /\ gateCache[route].expiry > gateNow
        BY <2>2 DEF Live
      <3>2. gateCache[route] \in GateEntry /\ gateNow \in Nat
        BY <1>1, <3>1 DEF GateTypeOK
      <3> QED BY <1>1, <2>2, <3>1, <3>2 DEF CacheIsGood, GateEntry
    <2> QED BY <2>1, <2>2 DEF Forward
  <1>6. \A c \in gateCalls' : c.asked \in Nat /\ InTime(c)'
    <2> DEFINE new == [n |-> FreeCall, route |-> route, asked |-> gateNow,
                       playlist |-> route \in {"icy", "stream"}]
    <2>1. new.asked = gateNow
      OBVIOUS
    <2>2. gateCalls' \subseteq gateCalls \cup {new}
      BY DEF Forward
    <2> HIDE DEF new
    <2>3. ASSUME NEW c \in gateCalls' PROVE c.asked \in Nat /\ InTime(c)'
      <3>1. CASE c \in gateCalls
        BY <1>1, <1>2, <3>1 DEF GateTypeOK, CacheIsGood, InTime
      <3>2. CASE c = new
        BY <1>1, <1>2, <2>1, <3>2, GateAssumption DEF GateTypeOK, InTime
      <3> QED BY <2>2, <3>1, <3>2
    <2> QED BY <2>3
  <1>7. CASE route \in Counted
    <2> DEFINE new == [ip |-> ip, end |-> WindowEnd, n |-> Used(ip) + 1]
    <2>1. CASE Used(ip) > GateLimit
      <3>1. gateCount' = gateCount /\ gatePassed' = gatePassed
        BY <1>4, <1>7, <2>1, GateAssumption DEF CountOne
      <3>2. \A i \in GateIp : Used(i)' = Used(i)
        BY <1>3, <3>1 DEF Used
      <3>3. GateTypeOK'
        BY <1>1, <1>2, <1>5, <1>6, <3>1 DEF GateTypeOK
      <3> QED BY <1>1, <1>2, <1>5, <1>6, <3>1, <3>2, <3>3 DEF GateInv, PassedAreCounted, CacheIsGood
    <2>2. CASE ~(Used(ip) > GateLimit)
      <3>1. gateCount' = {s \in gateCount : s.ip # ip \/ s.end # WindowEnd} \cup {new}
        BY <1>7, <2>2 DEF CountOne
      <3>2. new \in GateSlot /\ new.ip = ip /\ new.end = WindowEnd /\ new.n = Used(ip) + 1
        BY <1>3, <1>4 DEF GateSlot
      <3> HIDE DEF new
      <3>3. gatePassed' \in [GateIp -> Nat]
            /\ \A i \in GateIp : i # ip => gatePassed'[i] = gatePassed[i]
            /\ gatePassed'[ip] = IF Used(ip) >= GateLimit THEN gatePassed[ip]
                                                          ELSE gatePassed[ip] + 1
        BY <1>1, <1>7 DEF GateTypeOK
      <3>4. GateTypeOK'
        BY <1>1, <1>2, <1>5, <1>6, <3>1, <3>2, <3>3 DEF GateTypeOK
      <3>5. \A s, u \in gateCount' : s.ip = u.ip /\ s.end = u.end => s = u
        BY <1>1, <3>1, <3>2 DEF PassedAreCounted
      <3>6. Used(ip)' = Used(ip) + 1
        <4>1. {s \in gateCount' : s.ip = ip /\ s.end = WindowEnd'} = {new}
          BY <1>3, <3>1, <3>2
        <4>2. Used(ip)' = new.n
          BY <4>1 DEF Used
        <4> QED BY <3>2, <4>2
      <3>7. ASSUME NEW i \in GateIp, i # ip PROVE Used(i)' = Used(i)
        BY <1>1, <1>3, <3>1, <3>2, <3>4, <3>5, <3>7, UsedStays DEF PassedAreCounted
      <3>8. ASSUME NEW i \in GateIp
            PROVE  gatePassed'[i] <= Used(i)' /\ gatePassed'[i] <= GateLimit
        <4>1. gatePassed[i] <= Used(i) /\ gatePassed[i] <= GateLimit /\ gatePassed[i] \in Nat
          BY <1>1 DEF PassedAreCounted, GateTypeOK
        <4>2. CASE i # ip
          BY <3>3, <3>7, <4>1, <4>2
        <4>3. CASE i = ip
          BY <1>4, <3>3, <3>6, <4>1, <4>3, GateAssumption
        <4> QED BY <4>2, <4>3
      <3>9. CacheIsGood'
        BY <1>1, <1>2, <1>5, <1>6 DEF CacheIsGood
      <3> QED BY <3>4, <3>5, <3>8, <3>9 DEF GateInv, PassedAreCounted
    <2> QED BY <2>1, <2>2
  <1>8. CASE route \notin Counted
    <2>1. gateCount' = gateCount /\ gatePassed' = gatePassed
      BY <1>8
    <2>2. \A i \in GateIp : Used(i)' = Used(i)
      BY <1>3, <2>1 DEF Used
    <2>3. GateTypeOK'
      BY <1>1, <1>2, <1>5, <1>6, <2>1 DEF GateTypeOK
    <2> QED BY <1>1, <1>2, <1>5, <1>6, <2>1, <2>2, <2>3 DEF GateInv, PassedAreCounted, CacheIsGood
  <1> QED BY <1>7, <1>8

\* An upstream answers: what is cached of it is good.
LEMMA AnswerKeepsTheGate ==
    ASSUME GateInv, ResolveStream \/ ResolveTarget \/ TuneIn \/ Icy \/ Image \/ Stream
    PROVE  GateInv'
  <1>1. GateTypeOK /\ PassedAreCounted /\ CacheIsGood
    BY DEF GateInv
  <1>2. UNCHANGED <<gateNow, gateCount, gateHit, gatePassed>>
    BY DEF ResolveStream, ResolveTarget, Unwrap, TuneIn, Icy, Image, Stream, RouteAnswer
  <1>3. PassedAreCounted'
    <2>1. \A ip \in GateIp : Used(ip)' = Used(ip)
      BY <1>2 DEF Used, WindowEnd
    <2> QED BY <1>1, <1>2, <2>1 DEF PassedAreCounted
  <1>4. ASSUME NEW route, Unwrap(route) PROVE GateInv'
    <2> PICK c \in gateCalls :
           /\ gateCalls' = (gateCalls \ {c}) \cup
                                {[c EXCEPT !.playlist = FALSE, !.asked = gateNow]}
           /\ gateCache' = gateCache
      BY <1>4 DEF Unwrap
    <2> DEFINE next == [c EXCEPT !.playlist = FALSE, !.asked = gateNow]
    <2>1. next.asked = gateNow \/ next.asked = c.asked
      OBVIOUS
    <2>2. gateCalls' = (gateCalls \ {c}) \cup {next}
      OBVIOUS
    <2> HIDE DEF next
    <2>3. ASSUME NEW d \in gateCalls' PROVE d.asked \in Nat /\ InTime(d)'
      <3>1. CASE d \in gateCalls
        BY <1>1, <1>2, <3>1 DEF GateTypeOK, CacheIsGood, InTime
      <3>2. CASE d = next
        BY <1>1, <1>2, <2>1, <3>2, GateAssumption DEF GateTypeOK, CacheIsGood, InTime
      <3> QED BY <2>2, <3>1, <3>2
    <2> QED BY <1>1, <1>2, <1>3, <2>3 DEF GateInv, GateTypeOK, CacheIsGood
  <1>5. ASSUME NEW route, NEW good \in BOOLEAN, RouteAnswer(route, good),
               route = "icy" => good
        PROVE  GateInv'
    <2> PICK c \in gateCalls :
           /\ gateCache' = IF Cachable(route, good)
                           THEN [gateCache EXCEPT ![route] =
                                    [good |-> good, asked |-> c.asked,
                                     expiry |-> gateNow + GateTtl]]
                           ELSE gateCache
           /\ gateCalls' = gateCalls \ {c}
      BY <1>5 DEF RouteAnswer
    <2> DEFINE entry == [good |-> good, asked |-> c.asked, expiry |-> gateNow + GateTtl]
    <2>1. c.asked \in Nat /\ InTime(c)
      BY <1>1 DEF GateTypeOK, CacheIsGood
    <2>2. Cachable(route, good) => route \in CacheRoute /\ entry \in GateEntry /\ Kept(entry)
      <3>1. Cachable(route, good) => good /\ route \in CacheRoute
        BY <1>5 DEF Cachable, CacheRoute
      <3>2. entry \in GateEntry
        BY <1>1, <2>1, GateAssumption DEF GateEntry, GateTypeOK
      <3>3. good => Kept(entry)
        BY <1>1, <2>1, GateAssumption DEF GateTypeOK, Kept, InTime
      <3> QED BY <3>1, <3>2, <3>3
    <2>3. gateCache' = IF Cachable(route, good)
                       THEN [gateCache EXCEPT ![route] = entry] ELSE gateCache
      OBVIOUS
    <2> HIDE DEF entry
    <2>4. gateCache' \in [CacheRoute -> GateEntry]
          /\ \A r \in CacheRoute : gateCache'[r] # NoEntry => Kept(gateCache'[r])
      BY <1>1, <2>2, <2>3 DEF GateTypeOK, CacheIsGood
    <2>5. \A d \in gateCalls' : d.asked \in Nat /\ InTime(d)'
      BY <1>1, <1>2 DEF GateTypeOK, CacheIsGood, InTime
    <2> QED BY <1>1, <1>2, <1>3, <2>4, <2>5 DEF GateInv, GateTypeOK, CacheIsGood
  <1> QED BY <1>4, <1>5 DEF ResolveStream, ResolveTarget, TuneIn, Icy, Image, Stream

\* The limiter and the cache hold (ratelimit.ts, cache.ts): in no window more requests of an
\* address are let through than the limit, whenever the sweep runs and windows begin, and
\* what the cache answers is good and no older than its time to live and the timers of one
\* request, however many misses overlap.
THEOREM GateIsHeld == GateSpec => []GateHolds
  <1>1. GateInit => GateInv
    <2> SUFFICES ASSUME GateInit PROVE GateInv
      OBVIOUS
    <2>1. NoEntry \in GateEntry
      BY DEF NoEntry, GateEntry
    <2>2. GateTypeOK
      <3>1. gateHit \in [entry : GateEntry, now : Nat]
        BY <2>1 DEF GateInit
      <3>2. gateCache \in [CacheRoute -> GateEntry]
        BY <2>1 DEF GateInit
      <3> QED BY <3>1, <3>2 DEF GateInit, GateTypeOK
    <2>3. \A ip \in GateIp : Used(ip) = 0
      BY DEF GateInit, Used
    <2> QED BY <2>2, <2>3, GateAssumption DEF GateInit, GateInv, PassedAreCounted, CacheIsGood
  <1>2. GateInv /\ [GateNext]_gateVars => GateInv'
    <2> SUFFICES ASSUME GateInv, [GateNext]_gateVars PROVE GateInv'
      OBVIOUS
    <2>1. CASE UNCHANGED gateVars
      BY <2>1 DEF gateVars, GateInv, GateTypeOK, PassedAreCounted, CacheIsGood, Used, WindowEnd,
                  InTime
    <2> QED BY <2>1, ClockKeepsTheGate, SweepKeepsTheGate, RequestKeepsTheGate,
               AnswerKeepsTheGate DEF GateNext
  <1>3. GateInv => GateHolds
    BY GateAssumption DEF GateInv, GateTypeOK, GateEntry, PassedAreCounted, CacheIsGood, Kept,
                          GateHolds
  <1> QED BY <1>1, <1>2, <1>3, PTL DEF GateSpec

-----------------------------------------------------------------------------
(* The paged lists (AppViewRead).                                          *)

Row    == [item : ReadItem, at : 1..ReadTime]
Answer == [cursor : 1..NoCursor, page : SUBSET Row, next : 1..NoCursor]

ReadTypeOK ==
    /\ readList \in Listings
    /\ readRows \subseteq Row
    /\ readFresh \subseteq ReadItem
    /\ readCursor \in 1..NoCursor
    /\ readShown \in [ReadItem -> Nat]
    /\ readDone \in BOOLEAN
    /\ readCache \subseteq Answer

\* Where plays are not grouped an item is one row.
OneRowEach == readList \notin Grouped => \A r, s \in readRows : r.item = s.item => r = s

\* A fresh item shares its time with no other.
FreshAreApart == \A r, s \in readRows :
    r.item \in readFresh /\ s.at = r.at => s.item = r.item

\* A page shows, of the fresh items, those of its stretch of time: from its cursor down to
\* the next one.
PageIsTrue(p) ==
    /\ p.next # NoCursor => p.next < p.cursor
    /\ \A r \in Row : r.item \in readFresh =>
           (r \in p.page <=> /\ r \in Newest(readRows) /\ r.at < p.cursor
                             /\ p.next = NoCursor \/ p.next <= r.at)

PagesAreTrue == \A p \in readCache : PageIsTrue(p)

\* A fresh item has been shown once when the walk is past it, and not before.
ShownWhenPassed == \A i \in readFresh :
    /\ \A r \in Newest(readRows) : r.item = i =>
           readShown[i] = IF readDone \/ r.at >= readCursor THEN 1 ELSE 0
    /\ (\A r \in readRows : r.item # i) => readShown[i] = 0

WalkInv == ReadTypeOK /\ OneRowEach /\ FreshAreApart /\ PagesAreTrue /\ ShownWhenPassed

LEMMA TimesAreNumbers ==
    /\ NoCursor \in Nat /\ \A t \in 1..NoCursor : t \in Nat /\ t <= NoCursor
    /\ \A t \in 1..ReadTime : t \in Nat /\ t < NoCursor /\ t \in 1..NoCursor
    /\ NoCursor \in 1..NoCursor
  BY ReadAssumption DEF NoCursor

\* The table is finite.
LEMMA RowsAreFinite == IsFiniteSet(Row)
  <1> DEFINE f == [r \in Row |-> <<r.item, r.at>>]
  <1>1. IsFiniteSet(ReadItem \X (1..ReadTime))
    <2>1. 1 \in Int /\ ReadTime \in Int
      BY ReadAssumption
    <2> QED BY <2>1, FS_Interval, FS_Product, ReadAssumption
  <1>2. f \in Injection(Row, ReadItem \X (1..ReadTime))
    BY DEF Row, Injection, IsInjective
  <1> QED BY <1>1, <1>2, FS_Injection

\* Every item that has rows has a newest one.
LEMMA NewestIsThere ==
    ASSUME NEW rows \in SUBSET Row, NEW r \in rows
    PROVE  \E n \in Newest(rows) : n.item = r.item
  <1> DEFINE T == {ReadTime - s.at : s \in {q \in rows : q.item = r.item}}
  <1>1. \A s \in rows : s.at \in Nat /\ s.at <= ReadTime
    BY ReadAssumption DEF Row
  <1>2. T \in SUBSET Nat /\ T # {}
    BY <1>1, ReadAssumption
  <1>3. PICK m \in T : \A n \in T : m <= n
    BY <1>2, LeastNatural
  <1>4. PICK n \in rows : n.item = r.item /\ m = ReadTime - n.at
    BY <1>3
  <1>5. ASSUME NEW s \in rows, s.item = n.item PROVE s.at <= n.at
    <2>1. m <= ReadTime - s.at
      BY <1>3, <1>4, <1>5
    <2> QED BY <1>1, <1>4, <2>1, ReadAssumption
  <1> QED BY <1>4, <1>5 DEF Newest

LEMMA NewestIsOne ==
    ASSUME NEW rows \in SUBSET Row, NEW r \in Newest(rows), NEW s \in Newest(rows),
           r.item = s.item
    PROVE  r = s
  <1>1. r \in Row /\ s \in Row /\ r.at <= s.at /\ s.at <= r.at
    BY DEF Newest
  <1>2. r.at = s.at
    BY <1>1, TimesAreNumbers DEF Row
  <1> QED BY <1>1, <1>2 DEF Row

\* All lists are read alike: by the newest rows of the items before the cursor.
LEMMA AnswersAreNewest ==
    ASSUME WalkInv
    PROVE  Answers = Pages(Before(Newest(readRows)))
  <1>1. CASE readList \in Grouped
    BY <1>1 DEF Grouped, Answers, GetRecentlyPlayed, GetGlobalRecentlyPlayed
  <1>2. CASE readList \notin Grouped
    <2>1. Newest(readRows) = readRows
      <3>1. \A r \in readRows : r.at <= r.at
        BY TimesAreNumbers DEF WalkInv, ReadTypeOK, Row
      <3> QED BY <1>2, <3>1 DEF WalkInv, OneRowEach, Newest
    <2>2. readList # "played" /\ readList # "global"
      BY <1>2 DEF Grouped
    <2> QED BY <2>1, <2>2 DEF Answers, GetFavorites, GetStations, GetComments, GetNotifications
  <1> QED BY <1>1, <1>2

\* The pages the database may answer are true.
LEMMA AnswersAreTrue ==
    ASSUME WalkInv, NEW p \in Answers
    PROVE  p \in Answer /\ p.cursor = readCursor /\ PageIsTrue(p)
  <1> DEFINE entries == Before(Newest(readRows))
             more    == Cardinality(entries) > ReadLimit
  <1>1. entries \subseteq Row /\ entries \subseteq readRows /\ readRows \subseteq Row
        /\ \A r : r \in entries <=> r \in Newest(readRows) /\ r.at < readCursor
    BY DEF WalkInv, ReadTypeOK, Before, Newest
  <1>2. IsFiniteSet(entries) /\ Cardinality(entries) \in Nat
    BY <1>1, RowsAreFinite, FS_Subset, FS_CardinalityType
  <1>3. PICK q \in SUBSET entries :
           /\ Cardinality(q) = IF more THEN ReadLimit ELSE Cardinality(entries)
           /\ \A r \in q, s \in entries \ q : s.at <= r.at
           /\ p = [cursor |-> readCursor, page |-> q,
                   next |-> IF more THEN Min({r.at : r \in q}) ELSE NoCursor]
    BY AnswersAreNewest DEF Pages
  <1>4. readCursor \in 1..NoCursor /\ readCursor \in Nat
    BY TimesAreNumbers DEF WalkInv, ReadTypeOK
  <1> HIDE DEF entries
  <1>5. CASE ~more
    <2>1. q = entries
      BY <1>2, <1>3, <1>5, FS_Subset
    <2>2. p.cursor = readCursor /\ p.page = entries /\ p.next = NoCursor
      BY <1>3, <1>5, <2>1
    <2>3. p \in Answer
      BY <1>1, <1>3, <1>4, <1>5, TimesAreNumbers DEF Answer
    <2>4. PageIsTrue(p)
      BY <1>1, <2>2 DEF PageIsTrue
    <2> QED BY <2>2, <2>3, <2>4
  <1>6. CASE more
    <2> DEFINE T == {r.at : r \in q}
    <2>1. q # {}
      <3>1. Cardinality(q) = ReadLimit /\ ReadLimit # 0
        BY <1>3, <1>6, ReadAssumption
      <3> QED BY <3>1, FS_EmptySet
    <2>2. \A r \in q : r \in Row /\ r.at \in 1..ReadTime /\ r.at \in Nat /\ r.at < readCursor
      BY <1>1, TimesAreNumbers DEF Row
    <2>3. T # {} /\ T \in SUBSET Nat
      BY <2>1, <2>2
    <2>4. Min(T) \in T /\ \A n \in T : Min(T) <= n
      BY <2>3, LeastNatural
    <2>5. PICK e \in q : e.at = Min(T)
      BY <2>4
    <2>6. \A r \in q : e.at <= r.at
      BY <2>4, <2>5
    <2>7. p.cursor = readCursor /\ p.page = q /\ p.next = e.at
      BY <1>3, <1>6, <2>5
    <2>8. e.at \in 1..NoCursor /\ e.at # NoCursor /\ e.at < readCursor /\ e.at \in Nat
      BY <2>2, TimesAreNumbers
    <2>9. p \in Answer
      <3>1. q \subseteq Row
        BY <1>1
      <3> QED BY <1>3, <1>4, <1>6, <2>5, <2>8, <3>1 DEF Answer
    <2>10. ASSUME NEW r \in Row, r.item \in readFresh
           PROVE  r \in q <=> r \in entries /\ e.at <= r.at
      <3>1. ASSUME r \in entries, e.at <= r.at, r \notin q PROVE FALSE
        <4>1. r.at <= e.at
          BY <1>3, <3>1
        <4>2. r.at = e.at
          BY <2>8, <3>1, <4>1, TimesAreNumbers DEF Row
        <4>3. e.item = r.item
          BY <1>1, <2>10, <3>1, <4>2 DEF WalkInv, FreshAreApart
        <4>4. e = r
          BY <1>1, <3>1, <4>3, NewestIsOne
        <4> QED BY <3>1, <4>4
      <3> QED BY <2>6, <3>1
    <2>11. PageIsTrue(p)
      BY <1>1, <2>7, <2>8, <2>10 DEF PageIsTrue
    <2> QED BY <2>7, <2>9, <2>11
  <1> QED BY <1>5, <1>6

\* A page shows a fresh item once when it has its stretch of time, and else not.
LEMMA PageShowsOnce ==
    ASSUME WalkInv, NEW p \in Answer, PageIsTrue(p), NEW i \in readFresh
    PROVE  LET n == Cardinality({r \in p.page : r.item = i})
           IN  /\ \A r \in Newest(readRows) : r.item = i =>
                      n = IF r.at < p.cursor /\ (p.next = NoCursor \/ p.next <= r.at)
                          THEN 1 ELSE 0
               /\ (\A r \in readRows : r.item # i) => n = 0
  <1> DEFINE shown == {r \in p.page : r.item = i}
  <1>1. readRows \subseteq Row /\ Newest(readRows) \subseteq readRows /\ p.page \subseteq Row
    BY DEF WalkInv, ReadTypeOK, Newest, Answer
  <1>2. \A r \in shown : r \in Newest(readRows) /\ r.item = i /\ r.at < p.cursor
                       /\ (p.next = NoCursor \/ p.next <= r.at)
    BY <1>1 DEF PageIsTrue
  <1>3. ASSUME NEW r \in Newest(readRows), r.item = i
        PROVE  Cardinality(shown)
               = IF r.at < p.cursor /\ (p.next = NoCursor \/ p.next <= r.at) THEN 1 ELSE 0
    <2>1. \A s \in shown : s = r
      BY <1>1, <1>2, <1>3, NewestIsOne
    <2>2. CASE r.at < p.cursor /\ (p.next = NoCursor \/ p.next <= r.at)
      <3>1. r \in shown
        BY <1>1, <1>3, <2>2 DEF PageIsTrue
      <3>2. shown = {r}
        BY <2>1, <3>1
      <3> QED BY <2>2, <3>2, FS_Singleton
    <2>3. CASE ~(r.at < p.cursor /\ (p.next = NoCursor \/ p.next <= r.at))
      <3>1. shown = {}
        BY <1>2, <2>1, <2>3
      <3> QED BY <2>3, <3>1, FS_EmptySet
    <2> QED BY <2>2, <2>3
  <1>4. ASSUME \A r \in readRows : r.item # i PROVE Cardinality(shown) = 0
    <2>1. shown = {}
      BY <1>1, <1>2, <1>4
    <2> QED BY <2>1, FS_EmptySet
  <1> QED BY <1>3, <1>4

LEMMA PageKeepsTheWalk ==
    ASSUME WalkInv, NextPage
    PROVE  WalkInv'
  <1>1. PICK p \in IF Hits = {} THEN Answers ELSE Hits :
           /\ ~readDone
           /\ readCache' = IF readList \in Cached THEN readCache \cup {p} ELSE {}
           /\ readShown' = [i \in ReadItem |->
                               readShown[i] + Cardinality({r \in p.page : r.item = i})]
           /\ readCursor' = p.next
           /\ readDone' = (p.next = NoCursor)
           /\ UNCHANGED <<readList, readRows, readFresh, readWrites>>
    BY DEF NextPage
  <1>2. p \in Answer /\ p.cursor = readCursor /\ PageIsTrue(p)
    <2>1. CASE Hits = {}
      BY <1>1, <2>1, AnswersAreTrue
    <2>2. CASE Hits # {}
      BY <1>1, <2>2 DEF Hits, WalkInv, ReadTypeOK, PagesAreTrue
    <2> QED BY <2>1, <2>2
  <1>3. \A i \in ReadItem : Cardinality({r \in p.page : r.item = i}) \in Nat
    <2> SUFFICES ASSUME NEW i \in ReadItem
                 PROVE  Cardinality({r \in p.page : r.item = i}) \in Nat
      OBVIOUS
    <2>1. {r \in p.page : r.item = i} \in SUBSET Row
      BY <1>2 DEF Answer
    <2> QED BY <2>1, RowsAreFinite, FS_Subset, FS_CardinalityType
  <1>4. ReadTypeOK'
    <2>1. readShown' \in [ReadItem -> Nat]
      BY <1>1, <1>3 DEF WalkInv, ReadTypeOK
    <2>2. readCache' \subseteq Answer /\ readCursor' \in 1..NoCursor /\ readDone' \in BOOLEAN
      BY <1>1, <1>2 DEF WalkInv, ReadTypeOK, Answer
    <2> QED BY <1>1, <2>1, <2>2 DEF WalkInv, ReadTypeOK
  <1>5. OneRowEach' /\ FreshAreApart'
    BY <1>1 DEF WalkInv, OneRowEach, FreshAreApart
  <1>6. PagesAreTrue'
    <2>1. \A q : PageIsTrue(q) => PageIsTrue(q)'
      BY <1>1 DEF PageIsTrue, Newest
    <2>2. \A q \in readCache' : PageIsTrue(q)
      BY <1>1, <1>2 DEF WalkInv, PagesAreTrue
    <2> QED BY <2>1, <2>2 DEF PagesAreTrue
  <1>7. ShownWhenPassed'
    <2> SUFFICES ASSUME NEW i \in readFresh
                 PROVE  /\ \A r \in Newest(readRows) : r.item = i =>
                              readShown'[i] = IF readDone' \/ r.at >= readCursor' THEN 1 ELSE 0
                        /\ (\A r \in readRows : r.item # i) => readShown'[i] = 0
      BY <1>1 DEF ShownWhenPassed, Newest
    <2> DEFINE n == Cardinality({r \in p.page : r.item = i})
    <2>1. i \in ReadItem /\ readShown'[i] = readShown[i] + n
      BY <1>1 DEF WalkInv, ReadTypeOK
    <2>2. (\A r \in readRows : r.item # i) => n = 0 /\ readShown[i] = 0
      BY <1>2, PageShowsOnce DEF WalkInv, ShownWhenPassed
    <2>3. ASSUME NEW r \in Newest(readRows), r.item = i
          PROVE  readShown'[i] = IF readDone' \/ r.at >= readCursor' THEN 1 ELSE 0
      <3>1. n = IF r.at < readCursor /\ (p.next = NoCursor \/ p.next <= r.at) THEN 1 ELSE 0
        BY <1>2, <2>3, PageShowsOnce
      <3>2. readShown[i] = IF r.at >= readCursor THEN 1 ELSE 0
        BY <1>1, <2>3 DEF WalkInv, ShownWhenPassed
      <3>3. r.at \in Nat /\ readCursor \in Nat /\ p.next \in Nat
        BY <1>2, TimesAreNumbers DEF WalkInv, ReadTypeOK, Newest, Row, Answer
      <3>4. p.next # NoCursor => p.next < readCursor
        BY <1>2 DEF PageIsTrue
      <3>5. readCursor' = p.next /\ readDone' = (p.next = NoCursor)
        BY <1>1
      <3> HIDE DEF n
      <3> DEFINE over == readDone' \/ r.at >= readCursor'
      <3>6. over <=> p.next = NoCursor \/ r.at >= p.next
        BY <3>5
      <3>7. readShown[i] + n = IF p.next = NoCursor \/ r.at >= p.next THEN 1 ELSE 0
        <4>1. CASE r.at >= readCursor
          BY <3>1, <3>2, <3>3, <3>4, <4>1
        <4>2. CASE r.at < readCursor
          BY <3>1, <3>2, <3>3, <4>2
        <4> QED BY <3>3, <4>1, <4>2
      <3> QED BY <2>1, <3>6, <3>7
    <2> QED BY <2>1, <2>2, <2>3
  <1> QED BY <1>4, <1>5, <1>6, <1>7 DEF WalkInv

LEMMA RewalkKeepsTheWalk ==
    ASSUME WalkInv, Rewalk
    PROVE  WalkInv'
  <1>1. ReadTypeOK'
    BY TimesAreNumbers DEF WalkInv, ReadTypeOK, Rewalk
  <1>2. OneRowEach' /\ FreshAreApart' /\ PagesAreTrue'
    BY DEF WalkInv, OneRowEach, FreshAreApart, PagesAreTrue, PageIsTrue, Newest, Rewalk
  <1>3. ShownWhenPassed'
    <2>1. \A r \in Newest(readRows) : ~(r.at >= NoCursor)
      BY TimesAreNumbers DEF Newest, WalkInv, ReadTypeOK, Row
    <2>2. \A i \in readFresh : readShown'[i] = 0
      BY DEF Rewalk, WalkInv, ReadTypeOK
    <2> QED BY <2>1, <2>2 DEF Rewalk, ShownWhenPassed, Newest
  <1> QED BY <1>1, <1>2, <1>3 DEF WalkInv

LEMMA ExpiryKeepsTheWalk ==
    ASSUME WalkInv, Expire
    PROVE  WalkInv'
  <1>1. readCache' \subseteq readCache
        /\ UNCHANGED <<readList, readRows, readFresh, readCursor, readShown, readDone>>
    BY DEF Expire
  <1> QED BY <1>1 DEF WalkInv, ReadTypeOK, OneRowEach, FreshAreApart, PagesAreTrue, PageIsTrue,
                      Newest, ShownWhenPassed

\* A write that leaves the rows of the fresh items alone leaves the walk right.
LEMMA WritesKeepTheWalk ==
    ASSUME WalkInv, readRows' \subseteq Row, readFresh' \subseteq readFresh,
           UNCHANGED <<readList, readCursor, readShown, readDone, readCache>>,
           OneRowEach', FreshAreApart',
           \A r \in Row : r.item \in readFresh' => (r \in readRows' <=> r \in readRows)
    PROVE  WalkInv'
  <1>1. ReadTypeOK'
    BY DEF WalkInv, ReadTypeOK
  <1>2. \A r \in Row : r.item \in readFresh' =>
            (r \in Newest(readRows') <=> r \in Newest(readRows))
    BY DEF Newest, WalkInv, ReadTypeOK
  <1>3. PagesAreTrue'
    <2>1. ASSUME NEW q, PageIsTrue(q) PROVE PageIsTrue(q)'
      <3> SUFFICES ASSUME NEW r \in Row, r.item \in readFresh'
                   PROVE  r \in q.page <=> /\ r \in Newest(readRows') /\ r.at < q.cursor
                                           /\ q.next = NoCursor \/ q.next <= r.at
        BY <2>1 DEF PageIsTrue, Newest
      <3> QED BY <1>2, <2>1 DEF PageIsTrue
    <2> QED BY <2>1 DEF WalkInv, PagesAreTrue
  <1>4. ShownWhenPassed'
    <2> SUFFICES ASSUME NEW i \in readFresh'
                 PROVE  /\ \A r \in Newest(readRows') : r.item = i =>
                              readShown[i] = IF readDone \/ r.at >= readCursor THEN 1 ELSE 0
                        /\ (\A r \in readRows' : r.item # i) => readShown[i] = 0
      BY DEF ShownWhenPassed, Newest
    <2>1. i \in readFresh
      OBVIOUS
    <2>2. \A r \in Newest(readRows') : r.item = i => r \in Newest(readRows)
      BY <1>2 DEF Newest
    <2>3. (\A r \in readRows' : r.item # i) => (\A r \in readRows : r.item # i)
      BY DEF WalkInv, ReadTypeOK
    <2> QED BY <2>1, <2>2, <2>3 DEF WalkInv, ShownWhenPassed
  <1> QED BY <1>1, <1>3, <1>4 DEF WalkInv

LEMMA IndexingKeepsTheWalk ==
    ASSUME WalkInv, IndexRow
    PROVE  WalkInv'
  <1>1. PICK i \in ReadItem, at \in 1..ReadTime :
           /\ readRows' = (IF readList \in Grouped THEN readRows
                           ELSE {r \in readRows : r.item # i}) \cup {[item |-> i, at |-> at]}
           /\ readFresh' = readFresh \ ({i} \cup {r.item : r \in {s \in readRows : s.at = at}})
           /\ UNCHANGED <<readList, readCursor, readShown, readDone, readCache>>
    BY DEF IndexRow
  <1> DEFINE new == [item |-> i, at |-> at]
  <1>2. new \in Row /\ new.item = i /\ new.at = at
    BY DEF Row
  <1>3. readRows \subseteq Row
    BY DEF WalkInv, ReadTypeOK
  <1>4. readRows' \subseteq readRows \cup {new}
        /\ \A r \in readRows : r.item # i => r \in readRows'
    BY <1>1
  <1>5. readFresh' \subseteq readFresh /\ i \notin readFresh'
        /\ \A r \in readRows : r.at = at => r.item \notin readFresh'
    BY <1>1
  <1>6. OneRowEach'
    <2>1. CASE readList \in Grouped
      BY <1>1, <2>1 DEF OneRowEach
    <2>2. CASE readList \notin Grouped
      <3>1. readRows' = {r \in readRows : r.item # i} \cup {new}
        BY <1>1, <2>2
      <3> HIDE DEF new
      <3> QED BY <1>1, <1>2, <2>2, <3>1 DEF WalkInv, OneRowEach
    <2> QED BY <2>1, <2>2
  <1> HIDE DEF new
  <1>7. FreshAreApart'
    BY <1>2, <1>4, <1>5 DEF WalkInv, FreshAreApart
  <1>8. \A r \in Row : r.item \in readFresh' => (r \in readRows' <=> r \in readRows)
    BY <1>2, <1>4, <1>5
  <1> QED BY <1>1, <1>2, <1>3, <1>4, <1>5, <1>6, <1>7, <1>8, WritesKeepTheWalk

LEMMA DeletionKeepsTheWalk ==
    ASSUME WalkInv, DeleteRow
    PROVE  WalkInv'
  <1>1. PICK d \in readRows :
           /\ readRows' = readRows \ {d} /\ readFresh' = readFresh \ {d.item}
           /\ UNCHANGED <<readList, readCursor, readShown, readDone, readCache>>
    BY DEF DeleteRow
  <1>2. readRows' \subseteq Row /\ readFresh' \subseteq readFresh
    BY <1>1 DEF WalkInv, ReadTypeOK
  <1>3. OneRowEach' /\ FreshAreApart'
    BY <1>1 DEF WalkInv, OneRowEach, FreshAreApart
  <1>4. \A r \in Row : r.item \in readFresh' => (r \in readRows' <=> r \in readRows)
    BY <1>1
  <1> QED BY <1>1, <1>2, <1>3, <1>4, WritesKeepTheWalk

LEMMA WalkBegins == ReadInit => WalkInv
  <1> SUFFICES ASSUME ReadInit PROVE WalkInv
    OBVIOUS
  <1>1. readRows \subseteq Row
    BY DEF ReadInit, Row
  <1>2. ReadTypeOK
    BY <1>1, TimesAreNumbers DEF ReadInit, ReadTypeOK
  <1>3. OneRowEach /\ FreshAreApart /\ PagesAreTrue
    BY DEF ReadInit, OneRowEach, FreshAreApart, PagesAreTrue
  <1>4. ShownWhenPassed
    <2>1. \A r \in Newest(readRows) : ~(r.at >= NoCursor)
      BY <1>1, TimesAreNumbers DEF Newest, Row
    <2>2. \A i \in readFresh : readShown[i] = 0
      BY DEF ReadInit
    <2> QED BY <2>1, <2>2 DEF ReadInit, ShownWhenPassed
  <1> QED BY <1>2, <1>3, <1>4 DEF WalkInv

LEMMA WalkStep == WalkInv /\ [ReadNext]_readVars => WalkInv'
  <1> SUFFICES ASSUME WalkInv, [ReadNext]_readVars PROVE WalkInv'
    OBVIOUS
  <1>1. CASE UNCHANGED readVars
    BY <1>1 DEF readVars, WalkInv, ReadTypeOK, OneRowEach, FreshAreApart, PagesAreTrue,
                PageIsTrue, Newest, ShownWhenPassed
  <1> QED BY <1>1, PageKeepsTheWalk, RewalkKeepsTheWalk, ExpiryKeepsTheWalk,
             IndexingKeepsTheWalk, DeletionKeepsTheWalk DEF ReadNext

LEMMA WalkIsRight == WalkInv => WalkShowsOnce
  <1> SUFFICES ASSUME WalkInv, NEW i \in readFresh
               PROVE  /\ readShown[i] <= 1
                      /\ (readDone /\ \E r \in readRows : r.item = i) => readShown[i] = 1
    BY DEF WalkShowsOnce
  <1>1. CASE \A r \in readRows : r.item # i
    <2>1. readShown[i] = 0
      BY <1>1 DEF WalkInv, ShownWhenPassed
    <2> QED BY <1>1, <2>1
  <1>2. CASE \E r \in readRows : r.item = i
    <2>1. PICK n \in Newest(readRows) : n.item = i
      BY <1>2, NewestIsThere DEF WalkInv, ReadTypeOK
    <2>2. readShown[i] = IF readDone \/ n.at >= readCursor THEN 1 ELSE 0
      BY <2>1 DEF WalkInv, ShownWhenPassed
    <2> QED BY <2>2
  <1> QED BY <1>1, <1>2

\* "Cursor paginates" (xrpc/index.ts:238): whoever walks a list meets what is left alone
\* once, whatever is indexed and deleted around it, from the table or from answers the
\* cache kept (cache.ts), unless it shares its time with another.
THEOREM ListsAreWalkedOnce == ReadSpec => []WalkShowsOnce
  <1>1. WalkInv => WalkShowsOnce
    BY WalkIsRight
  <1> QED BY <1>1, WalkBegins, WalkStep, PTL DEF ReadSpec

-----------------------------------------------------------------------------
(* The agents of an account (RepoAgent).                                   *)

Stations == {"s", "t"}
CallType == [op : {"none", "favorite", "unfavorite", "list"}, station : Stations,
             step : {"put", "list", "delete", "done"}, cursor : {0} \cup FavKeys,
             found : SUBSET FavKeys, kept : SUBSET FavKeys, crossed : BOOLEAN]

AgentTypeOK ==
    /\ favRecords \subseteq FavKeys
    /\ agentCall \in [Agent -> CallType]

\* The steps of a call: only a favorite puts, a list deletes nothing, and what is deleted
\* was found for the station.
StepIsIts(c) ==
    /\ c.op = "none" => c.step = "done"
    /\ c.step = "put" => c.op = "favorite" /\ c.found = {} /\ c.cursor = 0
    /\ c.step = "delete" => c.op # "list" /\ Doomed(c) # {}
    /\ c.op # "list" => c.found \subseteq Of(c.station)

StepsAreIts == \A a \in Agent : StepIsIts(agentCall[a])

\* A favorite and an unfavorite of one station that are under way crossed each other.
CrossingsShow == \A a, b \in Agent :
    Busy(a) /\ Busy(b) /\ agentCall[a].station = agentCall[b].station
        /\ Crossing(agentCall[a].op, agentCall[b].op)
    => agentCall[a].crossed

\* What the pages of a listing have passed: all of it when the call deletes.
Passed(c, records) == IF c.step = "delete" THEN records ELSE {k \in records : k <= c.cursor}

\* What a call has listed and found of the keys that passed: a favorite every old record of
\* its station, and its own is there; an unfavorite every record; a list what has stayed.
Listed(c, passed, records) ==
    /\ c.op = "favorite" => /\ Old \cap Of(c.station) \cap passed \subseteq c.found
                            /\ c.crossed \/ FavoriteRkey[c.station] \in records
    /\ c.op = "unfavorite" => c.crossed \/ Of(c.station) \cap passed \subseteq c.found
    /\ c.op = "list" => c.kept \cap c.found = c.kept \cap passed

Listing(c, records) ==
    c.step \in {"list", "delete"} => Listed(c, Passed(c, records), records)

ListingsAreRight == \A a \in Agent : Listing(agentCall[a], favRecords)

AgentInv == AgentTypeOK /\ StepsAreIts /\ CrossingsShow /\ ListingsAreRight

\* The keys of the favorites.
LEMMA StationKeys ==
    /\ DOMAIN FavoriteRkey = Stations
    /\ \A s \in Stations : /\ Of(s) \subseteq FavKeys /\ FavoriteRkey[s] \in Of(s)
                           /\ FavoriteRkey[s] \in FavKeys /\ FavoriteRkey[s] \notin Old
    /\ \A s, u \in Stations : FavoriteRkey[s] \in Of(u) => s = u
    /\ FavKeys \subseteq Nat /\ 0 \notin FavKeys /\ IsFiniteSet(FavKeys)
  <1>1. DOMAIN FavoriteRkey = Stations /\ FavoriteRkey["s"] = 2 /\ FavoriteRkey["t"] = 3
    BY DEF FavoriteRkey, Stations
  <1>2. /\ StationOf[1] = "s" /\ StationOf[2] = "s" /\ StationOf[3] = "t"
        /\ StationOf[4] = "s" /\ StationOf[5] = "t"
    BY DEF StationOf
  <1>3. Of("s") = {1, 2, 4} /\ Of("t") = {3, 5}
    BY <1>2 DEF Of, FavKeys
  <1>4. FavKeys \subseteq Nat /\ 0 \notin FavKeys /\ IsFiniteSet(FavKeys)
    <2>1. 1 \in Int /\ 5 \in Int
      OBVIOUS
    <2>2. IsFiniteSet(1..5)
      BY <2>1, FS_Interval
    <2>3. FavKeys \subseteq Nat /\ 0 \notin FavKeys
      BY DEF FavKeys
    <2> QED BY <2>2, <2>3 DEF FavKeys
  <1>5. Old = FavKeys \ {2, 3}
    BY <1>1 DEF Old, Stations
  <1> QED BY <1>1, <1>3, <1>4, <1>5 DEF Stations, FavKeys

\* A set of keys has a least and a greatest one.
LEMMA KeysHaveEnds ==
    ASSUME NEW keys \in SUBSET FavKeys, keys # {}
    PROVE  /\ Min(keys) \in keys /\ \A k \in keys : Min(keys) <= k
           /\ Max(keys) \in keys /\ \A k \in keys : k <= Max(keys)
  <1> DEFINE T == {5 - k : k \in keys}
  <1>1. \A k \in keys : k \in Nat /\ k <= 5
    BY DEF FavKeys
  <1>2. keys \in SUBSET Nat /\ T \in SUBSET Nat /\ T # {}
    BY <1>1
  <1>3. PICK m \in keys : 5 - m = Min(T)
    BY <1>2, LeastNatural
  <1>4. \A k \in keys : Min(T) <= 5 - k
    BY <1>2, LeastNatural, SMTT(40)
  <1>5. \A k \in keys : m >= k
    BY <1>1, <1>3, <1>4
  <1>6. Max(keys) \in keys /\ \A k \in keys : Max(keys) >= k
    BY <1>5 DEF Max
  <1> QED BY <1>1, <1>2, <1>6, LeastNatural

\* A page is what is listed up to the next cursor, or to the end when there is none.
LEMMA PagesAreWhole ==
    ASSUME favRecords \subseteq FavKeys, NEW cursor \in {0} \cup FavKeys
    PROVE  LET page == Page(cursor)
               next == NextCursor(page)
           IN  /\ page \subseteq favRecords
               /\ next \in {0} \cup FavKeys
               /\ next = 0 => page = {k \in favRecords : k > cursor}
               /\ next # 0 => /\ page = {k \in favRecords : k > cursor /\ k <= next}
                              /\ next > cursor
  <1> DEFINE page      == Page(cursor)
             before(k) == {j \in favRecords : j > cursor /\ j < k}
             rest      == {k \in favRecords : k > cursor}
  <1>1. \A k : k \in page <=> k \in rest /\ Cardinality(before(k)) < ListLimit
    BY DEF Page
  <1>2. IsFiniteSet(favRecords) /\ favRecords \subseteq Nat /\ page \subseteq favRecords
        /\ cursor \in Nat /\ rest \subseteq FavKeys
    <2>1. FavKeys \subseteq Nat /\ IsFiniteSet(FavKeys)
      BY StationKeys
    <2>2. IsFiniteSet(favRecords)
      BY <2>1, FS_Subset
    <2>3. cursor \in Nat
      <3>1. CASE cursor = 0  BY <3>1
      <3>2. CASE cursor \in FavKeys  BY <2>1, <3>2
      <3> QED BY <3>1, <3>2
    <2>4. favRecords \subseteq Nat /\ rest \subseteq FavKeys
      BY <2>1
    <2> QED BY <1>1, <2>2, <2>3, <2>4
  <1>3. \A k : IsFiniteSet(before(k)) /\ Cardinality(before(k)) \in Nat
    BY <1>2, FS_Subset, FS_CardinalityType
  <1>4. ASSUME NEW k \in page, NEW j \in rest, j <= k PROVE j \in page
    <2>1. before(j) \subseteq before(k)
      <3>1. j \in Nat /\ k \in Nat
        BY <1>1, <1>2, <1>4
      <3>2. \A i \in Nat : i < j => i < k
        BY <3>1, <1>4
      <3> QED BY <1>2, <3>2
    <2>2. Cardinality(before(j)) <= Cardinality(before(k))
      BY <1>3, <2>1, FS_Subset
    <2> HIDE DEF before, page, rest
    <2> QED BY <1>1, <1>3, <2>2, <1>4, AgentAssumption
  <1>5. CASE Cardinality(page) < ListLimit
    <2>1. NextCursor(page) = 0
      BY <1>5 DEF NextCursor
    <2>2. ASSUME rest \ page # {} PROVE FALSE
      <3>1. PICK m \in rest \ page : \A j \in rest \ page : m <= j
        BY <1>2, <2>2, KeysHaveEnds
      <3>2. before(m) \subseteq page
        <4>1. \A k \in before(m) : k \in rest /\ k \in Nat /\ m \in Nat /\ k < m
          BY <1>2, <3>1
        <4>2. \A k, n \in Nat : k < n => ~(n <= k)
          OBVIOUS
        <4> HIDE DEF before, page, rest
        <4> QED BY <3>1, <4>1, <4>2
      <3>3. Cardinality(before(m)) <= Cardinality(page) /\ Cardinality(page) \in Nat
        BY <1>2, <3>2, FS_Subset, FS_CardinalityType
      <3> HIDE DEF before, page, rest
      <3>4. Cardinality(before(m)) < ListLimit
        BY <1>3, <1>5, <3>3, AgentAssumption
      <3> QED BY <1>1, <3>1, <3>4
    <2>3. page = rest
      BY <1>1, <2>2
    <2> QED BY <2>1, <2>3, <1>2
  <1>6. CASE ~(Cardinality(page) < ListLimit)
    <2>1. page # {}
      BY <1>6, FS_EmptySet, AgentAssumption
    <2>2. NextCursor(page) = Max(page)
      BY <1>6 DEF NextCursor
    <2>3. page \subseteq FavKeys /\ Max(page) \in page /\ \A k \in page : k <= Max(page)
      BY <1>2, <2>1, KeysHaveEnds
    <2>4. page = {k \in favRecords : k > cursor /\ k <= Max(page)}
      <3> HIDE DEF page
      <3> QED BY <1>1, <1>4, <2>3
    <2>5. Max(page) > cursor /\ Max(page) # 0 /\ Max(page) \in FavKeys
      BY <1>1, <2>3, StationKeys
    <2> QED BY <1>2, <2>2, <2>4, <2>5
  <1> QED BY <1>5, <1>6

\* The fields of a call that is replaced in part.
LEMMA CallsInPart ==
    ASSUME NEW c \in CallType, NEW keys
    PROVE  LET d == [c EXCEPT !.kept = @ \ keys]
           IN  /\ d \in CallType /\ d.op = c.op /\ d.station = c.station /\ d.step = c.step
               /\ d.cursor = c.cursor /\ d.found = c.found /\ d.crossed = c.crossed
               /\ d.kept = c.kept \ keys
  BY DEF CallType

LEMMA CallsThatCross ==
    ASSUME NEW c \in CallType, NEW x \in BOOLEAN
    PROVE  LET d == [c EXCEPT !.crossed = @ \/ x]
           IN  /\ d \in CallType /\ d.op = c.op /\ d.station = c.station /\ d.step = c.step
               /\ d.cursor = c.cursor /\ d.found = c.found /\ d.kept = c.kept
               /\ d.crossed = (c.crossed \/ x)
  BY DEF CallType

\* A favorite that is put disturbs no listing but an unfavorite's that it crosses.
LEMMA PutKeepsListings ==
    ASSUME NEW c \in CallType, NEW records \in SUBSET FavKeys, NEW s \in Stations,
           Listing(c, records), c.op = "unfavorite" /\ c.station = s => c.crossed
    PROVE  Listing([c EXCEPT !.kept = @ \ {FavoriteRkey[s]}], records \cup {FavoriteRkey[s]})
  <1> DEFINE k == FavoriteRkey[s]
             d == [c EXCEPT !.kept = @ \ {k}]
  <1>1. /\ d.op = c.op /\ d.station = c.station /\ d.step = c.step /\ d.cursor = c.cursor
        /\ d.found = c.found /\ d.crossed = c.crossed /\ d.kept = c.kept \ {k}
    BY CallsInPart
  <1>2. k \notin Old /\ \A u \in Stations : k \in Of(u) => s = u
    BY StationKeys
  <1>3. c.station \in Stations
    BY DEF CallType
  <1>4. /\ Passed(c, records) \subseteq Passed(d, records \cup {k})
        /\ Passed(d, records \cup {k}) \subseteq Passed(c, records) \cup {k}
    BY <1>1 DEF Passed
  <1> HIDE DEF d, k
  <1>5. Listing(d, records \cup {k})
    BY <1>1, <1>2, <1>3, <1>4 DEF Listing, Listed
  <1> QED BY <1>5 DEF d, k

\* A record that is deleted disturbs no listing but a favorite's that loses its own.
LEMMA DeleteKeepsListings ==
    ASSUME NEW c \in CallType, NEW records \in SUBSET FavKeys, NEW k \in FavKeys,
           Listing(c, records), c.op = "favorite" /\ k = FavoriteRkey[c.station] => c.crossed
    PROVE  Listing([c EXCEPT !.kept = @ \ {k}], records \ {k})
  <1> DEFINE d == [c EXCEPT !.kept = @ \ {k}]
  <1>1. /\ d.op = c.op /\ d.station = c.station /\ d.step = c.step /\ d.cursor = c.cursor
        /\ d.found = c.found /\ d.crossed = c.crossed /\ d.kept = c.kept \ {k}
    BY CallsInPart
  <1>2. /\ Passed(d, records \ {k}) \subseteq Passed(c, records)
        /\ Passed(c, records) \subseteq Passed(d, records \ {k}) \cup {k}
        /\ k \notin Passed(d, records \ {k})
    BY <1>1 DEF Passed
  <1> HIDE DEF d
  <1>3. Listing(d, records \ {k})
    BY <1>1, <1>2 DEF Listing, Listed
  <1> QED BY <1>3 DEF d

\* A call that has listed all and has nothing left to delete ends right.
LEMMA ListedEndsRight ==
    ASSUME NEW c \in CallType, NEW records \in SUBSET FavKeys, Listed(c, records, records),
           c.op = "list" \/ Doomed(c) = {}
    PROVE  EndsRight(c, records)
  <1>1. c.station \in Stations /\ c.op \in {"none", "favorite", "unfavorite", "list"}
    BY DEF CallType
  <1>2. FavoriteRkey[c.station] \notin Old
    BY <1>1, StationKeys
  <1>3. CASE c.op = "favorite"
    BY <1>2, <1>3 DEF Listed, Doomed, EndsRight
  <1>4. CASE c.op = "unfavorite"
    BY <1>4 DEF Listed, Doomed, EndsRight
  <1>5. CASE c.op = "list"
    BY <1>5 DEF Listed, EndsRight
  <1>6. CASE c.op = "none"
    BY <1>6 DEF EndsRight
  <1> QED BY <1>1, <1>3, <1>4, <1>5, <1>6

\* A request keeps the invariant when it is right for its own call and disturbs no other.
LEMMA RequestKeepsCalls ==
    ASSUME AgentInv, NEW a \in Agent, NEW call \in CallType, NEW written,
           Goes(a, call, written), Busy(a), favRecords' \subseteq FavKeys,
           StepIsIts(call), Listing(call, favRecords'),
           call.step # "done" => /\ call.op = agentCall[a].op
                                 /\ call.station = agentCall[a].station
                                 /\ call.crossed = agentCall[a].crossed,
           \A b \in Agent \ {a} :
               Listing([agentCall[b] EXCEPT !.kept = @ \ written], favRecords')
    PROVE  AgentInv' /\ agentCall'[a] = call
           /\ \A b \in Agent \ {a} : agentCall'[b].step = agentCall[b].step
  <1>1. agentCall'[a] = call
    BY DEF Goes
  <1>2. ASSUME NEW b \in Agent, b # a
        PROVE  LET c == agentCall[b]
                   d == agentCall'[b]
               IN  /\ d = [c EXCEPT !.kept = @ \ written]
                   /\ d \in CallType /\ d.op = c.op /\ d.station = c.station
                   /\ d.step = c.step /\ d.cursor = c.cursor /\ d.found = c.found
                   /\ d.crossed = c.crossed
    <2>1. agentCall[b] \in CallType
      BY DEF AgentInv, AgentTypeOK
    <2>2. agentCall'[b] = [agentCall[b] EXCEPT !.kept = @ \ written]
      BY <1>2 DEF Goes
    <2> QED BY <2>1, <2>2, CallsInPart
  <1>3. AgentTypeOK'
    <2>1. agentCall' = [b \in Agent |-> agentCall'[b]]
      BY DEF Goes
    <2>2. \A b \in Agent : agentCall'[b] \in CallType
      BY <1>1, <1>2
    <2> QED BY <2>1, <2>2 DEF AgentTypeOK
  <1>4. StepsAreIts'
    <2>1. ASSUME NEW b \in Agent PROVE StepIsIts(agentCall'[b])
      <3>1. CASE b = a  BY <1>1, <3>1
      <3>2. CASE b # a
        <4>1. StepIsIts(agentCall[b])
          BY DEF AgentInv, StepsAreIts
        <4> QED BY <1>2, <3>2, <4>1 DEF StepIsIts, Doomed
      <3> QED BY <3>1, <3>2
    <2> QED BY <2>1 DEF StepsAreIts
  <1>5. CrossingsShow'
    <2>1. \A b \in Agent : Busy(b)' => /\ Busy(b)
                                      /\ agentCall'[b].op = agentCall[b].op
                                      /\ agentCall'[b].station = agentCall[b].station
                                      /\ agentCall'[b].crossed = agentCall[b].crossed
      BY <1>1, <1>2 DEF Busy
    <2> QED BY <2>1 DEF AgentInv, CrossingsShow
  <1>6. ListingsAreRight'
    <2>1. ASSUME NEW b \in Agent PROVE Listing(agentCall'[b], favRecords')
      <3>1. CASE b = a
        BY <1>1, <3>1, Zenon
      <3>2. CASE b # a
        <4>1. agentCall'[b] = [agentCall[b] EXCEPT !.kept = @ \ written]
          BY <1>2, <3>2, Zenon
        <4>2. b \in Agent \ {a}
          BY <3>2, Zenon
        <4> QED BY <4>1, <4>2, Zenon
      <3> QED BY <3>1, <3>2, Zenon
    <2> QED BY <2>1 DEF ListingsAreRight
  <1> QED BY <1>1, <1>2, <1>3, <1>4, <1>5, <1>6 DEF AgentInv

\* A listing that disturbs nothing.
LEMMA NothingWritten ==
    ASSUME NEW c \in CallType, NEW records, Listing(c, records)
    PROVE  Listing([c EXCEPT !.kept = @ \ {}], records)
  <1>1. [c EXCEPT !.kept = @ \ {}] = c
    BY DEF CallType
  <1> QED BY <1>1

\* A call that ends under a step ends right.
Ending == \A a \in Agent : (Busy(a) /\ agentCall'[a].step = "done" /\ agentCall'[a].op # "none")
              => EndsRight(agentCall'[a], favRecords')

\* A new call knows whom it crosses, and they know it.
LEMMA CallKeepsCalls ==
    ASSUME AgentInv, NEW a \in Agent,
           NEW op \in {"favorite", "unfavorite", "list"}, NEW s \in Stations,
           NEW step \in {"put", "list"}, step = "put" <=> op = "favorite", Call(a, op, s, step)
    PROVE  AgentInv' /\ Ending
  <1> DEFINE other(b) == agentCall[b].station = s /\ Crossing(op, agentCall[b].op)
             met      == \E c \in Agent \ {a} : Busy(c) /\ other(c)
             call     == [op |-> op, station |-> s, step |-> step, cursor |-> 0,
                          found |-> {}, kept |-> FavKeys, crossed |-> met]
  <1>1. met \in BOOLEAN /\ call \in CallType
    BY DEF CallType
  <1>2. agentCall'[a] = call /\ favRecords' = favRecords
    BY DEF Call
  <1>3. /\ call.op = op /\ call.station = s /\ call.step = step /\ call.cursor = 0
        /\ call.found = {} /\ call.kept = FavKeys /\ call.crossed = met
    OBVIOUS
  <1>4. ASSUME NEW b \in Agent, b # a
        PROVE  LET c == agentCall[b]
                   d == agentCall'[b]
               IN  /\ d \in CallType /\ d.op = c.op /\ d.station = c.station
                   /\ d.step = c.step /\ d.cursor = c.cursor /\ d.found = c.found
                   /\ d.kept = c.kept /\ d.crossed = (c.crossed \/ other(b))
    <2>1. agentCall[b] \in CallType /\ other(b) \in BOOLEAN
      BY DEF AgentInv, AgentTypeOK
    <2>2. agentCall'[b] = [agentCall[b] EXCEPT !.crossed = @ \/ other(b)]
      BY <1>4 DEF Call
    <2> HIDE DEF other
    <2> QED BY <2>1, <2>2, CallsThatCross
  <1> HIDE DEF call
  <1>5. AgentTypeOK'
    <2>1. agentCall' = [b \in Agent |-> agentCall'[b]]
      BY DEF Call
    <2>2. \A b \in Agent : agentCall'[b] \in CallType
      BY <1>1, <1>2, <1>4
    <2> QED BY <2>1, <2>2, <1>2 DEF AgentTypeOK, AgentInv
  <1>6. StepsAreIts'
    <2>1. ASSUME NEW b \in Agent PROVE StepIsIts(agentCall'[b])
      <3>1. CASE b = a  BY <1>2, <1>3, <3>1 DEF StepIsIts
      <3>2. CASE b # a
        <4>1. StepIsIts(agentCall[b])
          BY DEF AgentInv, StepsAreIts
        <4> QED BY <1>4, <3>2, <4>1 DEF StepIsIts, Doomed
      <3> QED BY <3>1, <3>2
    <2> QED BY <2>1 DEF StepsAreIts
  <1>7. CrossingsShow'
    <2> SUFFICES ASSUME NEW b \in Agent, NEW c \in Agent, Busy(b)', Busy(c)',
                        agentCall'[b].station = agentCall'[c].station,
                        Crossing(agentCall'[b].op, agentCall'[c].op)
                 PROVE  agentCall'[b].crossed
      BY DEF CrossingsShow
    <2>1. CASE b = a /\ c = a
      BY <2>1 DEF Crossing
    <2>2. CASE b = a /\ c # a
      <3>1. Busy(c) /\ other(c)
        BY <1>2, <1>3, <1>4, <2>2 DEF Busy
      <3> QED BY <1>2, <1>3, <2>2, <3>1
    <2>3. CASE b # a /\ c = a
      <3>1. other(b)
        BY <1>2, <1>3, <1>4, <2>3 DEF Crossing
      <3> QED BY <1>4, <2>3, <3>1
    <2>4. CASE b # a /\ c # a
      <3>1. Busy(b) /\ Busy(c) /\ agentCall[b].station = agentCall[c].station
            /\ Crossing(agentCall[b].op, agentCall[c].op)
        BY <1>4, <2>4 DEF Busy
      <3>2. agentCall[b].crossed
        BY <3>1 DEF AgentInv, CrossingsShow
      <3> QED BY <1>4, <2>4, <3>2
    <2> QED BY <2>1, <2>2, <2>3, <2>4
  <1>8. ListingsAreRight'
    <2>1. ASSUME NEW b \in Agent PROVE Listing(agentCall'[b], favRecords)
      <3>1. CASE b = a
        <4>1. step = "list" => Passed(call, favRecords) = {}
          <5>1. \A k \in favRecords : ~(k <= 0)
            BY StationKeys DEF AgentInv, AgentTypeOK
          <5> QED BY <1>3, <5>1 DEF Passed
        <4> QED BY <1>2, <1>3, <3>1, <4>1 DEF Listing, Listed
      <3>2. CASE b # a
        <4>1. Listing(agentCall[b], favRecords)
              /\ (agentCall[b].crossed => agentCall'[b].crossed)
          BY <1>4, <3>2 DEF AgentInv, ListingsAreRight
        <4>2. Passed(agentCall'[b], favRecords) = Passed(agentCall[b], favRecords)
          BY <1>4, <3>2 DEF Passed
        <4> HIDE DEF other
        <4> QED BY <1>4, <3>2, <4>1, <4>2 DEF Listing, Listed
      <3> QED BY <3>1, <3>2
    <2> QED BY <1>2, <2>1 DEF ListingsAreRight
  <1>9. Ending
    BY <1>2, <1>3, <1>4 DEF Ending, Busy, Call
  <1> QED BY <1>5, <1>6, <1>7, <1>8, <1>9 DEF AgentInv

\* Nobody else's call ends under a request, so it is enough to look at its own.
LEMMA OwnCallEnds ==
    ASSUME NEW a \in Agent, NEW call, agentCall'[a] = call,
           \A b \in Agent \ {a} : agentCall'[b].step = agentCall[b].step,
           call.step = "done" /\ call.op # "none" => EndsRight(call, favRecords')
    PROVE  Ending
  BY DEF Ending, Busy

LEMMA PutKeepsCalls ==
    ASSUME AgentInv, NEW a \in Agent, PutFavorite(a)
    PROVE  AgentInv' /\ Ending
  <1> DEFINE c    == agentCall[a]
             k    == FavoriteRkey[c.station]
             call == [c EXCEPT !.step = "list"]
  <1>1. c \in CallType /\ c.step = "put" /\ favRecords \subseteq FavKeys
        /\ favRecords' = favRecords \cup {k} /\ Goes(a, call, {k})
    BY DEF AgentInv, AgentTypeOK, PutFavorite
  <1>2. c.op = "favorite" /\ c.found = {} /\ c.cursor = 0 /\ c.station \in Stations
    BY <1>1 DEF AgentInv, StepsAreIts, StepIsIts, CallType
  <1>3. /\ call \in CallType /\ call.op = "favorite" /\ call.station = c.station
        /\ call.step = "list" /\ call.cursor = 0 /\ call.found = {}
        /\ call.crossed = c.crossed
    BY <1>1, <1>2 DEF CallType
  <1>4. k \in FavKeys /\ k \in Of(c.station)
    BY <1>2, StationKeys
  <1>5. Busy(a)
    BY <1>1 DEF Busy
  <1> HIDE DEF call, k
  <1>6. StepIsIts(call)
    BY <1>3 DEF StepIsIts
  <1>7. Listing(call, favRecords')
    <2>1. Passed(call, favRecords') = {}
      <3>1. \A j \in favRecords' : j \in FavKeys
        BY <1>1, <1>4
      <3>2. \A j \in FavKeys : ~(j <= 0)
        BY StationKeys
      <3> QED BY <1>3, <3>1, <3>2 DEF Passed
    <2> QED BY <1>1, <1>3, <2>1 DEF Listing, Listed, k
  <1>8. ASSUME NEW b \in Agent \ {a}
        PROVE  Listing([agentCall[b] EXCEPT !.kept = @ \ {k}], favRecords')
    <2>1. agentCall[b] \in CallType /\ Listing(agentCall[b], favRecords)
      BY DEF AgentInv, AgentTypeOK, ListingsAreRight
    <2>2. CASE agentCall[b].step \in {"list", "delete"}
      <3>1. agentCall[b].op = "unfavorite" /\ agentCall[b].station = c.station
            => agentCall[b].crossed
        BY <1>2, <1>5, <2>2 DEF AgentInv, CrossingsShow, Busy, Crossing
      <3> QED BY <1>1, <1>2, <2>1, <3>1, PutKeepsListings DEF k
    <2>3. CASE agentCall[b].step \notin {"list", "delete"}
      BY <2>1, <2>3, CallsInPart DEF Listing
    <2> QED BY <2>2, <2>3
  <1>9. AgentInv' /\ agentCall'[a] = call
        /\ \A b \in Agent \ {a} : agentCall'[b].step = agentCall[b].step
    BY <1>1, <1>2, <1>3, <1>4, <1>5, <1>6, <1>7, <1>8, RequestKeepsCalls
  <1> QED BY <1>3, <1>9, OwnCallEnds

LEMMA PageKeepsCalls ==
    ASSUME AgentInv, NEW a \in Agent, ListPage(a)
    PROVE  AgentInv' /\ Ending
  <1> DEFINE c    == agentCall[a]
             page == Page(c.cursor)
             next == NextCursor(page)
             all  == [c EXCEPT !.cursor = next, !.found = @ \cup Wanted(c, page)]
             step == IF all.cursor # 0 THEN "list"
                     ELSE IF all.op = "list" \/ Doomed(all) = {} THEN "done" ELSE "delete"
             call == [all EXCEPT !.step = step]
  <1>1. c \in CallType /\ c.step = "list" /\ favRecords \subseteq FavKeys
        /\ favRecords' = favRecords /\ Goes(a, call, {}) /\ Busy(a)
    BY DEF AgentInv, AgentTypeOK, ListPage, Busy
  <1>2. /\ page \subseteq favRecords /\ next \in {0} \cup FavKeys
        /\ next = 0 => page = {k \in favRecords : k > c.cursor}
        /\ next # 0 => /\ page = {k \in favRecords : k > c.cursor /\ k <= next}
                       /\ next > c.cursor
    BY <1>1, PagesAreWhole DEF CallType
  <1> HIDE DEF page, next
  <1>3. /\ Wanted(c, page) \subseteq FavKeys
        /\ c.op # "list" => Wanted(c, page) = page \cap Of(c.station)
        /\ c.op = "list" => Wanted(c, page) = page
    BY <1>1, <1>2 DEF Wanted
  <1>4. /\ all.op = c.op /\ all.station = c.station /\ all.cursor = next
        /\ all.found = c.found \cup Wanted(c, page) /\ all.kept = c.kept
        /\ all.crossed = c.crossed /\ all \in CallType
    BY <1>1, <1>2, <1>3 DEF CallType
  <1>5. step \in {"list", "done", "delete"}
    OBVIOUS
  <1>6. /\ call.op = c.op /\ call.station = c.station /\ call.cursor = next
        /\ call.found = c.found \cup Wanted(c, page) /\ call.kept = c.kept
        /\ call.crossed = c.crossed /\ call.step = step /\ call \in CallType
    BY <1>4, <1>5 DEF CallType
  <1>7. Doomed(call) = Doomed(all)
    BY <1>4, <1>6 DEF Doomed
  <1>8. /\ step = "list" => next # 0
        /\ step # "list" => next = 0
        /\ step = "delete" => c.op # "list" /\ Doomed(call) # {}
        /\ step = "done" => c.op = "list" \/ Doomed(call) = {}
    BY <1>4, <1>7
  <1> HIDE DEF all, step, call
  <1>9. StepIsIts(c) /\ Listed(c, {k \in favRecords : k <= c.cursor}, favRecords)
    BY <1>1 DEF AgentInv, StepsAreIts, ListingsAreRight, Listing, Passed
  <1>10. StepIsIts(call)
    BY <1>1, <1>3, <1>5, <1>6, <1>8, <1>9 DEF StepIsIts
  <1>11. ASSUME NEW passed, passed = {k \in favRecords : k <= c.cursor} \cup page
         PROVE  Listed(call, passed, favRecords)
    <2>1. c.op # "list" => Of(c.station) \cap page \subseteq Wanted(c, page)
      BY <1>3
    <2> QED BY <1>3, <1>6, <1>9, <1>11, <2>1 DEF Listed
  <1>12. c.cursor \in Nat /\ next \in Nat /\ \A k \in favRecords : k \in Nat
    <2>1. \A k \in {0} \cup FavKeys : k \in Nat
      BY StationKeys
    <2> QED BY <1>1, <1>2, <2>1 DEF CallType
  <1>13. next # 0 => {k \in favRecords : k <= next}
                     = {k \in favRecords : k <= c.cursor} \cup page
    BY <1>2, <1>12
  <1>14. next = 0 => favRecords = {k \in favRecords : k <= c.cursor} \cup page
    BY <1>2, <1>12
  <1>15. Listing(call, favRecords')
    BY <1>1, <1>5, <1>6, <1>8, <1>11, <1>13, <1>14 DEF Listing, Passed
  <1>16. ASSUME NEW b \in Agent \ {a}
         PROVE  Listing([agentCall[b] EXCEPT !.kept = @ \ {}], favRecords')
    BY <1>1, NothingWritten DEF AgentInv, AgentTypeOK, ListingsAreRight
  <1>17. AgentInv' /\ agentCall'[a] = call
         /\ \A b \in Agent \ {a} : agentCall'[b].step = agentCall[b].step
    BY <1>1, <1>6, <1>10, <1>15, <1>16, RequestKeepsCalls
  <1>18. call.step = "done" => EndsRight(call, favRecords')
    BY <1>1, <1>6, <1>8, <1>11, <1>14, ListedEndsRight
  <1> QED BY <1>17, <1>18, OwnCallEnds

LEMMA DeletionKeepsCalls ==
    ASSUME AgentInv, NEW a \in Agent, DeleteFavorite(a)
    PROVE  AgentInv' /\ Ending
  <1> DEFINE c    == agentCall[a]
             k    == Min(Doomed(c))
             d    == [c EXCEPT !.found = @ \ {k}]
             step == IF Doomed(d) = {} THEN "done" ELSE "delete"
             call == [d EXCEPT !.step = step]
  <1>1. c \in CallType /\ c.step = "delete" /\ favRecords \subseteq FavKeys
        /\ favRecords' = favRecords \ {k} /\ Goes(a, call, {k}) /\ Busy(a)
    BY DEF AgentInv, AgentTypeOK, DeleteFavorite, Busy
  <1>2. c.op # "list" /\ Doomed(c) # {} /\ c.op # "none" /\ c.found \subseteq Of(c.station)
    BY <1>1 DEF AgentInv, StepsAreIts, StepIsIts
  <1>3. c.station \in Stations /\ c.found \subseteq FavKeys
        /\ c.op \in {"none", "favorite", "unfavorite", "list"}
    BY <1>1 DEF CallType
  <1>4. k \in Doomed(c)
    <2>1. Doomed(c) \subseteq FavKeys
      BY <1>3 DEF Doomed
    <2> QED BY <1>2, <2>1, KeysHaveEnds
  <1>5. k \in FavKeys /\ k \in Of(c.station)
        /\ (c.op = "favorite" => k # FavoriteRkey[c.station])
    BY <1>2, <1>3, <1>4 DEF Doomed
  <1> HIDE DEF k
  <1>6. /\ d.op = c.op /\ d.station = c.station /\ d.found = c.found \ {k}
        /\ d.kept = c.kept /\ d.crossed = c.crossed /\ d \in CallType
    BY <1>1 DEF CallType
  <1>7. step \in {"done", "delete"}
    OBVIOUS
  <1>8. /\ call.op = c.op /\ call.station = c.station /\ call.found = c.found \ {k}
        /\ call.kept = c.kept /\ call.crossed = c.crossed /\ call.step = step
        /\ call \in CallType
    BY <1>6, <1>7 DEF CallType
  <1>9. Doomed(call) = Doomed(d)
    BY <1>6, <1>8 DEF Doomed
  <1>10. step = "delete" <=> Doomed(call) # {}
    BY <1>9
  <1> HIDE DEF d, step, call
  <1>11. Listed(c, favRecords, favRecords)
    BY <1>1 DEF AgentInv, ListingsAreRight, Listing, Passed
  <1>12. Listed(call, favRecords', favRecords')
    BY <1>1, <1>2, <1>5, <1>8, <1>11 DEF Listed
  <1>13. Listing(call, favRecords') /\ StepIsIts(call)
    BY <1>2, <1>7, <1>8, <1>10, <1>12 DEF Listing, Passed, StepIsIts
  <1>14. ASSUME NEW b \in Agent \ {a}
         PROVE  Listing([agentCall[b] EXCEPT !.kept = @ \ {k}], favRecords')
    <2>1. agentCall[b] \in CallType /\ Listing(agentCall[b], favRecords)
      BY DEF AgentInv, AgentTypeOK, ListingsAreRight
    <2>2. CASE agentCall[b].step \in {"list", "delete"}
      <3>1. ASSUME agentCall[b].op = "favorite", k = FavoriteRkey[agentCall[b].station]
            PROVE  agentCall[b].crossed
        <4>1. agentCall[b].station = c.station
          BY <1>3, <1>5, <2>1, <3>1, StationKeys DEF CallType
        <4>2. c.op = "unfavorite"
          BY <1>2, <1>3, <1>5, <3>1, <4>1
        <4> QED BY <1>1, <2>2, <3>1, <4>1, <4>2 DEF AgentInv, CrossingsShow, Busy, Crossing
      <3> QED BY <1>1, <1>5, <2>1, <3>1, DeleteKeepsListings
    <2>3. CASE agentCall[b].step \notin {"list", "delete"}
      BY <2>1, <2>3, CallsInPart DEF Listing
    <2> QED BY <2>2, <2>3
  <1>15. AgentInv' /\ agentCall'[a] = call
         /\ \A b \in Agent \ {a} : agentCall'[b].step = agentCall[b].step
    BY <1>1, <1>8, <1>13, <1>14, RequestKeepsCalls
  <1>16. call.step = "done" => EndsRight(call, favRecords')
    BY <1>1, <1>8, <1>10, <1>12, ListedEndsRight
  <1> QED BY <1>15, <1>16, OwnCallEnds

LEMMA FailureKeepsCalls ==
    ASSUME AgentInv, NEW a \in Agent, CallFails(a)
    PROVE  AgentInv' /\ Ending
  <1>1. NoCall \in CallType /\ NoCall.step = "done" /\ NoCall.op = "none" /\ NoCall.found = {}
    BY DEF NoCall, CallType, Stations
  <1>2. StepIsIts(NoCall) /\ Listing(NoCall, favRecords')
    BY <1>1 DEF StepIsIts, Listing
  <1>3. favRecords' = favRecords /\ favRecords \subseteq FavKeys /\ Busy(a) /\ Goes(a, NoCall, {})
    BY DEF CallFails, AgentInv, AgentTypeOK
  <1>4. ASSUME NEW b \in Agent \ {a}
        PROVE  Listing([agentCall[b] EXCEPT !.kept = @ \ {}], favRecords')
    BY <1>3, NothingWritten DEF AgentInv, AgentTypeOK, ListingsAreRight
  <1>5. AgentInv' /\ agentCall'[a] = NoCall
        /\ \A b \in Agent \ {a} : agentCall'[b].step = agentCall[b].step
    BY <1>1, <1>2, <1>3, <1>4, RequestKeepsCalls
  <1> QED BY <1>1, <1>5, OwnCallEnds

\* The verbs of one request leave favorites and calls alone.
LEMMA RestKeepsCalls ==
    ASSUME AgentInv, UNCHANGED <<favRecords, agentCall>>
    PROVE  AgentInv' /\ Ending
  BY DEF AgentInv, AgentTypeOK, StepsAreIts, CrossingsShow, ListingsAreRight, Ending, Busy

LEMMA AgentInitIsRight == AgentInit => AgentInv
  <1> SUFFICES ASSUME AgentInit PROVE AgentInv
    OBVIOUS
  <1>1. NoCall \in CallType /\ NoCall.step = "done" /\ NoCall.op = "none" /\ NoCall.found = {}
    BY DEF NoCall, CallType, Stations
  <1> QED BY <1>1 DEF AgentInit, AgentInv, AgentTypeOK, StepsAreIts, StepIsIts, CrossingsShow,
                      Busy, ListingsAreRight, Listing

LEMMA AgentStepIsRight == AgentInv /\ [AgentNext]_agentVars => AgentInv' /\ Ending
  <1> SUFFICES ASSUME AgentInv, [AgentNext]_agentVars PROVE AgentInv' /\ Ending
    OBVIOUS
  <1>1. CASE UNCHANGED agentVars
    BY <1>1, RestKeepsCalls DEF agentVars
  <1>2. ASSUME NEW a \in Agent, NEW s \in Stations, Call(a, "favorite", s, "put")
        PROVE  AgentInv' /\ Ending
    BY <1>2, CallKeepsCalls
  <1>3. ASSUME NEW a \in Agent, NEW s \in Stations, Call(a, "unfavorite", s, "list")
        PROVE  AgentInv' /\ Ending
    BY <1>3, CallKeepsCalls
  <1>4. ASSUME NEW a \in Agent, Call(a, "list", "s", "list")
        PROVE  AgentInv' /\ Ending
    BY <1>4, CallKeepsCalls DEF Stations
  <1>5. ASSUME NEW a \in Agent,
               PutFavorite(a) \/ ListPage(a) \/ DeleteFavorite(a) \/ CallFails(a)
        PROVE  AgentInv' /\ Ending
    BY <1>5, PutKeepsCalls, PageKeepsCalls, DeletionKeepsCalls, FailureKeepsCalls
  <1>6. ASSUME NEW a \in Agent, NEW record, Put(a, record) \/ RemoveRecord(a, record)
        PROVE  AgentInv' /\ Ending
    BY <1>6, RestKeepsCalls DEF Put, RemoveRecord
  <1>7. DOMAIN FavoriteRkey = Stations
    BY StationKeys
  <1> QED BY <1>1, <1>2, <1>3, <1>4, <1>5, <1>6, <1>7
          DEF AgentNext, Favorite, Unfavorite, ListFavoritesCall, SetPlayStatus,
              PutAudioSettings, Comment, CreateStation, Reaction, DeletePlayStatus,
              DeleteComment, UpdateComment

\* AtradioAgent (agent.ts): whatever other agents of the account do between its requests,
\* a favorite that succeeds leaves no old record of its station and its own one, unless an
\* unfavorite crossed it; an unfavorite leaves none; a list misses no record that stayed.
THEOREM CallsLeaveTheRepoRight == AgentSpec => CallsEndRight
  <1>1. AgentInv /\ [AgentNext]_agentVars => [Ending]_agentVars
    BY AgentStepIsRight
  <1>2. Ending = (\A a \in Agent :
             (Busy(a) /\ agentCall'[a].step = "done" /\ agentCall'[a].op # "none")
                 => EndsRight(agentCall'[a], favRecords'))
    BY DEF Ending
  <1> QED BY <1>1, <1>2, AgentInitIsRight, AgentStepIsRight, PTL DEF AgentSpec, CallsEndRight, Ending

-----------------------------------------------------------------------------
(* The turns of the chunk decoder.                                         *)

LEMMA Recursion ==
    ASSUME NEW d, Len(d.buf) \in Nat
    PROVE  /\ Turns(d)[0] = d
           /\ \A n \in 0..Len(d.buf) - 1 : Turns(d)[n + 1] = DecodeTurn(Turns(d)[n])
  <1> DEFINE k == Len(d.buf)
             Upto(m) == \E f : f = [n \in 0..m |-> IF n = 0 THEN d ELSE DecodeTurn(f[n - 1])]
             T == {m \in 0..k : Upto(m)}
  <1>1. 0 \in T
    <2> DEFINE f == [n \in 0..0 |-> d]
    <2>1. f = [n \in 0..0 |-> IF n = 0 THEN d ELSE DecodeTurn(f[n - 1])]
      OBVIOUS
    <2>2. f = [n \in 0..0 |-> IF n = 0 THEN d ELSE DecodeTurn(f[n - 1])] => Upto(0)
      <3> HIDE DEF f
      <3> QED OBVIOUS
    <2> QED BY <2>1, <2>2
  <1>2. ASSUME NEW m \in 0..k - 1, m \in T PROVE m + 1 \in T
    <2>1. PICK f : f = [n \in 0..m |-> IF n = 0 THEN d ELSE DecodeTurn(f[n - 1])]
      BY <1>2
    <2> DEFINE g == [n \in 0..m + 1 |-> IF n <= m THEN f[n] ELSE DecodeTurn(f[m])]
    <2>2. \A n \in 0..m + 1 : g[n] = IF n = 0 THEN d ELSE DecodeTurn(g[n - 1])
      <3> SUFFICES ASSUME NEW n \in 0..m + 1
                   PROVE  g[n] = IF n = 0 THEN d ELSE DecodeTurn(g[n - 1])
        OBVIOUS
      <3>1. CASE n <= m
        BY <2>1, <3>1
      <3>2. CASE n = m + 1
        BY <3>2
      <3> QED BY <3>1, <3>2
    <2>3. g = [n \in 0..m + 1 |-> IF n = 0 THEN d ELSE DecodeTurn(g[n - 1])]
      <3> DEFINE h == [n \in 0..m + 1 |-> IF n = 0 THEN d ELSE DecodeTurn(g[n - 1])]
      <3>1. DOMAIN g = 0..m + 1 /\ DOMAIN h = 0..m + 1 /\ g = [n \in 0..m + 1 |-> g[n]]
        OBVIOUS
      <3>2. \A n \in 0..m + 1 : g[n] = h[n]
        BY <2>2
      <3> QED BY <3>1, <3>2
    <2> HIDE DEF g
    <2>4. Upto(m + 1)
      BY <2>3
    <2> QED BY <2>4
  <1>3. \E f : f = [n \in 0..k |-> IF n = 0 THEN d ELSE DecodeTurn(f[n - 1])]
    <2> HIDE DEF Upto
    <2>1. T \in SUBSET (0..k) /\ k \in Nat
      OBVIOUS
    <2> HIDE DEF T, k
    <2>2. T = 0..k
      BY <1>1, <1>2, <2>1, InductionOn
    <2>3. k \in T
      BY <2>1, <2>2
    <2> QED BY <2>3 DEF T, Upto
  <1>4. Turns(d) = [n \in 0..k |-> IF n = 0 THEN d ELSE DecodeTurn(Turns(d)[n - 1])]
    BY <1>3 DEF Turns
  <1> QED BY <1>4

-----------------------------------------------------------------------------
(* Parts of sequences.                                                     *)

Take(s, k) == SubSeq(s, 1, k)
Drop(s, k) == SubSeq(s, k + 1, Len(s))

LEMMA PartsAreSeqs ==
    ASSUME NEW S, NEW s \in Seq(S), NEW k \in 0..Len(s)
    PROVE  /\ Take(s, k) \in Seq(S) /\ Len(Take(s, k)) = k
           /\ Drop(s, k) \in Seq(S) /\ Len(Drop(s, k)) = Len(s) - k
           /\ \A i \in 1..k : Take(s, k)[i] = s[i]
           /\ \A i \in 1..Len(s) - k : Drop(s, k)[i] = s[k + i]
  <1>1. Len(s) \in Nat /\ \A i \in 1..Len(s) : s[i] \in S
    BY LenProperties, ElementOfSeq
  <1>2. /\ Take(s, k) \in Seq(S) /\ Len(Take(s, k)) = k
        /\ \A i \in 1..k : Take(s, k)[i] = s[i]
    <2>1. \A i \in 1..k : s[i] \in S
      BY <1>1
    <2>2. /\ SubSeq(s, 1, k) \in Seq(S)
          /\ Len(SubSeq(s, 1, k)) = IF 1 <= k THEN k - 1 + 1 ELSE 0
          /\ \A i \in 1..k - 1 + 1 : SubSeq(s, 1, k)[i] = s[1 + i - 1]
      BY <2>1, SubSeqProperties
    <2> QED BY <1>1, <2>2 DEF Take
  <1>3. /\ Drop(s, k) \in Seq(S) /\ Len(Drop(s, k)) = Len(s) - k
        /\ \A i \in 1..Len(s) - k : Drop(s, k)[i] = s[k + i]
    <2>1. \A i \in k + 1..Len(s) : s[i] \in S
      BY <1>1
    <2>2. /\ SubSeq(s, k + 1, Len(s)) \in Seq(S)
          /\ Len(SubSeq(s, k + 1, Len(s)))
               = IF k + 1 <= Len(s) THEN Len(s) - (k + 1) + 1 ELSE 0
          /\ \A i \in 1..Len(s) - (k + 1) + 1 : SubSeq(s, k + 1, Len(s))[i] = s[(k + 1) + i - 1]
      BY <1>1, <2>1, SubSeqProperties
    <2> QED BY <1>1, <2>2 DEF Drop
  <1> QED BY <1>2, <1>3

LEMMA TakeAndDrop ==
    ASSUME NEW S, NEW s \in Seq(S), NEW k \in 0..Len(s)
    PROVE  s = Take(s, k) \o Drop(s, k)
  <1>1. /\ Len(s) \in Nat /\ Take(s, k) \in Seq(S) /\ Len(Take(s, k)) = k
        /\ Drop(s, k) \in Seq(S) /\ Len(Drop(s, k)) = Len(s) - k
        /\ \A i \in 1..k : Take(s, k)[i] = s[i]
        /\ \A i \in 1..Len(s) - k : Drop(s, k)[i] = s[k + i]
    BY PartsAreSeqs, LenProperties
  <1>2. /\ Take(s, k) \o Drop(s, k) \in Seq(S)
        /\ Len(Take(s, k) \o Drop(s, k)) = Len(Take(s, k)) + Len(Drop(s, k))
        /\ \A i \in 1..Len(Take(s, k)) + Len(Drop(s, k)) :
             (Take(s, k) \o Drop(s, k))[i] = IF i <= Len(Take(s, k)) THEN Take(s, k)[i]
                                             ELSE Drop(s, k)[i - Len(Take(s, k))]
    BY <1>1, ConcatProperties
  <1>3. ASSUME NEW i \in 1..Len(s) PROVE (Take(s, k) \o Drop(s, k))[i] = s[i]
    <2>1. CASE i <= k
      BY <1>1, <1>2, <2>1
    <2>2. CASE i > k
      <3>1. i - k \in 1..Len(s) - k /\ k + (i - k) = i
        BY <1>1, <2>2
      <3> QED BY <1>1, <1>2, <2>2, <3>1
    <2> QED BY <1>1, <2>1, <2>2
  <1>4. Len(Take(s, k) \o Drop(s, k)) = Len(s)
    BY <1>1, <1>2
  <1> QED BY <1>2, <1>3, <1>4, SeqEqual

LEMMA PartsOfConcat ==
    ASSUME NEW S, NEW s \in Seq(S), NEW t \in Seq(S), NEW k \in 0..Len(s)
    PROVE  /\ Take(s \o t, k) = Take(s, k)
           /\ Drop(s \o t, k) = Drop(s, k) \o t
  <1>1. /\ Len(s) \in Nat /\ Len(t) \in Nat /\ k \in Nat
        /\ s \o t \in Seq(S) /\ Len(s \o t) = Len(s) + Len(t)
        /\ \A i \in 1..Len(s) + Len(t) :
             (s \o t)[i] = IF i <= Len(s) THEN s[i] ELSE t[i - Len(s)]
    BY ConcatProperties, LenProperties
  <1>2. k \in 0..Len(s \o t)
    BY <1>1
  <1>3. /\ Take(s, k) \in Seq(S) /\ Len(Take(s, k)) = k
        /\ Drop(s, k) \in Seq(S) /\ Len(Drop(s, k)) = Len(s) - k
        /\ \A i \in 1..k : Take(s, k)[i] = s[i]
        /\ \A i \in 1..Len(s) - k : Drop(s, k)[i] = s[k + i]
    BY PartsAreSeqs
  <1>4. /\ Take(s \o t, k) \in Seq(S) /\ Len(Take(s \o t, k)) = k
        /\ Drop(s \o t, k) \in Seq(S) /\ Len(Drop(s \o t, k)) = Len(s \o t) - k
        /\ \A i \in 1..k : Take(s \o t, k)[i] = (s \o t)[i]
        /\ \A i \in 1..Len(s \o t) - k : Drop(s \o t, k)[i] = (s \o t)[k + i]
    BY <1>1, <1>2, PartsAreSeqs
  <1>5. Take(s \o t, k) = Take(s, k)
    <2>1. \A i \in 1..k : Take(s \o t, k)[i] = Take(s, k)[i]
      BY <1>1, <1>3, <1>4
    <2> QED BY <1>3, <1>4, <2>1, SeqEqual
  <1>6. /\ Drop(s, k) \o t \in Seq(S)
        /\ Len(Drop(s, k) \o t) = Len(Drop(s, k)) + Len(t)
        /\ \A i \in 1..Len(Drop(s, k)) + Len(t) :
             (Drop(s, k) \o t)[i] = IF i <= Len(Drop(s, k)) THEN Drop(s, k)[i]
                                    ELSE t[i - Len(Drop(s, k))]
    BY <1>3, ConcatProperties
  <1>7. ASSUME NEW i \in 1..Len(s) + Len(t) - k
        PROVE  Drop(s \o t, k)[i] = (Drop(s, k) \o t)[i]
    <2>1. k + i \in 1..Len(s) + Len(t) /\ i \in Nat
      BY <1>1
    <2>2. Drop(s \o t, k)[i] = IF k + i <= Len(s) THEN s[k + i] ELSE t[k + i - Len(s)]
      BY <1>1, <1>4, <2>1
    <2>3. (Drop(s, k) \o t)[i] = IF i <= Len(s) - k THEN Drop(s, k)[i] ELSE t[i - (Len(s) - k)]
      BY <1>1, <1>3, <1>6
    <2>4. CASE i <= Len(s) - k
      BY <1>1, <1>3, <2>1, <2>2, <2>3, <2>4
    <2>5. CASE i > Len(s) - k
      <3>1. k + i - Len(s) = i - (Len(s) - k) /\ ~(k + i <= Len(s)) /\ ~(i <= Len(s) - k)
        BY <1>1, <2>1, <2>5
      <3> QED BY <2>2, <2>3, <3>1
    <2>6. i <= Len(s) - k \/ i > Len(s) - k
      BY <1>1, <2>1
    <2> QED BY <2>4, <2>5, <2>6
  <1>8. Len(Drop(s \o t, k)) = Len(s) + Len(t) - k /\ Len(Drop(s, k) \o t) = Len(s) + Len(t) - k
    BY <1>1, <1>3, <1>4, <1>6
  <1> QED BY <1>4, <1>5, <1>6, <1>7, <1>8, SeqEqual

LEMMA FirstAndRest ==
    ASSUME NEW S, NEW s \in Seq(S), NEW t \in Seq(S)
    PROVE  Take(s \o t, Len(s)) = s /\ Drop(s \o t, Len(s)) = t
  <1>1. Len(s) \in Nat /\ Len(s) \in 0..Len(s)
    BY LenProperties
  <1>2. Take(s, Len(s)) = s
    BY SubSeqFull DEF Take
  <1>3. Drop(s, Len(s)) = <<>>
    BY <1>1, SubSeqEmpty DEF Drop
  <1>4. <<>> \o t = t
    BY ConcatEmptySeq
  <1>5. Take(s \o t, Len(s)) = Take(s, Len(s)) /\ Drop(s \o t, Len(s)) = Drop(s, Len(s)) \o t
    BY <1>1, PartsOfConcat, Zenon
  <1> QED BY <1>2, <1>3, <1>4, <1>5, Zenon

-----------------------------------------------------------------------------
(* Framed bodies.                                                          *)

Bytes == Seq(UpByte)

\* A line that a chunk or the end of the body begins with, and what follows.
Begins(v, line, r) ==
    /\ line \in Bytes /\ r \in Bytes /\ \A i \in 1..Len(line) : line[i] # CR
    /\ v = line \o (CRLF \o r)
Opens(v, line, r) == \E data \in Bytes, rest \in DOMAIN UpFramed :
    /\ Len(data) = SizeOf(line)
    /\ r = data \o (CRLF \o rest)
    /\ UpFramed[v] = data \o UpFramed[rest]

LEMMA LineEnd == CRLF \in Bytes /\ Len(CRLF) = 2 /\ CRLF[1] = CR /\ CRLF[2] = LF
  BY UpAssumption DEF CRLF, Bytes

LEMMA TwoBytes ==
    ASSUME NEW v \in Bytes, NEW i \in 1..Len(v) - 1
    PROVE  SubSeq(v, i, i + 1) = CRLF <=> v[i] = CR /\ v[i + 1] = LF
  <1>1. Len(v) \in Nat /\ \A j \in i..i + 1 : v[j] \in UpByte
    BY LenProperties, ElementOfSeq DEF Bytes
  <1>2. /\ SubSeq(v, i, i + 1) \in Bytes
        /\ Len(SubSeq(v, i, i + 1)) = IF i <= i + 1 THEN i + 1 - i + 1 ELSE 0
        /\ \A j \in 1..i + 1 - i + 1 : SubSeq(v, i, i + 1)[j] = v[i + j - 1]
    BY <1>1, SubSeqProperties DEF Bytes
  <1>3. /\ SubSeq(v, i, i + 1) \in Bytes /\ Len(SubSeq(v, i, i + 1)) = 2
        /\ SubSeq(v, i, i + 1)[1] = v[i] /\ SubSeq(v, i, i + 1)[2] = v[i + 1]
    <2>1. /\ i + 1 - i + 1 = 2 /\ i <= i + 1 /\ i + 1 - 1 = i /\ i + 2 - 1 = i + 1
          /\ 1 \in 1..2 /\ 2 \in 1..2
      BY <1>1
    <2>2. \A j \in 1..2 : SubSeq(v, i, i + 1)[j] = v[i + j - 1]
      BY <1>2, <2>1, Zenon
    <2>3. SubSeq(v, i, i + 1)[1] = v[i] /\ SubSeq(v, i, i + 1)[2] = v[i + 1]
      BY <2>1, <2>2, Zenon
    <2>4. Len(SubSeq(v, i, i + 1)) = 2
      BY <1>2, <2>1, Zenon
    <2> QED BY <1>2, <2>3, <2>4, Zenon
  <1>4. ASSUME v[i] = CR, v[i + 1] = LF PROVE SubSeq(v, i, i + 1) = CRLF
    <2>1. \A j \in 1..2 : SubSeq(v, i, i + 1)[j] = CRLF[j]
      BY <1>3, <1>4, LineEnd
    <2> QED BY <1>3, <2>1, LineEnd, SeqEqual DEF Bytes
  <1> QED BY <1>3, <1>4, LineEnd

LEMMA BytesJoin ==
    ASSUME NEW a \in Bytes, NEW b \in Bytes
    PROVE  a \o b \in Bytes /\ Len(a \o b) = Len(a) + Len(b)
  BY ConcatProperties DEF Bytes

\* Associativity, folded: a proof names the instance it needs and unfolds only that one.
Associates(a, b, c) == (a \o b) \o c = a \o (b \o c)

LEMMA BytesAssociate ==
    ASSUME NEW a \in Bytes, NEW b \in Bytes, NEW c \in Bytes
    PROVE  Associates(a, b, c)
  BY ConcatAssociative DEF Bytes, Associates

LEMMA BytesConcat ==
    /\ \A a, b \in Bytes : a \o b \in Bytes /\ Len(a \o b) = Len(a) + Len(b)
    /\ \A a, b, c \in Bytes : (a \o b) \o c = a \o (b \o c)
    /\ \A a \in Bytes : a \o <<>> = a /\ <<>> \o a = a /\ Len(a) \in Nat
    /\ <<>> \in Bytes
  <1>1. \A a, b \in Bytes : a \o b \in Bytes /\ Len(a \o b) = Len(a) + Len(b)
    BY BytesJoin, Zenon
  <1>2. \A a, b, c \in Bytes : (a \o b) \o c = a \o (b \o c)
    <2>1. \A a, b, c \in Bytes : Associates(a, b, c)
      BY BytesAssociate, Zenon
    <2> QED BY <2>1, Zenon DEF Associates
  <1>3. ASSUME NEW a \in Bytes PROVE a \o <<>> = a /\ <<>> \o a = a /\ Len(a) \in Nat
    <2>1. a \o <<>> = a /\ <<>> \o a = a
      BY ConcatEmptySeq, Zenon DEF Bytes
    <2>2. Len(a) \in Nat
      BY LenProperties, Zenon DEF Bytes
    <2> QED BY <2>1, <2>2
  <1>4. <<>> \in Bytes
    BY EmptySeq, Zenon DEF Bytes
  <1> QED BY <1>1, <1>2, <1>3, <1>4, Zenon

LEMMA WithinSpan ==
    ASSUME NEW m \in Nat, NEW n \in 1..m
    PROVE  n \in 0..m
  OBVIOUS

LEMMA BytesParts ==
    ASSUME NEW s \in Bytes, NEW k \in 0..Len(s)
    PROVE  /\ Take(s, k) \in Bytes /\ Len(Take(s, k)) = k
           /\ Drop(s, k) \in Bytes /\ Len(Drop(s, k)) = Len(s) - k
           /\ s = Take(s, k) \o Drop(s, k)
  BY PartsAreSeqs, TakeAndDrop DEF Bytes

LEMMA BytesOfConcat ==
    ASSUME NEW s \in Bytes, NEW t \in Bytes
    PROVE  /\ Take(s \o t, Len(s)) = s /\ Drop(s \o t, Len(s)) = t
           /\ \A k \in 0..Len(s) : Take(s \o t, k) = Take(s, k) /\ Drop(s \o t, k) = Drop(s, k) \o t
  BY PartsOfConcat, FirstAndRest DEF Bytes

LEMMA FramedBodies ==
    ASSUME NEW v \in DOMAIN UpFramed
    PROVE  /\ v \in Bytes /\ UpFramed[v] \in Bytes
           /\ \E line, r \in Bytes :
                /\ Begins(v, line, r) /\ SizeOf(line) \in Int
                /\ IF SizeOf(line) <= 0 THEN UpFramed[v] = <<>> ELSE Opens(v, line, r)
  <1>1. v \in Bytes /\ UpFramed[v] \in Bytes /\ (LastChunk(v) \/ FirstChunk(v))
    BY UpAssumption DEF Bytes
  <1>2. Len(v) \in Nat /\ \A i \in 1..Len(v) : v[i] \in UpByte
    BY <1>1, LenProperties, ElementOfSeq DEF Bytes
  <1>3. \A line : SizeOf(line) \in Int
    BY UpAssumption DEF SizeOf
  <1>4. CASE LastChunk(v)
    <2>1. PICK n \in 0..Len(v) - 2 :
            /\ SizeOf(SubSeq(v, 1, n)) <= 0
            /\ \A i \in 1..n : v[i] # CR
            /\ SubSeq(v, n + 1, n + 2) = CRLF
            /\ UpFramed[v] = <<>>
      BY <1>4 DEF LastChunk
    <2> DEFINE line == Take(v, n)
               more == Drop(v, n)
    <2>2. n \in 0..Len(v) /\ n + 1 \in 1..Len(v) - 1 /\ n + 2 = n + 1 + 1 /\ n \in Nat
      BY <1>2
    <2>3. /\ line \in Bytes /\ Len(line) = n /\ \A i \in 1..n : line[i] = v[i]
          /\ more \in Bytes /\ Len(more) = Len(v) - n
          /\ \A i \in 1..Len(v) - n : more[i] = v[n + i]
          /\ v = line \o more
      <3>1. /\ line \in Bytes /\ Len(line) = n /\ \A i \in 1..n : line[i] = v[i]
            /\ more \in Bytes /\ Len(more) = Len(v) - n
            /\ \A i \in 1..Len(v) - n : more[i] = v[n + i]
        BY <1>1, <2>2, PartsAreSeqs, ZenonT(60) DEF Bytes
      <3>2. v = line \o more
        BY <1>1, <2>2, TakeAndDrop, Zenon DEF Bytes
      <3> QED BY <3>1, <3>2
    <2>4. v[n + 1] = CR /\ v[n + 2] = LF
      BY <1>1, <2>1, <2>2, TwoBytes
    <2> HIDE DEF line, more
    <2>5. 2 \in 0..Len(more)
      BY <1>2, <2>2, <2>3
    <2>6. /\ Take(more, 2) \in Bytes /\ Len(Take(more, 2)) = 2
          /\ \A i \in 1..2 : Take(more, 2)[i] = more[i]
          /\ Drop(more, 2) \in Bytes
          /\ more = Take(more, 2) \o Drop(more, 2)
      <3>1. more \in Seq(UpByte)
        BY <2>3 DEF Bytes
      <3> QED BY <2>5, <3>1, PartsAreSeqs, BytesParts DEF Bytes
    <2>7. Take(more, 2)[1] = CR /\ Take(more, 2)[2] = LF
      BY <1>2, <2>2, <2>3, <2>4, <2>6
    <2>8. Take(more, 2) = CRLF
      <3>1. \A i \in 1..2 : Take(more, 2)[i] = CRLF[i]
        BY <2>7, LineEnd
      <3> QED BY <2>6, <3>1, LineEnd, SeqEqual DEF Bytes
    <2>9. Begins(v, line, Drop(more, 2))
      BY <2>1, <2>3, <2>6, <2>8 DEF Begins
    <2>10. SizeOf(line) <= 0
      BY <2>1 DEF line, Take
    <2> QED BY <1>1, <1>3, <2>1, <2>3, <2>6, <2>9, <2>10
  <1>5. CASE FirstChunk(v)
    <2>0. PICK line \in DOMAIN UpSize, rest \in DOMAIN UpFramed :
            LET data == SubSeq(UpFramed[v], 1, UpSize[line])
            IN  /\ UpSize[line] \in 1..Len(UpFramed[v])
                /\ v = line \o CRLF \o data \o CRLF \o rest
                /\ UpFramed[v] = data \o UpFramed[rest]
      BY <1>5 DEF FirstChunk
    <2>1. PICK data :
            /\ data = SubSeq(UpFramed[v], 1, UpSize[line])
            /\ UpSize[line] \in 1..Len(UpFramed[v])
            /\ v = line \o CRLF \o data \o CRLF \o rest
            /\ UpFramed[v] = data \o UpFramed[rest]
      BY <2>0
    <2>2. Len(UpFramed[v]) \in Nat /\ UpSize[line] \in 0..Len(UpFramed[v]) /\ UpSize[line] > 0
      BY <1>1, <2>1, BytesConcat
    <2>3. data \in Bytes /\ Len(data) = UpSize[line]
      BY <1>1, <2>1, <2>2, BytesParts DEF Take
    <2>4. line \in Bytes /\ rest \in Bytes /\ \A i \in 1..Len(line) : line[i] # CR
      BY <2>1, UpAssumption DEF Bytes
    <2>5. SizeOf(line) = UpSize[line]
      BY <2>1 DEF SizeOf
    <2>6. v = line \o (CRLF \o (data \o (CRLF \o rest)))
      <3>1. /\ line \o CRLF \in Bytes /\ line \o CRLF \o data \in Bytes
            /\ CRLF \o rest \in Bytes /\ data \o (CRLF \o rest) \in Bytes
        BY <2>3, <2>4, LineEnd, BytesConcat, Zenon
      <3>2. v = (line \o CRLF \o data) \o (CRLF \o rest)
        <4>1. ASSUME NEW s \in Bytes PROVE (s \o CRLF) \o rest = s \o (CRLF \o rest)
          <5>1. Associates(s, CRLF, rest)
            BY <2>4, LineEnd, BytesAssociate, Zenon
          <5> QED BY <5>1, Zenon DEF Associates
        <4> QED BY <2>1, <3>1, <4>1, Zenon
      <3>3. v = (line \o CRLF) \o (data \o (CRLF \o rest))
        <4>1. ASSUME NEW a \in Bytes, NEW c \in Bytes PROVE (a \o data) \o c = a \o (data \o c)
          <5>1. Associates(a, data, c)
            BY <2>3, BytesAssociate, Zenon
          <5> QED BY <5>1, Zenon DEF Associates
        <4> QED BY <3>1, <3>2, <4>1, Zenon
      <3>4. ASSUME NEW t \in Bytes PROVE (line \o CRLF) \o t = line \o (CRLF \o t)
        <4>1. Associates(line, CRLF, t)
          BY <2>4, LineEnd, BytesAssociate, Zenon
        <4> QED BY <4>1, Zenon DEF Associates
      <3> QED BY <3>1, <3>3, <3>4, Zenon
    <2>7. CRLF \o rest \in Bytes /\ data \o (CRLF \o rest) \in Bytes
      BY <2>3, <2>4, LineEnd, BytesConcat, Zenon
    <2>8. Begins(v, line, data \o (CRLF \o rest))
      BY <2>4, <2>6, <2>7 DEF Begins
    <2>9. Opens(v, line, data \o (CRLF \o rest))
      BY <2>1, <2>3, <2>5 DEF Opens
    <2> QED BY <1>1, <1>3, <2>2, <2>4, <2>5, <2>7, <2>8, <2>9
  <1> QED BY <1>1, <1>4, <1>5

\* Where the first line ends in what has arrived, if it does.
LineEnds(buf) == {i \in 1..Len(buf) - 1 : SubSeq(buf, i, i + 1) = CRLF}

LEMMA LineIsFound ==
    ASSUME NEW buf \in Bytes, NEW w \in Bytes, NEW line, NEW r, Begins(buf \o w, line, r)
    PROVE  /\ LineEnds(buf) # {} =>
                /\ Min(LineEnds(buf)) = Len(line) + 1
                /\ Len(line) + 2 \in 0..Len(buf)
                /\ Take(buf, Len(line)) = line
                /\ Drop(buf, Len(line) + 2) \o w = r
           /\ w = <<>> => LineEnds(buf) # {}
  <1> DEFINE v == buf \o w
             more == CRLF \o r
  <1>1. /\ line \in Bytes /\ r \in Bytes /\ more \in Bytes /\ v \in Bytes
        /\ v = line \o more
    BY LineEnd, BytesConcat DEF Begins
  <1>2. PICK n, b : n = Len(line) /\ b = Len(buf) /\ n \in Nat /\ b \in Nat
    BY <1>1, BytesConcat
  <1>3. /\ \A i \in 1..2 : more[i] = CRLF[i]
        /\ Len(more) \in Nat /\ Len(more) >= 2
    <2>1. Len(r) \in Nat /\ Len(more) = 2 + Len(r)
          /\ \A i \in 1..Len(CRLF) + Len(r) :
               more[i] = IF i <= Len(CRLF) THEN CRLF[i] ELSE r[i - Len(CRLF)]
      <3>1. CRLF \in Seq(UpByte) /\ r \in Seq(UpByte) /\ Len(CRLF) = 2 /\ Len(r) \in Nat
        BY <1>1, LineEnd, LenProperties DEF Bytes
      <3>2. /\ Len(CRLF \o r) = Len(CRLF) + Len(r)
            /\ \A i \in 1..Len(CRLF) + Len(r) :
                 (CRLF \o r)[i] = IF i <= Len(CRLF) THEN CRLF[i] ELSE r[i - Len(CRLF)]
        BY <3>1, ConcatProperties
      <3> QED BY <3>1, <3>2, Zenon
    <2> HIDE DEF more
    <2>2. Len(CRLF) = 2
      BY LineEnd
    <2> QED BY <2>1, <2>2
  <1>4. /\ \A i \in 1..n : v[i] # CR
        /\ v[n + 1] = CR /\ v[n + 2] = LF
        /\ Len(v) >= n + 2
    <2>1. /\ Len(v) = n + Len(more)
          /\ \A i \in 1..n + Len(more) : v[i] = IF i <= n THEN line[i] ELSE more[i - n]
      BY <1>1, <1>2, ConcatProperties DEF Bytes
    <2>2. \A i \in 1..n : line[i] # CR
      BY <1>2 DEF Begins
    <2>3. more[1] = CR /\ more[2] = LF
      BY <1>3, LineEnd
    <2> HIDE DEF v, more
    <2>4. \A i \in 1..n : v[i] # CR
      BY <1>2, <1>3, <2>1, <2>2
    <2>5. ASSUME NEW i \in Nat, i = n + 1 PROVE v[i] = more[1]
      <3>1. i \in 1..n + Len(more) /\ ~(i <= n) /\ i - n = 1
        BY <1>2, <1>3, <2>5
      <3>2. v[i] = more[i - n]
        BY <2>1, <3>1
      <3> QED BY <3>1, <3>2
    <2>6. ASSUME NEW i \in Nat, i = n + 2 PROVE v[i] = more[2]
      <3>1. i \in 1..n + Len(more) /\ ~(i <= n) /\ i - n = 2
        BY <1>2, <1>3, <2>6
      <3>2. v[i] = more[i - n]
        BY <2>1, <3>1
      <3> QED BY <3>1, <3>2
    <2>7. v[n + 1] = CR /\ v[n + 2] = LF
      BY <1>2, <2>3, <2>5, <2>6
    <2>8. Len(v) >= n + 2
      BY <1>2, <1>3, <2>1
    <2> QED BY <2>4, <2>7, <2>8
  <1>5. /\ \A i \in 1..b : buf[i] = v[i]
        /\ w = <<>> => Len(v) = b
    <2>1. /\ Len(v) = b + Len(w) /\ Len(w) \in Nat
          /\ \A i \in 1..b + Len(w) : v[i] = IF i <= b THEN buf[i] ELSE w[i - b]
      <3>1. buf \in Seq(UpByte) /\ w \in Seq(UpByte) /\ Len(w) \in Nat
        BY LenProperties DEF Bytes
      <3> QED BY <1>2, <3>1, ConcatProperties
    <2>2. w = <<>> => Len(w) = 0
      BY EmptySeq
    <2> HIDE DEF v
    <2> QED BY <1>2, <2>1, <2>2
  <1> HIDE DEF v, more
  <1>6. \A i \in 1..b - 1 : i \in LineEnds(buf) <=> v[i] = CR /\ v[i + 1] = LF
    <2> SUFFICES ASSUME NEW i \in 1..b - 1
                 PROVE  i \in LineEnds(buf) <=> v[i] = CR /\ v[i + 1] = LF
      OBVIOUS
    <2>1. SubSeq(buf, i, i + 1) = CRLF <=> buf[i] = CR /\ buf[i + 1] = LF
      BY <1>2, TwoBytes
    <2>2. i \in 1..b /\ i + 1 \in 1..b
      BY <1>2
    <2>3. buf[i] = v[i] /\ buf[i + 1] = v[i + 1]
      BY <1>5, <2>2
    <2>4. i \in LineEnds(buf) <=> SubSeq(buf, i, i + 1) = CRLF
      BY <1>2 DEF LineEnds
    <2> QED BY <2>1, <2>3, <2>4
  <1>7. LineEnds(buf) \in SUBSET Nat /\ \A i \in LineEnds(buf) : i \in 1..b - 1
    BY <1>2 DEF LineEnds
  <1>8. ASSUME LineEnds(buf) # {}
        PROVE  Min(LineEnds(buf)) = n + 1 /\ n + 2 \in 0..b
    <2>1. PICK m : /\ m = Min(LineEnds(buf)) /\ m \in LineEnds(buf)
                   /\ \A i \in LineEnds(buf) : m <= i
      BY <1>7, <1>8, LeastNatural
    <2>2. m \in 1..b - 1 /\ v[m] = CR
      BY <1>6, <1>7, <2>1
    <2>3. ~(m \in 1..n)
      BY <1>4, <2>2
    <2>4. n + 1 \in 1..b - 1 /\ m >= n + 1
      BY <1>2, <2>2, <2>3
    <2>5. v[n + 1 + 1] = LF
      <3>1. n + 1 + 1 = n + 2
        BY <1>2
      <3> QED BY <1>4, <3>1
    <2>6. n + 1 \in LineEnds(buf)
      BY <1>4, <1>6, <2>4, <2>5
    <2>7. m <= n + 1
      BY <2>1, <2>6
    <2> QED BY <1>2, <2>1, <2>2, <2>4, <2>7
  <1>9. ASSUME n + 2 \in 0..b
        PROVE  Take(buf, n) = line /\ Drop(buf, n + 2) \o w = r
    <2>1. line \o CRLF \in Bytes /\ Len(line \o CRLF) = n + 2
      <3>1. line \o CRLF \in Bytes /\ Len(line \o CRLF) = Len(line) + Len(CRLF)
        BY <1>1, LineEnd, BytesJoin
      <3> QED BY <1>2, <3>1, LineEnd
    <2>2. n \in 0..Len(buf) /\ n + 2 \in 0..Len(buf)
      BY <1>2, <1>9
    <2>3. Take(v, n) = line
      BY <1>1, <1>2, BytesOfConcat
    <2>4. Take(v, n) = Take(buf, n)
      BY <2>2, BytesOfConcat DEF v
    <2>5. v = (line \o CRLF) \o r
      <3>1. (line \o CRLF) \o r = line \o (CRLF \o r)
        <4>1. line \in Bytes /\ CRLF \in Bytes /\ r \in Bytes
          BY <1>1, LineEnd
        <4>2. Associates(line, CRLF, r)
          BY <4>1, BytesAssociate, Zenon
        <4> QED BY <4>2, Zenon DEF Associates
      <3> QED BY <1>1, <3>1 DEF more
    <2>6. Drop(v, n + 2) = r
      <3>1. Drop((line \o CRLF) \o r, Len(line \o CRLF)) = r
        BY <1>1, <2>1, BytesOfConcat
      <3> QED BY <2>1, <2>5, <3>1
    <2>7. Drop(v, n + 2) = Drop(buf, n + 2) \o w
      BY <2>2, BytesOfConcat DEF v
    <2> QED BY <2>3, <2>4, <2>6, <2>7
  <1>10. ASSUME w = <<>> PROVE LineEnds(buf) # {}
    <2>1. n + 1 \in 1..b - 1 /\ n + 1 + 1 = n + 2
      BY <1>2, <1>4, <1>5, <1>10
    <2>2. n + 1 \in LineEnds(buf)
      BY <1>4, <1>6, <2>1
    <2> QED BY <2>2
  <1> QED BY <1>2, <1>8, <1>9, <1>10

-----------------------------------------------------------------------------
(* One turn of the loop in push().                                         *)

Decoder == [state : {"size", "data", "crlf"}, buf : Bytes, remaining : Nat,
            done : BOOLEAN, out : Bytes, pieces : Nat]

\* What the decoder d still has to give when the bytes w come behind its buffer.
Owes(d, w, q) ==
    IF d.done THEN q = <<>>
    ELSE \/ d.state = "size" /\ d.buf \o w \in DOMAIN UpFramed /\ q = UpFramed[d.buf \o w]
         \/ d.state = "data" /\ d.remaining > 0 /\ \E data \in Bytes, rest \in DOMAIN UpFramed :
                /\ Len(data) = d.remaining
                /\ d.buf \o w = data \o (CRLF \o rest)
                /\ q = data \o UpFramed[rest]
         \/ d.state = "crlf" /\ \E rest \in DOMAIN UpFramed :
                d.buf \o w = CRLF \o rest /\ q = UpFramed[rest]

\* No turn goes on before more bytes arrive.
Waits(d) == \/ d.done
            \/ d.state = "size" /\ LineEnds(d.buf) = {}
            \/ d.state = "data" /\ d.buf = <<>>
            \/ d.state = "crlf" /\ Len(d.buf) < 2

\* e gives what d owes as far as e has gone.
Gives(d, e, w, q) ==
    /\ e \in Decoder
    /\ \E g, r \in Bytes : e.out = d.out \o g /\ q = g \o r /\ Owes(e, w, r)

LEMMA TurnOfSize ==
    ASSUME NEW d \in Decoder, NEW w \in Bytes, NEW q \in Bytes, Owes(d, w, q), ~Waits(d),
           d.state = "size"
    PROVE  Gives(d, DecodeTurn(d), w, q) /\ Len(DecodeTurn(d).buf) < Len(d.buf)
  <1>1. d.buf \in Bytes /\ d.out \in Bytes /\ ~d.done /\ LineEnds(d.buf) # {}
        /\ Len(d.buf) \in Nat
    BY BytesConcat DEF Decoder, Waits
  <1>2. d.buf \o w \in DOMAIN UpFramed /\ q = UpFramed[d.buf \o w]
    BY <1>1 DEF Owes
  <1>3. PICK line, r \in Bytes :
          /\ Begins(d.buf \o w, line, r) /\ SizeOf(line) \in Int
          /\ IF SizeOf(line) <= 0 THEN q = <<>> ELSE Opens(d.buf \o w, line, r)
    BY <1>2, FramedBodies
  <1> DEFINE n == Len(line) + 2
             rest == Drop(d.buf, n)
  <1>4. /\ Min(LineEnds(d.buf)) = Len(line) + 1 /\ n \in 0..Len(d.buf)
        /\ Take(d.buf, Len(line)) = line /\ rest \o w = r
        /\ Len(line) \in Nat
    <2>1. Len(line) \in Nat
      BY BytesConcat
    <2>2. Begins(d.buf \o w, line, r)
      BY <1>3
    <2> QED BY <1>1, <2>1, <2>2, LineIsFound
  <1>5. rest \in Bytes /\ Len(rest) = Len(d.buf) - n
    BY <1>1, <1>4, BytesParts
  <1>6. /\ SubSeq(d.buf, 1, Min(LineEnds(d.buf)) - 1) = line
        /\ SubSeq(d.buf, Min(LineEnds(d.buf)) + 2, Len(d.buf)) = rest
    <2>1. Min(LineEnds(d.buf)) - 1 = Len(line) /\ Min(LineEnds(d.buf)) + 2 = n + 1
      BY <1>4
    <2> HIDE DEF n
    <2> QED BY <1>4, <2>1 DEF Take, Drop
  <1> HIDE DEF rest
  <1>7. Len(rest) < Len(d.buf)
    BY <1>1, <1>4, <1>5
  <1>8. q \o <<>> = q /\ <<>> \o q = q /\ d.out \o <<>> = d.out /\ <<>> \in Bytes
    BY <1>1, BytesConcat
  <1>9. CASE SizeOf(line) <= 0
    <2>1. DecodeTurn(d) = [d EXCEPT !.buf = rest, !.done = TRUE]
      BY <1>1, <1>6, <1>9 DEF DecodeTurn, ReadSize, LineEnds
    <2>2. /\ DecodeTurn(d) \in Decoder /\ DecodeTurn(d).done /\ DecodeTurn(d).out = d.out
          /\ DecodeTurn(d).buf = rest
      BY <1>5, <2>1 DEF Decoder
    <2>3. q = <<>>
      BY <1>3, <1>9
    <2>4. Owes(DecodeTurn(d), w, q)
      BY <2>2, <2>3 DEF Owes
    <2> QED BY <1>7, <1>8, <2>2, <2>4 DEF Gives
  <1>10. CASE ~(SizeOf(line) <= 0)
    <2>1. DecodeTurn(d) = [d EXCEPT !.buf = rest, !.remaining = SizeOf(line), !.state = "data"]
      BY <1>1, <1>6, <1>10 DEF DecodeTurn, ReadSize, LineEnds
    <2>2. SizeOf(line) \in Nat /\ SizeOf(line) > 0
      BY <1>3, <1>10
    <2>3. /\ DecodeTurn(d) \in Decoder /\ ~DecodeTurn(d).done /\ DecodeTurn(d).out = d.out
          /\ DecodeTurn(d).buf = rest /\ DecodeTurn(d).state = "data"
          /\ DecodeTurn(d).remaining = SizeOf(line)
      BY <1>1, <1>5, <2>1, <2>2 DEF Decoder
    <2>4. Owes(DecodeTurn(d), w, q)
      BY <1>2, <1>3, <1>4, <1>10, <2>2, <2>3 DEF Owes, Opens
    <2> QED BY <1>7, <1>8, <2>3, <2>4 DEF Gives
  <1> QED BY <1>9, <1>10

LEMMA TurnOfData ==
    ASSUME NEW d \in Decoder, NEW w \in Bytes, NEW q \in Bytes, Owes(d, w, q), ~Waits(d),
           d.state = "data"
    PROVE  Gives(d, DecodeTurn(d), w, q) /\ Len(DecodeTurn(d).buf) < Len(d.buf)
  <1>1. d.buf \in Bytes /\ d.out \in Bytes /\ ~d.done /\ d.buf # <<>> /\ d.remaining \in Nat
    BY DEF Decoder, Waits
  <1>2. PICK data \in Bytes, rest \in DOMAIN UpFramed :
          /\ Len(data) = d.remaining /\ d.remaining > 0
          /\ d.buf \o w = data \o (CRLF \o rest)
          /\ q = data \o UpFramed[rest]
    BY <1>1 DEF Owes
  <1>3. Len(d.buf) \in Nat /\ Len(d.buf) > 0
    BY <1>1, EmptySeq DEF Bytes
  <1> DEFINE take == IF d.remaining < Len(d.buf) THEN d.remaining ELSE Len(d.buf)
  <1>4. take \in 0..Len(d.buf) /\ take \in 0..Len(data) /\ take > 0 /\ take <= d.remaining
    BY <1>1, <1>2, <1>3
  <1> HIDE DEF take
  <1>5. /\ Take(d.buf, take) \in Bytes /\ Drop(d.buf, take) \in Bytes
        /\ Len(Drop(d.buf, take)) = Len(d.buf) - take
        /\ Take(data, take) \in Bytes /\ Drop(data, take) \in Bytes
        /\ Len(Drop(data, take)) = d.remaining - take
        /\ data = Take(data, take) \o Drop(data, take)
    <2>1. /\ Take(d.buf, take) \in Bytes /\ Drop(d.buf, take) \in Bytes
          /\ Len(Drop(d.buf, take)) = Len(d.buf) - take
      BY <1>1, <1>4, BytesParts
    <2>2. /\ Take(data, take) \in Bytes /\ Drop(data, take) \in Bytes
          /\ Len(Drop(data, take)) = Len(data) - take
          /\ data = Take(data, take) \o Drop(data, take)
      BY <1>4, BytesParts
    <2> QED BY <1>2, <2>1, <2>2
  <1>6. rest \in Bytes /\ UpFramed[rest] \in Bytes /\ CRLF \o rest \in Bytes
    BY FramedBodies, LineEnd, BytesConcat
  <1>7. /\ Take(d.buf, take) = Take(data, take)
        /\ Drop(d.buf, take) \o w = Drop(data, take) \o (CRLF \o rest)
    <2>1. /\ Take(d.buf \o w, take) = Take(d.buf, take)
          /\ Drop(d.buf \o w, take) = Drop(d.buf, take) \o w
      BY <1>1, <1>4, BytesOfConcat
    <2>2. /\ Take(data \o (CRLF \o rest), take) = Take(data, take)
          /\ Drop(data \o (CRLF \o rest), take) = Drop(data, take) \o (CRLF \o rest)
      <3> DEFINE f == CRLF \o rest
      <3>1. f \in Bytes
        BY <1>6
      <3> HIDE DEF f
      <3>2. Take(data \o f, take) = Take(data, take) /\ Drop(data \o f, take) = Drop(data, take) \o f
        BY <1>4, <3>1, BytesOfConcat
      <3> QED BY <3>2 DEF f
    <2> QED BY <1>2, <2>1, <2>2
  <1>8. q = Take(data, take) \o (Drop(data, take) \o UpFramed[rest])
    <2>1. (Take(data, take) \o Drop(data, take)) \o UpFramed[rest]
          = Take(data, take) \o (Drop(data, take) \o UpFramed[rest])
      <3> DEFINE a == Take(data, take)
                 b == Drop(data, take)
                 c == UpFramed[rest]
      <3>1. a \in Bytes /\ b \in Bytes /\ c \in Bytes
        BY <1>5, <1>6
      <3> HIDE DEF a, b, c
      <3>2. Associates(a, b, c)
        BY <3>1, BytesAssociate, Zenon
      <3> QED BY <3>2, Zenon DEF a, b, c, Associates
    <2> QED BY <1>2, <1>5, <2>1
  <1> DEFINE turned ==
        [d EXCEPT !.out = d.out \o Take(d.buf, take), !.pieces = d.pieces + 1,
                  !.buf = Drop(d.buf, take), !.remaining = d.remaining - take,
                  !.state = IF d.remaining = take THEN "crlf" ELSE "data"]
  <1>9. DecodeTurn(d) = turned
    BY <1>1, <1>4 DEF DecodeTurn, ReadData, Take, Drop, Decoder, take
  <1>10. d.out \o Take(d.buf, take) \in Bytes /\ Drop(data, take) \o UpFramed[rest] \in Bytes
    BY <1>1, <1>5, <1>6, BytesConcat
  <1>11. d.remaining - take \in Nat
    BY <1>1, <1>2, <1>4
  <1>12. /\ DecodeTurn(d) \in Decoder
         /\ DecodeTurn(d).out = d.out \o Take(d.buf, take)
         /\ DecodeTurn(d).buf = Drop(d.buf, take)
         /\ DecodeTurn(d).remaining = d.remaining - take
         /\ DecodeTurn(d).state = IF d.remaining = take THEN "crlf" ELSE "data"
         /\ ~DecodeTurn(d).done
    <2>1. d.pieces + 1 \in Nat /\ (IF d.remaining = take THEN "crlf" ELSE "data") \in {"size", "data", "crlf"}
      BY DEF Decoder
    <2>2. turned \in Decoder /\ ~turned.done
      BY <1>1, <1>5, <1>10, <1>11, <2>1 DEF Decoder
    <2> QED BY <1>9, <2>2 DEF Decoder
  <1>13. Owes(DecodeTurn(d), w, Drop(data, take) \o UpFramed[rest])
    <2>1. CASE d.remaining = take
      <3>1. Drop(data, take) = <<>>
        <4>1. Len(Drop(data, take)) = 0
          BY <1>1, <1>5, <2>1
        <4> QED BY <1>5, <4>1, EmptySeq DEF Bytes
      <3>2. /\ Drop(data, take) \o UpFramed[rest] = UpFramed[rest]
            /\ Drop(data, take) \o (CRLF \o rest) = CRLF \o rest
        BY <1>6, <3>1, BytesConcat
      <3> QED BY <1>7, <1>12, <2>1, <3>2 DEF Owes
    <2>2. CASE d.remaining # take
      <3>1. d.remaining - take > 0
        BY <1>1, <1>2, <1>4, <2>2
      <3> QED BY <1>5, <1>7, <1>12, <2>2, <3>1 DEF Owes
    <2> QED BY <2>1, <2>2
  <1>14. Gives(d, DecodeTurn(d), w, q)
    BY <1>5, <1>7, <1>8, <1>10, <1>12, <1>13 DEF Gives
  <1> QED BY <1>3, <1>4, <1>5, <1>12, <1>14

LEMMA TurnOfLineEnd ==
    ASSUME NEW d \in Decoder, NEW w \in Bytes, NEW q \in Bytes, Owes(d, w, q), ~Waits(d),
           d.state = "crlf"
    PROVE  Gives(d, DecodeTurn(d), w, q) /\ Len(DecodeTurn(d).buf) < Len(d.buf)
  <1>1. /\ d.buf \in Bytes /\ d.out \in Bytes /\ ~d.done /\ 2 \in 0..Len(d.buf)
        /\ Len(d.buf) \in Nat
    BY BytesConcat DEF Decoder, Waits
  <1>2. PICK rest \in DOMAIN UpFramed : d.buf \o w = CRLF \o rest /\ q = UpFramed[rest]
    BY <1>1 DEF Owes
  <1>3. rest \in Bytes /\ CRLF \in Bytes /\ Len(CRLF) = 2
    BY FramedBodies, LineEnd
  <1>4. Drop(d.buf, 2) \in Bytes /\ Len(Drop(d.buf, 2)) = Len(d.buf) - 2
    BY <1>1, BytesParts
  <1>5. Drop(d.buf, 2) \o w = rest
    <2>1. Drop(d.buf \o w, 2) = Drop(d.buf, 2) \o w
      BY <1>1, BytesOfConcat, ZenonT(60)
    <2>2. Drop(CRLF \o rest, 2) = rest
      <3>1. Drop(CRLF \o rest, Len(CRLF)) = rest
        BY <1>3, BytesOfConcat
      <3> QED BY <1>3, <3>1
    <2> QED BY <1>2, <2>1, <2>2
  <1>6. DecodeTurn(d) = [d EXCEPT !.buf = Drop(d.buf, 2), !.state = "size"]
    <2>1. 2 + 1 = 3 /\ ~(Len(d.buf) < 2)
      BY <1>1
    <2> QED BY <1>1, <2>1 DEF DecodeTurn, SkipEnd, Drop, Decoder
  <1>7. /\ DecodeTurn(d) \in Decoder /\ DecodeTurn(d).out = d.out
        /\ DecodeTurn(d).buf = Drop(d.buf, 2) /\ DecodeTurn(d).state = "size"
        /\ ~DecodeTurn(d).done
    BY <1>1, <1>4, <1>6 DEF Decoder
  <1>8. Owes(DecodeTurn(d), w, q)
    BY <1>2, <1>5, <1>7 DEF Owes
  <1>9. <<>> \o q = q /\ d.out \o <<>> = d.out /\ <<>> \in Bytes
    BY <1>1, BytesConcat
  <1>10. Gives(d, DecodeTurn(d), w, q)
    BY <1>7, <1>8, <1>9 DEF Gives
  <1> QED BY <1>1, <1>4, <1>7, <1>10

LEMMA WaitingTurn ==
    ASSUME NEW d \in Decoder, Waits(d)
    PROVE  DecodeTurn(d) = d
  <1>1. CASE d.done
    BY <1>1 DEF DecodeTurn
  <1>2. CASE ~d.done /\ d.state = "size"
    BY <1>2 DEF DecodeTurn, ReadSize, LineEnds, Waits
  <1>3. CASE ~d.done /\ d.state = "data"
    <2>1. d.buf = <<>> /\ Len(d.buf) = 0 /\ d.remaining \in Nat
      BY <1>3, EmptySeq DEF Waits, Decoder
    <2> QED BY <1>3, <2>1 DEF DecodeTurn, ReadData
  <1>4. CASE ~d.done /\ d.state = "crlf"
    BY <1>4 DEF DecodeTurn, SkipEnd, Waits
  <1> QED BY <1>1, <1>2, <1>3, <1>4 DEF Decoder

\* A turn gives what is owed; it takes a byte or waits.
LEMMA TurnGives ==
    ASSUME NEW d \in Decoder, NEW w \in Bytes, NEW q \in Bytes, Owes(d, w, q)
    PROVE  /\ Gives(d, DecodeTurn(d), w, q)
           /\ Waits(d) \/ Len(DecodeTurn(d).buf) < Len(d.buf)
           /\ Waits(d) => DecodeTurn(d) = d
  <1>1. CASE Waits(d)
    <2>1. <<>> \o q = q /\ d.out \o <<>> = d.out /\ <<>> \in Bytes
      BY BytesConcat DEF Decoder
    <2> QED BY <1>1, <2>1, WaitingTurn DEF Gives
  <1>2. CASE ~Waits(d)
    BY <1>2, TurnOfSize, TurnOfData, TurnOfLineEnd DEF Decoder
  <1> QED BY <1>1, <1>2

\* What is given in two goes is given.
LEMMA GivesOn ==
    ASSUME NEW d \in Decoder, NEW e, NEW f, NEW w \in Bytes, NEW q \in Bytes,
           Gives(d, e, w, q),
           \A r \in Bytes : Owes(e, w, r) => Gives(e, f, w, r)
    PROVE  Gives(d, f, w, q)
  <1>1. PICK g, r \in Bytes : e.out = d.out \o g /\ q = g \o r /\ Owes(e, w, r)
    BY DEF Gives
  <1>2. PICK h, s \in Bytes : f \in Decoder /\ f.out = e.out \o h /\ r = h \o s /\ Owes(f, w, s)
    BY <1>1 DEF Gives
  <1>3. d.out \in Bytes
    BY DEF Decoder
  <1>4. g \o h \in Bytes
    BY BytesJoin, Zenon
  <1>5. f.out = d.out \o (g \o h)
    <2>1. (d.out \o g) \o h = d.out \o (g \o h)
      <3>1. Associates(d.out, g, h)
        BY <1>3, BytesAssociate, Zenon
      <3> QED BY <3>1, Zenon DEF Associates
    <2> QED BY <1>1, <1>2, <2>1, Zenon
  <1>6. q = (g \o h) \o s
    <2>1. (g \o h) \o s = g \o (h \o s)
      <3>1. Associates(g, h, s)
        BY BytesAssociate, Zenon
      <3> QED BY <3>1, Zenon DEF Associates
    <2> QED BY <1>1, <1>2, <2>1, Zenon
  <1> QED BY <1>2, <1>4, <1>5, <1>6, Zenon DEF Gives

-----------------------------------------------------------------------------
(* push() as a whole.                                                      *)

\* As many turns as there are bytes are enough.
LEMMA DecodeGives ==
    ASSUME NEW d \in Decoder, NEW w \in Bytes, NEW q \in Bytes, Owes(d, w, q)
    PROVE  Gives(d, Decode(d), w, q) /\ Waits(Decode(d))
  <1> DEFINE k == Len(d.buf)
             t(n) == Turns(d)[n]
             Good(n) == Gives(d, t(n), w, q) /\ (Waits(t(n)) \/ Len(t(n).buf) <= k - n)
             T == {n \in 0..k : Good(n)}
  <1>1. k \in Nat /\ t(0) = d /\ \A n \in 0..k - 1 : t(n + 1) = DecodeTurn(t(n))
    BY Recursion, BytesConcat DEF Decoder
  <1> HIDE DEF k, t
  <1>2. Good(0)
    <2>1. <<>> \o q = q /\ d.out \o <<>> = d.out /\ <<>> \in Bytes
      BY BytesConcat DEF Decoder
    <2>2. Gives(d, d, w, q)
      BY <2>1 DEF Gives
    <2> QED BY <1>1, <2>2 DEF k
  <1>3. ASSUME NEW n \in 0..k - 1, Good(n) PROVE Good(n + 1)
    <2> DEFINE e == t(n)
               f == t(n + 1)
    <2>1. f = DecodeTurn(e)
      BY <1>1
    <2>2. e \in Decoder /\ \E r \in Bytes : Owes(e, w, r)
      BY <1>3 DEF Gives
    <2>3. \A r \in Bytes : Owes(e, w, r) =>
            /\ Gives(e, f, w, r)
            /\ Waits(e) \/ Len(f.buf) < Len(e.buf)
            /\ Waits(e) => f = e
      BY <2>1, <2>2, TurnGives
    <2>4. Gives(d, f, w, q)
      BY <1>3, <2>3, GivesOn
    <2>5. Len(e.buf) \in Nat /\ Len(f.buf) \in Nat
      BY <1>3, <2>4, BytesConcat DEF Gives, Decoder
    <2> HIDE DEF e, f
    <2>6. Waits(f) \/ Len(f.buf) <= k - (n + 1)
      <3>1. CASE Waits(e)
        BY <2>2, <2>3, <3>1
      <3>2. CASE ~Waits(e)
        <4>1. Len(e.buf) <= k - n /\ Len(f.buf) < Len(e.buf)
          BY <1>3, <2>2, <2>3, <3>2 DEF e
        <4> QED BY <1>1, <2>5, <4>1
      <3> QED BY <3>1, <3>2
    <2> QED BY <2>4, <2>6 DEF f
  <1>4. Good(k)
    <2> HIDE DEF Good
    <2>1. T \in SUBSET (0..k) /\ 0 \in T /\ \A n \in 0..k - 1 : n \in T => n + 1 \in T
      BY <1>1, <1>2, <1>3
    <2> HIDE DEF T
    <2>2. k \in T
      BY <1>1, <2>1, InductionOn
    <2> QED BY <2>2 DEF T
  <1>5. Decode(d) = t(k)
    BY DEF Decode, t, k
  <1>6. ASSUME Len(t(k).buf) <= k - k PROVE Waits(t(k))
    <2>1. t(k) \in Decoder /\ t(k).buf \in Bytes /\ Len(t(k).buf) \in Nat
      BY <1>4, BytesConcat DEF Gives, Decoder
    <2>2. Len(t(k).buf) = 0
      BY <1>1, <1>6, <2>1
    <2>3. t(k).buf = <<>>
      BY <2>1, <2>2, EmptySeq DEF Bytes
    <2>4. LineEnds(t(k).buf) = {}
      BY <2>2 DEF LineEnds
    <2> QED BY <2>1, <2>2, <2>3, <2>4 DEF Waits, Decoder
  <1> QED BY <1>4, <1>5, <1>6

\* A decoder that waits although nothing more comes owes nothing.
LEMMA NothingIsKept ==
    ASSUME NEW d \in Decoder, NEW q \in Bytes, Owes(d, <<>>, q), Waits(d)
    PROVE  d.done /\ q = <<>>
  <1> SUFFICES ASSUME ~d.done PROVE FALSE
    BY DEF Owes
  <1>1. d.buf \in Bytes /\ Len(d.buf) \in Nat /\ d.buf \o <<>> = d.buf /\ <<>> \in Bytes
    BY BytesConcat DEF Decoder
  <1>2. CASE d.state = "size"
    <2>1. d.buf \o <<>> \in DOMAIN UpFramed /\ LineEnds(d.buf) = {}
      BY <1>2 DEF Owes, Waits
    <2>2. \E line, r : Begins(d.buf \o <<>>, line, r)
      BY <2>1, FramedBodies
    <2> QED BY <1>1, <2>1, <2>2, LineIsFound
  <1>3. CASE d.state = "data"
    <2>1. PICK data \in Bytes, rest \in DOMAIN UpFramed :
            d.buf = data \o (CRLF \o rest) /\ Len(data) > 0
      BY <1>1, <1>3 DEF Owes, Decoder
    <2>2. CRLF \o rest \in Bytes /\ Len(CRLF \o rest) \in Nat /\ Len(data) \in Nat
      BY FramedBodies, LineEnd, BytesConcat
    <2>3. Len(d.buf) = Len(data) + Len(CRLF \o rest)
      BY <2>1, <2>2, BytesConcat
    <2>4. Len(d.buf) = 0
      BY <1>3, EmptySeq DEF Waits
    <2> QED BY <2>1, <2>2, <2>3, <2>4
  <1>4. CASE d.state = "crlf"
    <2>1. PICK rest \in DOMAIN UpFramed : d.buf = CRLF \o rest
      BY <1>1, <1>4 DEF Owes
    <2>2. Len(rest) \in Nat /\ Len(d.buf) = 2 + Len(rest)
      <3>1. rest \in Bytes /\ CRLF \in Bytes /\ Len(CRLF) = 2
        BY FramedBodies, LineEnd
      <3>2. Len(CRLF \o rest) = Len(CRLF) + Len(rest)
        BY <3>1, BytesConcat
      <3> QED BY <2>1, <3>1, <3>2, BytesConcat
    <2> QED BY <1>4, <2>2 DEF Waits
  <1> QED BY <1>2, <1>3, <1>4 DEF Decoder

\* push() with bytes that arrive: what it returns, and what it then owes.
LEMMA PushGives ==
    ASSUME NEW bytes \in Bytes, NEW w \in Bytes, NEW q \in Bytes, upDec \in Decoder,
           Owes(upDec, bytes \o w, q)
    PROVE  LET d == [Push(bytes) EXCEPT !.out = <<>>, !.pieces = 0]
           IN  /\ d \in Decoder /\ Waits(d)
               /\ \E r \in Bytes : /\ Push(bytes).out \in Bytes
                                   /\ q = Push(bytes).out \o r /\ Owes(d, w, r)
  <1> DEFINE d0 == [upDec EXCEPT !.buf = upDec.buf \o bytes, !.out = <<>>, !.pieces = 0]
             got == Push(bytes)
             d == [got EXCEPT !.out = <<>>, !.pieces = 0]
  <1>1. upDec.buf \in Bytes /\ upDec.buf \o bytes \in Bytes /\ <<>> \in Bytes
    BY BytesConcat DEF Decoder
  <1>2. /\ d0 \in Decoder /\ d0.out = <<>> /\ d0.buf = upDec.buf \o bytes
        /\ d0.done = upDec.done /\ d0.state = upDec.state /\ d0.remaining = upDec.remaining
    BY <1>1 DEF Decoder
  <1>3. (upDec.buf \o bytes) \o w = upDec.buf \o (bytes \o w)
    BY <1>1, BytesConcat
  <1>4. Owes(d0, w, q)
    BY <1>2, <1>3 DEF Owes
  <1>5. got = Decode(d0)
    BY DEF Push
  <1> HIDE DEF d0, got
  <1>6. Gives(d0, got, w, q) /\ Waits(got)
    BY <1>2, <1>4, <1>5, DecodeGives
  <1>7. PICK g, r \in Bytes : got.out = <<>> \o g /\ q = g \o r /\ Owes(got, w, r)
    BY <1>2, <1>6 DEF Gives
  <1>8. got.out = g
    BY <1>7, BytesConcat
  <1>9. got \in Decoder
    BY <1>6 DEF Gives
  <1>10. /\ d \in Decoder /\ d.buf = got.buf /\ d.done = got.done /\ d.state = got.state
         /\ d.remaining = got.remaining
    BY <1>1, <1>9 DEF Decoder
  <1> HIDE DEF d
  <1>11. Waits(d) /\ Owes(d, w, r)
    BY <1>6, <1>7, <1>10 DEF Waits, Owes
  <1> QED BY <1>7, <1>8, <1>10, <1>11 DEF d, got

-----------------------------------------------------------------------------
(* The title.                                                              *)

\* Metadata that was found stays what it is when more bytes come.
LEMMA MetadataStays ==
    ASSUME NEW s \in Bytes, NEW r \in Bytes, HasMetadata(s)
    PROVE  HasMetadata(s \o r) /\ Metadata(s \o r) = Metadata(s)
  <1> DEFINE p == s \o r
  <1>1. PICK a, b : a = Len(s) /\ b = Len(p) /\ a \in Nat /\ b \in Nat /\ a <= b
    <2>1. Len(p) = Len(s) + Len(r) /\ Len(s) \in Nat /\ Len(r) \in Nat
      BY BytesConcat
    <2> HIDE DEF p
    <2>2. Len(p) \in Nat /\ Len(s) <= Len(p)
      BY <2>1
    <2> QED BY <2>1, <2>2
  <1>2. p \in Bytes /\ \A i \in 1..a : p[i] = s[i]
    <2>1. s \in Seq(UpByte) /\ r \in Seq(UpByte) /\ Len(r) \in Nat
      BY LenProperties DEF Bytes
    <2>2. p \in Seq(UpByte) /\ \A i \in 1..a + Len(r) : p[i] = IF i <= a THEN s[i] ELSE r[i - a]
      BY <1>1, <2>1, ConcatProperties
    <2> HIDE DEF p
    <2> QED BY <1>1, <2>1, <2>2 DEF Bytes
  <1> HIDE DEF p
  <1>3. /\ LengthBytes(s) \in SUBSET Nat /\ LengthBytes(p) \in SUBSET Nat
        /\ \A i \in LengthBytes(s) : i \in 1..a
    BY <1>1 DEF LengthBytes
  <1>4. \A i \in 1..a : i \in LengthBytes(s) <=> i \in LengthBytes(p)
    BY <1>1, <1>2 DEF LengthBytes
  <1>5. PICK m : /\ m = Min(LengthBytes(s)) /\ m \in LengthBytes(s)
                 /\ \A i \in LengthBytes(s) : m <= i
    BY <1>3, LeastNatural DEF HasMetadata
  <1>6. m \in 1..a /\ m \in LengthBytes(p)
    BY <1>3, <1>4, <1>5
  <1>7. PICK l : /\ l = Min(LengthBytes(p)) /\ l \in LengthBytes(p)
                 /\ \A i \in LengthBytes(p) : l <= i
    BY <1>3, <1>6, LeastNatural
  <1>8. l = m
    <2>1. l \in Nat /\ l <= m
      BY <1>3, <1>6, <1>7
    <2>2. l \in 1..a
      BY <1>1, <1>6, <1>7, <2>1 DEF LengthBytes
    <2>3. m <= l
      BY <1>4, <1>5, <1>7, <2>2
    <2> QED BY <1>6, <2>1, <2>3
  <1>9. PICK k : k = UpLength[s[m]] /\ k \in Nat /\ k > 0
    <2>1. s[m] \in UpByte
      BY <1>1, <1>6, ElementOfSeq DEF Bytes
    <2>2. UpLength[s[m]] \in Nat
      BY <2>1, UpAssumption
    <2>3. UpLength[s[m]] > 0
      BY <1>5 DEF LengthBytes
    <2> QED BY <2>2, <2>3
  <1>10. p[m] = s[m] /\ m + k <= a
    BY <1>1, <1>2, <1>5, <1>6, <1>9 DEF HasMetadata
  <1>11. HasMetadata(p)
    <2>1. m + k <= b
      BY <1>1, <1>6, <1>9, <1>10
    <2> QED BY <1>1, <1>6, <1>7, <1>8, <1>9, <1>10, <2>1 DEF HasMetadata
  <1>12. SubSeq(p, m + 1, m + k) = SubSeq(s, m + 1, m + k)
    <2>1. m + 1 \in 1..Len(s) /\ m + k \in 1..Len(s)
      BY <1>1, <1>6, <1>9, <1>10
    <2> QED BY <2>1, SubSeqOfConcat1 DEF p, Bytes
  <1>13. Metadata(p) = SubSeq(p, m + 1, m + k) /\ Metadata(s) = SubSeq(s, m + 1, m + k)
    BY <1>5, <1>7, <1>8, <1>9, <1>10 DEF Metadata
  <1> QED BY <1>11, <1>12, <1>13 DEF p

-----------------------------------------------------------------------------
(* The request as a whole.                                                 *)

\* What the upstream still has to send: it is in the decoder and on the wire.
StillToCome(q) == IF upBody.chunked THEN Owes(upDec, upWire, q)
                  ELSE q = upWire /\ upDec = FreshSplitter

StreamInv ==
    /\ upKind \in {"stream", "icy"} /\ upWire \in Bytes /\ upOut \in Bytes /\ upDec \in Decoder
    /\ Waits(upDec)
    /\ \E q \in Bytes : upBody.payload = upOut \o q /\ StillToCome(q)
    /\ upHead # "ok" => upOut = <<>> /\ upDec = FreshSplitter /\ upEnd = ""
    /\ upHead = "ok" /\ upEnd = "" => upBody \in Bodies(upKind)
    /\ upEnd = "found" => upTitle \in UpTitles

LEMMA FreshDecoder == FreshSplitter \in Decoder /\ Waits(FreshSplitter)
  <1>1. <<>> \in Bytes /\ Len(<<>>) = 0
    BY BytesConcat, EmptySeq
  <1> QED BY <1>1 DEF FreshSplitter, Decoder, Waits, LineEnds

LEMMA BodiesAreFramed ==
    ASSUME NEW kind \in {"stream", "icy"}, NEW b \in Bodies(kind)
    PROVE  /\ b.payload \in UpPayload[kind] /\ b.payload \in Bytes /\ b.wire \in Bytes
           /\ IF b.chunked THEN b.wire \in DOMAIN UpFramed /\ b.payload = UpFramed[b.wire]
              ELSE b.payload = b.wire
  <1>1. UpPayload[kind] \subseteq Bytes
    BY UpAssumption DEF Bytes
  <1>2. CASE \E p \in UpPayload[kind] : b = PlainBody(p)
    BY <1>1, <1>2 DEF PlainBody
  <1>3. CASE \E w \in DOMAIN UpFramed : UpFramed[w] \in UpPayload[kind] /\ b = ChunkedBody(w)
    BY <1>1, <1>3, FramedBodies DEF ChunkedBody
  <1> QED BY <1>2, <1>3 DEF Bodies

\* Bytes that arrive keep what was and what is to come together.
LEMMA EmitKeeps ==
    ASSUME NEW bytes \in Bytes, NEW q \in Bytes, Emit(bytes),
           upOut \in Bytes, upDec \in Decoder, upWire' \in Bytes,
           upKind \in {"stream", "icy"}, upKind' = upKind, upHead' = "ok", upEnd = "",
           upBody' \in Bodies(upKind), upBody'.payload = upOut \o q,
           IF upBody'.chunked THEN Owes(upDec, bytes \o upWire', q)
           ELSE q = bytes \o upWire' /\ upDec = FreshSplitter
    PROVE  StreamInv'
  <1> DEFINE got == IF upBody'.chunked THEN Push(bytes)
                    ELSE [FreshSplitter EXCEPT !.out = bytes,
                                               !.pieces = IF bytes = <<>> THEN 0 ELSE 1]
  <1>1. /\ upDec' = [got EXCEPT !.out = <<>>, !.pieces = 0]
        /\ upOut' = upOut \o got.out
        /\ upKind = "stream" => /\ upEnd' = IF got.done THEN "closed" ELSE upEnd
                                /\ upTitle' = upTitle
        /\ upKind # "stream" => /\ upEnd' = TitleScan(upOut')
                                /\ upTitle' = IF upEnd' = "found" THEN Metadata(upOut') ELSE <<>>
    BY DEF Emit
  <1>2. /\ upDec' \in Decoder /\ Waits(upDec') /\ got.out \in Bytes
        /\ \E r \in Bytes :
             /\ q = got.out \o r
             /\ IF upBody'.chunked THEN Owes(upDec', upWire', r)
                ELSE r = upWire' /\ upDec' = FreshSplitter
    <2>1. CASE upBody'.chunked
      <3>1. got = Push(bytes)
        BY <2>1
      <3> HIDE DEF got
      <3>2. Owes(upDec, bytes \o upWire', q)
        BY <2>1
      <3> QED BY <1>1, <2>1, <3>1, <3>2, PushGives
    <2>2. CASE ~upBody'.chunked
      <3> DEFINE k == IF bytes = <<>> THEN 0 ELSE 1
      <3>1. got = [FreshSplitter EXCEPT !.out = bytes, !.pieces = k]
        BY <2>2
      <3> HIDE DEF got, k
      <3>3. FreshSplitter.out = <<>> /\ FreshSplitter.pieces = 0 /\ k \in Nat
        BY DEF FreshSplitter, k
      <3>2. got.out = bytes /\ [got EXCEPT !.out = <<>>, !.pieces = 0] = FreshSplitter
        <4>1. FreshSplitter \in Decoder
          BY FreshDecoder
        <4>2. /\ [FreshSplitter EXCEPT !.out = bytes, !.pieces = k].out = bytes
              /\ [[FreshSplitter EXCEPT !.out = bytes, !.pieces = k]
                     EXCEPT !.out = <<>>, !.pieces = 0] = FreshSplitter
          <5>1. ASSUME NEW j \in Nat, NEW d \in Decoder, d.out = <<>>, d.pieces = 0
                PROVE  /\ [d EXCEPT !.out = bytes, !.pieces = j].out = bytes
                       /\ [[d EXCEPT !.out = bytes, !.pieces = j]
                             EXCEPT !.out = <<>>, !.pieces = 0] = d
            <6> DEFINE e == [d EXCEPT !.out = bytes, !.pieces = j]
            <6>1. e.out = bytes /\ e \in Decoder
              BY <5>1 DEF Decoder
            <6>2. [e EXCEPT !.out = <<>>, !.pieces = 0] = d
              BY <5>1, BytesConcat DEF Decoder
            <6> QED BY <6>1, <6>2
          <5> QED BY <3>3, <4>1, <5>1
        <4> QED BY <3>1, <4>2
      <3> QED BY <1>1, <2>2, <3>2, FreshDecoder
    <2> QED BY <2>1, <2>2
  <1> HIDE DEF got
  <1>3. PICK r \in Bytes :
          /\ q = got.out \o r
          /\ IF upBody'.chunked THEN Owes(upDec', upWire', r)
             ELSE r = upWire' /\ upDec' = FreshSplitter
    BY <1>2
  <1>4. upOut' \in Bytes /\ upBody'.payload = upOut' \o r
    <2>1. (upOut \o got.out) \o r = upOut \o (got.out \o r)
      <3>1. upOut \in Bytes /\ got.out \in Bytes
        BY <1>2
      <3>2. Associates(upOut, got.out, r)
        BY <3>1, BytesAssociate, Zenon
      <3> QED BY <3>2, Zenon DEF Associates
    <2>2. upOut \o got.out \in Bytes
      BY <1>2, BytesConcat
    <2> QED BY <1>1, <1>3, <2>1, <2>2
  <1>5. ASSUME upEnd' = "found" PROVE upTitle' \in UpTitles
    <2>1. upKind = "icy" /\ upTitle' = Metadata(upOut') /\ HasMetadata(upOut')
      BY <1>1, <1>5 DEF TitleScan
    <2>2. HasMetadata(upOut' \o r) /\ Metadata(upOut' \o r) = Metadata(upOut')
      BY <1>4, <2>1, MetadataStays
    <2>3. upBody'.payload \in UpPayload["icy"]
      BY <2>1, BodiesAreFramed
    <2> QED BY <1>4, <2>1, <2>2, <2>3, UpAssumption
  <1>6. (StillToCome(r))'
    BY <1>3 DEF StillToCome
  <1> QED BY <1>2, <1>4, <1>5, <1>6 DEF StreamInv

LEMMA StreamSteps == StreamInv /\ [UpNext]_upVars => StreamInv'
  <1> SUFFICES ASSUME StreamInv, [UpNext]_upVars PROVE StreamInv'
    OBVIOUS
  <1>1. ASSUME Accepted PROVE StreamInv'
    <2>a. PICK b \in Bodies(upKind) : \E k \in 0..Len(b.wire) :
            /\ upHead = "head" /\ upHead' = "ok" /\ upBody' = b /\ upKind' = upKind
            /\ upWire' = SubSeq(b.wire, k + 1, Len(b.wire))
            /\ Emit(SubSeq(b.wire, 1, k))
      BY <1>1 DEF Accepted
    <2>1. PICK n \in 0..Len(b.wire) :
            /\ upHead = "head" /\ upHead' = "ok" /\ upBody' = b /\ upKind' = upKind
            /\ upWire' = SubSeq(b.wire, n + 1, Len(b.wire))
            /\ Emit(SubSeq(b.wire, 1, n))
      BY <2>a
    <2>2. upOut = <<>> /\ upDec = FreshSplitter /\ upEnd = "" /\ upKind \in {"stream", "icy"}
      BY <2>1 DEF StreamInv
    <2>3. /\ b.payload \in Bytes /\ b.wire \in Bytes
          /\ IF b.chunked THEN b.wire \in DOMAIN UpFramed /\ b.payload = UpFramed[b.wire]
             ELSE b.payload = b.wire
      BY <2>2, BodiesAreFramed
    <2>4. /\ Take(b.wire, n) \in Bytes /\ upWire' \in Bytes
          /\ b.wire = Take(b.wire, n) \o upWire' /\ Emit(Take(b.wire, n))
      BY <2>1, <2>3, BytesParts DEF Take, Drop
    <2>5. <<>> \o b.wire = b.wire /\ <<>> \o b.payload = b.payload
      BY <2>3, BytesConcat
    <2>6. b.chunked => Owes(upDec, Take(b.wire, n) \o upWire', b.payload)
      BY <2>2, <2>3, <2>4, <2>5 DEF Owes, FreshSplitter
    <2> QED BY <2>1, <2>2, <2>3, <2>4, <2>5, <2>6, EmitKeeps DEF StreamInv
  <1>2. ASSUME Data PROVE StreamInv'
    <2>1. PICK n \in 1..Len(upWire) :
            /\ upHead = "ok" /\ upEnd = ""
            /\ upWire' = SubSeq(upWire, n + 1, Len(upWire))
            /\ upBody' = upBody /\ upKind' = upKind /\ upHead' = upHead
            /\ Emit(SubSeq(upWire, 1, n))
      BY <1>2 DEF Data
    <2>2. PICK q \in Bytes : upBody.payload = upOut \o q /\ StillToCome(q)
      BY DEF StreamInv
    <2>3. n \in 0..Len(upWire)
      <3>1. upWire \in Bytes /\ Len(upWire) \in Nat
        BY BytesConcat DEF StreamInv
      <3> QED BY <3>1, WithinSpan
    <2>4. /\ Take(upWire, n) \in Bytes /\ upWire' \in Bytes
          /\ upWire = Take(upWire, n) \o upWire' /\ Emit(Take(upWire, n))
      BY <2>1, <2>3, BytesParts DEF Take, Drop, StreamInv
    <2>5. upBody \in Bodies(upKind)
      BY <2>1 DEF StreamInv
    <2> QED BY <2>1, <2>2, <2>4, <2>5, EmitKeeps DEF StreamInv, StillToCome
  <1>3. ASSUME UNCHANGED <<upKind, upBody, upWire, upDec, upOut, upTitle>>,
               upHead' # "ok" => upHead # "ok" /\ upEnd' = upEnd,
               upHead' = "ok" /\ upEnd' = "" => upHead = "ok" /\ upEnd = "",
               upEnd' = "found" => upEnd = "found"
        PROVE  StreamInv'
    <2>1. (\E q \in Bytes : upBody.payload = upOut \o q /\ StillToCome(q))'
      BY <1>3 DEF StreamInv, StillToCome
    <2> QED BY <1>3, <2>1 DEF StreamInv
  <1>4. ASSUME UpNext, ~Accepted, ~Data PROVE StreamInv'
    <2>1. CASE Open("stream") \/ Open("icy")
      <3>1. /\ upHead = "idle" /\ upHead' = "connect" /\ upKind' \in {"stream", "icy"}
            /\ UNCHANGED <<upBody, upWire, upDec, upOut, upEnd, upTitle>>
        BY <2>1 DEF Open
      <3>2. (\E q \in Bytes : upBody.payload = upOut \o q /\ StillToCome(q))'
        BY <3>1 DEF StreamInv, StillToCome
      <3> QED BY <3>1, <3>2 DEF StreamInv
    <2>2. CASE Connected \/ OpenFails \/ HeaderTimeout \/ BadStatus \/ RedirectLeg
      BY <1>3, <2>2 DEF Connected, OpenFails, HeaderTimeout, BadStatus, RedirectLeg, HeadIs
    <2>3. CASE Bodiless \/ End \/ SocketError \/ ScanTimeout \/ Cancel
      BY <1>3, <2>3 DEF Bodiless, End, SocketError, ScanTimeout, Cancel, Finish
    <2>4. CASE Read
      BY <1>3, <2>4 DEF Read
    <2> QED BY <1>4, <2>1, <2>2, <2>3, <2>4 DEF UpNext
  <1>5. ASSUME UNCHANGED upVars PROVE StreamInv'
    BY <1>3, <1>5 DEF upVars
  <1> QED BY <1>1, <1>2, <1>4, <1>5

LEMMA StreamStarts == UpInit => StreamInv
  <1> SUFFICES ASSUME UpInit PROVE StreamInv
    OBVIOUS
  <1>1. <<>> \in Bytes /\ <<>> \o <<>> = <<>>
    BY BytesConcat
  <1>2. upBody.payload = upOut \o <<>> /\ StillToCome(<<>>)
    BY <1>1 DEF UpInit, PlainBody, StillToCome
  <1> QED BY <1>1, <1>2, FreshDecoder DEF UpInit, StreamInv

\* "the framing is stripped so only the payload bytes reach the client"
\* (upstream.ts:172), for all payloads, all ways to frame them in chunks, all size lines,
\* metadata intervals and lengths, and however the socket splits the bytes: through
\* streamBody, the chunk decoder and the title scan (upstream.ts:174-263, icy.ts:38-89).
THEOREM OnlyPayloadIsHeard == UpSpec => []PayloadOnly
  <1>1. StreamInv => PayloadOnly
    <2> SUFFICES ASSUME StreamInv PROVE PayloadOnly
      OBVIOUS
    <2>1. PICK q \in Bytes : upBody.payload = upOut \o q /\ StillToCome(q)
      BY DEF StreamInv
    <2>2. upOut \in Bytes /\ Len(upOut) \in Nat /\ Len(q) \in Nat /\ upOut \o <<>> = upOut
          /\ Len(upOut \o q) = Len(upOut) + Len(q)
      BY BytesConcat DEF StreamInv
    <2>3. IsPrefix(upOut, upBody.payload)
      <3>1. Take(upOut \o q, Len(upOut)) = upOut /\ Take(upOut, Len(upOut)) = upOut
        BY <2>2, BytesOfConcat, SubSeqFull DEF Take, Bytes
      <3>2. Len(upOut) <= Len(upOut \o q)
        BY <2>2
      <3> QED BY <2>1, <3>1, <3>2 DEF IsPrefix, Take
    <2>4. ASSUME upWire = <<>> \/ upDec.done PROVE q = <<>>
      <3>1. CASE upBody.chunked
        <4>1. upDec \in Decoder /\ Waits(upDec) /\ Owes(upDec, upWire, q)
          BY <2>1, <3>1 DEF StreamInv, StillToCome
        <4>2. upDec.done => q = <<>>
          BY <4>1 DEF Owes
        <4> QED BY <2>4, <4>1, <4>2, NothingIsKept
      <3>2. CASE ~upBody.chunked
        BY <2>1, <2>4, <3>2 DEF StillToCome, FreshSplitter
      <3> QED BY <3>1, <3>2
    <2> QED BY <2>1, <2>2, <2>3, <2>4 DEF PayloadOnly, StreamInv
  <1> QED BY <1>1, StreamStarts, StreamSteps, PTL DEF UpSpec
=============================================================================
