------------------------ MODULE JetstreamIndexProofs ------------------------
(***************************************************************************)
(* Proofs about the handlers of the Jetstream consumer and the Discord     *)
(* mirror: the types, at most one embed per record version and claim, the  *)
(* index of a record that is written once, and the handle of its author.   *)
(*                                                                         *)
(* The first part counts: the embeds of a key in the queue, in the posts   *)
(* under way and among the accepted ones, and the claims of that key in    *)
(* the window.  The second one says what each step of a handler does to    *)
(* its place and to the mirror; the third follows one commit from its      *)
(* delivery into the tables.                                               *)
(***************************************************************************)
EXTENDS JetstreamIndex, FiniteSetTheorems, SequenceTheorems, TLAPS

Version == Op \X Rec \X (0..MaxLog)
Entry   == [key : Version, live : BOOLEAN]

\* The places of a key in a sequence of keys.
Places(key, s) == {i \in DOMAIN s : s[i] = key}

LEMMA PlacesAreFinite ==
    ASSUME NEW S, NEW s \in Seq(S), NEW key
    PROVE  /\ IsFiniteSet(Places(key, s)) /\ Copies(key, s) = Cardinality(Places(key, s))
           /\ Copies(key, s) \in Nat
  <1>1. IsFiniteSet(1..Len(s))
    <2>1. 1 \in Int /\ Len(s) \in Int
      OBVIOUS
    <2> QED BY <2>1, FS_Interval
  <1>2. Places(key, s) \in SUBSET (1..Len(s))
    BY DEF Places
  <1> QED BY <1>1, <1>2, FS_Subset, FS_CardinalityType DEF Copies, Places

\* The copies in a sequence that begins with another.
LEMMA CopiesAdd ==
    ASSUME NEW S, NEW s \in Seq(S), NEW t \in Seq(S), NEW key
    PROVE  Copies(key, s \o t) = Copies(key, s) + Copies(key, t)
  <1> DEFINE m == Len(s)
             B == {i \in (m + 1)..(m + Len(t)) : t[i - m] = key}
             f == [i \in Places(key, t) |-> i + m]
  <1>1. s \o t \in Seq(S) /\ Len(s \o t) = m + Len(t) /\ m \in Nat /\ Len(t) \in Nat
        /\ \A i \in 1..(m + Len(t)) : (s \o t)[i] = IF i <= m THEN s[i] ELSE t[i - m]
    OBVIOUS
  <1>2. Places(key, s \o t) = Places(key, s) \cup B
    BY <1>1 DEF Places
  <1>3. Places(key, s) \cap B = {}
    BY <1>1 DEF Places
  <1>4. f \in Bijection(Places(key, t), B)
    <2>1. f \in [Places(key, t) -> B]
      BY <1>1 DEF Places
    <2>2. f \in Injection(Places(key, t), B)
      BY <1>1, <2>1 DEF Injection, IsInjective, Places
    <2>3. \A j \in B : \E i \in Places(key, t) : f[i] = j
      <3> SUFFICES ASSUME NEW j \in B PROVE \E i \in Places(key, t) : f[i] = j
        OBVIOUS
      <3>1. j - m \in Places(key, t) /\ (j - m) + m = j
        BY <1>1 DEF Places
      <3> QED BY <3>1
    <2> QED BY <2>1, <2>2, <2>3 DEF Bijection, Surjection
  <1>5. IsFiniteSet(B) /\ Cardinality(B) = Cardinality(Places(key, t))
    BY <1>4, PlacesAreFinite, FS_Bijection DEF ExistsBijection
  <1>6. Cardinality(Places(key, s \o t))
        = Cardinality(Places(key, s)) + Cardinality(B) - Cardinality(Places(key, s) \cap B)
    BY <1>2, <1>5, PlacesAreFinite, FS_Union
  <1>7. /\ Copies(key, s \o t) = Cardinality(Places(key, s \o t))
        /\ Copies(key, s) = Cardinality(Places(key, s)) /\ Copies(key, s) \in Nat
        /\ Copies(key, t) = Cardinality(Places(key, t)) /\ Copies(key, t) \in Nat
    BY <1>1, PlacesAreFinite
  <1>8. Cardinality(Places(key, s) \cap B) = 0
    BY <1>3, FS_EmptySet
  <1> HIDE DEF B, f
  <1> QED BY <1>5, <1>6, <1>7, <1>8

LEMMA CopiesOfOne ==
    ASSUME NEW S, NEW s \in Seq(S), NEW e \in S, NEW key
    PROVE  /\ Copies(key, <<>>) = 0
           /\ Copies(key, Append(s, e)) = Copies(key, s) + IF e = key THEN 1 ELSE 0
  <1>1. Copies(key, <<>>) = 0
    <2>1. Places(key, <<>>) = {}
      BY DEF Places
    <2> QED BY <2>1, FS_EmptySet DEF Copies, Places
  <1>2. Append(s, e) = s \o <<e>> /\ <<e>> \in Seq(S)
    BY AppendIsConcat
  <1>3. Copies(key, <<e>>) = IF e = key THEN 1 ELSE 0
    <2>1. Places(key, <<e>>) = IF e = key THEN {1} ELSE {}
      BY DEF Places
    <2> QED BY <2>1, FS_Singleton, FS_EmptySet DEF Copies, Places
  <1>4. Copies(key, s \o <<e>>) = Copies(key, s) + Copies(key, <<e>>)
    BY <1>2, CopiesAdd, Zenon
  <1> QED BY <1>1, <1>2, <1>3, <1>4, Zenon

\* What is spliced off a sequence and what is left of it.
LEMMA CopiesSplit ==
    ASSUME NEW S, NEW s \in Seq(S), NEW k \in 0..Len(s), NEW key
    PROVE  /\ SubSeq(s, 1, k) \in Seq(S) /\ Len(SubSeq(s, 1, k)) = k
           /\ SubSeq(s, k + 1, Len(s)) \in Seq(S) /\ Len(SubSeq(s, k + 1, Len(s))) = Len(s) - k
           /\ Copies(key, s) = Copies(key, SubSeq(s, 1, k)) + Copies(key, SubSeq(s, k + 1, Len(s)))
  <1> DEFINE a == SubSeq(s, 1, k)
             b == SubSeq(s, k + 1, Len(s))
  <1>1. a \in Seq(S) /\ Len(a) = k /\ \A i \in 1..k : a[i] = s[i]
    OBVIOUS
  <1>2. b \in Seq(S) /\ Len(b) = Len(s) - k /\ \A i \in 1..(Len(s) - k) : b[i] = s[i + k]
    OBVIOUS
  <1>3. a \o b = s
    <2> HIDE DEF a, b
    <2>1. a \o b \in Seq(S) /\ Len(a \o b) = Len(s)
      <3>1. a \o b \in Seq(S) /\ Len(a \o b) = Len(a) + Len(b)
        BY <1>1, <1>2, ConcatProperties, Zenon
      <3>2. k + (Len(s) - k) = Len(s)
        OBVIOUS
      <3> QED BY <1>1, <1>2, <3>1, <3>2, Zenon
    <2>2. \A i \in 1..Len(s) : (a \o b)[i] = s[i]
      <3> SUFFICES ASSUME NEW i \in 1..Len(s) PROVE (a \o b)[i] = s[i]
        OBVIOUS
      <3>1. k \in Int /\ i \in Int
        OBVIOUS
      <3>2. CASE i <= k
        BY <1>1, <1>2, <3>2
      <3>3. CASE ~(i <= k)
        <4>1. (a \o b)[i] = b[i - k] /\ i - k \in 1..(Len(s) - k)
          BY <1>1, <1>2, <3>3
        <4> QED BY <1>2, <4>1
      <3> QED BY <3>1, <3>2, <3>3
    <2> QED BY <2>1, <2>2, SeqEqual
  <1> HIDE DEF a, b
  <1>4. Copies(key, s) = Copies(key, a) + Copies(key, b)
    BY <1>1, <1>2, <1>3, CopiesAdd
  <1> QED BY <1>1, <1>2, <1>4 DEF a, b

\* Without one member.
LEMMA CountWithout ==
    ASSUME NEW S, IsFiniteSet(S), NEW x
    PROVE  /\ Cardinality(S) \in Nat /\ Cardinality(S \ {x}) \in Nat
           /\ Cardinality(S) = Cardinality(S \ {x}) + IF x \in S THEN 1 ELSE 0
  <1>1. IsFiniteSet(S \ {x}) /\ Cardinality(S) \in Nat /\ Cardinality(S \ {x}) \in Nat
    BY FS_Subset, FS_CardinalityType
  <1>2. CASE x \in S
    <2>1. Cardinality(S \ {x}) = Cardinality(S) - 1
      BY <1>2, FS_RemoveElement
    <2> QED BY <1>1, <1>2, <2>1
  <1>3. CASE x \notin S
    <2>1. S \ {x} = S
      BY <1>3
    <2>2. Cardinality(S \ {x}) = Cardinality(S)
      BY <2>1
    <2> QED BY <1>1, <1>3, <2>2
  <1> QED BY <1>1, <1>2, <1>3

LEMMA Products ==
    ASSUME NEW P \in Nat, NEW b \in Nat, NEW m \in Nat, b <= m
    PROVE  b * P \in Nat /\ m * P \in Nat /\ b * P <= m * P /\ (b + 1) * P = b * P + P
  <1>1. PICK d \in Nat : m = b + d
    <2>1. m - b \in Nat /\ m = b + (m - b)
      OBVIOUS
    <2> QED BY <2>1
  <1>2. m * P = b * P + d * P /\ d * P \in Nat /\ b * P \in Nat
    BY <1>1
  <1> QED BY <1>2

LEMMA Bounds ==
    /\ SeenMax \in Nat \ {0} /\ QueueMax \in Nat \ {0} /\ PerMessage \in Nat \ {0}
    /\ MaxFlights \in Nat \ {0} /\ IsFiniteSet(Post) /\ Cardinality(Post) = MaxFlights
    /\ Version \subseteq Key
  <1>1. SeenMax \in Nat \ {0} /\ QueueMax \in Nat \ {0} /\ PerMessage \in Nat \ {0}
        /\ MaxFlights \in Nat \ {0}
    BY FirehoseAssumption
  <1>2. 1 \in Int /\ MaxFlights \in Int /\ MaxFlights - 1 + 1 = MaxFlights /\ ~(1 > MaxFlights)
    BY <1>1
  <1>3. IsFiniteSet(Post) /\ Cardinality(Post) = MaxFlights
    BY <1>2, FS_Interval DEF Post
  <1> QED BY <1>1, <1>3, JetstreamIndexAssumption DEF Version

-----------------------------------------------------------------------------
(* The window of claimed keys.                                             *)

\* The n-th of some places of a sequence is one of them.
LEMMA RanksAreMet ==
    ASSUME NEW places, IsFiniteSet(places), places \subseteq Nat,
           NEW n \in 1..Cardinality(places)
    PROVE  \E i \in places : Cardinality({j \in places : j <= i}) = n
  <1> DEFINE upTo(i) == {j \in places : j <= i}
             N       == Cardinality(places)
             rank    == [i \in places |-> Cardinality(upTo(i))]
  <1>1. N \in Nat
    BY FS_CardinalityType
  <1>2. ASSUME NEW i \in places
        PROVE  /\ IsFiniteSet(upTo(i)) /\ Cardinality(upTo(i)) \in Nat
               /\ Cardinality(upTo(i)) <= N /\ Cardinality(upTo(i)) # 0
    <2>1. upTo(i) \in SUBSET places /\ i \in upTo(i)
      OBVIOUS
    <2> HIDE DEF upTo
    <2> QED BY <2>1, FS_Subset, FS_CardinalityType, FS_EmptySet
  <1>3. ASSUME NEW i \in places, NEW j \in places, i < j
        PROVE  Cardinality(upTo(i)) # Cardinality(upTo(j))
    <2>1. upTo(i) \in SUBSET upTo(j) /\ j \in upTo(j) /\ j \notin upTo(i)
      <3>1. \A k \in places : k \in Nat /\ i \in Nat /\ j \in Nat
        OBVIOUS
      <3>2. \A k \in places : k <= i => k <= j
        BY <1>3, <3>1
      <3>3. j <= j /\ ~(j <= i)
        BY <1>3, <3>1
      <3> QED BY <3>2, <3>3
    <2> HIDE DEF upTo
    <2> QED BY <1>2, <2>1, FS_Subset
  <1>4. IsFiniteSet(1..N) /\ Cardinality(1..N) = N
    <2>1. 1 \in Int /\ N \in Int /\ N - 1 + 1 = N /\ (1 > N => N = 0)
      BY <1>1
    <2> HIDE DEF N
    <2> QED BY <2>1, FS_Interval
  <1>5. rank \in Injection(places, 1..N)
    <2>1. rank \in [places -> 1..N]
      <3> HIDE DEF upTo
      <3> QED BY <1>1, <1>2
    <2>2. \A i, j \in places : rank[i] = rank[j] => i = j
      <3> SUFFICES ASSUME NEW i \in places, NEW j \in places, i # j PROVE rank[i] # rank[j]
        OBVIOUS
      <3>1. i < j \/ j < i
        OBVIOUS
      <3> HIDE DEF upTo
      <3> QED BY <1>3, <3>1
    <2> HIDE DEF rank
    <2> QED BY <2>1, <2>2 DEF Injection, IsInjective
  <1>6. rank \in Surjection(places, 1..N)
    <2> HIDE DEF rank
    <2> QED BY <1>4, <1>5, FS_Injection
  <1>7. \E i \in places : rank[i] = n
    <2> HIDE DEF rank
    <2> QED BY <1>6 DEF Surjection
  <1> QED BY <1>7

\* The entries at some places are entries, and the last one stays last.
LEMMA EntriesStay ==
    ASSUME NEW s \in Seq(Entry), NEW places \in SUBSET DOMAIN s
    PROVE  /\ EntriesAt(s, places) \in Seq(Entry)
           /\ Len(EntriesAt(s, places)) = Cardinality(places)
           /\ Len(s) \in places =>
                  \E n \in DOMAIN EntriesAt(s, places) : EntriesAt(s, places)[n] = s[Len(s)]
  <1> DEFINE N     == Cardinality(places)
             at(n) == CHOOSE i \in places : Cardinality({j \in places : j <= i}) = n
  <1>1. IsFiniteSet(places) /\ places \subseteq Nat /\ N \in Nat
    <2>1. 1 \in Int /\ Len(s) \in Int /\ DOMAIN s = 1..Len(s)
      OBVIOUS
    <2>2. IsFiniteSet(DOMAIN s)
      BY <2>1, FS_Interval
    <2>3. IsFiniteSet(places)
      BY <2>2, FS_Subset
    <2>4. places \subseteq Nat
      BY <2>1
    <2> QED BY <2>3, <2>4, FS_CardinalityType
  <1>2. ASSUME NEW n \in 1..N
        PROVE  at(n) \in places /\ Cardinality({j \in places : j <= at(n)}) = n
    <2>1. \E i \in places : Cardinality({j \in places : j <= i}) = n
      BY <1>1, RanksAreMet
    <2> QED BY <2>1
  <1>3. EntriesAt(s, places) = [n \in 1..N |-> s[at(n)]]
    BY DEF EntriesAt
  <1>4. \A n \in 1..N : s[at(n)] \in Entry
    <2>1. \A i \in DOMAIN s : s[i] \in Entry
      OBVIOUS
    <2> HIDE DEF at, N
    <2> QED BY <1>2, <2>1
  <1>5. EntriesAt(s, places) \in Seq(Entry) /\ Len(EntriesAt(s, places)) = N
        /\ DOMAIN EntriesAt(s, places) = 1..N
    <2> HIDE DEF at, N
    <2> QED BY <1>1, <1>3, <1>4
  <1>6. ASSUME Len(s) \in places
        PROVE  N \in 1..N /\ at(N) = Len(s)
    <2>1. N \in 1..N
      BY <1>1, <1>6, FS_EmptySet
    <2>2. {j \in places : j <= at(N)} \in SUBSET places
      OBVIOUS
    <2>3. {j \in places : j <= at(N)} = places
      BY <1>1, <1>2, <2>1, <2>2, FS_Subset
    <2>4. Len(s) <= at(N) /\ at(N) \in places
      BY <1>2, <1>6, <2>1, <2>3
    <2> HIDE DEF at, N
    <2> QED BY <2>1, <2>4
  <1> HIDE DEF at, N
  <1>7. ASSUME Len(s) \in places
        PROVE  N \in DOMAIN EntriesAt(s, places) /\ EntriesAt(s, places)[N] = s[Len(s)]
    BY <1>3, <1>5, <1>6, <1>7
  <1> QED BY <1>5, <1>7 DEF N

\* A set of naturals of which less than n are above each has at most n.
LEMMA FewAbove ==
    ASSUME NEW T, IsFiniteSet(T), T \subseteq Nat, NEW n \in Nat \ {0},
           \A i \in T : Cardinality({j \in T : j > i}) < n
    PROVE  Cardinality(T) <= n
  <1>1. Cardinality(T) \in Nat
    BY FS_CardinalityType
  <1>2. CASE T = {}
    BY <1>2, FS_EmptySet
  <1>3. CASE T # {}
    <2>1. Cardinality(T) # 0 /\ 1 \in 1..Cardinality(T)
      BY <1>1, <1>3, FS_EmptySet
    <2>2. PICK m \in T : Cardinality({j \in T : j <= m}) = 1
      BY <2>1, RanksAreMet
    <2> DEFINE lo == {j \in T : j <= m}
               hi == {j \in T : j > m}
    <2>3. T = lo \cup hi /\ lo \cap hi = {} /\ lo \in SUBSET T /\ hi \in SUBSET T
      <3>1. \A j \in T : j > m <=> ~(j <= m)
        OBVIOUS
      <3> QED BY <3>1
    <2>4. Cardinality(hi) < n /\ Cardinality(lo) = 1
      BY <2>2
    <2> HIDE DEF lo, hi
    <2>5. IsFiniteSet(lo) /\ IsFiniteSet(hi) /\ Cardinality(hi) \in Nat
      BY <2>3, FS_Subset, FS_CardinalityType
    <2>6. Cardinality(lo \cup hi) = Cardinality(lo) + Cardinality(hi) - Cardinality(lo \cap hi)
      BY <2>5, FS_Union
    <2>7. Cardinality(lo \cap hi) = 0
      BY <2>3, FS_EmptySet
    <2> QED BY <2>3, <2>4, <2>5, <2>6, <2>7
  <1> QED BY <1>2, <1>3

\* The window stays within its bound, and the newest claim stays in it.
LEMMA EvictionKeepsTheNewest ==
    ASSUME NEW s \in Seq(Entry), s # <<>>, s[Len(s)].live
    PROVE  /\ Evicted(s) \in Seq(Entry) /\ Len(Evicted(s)) <= SeenMax
           /\ \E n \in DOMAIN Evicted(s) : Evicted(s)[n] = s[Len(s)]
  <1> DEFINE live   == {i \in DOMAIN s : s[i].live}
             newest == {i \in live : Cardinality({j \in live : j > i}) < SeenMax}
  <1>1. DOMAIN s = 1..Len(s) /\ Len(s) \in Nat /\ Len(s) # 0 /\ Len(s) \in DOMAIN s
    BY EmptySeq
  <1>2. CASE Len(s) <= SeenMax
    BY <1>1, <1>2 DEF Evicted
  <1>3. CASE ~(Len(s) <= SeenMax)
    <2>1. Evicted(s) = EntriesAt(s, newest)
      BY <1>3 DEF Evicted
    <2>2. Len(s) \in newest
      <3> DEFINE above == {j \in live : j > Len(s)}
      <3>1. above = {} /\ Len(s) \in live
        BY <1>1
      <3> HIDE DEF above
      <3>2. Cardinality(above) < SeenMax
        BY <3>1, FS_EmptySet, Bounds
      <3> QED BY <3>1, <3>2 DEF above
    <2>3. live \in SUBSET DOMAIN s /\ newest \in SUBSET live /\ newest \in SUBSET DOMAIN s
      OBVIOUS
    <2>4. IsFiniteSet(live) /\ live \subseteq Nat /\ IsFiniteSet(newest)
      <3>1. 1 \in Int /\ Len(s) \in Int
        BY <1>1
      <3>2. IsFiniteSet(DOMAIN s) /\ DOMAIN s \subseteq Nat
        BY <1>1, <3>1, FS_Interval
      <3> HIDE DEF live, newest
      <3> QED BY <2>3, <3>2, FS_Subset
    <2>5. \A i \in newest : Cardinality({j \in newest : j > i}) < SeenMax
      <3> SUFFICES ASSUME NEW i \in newest
                   PROVE  Cardinality({j \in newest : j > i}) < SeenMax
        OBVIOUS
      <3> DEFINE above == {j \in live : j > i}
                 few   == {j \in newest : j > i}
      <3>1. few \in SUBSET above /\ above \in SUBSET live /\ Cardinality(above) < SeenMax
        OBVIOUS
      <3> HIDE DEF above, few, live, newest
      <3>2. IsFiniteSet(above) /\ Cardinality(few) <= Cardinality(above)
            /\ Cardinality(above) \in Nat /\ Cardinality(few) \in Nat
        BY <2>4, <3>1, FS_Subset, FS_CardinalityType
      <3>3. Cardinality(few) < SeenMax
        BY <3>1, <3>2, Bounds
      <3> QED BY <3>3 DEF few
    <2> HIDE DEF live, newest
    <2>6. Cardinality(newest) <= SeenMax
      BY <2>3, <2>4, <2>5, FewAbove, Bounds
    <2> QED BY <2>1, <2>2, <2>3, <2>6, EntriesStay
  <1> QED BY <1>2, <1>3

Away == {p \in Post : flights[p] # <<>>}

WindowOK == seen \in Seq(Entry) /\ Len(seen) <= SeenMax
PostsOK  == /\ queue \in Seq(Version)
            /\ flights \in [Post -> Seq(Version)]
            /\ \A p \in Post : Len(flights[p]) <= PerMessage
            /\ Len(queue) + Cardinality(Away) * PerMessage <= QueueMax + MaxFlights * PerMessage
CountsOK == posted \in [Key -> Nat] /\ forgotten \in [Key -> Nat]

MirrorTypeOK == WindowOK /\ PostsOK /\ CountsOK

\* A claim is in the window, and no other leaves it uncounted.
LEMMA ClaimIsKept ==
    ASSUME MirrorTypeOK, NEW key \in Version, ~Claimed(key), Claim(key)
    PROVE  /\ WindowOK' /\ Claimed(key)'
           /\ forgotten' \in [Key -> Nat]
           /\ \A k \in Version : /\ forgotten'[k] >= forgotten[k]
                                 /\ Claimed(k) => Claimed(k)' \/ forgotten'[k] = forgotten[k] + 1
  <1> DEFINE new == [key |-> key, live |-> TRUE]
  <1>1. seen \in Seq(Entry) /\ Len(seen) \in Nat /\ Len(seen) <= SeenMax
        /\ DOMAIN seen = 1..Len(seen) /\ seen' = Evicted(Stored(key))
    BY DEF MirrorTypeOK, WindowOK, Claim
  <1>2. WindowOK' /\ \E n \in DOMAIN seen' : seen'[n].key = key /\ seen'[n].live
    <2>1. CASE \E i \in DOMAIN seen : seen[i].key = key
      <3>1. PICK i \in DOMAIN seen : seen[i].key = key
        BY <2>1
      <3> DEFINE e(j) == [seen[j] EXCEPT !.live = @ \/ seen[j].key = key]
                 s    == [j \in DOMAIN seen |-> e(j)]
      <3>2. Stored(key) = s
        BY <2>1 DEF Stored
      <3>3. ASSUME NEW j \in DOMAIN seen
            PROVE  e(j) \in Entry /\ e(j).key = seen[j].key
                   /\ (seen[j].key = key => e(j).live)
        <4>1. seen[j] \in Entry
          BY <1>1, ElementOfSeq
        <4> QED BY <4>1 DEF Entry
      <3> HIDE DEF e
      <3>4. s \in Seq(Entry) /\ Len(s) = Len(seen) /\ DOMAIN s = DOMAIN seen
        BY <1>1, <3>3
      <3>5. Evicted(s) = s
        BY <1>1, <3>4 DEF Evicted
      <3>6. s[i].key = key /\ s[i].live /\ i \in DOMAIN s
        BY <3>1, <3>3
      <3> HIDE DEF s
      <3> QED BY <1>1, <3>2, <3>4, <3>5, <3>6 DEF WindowOK
    <2>2. CASE ~\E i \in DOMAIN seen : seen[i].key = key
      <3> DEFINE s == Append(seen, new)
      <3>1. Stored(key) = s
        BY <2>2 DEF Stored
      <3>2. new \in Entry /\ new.key = key /\ new.live
        BY DEF Entry
      <3> HIDE DEF new
      <3>3. s \in Seq(Entry) /\ s # <<>> /\ s[Len(s)] = new
        BY <1>1, <3>2, AppendProperties, EmptySeq
      <3> HIDE DEF s
      <3>4. /\ Evicted(s) \in Seq(Entry) /\ Len(Evicted(s)) <= SeenMax
            /\ \E n \in DOMAIN Evicted(s) : Evicted(s)[n] = new
        BY <3>2, <3>3, EvictionKeepsTheNewest
      <3> QED BY <1>1, <3>1, <3>2, <3>4 DEF WindowOK
    <2> QED BY <2>1, <2>2
  <1>3. Claimed(key)'
    BY <1>2 DEF Claimed
  <1>4. ASSUME NEW k, Claimed(k), k \notin LiveKeys(seen) \ LiveKeys(seen')
        PROVE  Claimed(k)'
    BY <1>4 DEF Claimed, LiveKeys
  <1>5. forgotten' \in [Key -> Nat]
        /\ \A k \in Key : forgotten'[k] = forgotten[k] +
               IF k \in LiveKeys(seen) \ LiveKeys(seen') THEN 1 ELSE 0
    BY DEF Claim, MirrorTypeOK, CountsOK
  <1>6. \A k \in Version : forgotten[k] \in Nat /\ k \in Key
    BY Bounds DEF MirrorTypeOK, CountsOK
  <1>7. ASSUME NEW k \in Version
        PROVE  /\ forgotten'[k] >= forgotten[k]
               /\ Claimed(k) => Claimed(k)' \/ forgotten'[k] = forgotten[k] + 1
    <2>1. forgotten[k] \in Nat /\ forgotten'[k] = forgotten[k] +
             IF k \in LiveKeys(seen) \ LiveKeys(seen') THEN 1 ELSE 0
      BY <1>5, <1>6
    <2>2. CASE k \in LiveKeys(seen) \ LiveKeys(seen')
      BY <2>1, <2>2
    <2>3. CASE k \notin LiveKeys(seen) \ LiveKeys(seen')
      BY <1>4, <2>1, <2>3
    <2> QED BY <2>2, <2>3
  <1> QED BY <1>2, <1>3, <1>5, <1>7

-----------------------------------------------------------------------------
(* The queue and the posts under way.                                      *)

Flights == {f \in [Post -> Seq(Version)] : \A p \in Post : Len(f[p]) <= PerMessage}

FlyingIn(key, f) ==
    {x \in Post \X (1..PerMessage) : x[2] \in DOMAIN f[x[1]] /\ f[x[1]][x[2]] = key}
Flying(key) == FlyingIn(key, flights)

\* The embeds of a key in the posts under way: those of one post, and of the others.
LEMMA FlyingIsApart ==
    ASSUME NEW f \in Flights, NEW p \in Post, NEW key
    PROVE  /\ IsFiniteSet(FlyingIn(key, f)) /\ Cardinality(FlyingIn(key, f)) \in Nat
           /\ Cardinality({x \in FlyingIn(key, f) : x[1] # p}) \in Nat
           /\ Cardinality(FlyingIn(key, f))
                  = Cardinality({x \in FlyingIn(key, f) : x[1] # p}) + Copies(key, f[p])
  <1> DEFINE F      == FlyingIn(key, f)
             others == {x \in F : x[1] # p}
             here   == {x \in F : x[1] = p}
             g      == [i \in Places(key, f[p]) |-> <<p, i>>]
  <1>1. f[p] \in Seq(Version) /\ Len(f[p]) <= PerMessage /\ DOMAIN f[p] = 1..Len(f[p])
        /\ Len(f[p]) \in Nat /\ PerMessage \in Nat
    BY Bounds DEF Flights
  <1>2. IsFiniteSet(F)
    <2>1. 1 \in Int /\ PerMessage \in Int
      BY <1>1
    <2>2. IsFiniteSet(Post \X (1..PerMessage))
      BY <2>1, Bounds, FS_Interval, FS_Product
    <2>3. F \in SUBSET (Post \X (1..PerMessage))
      BY DEF FlyingIn
    <2> HIDE DEF F
    <2> QED BY <2>2, <2>3, FS_Subset
  <1>3. here \in SUBSET F /\ others \in SUBSET F /\ F = here \cup others /\ here \cap others = {}
    OBVIOUS
  <1>4. g \in Bijection(Places(key, f[p]), here)
    <2>1. \A i \in Places(key, f[p]) : <<p, i>> \in here
      BY <1>1 DEF Places, FlyingIn
    <2>2. \A x \in here : x[2] \in Places(key, f[p]) /\ x = <<p, x[2]>>
      BY DEF Places, FlyingIn
    <2>3. g \in [Places(key, f[p]) -> here]
      BY <2>1
    <2>4. \A i, j \in Places(key, f[p]) : g[i] = g[j] => i = j
      OBVIOUS
    <2>5. \A x \in here : \E i \in Places(key, f[p]) : g[i] = x
      BY <2>2
    <2> HIDE DEF g, here
    <2> QED BY <2>3, <2>4, <2>5 DEF Bijection, Injection, IsInjective, Surjection
  <1>5. Cardinality(here) = Copies(key, f[p])
    BY <1>1, <1>4, PlacesAreFinite, FS_Bijection DEF ExistsBijection
  <1> HIDE DEF F, others, here
  <1>6. IsFiniteSet(here) /\ IsFiniteSet(others)
        /\ Cardinality(here) \in Nat /\ Cardinality(others) \in Nat /\ Cardinality(F) \in Nat
    BY <1>2, <1>3, FS_Subset, FS_CardinalityType
  <1>7. Cardinality(F) = Cardinality(here) + Cardinality(others) - Cardinality(here \cap others)
    BY <1>3, <1>6, FS_Union
  <1>8. Cardinality(here \cap others) = 0
    BY <1>3, FS_EmptySet
  <1>9. Cardinality(F) = Cardinality(others) + Copies(key, f[p])
    BY <1>5, <1>6, <1>7, <1>8
  <1> QED BY <1>2, <1>6, <1>9 DEF F, others

\* A function with another value at one place.
Put(f, p, b) == [f EXCEPT ![p] = b]

\* The embeds of a key, counted before and after the post of a task becomes b.
Recounted(key, f, p, b) ==
    /\ Cardinality(FlyingIn(key, Put(f, p, b))) \in Nat
    /\ Cardinality(FlyingIn(key, f)) \in Nat
    /\ Cardinality(FlyingIn(key, Put(f, p, b))) + Copies(key, f[p])
       = Cardinality(FlyingIn(key, f)) + Copies(key, b)

\* One post is replaced by another.
LEMMA FlyingMoves ==
    ASSUME NEW f \in Flights, NEW p \in Post, NEW b \in Seq(Version), Len(b) <= PerMessage,
           NEW key
    PROVE  Put(f, p, b) \in Flights /\ Recounted(key, f, p, b)
  <1> DEFINE g == Put(f, p, b)
  <1>1. g \in Flights /\ g[p] = b /\ \A q \in Post : q # p => g[q] = f[q]
    BY DEF Flights, Put
  <1>2. {x \in FlyingIn(key, g) : x[1] # p} = {x \in FlyingIn(key, f) : x[1] # p}
    <2> HIDE DEF g
    <2> QED BY <1>1 DEF FlyingIn
  <1>3. f[p] \in Seq(Version)
    BY DEF Flights
  <1>4. Copies(key, b) \in Nat /\ Copies(key, f[p]) \in Nat
    BY <1>3, PlacesAreFinite
  <1> HIDE DEF g
  <1>5. /\ Cardinality(FlyingIn(key, g)) \in Nat
        /\ Cardinality({x \in FlyingIn(key, f) : x[1] # p}) \in Nat
        /\ Cardinality(FlyingIn(key, g))
           = Cardinality({x \in FlyingIn(key, f) : x[1] # p}) + Copies(key, b)
    BY <1>1, <1>2, FlyingIsApart
  <1>6. /\ Cardinality(FlyingIn(key, f)) \in Nat
        /\ Cardinality(FlyingIn(key, f))
           = Cardinality({x \in FlyingIn(key, f) : x[1] # p}) + Copies(key, f[p])
    BY FlyingIsApart
  <1>7. Cardinality(FlyingIn(key, g)) + Copies(key, f[p])
        = Cardinality(FlyingIn(key, f)) + Copies(key, b)
    BY <1>4, <1>5, <1>6
  <1> QED BY <1>1, <1>5, <1>6, <1>7, Zenon DEF g, Recounted

\* The embeds of a key that are queued, under way or posted, and its claims.
Sent(key)   == Copies(key, queue) + Cardinality(Flying(key)) + posted[key]
Claims(key) == forgotten[key] + IF Claimed(key) THEN 1 ELSE 0

LEMMA MirrorCounts ==
    ASSUME MirrorTypeOK, NEW key \in Version
    PROVE  /\ Copies(key, queue) \in Nat /\ Cardinality(Flying(key)) \in Nat
           /\ posted[key] \in Nat /\ forgotten[key] \in Nat
           /\ flights \in Flights /\ key \in Key
           /\ Claims(key) \in Nat /\ Sent(key) \in Nat
  <1>1. flights \in Flights /\ key \in Key /\ queue \in Seq(Version)
    BY Bounds DEF MirrorTypeOK, PostsOK, Flights
  <1>2. posted[key] \in Nat /\ forgotten[key] \in Nat
    BY <1>1 DEF MirrorTypeOK, CountsOK
  <1>3. 1 \in Post
    BY Bounds DEF Post
  <1>4. Copies(key, queue) \in Nat /\ Cardinality(Flying(key)) \in Nat
    BY <1>1, <1>3, PlacesAreFinite, FlyingIsApart DEF Flying
  <1>5. Claims(key) \in Nat /\ Sent(key) \in Nat
    BY <1>2, <1>4 DEF Claims, Sent
  <1> QED BY <1>1, <1>2, <1>4, <1>5

LEMMA AwayIsFinite ==
    IsFiniteSet(Away) /\ Cardinality(Away) \in Nat /\ Cardinality(Away) <= MaxFlights
  <1>1. Away \in SUBSET Post
    BY DEF Away
  <1> QED BY <1>1, Bounds, FS_Subset, FS_CardinalityType

\* A batch is spliced off.
LEMMA FlushKeepsPosts ==
    ASSUME MirrorTypeOK, NEW p \in Post, Flush(p)
    PROVE  MirrorTypeOK' /\ \A key \in Version : Sent(key)' = Sent(key)
  <1> DEFINE k == IF Len(queue) < PerMessage THEN Len(queue) ELSE PerMessage
             batch == SubSeq(queue, 1, k)
             rest  == SubSeq(queue, k + 1, Len(queue))
  <1>1. /\ queue \in Seq(Version) /\ queue # <<>> /\ flights[p] = <<>>
        /\ flights' = Put(flights, p, batch) /\ queue' = rest
        /\ UNCHANGED <<seen, posted, forgotten>>
    BY DEF Flush, MirrorTypeOK, PostsOK, Put
  <1>2. Len(queue) \in Nat /\ Len(queue) # 0 /\ k \in 0..Len(queue) /\ k # 0 /\ k <= PerMessage
        /\ PerMessage \in Nat /\ k \in Nat
    BY <1>1, EmptySeq, Bounds
  <1>3. batch \in Seq(Version) /\ Len(batch) = k /\ rest \in Seq(Version)
        /\ Len(rest) = Len(queue) - k
    <2> HIDE DEF k
    <2> QED BY <1>1, <1>2, CopiesSplit
  <1>4. batch # <<>>
    <2> HIDE DEF k, batch
    <2> QED BY <1>2, <1>3, EmptySeq
  <1>5. flights \in Flights
    BY DEF MirrorTypeOK, PostsOK, Flights
  <1>6. ASSUME NEW key \in Version PROVE Sent(key)' = Sent(key)
    <2>1. Copies(key, queue) = Copies(key, batch) + Copies(key, rest)
      <3> HIDE DEF k
      <3>1. queue \in Seq(Version) /\ k \in 0..Len(queue)
        BY <1>1, <1>2
      <3>2. Copies(key, queue)
            = Copies(key, SubSeq(queue, 1, k)) + Copies(key, SubSeq(queue, k + 1, Len(queue)))
        BY <3>1, CopiesSplit
      <3> QED BY <3>2
    <2> HIDE DEF k, batch, rest
    <2>2. Copies(key, flights[p]) = 0
      BY <1>1, <1>3, CopiesOfOne
    <2>3. /\ Cardinality(FlyingIn(key, flights')) \in Nat
          /\ Cardinality(FlyingIn(key, flights)) \in Nat
          /\ Cardinality(FlyingIn(key, flights')) + Copies(key, flights[p])
             = Cardinality(FlyingIn(key, flights)) + Copies(key, batch)
      <3>1. Len(batch) <= PerMessage
        BY <1>2, <1>3
      <3>2. flights' = Put(flights, p, batch) /\ batch \in Seq(Version)
        BY <1>1, <1>3
      <3>3. Recounted(key, flights, p, batch)
        BY <1>5, <3>1, <3>2, FlyingMoves, Zenon
      <3> QED BY <3>2, <3>3, Zenon DEF Recounted
    <2>4. Copies(key, batch) \in Nat /\ Copies(key, rest) \in Nat /\ posted[key] \in Nat
      BY <1>3, PlacesAreFinite, MirrorCounts
    <2>5. Cardinality(FlyingIn(key, flights'))
          = Cardinality(FlyingIn(key, flights)) + Copies(key, batch)
      BY <2>2, <2>3, <2>4
    <2> QED BY <1>1, <2>1, <2>3, <2>4, <2>5 DEF Sent, Flying
  <1> HIDE DEF k, batch, rest
  <1>7. flights' \in Flights
    BY <1>1, <1>2, <1>3, <1>5, FlyingMoves
  <1>8. Away' = Away \cup {p} /\ p \notin Away
    BY <1>1, <1>4, <1>5 DEF Away, Flights, Put
  <1>9. Cardinality(Away') = Cardinality(Away) + 1 /\ Cardinality(Away') <= MaxFlights
    <2>1. Away' \in SUBSET Post
      BY DEF Away, Post
    <2> QED BY <1>8, <2>1, AwayIsFinite, Bounds, FS_AddElement, FS_Subset
  <1>10. Len(queue') + Cardinality(Away') * PerMessage <= QueueMax + MaxFlights * PerMessage
    <2>1. Cardinality(Away) \in Nat /\ MaxFlights \in Nat /\ QueueMax \in Nat
      BY AwayIsFinite, Bounds
    <2>2. Cardinality(Away) * PerMessage \in Nat /\ MaxFlights * PerMessage \in Nat
          /\ Cardinality(Away') * PerMessage <= MaxFlights * PerMessage
          /\ Cardinality(Away') * PerMessage = Cardinality(Away) * PerMessage + PerMessage
      BY <1>2, <1>9, <2>1, Products
    <2>3. Len(queue) + Cardinality(Away) * PerMessage <= QueueMax + MaxFlights * PerMessage
      BY DEF MirrorTypeOK, PostsOK
    <2>4. k = Len(queue) \/ k = PerMessage
      BY DEF k
    <2>5. Len(queue') = Len(queue) - k
      BY <1>1, <1>3
    <2> QED BY <1>2, <2>1, <2>2, <2>3, <2>4, <2>5, SMTT(40)
  <1>11. MirrorTypeOK'
    BY <1>1, <1>3, <1>7, <1>10 DEF MirrorTypeOK, WindowOK, PostsOK, CountsOK, Flights, Post
  <1> QED BY <1>6, <1>11

\* A batch is answered: it is dropped, and posted or put back.
LEMMA AnswerKeepsPosts ==
    ASSUME MirrorTypeOK, NEW p \in Post, Accepted(p) \/ RateLimited(p) \/ Failed(p)
    PROVE  MirrorTypeOK' /\ \A key \in Version : Sent(key)' <= Sent(key)
  <1> DEFINE batch == flights[p]
  <1>1. /\ batch # <<>> /\ flights' = Put(flights, p, <<>>)
        /\ UNCHANGED <<seen, forgotten>>
    BY DEF Accepted, RateLimited, Failed, Answered, Put
  <1>2. \/ queue' = queue /\ posted' = [k \in Key |-> posted[k] + Copies(k, batch)]
        \/ queue' = queue /\ posted' = posted
        \/ queue' = batch \o queue /\ posted' = posted
    BY DEF Accepted, RateLimited, Failed, Posted
  <1>3. /\ queue \in Seq(Version) /\ Len(queue) \in Nat /\ posted \in [Key -> Nat]
        /\ flights \in Flights /\ batch \in Seq(Version) /\ Len(batch) \in Nat
        /\ Len(batch) <= PerMessage /\ PerMessage \in Nat
    BY Bounds DEF MirrorTypeOK, PostsOK, CountsOK, Flights
  <1>4. <<>> \in Seq(Version) /\ Len(<<>>) <= PerMessage
    BY <1>3
  <1> HIDE DEF batch
  <1>5. flights' \in Flights
    BY <1>1, <1>3, <1>4, FlyingMoves
  <1>6. ASSUME NEW key \in Version PROVE Sent(key)' <= Sent(key)
    <2>1. /\ Cardinality(FlyingIn(key, flights')) \in Nat
          /\ Cardinality(FlyingIn(key, flights)) \in Nat
          /\ Cardinality(FlyingIn(key, flights')) + Copies(key, batch)
             = Cardinality(FlyingIn(key, flights)) + Copies(key, <<>>)
      <3>1. flights' = Put(flights, p, <<>>) /\ flights \in Flights
        BY <1>1, <1>3
      <3>2. Len(<<>>) <= PerMessage /\ <<>> \in Seq(Version)
        BY <1>4, Zenon
      <3>3. Recounted(key, flights, p, <<>>)
        BY <3>1, <3>2, FlyingMoves, Zenon
      <3> QED BY <3>1, <3>3, Zenon DEF batch, Recounted
    <2>2. Copies(key, <<>>) = 0
      BY <1>3, CopiesOfOne, key \in Version
    <2>3. /\ Copies(key, batch) \in Nat /\ Copies(key, queue) \in Nat
          /\ posted[key] \in Nat /\ key \in Key
      BY <1>3, PlacesAreFinite, MirrorCounts
    <2>4. Copies(key, batch \o queue) = Copies(key, batch) + Copies(key, queue)
      BY <1>3, CopiesAdd
    <2>5. Cardinality(FlyingIn(key, flights)) = Cardinality(FlyingIn(key, flights')) + Copies(key, batch)
      BY <2>1, <2>2, <2>3
    <2>6. \/ queue' = queue /\ posted'[key] = posted[key] + Copies(key, batch)
          \/ queue' = queue /\ posted'[key] = posted[key]
          \/ queue' = batch \o queue /\ posted'[key] = posted[key]
      BY <1>2, <2>3
    <2>7. Copies(key, queue') + posted'[key] <= Copies(key, queue) + posted[key] + Copies(key, batch)
          /\ Copies(key, queue') \in Nat /\ posted'[key] \in Nat
      <3>1. CASE queue' = queue /\ posted'[key] = posted[key] + Copies(key, batch)
        BY <2>3, <3>1
      <3>2. CASE queue' = queue /\ posted'[key] = posted[key]
        BY <2>3, <3>2
      <3>3. CASE queue' = batch \o queue /\ posted'[key] = posted[key]
        BY <2>3, <2>4, <3>3
      <3> QED BY <2>6, <3>1, <3>2, <3>3
    <2>8. ASSUME NEW c1 \in Nat, NEW c2 \in Nat, NEW f1 \in Nat, NEW f2 \in Nat,
                 NEW n1 \in Nat, NEW n2 \in Nat, NEW b \in Nat,
                 f1 = f2 + b, c2 + n2 <= c1 + n1 + b
          PROVE  c2 + f2 + n2 <= c1 + f1 + n1
      BY <2>8
    <2>9. Copies(key, queue') + Cardinality(FlyingIn(key, flights')) + posted'[key]
            <= Copies(key, queue) + Cardinality(FlyingIn(key, flights)) + posted[key]
      <3> HIDE DEF Copies, FlyingIn
      <3> QED BY <2>1, <2>3, <2>5, <2>7, <2>8
    <2> QED BY <2>9, Zenon DEF Sent, Flying
  <1>7. posted' \in [Key -> Nat] /\ queue' \in Seq(Version)
        /\ Len(queue') \in Nat /\ Len(queue') <= Len(queue) + Len(batch)
    <2>1. \A k \in Key : posted[k] + Copies(k, batch) \in Nat
      BY <1>3, PlacesAreFinite
    <2>2. batch \o queue \in Seq(Version) /\ Len(batch \o queue) = Len(batch) + Len(queue)
      BY <1>3
    <2>3. posted' \in [Key -> Nat]
      BY <1>2, <1>3, <2>1
    <2>4. queue' = queue \/ queue' = batch \o queue
      BY <1>2
    <2>5. CASE queue' = queue
      BY <1>3, <2>3, <2>5
    <2>6. CASE queue' = batch \o queue
      BY <1>3, <2>2, <2>3, <2>6
    <2> QED BY <2>4, <2>5, <2>6
  <1>8. Away' = Away \ {p} /\ p \in Away
    BY <1>1, <1>3 DEF Away, Flights, Put, batch
  <1>9. Len(queue') + Cardinality(Away') * PerMessage <= QueueMax + MaxFlights * PerMessage
    <2>1. Cardinality(Away') = Cardinality(Away) - 1 /\ Cardinality(Away) \in Nat
          /\ Cardinality(Away) # 0
      BY <1>8, AwayIsFinite, FS_RemoveElement, FS_EmptySet
    <2>2. Cardinality(Away') \in Nat /\ Cardinality(Away) = Cardinality(Away') + 1
      BY <2>1
    <2>3. Cardinality(Away) * PerMessage = Cardinality(Away') * PerMessage + PerMessage
          /\ Cardinality(Away') * PerMessage \in Nat
      <3>1. Cardinality(Away') <= Cardinality(Away')
        BY <2>2
      <3> QED BY <1>3, <2>2, <3>1, Products
    <2>4. Len(queue) + Cardinality(Away) * PerMessage <= QueueMax + MaxFlights * PerMessage
      BY DEF MirrorTypeOK, PostsOK
    <2>5. QueueMax + MaxFlights * PerMessage \in Nat
      <3>1. QueueMax \in Nat /\ MaxFlights * PerMessage \in Nat
        BY Bounds, Products
      <3> QED BY <3>1
    <2> HIDE DEF batch
    <2> QED BY <1>3, <1>7, <2>3, <2>4, <2>5
  <1>10. MirrorTypeOK'
    BY <1>1, <1>5, <1>7, <1>9 DEF MirrorTypeOK, WindowOK, PostsOK, CountsOK, Flights, Post
  <1> QED BY <1>6, <1>10

\* An embed is queued, or dropped when the queue is full.
LEMMA EnqueueKeepsPosts ==
    ASSUME MirrorTypeOK, NEW key \in Version, Enqueue(key),
           UNCHANGED <<seen, flights, posted, forgotten>>
    PROVE  MirrorTypeOK' /\ \A k \in Version : Sent(k)' <= Sent(k) + IF k = key THEN 1 ELSE 0
  <1>1. queue \in Seq(Version) /\ Len(queue) \in Nat
    BY DEF MirrorTypeOK, PostsOK
  <1>2. \/ queue' = queue
        \/ queue' = Append(queue, key) /\ Len(queue) < QueueMax
    BY <1>1, Bounds DEF Enqueue
  <1>3. Append(queue, key) \in Seq(Version) /\ Len(Append(queue, key)) = Len(queue) + 1
    BY <1>1
  <1>4. ASSUME NEW k \in Version PROVE Sent(k)' <= Sent(k) + IF k = key THEN 1 ELSE 0
    <2>1. Copies(k, Append(queue, key)) = Copies(k, queue) + IF key = k THEN 1 ELSE 0
      BY <1>1, CopiesOfOne
    <2>2. Copies(k, queue) \in Nat /\ Cardinality(Flying(k)) \in Nat /\ posted[k] \in Nat
      BY MirrorCounts
    <2>3. Cardinality(Flying(k))' = Cardinality(Flying(k)) /\ posted'[k] = posted[k]
      BY DEF Flying, FlyingIn
    <2>4. Copies(k, queue') = Copies(k, queue)
          \/ Copies(k, queue') = Copies(k, queue) + IF k = key THEN 1 ELSE 0
      BY <1>2, <2>1
    <2> QED BY <2>2, <2>3, <2>4 DEF Sent
  <1>5. Away' = Away
    BY DEF Away
  <1>6. Len(queue') + Cardinality(Away') * PerMessage <= QueueMax + MaxFlights * PerMessage
    <2>1. Cardinality(Away) * PerMessage <= MaxFlights * PerMessage
          /\ Cardinality(Away) * PerMessage \in Nat /\ MaxFlights * PerMessage \in Nat
      BY AwayIsFinite, Bounds, Products
    <2>2. Len(queue) + Cardinality(Away) * PerMessage <= QueueMax + MaxFlights * PerMessage
      BY DEF MirrorTypeOK, PostsOK
    <2>3. QueueMax \in Nat
      BY Bounds
    <2> QED BY <1>1, <1>2, <1>3, <1>5, <2>1, <2>2, <2>3
  <1>7. MirrorTypeOK'
    BY <1>1, <1>2, <1>3, <1>6 DEF MirrorTypeOK, WindowOK, PostsOK, CountsOK, Post
  <1> QED BY <1>4, <1>7

\* A claim that expires is counted.
LEMMA ExpiryIsCounted ==
    ASSUME MirrorTypeOK, NEW i \in DOMAIN seen, Expire(i)
    PROVE  /\ MirrorTypeOK'
           /\ \A k \in Version : /\ forgotten'[k] >= forgotten[k]
                                 /\ Claimed(k) => Claimed(k)' \/ forgotten'[k] = forgotten[k] + 1
  <1>1. /\ seen \in Seq(Entry) /\ Len(seen) <= SeenMax /\ Len(seen) \in Nat
        /\ seen' = [seen EXCEPT ![i].live = FALSE]
        /\ forgotten \in [Key -> Nat]
        /\ forgotten' = [forgotten EXCEPT ![seen[i].key] = @ + 1]
        /\ UNCHANGED <<queue, flights, posted>>
    BY DEF Expire, MirrorTypeOK, WindowOK, CountsOK
  <1> DEFINE e == [seen[i] EXCEPT !.live = FALSE]
  <1>2. seen[i] \in Entry /\ e \in Entry /\ seen[i].key \in Version
    <2>1. seen[i] \in Entry
      BY <1>1, ElementOfSeq
    <2> QED BY <2>1 DEF Entry
  <1>3. seen' = [seen EXCEPT ![i] = e]
    BY <1>1
  <1> HIDE DEF e
  <1>4. seen' \in Seq(Entry) /\ Len(seen') = Len(seen) /\ DOMAIN seen' = DOMAIN seen
        /\ \A j \in DOMAIN seen : j # i => seen'[j] = seen[j]
    <2>1. i \in 1..Len(seen) /\ DOMAIN seen = 1..Len(seen)
      BY <1>1
    <2>2. /\ seen' \in Seq(Entry) /\ Len(seen') = Len(seen)
          /\ \A j \in 1..Len(seen) : seen'[j] = IF j = i THEN e ELSE seen[j]
      <3>1. seen \in Seq(Entry) /\ e \in Entry
        BY <1>1, <1>2
      <3>2. /\ [seen EXCEPT ![i] = e] \in Seq(Entry)
            /\ Len([seen EXCEPT ![i] = e]) = Len(seen)
            /\ \A j \in 1..Len(seen) :
                   [seen EXCEPT ![i] = e][j] = IF j = i THEN e ELSE seen[j]
        BY <2>1, <3>1, ExceptSeq
      <3> QED BY <1>3, <3>2
    <2>3. DOMAIN seen' = 1..Len(seen)
      BY <2>2
    <2> QED BY <2>1, <2>2, <2>3
  <1>5. forgotten' \in [Key -> Nat]
    <2>1. seen[i].key \in Key
      BY <1>2, Bounds
    <2>2. forgotten[seen[i].key] + 1 \in Nat
      BY <1>1, <2>1
    <2> QED BY <1>1, <2>1, <2>2
  <1>6. Away' = Away
    BY <1>1 DEF Away
  <1>7. MirrorTypeOK'
    BY <1>1, <1>4, <1>5, <1>6 DEF MirrorTypeOK, WindowOK, PostsOK, CountsOK, Post
  <1>8. ASSUME NEW k \in Version
        PROVE  /\ forgotten'[k] >= forgotten[k]
               /\ Claimed(k) => Claimed(k)' \/ forgotten'[k] = forgotten[k] + 1
    <2>1. forgotten[k] \in Nat /\ k \in Key
      BY MirrorCounts
    <2>2. CASE seen[i].key = k
      <3>1. forgotten'[k] = forgotten[k] + 1
        BY <1>1, <2>1, <2>2
      <3> QED BY <2>1, <3>1
    <2>3. CASE seen[i].key # k
      <3>1. forgotten'[k] = forgotten[k]
        BY <1>1, <2>1, <2>3
      <3>2. Claimed(k) => Claimed(k)'
        BY <1>4, <2>3 DEF Claimed
      <3> QED BY <2>1, <3>1, <3>2
    <2> QED BY <2>2, <2>3
  <1> QED BY <1>7, <1>8

\* A claim raises the claims of its key, and lowers those of no other.
LEMMA ClaimRaises ==
    ASSUME MirrorTypeOK, NEW key \in Version, ~Claimed(key), Claim(key),
           UNCHANGED <<queue, flights, posted, faults>>
    PROVE  /\ MirrorTypeOK'
           /\ \A k \in Version : /\ Sent(k)' = Sent(k)
                                 /\ Claims(k)' >= Claims(k) + IF k = key THEN 1 ELSE 0
  <1>1. /\ WindowOK' /\ Claimed(key)' /\ forgotten' \in [Key -> Nat]
        /\ \A k \in Version : /\ forgotten'[k] >= forgotten[k]
                              /\ Claimed(k) => Claimed(k)' \/ forgotten'[k] = forgotten[k] + 1
    BY ClaimIsKept
  <1>2. MirrorTypeOK'
    BY <1>1 DEF MirrorTypeOK, PostsOK, CountsOK, Away, Post
  <1>3. ASSUME NEW k \in Version
        PROVE  /\ Sent(k)' = Sent(k)
               /\ Claims(k)' >= Claims(k) + IF k = key THEN 1 ELSE 0
    <2>1. Sent(k)' = Sent(k)
      BY DEF Sent, Flying, FlyingIn
    <2>2. forgotten[k] \in Nat
      BY MirrorCounts
    <2>3. forgotten'[k] \in Nat
      BY <1>2, Bounds DEF MirrorTypeOK, CountsOK
    <2>4. forgotten'[k] >= forgotten[k]
          /\ (Claimed(k) => Claimed(k)' \/ forgotten'[k] = forgotten[k] + 1)
      BY <1>1
    <2>5. CASE k = key
      BY <1>1, <2>1, <2>2, <2>3, <2>4, <2>5 DEF Claims
    <2>6. CASE k # key
      BY <2>1, <2>2, <2>3, <2>4, <2>6 DEF Claims
    <2> QED BY <2>5, <2>6
  <1> QED BY <1>2, <1>3

-----------------------------------------------------------------------------
(* The types.                                                              *)

Handlers == [n : 0..Len(log), pc : Pc]

\* What a handler at an await has to be about.
StageOK(h) ==
    /\ h.pc # "idle" => h.n \in DOMAIN log
    /\ h.pc \in {"cached", "profile", "bare", "good", "write"} => log[h.n].op # "delete"
    /\ h.pc \in {"unnotify", "owner", "notify", "notifyOwner"} =>
           kind[log[h.n].rec] = "comment" /\ log[h.n].op # "delete"
    /\ h.pc = "actor" =>
           kind[log[h.n].rec] \in {"comment", "reaction"} /\ log[h.n].op = "create"
    /\ h.pc \in {"delete", "denotify"} => log[h.n].op = "delete"

TablesOK ==
    /\ kind \in [Rec -> Kind]
    /\ log \in Logs
    /\ pos \in [Host -> 1..Len(log) + 1]
    /\ row \in [Rec -> 0..Len(log)]
    /\ notes \in [Rec -> SUBSET (Actor \cup {"owner"})]
    /\ plays \subseteq DOMAIN log
    /\ user \in User
    /\ enriched \in BOOLEAN
    /\ backfill \in {"todo", "found", "done"}
    /\ lives \in [Commits -> Nat]
    /\ handled \subseteq DOMAIN log
    /\ errors \in 0..MaxError

TasksOK == task \in [Slot -> Handlers] /\ \A t \in Slot : StageOK(task[t])

TypeInv == TablesOK /\ TasksOK /\ MirrorTypeOK

LEMMA LogFacts ==
    ASSUME log \in Logs
    PROVE  /\ Len(log) \in Nat /\ DOMAIN log = 1..Len(log) /\ DOMAIN log \subseteq Commits
           /\ \A n \in DOMAIN log : log[n] \in [op : Op, rec : Rec]
           /\ \A n \in DOMAIN log : KeyOf(n) \in Version
           /\ LegalLog(log)
  <1>1. PICK k \in Commits : log \in [1..k -> [op : Op, rec : Rec]]
    BY DEF Logs
  <1>2. k \in Nat /\ MaxLog \in Nat /\ k <= MaxLog
    BY JetstreamIndexAssumption DEF Commits
  <1>3. Len(log) = k /\ DOMAIN log = 1..k
    BY <1>1, <1>2
  <1>4. LegalLog(log)
    BY DEF Logs
  <1>5. \A n \in DOMAIN log : log[n] \in [op : Op, rec : Rec] /\ n \in 0..MaxLog /\ n \in Commits
    BY <1>1, <1>2, <1>3 DEF Commits
  <1>6. ASSUME NEW n \in DOMAIN log PROVE KeyOf(n) \in Version
    <2>1. log[n].op \in Op /\ log[n].rec \in Rec /\ n \in 0..MaxLog /\ 0 \in 0..MaxLog
      BY <1>2, <1>5
    <2> QED BY <2>1 DEF KeyOf, Version, Op
  <1> QED BY <1>2, <1>3, <1>4, <1>5, <1>6

LEMMA IdleIsTyped ==
    ASSUME log \in Logs
    PROVE  Idle \in Handlers /\ StageOK(Idle) /\ Idle.pc = "idle" /\ Idle.n = 0
  <1>1. Len(log) \in Nat
    BY LogFacts
  <1>2. 0 \in 0..Len(log) /\ "idle" \in Pc
    BY <1>1 DEF Pc
  <1> QED BY <1>2 DEF Idle, Handlers, StageOK

LEMMA InitIsTyped == Init => TypeInv
  <1> SUFFICES ASSUME Init PROVE TypeInv
    OBVIOUS
  <1>1. TablesOK
    <2>1. Len(log) \in Nat /\ MaxError \in Nat
      BY LogFacts, JetstreamIndexAssumption DEF Init
    <2>2. 1 \in 1..Len(log) + 1 /\ 0 \in 0..Len(log) /\ 0 \in 0..MaxError
      BY <2>1
    <2> QED BY <2>2 DEF Init, TablesOK
  <1>2. TasksOK
    BY IdleIsTyped DEF Init, TasksOK
  <1>3. MirrorTypeOK
    <2>1. seen = <<>> /\ queue = <<>> /\ flights = [p \in Post |-> <<>>]
          /\ posted = [k \in Key |-> 0] /\ forgotten = [k \in Key |-> 0]
      BY DEF Init, FirehoseInit
    <2>2. Away = {} /\ Cardinality(Away) = 0
      BY <2>1, FS_EmptySet DEF Away
    <2>3. 0 * PerMessage = 0 /\ QueueMax \in Nat /\ MaxFlights * PerMessage \in Nat
          /\ SeenMax \in Nat /\ PerMessage \in Nat
      BY Bounds, Products
    <2>4. <<>> \in Seq(Version) /\ <<>> \in Seq(Entry) /\ Len(<<>>) = 0
      OBVIOUS
    <2>5. Len(queue) + Cardinality(Away) * PerMessage <= QueueMax + MaxFlights * PerMessage
      BY <2>1, <2>2, <2>3, <2>4
    <2> QED BY <2>1, <2>3, <2>4, <2>5 DEF MirrorTypeOK, WindowOK, PostsOK, CountsOK
  <1> QED BY <1>1, <1>2, <1>3 DEF TypeInv

LEMMA TypeInvIsEnough == TypeInv => TypeOK
  <1> SUFFICES ASSUME TypeInv PROVE TypeOK
    OBVIOUS
  <1>1. TablesOK /\ task \in [Slot -> [n : 0..Len(log), pc : Pc]]
    BY DEF TypeInv, TasksOK, Handlers
  <1>2. Len(seen) <= SeenMax /\ DOMAIN flights = Post
    BY DEF TypeInv, MirrorTypeOK, WindowOK, PostsOK
  <1>3. Len(queue) <= QueueMax + MaxFlights * PerMessage
    <2>1. Cardinality(Away) * PerMessage \in Nat /\ MaxFlights * PerMessage \in Nat
      BY AwayIsFinite, Bounds, Products
    <2>2. queue \in Seq(Version)
          /\ Len(queue) + Cardinality(Away) * PerMessage <= QueueMax + MaxFlights * PerMessage
      BY DEF TypeInv, MirrorTypeOK, PostsOK
    <2>3. Len(queue) \in Nat /\ QueueMax \in Nat
      BY <2>2, Bounds
    <2> QED BY <2>1, <2>2, <2>3
  <1> QED BY <1>1, <1>2, <1>3 DEF TypeOK, TablesOK

-----------------------------------------------------------------------------
(* What a step does to the handlers and to the mirror.                     *)

\* A handler goes to another await, or begins, and leaves the mirror alone.
Works(t) ==
    /\ task[t].pc # "embed"
    /\ \E h \in Handlers : h.pc # "embed" /\ StageOK(h) /\ task' = Put(task, t, h)
    /\ UNCHANGED firehoseVars

\* A handler is done with commit n and claims it for the mirror if nobody has.
Passes(t, n) ==
    /\ task[t].pc # "embed"
    /\ \/ /\ \E h \in Handlers : h.pc = "idle" /\ task' = Put(task, t, h)
          /\ UNCHANGED <<seen, forgotten>>
       \/ /\ ~Claimed(KeyOf(n)) /\ Claim(KeyOf(n))
          /\ task' = Put(task, t, [n |-> n, pc |-> "embed"])
    /\ UNCHANGED <<queue, flights, posted, faults>>

LEMMA GotoPuts ==
    ASSUME TypeInv, NEW t \in Slot, NEW q \in Pc
    PROVE  /\ task[t] \in Handlers
           /\ [n |-> task[t].n, pc |-> q] \in Handlers
           /\ Goto(t, q) => task' = Put(task, t, [n |-> task[t].n, pc |-> q])
  <1>1. task \in [Slot -> [n : 0..Len(log), pc : Pc]]
    BY DEF TypeInv, TasksOK, Handlers
  <1>2. task[t] \in [n : 0..Len(log), pc : Pc]
    BY <1>1
  <1>3. [task[t] EXCEPT !.pc = q] = [n |-> task[t].n, pc |-> q]
    BY <1>2
  <1>4. Goto(t, q) => task' = [task EXCEPT ![t] = [task[t] EXCEPT !.pc = q]]
    BY <1>1 DEF Goto
  <1> QED BY <1>2, <1>3, <1>4 DEF Put, Handlers

LEMMA ForwardPasses ==
    ASSUME TypeInv, NEW t \in Slot, Forward(t), task[t].pc \notin {"idle", "embed"}
    PROVE  Passes(t, task[t].n)
  <1>1. CASE Claimed(KeyOf(task[t].n))
    <2>1. task' = Put(task, t, Idle) /\ UNCHANGED <<seen, forgotten, queue, flights, posted, faults>>
      BY <1>1 DEF Forward, Put
    <2> QED BY <2>1, IdleIsTyped DEF Passes, TypeInv, TablesOK
  <1>2. CASE ~Claimed(KeyOf(task[t].n))
    <2>1. Goto(t, "embed") /\ Claim(KeyOf(task[t].n)) /\ UNCHANGED <<queue, flights, posted, faults>>
      BY <1>2 DEF Forward
    <2>2. "embed" \in Pc
      BY DEF Pc
    <2>3. task' = Put(task, t, [n |-> task[t].n, pc |-> "embed"])
      BY <2>1, <2>2, GotoPuts
    <2> QED BY <1>2, <2>1, <2>3 DEF Passes
  <1> QED BY <1>1, <1>2

LEMMA GotoWorks ==
    ASSUME TypeInv, NEW t \in Slot, NEW q \in Pc \ {"embed"}, Goto(t, q),
           task[t].pc # "embed", StageOK([n |-> task[t].n, pc |-> q]), UNCHANGED firehoseVars
    PROVE  Works(t)
  <1>1. /\ [n |-> task[t].n, pc |-> q] \in Handlers
        /\ task' = Put(task, t, [n |-> task[t].n, pc |-> q])
    BY GotoPuts
  <1>2. [n |-> task[t].n, pc |-> q].pc # "embed"
    OBVIOUS
  <1> QED BY <1>1, <1>2 DEF Works

LEMMA HandlerSteps ==
    ASSUME TypeInv, NEW t \in Slot, TaskStep(t)
    PROVE  /\ UNCHANGED logVars
           /\ \/ Works(t)
              \/ task[t].n \in DOMAIN log /\ Passes(t, task[t].n)
              \/ Embed(t)
  <1> DEFINE n == task[t].n
  <1>1. StageOK(task[t])
    BY DEF TypeInv, TasksOK
  <1>2. CASE Cached(t)
    <2>1. PICK q \in {"write", "profile"} : Goto(t, q)
      BY <1>2 DEF Cached
    <2>2. StageOK([n |-> n, pc |-> q]) /\ q \in Pc \ {"embed"}
      BY <1>1, <1>2 DEF Cached, At, StageOK, Pc
    <2> QED BY <1>2, <2>1, <2>2, GotoWorks DEF Cached, At
  <1>3. CASE Profile(t)
    <2>1. PICK q \in {"good", "bare"} : Goto(t, q)
      BY <1>3 DEF Profile
    <2>2. StageOK([n |-> n, pc |-> q]) /\ q \in Pc \ {"embed"}
      BY <1>1, <1>3 DEF Profile, At, StageOK, Pc
    <2> QED BY <1>3, <2>1, <2>2, GotoWorks DEF Profile, At
  <1>4. CASE UpsertUser(t)
    <2>1. StageOK([n |-> n, pc |-> "write"]) /\ "write" \in Pc \ {"embed"}
      BY <1>1, <1>4 DEF UpsertUser, At, StageOK, Pc
    <2> QED BY <1>4, <2>1, GotoWorks DEF UpsertUser, At
  <1>5. CASE Write(t)
    <2>1. At(t, "write") /\ n \in DOMAIN log /\ OpOf(t) # "delete" /\ UNCHANGED logVars
      BY <1>1, <1>5 DEF Write, At, StageOK, OpOf
    <2>2. CASE KindOf(t) = "comment"
      <3>1. Goto(t, "unnotify") /\ UNCHANGED firehoseVars
        BY <1>5, <2>2 DEF Write
      <3>2. StageOK([n |-> n, pc |-> "unnotify"]) /\ "unnotify" \in Pc \ {"embed"}
        BY <2>1, <2>2 DEF StageOK, Pc, KindOf, OpOf, RecOf
      <3> QED BY <2>1, <3>1, <3>2, GotoWorks DEF At
    <2>3. CASE KindOf(t) = "reaction" /\ OpOf(t) = "create"
      <3>1. Goto(t, "actor") /\ UNCHANGED firehoseVars
        BY <1>5, <2>3 DEF Write
      <3>2. StageOK([n |-> n, pc |-> "actor"]) /\ "actor" \in Pc \ {"embed"}
        BY <2>1, <2>3 DEF StageOK, Pc, KindOf, OpOf, RecOf
      <3> QED BY <2>1, <3>1, <3>2, GotoWorks DEF At
    <2>4. CASE ~(KindOf(t) = "comment") /\ ~(KindOf(t) = "reaction" /\ OpOf(t) = "create")
      <3>1. Forward(t)
        BY <1>5, <2>4 DEF Write, Indexed
      <3> QED BY <2>1, <3>1, ForwardPasses DEF At
    <2> QED BY <2>2, <2>3, <2>4
  <1>6. CASE Unnotify(t)
    <2>1. PICK q \in {"owner", "notify"} : Goto(t, q)
      BY <1>6 DEF Unnotify
    <2>2. StageOK([n |-> n, pc |-> q]) /\ q \in Pc \ {"embed"}
      BY <1>1, <1>6 DEF Unnotify, At, StageOK, Pc
    <2> QED BY <1>6, <2>1, <2>2, GotoWorks DEF Unnotify, At
  <1>7. CASE Owner(t)
    <2>1. PICK q \in {"notify", "notifyOwner"} : Goto(t, q)
      BY <1>7 DEF Owner
    <2>2. StageOK([n |-> n, pc |-> q]) /\ q \in Pc \ {"embed"}
      BY <1>1, <1>7 DEF Owner, At, StageOK, Pc
    <2> QED BY <1>7, <2>1, <2>2, GotoWorks DEF Owner, At
  <1>8. CASE Notify(t)
    <2>1. task[t].pc \in {"notify", "notifyOwner"} /\ n \in DOMAIN log /\ KindOf(t) = "comment"
          /\ UNCHANGED logVars
      BY <1>1, <1>8 DEF Notify, At, StageOK, KindOf, RecOf
    <2>2. CASE OpOf(t) = "create"
      <3>1. Goto(t, "actor") /\ UNCHANGED firehoseVars
        BY <1>8, <2>2 DEF Notify
      <3>2. StageOK([n |-> n, pc |-> "actor"]) /\ "actor" \in Pc \ {"embed"}
        BY <2>1, <2>2 DEF StageOK, Pc, KindOf, OpOf, RecOf
      <3> QED BY <2>1, <3>1, <3>2, GotoWorks
    <2>3. CASE OpOf(t) # "create"
      <3>1. Forward(t)
        BY <1>8, <2>3 DEF Notify, Indexed
      <3> QED BY <2>1, <3>1, ForwardPasses
    <2> QED BY <2>2, <2>3
  <1>9. CASE Broadcast(t)
    <2>1. At(t, "actor") /\ n \in DOMAIN log /\ Forward(t) /\ UNCHANGED logVars
      BY <1>1, <1>9 DEF Broadcast, Indexed, At, StageOK
    <2> QED BY <2>1, ForwardPasses DEF At
  <1>10. CASE Delete(t)
    <2>1. At(t, "delete") /\ n \in DOMAIN log /\ OpOf(t) = "delete" /\ UNCHANGED logVars
      BY <1>1, <1>10 DEF Delete, At, StageOK, OpOf
    <2>2. CASE KindOf(t) = "comment"
      <3>1. Goto(t, "denotify") /\ UNCHANGED firehoseVars
        BY <1>10, <2>2 DEF Delete
      <3>2. StageOK([n |-> n, pc |-> "denotify"]) /\ "denotify" \in Pc \ {"embed"}
        BY <2>1 DEF StageOK, Pc, OpOf
      <3> QED BY <2>1, <3>1, <3>2, GotoWorks DEF At
    <2>3. CASE KindOf(t) # "comment"
      <3>1. Forward(t)
        BY <1>10, <2>3 DEF Delete, Indexed
      <3> QED BY <2>1, <3>1, ForwardPasses DEF At
    <2> QED BY <2>2, <2>3
  <1>11. CASE Denotify(t)
    <2>1. At(t, "denotify") /\ n \in DOMAIN log /\ Forward(t) /\ UNCHANGED logVars
      BY <1>1, <1>11 DEF Denotify, Indexed, At, StageOK
    <2> QED BY <2>1, ForwardPasses DEF At
  <1>12. CASE Fail(t)
    <2>1. task[t].pc \notin {"idle", "embed"} /\ n \in DOMAIN log /\ Forward(t) /\ UNCHANGED logVars
      BY <1>1, <1>12 DEF Fail, StageOK
    <2> QED BY <2>1, ForwardPasses
  <1>13. CASE Embed(t)
    BY <1>13 DEF Embed
  <1>14. UNCHANGED logVars
    BY DEF TaskStep, Cached, Profile, UpsertUser, Write, Unnotify, Owner, Notify, Broadcast,
           Delete, Denotify, Fail, Embed
  <1> QED BY <1>2, <1>3, <1>4, <1>5, <1>6, <1>7, <1>8, <1>9, <1>10, <1>11, <1>12, <1>13, <1>14
          DEF TaskStep

LEMMA DeliverySteps ==
    ASSUME TypeInv, NEW h \in Host, NEW t \in Slot, Deliver(h, t)
    PROVE  /\ pos[h] \in DOMAIN log /\ UNCHANGED <<kind, log>>
           /\ Works(t) \/ Passes(t, pos[h])
  <1> DEFINE n == pos[h]
  <1>1. n \in DOMAIN log /\ n \in 0..Len(log) /\ At(t, "idle") /\ UNCHANGED <<kind, log>>
    <2>1. Len(log) \in Nat /\ DOMAIN log = 1..Len(log) /\ n \in 1..Len(log) + 1 /\ n <= Len(log)
      BY LogFacts DEF TypeInv, TablesOK, Deliver
    <2> QED BY <2>1 DEF Deliver
  <1>2. CASE StartOf(n) # "none"
    <2>1. task' = Put(task, t, [n |-> n, pc |-> StartOf(n)]) /\ UNCHANGED firehoseVars
      BY <1>2 DEF Deliver, Put
    <2>2. \/ StartOf(n) = "delete" /\ log[n].op = "delete"
          \/ StartOf(n) \in {"write", "cached"} /\ log[n].op # "delete"
      BY <1>2 DEF StartOf
    <2>3. StageOK([n |-> n, pc |-> StartOf(n)]) /\ [n |-> n, pc |-> StartOf(n)] \in Handlers
          /\ StartOf(n) # "embed"
      BY <1>1, <2>2 DEF StageOK, Handlers, Pc
    <2> QED BY <1>1, <2>1, <2>3 DEF Works, At
  <1>3. CASE StartOf(n) = "none"
    <2>1. CASE Claimed(KeyOf(n))
      <3>1. task' = task /\ UNCHANGED <<seen, forgotten, queue, flights, posted, faults>>
        BY <1>3, <2>1 DEF Deliver
      <3>2. task[t] \in Handlers /\ Put(task, t, task[t]) = task
        BY DEF TypeInv, TasksOK, Put
      <3> QED BY <1>1, <3>1, <3>2 DEF Passes, At
    <2>2. CASE ~Claimed(KeyOf(n))
      <3>1. task' = Put(task, t, [n |-> n, pc |-> "embed"]) /\ Claim(KeyOf(n))
            /\ UNCHANGED <<queue, flights, posted, faults>>
        BY <1>3, <2>2 DEF Deliver, Put
      <3> QED BY <1>1, <2>2, <3>1 DEF Passes, At
    <2> QED BY <1>1, <2>1, <2>2
  <1> QED BY <1>1, <1>2, <1>3

LEMMA StepKinds ==
    ASSUME TypeInv, [Next]_vars
    PROVE  /\ UNCHANGED <<kind, log>>
           /\ \/ \E t \in Slot : Works(t)
              \/ \E t \in Slot, n \in DOMAIN log : Passes(t, n)
              \/ \E t \in Slot : Embed(t)
              \/ FirehoseStep /\ UNCHANGED task
              \/ UNCHANGED <<task, firehoseVars>>
  <1>1. CASE \E h \in Host, t \in Slot : Deliver(h, t)
    BY <1>1, DeliverySteps
  <1>2. CASE \E t \in Slot : TaskStep(t)
    BY <1>2, HandlerSteps DEF logVars
  <1>3. CASE BackfillSelect \/ BackfillUpdate
    BY <1>3 DEF BackfillSelect, BackfillUpdate, logVars
  <1>4. CASE Mirror
    BY <1>4 DEF Mirror, logVars
  <1>5. CASE UNCHANGED vars
    BY <1>5 DEF vars, logVars
  <1> QED BY <1>1, <1>2, <1>3, <1>4, <1>5 DEF Next

-----------------------------------------------------------------------------
(* The embeds of a record version and its claims.                          *)

Builds(h, key) == h.pc = "embed" /\ KeyOf(h.n) = key
Building(key)  == {t \in Slot : Builds(task[t], key)}

\* Of every record version no more embeds are built, queued, under way or posted than
\* there were claims.
MirrorInv == \A key \in Version : Cardinality(Building(key)) + Sent(key) <= Claims(key)

LEMMA BuildingIsFinite ==
    ASSUME NEW key
    PROVE  IsFiniteSet(Building(key)) /\ Cardinality(Building(key)) \in Nat
  <1>1. Building(key) \in SUBSET Slot
    BY DEF Building
  <1> QED BY <1>1, JetstreamIndexAssumption, FS_Subset, FS_CardinalityType

LEMMA BuildingMoves ==
    ASSUME TypeInv, UNCHANGED log, NEW t \in Slot, NEW h, task' = Put(task, t, h), NEW key
    PROVE  /\ Cardinality(Building(key)) \in Nat /\ Cardinality(Building(key)') \in Nat
           /\ Cardinality(Building(key)') + (IF Builds(task[t], key) THEN 1 ELSE 0)
              = Cardinality(Building(key)) + (IF Builds(h, key) THEN 1 ELSE 0)
  <1>1. IsFiniteSet(Building(key)) /\ IsFiniteSet(Building(key)')
    <2>1. Building(key) \in SUBSET Slot /\ Building(key)' \in SUBSET Slot
      BY DEF Building
    <2> QED BY <2>1, JetstreamIndexAssumption, FS_Subset
  <1>2. \A u \in Slot : task'[u] = IF u = t THEN h ELSE task[u]
    BY DEF TypeInv, TasksOK, Put
  <1>3. Building(key)' \ {t} = Building(key) \ {t}
    BY <1>2 DEF Building, Builds, KeyOf
  <1>4. t \in Building(key)' <=> Builds(h, key)
    BY <1>2 DEF Building, Builds, KeyOf
  <1>5. t \in Building(key) <=> Builds(task[t], key)
    BY DEF Building
  <1>6. /\ Cardinality(Building(key)) \in Nat
        /\ Cardinality(Building(key)) = Cardinality(Building(key) \ {t})
                                        + IF t \in Building(key) THEN 1 ELSE 0
    BY <1>1, CountWithout
  <1>7. /\ Cardinality(Building(key)') \in Nat /\ Cardinality(Building(key) \ {t}) \in Nat
        /\ Cardinality(Building(key)') = Cardinality(Building(key) \ {t})
                                        + IF t \in Building(key)' THEN 1 ELSE 0
    BY <1>1, <1>3, CountWithout
  <1> QED BY <1>4, <1>5, <1>6, <1>7

\* A step of the mirror itself.
LEMMA MirrorKeepsItsCount ==
    ASSUME TypeInv, MirrorInv, FirehoseStep, UNCHANGED <<kind, log, task>>
    PROVE  MirrorTypeOK' /\ MirrorInv'
  <1>1. MirrorTypeOK
    BY DEF TypeInv
  <1>2. MirrorTypeOK' /\ \A key \in Version : Sent(key)' <= Sent(key) /\ Claims(key)' >= Claims(key)
    <2>1. CASE \E i \in DOMAIN seen : Expire(i)
      <3>1. PICK i \in DOMAIN seen : Expire(i)
        BY <2>1
      <3>2. /\ MirrorTypeOK'
            /\ \A k \in Version : /\ forgotten'[k] >= forgotten[k]
                                  /\ Claimed(k) => Claimed(k)' \/ forgotten'[k] = forgotten[k] + 1
        BY <1>1, <3>1, ExpiryIsCounted
      <3>3. ASSUME NEW key \in Version PROVE Sent(key)' <= Sent(key) /\ Claims(key)' >= Claims(key)
        <4>1. forgotten[key] \in Nat /\ Sent(key) \in Nat
          BY <1>1, MirrorCounts
        <4>2. forgotten'[key] \in Nat
          BY <3>2, Bounds DEF MirrorTypeOK, CountsOK
        <4>3. Sent(key)' = Sent(key)
          BY <3>1 DEF Expire, Sent, Flying, FlyingIn
        <4>4. Claims(key)' >= Claims(key)
          BY <3>2, <4>1, <4>2 DEF Claims
        <4> QED BY <4>1, <4>3, <4>4
      <3> QED BY <3>2, <3>3
    <2>2. CASE \E p \in Post : Flush(p)
      <3>1. PICK p \in Post : Flush(p)
        BY <2>2
      <3>2. MirrorTypeOK' /\ \A key \in Version : Sent(key)' = Sent(key)
        BY <1>1, <3>1, FlushKeepsPosts
      <3>3. ASSUME NEW key \in Version PROVE Claims(key)' = Claims(key)
        BY <3>1 DEF Flush, Claims, Claimed
      <3> QED BY <1>1, <3>2, <3>3, MirrorCounts
    <2>3. CASE \E p \in Post : Accepted(p) \/ RateLimited(p) \/ Failed(p)
      <3>1. PICK p \in Post : Accepted(p) \/ RateLimited(p) \/ Failed(p)
        BY <2>3
      <3>2. MirrorTypeOK' /\ \A key \in Version : Sent(key)' <= Sent(key)
        BY <1>1, <3>1, AnswerKeepsPosts
      <3>3. ASSUME NEW key \in Version PROVE Claims(key)' = Claims(key)
        BY <3>1 DEF Accepted, RateLimited, Failed, Claims, Claimed
      <3> QED BY <1>1, <3>2, <3>3, MirrorCounts
    <2> QED BY <2>1, <2>2, <2>3 DEF FirehoseStep
  <1>3. ASSUME NEW key \in Version
        PROVE  (Cardinality(Building(key)) + Sent(key) <= Claims(key))'
    <2>1. Building(key)' = Building(key)
      BY DEF Building, Builds, KeyOf
    <2>2. (Claims(key) \in Nat /\ Sent(key) \in Nat)'
      BY <1>2, MirrorCounts, PTL
    <2>3. Sent(key) \in Nat /\ Claims(key) \in Nat /\ Cardinality(Building(key)) \in Nat
      BY <1>1, MirrorCounts, BuildingIsFinite
    <2>4. Cardinality(Building(key)) + Sent(key) <= Claims(key)
      BY DEF MirrorInv
    <2>5. Sent(key)' <= Sent(key) /\ Claims(key)' >= Claims(key)
      BY <1>2
    <2> QED BY <2>1, <2>2, <2>3, <2>4, <2>5
  <1> QED BY <1>2, <1>3 DEF MirrorInv, Version

LEMMA TasksStay ==
    ASSUME TypeInv, UNCHANGED <<kind, log>>, NEW t \in Slot, NEW h \in Handlers, StageOK(h),
           task' = Put(task, t, h)
    PROVE  TasksOK'
  <1>1. \A u \in Slot : task'[u] = h \/ task'[u] = task[u]
    BY DEF TypeInv, TasksOK, Put
  <1>2. task' \in [Slot -> Handlers]
    BY DEF TypeInv, TasksOK, Put
  <1>3. ASSUME NEW u \in Slot PROVE StageOK(task[u])'
    <2>1. StageOK(task'[u])
      BY <1>1 DEF TypeInv, TasksOK
    <2> QED BY <2>1 DEF StageOK
  <1>4. Handlers' = Handlers
    BY DEF Handlers
  <1> QED BY <1>2, <1>3, <1>4 DEF TasksOK

\* The handlers and the mirror in every step.
LEMMA TasksAndMirrorKeep ==
    ASSUME TypeInv, MirrorInv, [Next]_vars
    PROVE  TasksOK' /\ MirrorTypeOK' /\ MirrorInv'
  <1>1. UNCHANGED <<kind, log>> /\ MirrorTypeOK /\ TasksOK
    BY StepKinds DEF TypeInv
  <1>2. CASE \E t \in Slot : Works(t)
    <2>1. PICK t \in Slot, h \in Handlers :
              /\ task[t].pc # "embed" /\ h.pc # "embed" /\ StageOK(h) /\ task' = Put(task, t, h)
              /\ UNCHANGED firehoseVars
      BY <1>2 DEF Works
    <2>2. TasksOK'
      BY <1>1, <2>1, TasksStay
    <2>3. MirrorTypeOK'
      BY <1>1, <2>1 DEF firehoseVars, MirrorTypeOK, WindowOK, PostsOK, CountsOK, Away, Post
    <2>4. ASSUME NEW key \in Version
          PROVE  (Cardinality(Building(key)) + Sent(key) <= Claims(key))'
      <3>1. Cardinality(Building(key)') = Cardinality(Building(key))
        BY <1>1, <2>1, BuildingMoves DEF Builds
      <3>2. Sent(key)' = Sent(key) /\ Claims(key)' = Claims(key)
        BY <2>1 DEF firehoseVars, Sent, Claims, Flying, FlyingIn, Claimed
      <3>3. Cardinality(Building(key)) + Sent(key) <= Claims(key)
        BY DEF MirrorInv
      <3> QED BY <3>1, <3>2, <3>3
    <2> QED BY <2>2, <2>3, <2>4 DEF MirrorInv, Version
  <1>3. CASE \E t \in Slot, n \in DOMAIN log : Passes(t, n)
    <2>1. PICK t \in Slot, n \in DOMAIN log : Passes(t, n)
      BY <1>3
    <2>2. KeyOf(n) \in Version /\ n \in 0..Len(log)
      BY LogFacts DEF TypeInv, TablesOK
    <2>3. CASE \E h \in Handlers : /\ h.pc = "idle" /\ task' = Put(task, t, h)
                                   /\ UNCHANGED <<seen, forgotten>>
      <3>1. PICK h \in Handlers : /\ h.pc = "idle" /\ task' = Put(task, t, h)
                                  /\ UNCHANGED <<seen, forgotten, queue, flights, posted>>
        BY <2>1, <2>3 DEF Passes
      <3>2. StageOK(h)
        BY <3>1 DEF StageOK
      <3>3. TasksOK'
        BY <1>1, <3>1, <3>2, TasksStay
      <3>4. MirrorTypeOK'
        BY <1>1, <3>1 DEF MirrorTypeOK, WindowOK, PostsOK, CountsOK, Away, Post
      <3>5. ASSUME NEW key \in Version
            PROVE  (Cardinality(Building(key)) + Sent(key) <= Claims(key))'
        <4>1. Cardinality(Building(key)') = Cardinality(Building(key))
          BY <1>1, <2>1, <3>1, BuildingMoves DEF Builds, Passes
        <4>2. Sent(key)' = Sent(key) /\ Claims(key)' = Claims(key)
          BY <3>1 DEF Sent, Claims, Flying, FlyingIn, Claimed
        <4>3. Cardinality(Building(key)) + Sent(key) <= Claims(key)
          BY DEF MirrorInv
        <4> QED BY <4>1, <4>2, <4>3
      <3> QED BY <3>3, <3>4, <3>5 DEF MirrorInv, Version
    <2>4. CASE /\ ~Claimed(KeyOf(n)) /\ Claim(KeyOf(n))
               /\ task' = Put(task, t, [n |-> n, pc |-> "embed"])
      <3> DEFINE h == [n |-> n, pc |-> "embed"]
      <3>1. h \in Handlers /\ StageOK(h) /\ h.pc = "embed" /\ h.n = n
        BY <2>2 DEF Handlers, StageOK, Pc
      <3>2. task' = Put(task, t, h) /\ task[t].pc # "embed"
            /\ UNCHANGED <<queue, flights, posted, faults>>
        BY <2>1, <2>4 DEF Passes
      <3> HIDE DEF h
      <3>3. TasksOK'
        BY <1>1, <3>1, <3>2, TasksStay
      <3>4. /\ MirrorTypeOK'
            /\ \A k \in Version : /\ Sent(k)' = Sent(k)
                                  /\ Claims(k)' >= Claims(k) + IF k = KeyOf(n) THEN 1 ELSE 0
        BY <1>1, <2>2, <2>4, <3>2, ClaimRaises
      <3>5. ASSUME NEW key \in Version
            PROVE  (Cardinality(Building(key)) + Sent(key) <= Claims(key))'
        <4>1. /\ Cardinality(Building(key)) \in Nat /\ Cardinality(Building(key)') \in Nat
              /\ Cardinality(Building(key)')
                 = Cardinality(Building(key)) + IF key = KeyOf(n) THEN 1 ELSE 0
          BY <1>1, <3>1, <3>2, BuildingMoves DEF Builds
        <4>2. Sent(key)' = Sent(key) /\ Claims(key)' >= Claims(key) + IF key = KeyOf(n) THEN 1 ELSE 0
          BY <3>4
        <4>3. Cardinality(Building(key)) + Sent(key) <= Claims(key)
          BY DEF MirrorInv
        <4>4. Sent(key) \in Nat /\ Claims(key) \in Nat
          BY <1>1, MirrorCounts
        <4>5. (Claims(key) \in Nat)'
          <5>1. MirrorTypeOK'
            BY <3>4
          <5>2. forgotten'[key] \in Nat
            BY <5>1, Bounds DEF MirrorTypeOK, CountsOK
          <5> QED BY <5>2 DEF Claims
        <4> QED BY <4>1, <4>2, <4>3, <4>4, <4>5
      <3> QED BY <3>3, <3>4, <3>5 DEF MirrorInv, Version
    <2> QED BY <2>1, <2>3, <2>4 DEF Passes
  <1>4. CASE \E t \in Slot : Embed(t)
    <2>1. PICK t \in Slot : Embed(t)
      BY <1>4
    <2> DEFINE key0 == KeyOf(task[t].n)
    <2>2. key0 \in Version /\ task[t].pc = "embed"
      <3>1. StageOK(task[t]) /\ task[t].pc = "embed"
        BY <1>1, <2>1 DEF TasksOK, Embed, At
      <3>2. task[t].n \in DOMAIN log
        BY <3>1 DEF StageOK
      <3> QED BY <3>1, <3>2, LogFacts DEF TypeInv, TablesOK
    <2>3. task' = Put(task, t, Idle) /\ UNCHANGED <<seen, flights, posted, forgotten, faults>>
          /\ (Enqueue(key0) \/ UNCHANGED queue)
      BY <2>1 DEF Embed, Put
    <2>4. Idle \in Handlers /\ StageOK(Idle) /\ Idle.pc = "idle"
      BY IdleIsTyped DEF TypeInv, TablesOK
    <2>5. TasksOK'
      BY <1>1, <2>3, <2>4, TasksStay
    <2> HIDE DEF key0
    <2>6. /\ MirrorTypeOK'
          /\ \A k \in Version : Sent(k)' <= Sent(k) + IF k = key0 THEN 1 ELSE 0
      <3>1. CASE Enqueue(key0)
        BY <1>1, <2>2, <2>3, <3>1, EnqueueKeepsPosts
      <3>2. CASE UNCHANGED queue
        <4>1. MirrorTypeOK'
          BY <1>1, <2>3, <3>2 DEF MirrorTypeOK, WindowOK, PostsOK, CountsOK, Away, Post
        <4>2. ASSUME NEW k \in Version PROVE Sent(k)' <= Sent(k) + IF k = key0 THEN 1 ELSE 0
          <5>1. Sent(k)' = Sent(k)
            BY <2>3, <3>2 DEF Sent, Flying, FlyingIn
          <5>2. Sent(k) \in Nat
            BY <1>1, MirrorCounts
          <5> QED BY <5>1, <5>2
        <4> QED BY <4>1, <4>2
      <3> QED BY <2>3, <3>1, <3>2
    <2>7. ASSUME NEW key \in Version
          PROVE  (Cardinality(Building(key)) + Sent(key) <= Claims(key))'
      <3>1. /\ Cardinality(Building(key)) \in Nat /\ Cardinality(Building(key)') \in Nat
            /\ Cardinality(Building(key)') + (IF key = key0 THEN 1 ELSE 0)
               = Cardinality(Building(key))
        BY <1>1, <2>2, <2>3, <2>4, BuildingMoves DEF Builds, key0
      <3>2. Sent(key)' <= Sent(key) + IF key = key0 THEN 1 ELSE 0
        BY <2>6
      <3>3. Claims(key)' = Claims(key)
        BY <2>3 DEF Claims, Claimed
      <3>4. Cardinality(Building(key)) + Sent(key) <= Claims(key)
        BY DEF MirrorInv
      <3>5. Sent(key) \in Nat /\ Claims(key) \in Nat
        BY <1>1, MirrorCounts
      <3>6. (Claims(key) \in Nat /\ Sent(key) \in Nat)'
        <4>1. MirrorTypeOK'
          BY <2>6
        <4> QED BY <4>1, MirrorCounts, PTL
      <3> QED BY <3>1, <3>2, <3>3, <3>4, <3>5, <3>6
    <2> QED BY <2>5, <2>6, <2>7 DEF MirrorInv, Version
  <1>5. CASE FirehoseStep /\ UNCHANGED task
    <2>1. TasksOK'
      <3>1. Handlers' = Handlers /\ \A u \in Slot : StageOK(task[u])
        BY <1>1 DEF Handlers, TasksOK
      <3> QED BY <1>1, <1>5, <3>1 DEF TasksOK, StageOK
    <2> QED BY <1>1, <1>5, <2>1, MirrorKeepsItsCount
  <1>6. CASE UNCHANGED <<task, firehoseVars>>
    <2>1. TasksOK'
      <3>1. Handlers' = Handlers /\ \A u \in Slot : StageOK(task[u])
        BY <1>1 DEF Handlers, TasksOK
      <3> QED BY <1>1, <1>6, <3>1 DEF TasksOK, StageOK
    <2>2. MirrorTypeOK'
      BY <1>1, <1>6 DEF firehoseVars, MirrorTypeOK, WindowOK, PostsOK, CountsOK, Away, Post
    <2>3. MirrorInv'
      BY <1>1, <1>6 DEF MirrorInv, Version, Building, Builds, KeyOf, firehoseVars,
         Sent, Claims, Flying, FlyingIn, Claimed, Post
    <2> QED BY <2>1, <2>2, <2>3
  <1> QED BY <1>2, <1>3, <1>4, <1>5, <1>6, StepKinds

-----------------------------------------------------------------------------
(* The tables.                                                             *)

LEMMA TablesKeep ==
    ASSUME TypeInv, [Next]_vars
    PROVE  TablesOK'
  <1>1. TablesOK /\ TasksOK
    BY DEF TypeInv
  <1>2. /\ Len(log) \in Nat /\ DOMAIN log = 1..Len(log) /\ DOMAIN log \subseteq Commits
        /\ \A n \in DOMAIN log : log[n].rec \in Rec
        /\ 0 \in 0..Len(log) /\ \A n \in DOMAIN log : n \in 0..Len(log)
    BY <1>1, LogFacts DEF TablesOK
  <1>3. ASSUME NEW t \in Slot, task[t].pc # "idle"
        PROVE  /\ task[t].n \in DOMAIN log /\ task[t].n \in 0..Len(log) /\ task[t].n \in Commits
               /\ RecOf(t) \in Rec
    BY <1>1, <1>2, <1>3 DEF TasksOK, StageOK, RecOf
  <1>4. CASE \E h \in Host, t \in Slot : Deliver(h, t)
    <2>1. PICK h \in Host, t \in Slot : Deliver(h, t)
      BY <1>4
    <2>2. /\ pos' = [pos EXCEPT ![h] = pos[h] + 1] /\ pos[h] <= Len(log)
          /\ UNCHANGED <<kind, log, tableVars, userVars, lives, errors>>
          /\ handled' = handled \/ handled' = handled \cup {pos[h]}
      BY <2>1 DEF Deliver
    <2>3. pos[h] \in DOMAIN log /\ pos' \in [Host -> 1..Len(log) + 1]
      BY <1>1, <1>2, <2>2 DEF TablesOK
    <2> QED BY <1>1, <2>2, <2>3 DEF TablesOK, tableVars, userVars
  <1>5. CASE \E t \in Slot : TaskStep(t)
    <2>1. PICK t \in Slot : TaskStep(t)
      BY <1>5
    <2>2. CASE Cached(t) \/ Profile(t) \/ UpsertUser(t)
      <3>1. UNCHANGED <<logVars, tableVars, backfill, lives, handled, errors>>
        BY <2>2 DEF Cached, Profile, UpsertUser
      <3>2. enriched' \in BOOLEAN /\ user' \in User
        BY <1>1, <2>2 DEF Cached, Profile, UpsertUser, TablesOK, User, Bare
      <3> QED BY <1>1, <3>1, <3>2 DEF TablesOK, tableVars, logVars
    <2>3. CASE Write(t)
      <3>1. task[t].n \in DOMAIN log /\ task[t].n \in 0..Len(log) /\ RecOf(t) \in Rec
        BY <1>3, <2>3 DEF Write, At
      <3>2. row' \in [Rec -> 0..Len(log)] /\ plays' \subseteq DOMAIN log
        <4>1. row' = row \/ row' = [row EXCEPT ![RecOf(t)] = task[t].n]
          BY <2>3 DEF Write
        <4>2. plays' = plays \/ plays' = plays \cup {task[t].n}
          BY <2>3 DEF Write
        <4> QED BY <1>1, <3>1, <4>1, <4>2 DEF TablesOK
      <3>3. handled' = handled \/ handled' = handled \cup {task[t].n}
        BY <2>3 DEF Write, Indexed
      <3>4. UNCHANGED <<logVars, notes, userVars, lives, errors>>
        BY <2>3 DEF Write
      <3> QED BY <1>1, <3>1, <3>2, <3>3, <3>4 DEF TablesOK, logVars, userVars
    <2>4. CASE Unnotify(t)
      <3>1. notes' = [notes EXCEPT ![RecOf(t)] = {}]
            /\ UNCHANGED <<logVars, row, plays, userVars, lives, handled, errors>>
        BY <2>4 DEF Unnotify
      <3> QED BY <1>1, <3>1 DEF TablesOK, logVars, userVars
    <2>5. CASE Owner(t)
      BY <1>1, <2>5 DEF Owner, TablesOK, logVars, indexVars, tableVars, userVars
    <2>6. CASE Notify(t)
      <3>1. task[t].n \in DOMAIN log /\ task[t].n \in Commits /\ RecOf(t) \in Rec
        BY <1>3, <2>6 DEF Notify, At
      <3>2. Recipients(t) \subseteq Actor \cup {"owner"}
        BY <3>1, JetstreamIndexAssumption DEF Recipients
      <3>3. notes' = [notes EXCEPT ![RecOf(t)] = @ \cup Recipients(t)]
            /\ UNCHANGED <<logVars, row, plays, userVars, lives, errors>>
            /\ (handled' = handled \/ handled' = handled \cup {task[t].n})
        BY <2>6 DEF Notify, Indexed
      <3>4. notes' \in [Rec -> SUBSET (Actor \cup {"owner"})]
        <4>1. notes[RecOf(t)] \cup Recipients(t) \in SUBSET (Actor \cup {"owner"})
          BY <1>1, <3>1, <3>2 DEF TablesOK
        <4> QED BY <1>1, <3>1, <3>3, <4>1 DEF TablesOK
      <3> QED BY <1>1, <3>1, <3>3, <3>4 DEF TablesOK, logVars, userVars
    <2>7. CASE Broadcast(t)
      <3>1. task[t].n \in DOMAIN log /\ task[t].n \in Commits
        BY <1>3, <2>7 DEF Broadcast, At
      <3>2. lives' = [lives EXCEPT ![task[t].n] = @ + 1] /\ handled' = handled \cup {task[t].n}
            /\ UNCHANGED <<logVars, tableVars, userVars, errors>>
        BY <2>7 DEF Broadcast, Indexed
      <3>3. lives' \in [Commits -> Nat]
        BY <1>1, <3>1, <3>2 DEF TablesOK
      <3> QED BY <1>1, <3>1, <3>2, <3>3 DEF TablesOK, logVars, tableVars, userVars
    <2>8. CASE Delete(t) \/ Denotify(t)
      <3>1. task[t].n \in DOMAIN log
        BY <1>3, <2>8 DEF Delete, Denotify, At
      <3>2. UNCHANGED <<logVars, plays, userVars, lives, errors>>
            /\ (row' = row \/ row' = [row EXCEPT ![RecOf(t)] = 0])
            /\ (notes' = notes \/ notes' = [notes EXCEPT ![RecOf(t)] = {}])
            /\ (handled' = handled \/ handled' = handled \cup {task[t].n})
        BY <2>8 DEF Delete, Denotify, Indexed
      <3>3. row' \in [Rec -> 0..Len(log)] /\ notes' \in [Rec -> SUBSET (Actor \cup {"owner"})]
        BY <1>1, <1>2, <3>2, ZenonT(60) DEF TablesOK
      <3> QED BY <1>1, <3>1, <3>2, <3>3 DEF TablesOK, logVars, userVars
    <2>9. CASE Fail(t) \/ Embed(t)
      <3>1. UNCHANGED <<logVars, tableVars, userVars, lives, handled>>
            /\ (errors' = errors \/ (errors < MaxError /\ errors' = errors + 1))
        BY <2>9 DEF Fail, Embed
      <3>2. errors' \in 0..MaxError
        BY <1>1, <3>1, JetstreamIndexAssumption DEF TablesOK
      <3> QED BY <1>1, <3>1, <3>2 DEF TablesOK, logVars, tableVars, userVars
    <2> QED BY <2>1, <2>2, <2>3, <2>4, <2>5, <2>6, <2>7, <2>8, <2>9 DEF TaskStep
  <1>6. CASE BackfillSelect \/ BackfillUpdate
    BY <1>1, <1>6 DEF BackfillSelect, BackfillUpdate, TablesOK, User, logVars, tableVars
  <1>7. CASE Mirror \/ UNCHANGED vars
    BY <1>1, <1>7 DEF Mirror, vars, TablesOK, logVars, indexVars, tableVars, userVars
  <1> QED BY <1>4, <1>5, <1>6, <1>7 DEF Next

LEMMA IndexInvariants == Spec => [](TypeInv /\ MirrorInv)
  <1>1. Init => TypeInv /\ MirrorInv
    <2> SUFFICES ASSUME Init PROVE TypeInv /\ MirrorInv
      OBVIOUS
    <2>1. TypeInv
      BY InitIsTyped
    <2>2. ASSUME NEW key \in Version PROVE Cardinality(Building(key)) + Sent(key) <= Claims(key)
      <3>1. Building(key) = {} /\ Flying(key) = {} /\ ~Claimed(key)
        BY DEF Init, FirehoseInit, Building, Builds, Idle, Flying, FlyingIn, Claimed
      <3>2. Copies(key, queue) = 0 /\ posted[key] = 0 /\ forgotten[key] = 0
        BY <2>1, CopiesOfOne, MirrorCounts DEF TypeInv, MirrorTypeOK, PostsOK, Init, FirehoseInit
      <3> QED BY <3>1, <3>2, FS_EmptySet DEF Sent, Claims
    <2> QED BY <2>1, <2>2 DEF MirrorInv
  <1>2. TypeInv /\ MirrorInv /\ [Next]_vars => (TypeInv /\ MirrorInv)'
    BY TablesKeep, TasksAndMirrorKeep DEF TypeInv
  <1> QED BY <1>1, <1>2, PTL DEF Spec

\* The tables, the window of claimed keys and the queue of embeds keep their types and
\* their bounds: batches put back after a 429 (firehose.ts:84-86) exceed MAX_QUEUE by
\* no more than the posts that were under way.
THEOREM IndexIsTyped == Spec => []TypeOK
  BY IndexInvariants, TypeInvIsEnough, PTL

\* An embed is built only by the handler that claimed its version, and from there it is
\* in one place at a time, whatever Discord answers (firehose.ts:35-40, 50-68, 74-90;
\* consumer.ts:480-491): at most one per claim.
THEOREM MirrorsOnce == Spec => []MirroredOnce
  <1>1. TypeInv /\ MirrorInv => MirroredOnce
    <2> SUFFICES ASSUME TypeInv, MirrorInv, NEW key \in Keys
                 PROVE  Cardinality({t \in Slot : At(t, "embed") /\ KeyOf(task[t].n) = key})
                        + Copies(key, queue) + Cardinality(Flying(key)) + posted[key]
                        <= 1 + forgotten[key]
      BY DEF MirroredOnce, Flying, FlyingIn
    <2>1. key \in Version
      BY LogFacts DEF Keys, TypeInv, TablesOK
    <2>2. Cardinality(Building(key)) + Sent(key) <= Claims(key)
      BY <2>1 DEF MirrorInv
    <2>3. Building(key) = {t \in Slot : At(t, "embed") /\ KeyOf(task[t].n) = key}
      BY DEF Building, Builds, At
    <2>4. /\ Copies(key, queue) \in Nat /\ Cardinality(Flying(key)) \in Nat
          /\ posted[key] \in Nat /\ forgotten[key] \in Nat /\ Cardinality(Building(key)) \in Nat
      BY <2>1, MirrorCounts, BuildingIsFinite DEF TypeInv
    <2> QED BY <2>2, <2>3, <2>4 DEF Sent, Claims
  <1> QED BY <1>1, IndexInvariants, PTL

-----------------------------------------------------------------------------
(* A record that is written once.                                          *)

Inside == Pc \ {"idle", "embed"}
Fanout == {"owner", "notify", "notifyOwner"}
After  == Fanout \cup {"unnotify", "actor"}

Once(n)       == \A m \in DOMAIN log : log[m].rec = log[n].rec => m = n
Doing(n, pcs) == \E t \in Slot : task[t].n = n /\ task[t].pc \in pcs
Delivered(n)  == \E h \in Host : pos[h] > n

Entered(n) == Delivered(n) => n \in handled \/ Doing(n, Inside)
RowOK(n)   == /\ row[log[n].rec] \in {0, n}
              /\ n \in handled \/ Doing(n, After) =>
                     IF kind[log[n].rec] = "status" THEN n \in plays ELSE row[log[n].rec] = n
NotesOK(n) == kind[log[n].rec] = "comment" /\ (n \in handled \/ Doing(n, {"actor"})) =>
                  Mention[n] \subseteq notes[log[n].rec] \/ Doing(n, Fanout)
LivesOK(n) == kind[log[n].rec] \in {"comment", "reaction"} /\ n \in handled => lives[n] > 0

OnTheWay(n) == Entered(n) /\ RowOK(n) /\ NotesOK(n) /\ LivesOK(n)

\* Without an error, a record that is written once is on its way into the index.
OnceInv == errors = 0 => \A n \in DOMAIN log : Once(n) => OnTheWay(n)

LEMMA OnceIsCreated ==
    ASSUME log \in Logs, NEW n \in DOMAIN log, Once(n)
    PROVE  log[n].op = "create" /\ n # 0 /\ n \in Commits
  <1> DEFINE before == {j \in 1..n - 1 : log[j].rec = log[n].rec}
  <1>1. n \in 1..Len(log) /\ Len(log) \in Nat /\ LegalLog(log) /\ DOMAIN log = 1..Len(log)
        /\ n \in Commits
    BY LogFacts
  <1>2. before = {}
    BY <1>1 DEF Once
  <1>3. (before # {} /\ log[Max(before)].op # "delete") <=> log[n].op # "create"
    BY <1>1 DEF LegalLog
  <1> HIDE DEF before
  <1> QED BY <1>1, <1>2, <1>3

LEMMA DoingMoves ==
    ASSUME TypeInv, NEW t \in Slot, NEW h, task' = Put(task, t, h), NEW n, NEW S
    PROVE  /\ h.n = n /\ h.pc \in S => Doing(n, S)'
           /\ ~(h.n = n /\ h.pc \in S) => (Doing(n, S)' => Doing(n, S))
           /\ ~(task[t].n = n /\ task[t].pc \in S) => (Doing(n, S) => Doing(n, S)')
  <1>1. \A u \in Slot : task'[u] = IF u = t THEN h ELSE task[u]
    BY DEF TypeInv, TasksOK, Put
  <1> QED BY <1>1 DEF Doing

\* Nothing that the commit is about changes.
LEMMA OnTheWayStays ==
    ASSUME NEW n \in DOMAIN log, OnTheWay(n), UNCHANGED <<kind, log>>,
           row'[log[n].rec] = row[log[n].rec], notes'[log[n].rec] = notes[log[n].rec],
           n \in plays => n \in plays', lives'[n] = lives[n], n \in handled' <=> n \in handled,
           Delivered(n)' => Delivered(n),
           Doing(n, Inside)' <=> Doing(n, Inside), Doing(n, After)' <=> Doing(n, After),
           Doing(n, Fanout)' <=> Doing(n, Fanout), Doing(n, {"actor"})' <=> Doing(n, {"actor"})
    PROVE  OnTheWay(n)'
  <1>1. Entered(n)'
    BY DEF OnTheWay, Entered
  <1>2. RowOK(n)'
    BY DEF OnTheWay, RowOK
  <1>3. NotesOK(n)'
    BY DEF OnTheWay, NotesOK
  <1>4. LivesOK(n)'
    BY DEF OnTheWay, LivesOK
  <1> QED BY <1>1, <1>2, <1>3, <1>4 DEF OnTheWay

\* The step of a handler that is about another commit.
LEMMA OthersDoNotDisturb ==
    ASSUME TypeInv, NEW n \in DOMAIN log, Once(n), OnTheWay(n),
           NEW t \in Slot, TaskStep(t), task[t].n # n
    PROVE  OnTheWay(n)'
  <1> DEFINE r == log[n].rec
  <1>1. /\ task[t].n \in DOMAIN log /\ RecOf(t) # r /\ n # 0 /\ n \in Commits
        /\ r \in Rec /\ row \in [Rec -> 0..Len(log)] /\ lives \in [Commits -> Nat]
        /\ notes \in [Rec -> SUBSET (Actor \cup {"owner"})]
    <2>1. task[t].pc # "idle"
      BY DEF TaskStep, Cached, Profile, UpsertUser, Write, Unnotify, Owner, Notify, Broadcast,
             Delete, Denotify, Fail, Embed, At
    <2>2. task[t].n \in DOMAIN log
      BY <2>1 DEF TypeInv, TasksOK, StageOK
    <2> QED BY <2>2, LogFacts, OnceIsCreated DEF TypeInv, TablesOK, Once, RecOf
  <1>2. UNCHANGED <<kind, log, pos>>
    BY HandlerSteps DEF logVars
  <1>3. PICK h \in Handlers : task' = Put(task, t, h) /\ h.n # n
    <2>1. CASE \E q \in Pc : Goto(t, q)
      <3>1. PICK q \in Pc : Goto(t, q)
        BY <2>1
      <3>2. /\ [n |-> task[t].n, pc |-> q] \in Handlers
            /\ task' = Put(task, t, [n |-> task[t].n, pc |-> q])
        BY <3>1, GotoPuts
      <3> QED BY <3>2
    <2>2. CASE task' = [task EXCEPT ![t] = Idle]
      <3>1. Idle \in Handlers /\ Idle.n = 0
        BY IdleIsTyped DEF TypeInv, TablesOK
      <3> QED BY <1>1, <2>2, <3>1 DEF Put
    <2>3. (\E q \in Pc : Goto(t, q)) \/ task' = [task EXCEPT ![t] = Idle]
      BY DEF TaskStep, Cached, Profile, UpsertUser, Write, Unnotify, Owner, Notify, Broadcast,
             Delete, Denotify, Fail, Embed, Indexed, Forward, Pc
    <2> QED BY <2>1, <2>2, <2>3
  <1>4. row'[r] = row[r] /\ notes'[r] = notes[r] /\ (n \in plays => n \in plays')
    <2>1. /\ row' = row \/ \E x : row' = [row EXCEPT ![RecOf(t)] = x]
          /\ notes' = notes \/ \E x : notes' = [notes EXCEPT ![RecOf(t)] = x]
          /\ plays' = plays \/ plays' = plays \cup {task[t].n}
      BY DEF TaskStep, Cached, Profile, UpsertUser, Write, Unnotify, Owner, Notify, Broadcast,
             Delete, Denotify, Fail, Embed, tableVars, indexVars
    <2> QED BY <1>1, <2>1
  <1>5. lives'[n] = lives[n] /\ (n \in handled' <=> n \in handled)
    <2>1. /\ lives' = lives \/ \E x : lives' = [lives EXCEPT ![task[t].n] = x]
          /\ handled' = handled \/ handled' = handled \cup {task[t].n}
      BY DEF TaskStep, Cached, Profile, UpsertUser, Write, Unnotify, Owner, Notify, Broadcast,
             Delete, Denotify, Fail, Embed, Indexed, indexVars
    <2> QED BY <1>1, <2>1
  <1>6. ASSUME NEW S PROVE Doing(n, S)' <=> Doing(n, S)
    BY <1>3, DoingMoves
  <1>7. Delivered(n)' <=> Delivered(n)
    BY <1>2 DEF Delivered
  <1> HIDE DEF r
  <1> QED BY <1>2, <1>4, <1>5, <1>6, <1>7, OnTheWayStays DEF r

\* A step of a handler that is about the commit itself.
LEMMA ItsHandlerGoesOn ==
    ASSUME TypeInv, NEW n \in DOMAIN log, Once(n), OnTheWay(n), errors' = errors,
           NEW t \in Slot, TaskStep(t), task[t].n = n
    PROVE  OnTheWay(n)'
  <1> DEFINE r == log[n].rec
  <1>1. /\ log[n].op = "create" /\ n # 0 /\ n \in Commits /\ r \in Rec
        /\ RecOf(t) = r /\ OpOf(t) = "create" /\ KindOf(t) = kind[r]
        /\ row \in [Rec -> 0..Len(log)] /\ lives \in [Commits -> Nat]
        /\ notes \in [Rec -> SUBSET (Actor \cup {"owner"})]
    BY LogFacts, OnceIsCreated DEF TypeInv, TablesOK, RecOf, OpOf, KindOf
  <1>2. UNCHANGED <<kind, log, pos>> /\ StageOK(task[t])
    BY HandlerSteps DEF logVars, TypeInv, TasksOK
  <1>3. Delivered(n)' <=> Delivered(n)
    BY <1>2 DEF Delivered
  <1>4. /\ row[r] \in {0, n}
        /\ n \in handled \/ Doing(n, After) =>
               IF kind[r] = "status" THEN n \in plays ELSE row[r] = n
        /\ kind[r] = "comment" /\ (n \in handled \/ Doing(n, {"actor"})) =>
               Mention[n] \subseteq notes[r] \/ Doing(n, Fanout)
        /\ kind[r] \in {"comment", "reaction"} /\ n \in handled => lives[n] > 0
        /\ Delivered(n) => n \in handled \/ Doing(n, Inside)
    BY DEF OnTheWay, Entered, RowOK, NotesOK, LivesOK
  <1>5. ASSUME NEW q \in Pc, Goto(t, q), NEW S
        PROVE  /\ q \in S => Doing(n, S)'
               /\ q \notin S => (Doing(n, S)' => Doing(n, S))
               /\ task[t].pc \notin S => (Doing(n, S) => Doing(n, S)')
    <2> DEFINE h == [n |-> n, pc |-> q]
    <2>1. task' = Put(task, t, h) /\ h.n = n /\ h.pc = q
      BY <1>5, GotoPuts
    <2> HIDE DEF h
    <2> QED BY <2>1, DoingMoves
  <1>6. ASSUME Forward(t), task[t].pc # "embed", task[t].pc # "idle", NEW S \in SUBSET Inside
        PROVE  /\ Doing(n, S)' => Doing(n, S)
               /\ task[t].pc \notin S => (Doing(n, S) => Doing(n, S)')
    <2>1. PICK h : task' = Put(task, t, h) /\ h.pc \in {"idle", "embed"}
      <3>1. Passes(t, n)
        BY <1>6, ForwardPasses
      <3>2. [n |-> n, pc |-> "embed"].pc = "embed"
        OBVIOUS
      <3> QED BY <3>1, <3>2 DEF Passes
    <2>2. h.pc \notin S
      BY <2>1 DEF Inside
    <2> QED BY <2>1, <2>2, DoingMoves
  <1>7. {"actor"} \in SUBSET Inside /\ Fanout \in SUBSET Inside /\ After \in SUBSET Inside
        /\ Inside \in SUBSET Inside
    BY DEF Inside, Fanout, After, Pc
  <1>8. ASSUME NEW S, task[t].pc \in S PROVE Doing(n, S)
    BY <1>8 DEF Doing
  <1> HIDE DEF r
  <1>9. CASE Cached(t) \/ Profile(t) \/ UpsertUser(t)
    <2>1. PICK q \in {"write", "profile", "good", "bare"} : Goto(t, q)
      BY <1>9 DEF Cached, Profile, UpsertUser
    <2>2. task[t].pc \in {"cached", "profile", "good", "bare"}
          /\ UNCHANGED <<kind, log, tableVars, lives, handled>>
      BY <1>9 DEF Cached, Profile, UpsertUser, At, logVars
    <2>3. q \in Pc /\ q \in Inside /\ q \notin After /\ q \notin Fanout /\ q \notin {"actor"}
          /\ task[t].pc \in Inside /\ task[t].pc \notin After /\ task[t].pc \notin Fanout
          /\ task[t].pc \notin {"actor"}
      BY <2>2 DEF Inside, After, Fanout, Pc
    <2>4. /\ Doing(n, Inside) /\ Doing(n, Inside)'
          /\ Doing(n, After)' <=> Doing(n, After)
          /\ Doing(n, Fanout)' <=> Doing(n, Fanout)
          /\ Doing(n, {"actor"})' <=> Doing(n, {"actor"})
      BY <1>5, <1>8, <2>1, <2>3
    <2> QED BY <1>3, <2>2, <2>4, OnTheWayStays DEF tableVars
  <1>10. CASE Write(t)
    <2>1. /\ task[t].pc = "write" /\ UNCHANGED <<kind, log, pos, notes, lives>>
          /\ row' = IF \/ kind[r] \in {"favorite", "station", "comment"}
                       \/ kind[r] = "reaction" /\ row[r] = 0
                    THEN [row EXCEPT ![r] = n] ELSE row
          /\ plays' = IF kind[r] = "status" THEN plays \cup {n} ELSE plays
      BY <1>1, <1>10 DEF Write, At, logVars
    <2>2. IF kind[r] = "status" THEN n \in plays' /\ row' = row ELSE row'[r] = n
      <3>1. kind[r] \in {"favorite", "station", "comment", "reaction", "status"}
        BY <1>1, JetstreamIndexAssumption DEF TypeInv, TablesOK, Kinds
      <3> QED BY <1>1, <1>4, <2>1, <3>1
    <2>3. RowOK(n)'
      BY <1>4, <2>1, <2>2 DEF RowOK, r
    <2>4. task[t].pc \notin Fanout /\ task[t].pc \notin {"actor"}
      BY <2>1 DEF Fanout
    <2>5. CASE kind[r] = "comment"
      <3>1. Goto(t, "unnotify") /\ handled' = handled
        BY <1>1, <1>10, <2>5 DEF Write
      <3>2. "unnotify" \in Pc /\ "unnotify" \in Inside /\ "unnotify" \notin Fanout
            /\ "unnotify" \notin {"actor"}
        BY DEF Pc, Inside, Fanout
      <3>3. /\ Doing(n, Inside)' /\ (Doing(n, {"actor"})' => Doing(n, {"actor"}))
            /\ (Doing(n, Fanout) => Doing(n, Fanout)')
        BY <1>5, <2>4, <3>1, <3>2
      <3>4. Entered(n)'
        BY <3>3 DEF Entered
      <3>5. NotesOK(n)'
        BY <1>4, <2>1, <3>1, <3>3 DEF NotesOK, r
      <3>6. LivesOK(n)'
        BY <1>4, <2>1, <3>1 DEF LivesOK, r
      <3> QED BY <2>3, <3>4, <3>5, <3>6 DEF OnTheWay
    <2>6. CASE kind[r] = "reaction"
      <3>1. Goto(t, "actor") /\ handled' = handled
        BY <1>1, <1>10, <2>6 DEF Write
      <3>2. "actor" \in Pc /\ "actor" \in Inside
        BY DEF Pc, Inside
      <3>3. Doing(n, Inside)'
        BY <1>5, <3>1, <3>2
      <3>4. Entered(n)'
        BY <3>3 DEF Entered
      <3>5. NotesOK(n)' /\ LivesOK(n)'
        BY <1>4, <2>1, <2>6, <3>1 DEF NotesOK, LivesOK, r
      <3> QED BY <2>3, <3>4, <3>5 DEF OnTheWay
    <2>7. CASE kind[r] # "comment" /\ kind[r] # "reaction"
      <3>1. handled' = handled \cup {n}
        BY <1>1, <1>10, <2>7 DEF Write, Indexed
      <3>2. Entered(n)'
        BY <3>1 DEF Entered
      <3>3. NotesOK(n)' /\ LivesOK(n)'
        BY <2>1, <2>7 DEF NotesOK, LivesOK, r
      <3> QED BY <2>3, <3>2, <3>3 DEF OnTheWay
    <2> QED BY <2>5, <2>6, <2>7
  <1>11. CASE Unnotify(t) \/ Owner(t)
    <2>1. PICK q \in Fanout : Goto(t, q)
      BY <1>11 DEF Unnotify, Owner, Fanout
    <2>2. task[t].pc \in {"unnotify", "owner"}
          /\ UNCHANGED <<kind, log, pos, row, plays, lives, handled>>
      BY <1>11 DEF Unnotify, Owner, At, logVars, indexVars, tableVars
    <2>3. q \in Pc /\ q \in Inside /\ task[t].pc \in After
      BY <2>2 DEF Inside, After, Fanout, Pc
    <2>4. Doing(n, Inside)' /\ Doing(n, Fanout)' /\ Doing(n, After)
      BY <1>5, <1>8, <2>1, <2>3
    <2>5. Entered(n)' /\ NotesOK(n)'
      BY <2>4 DEF Entered, NotesOK
    <2>6. RowOK(n)' /\ LivesOK(n)'
      BY <1>4, <2>2, <2>4 DEF RowOK, LivesOK, r
    <2> QED BY <2>5, <2>6 DEF OnTheWay
  <1>12. CASE Notify(t)
    <2>1. /\ task[t].pc \in {"notify", "notifyOwner"} /\ Goto(t, "actor")
          /\ UNCHANGED <<kind, log, pos, row, plays, lives, handled>>
          /\ notes' = [notes EXCEPT ![r] = @ \cup Recipients(t)]
      BY <1>1, <1>12 DEF Notify, At, logVars
    <2>2. Mention[n] \subseteq notes'[r]
      <3>1. Mention[n] \subseteq Recipients(t)
        BY DEF Recipients
      <3> QED BY <1>1, <2>1, <3>1
    <2>3. "actor" \in Pc /\ "actor" \in Inside /\ task[t].pc \in After
      BY <2>1 DEF Inside, After, Fanout, Pc
    <2>4. Doing(n, Inside)' /\ Doing(n, After)
      BY <1>5, <1>8, <2>1, <2>3
    <2>5. Entered(n)'
      BY <2>4 DEF Entered
    <2>6. NotesOK(n)'
      BY <2>1, <2>2 DEF NotesOK, r
    <2>7. RowOK(n)' /\ LivesOK(n)'
      BY <1>4, <2>1, <2>4 DEF RowOK, LivesOK, r
    <2> QED BY <2>5, <2>6, <2>7 DEF OnTheWay
  <1>13. CASE Broadcast(t)
    <2>1. /\ task[t].pc = "actor" /\ Forward(t) /\ handled' = handled \cup {n}
          /\ UNCHANGED <<kind, log, pos, row, plays, notes>>
          /\ lives' = [lives EXCEPT ![n] = @ + 1]
      BY <1>13 DEF Broadcast, Indexed, At, logVars, tableVars
    <2>2. lives'[n] > 0
      BY <1>1, <2>1
    <2>3. task[t].pc \in After /\ task[t].pc \in {"actor"} /\ task[t].pc \notin Fanout
      BY <2>1 DEF After, Fanout
    <2>4. Doing(n, After) /\ Doing(n, {"actor"}) /\ (Doing(n, Fanout) => Doing(n, Fanout)')
      BY <1>6, <1>7, <1>8, <2>1, <2>3
    <2>5. Entered(n)' /\ LivesOK(n)'
      BY <2>1, <2>2 DEF Entered, LivesOK
    <2>6. RowOK(n)' /\ NotesOK(n)'
      BY <1>4, <2>1, <2>4 DEF RowOK, NotesOK, r
    <2> QED BY <2>5, <2>6 DEF OnTheWay
  <1>14. CASE Delete(t) \/ Denotify(t)
    BY <1>1, <1>2, <1>14 DEF Delete, Denotify, At, StageOK
  <1>15. CASE Fail(t)
    <2>1. errors \in Nat /\ errors' = errors + 1
      BY <1>15, JetstreamIndexAssumption DEF Fail, TypeInv, TablesOK
    <2> QED BY <2>1
  <1>16. CASE Embed(t)
    <2>1. /\ task[t].pc = "embed" /\ task' = Put(task, t, Idle)
          /\ UNCHANGED <<kind, log, tableVars, lives, handled>>
      BY <1>16 DEF Embed, At, Put, logVars
    <2>2. Idle.n # n
      BY <1>1 DEF Idle
    <2>3. ASSUME NEW S \in SUBSET Inside PROVE Doing(n, S)' <=> Doing(n, S)
      <3>1. task[t].pc \notin S
        BY <2>1 DEF Inside
      <3> QED BY <2>1, <2>2, <3>1, DoingMoves
    <2>4. /\ Doing(n, Inside)' <=> Doing(n, Inside)
          /\ Doing(n, After)' <=> Doing(n, After)
          /\ Doing(n, Fanout)' <=> Doing(n, Fanout)
          /\ Doing(n, {"actor"})' <=> Doing(n, {"actor"})
      BY <1>7, <2>3
    <2> QED BY <1>3, <2>1, <2>4, OnTheWayStays DEF tableVars
  <1> QED BY <1>9, <1>10, <1>11, <1>12, <1>13, <1>14, <1>15, <1>16 DEF TaskStep

\* A delivery starts the handler of its commit, and leaves the others alone.
LEMMA DeliveryStarts ==
    ASSUME TypeInv, NEW n \in DOMAIN log, Once(n), OnTheWay(n),
           NEW h \in Host, NEW t \in Slot, Deliver(h, t)
    PROVE  OnTheWay(n)'
  <1> DEFINE m == pos[h]
  <1>1. /\ task[t].pc = "idle" /\ pos' = [pos EXCEPT ![h] = m + 1]
        /\ UNCHANGED <<kind, log, row, notes, plays, lives>>
    BY DEF Deliver, At, tableVars
  <1>2. /\ log[n].op = "create" /\ n \in Nat /\ pos \in [Host -> 1..Len(log) + 1] /\ Len(log) \in Nat
        /\ \A g \in Host : pos[g] \in Nat
    BY LogFacts, OnceIsCreated DEF TypeInv, TablesOK
  <1>3. /\ Inside \in SUBSET Inside /\ After \in SUBSET Inside /\ Fanout \in SUBSET Inside
        /\ {"actor"} \in SUBSET Inside
    BY DEF Inside, After, Fanout, Pc
  <1>4. ASSUME NEW S \in SUBSET Inside PROVE task[t].pc \notin S
    BY <1>1 DEF Inside
  <1>5. CASE m = n
    <2> DEFINE g == [n |-> n, pc |-> StartOf(n)]
    <2>1. StartOf(n) \in {"write", "cached"}
      BY <1>2 DEF StartOf
    <2>2. task' = Put(task, t, g) /\ handled' = handled
      BY <1>5, <2>1 DEF Deliver, Put
    <2>3. g.n = n /\ g.pc \in Inside /\ g.pc \notin After /\ g.pc \notin Fanout
          /\ g.pc \notin {"actor"}
      BY <2>1 DEF Inside, After, Fanout, Pc
    <2> HIDE DEF g, m
    <2>4. Doing(n, Inside)'
      BY <2>2, <2>3, DoingMoves
    <2>5. /\ Doing(n, After)' <=> Doing(n, After)
          /\ Doing(n, Fanout)' <=> Doing(n, Fanout)
          /\ Doing(n, {"actor"})' <=> Doing(n, {"actor"})
      BY <1>3, <1>4, <2>2, <2>3, DoingMoves
    <2>6. Entered(n)'
      BY <2>4 DEF Entered
    <2>7. RowOK(n)' /\ NotesOK(n)' /\ LivesOK(n)'
      BY <1>1, <2>2, <2>5 DEF OnTheWay, RowOK, NotesOK, LivesOK
    <2> QED BY <2>6, <2>7 DEF OnTheWay
  <1>6. CASE m # n
    <2>1. Delivered(n)' => Delivered(n)
      <3> SUFFICES ASSUME NEW g \in Host, pos'[g] > n PROVE \E f \in Host : pos[f] > n
        BY DEF Delivered
      <3>1. pos'[g] = IF g = h THEN m + 1 ELSE pos[g]
        BY <1>1, <1>2
      <3>2. CASE g # h
        BY <3>1, <3>2
      <3>3. CASE g = h
        <4>1. m + 1 > n /\ m \in Nat
          BY <1>2, <3>1, <3>3
        <4> HIDE DEF m
        <4>2. m > n
          BY <1>2, <1>6, <4>1
        <4> QED BY <4>2 DEF m
      <3> QED BY <3>2, <3>3
    <2>2. n \in handled' <=> n \in handled
      BY <1>6 DEF Deliver
    <2>3. task' = task \/ \E x : task' = Put(task, t, [n |-> m, pc |-> x])
      BY DEF Deliver, Put
    <2> HIDE DEF m
    <2>4. ASSUME NEW S \in SUBSET Inside PROVE Doing(n, S)' <=> Doing(n, S)
      <3>1. CASE task' = task
        BY <3>1 DEF Doing
      <3>2. CASE \E x : task' = Put(task, t, [n |-> m, pc |-> x])
        <4>1. PICK x : task' = Put(task, t, [n |-> m, pc |-> x])
          BY <3>2
        <4> DEFINE g == [n |-> m, pc |-> x]
        <4>2. task' = Put(task, t, g) /\ g.n # n
          BY <1>6, <4>1
        <4> HIDE DEF g
        <4> QED BY <1>4, <4>2, DoingMoves
      <3> QED BY <2>3, <3>1, <3>2
    <2>5. /\ Doing(n, Inside)' <=> Doing(n, Inside)
          /\ Doing(n, After)' <=> Doing(n, After)
          /\ Doing(n, Fanout)' <=> Doing(n, Fanout)
          /\ Doing(n, {"actor"})' <=> Doing(n, {"actor"})
      BY <1>3, <2>4
    <2> QED BY <1>1, <2>1, <2>2, <2>5, OnTheWayStays
  <1> QED BY <1>5, <1>6

LEMMA OnceInvKeeps == ASSUME TypeInv, OnceInv, [Next]_vars PROVE OnceInv'
  <1>1. errors \in Nat
    BY JetstreamIndexAssumption DEF TypeInv, TablesOK
  <1>2. UNCHANGED <<kind, log>>
    BY HandlerSteps DEF Next, Deliver, BackfillSelect, BackfillUpdate, Mirror, vars, logVars
  <1>3. errors' = errors \/ errors' = errors + 1
    BY DEF Next, TaskStep, Deliver, Cached, Profile, UpsertUser, Write, Unnotify, Owner, Notify,
           Broadcast, Delete, Denotify, Fail, Embed, BackfillSelect, BackfillUpdate, Mirror,
           vars, indexVars
  <1> SUFFICES ASSUME errors' = 0, NEW n \in DOMAIN log, Once(n) PROVE OnTheWay(n)'
    BY <1>2 DEF OnceInv, Once
  <1>4. errors' = errors /\ OnTheWay(n)
    BY <1>1, <1>3 DEF OnceInv
  <1>5. ASSUME NEW h \in Host, NEW t \in Slot, Deliver(h, t) PROVE OnTheWay(n)'
    BY <1>4, <1>5, DeliveryStarts
  <1>6. ASSUME NEW t \in Slot, TaskStep(t) PROVE OnTheWay(n)'
    <2>1. CASE task[t].n = n
      BY <1>4, <1>6, <2>1, ItsHandlerGoesOn
    <2>2. CASE task[t].n # n
      BY <1>4, <1>6, <2>2, OthersDoNotDisturb
    <2> QED BY <2>1, <2>2
  <1>7. CASE BackfillSelect \/ BackfillUpdate \/ Mirror \/ UNCHANGED vars
    <2>1. UNCHANGED <<kind, log, pos, task, row, notes, plays, lives, handled>>
      BY <1>7 DEF BackfillSelect, BackfillUpdate, Mirror, vars, logVars, indexVars, tableVars
    <2>2. Delivered(n)' <=> Delivered(n)
      BY <2>1 DEF Delivered
    <2>3. ASSUME NEW S PROVE Doing(n, S)' <=> Doing(n, S)
      BY <2>1 DEF Doing
    <2> QED BY <1>4, <2>1, <2>2, <2>3, OnTheWayStays
  <1> QED BY <1>5, <1>6, <1>7 DEF Next

\* A record that was written once is indexed, with its notifications and its live
\* event, when all deliveries are over (consumer.ts:237-289, 355-369): whatever the
\* number of hosts, records, commits and handlers, and whoever is mentioned.
THEOREM WrittenOnceStays == Spec => []WrittenOnceIsIndexed
  <1>1. Init => OnceInv
    <2> SUFFICES ASSUME Init, NEW n \in DOMAIN log PROVE OnTheWay(n)
      BY DEF OnceInv
    <2>1. log \in Logs /\ log[n].rec \in Rec /\ n \in Nat /\ ~(1 > n)
      BY LogFacts DEF Init
    <2>2. /\ pos = [h \in Host |-> 1] /\ task = [t \in Slot |-> Idle]
          /\ row[log[n].rec] = 0 /\ handled = {}
      BY <2>1 DEF Init
    <2>3. ~Delivered(n)
      BY <2>1, <2>2 DEF Delivered
    <2>4. ~Doing(n, After) /\ ~Doing(n, {"actor"})
      BY <2>2 DEF Doing, Idle, After, Fanout
    <2> QED BY <2>2, <2>3, <2>4 DEF OnTheWay, Entered, RowOK, NotesOK, LivesOK
  <1>2. TypeInv /\ OnceInv /\ [Next]_vars => OnceInv'
    BY OnceInvKeeps
  <1>3. TypeInv /\ OnceInv => WrittenOnceIsIndexed
    <2> SUFFICES ASSUME TypeInv, OnceInv, Settled, NEW n \in DOMAIN log, Once(n)
                 PROVE  /\ kind[log[n].rec] = "status" => n \in plays
                        /\ kind[log[n].rec] # "status" => row[log[n].rec] = n
                        /\ kind[log[n].rec] \in {"comment", "reaction"} => lives[n] > 0
                        /\ kind[log[n].rec] = "comment" => Mention[n] \subseteq notes[log[n].rec]
      BY DEF WrittenOnceIsIndexed, Once
    <2>1. OnTheWay(n)
      BY DEF OnceInv, Settled
    <2>2. ~Doing(n, Inside) /\ ~Doing(n, Fanout)
      BY DEF Settled, Doing, Inside, Fanout
    <2>3. Delivered(n)
      <3>1. n \in 1..Len(log) /\ Len(log) \in Nat /\ pos \in [Host -> 1..Len(log) + 1]
        BY LogFacts DEF TypeInv, TablesOK
      <3>2. PICK h \in Host : pos[h] > Len(log)
        BY JetstreamIndexAssumption DEF Settled
      <3>3. pos[h] > n
        BY <3>1, <3>2
      <3> QED BY <3>3 DEF Delivered
    <2>4. n \in handled
      BY <2>1, <2>2, <2>3 DEF OnTheWay, Entered
    <2> QED BY <2>1, <2>2, <2>4 DEF OnTheWay, RowOK, NotesOK, LivesOK
  <1> QED BY <1>1, <1>2, <1>3, IndexInvariants, PTL DEF Spec

-----------------------------------------------------------------------------
(* The handle of the author.                                               *)

\* A handle in the profile cache is never lost to a failed lookup, whatever the
\* handlers of one author and the repair of blank handles interleave
\* (consumer.ts:74-84).
THEOREM GoodHandlesStay == Spec => HandleNeverBlanked
  <1>1. [Next]_vars => [user = "good" => user' = "good"]_user
    <2> SUFFICES ASSUME [Next]_vars, user = "good" PROVE user' = user
      OBVIOUS
    <2> QED BY DEF Next, TaskStep, Deliver, Cached, Profile, UpsertUser, Bare, Write, Unnotify,
                   Owner, Notify, Broadcast, Delete, Denotify, Fail, Embed, BackfillSelect,
                   BackfillUpdate, Mirror, vars, indexVars, userVars
  <1> QED BY <1>1, PTL DEF Spec, HandleNeverBlanked

-----------------------------------------------------------------------------
(* Which duplicates are harmless.                                          *)

IndexedStays ==
    [][\A n \in DOMAIN log : Once(n) /\ row[log[n].rec] = n => row'[log[n].rec] = n]_vars

\* Redundant deliveries, errors and whatever handlers interleave do not take the row of a
\* record that was written once, nor change what it holds (consumer.ts:237-289, 355-369,
\* README.md:146-147): only a record with several versions can be set back by a duplicate.
THEOREM DuplicatesKeepTheOnlyVersion == Spec => IndexedStays
  <1>1. TypeInv /\ [Next]_vars =>
          [\A n \in DOMAIN log : Once(n) /\ row[log[n].rec] = n => row'[log[n].rec] = n]_vars
    <2> SUFFICES ASSUME TypeInv, Next, NEW n \in DOMAIN log, Once(n), row[log[n].rec] = n
                 PROVE  row'[log[n].rec] = n
      OBVIOUS
    <2> DEFINE r == log[n].rec
    <2>1. log[n].op = "create" /\ r \in Rec /\ row \in [Rec -> 0..Len(log)]
      BY LogFacts, OnceIsCreated DEF TypeInv, TablesOK
    <2>2. ASSUME NEW t \in Slot, task[t].pc # "idle", RecOf(t) = r PROVE task[t].n = n
      BY <2>2 DEF TypeInv, TasksOK, StageOK, Once, RecOf
    <2>3. ASSUME NEW t \in Slot, Write(t) PROVE row'[r] = n
      <3>1. task[t].pc # "idle" /\ (row' = row \/ row' = [row EXCEPT ![RecOf(t)] = task[t].n])
        BY <2>3 DEF Write, At
      <3> HIDE DEF r
      <3> QED BY <2>1, <2>2, <3>1 DEF r
    <2>4. ASSUME NEW t \in Slot, Delete(t) PROVE row'[r] = n
      <3>1. /\ task[t].pc = "delete" /\ log[task[t].n].op = "delete"
            /\ row' = [row EXCEPT ![RecOf(t)] = 0]
        BY <2>4 DEF Delete, At, TypeInv, TasksOK, StageOK
      <3>2. RecOf(t) # r
        BY <2>1, <2>2, <3>1
      <3> HIDE DEF r
      <3> QED BY <2>1, <3>1, <3>2 DEF r
    <2>5. \/ \E t \in Slot : Write(t) \/ Delete(t)
          \/ row' = row
      BY DEF Next, TaskStep, Deliver, Cached, Profile, UpsertUser, Unnotify, Owner, Notify,
             Broadcast, Denotify, Fail, Embed, BackfillSelect, BackfillUpdate, Mirror,
             tableVars, indexVars
    <2> QED BY <2>3, <2>4, <2>5
  <1> QED BY <1>1, IndexInvariants, PTL DEF Spec, IndexedStays
=============================================================================
