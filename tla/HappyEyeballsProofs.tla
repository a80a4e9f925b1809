------------------------ MODULE HappyEyeballsProofs -------------------------
(***************************************************************************)
(* Theorems about HappyEyeballs and the two it is made of: DnsResolver,    *)
(* for any hosts and threads, and any maxima and ttls of the cache, changed*)
(* at any time; TcpSocket, for every mode of connect() and receive(). Then *)
(* that happy_eyeballs uses both as their own specifications say, so that  *)
(* what is proved of each holds of the composition, that what connect()    *)
(* returns is clean, and that the order which it computes is fair.         *)
(***************************************************************************)
EXTENDS HappyEyeballs, SelectionProofs, FiniteSetTheorems

-----------------------------------------------------------------------------
\* The resolver.

USE ResolverAssumption DEF ResolverAssumption

\* What makes CacheBounded inductive: the cache has a cardinality, and no
\* maximum is above the largest.
CacheInv ==
  /\ IsFiniteSet(cached)
  /\ maxSize \in Nat
  /\ largest \in Nat
  /\ maxSize <= largest
  /\ CacheBounded

(* The entry that evict_oldest_if_needed removes leaves room for one more: *)
(* without what it may remove the cache is within the largest maximum.     *)
LEMMA EvictedLeavesRoom ==
  ASSUME CacheInv, NEW E \in Evicted
  PROVE  /\ IsFiniteSet(cached \ E)
         /\ Cardinality(cached \ E) <= largest
<1> USE DEF CacheInv, CacheBounded
<1>0. Cardinality(cached) \in Nat
  BY FS_CardinalityType
<1>1. CASE Cardinality(cached) <= maxSize
  <2>1. E = {}
    BY <1>1 DEF Evicted
  <2>2. cached \ E = cached
    BY <2>1
  <2> QED
    BY <1>0, <1>1, <2>2
<1>2. CASE ~(Cardinality(cached) <= maxSize)
  <2>1. PICK h \in cached : E = {h}
    BY <1>2 DEF Evicted, Oldest
  <2>2. /\ IsFiniteSet(cached \ {h})
        /\ Cardinality(cached \ {h}) = Cardinality(cached) - 1
    BY <2>1, FS_RemoveElement
  <2> QED
    BY <1>0, <1>2, <2>1, <2>2
<1> QED
  BY <1>1, <1>2

(* No step of a thread, of clear_cache(), of update_config() or of the     *)
(* clock lets the cache grow beyond one more than its largest maximum.     *)
LEMMA CacheInductive ==
  ASSUME CacheInv, [ResolverNext]_resolverVars
  PROVE  CacheInv'
<1>0. Cardinality(cached) \in Nat
  BY FS_CardinalityType DEF CacheInv
<1>1. ASSUME NEW t \in Threads, Store(t)
      PROVE  CacheInv'
  <2>1. PICK E \in Evicted : cached' = (cached \ E) \union {host[t]}
    BY <1>1 DEF Store, cached
  <2>2. IsFiniteSet(cached \ E) /\ Cardinality(cached \ E) <= largest
    BY EvictedLeavesRoom
  <2>3. /\ IsFiniteSet(cached')
        /\ Cardinality(cached') \in {Cardinality(cached \ E), Cardinality(cached \ E) + 1}
    BY <2>1, <2>2, FS_AddElement
  <2>4. Cardinality(cached \ E) \in Nat
    BY <2>2, FS_CardinalityType
  <2>5. maxSize' = maxSize /\ largest' = largest
    BY <1>1 DEF Store, config
  <2> QED
    BY <2>2, <2>3, <2>4, <2>5 DEF CacheInv, CacheBounded
<1>2. ASSUME NEW t \in Threads, NEW h \in Hosts, Miss(t, h)
      PROVE  CacheInv'
  <2>1. cached' \subseteq cached
    BY <1>2 DEF Miss, cached
  <2>2. /\ IsFiniteSet(cached')
        /\ Cardinality(cached') <= Cardinality(cached)
    BY <2>1, FS_Subset DEF CacheInv
  <2>3. Cardinality(cached') \in Nat
    BY <2>2, FS_CardinalityType
  <2>4. maxSize' = maxSize /\ largest' = largest
    BY <1>2 DEF Miss, config
  <2> QED
    BY <1>0, <2>2, <2>3, <2>4 DEF CacheInv, CacheBounded
<1>3. CASE ClearCache
  <2>1. cached' = {}
    BY <1>3 DEF ClearCache, cached
  <2>2. maxSize' = maxSize /\ largest' = largest
    BY <1>3 DEF ClearCache, config
  <2> QED
    BY <2>1, <2>2, FS_EmptySet DEF CacheInv, CacheBounded
<1>4. ASSUME NEW m \in CacheSizes, NEW u \in Ttls, NEW b \in BOOLEAN, UpdateConfig(m, u, b)
      PROVE  CacheInv'
  <2>1. maxSize' = m /\ largest' = IF m > largest THEN m ELSE largest
    BY <1>4 DEF UpdateConfig
  <2>2. cached' = cached
    BY <1>4 DEF UpdateConfig, cached
  <2>3. m \in Nat
    OBVIOUS
  <2> QED
    BY <1>0, <2>1, <2>2, <2>3 DEF CacheInv, CacheBounded
<1>5. CASE cached' = cached /\ maxSize' = maxSize /\ largest' = largest
  BY <1>5 DEF CacheInv, CacheBounded
<1>6. CASE Tick
  <2>1. cached' = cached
    BY <1>6 DEF Tick, cached
  <2> QED
    BY <1>5, <1>6, <2>1 DEF Tick, config
<1>7. \/ \E t \in Threads : Store(t)
      \/ \E t \in Threads, h \in Hosts : Miss(t, h)
      \/ ClearCache
      \/ \E m \in CacheSizes, u \in Ttls, b \in BOOLEAN : UpdateConfig(m, u, b)
      \/ Tick
      \/ cached' = cached /\ maxSize' = maxSize /\ largest' = largest
  BY DEF ResolverNext, Reconfigured, Resolving, Hit, ReadMisses, WriteMisses, Answered,
         QueryFails, Filter, Filtered, resolverVars, config, cached
<1> QED
  BY <1>1, <1>2, <1>3, <1>4, <1>5, <1>6, <1>7

(* However many threads find the cache not yet full at the same time, and  *)
(* whenever its maximum changes, it never holds more than one entry beyond *)
(* the largest max_cache_size.                                             *)
THEOREM CacheStaysBounded == ResolverSpec => []CacheBounded
<1>1. ResolverInit => CacheInv
  <2> SUFFICES ASSUME ResolverInit PROVE CacheInv
    OBVIOUS
  <2>1. cached = {}
    BY DEF ResolverInit, cached
  <2>2. maxSize \in Nat /\ largest = maxSize
    BY DEF ResolverInit
  <2> QED
    BY <2>1, <2>2, FS_EmptySet DEF CacheInv, CacheBounded
<1>2. CacheInv /\ [ResolverNext]_resolverVars => CacheInv'
  BY CacheInductive
<1>3. CacheInv => CacheBounded
  BY DEF CacheInv
<1> QED
  BY <1>1, <1>2, <1>3, PTL DEF ResolverSpec

-----------------------------------------------------------------------------
\* The statistics.

(* What makes NeverOvercounted inductive. The counter of misses may go     *)
(* down when two threads write it, so that it bounds no value read before; *)
(* what bounds both is the number of calls that are through with counting. *)
StatsInv ==
  /\ hits \in Nat /\ misses \in Nat /\ calls \in Nat
  /\ count \in [Threads -> Nat]
  /\ pc \in [Threads -> {"idle", "miss", "count", "query", "filter", "store"}]
  /\ IsFiniteSet(Pending)
  /\ NeverOvercounted
  /\ \A t \in Threads : pc[t] = "count" => hits + count[t] + Cardinality(Pending) <= calls

(* A lookup that misses leaves one more call to be counted. *)
LEMMA MissPends ==
  ASSUME StatsInv, NEW t \in Threads, NEW h \in Hosts, Miss(t, h)
  PROVE  StatsInv'
<1> USE DEF StatsInv
<1>1. /\ pc[t] = "idle"
      /\ calls' = calls + 1
      /\ UNCHANGED <<hits, misses, count>>
      /\ pc' = [pc EXCEPT ![t] = "miss"]
  BY DEF Miss, Calls, Goto
<1>2. Pending' = Pending \union {t} /\ t \notin Pending
  BY <1>1 DEF Pending
<1>3. IsFiniteSet(Pending') /\ Cardinality(Pending') = Cardinality(Pending) + 1
  BY <1>2, FS_AddElement
<1>4. Cardinality(Pending) \in Nat
  BY FS_CardinalityType
<1>5. \A u \in Threads : pc'[u] = "count" => pc[u] = "count"
  BY <1>1
<1> QED
  BY <1>1, <1>3, <1>4, <1>5 DEF NeverOvercounted

(* The write of the counter counts one pending call and no more. *)
LEMMA WriteCounts ==
  ASSUME StatsInv, NEW t \in Threads, WriteMisses(t)
  PROVE  StatsInv'
<1> USE DEF StatsInv
<1>1. /\ pc[t] = "count"
      /\ misses' = count[t] + 1
      /\ UNCHANGED <<hits, calls>>
      /\ count' = [count EXCEPT ![t] = 0]
      /\ pc' = [pc EXCEPT ![t] = "query"]
  BY DEF WriteMisses, Goto
<1>2. Pending' = Pending \ {t} /\ t \in Pending
  BY <1>1 DEF Pending
<1>3. IsFiniteSet(Pending') /\ Cardinality(Pending') = Cardinality(Pending) - 1
  BY <1>2, FS_RemoveElement
<1>4. Cardinality(Pending) \in Nat
  BY FS_CardinalityType
<1>5. \A u \in Threads : pc'[u] = "count" => pc[u] = "count" /\ count'[u] = count[u]
  BY <1>1
<1>6. hits + count[t] + Cardinality(Pending) <= calls
  BY <1>1
<1>7. count[t] \in Nat
  OBVIOUS
<1>8. NeverOvercounted'
  BY <1>1, <1>3, <1>4, <1>6, <1>7 DEF NeverOvercounted
<1>9. \A u \in Threads : pc'[u] = "count" => hits' + count'[u] + Cardinality(Pending') <= calls'
  BY <1>1, <1>3, <1>4, <1>5
<1>10. misses' \in Nat /\ pc' \in [Threads -> {"idle", "miss", "count", "query", "filter", "store"}]
  BY <1>1, <1>7
<1> QED
  BY <1>1, <1>3, <1>8, <1>9, <1>10

(* Every other step leaves the calls that are pending as they are.         *)
LEMMA OthersKeepPending ==
  ASSUME StatsInv, NEW t \in Threads,
         \/ \E h \in Hosts : Hit(t, h)
         \/ ReadMisses(t) \/ QueryFails(t) \/ Answered(t)
         \/ Filter(t) \/ Filtered(t) \/ Store(t)
  PROVE  StatsInv'
<1> USE DEF StatsInv
<1>0. Cardinality(Pending) \in Nat
  BY FS_CardinalityType
<1>1. CASE \E h \in Hosts : Hit(t, h)
  <2>1. /\ hits' = hits + 1 /\ calls' = calls + 1
        /\ UNCHANGED <<misses, count, pc>>
    BY <1>1 DEF Hit, Calls
  <2>2. Pending' = Pending
    BY <2>1 DEF Pending
  <2> QED
    BY <1>0, <2>1, <2>2 DEF NeverOvercounted
<1>2. CASE ReadMisses(t)
  <2>1. /\ pc[t] = "miss"
        /\ count' = [count EXCEPT ![t] = misses]
        /\ pc' = [pc EXCEPT ![t] = "count"]
        /\ hits' = hits /\ misses' = misses /\ calls' = calls
    BY <1>2 DEF ReadMisses, Goto, stats
  <2>2. Pending' = Pending
    BY <2>1 DEF Pending
  <2>3. NeverOvercounted'
    BY <2>1, <2>2 DEF NeverOvercounted
  <2>4. ASSUME NEW u \in Threads, pc'[u] = "count"
        PROVE  hits' + count'[u] + Cardinality(Pending') <= calls'
    <3>1. CASE u = t
      BY <2>1, <2>2, <3>1 DEF NeverOvercounted
    <3>2. CASE u # t
      BY <2>1, <2>2, <2>4, <3>2
    <3> QED
      BY <3>1, <3>2
  <2> QED
    BY <2>1, <2>2, <2>3, <2>4
<1>3. CASE QueryFails(t) \/ Answered(t) \/ Filter(t) \/ Filtered(t) \/ Store(t)
  <2>1. /\ pc[t] \in {"query", "filter", "store"}
        /\ \E l \in {"filter", "store", "idle"} : pc' = [pc EXCEPT ![t] = l]
        /\ hits' = hits /\ misses' = misses /\ calls' = calls /\ count' = count
    <3>1. CASE Filter(t)
      <4>1. pc[t] = "filter" /\ pc' = pc
        BY <3>1 DEF Filter
      <4>2. pc' = [pc EXCEPT ![t] = "filter"]
        BY <4>1
      <4> QED
        BY <3>1, <4>1, <4>2 DEF Filter, stats
    <3>2. CASE QueryFails(t) \/ Answered(t) \/ Filtered(t) \/ Store(t)
      BY <3>2 DEF Answered, QueryFails, Filtered, Store, Goto, stats
    <3> QED
      BY <1>3, <3>1, <3>2
  <2>2. Pending' = Pending
    BY <2>1 DEF Pending
  <2>3. \A u \in Threads : pc'[u] = "count" => pc[u] = "count"
    BY <2>1
  <2>4. NeverOvercounted'
    BY <2>1, <2>2 DEF NeverOvercounted
  <2> QED
    BY <2>1, <2>2, <2>3, <2>4
<1> QED
  BY <1>1, <1>2, <1>3

(* Threads that increment the misses at once lose counts, but never make   *)
(* one up: hits and misses stay within the calls that were looked up.      *)
THEOREM StatsNeverOvercount == ResolverSpec => []NeverOvercounted
<1>1. ResolverInit => StatsInv
  <2> SUFFICES ASSUME ResolverInit PROVE StatsInv
    OBVIOUS
  <2>1. Pending = {}
    BY DEF ResolverInit, Pending
  <2>2. IsFiniteSet(Pending) /\ Cardinality(Pending) = 0
    BY <2>1, FS_EmptySet
  <2> QED
    BY <2>2 DEF ResolverInit, StatsInv, NeverOvercounted
<1>2. ASSUME StatsInv, [ResolverNext]_resolverVars
      PROVE  StatsInv'
  <2>1. CASE ClearCache \/ Reconfigured \/ Tick \/ UNCHANGED resolverVars
    <3>1. UNCHANGED <<hits, misses, calls, count, pc>>
      BY <2>1 DEF ClearCache, Reconfigured, UpdateConfig, Tick, resolverVars, stats
    <3> QED
      BY <1>2, <3>1 DEF StatsInv, NeverOvercounted, Pending
  <2>2. ASSUME NEW t \in Threads, NEW h \in Hosts, Hit(t, h) \/ Miss(t, h)
        PROVE  StatsInv'
    BY <1>2, <2>2, MissPends, OthersKeepPending
  <2>3. ASSUME NEW t \in Threads, Resolving(t)
        PROVE  StatsInv'
    BY <1>2, <2>3, WriteCounts, OthersKeepPending DEF Resolving
  <2> QED
    BY <1>2, <2>1, <2>2, <2>3 DEF ResolverNext
<1>3. StatsInv => NeverOvercounted
  BY DEF StatsInv
<1> QED
  BY <1>1, <1>2, <1>3, PTL DEF ResolverSpec

-----------------------------------------------------------------------------
\* The answers.

(* The addresses made of records, and those of a list that was recorded.   *)
Restored(r) == [i \in DOMAIN r |-> Address(r[i])]
Recorded(s) == [i \in DOMAIN s |-> Record(s[i])]

Unscoped(a) == [a EXCEPT !.scope = 0]

(* Addresses that resolve a host, whichever of them are IPv6 and whichever *)
(* have lost their scope.                                                  *)
Resolves(s, h) ==
  /\ s \in Seq(Addresses)
  /\ AddressesOf(s) # {}
  /\ AddressesOf(s) \subseteq AddressesOf(Zone[h]) \union {Unscoped(a) : a \in AddressesOf(Zone[h])}
  /\ {a \in AddressesOf(Zone[h]) : IsV4(a)} \subseteq AddressesOf(s)

(* In the middle of a query: what was taken over and what is left are the  *)
(* host's, and no IPv4 address is in neither.                              *)
Filtering(s, l, h) ==
  /\ s \in Seq(Addresses) /\ l \in Seq(Addresses)
  /\ AddressesOf(s) \union AddressesOf(l) \subseteq AddressesOf(Zone[h])
  /\ {a \in AddressesOf(Zone[h]) : IsV4(a)} \subseteq AddressesOf(s) \union AddressesOf(l)

\* What is right of a thread in its place.
CallIsRight(place, r, l, h) ==
  /\ place # "idle" => h \in Hosts
  /\ place \in {"miss", "count", "query"} => ~r.ok /\ r.addresses = <<>>
  /\ place = "filter" => ~r.ok /\ Filtering(r.addresses, l, h)
  /\ place = "store" => r.ok
  /\ r.ok => Resolves(r.addresses, h)

EntryIsRight(e, h) ==
  /\ DOMAIN e = {"records", "ttl", "age"}
  /\ e.age \in Nat
  /\ Resolves(Restored(e.records), h)

(* What makes AnswersAreTheHosts inductive: what is in the cache, and what *)
(* a thread is about to put into it, is right for its host, too.           *)
AnswerInv ==
  /\ pc \in [Threads -> {"idle", "miss", "count", "query", "filter", "store"}]
  /\ DOMAIN host = Threads /\ DOMAIN list = Threads
  /\ answer \in [Threads -> [ok : BOOLEAN, addresses : Seq(Addresses)]]
  /\ \A t \in Threads : CallIsRight(pc[t], answer[t], list[t], host[t])
  /\ \A h \in cached : EntryIsRight(cache[h], h)

(* A record keeps an address of IPv4, and one of IPv6 but for its scope.   *)
LEMMA AddressOfRecord ==
  ASSUME NEW a \in Addresses
  PROVE  /\ Address(Record(a)) \in Addresses
         /\ Address(Record(a)) = Unscoped(a)
         /\ IsV4(a) => Address(Record(a)) = a
         /\ Unscoped(Unscoped(a)) = Unscoped(a)
<1>1. CASE a \in [family : {"v4"}, bytes : Nat, scope : {0}]
  BY <1>1 DEF Address, Record, Unscoped, IsV4, Addresses
<1>2. CASE a \in [family : {"v6"}, bytes : Nat, scope : Nat]
  <2>1. a.family = "v6" /\ ~IsV4(a)
    BY <1>2 DEF IsV4
  <2>2. Address(Record(a)) = [family |-> "v6", bytes |-> a.bytes, scope |-> 0]
    BY <2>1 DEF Address, Record
  <2>3. Unscoped(a) = [family |-> "v6", bytes |-> a.bytes, scope |-> 0]
    BY <1>2 DEF Unscoped
  <2>4. [family |-> "v6", bytes |-> a.bytes, scope |-> 0] \in Addresses
    BY <1>2 DEF Addresses
  <2>5. Unscoped(Unscoped(a)) = Unscoped(a)
    BY <2>3 DEF Unscoped
  <2> QED
    BY <2>1, <2>2, <2>3, <2>4, <2>5
<1> QED
  BY <1>1, <1>2 DEF Addresses

(* What is read back from the cache resolves what was stored.              *)
LEMMA RestoredResolves ==
  ASSUME NEW s, NEW h \in Hosts, Resolves(s, h)
  PROVE  Resolves(Restored(Recorded(s)), h)
<1>1. s \in Seq(Addresses)
  BY DEF Resolves
<1>2. PICK m \in Nat : m = Len(s)
  BY <1>1, LenProperties
<1>3. DOMAIN s = 1 .. m /\ \A i \in 1 .. m : s[i] \in Addresses
  BY <1>1, <1>2, LenProperties, ElementOfSeq
<1>4. PICK r : r = Restored(Recorded(s))
  OBVIOUS
<1>5. DOMAIN r = 1 .. m /\ \A i \in 1 .. m : r[i] = Address(Record(s[i]))
  BY <1>3, <1>4 DEF Restored, Recorded
<1>6. \A i \in 1 .. m : /\ r[i] \in Addresses
                        /\ r[i] = Unscoped(s[i])
                        /\ IsV4(s[i]) => r[i] = s[i]
  BY <1>3, <1>5, AddressOfRecord
<1>7. r \in Seq(Addresses)
  <2>1. r = [i \in 1 .. m |-> Address(Record(s[i]))]
    BY <1>3, <1>4 DEF Restored, Recorded
  <2>2. r \in [1 .. m -> Addresses]
    BY <1>3, <2>1, AddressOfRecord
  <2> QED
    BY <2>2
<1> DEFINE Z == AddressesOf(Zone[h])
<1>8. Z \subseteq Addresses
  <2>1. Zone[h] \in Seq(Addresses)
    BY ZoneAssumption DEF ZoneAssumption
  <2>2. \A i \in DOMAIN Zone[h] : Zone[h][i] \in Addresses
    BY <2>1, ElementOfSeq, LenProperties
  <2> QED
    BY <2>2 DEF AddressesOf
<1>9. /\ AddressesOf(s) # {}
      /\ AddressesOf(s) \subseteq Z \union {Unscoped(a) : a \in Z}
      /\ {a \in Z : IsV4(a)} \subseteq AddressesOf(s)
  BY DEF Resolves
<1> HIDE DEF Z
<1>10. AddressesOf(r) # {}
  BY <1>3, <1>5, <1>9 DEF AddressesOf
<1>11. AddressesOf(r) \subseteq {Unscoped(a) : a \in Z}
  <2> SUFFICES ASSUME NEW i \in 1 .. m
               PROVE  r[i] \in {Unscoped(a) : a \in Z}
    BY <1>5 DEF AddressesOf
  <2>1. s[i] \in AddressesOf(s) /\ r[i] = Unscoped(s[i])
    BY <1>3, <1>6 DEF AddressesOf
  <2>2. CASE s[i] \in Z
    BY <2>1, <2>2
  <2>3. CASE s[i] \notin Z
    <3>1. PICK a \in Z : s[i] = Unscoped(a)
      BY <1>9, <2>1, <2>3
    <3>2. r[i] = Unscoped(a)
      BY <1>8, <2>1, <3>1, AddressOfRecord
    <3> QED
      BY <3>2
  <2> QED
    BY <2>2, <2>3
<1>12. {a \in Z : IsV4(a)} \subseteq AddressesOf(r)
  <2> SUFFICES ASSUME NEW a \in Z, IsV4(a)
               PROVE  a \in AddressesOf(r)
    OBVIOUS
  <2>1. PICK i \in 1 .. m : a = s[i]
    BY <1>3, <1>9 DEF AddressesOf
  <2> QED
    BY <1>5, <1>6, <2>1 DEF AddressesOf
<1> QED
  BY <1>4, <1>7, <1>10, <1>11, <1>12 DEF Resolves, Z

(* An address after the other leaves the list, and only one of IPv6 is     *)
(* passed over.                                                            *)
LEMMA FilteringGoesOn ==
  ASSUME NEW s, NEW l, NEW h \in Hosts, Filtering(s, l, h), l # <<>>
  PROVE  /\ Filtering(Append(s, Head(l)), Tail(l), h)
         /\ ~IsV4(Head(l)) => Filtering(s, Tail(l), h)
         /\ Head(l) \in Addresses
<1>1. s \in Seq(Addresses) /\ l \in Seq(Addresses)
  BY DEF Filtering
<1>2. PICK x : x = Head(l)
  OBVIOUS
<1>3. PICK r : r = Tail(l)
  OBVIOUS
<1>4. PICK c : c = Append(s, x)
  OBVIOUS
<1>5. PICK m \in Nat : m = Len(s)
  BY <1>1, LenProperties
<1>6. PICK n \in Nat : n + 1 = Len(l)
  <2>1. Len(l) \in Nat /\ Len(l) # 0
    BY <1>1, LenProperties, EmptySeq
  <2>2. PICK k \in Nat : k = Len(l) /\ k # 0
    BY <2>1
  <2>3. k - 1 \in Nat /\ (k - 1) + 1 = k
    BY <2>2
  <2> QED
    BY <2>2, <2>3, Zenon
<1>7. x \in Addresses /\ x = l[1]
  BY <1>1, <1>2, HeadTailProperties
<1>8. r \in Seq(Addresses) /\ Len(r) = n /\ \A i \in 1 .. n : r[i] = l[i + 1]
  BY <1>1, <1>3, <1>6, HeadTailProperties
<1>9. c \in Seq(Addresses) /\ Len(c) = m + 1 /\ c[m + 1] = x /\ \A i \in 1 .. m : c[i] = s[i]
  BY <1>1, <1>4, <1>5, <1>7, AppendProperties
<1>10. /\ DOMAIN s = 1 .. m /\ DOMAIN l = 1 .. n + 1
       /\ DOMAIN r = 1 .. n /\ DOMAIN c = 1 .. m + 1
  BY <1>1, <1>5, <1>6, <1>8, <1>9, LenProperties
<1>11. AddressesOf(l) = {x} \union AddressesOf(r)
  <2>1. AddressesOf(l) = {l[i] : i \in 1 .. n + 1} /\ AddressesOf(r) = {r[i] : i \in 1 .. n}
    BY <1>10 DEF AddressesOf
  <2>2. \A i \in 1 .. n + 1 : i = 1 \/ \E j \in 1 .. n : i = j + 1
    <3> SUFFICES ASSUME NEW i \in 1 .. n + 1, i # 1
                 PROVE  \E j \in 1 .. n : i = j + 1
      OBVIOUS
    <3>1. i - 1 \in 1 .. n /\ i = (i - 1) + 1
      OBVIOUS
    <3> QED
      BY <3>1
  <2>3. 1 \in 1 .. n + 1 /\ \A j \in 1 .. n : j + 1 \in 1 .. n + 1
    OBVIOUS
  <2>4. \A i \in 1 .. n + 1 : l[i] = x \/ \E j \in 1 .. n : l[i] = r[j]
    BY <1>7, <1>8, <2>2
  <2>5. x \in AddressesOf(l) /\ \A j \in 1 .. n : r[j] \in AddressesOf(l)
    BY <1>7, <1>8, <2>1, <2>3
  <2> QED
    BY <2>1, <2>4, <2>5
<1>12. AddressesOf(c) = AddressesOf(s) \union {x}
  <2>1. AddressesOf(c) = {c[i] : i \in 1 .. m + 1} /\ AddressesOf(s) = {s[i] : i \in 1 .. m}
    BY <1>10 DEF AddressesOf
  <2>2. 1 .. m + 1 = (1 .. m) \union {m + 1}
    OBVIOUS
  <2> QED
    BY <1>9, <2>1, <2>2
<1>13. Filtering(c, r, h)
  BY <1>8, <1>9, <1>11, <1>12 DEF Filtering
<1>14. ~IsV4(x) => Filtering(s, r, h)
  BY <1>1, <1>8, <1>11 DEF Filtering
<1> QED
  BY <1>2, <1>3, <1>4, <1>7, <1>13, <1>14

(* Lookups, queries, stores and changes of the configuration keep answers  *)
(* and entries right.                                                      *)
LEMMA AnswerInductive ==
  ASSUME AnswerInv, [ResolverNext]_resolverVars
  PROVE  AnswerInv'
<1>1. ASSUME NEW t \in Threads, NEW h \in Hosts, Hit(t, h)
      PROVE  AnswerInv'
  <2>1. /\ pc' = pc /\ cache' = cache /\ list' = list /\ h \in cached
        /\ host' = [host EXCEPT ![t] = h]
        /\ answer' = [answer EXCEPT ![t] = Found(FromCache(h))]
    BY <1>1 DEF Hit, Calls
  <2>2. pc[t] = "idle" /\ cached' = cached
    BY <1>1, <2>1 DEF Hit, Calls, cached
  <2>3. Resolves(FromCache(h), h)
    <3>1. FromCache(h) = Restored(cache[h].records)
      BY DEF FromCache, Restored
    <3> QED
      BY <2>1, <3>1 DEF AnswerInv, EntryIsRight
  <2>4. PICK r : r = Found(FromCache(h))
    OBVIOUS
  <2>5. /\ r \in [ok : BOOLEAN, addresses : Seq(Addresses)]
        /\ CallIsRight("idle", r, list[t], h)
    BY <2>3, <2>4 DEF Found, Resolves, CallIsRight
  <2>6. ASSUME NEW u \in Threads
        PROVE  CallIsRight(pc'[u], answer'[u], list'[u], host'[u])
    <3>1. CASE u = t
      BY <2>1, <2>2, <2>4, <2>5, <3>1 DEF AnswerInv
    <3>2. CASE u # t
      BY <2>1, <3>2 DEF AnswerInv
    <3> QED
      BY <3>1, <3>2
  <2> QED
    BY <2>1, <2>2, <2>4, <2>5, <2>6 DEF AnswerInv
<1>2. ASSUME NEW t \in Threads, NEW h \in Hosts, Miss(t, h)
      PROVE  AnswerInv'
  <2>1. /\ pc' = [pc EXCEPT ![t] = "miss"] /\ list' = list
        /\ cache' = [k \in cached \ {h} |-> cache[k]]
        /\ host' = [host EXCEPT ![t] = h]
        /\ answer' = [answer EXCEPT ![t] = Failed]
    BY <1>2 DEF Miss, Calls, Goto
  <2>2. cached' = cached \ {h} /\ \A k \in cached' : cache'[k] = cache[k]
    BY <2>1 DEF cached
  <2>3. /\ Failed \in [ok : BOOLEAN, addresses : Seq(Addresses)]
        /\ CallIsRight("miss", Failed, list[t], h)
    BY DEF Failed, CallIsRight
  <2>4. ASSUME NEW u \in Threads
        PROVE  CallIsRight(pc'[u], answer'[u], list'[u], host'[u])
    <3>1. CASE u = t
      BY <2>1, <2>3, <3>1 DEF AnswerInv
    <3>2. CASE u # t
      BY <2>1, <3>2 DEF AnswerInv
    <3> QED
      BY <3>1, <3>2
  <2>5. pc' \in [Threads -> {"idle", "miss", "count", "query", "filter", "store"}]
    BY <2>1 DEF AnswerInv
  <2> QED
    BY <2>1, <2>2, <2>3, <2>4, <2>5 DEF AnswerInv
<1>3. ASSUME NEW t \in Threads, Answered(t)
      PROVE  AnswerInv'
  <2>1. /\ pc[t] = "query" /\ cache' = cache /\ host' = host /\ answer' = answer
        /\ pc' = [pc EXCEPT ![t] = "filter"]
        /\ list' = [list EXCEPT ![t] = Zone[host[t]]]
    BY <1>3 DEF Answered, Goto
  <2>2. host[t] \in Hosts /\ ~answer[t].ok /\ answer[t].addresses = <<>>
    BY <2>1 DEF AnswerInv, CallIsRight
  <2>3. Filtering(<<>>, Zone[host[t]], host[t])
    <3>1. Zone[host[t]] \in Seq(Addresses) /\ AddressesOf(<<>>) = {}
      BY <2>2, ZoneAssumption DEF ZoneAssumption, AddressesOf
    <3> QED
      BY <3>1 DEF Filtering
  <2>4. CallIsRight("filter", answer[t], Zone[host[t]], host[t])
    BY <2>2, <2>3 DEF CallIsRight
  <2>5. ASSUME NEW u \in Threads
        PROVE  CallIsRight(pc'[u], answer'[u], list'[u], host'[u])
    <3>1. CASE u = t
      BY <2>1, <2>4, <3>1 DEF AnswerInv
    <3>2. CASE u # t
      BY <2>1, <3>2 DEF AnswerInv
    <3> QED
      BY <3>1, <3>2
  <2>6. pc' \in [Threads -> {"idle", "miss", "count", "query", "filter", "store"}]
    BY <2>1 DEF AnswerInv
  <2> QED
    BY <2>1, <2>5, <2>6 DEF AnswerInv, cached
<1>4. ASSUME NEW t \in Threads, Filter(t)
      PROVE  AnswerInv'
  <2>1. /\ pc[t] = "filter" /\ cache' = cache /\ host' = host /\ pc' = pc /\ list[t] # <<>>
        /\ list' = [list EXCEPT ![t] = Tail(list[t])]
        /\ answer' = IF IsV4(Head(list[t])) \/ ipv6
             THEN [answer EXCEPT ![t].addresses = Append(answer[t].addresses, Head(list[t]))]
             ELSE answer
    BY <1>4 DEF Filter
  <2>2. PICK s : s = answer[t].addresses
    OBVIOUS
  <2>3. PICK x : x = Head(list[t])
    OBVIOUS
  <2>4. host[t] \in Hosts /\ ~answer[t].ok /\ Filtering(s, list[t], host[t])
    BY <2>1, <2>2 DEF AnswerInv, CallIsRight
  <2>5. /\ Filtering(Append(s, x), Tail(list[t]), host[t])
        /\ ~IsV4(x) => Filtering(s, Tail(list[t]), host[t])
        /\ x \in Addresses
    BY <2>1, <2>3, <2>4, FilteringGoesOn
  <2>6. /\ answer' \in [Threads -> [ok : BOOLEAN, addresses : Seq(Addresses)]]
        /\ ~answer'[t].ok /\ Filtering(answer'[t].addresses, Tail(list[t]), host[t])
        /\ \A u \in Threads : u # t => answer'[u] = answer[u]
    <3>1. CASE IsV4(x) \/ ipv6
      <4>1. PICK c : c = Append(s, x)
        OBVIOUS
      <4>2. c \in Seq(Addresses)
        BY <2>5, <4>1 DEF Filtering
      <4>3. answer' = [answer EXCEPT ![t].addresses = c]
        BY <2>1, <2>2, <2>3, <3>1, <4>1
      <4>4. answer \in [Threads -> [ok : BOOLEAN, addresses : Seq(Addresses)]]
        BY DEF AnswerInv
      <4>5. answer'[t].ok = answer[t].ok /\ answer'[t].addresses = c
        BY <4>3, <4>4
      <4>6. Filtering(c, Tail(list[t]), host[t])
        BY <2>5, <4>1
      <4> QED
        BY <2>4, <4>2, <4>3, <4>4, <4>5, <4>6
    <3>2. CASE ~(IsV4(x) \/ ipv6)
      <4>1. answer' = answer
        BY <2>1, <2>3, <3>2
      <4> QED
        BY <2>2, <2>4, <2>5, <3>2, <4>1 DEF AnswerInv
    <3> QED
      BY <3>1, <3>2
  <2>7. CallIsRight("filter", answer'[t], Tail(list[t]), host[t])
    BY <2>4, <2>6 DEF CallIsRight
  <2>8. ASSUME NEW u \in Threads
        PROVE  CallIsRight(pc'[u], answer'[u], list'[u], host'[u])
    <3>1. CASE u = t
      BY <2>1, <2>7, <3>1 DEF AnswerInv
    <3>2. CASE u # t
      BY <2>1, <2>6, <3>2 DEF AnswerInv
    <3> QED
      BY <3>1, <3>2
  <2> QED
    BY <2>1, <2>6, <2>8 DEF AnswerInv, cached
<1>5. ASSUME NEW t \in Threads, Filtered(t)
      PROVE  AnswerInv'
  <2>1. /\ pc[t] = "filter" /\ cache' = cache /\ host' = host /\ list' = list
        /\ list[t] = <<>>
    BY <1>5 DEF Filtered
  <2>2. PICK s : s = answer[t].addresses
    OBVIOUS
  <2>3. host[t] \in Hosts /\ ~answer[t].ok /\ Filtering(s, <<>>, host[t])
    BY <2>1, <2>2 DEF AnswerInv, CallIsRight
  <2>4. CASE s = <<>>
    <3>1. pc' = [pc EXCEPT ![t] = "idle"] /\ answer' = answer
      BY <1>5, <2>2, <2>4 DEF Filtered, Goto
    <3>2. CallIsRight("idle", answer[t], list[t], host[t])
      BY <2>3 DEF CallIsRight
    <3>3. ASSUME NEW u \in Threads
          PROVE  CallIsRight(pc'[u], answer'[u], list'[u], host'[u])
      <4>1. CASE u = t
        BY <2>1, <3>1, <3>2, <4>1 DEF AnswerInv
      <4>2. CASE u # t
        BY <2>1, <3>1, <4>2 DEF AnswerInv
      <4> QED
        BY <4>1, <4>2
    <3>4. pc' \in [Threads -> {"idle", "miss", "count", "query", "filter", "store"}]
      BY <3>1 DEF AnswerInv
    <3> QED
      BY <2>1, <3>1, <3>3, <3>4 DEF AnswerInv, cached
  <2>5. CASE s # <<>>
    <3>1. pc' = [pc EXCEPT ![t] = "store"] /\ answer' = [answer EXCEPT ![t].ok = TRUE]
      BY <1>5, <2>2, <2>5 DEF Filtered, Goto
    <3>2. answer \in [Threads -> [ok : BOOLEAN, addresses : Seq(Addresses)]]
      BY DEF AnswerInv
    <3>3. /\ answer' \in [Threads -> [ok : BOOLEAN, addresses : Seq(Addresses)]]
          /\ answer'[t].ok /\ answer'[t].addresses = s
          /\ \A u \in Threads : u # t => answer'[u] = answer[u]
      BY <2>2, <3>1, <3>2
    <3>4. Resolves(s, host[t])
      <4>1. s \in Seq(Addresses)
        BY <2>3 DEF Filtering
      <4>2. 1 \in DOMAIN s
        BY <2>5, <4>1, EmptySeq, LenProperties
      <4>3. AddressesOf(s) # {} /\ AddressesOf(<<>>) = {}
        BY <4>2 DEF AddressesOf
      <4> QED
        BY <2>3, <4>1, <4>3 DEF Filtering, Resolves
    <3>5. CallIsRight("store", answer'[t], list[t], host[t])
      BY <2>3, <3>3, <3>4 DEF CallIsRight
    <3>6. ASSUME NEW u \in Threads
          PROVE  CallIsRight(pc'[u], answer'[u], list'[u], host'[u])
      <4>1. CASE u = t
        BY <2>1, <3>1, <3>5, <4>1 DEF AnswerInv
      <4>2. CASE u # t
        BY <2>1, <3>1, <3>3, <4>2 DEF AnswerInv
      <4> QED
        BY <4>1, <4>2
    <3>7. pc' \in [Threads -> {"idle", "miss", "count", "query", "filter", "store"}]
      BY <3>1 DEF AnswerInv
    <3> QED
      BY <2>1, <3>3, <3>6, <3>7 DEF AnswerInv, cached
  <2> QED
    BY <2>4, <2>5
<1>6. ASSUME NEW t \in Threads, Store(t)
      PROVE  AnswerInv'
  <2>1. PICK e : e = EntryOf(answer[t].addresses)
    OBVIOUS
  <2>2. PICK E \in Evicted :
          cache' = [h \in (cached \ E) \union {host[t]} |-> IF h = host[t] THEN e ELSE cache[h]]
    BY <1>6, <2>1 DEF Store
  <2>3. /\ pc[t] = "store" /\ host' = host /\ answer' = answer /\ list' = list
        /\ pc' = [pc EXCEPT ![t] = "idle"]
    BY <1>6 DEF Store, Goto
  <2>4. host[t] \in Hosts /\ answer[t].ok /\ Resolves(answer[t].addresses, host[t])
    BY <2>3 DEF AnswerInv, CallIsRight
  <2>5. EntryIsRight(e, host[t])
    <3>1. /\ DOMAIN e = {"records", "ttl", "age"}
          /\ e.age = 0 /\ e.records = Recorded(answer[t].addresses)
      BY <2>1 DEF EntryOf, Recorded
    <3> QED
      BY <2>4, <3>1, RestoredResolves DEF EntryIsRight
  <2>6. ASSUME NEW h \in cached'
        PROVE  EntryIsRight(cache'[h], h)
    <3>1. h = host[t] \/ h \in cached
      BY <2>2 DEF cached
    <3>2. cache'[h] = IF h = host[t] THEN e ELSE cache[h]
      BY <2>2 DEF cached
    <3> QED
      BY <2>5, <3>1, <3>2 DEF AnswerInv
  <2>7. CallIsRight("idle", answer[t], list[t], host[t])
    BY <2>4 DEF CallIsRight
  <2>8. ASSUME NEW u \in Threads
        PROVE  CallIsRight(pc'[u], answer'[u], list'[u], host'[u])
    <3>1. CASE u = t
      BY <2>3, <2>7, <3>1 DEF AnswerInv
    <3>2. CASE u # t
      BY <2>3, <3>2 DEF AnswerInv
    <3> QED
      BY <3>1, <3>2
  <2>9. pc' \in [Threads -> {"idle", "miss", "count", "query", "filter", "store"}]
    BY <2>3 DEF AnswerInv
  <2> QED
    BY <2>3, <2>6, <2>8, <2>9 DEF AnswerInv
<1>7. ASSUME NEW t \in Threads, ReadMisses(t) \/ WriteMisses(t) \/ QueryFails(t)
      PROVE  AnswerInv'
  <2>1. /\ pc[t] \in {"miss", "count", "query"}
        /\ cache' = cache /\ host' = host /\ answer' = answer /\ list' = list
        /\ \E l \in {"count", "query", "idle"} : pc' = [pc EXCEPT ![t] = l]
    BY <1>7 DEF ReadMisses, WriteMisses, QueryFails, Goto
  <2>2. PICK l \in {"count", "query", "idle"} : pc' = [pc EXCEPT ![t] = l]
    BY <2>1
  <2>3. CallIsRight(l, answer[t], list[t], host[t])
    <3>1. CallIsRight(pc[t], answer[t], list[t], host[t])
      BY DEF AnswerInv
    <3> QED
      BY <2>1, <3>1 DEF CallIsRight
  <2>4. ASSUME NEW u \in Threads
        PROVE  CallIsRight(pc'[u], answer'[u], list'[u], host'[u])
    <3>1. CASE u = t
      BY <2>1, <2>2, <2>3, <3>1 DEF AnswerInv
    <3>2. CASE u # t
      BY <2>1, <2>2, <3>2 DEF AnswerInv
    <3> QED
      BY <3>1, <3>2
  <2>5. pc' \in [Threads -> {"idle", "miss", "count", "query", "filter", "store"}]
    BY <2>2 DEF AnswerInv
  <2> QED
    BY <2>1, <2>4, <2>5 DEF AnswerInv, cached
<1>8. CASE ClearCache
  <2>1. cached' = {} /\ pc' = pc /\ host' = host /\ answer' = answer /\ list' = list
    BY <1>8 DEF ClearCache, cached
  <2> QED
    BY <2>1 DEF AnswerInv
<1>9. CASE Tick
  <2>1. /\ cached' = cached /\ pc' = pc /\ host' = host /\ answer' = answer /\ list' = list
        /\ \A h \in cached :
             cache'[h] = [cache[h] EXCEPT !.age = IF \E u \in Ttls : @ < u THEN @ + 1 ELSE @]
    BY <1>9 DEF Tick, cached
  <2>2. ASSUME NEW h \in cached
        PROVE  EntryIsRight(cache'[h], h)
    <3>1. EntryIsRight(cache[h], h)
      BY DEF AnswerInv
    <3>2. PICK n : n = IF \E u \in Ttls : cache[h].age < u THEN cache[h].age + 1 ELSE cache[h].age
      OBVIOUS
    <3>3. n \in Nat
      BY <3>1, <3>2 DEF EntryIsRight
    <3>4. cache'[h] = [cache[h] EXCEPT !.age = n]
      BY <2>1, <3>2
    <3>5. cache'[h].age = n
      BY <3>1, <3>4 DEF EntryIsRight
    <3>6. DOMAIN cache'[h] = DOMAIN cache[h] /\ cache'[h].records = cache[h].records
      BY <3>4
    <3> QED
      BY <3>1, <3>3, <3>5, <3>6 DEF EntryIsRight
  <2> QED
    BY <2>1, <2>2 DEF AnswerInv
<1>10. CASE UNCHANGED <<cache, pc, host, answer, list>>
  BY <1>10 DEF AnswerInv, cached
<1>11. \/ \E t \in Threads, h \in Hosts : Hit(t, h) \/ Miss(t, h)
       \/ \E t \in Threads : Resolving(t)
       \/ ClearCache \/ Tick
       \/ UNCHANGED <<cache, pc, host, answer, list>>
  BY DEF ResolverNext, Reconfigured, UpdateConfig, resolverVars
<1> QED
  BY <1>1, <1>2, <1>3, <1>4, <1>5, <1>6, <1>7, <1>8, <1>9, <1>10, <1>11 DEF Resolving

(* Answers and entries are right in every state.                           *)
LEMMA AnswerInvariant == ResolverSpec => []AnswerInv
<1>1. ResolverInit => AnswerInv
  <2> SUFFICES ASSUME ResolverInit PROVE AnswerInv
    OBVIOUS
  <2>1. cached = {}
    BY DEF ResolverInit, cached
  <2>2. Failed \in [ok : BOOLEAN, addresses : Seq(Addresses)] /\ ~Failed.ok
    BY DEF Failed
  <2>3. \A t \in Threads : pc[t] = "idle" /\ answer[t] = Failed
    BY DEF ResolverInit
  <2>4. \A t \in Threads : CallIsRight(pc[t], answer[t], list[t], host[t])
    BY <2>2, <2>3 DEF CallIsRight
  <2>5. /\ pc \in [Threads -> {"idle", "miss", "count", "query", "filter", "store"}]
        /\ DOMAIN host = Threads /\ DOMAIN list = Threads
        /\ answer \in [Threads -> [ok : BOOLEAN, addresses : Seq(Addresses)]]
    BY <2>2 DEF ResolverInit
  <2> QED
    BY <2>1, <2>4, <2>5 DEF AnswerInv
<1>2. AnswerInv /\ [ResolverNext]_resolverVars => AnswerInv'
  BY AnswerInductive
<1> QED
  BY <1>1, <1>2, PTL DEF ResolverSpec

(* Whoever queried the addresses that a call is answered, and whatever was *)
(* configured then: they are its host's, and no IPv4 address is missing.   *)
THEOREM AnswersMatch == ResolverSpec => []AnswersAreTheHosts
<1>1. AnswerInv => AnswersAreTheHosts
  <2> SUFFICES ASSUME AnswerInv, NEW t \in Threads, answer[t].ok
               PROVE  LET A == AddressesOf(answer[t].addresses)
                          Z == AddressesOf(Zone[host[t]])
                      IN  /\ A # {}
                          /\ A \subseteq Z \union {[a EXCEPT !.scope = 0] : a \in Z}
                          /\ {a \in Z : IsV4(a)} \subseteq A
    BY DEF AnswersAreTheHosts
  <2>1. Resolves(answer[t].addresses, host[t])
    BY DEF AnswerInv, CallIsRight
  <2> QED
    BY <2>1 DEF Resolves, Unscoped
<1> QED
  BY <1>1, AnswerInvariant, PTL

-----------------------------------------------------------------------------
\* The socket.

USE SocketAssumption DEF SocketAssumption

(* What the object knows of the kernel: without a descriptor there is no   *)
(* socket, and a connect in progress was not reported as anything else.    *)
AgreesInv ==
  /\ valid \in BOOLEAN
  /\ ~valid => kernel = "none"
  /\ ConnectedIsReal
  /\ kernel = "connecting" => state \in {"connecting", "error"}

(* An object says disconnected of a connection only at the end of it. *)
EndInv == kernel = "connected" /\ state = "disconnected" => eof \/ shut # {}

(* No operation, and nothing that the kernel or the peer does, breaks the  *)
(* agreement.                                                              *)
LEMMA AgreesInductive ==
  ASSUME AgreesInv, [SocketNext]_socketVars
  PROVE  AgreesInv'
<1> USE DEF AgreesInv, ConnectedIsReal
<1>1. CASE Create \/ FromFd
  BY <1>1 DEF Create, FromFd, Fresh
<1>2. CASE Connect \/ ConnectFails \/ ConnectInProgress \/ ConnectInterrupted
  BY <1>2 DEF Connect, ConnectFails, ConnectInProgress, ConnectInterrupted, outside
<1>3. CASE Rejected \/ Send \/ Receive \/ ReceiveNothing \/ ReceiveFails
  BY <1>3 DEF Rejected, Send, Receive, ReceiveNothing, ReceiveFails, object, outside
<1>4. CASE ReceiveEnd
  BY <1>4 DEF ReceiveEnd, outside
<1>5. CASE (\E b \in BOOLEAN : SetNonBlocking(b))
           \/ \E D \in SUBSET {"send", "receive"} : Shutdown(D)
  BY <1>5 DEF SetNonBlocking, Shutdown, object, outside
<1>6. CASE Close \/ CloseFails
  BY <1>6 DEF Close, CloseFails, Gone, outside
<1>7. CASE KernelConnects \/ PeerResets
  BY <1>7 DEF KernelConnects, PeerResets, object
<1>8. CASE PeerCloses \/ PeerSends \/ PeerReads
  BY <1>8 DEF PeerCloses, PeerSends, PeerReads, object
<1>9. CASE UNCHANGED socketVars
  BY <1>9 DEF socketVars, object, outside
<1> QED
  BY <1>1, <1>2, <1>3, <1>4, <1>5, <1>6, <1>7, <1>8, <1>9 DEF SocketNext

(* The object and the kernel agree in every state of a socket. *)
LEMMA AgreesInvariant == SocketSpec => []AgreesInv
<1>1. SocketInit => AgreesInv
  BY DEF SocketInit, AgreesInv, ConnectedIsReal
<1>2. AgreesInv /\ [SocketNext]_socketVars => AgreesInv'
  BY AgreesInductive
<1> QED
  BY <1>1, <1>2, PTL DEF SocketSpec

(* state_ is connected only while the descriptor is valid and its          *)
(* connection was established, in either mode and across failed closes.    *)
THEOREM ConnectedAgrees == SocketSpec => []ConnectedIsReal
<1>1. AgreesInv => ConnectedIsReal
  BY DEF AgreesInv
<1> QED
  BY <1>1, AgreesInvariant, PTL

(* Unless receive() was called with an empty buffer, its end of stream is  *)
(* the connection's.                                                       *)
LEMMA EndInductive ==
  ASSUME ~EmptyReceive, AgreesInv, EndInv, [SocketNext]_socketVars
  PROVE  EndInv'
<1> USE DEF EndInv
<1>1. CASE Create \/ FromFd
  BY <1>1 DEF Create, FromFd, Fresh
<1>2. CASE Connect \/ ConnectFails \/ ConnectInProgress \/ ConnectInterrupted
  BY <1>2 DEF Connect, ConnectFails, ConnectInProgress, ConnectInterrupted, outside
<1>3. CASE Rejected \/ Send \/ Receive \/ ReceiveNothing \/ ReceiveFails
  BY <1>3 DEF Rejected, Send, Receive, ReceiveNothing, ReceiveFails, object, outside
<1>4. CASE ReceiveEnd
  <2>1. kernel' = "connected" => eof \/ shut # {}
    BY <1>4 DEF ReceiveEnd, AtEnd, outside
  <2> QED
    BY <1>4, <2>1 DEF ReceiveEnd, outside
<1>5. CASE \E b \in BOOLEAN : SetNonBlocking(b)
  BY <1>5 DEF SetNonBlocking, outside
<1>6. ASSUME NEW D \in SUBSET {"send", "receive"}, Shutdown(D)
      PROVE  EndInv'
  <2>1. shut' = {} => shut = {}
    BY <1>6 DEF Shutdown
  <2> QED
    BY <1>6, <2>1 DEF Shutdown, object
<1>7. CASE Close \/ CloseFails
  BY <1>7 DEF Close, CloseFails, Gone, outside
<1>8. CASE KernelConnects
  BY <1>8 DEF KernelConnects, object, AgreesInv
<1>9. CASE PeerCloses \/ PeerResets \/ PeerSends \/ PeerReads
  BY <1>9 DEF PeerCloses, PeerResets, PeerSends, PeerReads, object
<1>10. CASE UNCHANGED socketVars
  BY <1>10 DEF socketVars, object, outside
<1> QED
  BY <1>1, <1>2, <1>3, <1>4, <1>5, <1>6, <1>7, <1>8, <1>9, <1>10 DEF SocketNext

(* Unless receive() is called with an empty buffer, send() and receive()   *)
(* do not answer invalid_state for a connection that was reported and is   *)
(* neither closed, failed, shut down nor at its end.                       *)
THEOREM EstablishedStaysUsable ==
  ASSUME ~EmptyReceive
  PROVE  SocketSpec => EstablishedIsUsable
<1> DEFINE Usable == /\ kernel = "connected" /\ ~eof /\ shut = {}
                     /\ state \notin {"error", "connecting"}
                     /\ ~rejected
           States == state \in {"disconnected", "connecting", "connected", "error"}
<1>1. SocketInit => EndInv /\ States
  BY DEF SocketInit, EndInv
<1>2. AgreesInv /\ EndInv /\ States /\ [SocketNext]_socketVars => EndInv' /\ States'
  <2> SUFFICES ASSUME AgreesInv, EndInv, States, [SocketNext]_socketVars
               PROVE  EndInv' /\ States'
    OBVIOUS
  <2>1. States'
    BY DEF SocketNext, Create, FromFd, Fresh, Connect, ConnectFails, ConnectInProgress,
           ConnectInterrupted, Rejected, Send, Receive, ReceiveEnd,
           ReceiveNothing, ReceiveFails,
           SetNonBlocking, Shutdown, Close, CloseFails, KernelConnects,
           PeerCloses, PeerResets, PeerSends, PeerReads, object, socketVars
  <2> QED
    BY <2>1, EndInductive
<1>3. EndInv /\ States /\ [SocketNext]_socketVars => [Usable => ~rejected']_socketVars
  <2> SUFFICES ASSUME EndInv, States, SocketNext, Usable
               PROVE  ~rejected'
    OBVIOUS
  <2>1. state = "connected"
    BY DEF EndInv
  <2> QED
    BY <2>1 DEF SocketNext, Create, FromFd, Fresh, Connect, ConnectFails,
           ConnectInProgress, ConnectInterrupted, Rejected, Send, Receive, ReceiveEnd,
           ReceiveNothing, ReceiveFails, SetNonBlocking, Shutdown, Close,
           CloseFails, Gone, KernelConnects, PeerCloses, PeerResets, PeerSends, PeerReads
<1>4. SocketSpec => [](EndInv /\ States)
  BY <1>1, <1>2, AgreesInvariant, PTL DEF SocketSpec
<1>5. SocketSpec => [][Usable => ~rejected']_socketVars
  BY <1>3, <1>4, PTL DEF SocketSpec
<1> QED
  BY <1>5, PTL DEF EstablishedIsUsable

-----------------------------------------------------------------------------
\* What connect() makes of them.

USE CallerAssumption DEF CallerAssumption

\* connect() does to its socket what its owner may do.
LEMMA SocketSteps == [Next]_vars => [SocketNext]_socketVars
<1> SUFFICES ASSUME [Next]_vars
             PROVE  SocketNext \/ UNCHANGED socketVars
  OBVIOUS
<1>1. CASE Connecting
  <2>1. CASE (\E h \in Targets : StartConnect(h)) \/ Unresolved \/ Resolved
    BY <2>1 DEF StartConnect, Unresolved, Resolved
  <2>2. CASE Open
    BY <2>2 DEF Open, SocketNext
  <2>3. CASE CannotOpen \/ Exhausted \/ Deliver
    BY <2>3 DEF CannotOpen, Exhausted, Deliver
  <2>4. CASE Succeed \/ Fail \/ Discard
    BY <2>4 DEF Succeed, Fail, Discard, SocketNext
  <2> QED
    BY <1>1, <2>1, <2>2, <2>3, <2>4 DEF Connecting
<1>2. CASE ResolverStep
  BY <1>2 DEF ResolverStep
<1>3. CASE SocketStep
  BY <1>3 DEF SocketStep, SocketNext
<1>4. CASE UNCHANGED vars
  BY <1>4 DEF vars
<1> QED
  BY <1>1, <1>2, <1>3, <1>4 DEF Next

(* happy_eyeballs uses tcp_socket as its interface allows.                 *)
THEOREM SocketIsImplemented == Spec => SocketSpec
<1>1. Init => SocketInit
  BY DEF Init
<1> QED
  BY <1>1, SocketSteps, PTL DEF Spec, SocketSpec

\* connect() calls the resolver as any thread may.
LEMMA ResolverSteps == [Next]_vars => [ResolverNext]_resolverVars
<1> SUFFICES ASSUME [Next]_vars
             PROVE  ResolverNext \/ UNCHANGED resolverVars
  OBVIOUS
<1>1. CASE Connecting
  <2>1. ASSUME NEW h \in Targets, StartConnect(h)
        PROVE  ResolverNext
    BY <2>1 DEF StartConnect, ResolverNext
  <2>2. CASE Unresolved \/ Resolved
    BY <2>2 DEF Unresolved, Resolved
  <2>3. CASE Open \/ CannotOpen \/ Succeed \/ Fail \/ Discard \/ Exhausted \/ Deliver
    BY <2>3 DEF Open, CannotOpen, Succeed, Fail, Discard, Exhausted, Deliver
  <2> QED
    BY <1>1, <2>1, <2>2, <2>3 DEF Connecting
<1>2. CASE ResolverStep
  BY <1>2 DEF ResolverStep, ResolverNext
<1>3. CASE SocketStep
  BY <1>3 DEF SocketStep
<1>4. CASE UNCHANGED vars
  BY <1>4 DEF vars
<1> QED
  BY <1>1, <1>2, <1>3, <1>4 DEF Next

(* happy_eyeballs uses dns_resolver as one of the threads that call it.    *)
THEOREM ResolverIsImplemented == Spec => ResolverSpec
<1>1. Init => ResolverInit
  BY DEF Init
<1> QED
  BY <1>1, ResolverSteps, PTL DEF Spec, ResolverSpec

-----------------------------------------------------------------------------
\* The result of connect().

(* What makes ResultIsClean inductive: between two attempts there is no    *)
(* socket, during one there is, and nobody else uses it: the owner of the  *)
(* object does so before the first call only.                              *)
ConnectInv ==
  /\ calls \in Nat
  /\ phase # "idle" => calls > 0
  /\ phase \in {"resolve", "next"} => ~valid
  /\ phase \in {"opened", "failed"} => valid
  /\ ResultIsClean

(* Each step of connect() keeps what it knows of its socket. *)
LEMMA ConnectInductive ==
  ASSUME AgreesInv, ConnectInv, [Next]_vars
  PROVE  ConnectInv'
<1> USE DEF ConnectInv, ResultIsClean
<1>1. ASSUME NEW h \in Targets, StartConnect(h)
      PROVE  ConnectInv'
  <2>1. calls' = calls + 1
    BY <1>1 DEF StartConnect, Hit, Miss, Calls
  <2>2. valid' = valid
    BY <1>1 DEF StartConnect, socketVars, object
  <2> QED
    BY <1>1, <2>1, <2>2 DEF StartConnect
<1>2. CASE Unresolved \/ Resolved \/ CannotOpen \/ Exhausted \/ Deliver
  <2>1. /\ calls' = calls
        /\ valid' = valid /\ kernel' = kernel /\ state' = state
        /\ phase \in {"resolve", "next", "return"}
    BY <1>2 DEF Unresolved, Resolved, CannotOpen, Exhausted, Deliver,
                resolverVars, socketVars, object, outside
  <2>2. CASE phase' = "return"
    BY <1>2, <2>1, <2>2 DEF Unresolved, Resolved, CannotOpen, Exhausted, Deliver,
                            Return, AgreesInv
  <2>3. CASE phase' # "return"
    BY <1>2, <2>1, <2>3 DEF Unresolved, Resolved, CannotOpen, Exhausted, Deliver, Return,
                            AgreesInv
  <2> QED
    BY <2>2, <2>3
<1>3. CASE Open
  BY <1>3 DEF Open, Create, Fresh, resolverVars
<1>4. CASE Succeed
  BY <1>4 DEF Succeed, Connect, Return, resolverVars
<1>5. CASE Fail
  BY <1>5 DEF Fail, ConnectFails, ConnectInterrupted, resolverVars, socketVars, object
<1>6. CASE Discard
  BY <1>6 DEF Discard, Close, Gone, resolverVars, AgreesInv
<1>7. CASE ResolverStep
  <2>1. UNCHANGED <<valid, state, kernel, phase, outcome>>
    BY <1>7 DEF ResolverStep, socketVars, object, outside, connectVars
  <2>2. calls' \in {calls, calls + 1}
    BY <1>7 DEF ResolverStep, Resolving, Hit, Miss, Calls, ReadMisses, WriteMisses,
                Answered, QueryFails, Filter, Filtered, Store, ClearCache, Reconfigured,
                UpdateConfig, Tick
  <2> QED
    BY <2>1, <2>2
<1>8. CASE SocketStep
  <2>1. calls' = calls /\ phase' = phase /\ outcome' = outcome
    BY <1>8 DEF SocketStep, resolverVars, connectVars
  <2>2. CASE phase = "idle"
    BY <2>1, <2>2
  <2>3. CASE phase # "idle"
    <3>1. KernelConnects \/ PeerResets
      BY <1>8, <2>3 DEF SocketStep
    <3>2. valid' = valid /\ state' = state
      BY <3>1 DEF KernelConnects, PeerResets, object
    <3>3. kernel \in {"connecting", "connected"} /\ kernel' # "connecting"
      BY <3>1 DEF KernelConnects, PeerResets
    <3>4. kernel = "connecting" => state \in {"connecting", "error"}
      BY DEF AgreesInv
    <3>5. kernel = "connected" => kernel' = "reset"
      BY <3>1 DEF KernelConnects, PeerResets
    <3> QED
      BY <2>1, <3>2, <3>3, <3>4, <3>5
  <2> QED
    BY <2>2, <2>3
<1>9. CASE UNCHANGED vars
  BY <1>9 DEF vars, resolverVars, socketVars, object, outside, connectVars
<1> QED
  BY <1>1, <1>2, <1>3, <1>4, <1>5, <1>6, <1>7, <1>8, <1>9 DEF Next, Connecting

(* However many attempts are refused or interrupted and whatever the other *)
(* threads do to the resolver, connect() returns a connected socket, or an *)
(* error and no descriptor.                                                *)
THEOREM ConnectReturnsClean == Spec => []ResultIsClean
<1>1. Init => ConnectInv
  BY DEF Init, ResolverInit, SocketInit, ConnectInv, ResultIsClean
<1>2. AgreesInv /\ ConnectInv /\ [Next]_vars => ConnectInv'
  BY ConnectInductive
<1>3. ConnectInv => ResultIsClean
  BY DEF ConnectInv
<1>4. Spec => []AgreesInv
  BY SocketIsImplemented, AgreesInvariant, PTL
<1> QED
  BY <1>1, <1>2, <1>3, <1>4, PTL DEF Spec

-----------------------------------------------------------------------------
\* The order of the attempts.

(* Every other number, and its half.                                       *)
LEMMA HalfOf ==
  /\ \A i \in Nat : /\ i % 2 = 1 => 2 * ((i + 1) \div 2) = i + 1 /\ (i + 1) % 2 # 1
                    /\ i % 2 # 1 => 2 * (i \div 2) = i /\ (i + 1) % 2 = 1
                    /\ i \div 2 \in Nat
                    /\ (i + 1) \div 2 \in Nat
  /\ \A k \in Nat : /\ (2 * k) % 2 # 1
                    /\ (2 * k) \div 2 = k
                    /\ (2 * k + 1) % 2 = 1
                    /\ (2 * k + 2) \div 2 = k + 1
OBVIOUS

\* The sequence c takes n elements of a and of b, of length p and q, in turn,
\* and then what is left of one of them; the other one has no more.
InTurn(c, a, p, b, q, n) ==
  /\ \A i \in 1 .. 2 * n : c[i] = IF i % 2 = 1 THEN a[(i + 1) \div 2] ELSE b[i \div 2]
  /\ p = n \/ q = n
  /\ p = n => \A i \in 1 .. q - n : c[2 * n + i] = b[n + i]
  /\ q = n => \A i \in 1 .. p - n : c[2 * n + i] = a[n + i]

(* What is left of a sequence behind its first n elements.                 *)
LEMMA RestIs ==
  ASSUME NEW S, NEW s \in Seq(S), NEW n \in Nat, n <= Len(s)
  PROVE  /\ SubSeq(s, n + 1, Len(s)) \in Seq(S)
         /\ Len(SubSeq(s, n + 1, Len(s))) = Len(s) - n
         /\ \A i \in 1 .. Len(s) - n : SubSeq(s, n + 1, Len(s))[i] = s[n + i]
<1>1. PICK m \in Nat : m = Len(s)
  BY LenProperties
<1>2. \A i \in 1 .. m : s[i] \in S
  BY <1>1, ElementOfSeq
<1>3. n <= m
  BY <1>1
<1>4. /\ n + 1 \in Int /\ m \in Int
      /\ m - (n + 1) + 1 = m - n
      /\ (IF n + 1 <= m THEN m - (n + 1) + 1 ELSE 0) = m - n
      /\ \A i \in n + 1 .. m : i \in 1 .. m
      /\ \A i \in Int : (n + 1) + i - 1 = n + i
  BY <1>3
<1>5. \A i \in n + 1 .. m : s[i] \in S
  BY <1>2, <1>4
<1>6. /\ SubSeq(s, n + 1, m) \in Seq(S)
      /\ Len(SubSeq(s, n + 1, m)) = IF n + 1 <= m THEN m - (n + 1) + 1 ELSE 0
      /\ \A i \in 1 .. m - (n + 1) + 1 : SubSeq(s, n + 1, m)[i] = s[(n + 1) + i - 1]
  <2>1. PICK k \in Int : k = n + 1
    BY <1>4
  <2>2. \A i \in k .. m : s[i] \in S
    BY <1>5, <2>1
  <2>3. m \in Int
    BY <1>4
  <2>4. /\ SubSeq(s, k, m) \in Seq(S)
        /\ Len(SubSeq(s, k, m)) = IF k <= m THEN m - k + 1 ELSE 0
        /\ \A i \in 1 .. m - k + 1 : SubSeq(s, k, m)[i] = s[k + i - 1]
    BY <2>2, <2>3, SubSeqProperties
  <2> QED
    BY <2>1, <2>4, Zenon
<1>7. \A i \in 1 .. m - n : i \in Int
  OBVIOUS
<1>8. \A i \in 1 .. m - n : SubSeq(s, n + 1, m)[i] = s[n + i]
  BY <1>4, <1>6, <1>7, Zenon
<1> QED
  BY <1>1, <1>4, <1>6, <1>8, Zenon

(* What Interleaved makes of two sequences.                                *)
LEMMA InterleavedIs ==
  ASSUME NEW S, NEW a \in Seq(S), NEW b \in Seq(S)
  PROVE  /\ Interleaved(a, b) \in Seq(S)
         /\ Len(Interleaved(a, b)) = Len(a) + Len(b)
         /\ \E n \in Nat : n <= Len(a) /\ n <= Len(b) /\ InTurn(Interleaved(a, b), a, Len(a), b, Len(b), n)
<1>0. Len(a) \in Nat /\ Len(b) \in Nat
  BY LenProperties
<1>1. PICK n \in Nat : n = IF Len(a) < Len(b) THEN Len(a) ELSE Len(b)
  BY <1>0
<1>2. n <= Len(a) /\ n <= Len(b) /\ (Len(a) = n \/ Len(b) = n)
  BY <1>0, <1>1
<1> DEFINE t == [i \in 1 .. 2 * n |-> IF i % 2 = 1 THEN a[(i + 1) \div 2] ELSE b[i \div 2]]
           x == SubSeq(a, n + 1, Len(a))
           y == SubSeq(b, n + 1, Len(b))
<1>3. Interleaved(a, b) = t \o x \o y
  BY <1>1 DEF Interleaved
<1>4. ASSUME NEW i \in 1 .. 2 * n
      PROVE  t[i] \in S
  <2>1. CASE i % 2 = 1
    <3>1. (i + 1) \div 2 \in 1 .. Len(a)
      BY <1>0, <1>2, <2>1, HalfOf
    <3> QED
      BY <2>1, <3>1, ElementOfSeq
  <2>2. CASE i % 2 # 1
    <3>1. i \div 2 \in 1 .. Len(b)
      BY <1>0, <1>2, <2>2, HalfOf
    <3> QED
      BY <2>2, <3>1, ElementOfSeq
  <2> QED
    BY <2>1, <2>2
<1>5. t \in Seq(S) /\ Len(t) = 2 * n
  <2>1. 2 * n \in Nat /\ t \in [1 .. 2 * n -> S]
    BY <1>4
  <2> HIDE DEF t
  <2> QED
    BY <2>1
<1>6. /\ x \in Seq(S) /\ Len(x) = Len(a) - n
      /\ \A i \in 1 .. Len(a) - n : x[i] = a[n + i]
  BY <1>2, RestIs
<1>7. /\ y \in Seq(S) /\ Len(y) = Len(b) - n
      /\ \A i \in 1 .. Len(b) - n : y[i] = b[n + i]
  BY <1>2, RestIs
<1>8. \A i \in 1 .. 2 * n : t[i] = IF i % 2 = 1 THEN a[(i + 1) \div 2] ELSE b[i \div 2]
  OBVIOUS
<1> HIDE DEF t, x, y
<1> DEFINE c == (t \o x) \o y
<1>9. /\ t \o x \in Seq(S) /\ Len(t \o x) = 2 * n + (Len(a) - n)
      /\ \A i \in 1 .. 2 * n + (Len(a) - n) :
           (t \o x)[i] = IF i <= 2 * n THEN t[i] ELSE x[i - 2 * n]
  <2>1. /\ t \o x \in Seq(S) /\ Len(t \o x) = Len(t) + Len(x)
        /\ \A i \in 1 .. Len(t) + Len(x) :
             (t \o x)[i] = IF i <= Len(t) THEN t[i] ELSE x[i - Len(t)]
    BY <1>5, <1>6, ConcatProperties, Zenon
  <2> QED
    BY <1>5, <1>6, <2>1, Zenon
<1>10. /\ c \in Seq(S)
       /\ Len(c) = (2 * n + (Len(a) - n)) + (Len(b) - n)
       /\ \A i \in 1 .. (2 * n + (Len(a) - n)) + (Len(b) - n) :
            c[i] = IF i <= 2 * n + (Len(a) - n) THEN (t \o x)[i]
                   ELSE y[i - (2 * n + (Len(a) - n))]
  <2>1. /\ c \in Seq(S) /\ Len(c) = Len(t \o x) + Len(y)
        /\ \A i \in 1 .. Len(t \o x) + Len(y) :
             c[i] = IF i <= Len(t \o x) THEN (t \o x)[i] ELSE y[i - Len(t \o x)]
    BY <1>7, <1>9, ConcatProperties, Zenon
  <2> QED
    BY <1>7, <1>9, <2>1, Zenon
<1> HIDE DEF c
<1>11. Len(c) = Len(a) + Len(b)
  <2>1. (2 * n + (Len(a) - n)) + (Len(b) - n) = Len(a) + Len(b)
    BY <1>0
  <2> QED
    BY <1>10, <2>1
<1>12. ASSUME NEW i \in 1 .. 2 * n
       PROVE  c[i] = IF i % 2 = 1 THEN a[(i + 1) \div 2] ELSE b[i \div 2]
  <2>1. /\ i \in 1 .. (2 * n + (Len(a) - n)) + (Len(b) - n)
        /\ i <= 2 * n + (Len(a) - n)
        /\ i \in 1 .. 2 * n + (Len(a) - n)
        /\ i <= 2 * n
    BY <1>0, <1>2
  <2>2. c[i] = t[i]
    BY <1>9, <1>10, <2>1
  <2> QED
    BY <1>8, <2>2
<1>13. ASSUME Len(b) = n, NEW i \in 1 .. Len(a) - n
       PROVE  c[2 * n + i] = a[n + i]
  <2>1. /\ 2 * n + i \in 1 .. (2 * n + (Len(a) - n)) + (Len(b) - n)
        /\ 2 * n + i <= 2 * n + (Len(a) - n)
        /\ 2 * n + i \in 1 .. 2 * n + (Len(a) - n)
        /\ ~(2 * n + i <= 2 * n)
        /\ (2 * n + i) - 2 * n = i
    BY <1>0, <1>2
  <2>2. c[2 * n + i] = x[i]
    BY <1>9, <1>10, <2>1
  <2> QED
    BY <1>6, <2>2
<1>14. ASSUME Len(a) = n, NEW i \in 1 .. Len(b) - n
       PROVE  c[2 * n + i] = b[n + i]
  <2>1. /\ 2 * n + i \in 1 .. (2 * n + (Len(a) - n)) + (Len(b) - n)
        /\ ~(2 * n + i <= 2 * n + (Len(a) - n))
        /\ (2 * n + i) - (2 * n + (Len(a) - n)) = i
    BY <1>0, <1>2, <1>14
  <2>2. c[2 * n + i] = y[i]
    BY <1>10, <2>1
  <2> QED
    BY <1>7, <2>2
<1>15. InTurn(c, a, Len(a), b, Len(b), n)
  BY <1>2, <1>12, <1>13, <1>14 DEF InTurn
<1>16. Interleaved(a, b) = c
  BY <1>3 DEF c
<1> QED
  BY <1>2, <1>10, <1>11, <1>15, <1>16

\* The i-th element of what InTurn makes of two sequences, q elements long
\* the second, is one of the first.
FromFirst(i, n, q) == IF i <= 2 * n THEN i % 2 = 1 ELSE q = n

\* Which of the two sequences each element is from.
ComesFrom(c, a, p, b, q, n) ==
  \A i \in 1 .. p + q : /\ FromFirst(i, n, q) => \E k \in 1 .. p : c[i] = a[k]
                        /\ ~FromFirst(i, n, q) => \E k \in 1 .. q : c[i] = b[k]

(* Where the elements come from.                                           *)
LEMMA InTurnFrom ==
  ASSUME NEW a, NEW b, NEW c, NEW n \in Nat, NEW p \in Nat, NEW q \in Nat,
         n <= p, n <= q, InTurn(c, a, p, b, q, n)
  PROVE  ComesFrom(c, a, p, b, q, n)
<1> SUFFICES ASSUME NEW i \in 1 .. p + q
             PROVE  /\ FromFirst(i, n, q) => \E k \in 1 .. p : c[i] = a[k]
                    /\ ~FromFirst(i, n, q) => \E k \in 1 .. q : c[i] = b[k]
  BY DEF ComesFrom
<1>1. /\ \A j \in 1 .. 2 * n : c[j] = IF j % 2 = 1 THEN a[(j + 1) \div 2] ELSE b[j \div 2]
      /\ p = n \/ q = n
      /\ p = n => \A j \in 1 .. q - n : c[2 * n + j] = b[n + j]
      /\ q = n => \A j \in 1 .. p - n : c[2 * n + j] = a[n + j]
  BY DEF InTurn
<1>2. CASE i <= 2 * n
  <2>1. i \in 1 .. 2 * n /\ i \in Nat
    BY <1>2
  <2>2. CASE i % 2 = 1
    <3>1. (i + 1) \div 2 \in 1 .. p
      BY <2>1, <2>2, HalfOf
    <3>2. c[i] = a[(i + 1) \div 2]
      BY <1>1, <2>1, <2>2
    <3> QED
      BY <1>2, <2>2, <3>1, <3>2 DEF FromFirst
  <2>3. CASE i % 2 # 1
    <3>1. i \div 2 \in 1 .. q
      BY <2>1, <2>3, HalfOf
    <3>2. c[i] = b[i \div 2]
      BY <1>1, <2>1, <2>3
    <3> QED
      BY <1>2, <2>3, <3>1, <3>2 DEF FromFirst
  <2> QED
    BY <2>2, <2>3
<1>3. CASE ~(i <= 2 * n)
  <2>1. PICK j \in Nat : i = 2 * n + j /\ j >= 1 /\ j <= (p - n) + (q - n)
    <3>1. i - 2 * n \in Nat /\ i = 2 * n + (i - 2 * n) /\ i - 2 * n >= 1
          /\ i - 2 * n <= (p - n) + (q - n)
      BY <1>3
    <3> QED
      BY <3>1
  <2>2. CASE q = n
    <3>1. j \in 1 .. p - n /\ n + j \in 1 .. p
      BY <2>1, <2>2
    <3>2. c[i] = a[n + j]
      BY <1>1, <2>1, <2>2, <3>1
    <3> QED
      BY <1>3, <2>2, <3>1, <3>2 DEF FromFirst
  <2>3. CASE q # n
    <3>1. j \in 1 .. q - n /\ n + j \in 1 .. q
      BY <1>1, <2>1, <2>3
    <3>2. c[i] = b[n + j]
      BY <1>1, <2>1, <2>3, <3>1
    <3> QED
      BY <1>3, <2>3, <3>1, <3>2 DEF FromFirst
  <2> QED
    BY <2>2, <2>3
<1> QED
  BY <1>2, <1>3

\* The first m elements of c hold the first p of a.
Takes(c, m, a, p) == \A k \in 1 .. p : \E i \in 1 .. m : c[i] = a[k]

(* No element is left out.                                                 *)
LEMMA InTurnTakesAll ==
  ASSUME NEW a, NEW b, NEW c, NEW n \in Nat, NEW p \in Nat, NEW q \in Nat,
         n <= p, n <= q, InTurn(c, a, p, b, q, n)
  PROVE  Takes(c, p + q, a, p) /\ Takes(c, p + q, b, q)
<1>1. /\ \A j \in 1 .. 2 * n : c[j] = IF j % 2 = 1 THEN a[(j + 1) \div 2] ELSE b[j \div 2]
      /\ p = n \/ q = n
      /\ p = n => \A j \in 1 .. q - n : c[2 * n + j] = b[n + j]
      /\ q = n => \A j \in 1 .. p - n : c[2 * n + j] = a[n + j]
  BY DEF InTurn
<1>2. ASSUME NEW k \in 1 .. p
      PROVE  \E i \in 1 .. p + q : c[i] = a[k]
  <2>1. CASE k <= n
    <3>1. PICK m \in Nat : k = m + 1
      <4>1. k - 1 \in Nat /\ k = (k - 1) + 1
        BY <1>2
      <4> QED
        BY <4>1
    <3>2. /\ 2 * m + 1 \in 1 .. 2 * n /\ 2 * m + 1 \in 1 .. p + q
          /\ (2 * m + 1) + 1 = 2 * m + 2
      BY <1>2, <2>1, <3>1
    <3>3. (2 * m + 1) % 2 = 1 /\ (2 * m + 2) \div 2 = k
      BY <1>2, <3>1, HalfOf
    <3>4. c[2 * m + 1] = a[k]
      BY <1>1, <3>2, <3>3
    <3> QED
      BY <3>2, <3>4
  <2>2. CASE ~(k <= n)
    <3>1. /\ q = n /\ k - n \in 1 .. p - n /\ n + (k - n) = k
          /\ 2 * n + (k - n) \in 1 .. p + q
      BY <1>2, <1>1, <2>2
    <3>2. c[2 * n + (k - n)] = a[k]
      BY <1>1, <3>1
    <3> QED
      BY <1>2, <3>1, <3>2
  <2> QED
    BY <2>1, <2>2
<1>3. ASSUME NEW k \in 1 .. q
      PROVE  \E i \in 1 .. p + q : c[i] = b[k]
  <2>1. CASE k <= n
    <3>1. 2 * k \in 1 .. 2 * n /\ 2 * k \in 1 .. p + q /\ k \in Nat
      BY <1>3, <2>1
    <3>2. (2 * k) % 2 # 1 /\ (2 * k) \div 2 = k
      BY <3>1, HalfOf
    <3>3. c[2 * k] = b[k]
      BY <1>1, <3>1, <3>2
    <3> QED
      BY <3>1, <3>3
  <2>2. CASE ~(k <= n)
    <3>1. /\ p = n /\ k - n \in 1 .. q - n /\ n + (k - n) = k
          /\ 2 * n + (k - n) \in 1 .. p + q
      BY <1>3, <1>1, <2>2
    <3>2. c[2 * n + (k - n)] = b[k]
      BY <1>1, <3>1
    <3> QED
      BY <3>1, <3>2
  <2> QED
    BY <2>1, <2>2
<1> QED
  BY <1>2, <1>3 DEF Takes

(* So that the elements are those of both.                                 *)
LEMMA InTurnIsUnion ==
  ASSUME NEW a, NEW b, NEW c, NEW n \in Nat, NEW p \in Nat, NEW q \in Nat,
         n <= p, n <= q, InTurn(c, a, p, b, q, n),
         DOMAIN a = 1 .. p, DOMAIN b = 1 .. q, DOMAIN c = 1 .. p + q
  PROVE  AddressesOf(c) = AddressesOf(a) \union AddressesOf(b)
<1>1. Takes(c, p + q, a, p) /\ Takes(c, p + q, b, q)
  BY InTurnTakesAll, Zenon
<1>2. ComesFrom(c, a, p, b, q, n)
  BY InTurnFrom
<1>3. AddressesOf(c) \subseteq AddressesOf(a) \union AddressesOf(b)
  BY <1>2 DEF AddressesOf, ComesFrom
<1>4. ASSUME NEW x \in AddressesOf(a)
      PROVE  x \in AddressesOf(c)
  <2>1. PICK k \in 1 .. p : x = a[k]
    BY DEF AddressesOf
  <2>2. PICK i \in 1 .. p + q : c[i] = x
    BY <1>1, <2>1 DEF Takes
  <2> QED
    BY <2>2 DEF AddressesOf
<1>5. ASSUME NEW x \in AddressesOf(b)
      PROVE  x \in AddressesOf(c)
  <2>1. PICK k \in 1 .. q : x = b[k]
    BY DEF AddressesOf
  <2>2. PICK i \in 1 .. p + q : c[i] = x
    BY <1>1, <2>1 DEF Takes
  <2> QED
    BY <2>2 DEF AddressesOf
<1> QED
  BY <1>3, <1>4, <1>5

(* Two in a row from the same sequence are behind the last turn.           *)
LEMMA InTurnIsFair ==
  ASSUME NEW n \in Nat, NEW p \in Nat, NEW q \in Nat, n <= p, n <= q, p = n \/ q = n,
         NEW i \in 1 .. p + q - 1, FromFirst(i, n, q) <=> FromFirst(i + 1, n, q),
         NEW k \in i .. p + q
  PROVE  FromFirst(k, n, q) <=> FromFirst(i, n, q)
<1>1. i \in Nat /\ k \in Nat
  OBVIOUS
<1>2. ~(i + 1 <= 2 * n)
  <2> SUFFICES ASSUME i + 1 <= 2 * n
               PROVE  FALSE
    OBVIOUS
  <2>1. i <= 2 * n
    BY <1>1
  <2>2. i % 2 = 1 <=> (i + 1) % 2 = 1
    BY <2>1 DEF FromFirst
  <2> QED
    BY <1>1, <2>2, HalfOf
<1>3. FromFirst(i + 1, n, q) <=> q = n
  BY <1>2 DEF FromFirst
<1>4. CASE k <= 2 * n
  <2>1. k = i
    BY <1>1, <1>2, <1>4
  <2> QED
    BY <2>1
<1>5. CASE ~(k <= 2 * n)
  <2>1. FromFirst(k, n, q) <=> q = n
    BY <1>5 DEF FromFirst
  <2> QED
    BY <1>3, <2>1
<1> QED
  BY <1>4, <1>5

(* What a loop selects of the addresses of a host are some of them.        *)
LEMMA SelectedAddresses ==
  ASSUME NEW S, NEW s \in Seq(S), NEW I
  PROVE  /\ Selected(s, I) \in Seq(S)
         /\ AddressesOf(Selected(s, I)) = {s[i] : i \in I \intersect DOMAIN s}
         /\ Selected(s, I) # <<>> => AddressesOf(Selected(s, I)) # {}
<1>1. PICK t : t = Selected(s, I)
  OBVIOUS
<1>2. t \in Seq(S)
  BY <1>1, SelectedIs
<1>3. /\ \A k \in DOMAIN t : \E i \in I \intersect DOMAIN s : t[k] = s[i]
      /\ \A i \in I \intersect DOMAIN s : \E k \in DOMAIN t : t[k] = s[i]
  BY <1>1, SelectedElements
<1>4. AddressesOf(t) = {s[i] : i \in I \intersect DOMAIN s}
  BY <1>3 DEF AddressesOf
<1>5. ASSUME t # <<>>
      PROVE  AddressesOf(t) # {}
  <2>1. 1 \in DOMAIN t
    BY <1>2, <1>5, EmptySeq, LenProperties
  <2> QED
    BY <2>1 DEF AddressesOf
<1> QED
  BY <1>1, <1>2, <1>4, <1>5

(* The order that connect() makes of the addresses of an answer.           *)
LEMMA InterleavedIsFair ==
  ASSUME NEW s \in Seq(Addresses), NEW I, NEW J,
         \A i \in DOMAIN s : i \in I <=> i \notin J,
         \/ \A i \in DOMAIN s : i \in I <=> IsV4(s[i])
         \/ \A i \in DOMAIN s : i \in I <=> ~IsV4(s[i]),
         NEW o, o = Interleaved(Selected(s, I), Selected(s, J))
  PROVE  /\ Len(o) = Len(s)
         /\ AddressesOf(o) = AddressesOf(s)
         /\ \A i \in DOMAIN s : i \in I => \E j \in DOMAIN s : j \in I /\ o[1] = s[j]
         /\ \A i \in 1 .. Len(o) - 1 :
              IsV4(o[i]) = IsV4(o[i + 1]) => \A k \in i .. Len(o) : IsV4(o[k]) = IsV4(o[i])
<1>1. PICK a : a = Selected(s, I)
  OBVIOUS
<1>2. PICK b : b = Selected(s, J)
  OBVIOUS
<1>3. /\ a \in Seq(Addresses) /\ b \in Seq(Addresses)
      /\ AddressesOf(a) = {s[i] : i \in I \intersect DOMAIN s}
      /\ AddressesOf(b) = {s[i] : i \in J \intersect DOMAIN s}
  BY <1>1, <1>2, SelectedAddresses
<1>4. PICK p \in Nat : p = Len(a)
  BY <1>3, LenProperties
<1>5. PICK q \in Nat : q = Len(b)
  BY <1>3, LenProperties
<1>6. /\ o \in Seq(Addresses) /\ Len(o) = p + q
      /\ \E n \in Nat : n <= p /\ n <= q /\ InTurn(o, a, p, b, q, n)
  BY <1>1, <1>2, <1>3, <1>4, <1>5, InterleavedIs
<1>7. PICK n \in Nat : n <= p /\ n <= q /\ InTurn(o, a, p, b, q, n)
  BY <1>6
<1>8. p = n \/ q = n
  BY <1>4, <1>5, <1>7 DEF InTurn
<1>9. /\ DOMAIN a = 1 .. p /\ DOMAIN b = 1 .. q /\ DOMAIN o = 1 .. p + q
  BY <1>3, <1>4, <1>5, <1>6, LenProperties
<1>10. Len(o) = Len(s)
  BY <1>1, <1>2, <1>4, <1>5, <1>6, SelectedHalves
<1>12. ComesFrom(o, a, p, b, q, n)
  BY <1>7, InTurnFrom, Zenon
<1>13. AddressesOf(a) \union AddressesOf(b) = AddressesOf(s)
  <2>1. AddressesOf(s) = {s[i] : i \in DOMAIN s}
    BY DEF AddressesOf
  <2>2. \A i \in DOMAIN s : i \in I \intersect DOMAIN s \/ i \in J \intersect DOMAIN s
    OBVIOUS
  <2> QED
    BY <1>3, <2>1, <2>2
<1>14. AddressesOf(o) = AddressesOf(a) \union AddressesOf(b)
  BY <1>4, <1>5, <1>7, <1>9, InTurnIsUnion
<1>15. \/ (\A k \in 1 .. p : IsV4(a[k])) /\ (\A k \in 1 .. q : ~IsV4(b[k]))
       \/ (\A k \in 1 .. p : ~IsV4(a[k])) /\ (\A k \in 1 .. q : IsV4(b[k]))
  <2>1. \A k \in 1 .. p : \E i \in I \intersect DOMAIN s : a[k] = s[i]
    BY <1>3, <1>9 DEF AddressesOf
  <2>2. \A k \in 1 .. q : \E i \in J \intersect DOMAIN s : b[k] = s[i]
    BY <1>3, <1>9 DEF AddressesOf
  <2> QED
    BY <2>1, <2>2
<1>16. \/ \A i \in 1 .. p + q : IsV4(o[i]) <=> FromFirst(i, n, q)
       \/ \A i \in 1 .. p + q : IsV4(o[i]) <=> ~FromFirst(i, n, q)
  BY <1>12, <1>15 DEF ComesFrom
<1>17. ASSUME NEW i \in 1 .. p + q - 1, IsV4(o[i]) = IsV4(o[i + 1]), NEW k \in i .. p + q
       PROVE  IsV4(o[k]) = IsV4(o[i])
  <2>1. i \in 1 .. p + q /\ i + 1 \in 1 .. p + q /\ k \in 1 .. p + q
    OBVIOUS
  <2>2. FromFirst(i, n, q) <=> FromFirst(i + 1, n, q)
    BY <1>16, <1>17, <2>1
  <2>3. FromFirst(k, n, q) <=> FromFirst(i, n, q)
    BY <1>7, <1>8, <2>2, InTurnIsFair
  <2>4. IsV4(o[k]) <=> IsV4(o[i])
    BY <1>16, <2>1, <2>3
  <2> QED
    BY <2>4 DEF IsV4
<1>18. ASSUME NEW i \in DOMAIN s, i \in I
       PROVE  \E j \in DOMAIN s : j \in I /\ o[1] = s[j]
  <2>1. PICK k \in 1 .. p : a[k] = s[i]
    BY <1>3, <1>9, <1>18 DEF AddressesOf
  <2>2. 1 \in 1 .. p + q /\ p # 0
    OBVIOUS
  <2>3. 1 <= 2 * n \/ q = n
    BY <1>8, <2>2
  <2>4. FromFirst(1, n, q)
    BY <2>3 DEF FromFirst
  <2>5. PICK l \in 1 .. p : o[1] = a[l]
    BY <1>12, <2>2, <2>4 DEF ComesFrom
  <2>6. a[l] \in AddressesOf(a)
    BY <1>9, <2>5 DEF AddressesOf
  <2>7. PICK j \in I \intersect DOMAIN s : a[l] = s[j]
    BY <1>3, <2>6
  <2> QED
    BY <2>5, <2>7
<1> QED
  BY <1>6, <1>10, <1>13, <1>14, <1>17, <1>18

(* What makes OrderIsFair inductive: connect() is through with the         *)
(* resolver while it goes through the order, so that nothing changes the   *)
(* answer that the order was made of.                                      *)
OrderInv ==
  /\ phase \in {"next", "opened", "failed"} => pc[Caller] = "idle"
  /\ OrderIsFair

(* The order is made once, and kept until the next call.                   *)
LEMMA OrderInductive ==
  ASSUME AnswerInv, OrderInv, [Next]_vars
  PROVE  OrderInv'
<1> DEFINE Trying == phase \in {"next", "opened", "failed"}
<1>1. CASE Resolved
  <2>1. PICK found : found = answer[Caller].addresses
    OBVIOUS
  <2> DEFINE V == {i \in DOMAIN found : IsV4(found[i])}
             W == {i \in DOMAIN found : ~IsV4(found[i])}
  <2>2. /\ pc[Caller] = "idle" /\ answer[Caller].ok
        /\ pc' = pc /\ answer' = answer
        /\ order' = IF PreferIPv6 THEN Interleaved(Selected(found, W), Selected(found, V))
                                  ELSE Interleaved(Selected(found, V), Selected(found, W))
    BY <1>1, <2>1 DEF Resolved, resolverVars
  <2>3. found \in Seq(Addresses)
    BY <2>1, <2>2, CallerAssumption DEF AnswerInv, Resolves, CallerAssumption
  <2>4. /\ \A i \in DOMAIN found : i \in V <=> IsV4(found[i])
        /\ \A i \in DOMAIN found : i \in W <=> ~IsV4(found[i])
        /\ \A i \in DOMAIN found : i \in V <=> i \notin W
        /\ \A i \in DOMAIN found : i \in W <=> i \notin V
    OBVIOUS
  <2> HIDE DEF V, W
  <2>5. PICK o : o = order'
    OBVIOUS
  <2>6. /\ Len(o) = Len(found)
        /\ AddressesOf(o) = AddressesOf(found)
        /\ \A i \in DOMAIN found : IsV4(found[i]) # PreferIPv6 => IsV4(o[1]) # PreferIPv6
        /\ \A i \in 1 .. Len(o) - 1 :
             IsV4(o[i]) = IsV4(o[i + 1]) => \A k \in i .. Len(o) : IsV4(o[k]) = IsV4(o[i])
    <3>1. CASE PreferIPv6
      <4>1. o = Interleaved(Selected(found, W), Selected(found, V))
        BY <2>2, <2>5, <3>1
      <4>2. \A i \in DOMAIN found : i \in W => \E j \in DOMAIN found : j \in W /\ o[1] = found[j]
        BY <2>3, <2>4, <4>1, InterleavedIsFair
      <4>3. \A i \in DOMAIN found : ~IsV4(found[i]) => ~IsV4(o[1])
        BY <2>4, <4>2
      <4>4. \A i \in DOMAIN found : IsV4(found[i]) # PreferIPv6 => IsV4(o[1]) # PreferIPv6
        BY <3>1, <4>3 DEF IsV4
      <4> QED
        BY <2>3, <2>4, <4>1, <4>4, InterleavedIsFair
    <3>2. CASE ~PreferIPv6
      <4>1. o = Interleaved(Selected(found, V), Selected(found, W))
        BY <2>2, <2>5, <3>2
      <4>2. \A i \in DOMAIN found : i \in V => \E j \in DOMAIN found : j \in V /\ o[1] = found[j]
        BY <2>3, <2>4, <4>1, InterleavedIsFair
      <4>3. \A i \in DOMAIN found : IsV4(found[i]) => IsV4(o[1])
        BY <2>4, <4>2
      <4>4. \A i \in DOMAIN found : IsV4(found[i]) # PreferIPv6 => IsV4(o[1]) # PreferIPv6
        BY <3>2, <4>3 DEF IsV4
      <4> QED
        BY <2>3, <2>4, <4>1, <4>4, InterleavedIsFair
    <3> QED
      BY <3>1, <3>2
  <2>7. answer'[Caller].addresses = found
    BY <2>1, <2>2
  <2>8. (\E x \in AddressesOf(found) : IsV4(x) # PreferIPv6) => IsV4(o[1]) # PreferIPv6
    BY <2>6 DEF AddressesOf
  <2>9. OrderIsFair'
    BY <2>5, <2>6, <2>7, <2>8 DEF OrderIsFair, OneFamily
  <2> QED
    BY <2>2, <2>9 DEF OrderInv
<1>2. CASE ~Trying'
  BY <1>2 DEF OrderInv, OrderIsFair
<1>3. CASE /\ Trying' => Trying
           /\ order' = order
           /\ pc'[Caller] = pc[Caller] /\ answer'[Caller] = answer[Caller]
  <2>1. Trying' => OrderIsFair /\ Trying
    BY <1>3 DEF OrderInv
  <2>2. OrderIsFair'
    BY <1>3, <2>1 DEF OrderIsFair, OneFamily
  <2> QED
    BY <1>3, <2>2 DEF OrderInv
<1>4. CASE ResolverStep
  <2>1. phase' = phase /\ order' = order
    BY <1>4 DEF ResolverStep, connectVars
  <2>2. ASSUME Trying
        PROVE  pc'[Caller] = pc[Caller] /\ answer'[Caller] = answer[Caller]
    <3>1. pc[Caller] = "idle"
      BY <2>2 DEF OrderInv
    <3>2. \A t \in Threads : Resolving(t) => t # Caller
      BY <3>1 DEF Resolving, ReadMisses, WriteMisses, Answered, QueryFails, Filter, Filtered,
                  Store
    <3>3. Caller \in Threads /\ DOMAIN pc = Threads /\ DOMAIN answer = Threads
      BY CallerAssumption DEF AnswerInv, CallerAssumption
    <3>4. ASSUME NEW t \in Threads, t # Caller,
                 Resolving(t) \/ \E h \in Hosts : Hit(t, h) \/ Miss(t, h)
          PROVE  pc'[Caller] = pc[Caller] /\ answer'[Caller] = answer[Caller]
      BY <3>3, <3>4 DEF Resolving, ReadMisses, WriteMisses, Answered, QueryFails, Filter,
                        Filtered, Store, Hit, Miss, Calls, Goto
    <3>5. CASE ClearCache \/ Reconfigured \/ Tick
      BY <3>5 DEF ClearCache, Reconfigured, Tick, UpdateConfig
    <3> QED
      BY <1>4, <3>2, <3>4, <3>5 DEF ResolverStep
  <2> QED
    BY <1>2, <1>3, <2>1, <2>2
<1>5. CASE \E h \in Targets : StartConnect(h)
  <2>1. ~Trying'
    BY <1>5 DEF StartConnect
  <2> QED
    BY <1>2, <2>1
<1>6. CASE \/ Unresolved \/ Open \/ CannotOpen \/ Succeed \/ Fail \/ Discard
           \/ Exhausted \/ Deliver \/ SocketStep \/ UNCHANGED vars
  <2>1. ~Trying' \/ (Trying /\ order' = order /\ pc' = pc /\ answer' = answer)
    BY <1>6 DEF Unresolved, Open, CannotOpen, Succeed, Fail, Discard, Exhausted, Deliver,
                Return, SocketStep, vars, resolverVars, connectVars
  <2> QED
    BY <1>2, <1>3, <2>1
<1> QED
  BY <1>1, <1>4, <1>5, <1>6 DEF Next, Connecting

(* Whatever the resolver answers, and whatever the other threads do to it  *)
(* meanwhile: the order that connect() computes has each address once, the *)
(* preferred family first, and the families in turn for as long as both    *)
(* have addresses. What it tries is another matter: see TriesInOrder.      *)
THEOREM OrderStaysFair == Spec => []OrderIsFair
<1>1. Init => OrderInv
  BY DEF Init, OrderInv, OrderIsFair
<1>2. AnswerInv /\ OrderInv /\ [Next]_vars => OrderInv'
  BY OrderInductive
<1>3. OrderInv => OrderIsFair
  BY DEF OrderInv
<1>4. Spec => []AnswerInv
  BY ResolverIsImplemented, AnswerInvariant, PTL
<1> QED
  BY <1>1, <1>2, <1>3, <1>4, PTL DEF Spec
=============================================================================
