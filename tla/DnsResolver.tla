---------------------------- MODULE DnsResolver -----------------------------
(***************************************************************************)
(* vynx_http::dns_resolver: resolve() by several threads over one cache,   *)
(* while its configuration changes. The mutex covers the lookup and the    *)
(* store, not getaddrinfo between them, not the counter of misses and not  *)
(* the configuration.                                                      *)
(*                                                                         *)
(* An address is a family, its bytes and, in IPv6, a scope. Its port, that *)
(* of dns_config at the query, or of the present one if it comes from the  *)
(* cache, is left out: connect() does not use it. The age of an entry is   *)
(* counted up to the longest ttl, in ticks. resolve_record() changes no    *)
(* state and is left out.                                                  *)
(***************************************************************************)
EXTENDS Integers, FiniteSets, Sequences, Selection

CONSTANTS
  Hosts,            \* the names that are resolved
  Threads,          \* the threads that call the resolver
  Zone,             \* the addresses of a host, as getaddrinfo orders them
  CacheSizes,       \* the values of dns_config::max_cache_size
  Ttls,             \* and those of dns_config::cache_ttl
  MaxCalls          \* bound: calls of resolve()

ASSUME ResolverAssumption ==
  /\ CacheSizes \subseteq Nat
  /\ Ttls \subseteq Nat
  /\ MaxCalls \in Nat

\* Addresses of other families are passed over.
Addresses ==
  [family : {"v4"}, bytes : Nat, scope : {0}] \union [family : {"v6"}, bytes : Nat, scope : Nat]

ASSUME ZoneAssumption == \A h \in Hosts : Zone[h] \in Seq(Addresses)

VARIABLES
  cache,            \* cache_: records, ttl and age of the hosts in it
  hits, misses, expired,  \* the counters of the cache
  maxSize, ttl, ipv6,  \* config_: max_cache_size, cache_ttl and enable_ipv6
  largest,          \* history: the largest max_cache_size so far
  pc,               \* where each thread is
  host,             \* the argument of its call
  count,            \* the value of misses it has read
  list,             \* what is left of getaddrinfo's addresses
  answer,           \* its addresses so far, and whether it has succeeded
  calls             \* history: calls of resolve()

stats == <<hits, misses, expired>>
config == <<maxSize, ttl, ipv6, largest>>
resolverVars == <<cache, stats, config, pc, host, count, list, answer, calls>>

cached == DOMAIN cache

Found(s) == [ok |-> TRUE, addresses |-> s]
Failed == [ok |-> FALSE, addresses |-> <<>>]

ResolverInit ==
  /\ cache = <<>>
  /\ hits = 0
  /\ misses = 0
  /\ expired = 0
  /\ maxSize \in CacheSizes
  /\ ttl \in Ttls
  /\ ipv6 = TRUE
  /\ largest = maxSize
  /\ pc = [t \in Threads |-> "idle"]
  /\ host = [t \in Threads |-> CHOOSE h \in Hosts : TRUE]
  /\ count = [t \in Threads |-> 0]
  /\ list = [t \in Threads |-> <<>>]
  /\ answer = [t \in Threads |-> Failed]
  /\ calls = 0

Goto(t, l) == pc' = [pc EXCEPT ![t] = l]

IsCacheValid(h) == cache[h].age < cache[h].ttl

IsV4(a) == a.family = "v4"

(* A record keeps the family and the bytes of an address: the address that *)
(* is made of it has no scope.                                             *)
Record(a) == [type |-> IF IsV4(a) THEN "a" ELSE "aaaa", bytes |-> a.bytes]
Address(r) ==
  [family |-> IF r.type = "a" THEN "v4" ELSE "v6", bytes |-> r.bytes, scope |-> 0]

FromCache(h) == [i \in DOMAIN cache[h].records |-> Address(cache[h].records[i])]

-----------------------------------------------------------------------------
\* resolve(), and resolve_async(), which calls it.

Calls(t, h) ==
  /\ pc[t] = "idle"
  /\ calls < MaxCalls
  /\ calls' = calls + 1
  /\ host' = [host EXCEPT ![t] = h]

\* Fault: every lookup counts as a miss.
Hit_CountsMiss(t, h) ==
  /\ Calls(t, h)
  /\ h \in cached
  /\ IsCacheValid(h)
  /\ hits' = hits + 1
  /\ misses' = misses + 1
  /\ answer' = [answer EXCEPT ![t] = Found(FromCache(h))]
  /\ UNCHANGED <<cache, expired, config, pc, count, list>>

\* Fault: the families are chosen when the answer is read from the cache.
Hit_Filters(t, h) ==
  /\ Calls(t, h)
  /\ h \in cached
  /\ IsCacheValid(h)
  /\ hits' = hits + 1
  /\ answer' = [answer EXCEPT ![t] =
       LET s == FromCache(h)
       IN  Found(Selected(s, {i \in DOMAIN s : IsV4(s[i]) \/ ipv6}))]
  /\ UNCHANGED <<cache, misses, expired, config, pc, count, list>>

(* The lookup, under the mutex: a valid entry is the answer, an expired    *)
(* one is erased.                                                          *)
Hit(t, h) ==
  /\ Calls(t, h)
  /\ h \in cached
  /\ IsCacheValid(h)
  /\ hits' = hits + 1
  /\ answer' = [answer EXCEPT ![t] = Found(FromCache(h))]
  /\ UNCHANGED <<cache, misses, expired, config, pc, count, list>>

Miss(t, h) ==
  /\ Calls(t, h)
  /\ h \in cached => ~IsCacheValid(h)
  /\ cache' = [k \in cached \ {h} |-> cache[k]]
  /\ expired' = IF h \in cached THEN expired + 1 ELSE expired
  /\ answer' = [answer EXCEPT ![t] = Failed]
  /\ Goto(t, "miss")
  /\ UNCHANGED <<hits, misses, config, count, list>>

(* cache_misses_++ without the mutex: another thread may come between the  *)
(* read and the write.                                                     *)
ReadMisses(t) ==
  /\ pc[t] = "miss"
  /\ count' = [count EXCEPT ![t] = misses]
  /\ Goto(t, "count")
  /\ UNCHANGED <<cache, stats, config, host, list, answer, calls>>

WriteMisses(t) ==
  /\ pc[t] = "count"
  /\ misses' = count[t] + 1
  /\ count' = [count EXCEPT ![t] = 0]
  /\ Goto(t, "query")
  /\ UNCHANGED <<cache, hits, expired, config, host, list, answer, calls>>

(* resolve_addresses: getaddrinfo gives an error, or addresses. *)
QueryFails(t) ==
  /\ pc[t] = "query"
  /\ Goto(t, "idle")
  /\ UNCHANGED <<cache, stats, config, host, count, list, answer, calls>>

Answered(t) ==
  /\ pc[t] = "query"
  /\ list' = [list EXCEPT ![t] = Zone[host[t]]]
  /\ Goto(t, "filter")
  /\ UNCHANGED <<cache, stats, config, host, count, answer, calls>>

(* One address after the other is taken over, or passed over as an IPv6    *)
(* one; the configuration is read for each.                                *)
Filter(t) ==
  /\ pc[t] = "filter"
  /\ list[t] # <<>>
  /\ list' = [list EXCEPT ![t] = Tail(@)]
  /\ answer' = IF IsV4(Head(list[t])) \/ ipv6
                 THEN [answer EXCEPT ![t].addresses = Append(@, Head(list[t]))]
                 ELSE answer
  /\ UNCHANGED <<cache, stats, config, pc, host, count, calls>>

\* With no address left, the call fails.
Filtered(t) ==
  /\ pc[t] = "filter"
  /\ list[t] = <<>>
  /\ IF answer[t].addresses = <<>>
       THEN Goto(t, "idle") /\ UNCHANGED answer
       ELSE Goto(t, "store") /\ answer' = [answer EXCEPT ![t].ok = TRUE]
  /\ UNCHANGED <<cache, stats, config, host, count, list, calls>>

\* Fault: nothing is evicted.
Evicted_Nothing == {{}}

(* evict_oldest_if_needed: what may go, as the set of its possible results.*)
Oldest == {h \in cached : \A k \in cached : cache[k].age <= cache[h].age}
Evicted == IF Cardinality(cached) <= maxSize THEN {{}} ELSE {{h} : h \in Oldest}

EntryOf(s) == [records |-> [i \in DOMAIN s |-> Record(s[i])], ttl |-> ttl, age |-> 0]

(* The store, under the mutex: an entry is evicted if there are too many,  *)
(* and then that of the host is written, whatever it holds by now.         *)
Store(t) ==
  /\ pc[t] = "store"
  /\ \E E \in Evicted :
       cache' = [h \in (cached \ E) \union {host[t]} |->
                   IF h = host[t] THEN EntryOf(answer[t].addresses) ELSE cache[h]]
  /\ Goto(t, "idle")
  /\ UNCHANGED <<stats, config, host, count, list, answer, calls>>

-----------------------------------------------------------------------------
\* The other operations.

(* clear_cache() *)
ClearCache ==
  /\ cache' = <<>>
  /\ UNCHANGED <<stats, config, pc, host, count, list, answer, calls>>

(* update_config(), without the mutex: each member is read on its own, so  *)
(* that an update seen by halves is two updates.                           *)
UpdateConfig(m, u, b) ==
  /\ maxSize' = m
  /\ ttl' = u
  /\ ipv6' = b
  /\ largest' = IF m > largest THEN m ELSE largest
  /\ UNCHANGED <<cache, stats, pc, host, count, list, answer, calls>>

Tick ==
  /\ cache' = [h \in cached |->
                 [cache[h] EXCEPT !.age = IF \E u \in Ttls : @ < u THEN @ + 1 ELSE @]]
  /\ UNCHANGED <<stats, config, pc, host, count, list, answer, calls>>

-----------------------------------------------------------------------------

Resolving(t) ==
  \/ ReadMisses(t) \/ WriteMisses(t)
  \/ QueryFails(t) \/ Answered(t) \/ Filter(t) \/ Filtered(t)
  \/ Store(t)

Reconfigured == \E m \in CacheSizes, u \in Ttls, b \in BOOLEAN : UpdateConfig(m, u, b)

ResolverNext ==
  \/ \E t \in Threads, h \in Hosts : Hit(t, h) \/ Miss(t, h)
  \/ \E t \in Threads : Resolving(t)
  \/ ClearCache
  \/ Reconfigured
  \/ Tick

ResolverSpec == ResolverInit /\ [][ResolverNext]_resolverVars

-----------------------------------------------------------------------------
\* Properties.

(* The cache never holds more than one entry beyond the largest            *)
(* max_cache_size it was given, though several threads look up before the  *)
(* first of them stores, and though update_config() may lower it: each     *)
(* evicts one under the same lock as it inserts one.                       *)
CacheBounded == Cardinality(cached) <= largest + 1

\* Threads that have missed and not yet counted it.
Pending == {t \in Threads : pc[t] \in {"miss", "count"}}

(* The statistics never count a call twice, whatever increments of the     *)
(* misses get in each other's way: hits and misses are at most the calls   *)
(* that are through with their lookup.                                     *)
NeverOvercounted == hits + misses + Cardinality(Pending) <= calls

AddressesOf(s) == {s[i] : i \in DOMAIN s}

(* A call that succeeds has addresses, all of them its own host's up to    *)
(* the scope, which those from the cache have lost, and every IPv4 address *)
(* of it, whoever queried them and however often the configuration changed *)
(* since and in the middle of the query.                                   *)
AnswersAreTheHosts ==
  \A t \in Threads : answer[t].ok =>
    LET A == AddressesOf(answer[t].addresses)
        Z == AddressesOf(Zone[host[t]])
    IN  /\ A # {}
        /\ A \subseteq Z \union {[a EXCEPT !.scope = 0] : a \in Z}
        /\ {a \in Z : IsV4(a)} \subseteq A

-----------------------------------------------------------------------------
\* What the documentation says and the code does not keep.

(* The cache keeps to dns_config::max_cache_size (dns_resolver.h).         *)
CacheWithinMax == Cardinality(cached) <= maxSize

(* "Resolve a hostname" (dns_resolver.h): the addresses are those of the   *)
(* host, from the cache as well. A link-local one comes without its scope. *)
ScopesAreKept ==
  \A t \in Threads : answer[t].ok =>
    AddressesOf(answer[t].addresses) \subseteq AddressesOf(Zone[host[t]])

(* The statistics of the cache (dns_resolver.h: "Get cache statistics")    *)
(* account for every call that is through with its lookup.                 *)
CallsAreCounted == calls = hits + misses + Cardinality(Pending)
=============================================================================
