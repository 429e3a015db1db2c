------------------------------ MODULE LeafStore ------------------------------
(***************************************************************************)
(* ca.Store: per-host leaf certificates signed on demand and kept in a     *)
(* bounded LRU (internal/ca/store.go).  Handshakes call LeafFor            *)
(* concurrently.  cacheGet and cachePut each hold the mutex, so each is    *)
(* one step; signing happens between them without it.                      *)
(***************************************************************************)
EXTENDS Integers, Sequences, Functions

CONSTANTS
    Threads,            \* goroutines that may call LeafFor
    Names,              \* host names as clients spell them
    Keys,               \* normalised host names
    normalizeHost(_),   \* lower case, port stripped
    Capacity,           \* cacheSize given to NewStore; <= 0 disables caching
    MaxCerts            \* bound on the certificates signed

ASSUME StoreAssumption ==
    /\ Capacity \in Int
    /\ MaxCerts \in Nat
    /\ Names # {}
    /\ \A name \in Names : normalizeHost(name) \in Keys

VARIABLES
    items,      \* host -> certificate in the cache
    order,      \* hosts in the cache, most recently used first
    pc,         \* per thread: "idle", "get", "sign", "put", "return"
    host,       \* per thread: the host argument of LeafFor
    cert,       \* per thread: the certificate LeafFor has in hand
    signed,     \* number of certificates signed so far
    used        \* history: all hosts served, most recently used first

vars == <<items, order, pc, host, cert, signed, used>>

Cert == [host : Keys, serial : Nat]

\* signLeaf failed: LeafFor returns nil and an error.
NoCert == [host |-> "none", serial |-> 0]

\* Value of host[t] while t is in no call.
AnyName == CHOOSE name \in Names : TRUE

Key(t) == normalizeHost(host[t])

Init ==
    /\ items = [k \in {} |-> NoCert]
    /\ order = <<>>
    /\ pc = [t \in Threads |-> "idle"]
    /\ host = [t \in Threads |-> AnyName]
    /\ cert = [t \in Threads |-> NoCert]
    /\ signed = 0
    /\ used = <<>>

-----------------------------------------------------------------------------
\* container/list: s without its element k, and MoveToFront or PushFront of k.
Without(s, k) ==
    IF k \in Range(s)
    THEN LET p == CHOOSE q \in DOMAIN s : s[q] = k
         IN  [q \in 1..(Len(s) - 1) |-> IF q < p THEN s[q] ELSE s[q + 1]]
    ELSE s

MutToFront(s, k) == IF k \in Range(s) THEN s ELSE <<k>> \o s
ToFront(s, k) == <<k>> \o Without(s, k)

\* The eviction loop at the end of cachePut.
Evict(s) == IF Len(s) > Capacity THEN SubSeq(s, 1, Capacity) ELSE s

LeafFor(t, name) ==
    /\ pc[t] = "idle"
    /\ pc' = [pc EXCEPT ![t] = "get"]
    /\ host' = [host EXCEPT ![t] = name]
    /\ UNCHANGED <<items, order, cert, signed, used>>

\* A mutant: the certificate of the list's old front.
MutCacheHit(t) ==
    /\ pc[t] = "get"
    /\ Capacity > 0
    /\ Key(t) \in DOMAIN items
    /\ order' = ToFront(order, Key(t))
    /\ used' = ToFront(used, Key(t))
    /\ cert' = [cert EXCEPT ![t] = items[Head(order)]]
    /\ pc' = [pc EXCEPT ![t] = "return"]
    /\ UNCHANGED <<items, host, signed>>

CacheHit(t) ==
    /\ pc[t] = "get"
    /\ Capacity > 0
    /\ Key(t) \in DOMAIN items
    /\ order' = ToFront(order, Key(t))
    /\ used' = ToFront(used, Key(t))
    /\ cert' = [cert EXCEPT ![t] = items[Key(t)]]
    /\ pc' = [pc EXCEPT ![t] = "return"]
    /\ UNCHANGED <<items, host, signed>>

CacheMiss(t) ==
    /\ pc[t] = "get"
    /\ Capacity <= 0 \/ Key(t) \notin DOMAIN items
    /\ pc' = [pc EXCEPT ![t] = "sign"]
    /\ UNCHANGED <<items, order, host, cert, signed, used>>

SignLeaf(t) ==
    /\ pc[t] = "sign"
    /\ signed < MaxCerts
    /\ signed' = signed + 1
    /\ cert' = [cert EXCEPT ![t] = [host |-> Key(t), serial |-> signed + 1]]
    /\ pc' = [pc EXCEPT ![t] = "put"]
    /\ UNCHANGED <<items, order, host, used>>

\* A mutant: the error of signLeaf is not returned before cachePut.
MutSignFails(t) ==
    /\ pc[t] = "sign"
    /\ cert' = [cert EXCEPT ![t] = NoCert]
    /\ pc' = [pc EXCEPT ![t] = "put"]
    /\ UNCHANGED <<items, order, host, signed, used>>

SignFails(t) ==
    /\ pc[t] = "sign"
    /\ cert' = [cert EXCEPT ![t] = NoCert]
    /\ pc' = [pc EXCEPT ![t] = "return"]
    /\ UNCHANGED <<items, order, host, signed, used>>

\* The map after cachePut: the new certificate in, the evicted hosts out.
MutPutItems(k, c) == [h \in DOMAIN items \cup {k} |-> IF h = k THEN c ELSE items[h]]
PutItems(k, c) ==
    [h \in Range(Evict(ToFront(order, k))) |-> IF h = k THEN c ELSE items[h]]

CachePut(t) ==
    /\ pc[t] = "put"
    /\ IF Capacity <= 0
       THEN UNCHANGED <<items, order, used>>
       ELSE /\ order' = IF Key(t) \in DOMAIN items
                        THEN ToFront(order, Key(t)) ELSE Evict(ToFront(order, Key(t)))
            /\ items' = IF Key(t) \in DOMAIN items
                        THEN [items EXCEPT ![Key(t)] = cert[t]] ELSE PutItems(Key(t), cert[t])
            /\ used' = ToFront(used, Key(t))
    /\ pc' = [pc EXCEPT ![t] = "return"]
    /\ UNCHANGED <<host, cert, signed>>

Return(t) ==
    /\ pc[t] = "return"
    /\ pc' = [pc EXCEPT ![t] = "idle"]
    /\ host' = [host EXCEPT ![t] = AnyName]
    /\ cert' = [cert EXCEPT ![t] = NoCert]
    /\ UNCHANGED <<items, order, signed, used>>

Call(t) == CacheHit(t) \/ CacheMiss(t) \/ SignLeaf(t) \/ SignFails(t) \/ CachePut(t) \/ Return(t)

Next == \E t \in Threads : (\E name \in Names : LeafFor(t, name)) \/ Call(t)

Spec == Init /\ [][Next]_vars

-----------------------------------------------------------------------------
TypeOK ==
    /\ order \in Seq(Keys)
    /\ DOMAIN items \subseteq Keys
    /\ \A k \in DOMAIN items : items[k] \in Cert
    /\ pc \in [Threads -> {"idle", "get", "sign", "put", "return"}]
    /\ host \in [Threads -> Names]
    /\ cert \in [Threads -> Cert \cup {NoCert}]
    /\ signed \in Nat
    /\ used \in Seq(Keys)

(* The map and the list of the cache never disagree, however calls         *)
(* interleave: same hosts, each once, and no more of them than Capacity.   *)
StoreConsistent ==
    /\ Range(order) = DOMAIN items
    /\ \A p, q \in DOMAIN order : order[p] = order[q] => p = q
    /\ Capacity > 0 => Len(order) <= Capacity
    /\ Capacity <= 0 => order = <<>>

(* A call gets a certificate for the host it asked for, even when another  *)
(* call for that host signed, replaced or evicted the entry meanwhile.     *)
RightHost ==
    \A t \in Threads : pc[t] = "return" /\ cert[t] # NoCert => cert[t].host = Key(t)

(* The cache holds exactly the most recently used hosts: eviction drops    *)
(* the least recently used one and a hit protects its host.                *)
KeepsMostRecent ==
    Capacity > 0 =>
        order = SubSeq(used, 1, IF Len(used) < Capacity THEN Len(used) ELSE Capacity)
=============================================================================
