--------------------------- MODULE LeafStoreProofs ---------------------------
(***************************************************************************)
(* What ca.Store guarantees for any number of concurrent handshakes, any   *)
(* set of hosts, any normalisation and any cache size.                     *)
(***************************************************************************)
EXTENDS LeafStore, TLAPS

NoDuplicates(s) == \A p, q \in DOMAIN s : s[p] = s[q] => p = q

(* The hosts an LRU of size Capacity keeps of a list.                      *)
Top(s) == SubSeq(s, 1, IF Len(s) < Capacity THEN Len(s) ELSE Capacity)

(* The map and the calls under way hold certificates for the host they     *)
(* are filed, or were signed, under.                                       *)
Filed ==
    /\ items \in [DOMAIN items -> Cert]
    /\ \A k \in DOMAIN items : items[k].host = k
    /\ \A t \in Threads : pc[t] = "put" => cert[t] \in Cert /\ cert[t].host = Key(t)

IInv ==
    /\ TypeOK
    /\ StoreConsistent
    /\ Filed
    /\ RightHost
    /\ NoDuplicates(used)
    /\ KeepsMostRecent

-----------------------------------------------------------------------------
(***************************************************************************)
(* The list operations                                                     *)
(***************************************************************************)
(* Remove leaves the other elements in their order: what stood behind the  *)
(* removed one moves up by one.                                            *)
LEMMA WithoutAt ==
    ASSUME NEW S, NEW s \in Seq(S), NoDuplicates(s), NEW p \in 1..Len(s)
    PROVE  Without(s, s[p]) = [q \in 1..(Len(s) - 1) |-> IF q < p THEN s[q] ELSE s[q + 1]]
<1>1. s[p] \in Range(s)
      BY DEF Range
<1>2. (CHOOSE q \in DOMAIN s : s[q] = s[p]) = p
      BY DEF NoDuplicates
<1> QED
      BY <1>1, <1>2 DEF Without

LEMMA WithoutAbsent ==
    ASSUME NEW s, NEW k, k \notin Range(s)
    PROVE  Without(s, k) = s
BY DEF Without

(* MoveToFront and PushFront, element by element.                          *)
LEMMA ToFrontAt ==
    ASSUME NEW S, NEW s \in Seq(S), NoDuplicates(s), NEW p \in 1..Len(s)
    PROVE  /\ ToFront(s, s[p]) \in Seq(S)
           /\ Len(ToFront(s, s[p])) = Len(s)
           /\ ToFront(s, s[p])[1] = s[p]
           /\ \A q \in 2..Len(s) : ToFront(s, s[p])[q] = IF q - 1 < p THEN s[q - 1] ELSE s[q]
<1> DEFINE w == [q \in 1..(Len(s) - 1) |-> IF q < p THEN s[q] ELSE s[q + 1]]
<1>1. ToFront(s, s[p]) = <<s[p]>> \o w
      BY WithoutAt DEF ToFront
<1>2. Len(s) \in Nat /\ Len(s) - 1 \in Nat /\ s[p] \in S
      OBVIOUS
<1>3. w \in Seq(S) /\ Len(w) = Len(s) - 1
  <2>1. \A q \in 1..(Len(s) - 1) : w[q] \in S
        BY <1>2
  <2> QED
        BY <1>2, <2>1
<1>4. \A q \in 2..Len(s) : w[q - 1] = IF q - 1 < p THEN s[q - 1] ELSE s[q]
  <2> TAKE q \in 2..Len(s)
  <2>1. q - 1 \in 1..(Len(s) - 1) /\ (q - 1) + 1 = q
        BY <1>2
  <2> QED
        BY <2>1
<1> HIDE DEF w
<1> QED
      BY <1>1, <1>2, <1>3, <1>4

LEMMA ToFrontNew ==
    ASSUME NEW S, NEW s \in Seq(S), NEW k \in S, k \notin Range(s)
    PROVE  /\ ToFront(s, k) \in Seq(S)
           /\ Len(ToFront(s, k)) = Len(s) + 1
           /\ ToFront(s, k)[1] = k
           /\ \A q \in 2..(Len(s) + 1) : ToFront(s, k)[q] = s[q - 1]
BY WithoutAbsent DEF ToFront

(* Both keep the list free of duplicates and add k to it.                  *)
LEMMA ToFrontKeeps ==
    ASSUME NEW S, NEW s \in Seq(S), NoDuplicates(s), NEW k \in S
    PROVE  /\ ToFront(s, k) \in Seq(S)
           /\ NoDuplicates(ToFront(s, k))
           /\ Range(ToFront(s, k)) = Range(s) \cup {k}
<1> DEFINE f == ToFront(s, k)
<1>1. CASE k \in Range(s)
  <2>1. PICK p \in 1..Len(s) : k = s[p]
        BY <1>1 DEF Range
  <2>2. /\ f \in Seq(S) /\ Len(f) = Len(s) /\ f[1] = s[p]
        /\ \A q \in 2..Len(s) : f[q] = IF q - 1 < p THEN s[q - 1] ELSE s[q]
        BY <2>1, ToFrontAt
  <2> HIDE DEF f
  <2> DEFINE old(q) == IF q = 1 THEN p ELSE IF q - 1 < p THEN q - 1 ELSE q
             new(q) == IF q = p THEN 1 ELSE IF q < p THEN q + 1 ELSE q
  <2>3. \A q \in 1..Len(s) : old(q) \in 1..Len(s) /\ f[q] = s[old(q)] /\ new(old(q)) = q
        BY <2>2
  <2>4. \A q \in 1..Len(s) : new(q) \in 1..Len(s) /\ old(new(q)) = q
        OBVIOUS
  <2> HIDE DEF old, new
  <2>5. NoDuplicates(f)
        BY SMTT(30), <2>2, <2>3 DEF NoDuplicates
  <2>6. Range(f) = Range(s)
    <3>1. DOMAIN f = 1..Len(s) /\ DOMAIN s = 1..Len(s)
          BY <2>2
    <3>2. \A q \in 1..Len(s) : \E x \in 1..Len(s) : f[q] = s[x]
          BY <2>3
    <3>3. \A q \in 1..Len(s) : \E x \in 1..Len(s) : s[q] = f[x]
          BY <2>3, <2>4
    <3>4. Range(f) \subseteq Range(s)
          BY <3>1, <3>2 DEF Range
    <3>5. Range(s) \subseteq Range(f)
          BY SMTT(30), <3>1, <3>3 DEF Range
    <3> QED
          BY <3>4, <3>5
  <2> QED
        BY <1>1, <2>2, <2>5, <2>6 DEF f
<1>2. CASE k \notin Range(s)
  <2>1. /\ f \in Seq(S) /\ Len(f) = Len(s) + 1 /\ f[1] = k
        /\ \A q \in 2..(Len(s) + 1) : f[q] = s[q - 1]
        BY <1>2, ToFrontNew
  <2> HIDE DEF f
  <2>2. DOMAIN f = 1..(Len(s) + 1) /\ DOMAIN s = 1..Len(s) /\ Len(s) \in Nat
        BY <2>1
  <2>3. \A q \in 2..(Len(s) + 1) : q - 1 \in 1..Len(s) /\ f[q] = s[q - 1] /\ f[q] # k
        BY <1>2, <2>1, <2>2 DEF Range
  <2>4. NoDuplicates(f)
    <3> SUFFICES ASSUME NEW q \in 1..(Len(s) + 1), NEW x \in 1..(Len(s) + 1), f[q] = f[x]
                 PROVE  q = x
        BY <2>2 DEF NoDuplicates
    <3>1. CASE q = 1 \/ x = 1
          BY <2>1, <2>2, <2>3, <3>1
    <3>2. CASE q # 1 /\ x # 1
      <4>1. q \in 2..(Len(s) + 1) /\ x \in 2..(Len(s) + 1)
            BY <2>2, <3>2
      <4>2. q - 1 \in 1..Len(s) /\ x - 1 \in 1..Len(s) /\ s[q - 1] = s[x - 1]
            BY <4>1, <2>3
      <4>3. q - 1 = x - 1
            BY <2>2, <4>2 DEF NoDuplicates
      <4> QED
            BY <2>2, <4>3
    <3> QED
          BY <3>1, <3>2
  <2>5. Range(f) = Range(s) \cup {k}
    <3>1. \A q \in 1..Len(s) : q + 1 \in 2..(Len(s) + 1) /\ f[q + 1] = s[q]
          BY <2>2, <2>1
    <3>2. 1 \in DOMAIN f /\ f[1] = k
          BY <2>1, <2>2
    <3>3. \A q \in DOMAIN f : q = 1 \/ q \in 2..(Len(s) + 1)
          BY <2>2
    <3>4. Range(f) \subseteq Range(s) \cup {k}
          BY ZenonT(30), <2>2, <2>3, <3>2, <3>3 DEF Range
    <3>5. Range(s) \cup {k} \subseteq Range(f)
          BY <2>2, <3>1, <3>2 DEF Range
    <3> QED
          BY <3>4, <3>5
  <2> QED
        BY <2>1, <2>4, <2>5 DEF f
<1> QED
      BY <1>1, <1>2

(* Evict keeps the first Capacity elements.                                *)
LEMMA TopIs ==
    ASSUME NEW S, NEW s \in Seq(S), Capacity > 0
    PROVE  /\ Top(s) \in Seq(S)
           /\ Len(Top(s)) = IF Len(s) < Capacity THEN Len(s) ELSE Capacity
           /\ \A q \in 1..Len(Top(s)) : q \in 1..Len(s) /\ Top(s)[q] = s[q]
           /\ Evict(s) = Top(s)
<1> USE StoreAssumption
<1>1. CASE Len(s) < Capacity
  <2>1. Top(s) = s
        BY <1>1 DEF Top
  <2> QED
        BY <1>1, <2>1 DEF Evict
<1>2. CASE Len(s) >= Capacity
  <2>1. Top(s) = SubSeq(s, 1, Capacity) /\ Capacity \in 1..Len(s)
        BY <1>2 DEF Top
  <2>2. SubSeq(s, 1, Capacity) \in Seq(S) /\ Len(SubSeq(s, 1, Capacity)) = Capacity
        BY <2>1
  <2>3. \A q \in 1..Capacity : SubSeq(s, 1, Capacity)[q] = s[q]
        BY <2>1
  <2>4. Len(s) = Capacity => SubSeq(s, 1, Capacity) = s
        BY <2>1
  <2> QED
        BY <1>2, <2>1, <2>2, <2>3, <2>4 DEF Evict
<1> QED
      BY <1>1, <1>2

LEMMA TopKeeps ==
    ASSUME NEW S, NEW s \in Seq(S), Capacity > 0, NoDuplicates(s)
    PROVE  NoDuplicates(Top(s)) /\ Range(Top(s)) \subseteq Range(s)
<1> DEFINE u == Top(s)
<1>1. u \in Seq(S) /\ \A q \in 1..Len(u) : q \in 1..Len(s) /\ u[q] = s[q]
      BY TopIs
<1> HIDE DEF u
<1>2. DOMAIN u = 1..Len(u) /\ DOMAIN s = 1..Len(s)
      BY <1>1
<1>3. NoDuplicates(u) /\ Range(u) \subseteq Range(s)
      BY <1>1, <1>2 DEF NoDuplicates, Range
<1> QED
      BY <1>3 DEF u

(* A hit on a host that the cache keeps: the front of the whole history    *)
(* moves in the cache as it does in the history.                           *)
LEMMA HitMovesTop ==
    ASSUME NEW S, NEW s \in Seq(S), Capacity > 0, NoDuplicates(s),
           NEW k, k \in Range(Top(s))
    PROVE  ToFront(Top(s), k) = Top(ToFront(s, k))
<1> USE StoreAssumption
<1> DEFINE u == Top(s)
<1>1. /\ u \in Seq(S) /\ Len(u) = IF Len(s) < Capacity THEN Len(s) ELSE Capacity
      /\ \A q \in 1..Len(u) : q \in 1..Len(s) /\ u[q] = s[q]
      /\ NoDuplicates(u)
      BY TopIs, TopKeeps
<1>2. PICK p \in 1..Len(u) : u[p] = k
      BY <1>1 DEF Range
<1>3. p \in 1..Len(s) /\ s[p] = k
      BY <1>1, <1>2
<1> DEFINE a == ToFront(u, k)
           f == ToFront(s, k)
           b == Top(f)
<1> HIDE DEF u
<1>4. /\ a \in Seq(S) /\ Len(a) = Len(u) /\ a[1] = k
      /\ \A q \in 2..Len(u) : a[q] = IF q - 1 < p THEN u[q - 1] ELSE u[q]
      BY <1>1, <1>2, ToFrontAt
<1>5. /\ f \in Seq(S) /\ Len(f) = Len(s) /\ f[1] = k
      /\ \A q \in 2..Len(s) : f[q] = IF q - 1 < p THEN s[q - 1] ELSE s[q]
      BY <1>3, ToFrontAt
<1> HIDE DEF a, f
<1>6. /\ b \in Seq(S) /\ Len(b) = Len(u)
      /\ \A q \in 1..Len(u) : b[q] = f[q]
      BY <1>1, <1>5, TopIs
<1> HIDE DEF b
<1>7. \A q \in 1..Len(u) : a[q] = b[q]
  <2> TAKE q \in 1..Len(u)
  <2>1. CASE q = 1
        BY <1>4, <1>5, <1>6, <2>1
  <2>2. CASE q # 1
    <3>1. q \in 2..Len(u) /\ q \in 2..Len(s) /\ q - 1 \in 1..Len(u)
          BY <1>1, <2>2
    <3>2. u[q - 1] = s[q - 1] /\ u[q] = s[q]
          BY <1>1, <3>1
    <3> QED
          BY <1>4, <1>5, <1>6, <3>1, <3>2
  <2> QED
        BY <2>1, <2>2
<1>8. a = b
      BY <1>4, <1>6, <1>7
<1> QED
      BY <1>8 DEF a, b, f, u

(* A host that the cache does not keep pushes the least recent one out.    *)
LEMMA MissPushesOut ==
    ASSUME NEW S, NEW s \in Seq(S), Capacity > 0, NoDuplicates(s),
           NEW k \in S, k \notin Range(Top(s))
    PROVE  Evict(ToFront(Top(s), k)) = Top(ToFront(s, k))
<1> USE StoreAssumption
<1> DEFINE u == Top(s)
<1>1. /\ u \in Seq(S) /\ Len(u) = IF Len(s) < Capacity THEN Len(s) ELSE Capacity
      /\ \A q \in 1..Len(u) : q \in 1..Len(s) /\ u[q] = s[q]
      BY TopIs
<1> DEFINE g == ToFront(u, k)
           a == Top(g)
           f == ToFront(s, k)
           b == Top(f)
<1>2. k \notin Range(u)
      OBVIOUS
<1> HIDE DEF u
<1>3. /\ g \in Seq(S) /\ Len(g) = Len(u) + 1 /\ g[1] = k
      /\ \A q \in 2..(Len(u) + 1) : g[q] = u[q - 1]
      BY <1>1, <1>2, ToFrontNew
<1>4. /\ f \in Seq(S) /\ f[1] = k
      /\ Len(f) = Len(s) + 1 \/ (Len(f) = Len(s) /\ Len(s) > Capacity)
      /\ \A q \in 2..(Len(u) + 1) : q <= Capacity => f[q] = s[q - 1]
  <2>1. CASE k \notin Range(s)
        BY <2>1, <1>1, ToFrontNew
  <2>2. CASE k \in Range(s)
    <3>1. PICK p \in 1..Len(s) : s[p] = k
          BY <2>2 DEF Range
    <3>2. p \notin 1..Len(u)
      <4>1. DOMAIN u = 1..Len(u)
            BY <1>1
      <4> QED
            BY <1>1, <1>2, <3>1, <4>1 DEF Range
    <3>3. p > Capacity /\ Len(u) = Capacity
          BY <1>1, <3>2
    <3>4. /\ f \in Seq(S) /\ Len(f) = Len(s) /\ f[1] = k
          /\ \A q \in 2..Len(s) : f[q] = IF q - 1 < p THEN s[q - 1] ELSE s[q]
          BY <3>1, ToFrontAt
    <3> HIDE DEF f
    <3> QED
          BY <3>3, <3>4
  <2> QED
        BY <2>1, <2>2
<1> HIDE DEF g, f
<1>5. /\ a \in Seq(S) /\ Len(a) = IF Len(g) < Capacity THEN Len(g) ELSE Capacity
      /\ \A q \in 1..Len(a) : a[q] = g[q]
      /\ Evict(g) = a
      BY <1>3, TopIs
<1>6. /\ b \in Seq(S) /\ Len(b) = IF Len(f) < Capacity THEN Len(f) ELSE Capacity
      /\ \A q \in 1..Len(b) : b[q] = f[q]
      BY <1>4, TopIs
<1> HIDE DEF a, b
<1>7. Len(a) = Len(b) /\ Len(a) <= Capacity /\ Len(a) <= Len(u) + 1
      BY <1>1, <1>3, <1>4, <1>5, <1>6
<1>8. \A q \in 1..Len(a) : a[q] = b[q]
  <2> TAKE q \in 1..Len(a)
  <2>1. CASE q = 1
        BY <1>3, <1>4, <1>5, <1>6, <1>7, <2>1
  <2>2. CASE q # 1
    <3>1. q \in 2..(Len(u) + 1) /\ q <= Capacity /\ q - 1 \in 1..Len(u) /\ q \in 1..Len(b)
          BY <1>1, <1>5, <1>7, <2>2
    <3> QED
          BY <1>1, <1>3, <1>4, <1>5, <1>6, <3>1
  <2> QED
        BY <2>1, <2>2
<1>9. a = b
      BY SMTT(30), <1>5, <1>6, <1>7, <1>8
<1> QED
      BY <1>5, <1>9 DEF b, f, g, u

-----------------------------------------------------------------------------
(***************************************************************************)
(* The invariant                                                           *)
(***************************************************************************)
LEMMA InitEstablishes == Init => IInv
<1> SUFFICES ASSUME Init PROVE IInv
    OBVIOUS
<1>1. AnyName \in Names
      BY StoreAssumption DEF AnyName
<1>2. TypeOK
      BY <1>1 DEF Init, TypeOK
<1>3. StoreConsistent
      BY StoreAssumption DEF Init, StoreConsistent, Range
<1>4. Filed /\ RightHost /\ NoDuplicates(used)
      BY DEF Init, Filed, RightHost, NoDuplicates
<1>5. KeepsMostRecent
      BY StoreAssumption DEF Init, KeepsMostRecent
<1> QED
      BY <1>2, <1>3, <1>4, <1>5 DEF IInv

LEMMA KeyTyped == TypeOK => \A t \in Threads : Key(t) \in Keys
BY StoreAssumption DEF TypeOK, Key

(* Steps that leave the cache alone.                                       *)
LEMMA StepCall ==
    ASSUME IInv, NEW t \in Threads,
           (\E name \in Names : LeafFor(t, name)) \/ CacheMiss(t) \/ SignLeaf(t) \/ SignFails(t) \/ Return(t)
    PROVE  IInv'
<1>1. items' = items /\ order' = order /\ used' = used
      BY DEF LeafFor, CacheMiss, SignLeaf, SignFails, Return
<1>2. TypeOK'
  <2>1. AnyName \in Names
        BY StoreAssumption DEF AnyName
  <2>2. Key(t) \in Keys
        BY KeyTyped DEF IInv
  <2>3. pc' \in [Threads -> {"idle", "get", "sign", "put", "return"}] /\ signed' \in Nat
        BY DEF LeafFor, CacheMiss, SignLeaf, SignFails, Return, IInv, TypeOK
  <2>4. host' \in [Threads -> Names]
        BY <2>1 DEF LeafFor, CacheMiss, SignLeaf, SignFails, Return, IInv, TypeOK
  <2>5. cert' \in [Threads -> Cert \cup {NoCert}]
        BY <2>2 DEF LeafFor, CacheMiss, SignLeaf, SignFails, Return, IInv, TypeOK, Cert
  <2> QED
        BY <1>1, <2>3, <2>4, <2>5 DEF IInv, TypeOK
<1>3. Filed' /\ RightHost'
  <2>1. ASSUME NEW o \in Threads, o # t
        PROVE  pc'[o] = pc[o] /\ cert'[o] = cert[o] /\ Key(o)' = Key(o)
        BY <2>1 DEF LeafFor, CacheMiss, SignLeaf, SignFails, Return, IInv, TypeOK, Key
  <2>2. pc'[t] = "put" => cert'[t] \in Cert /\ cert'[t].host = Key(t)'
    <3>1. Key(t) \in Keys
          BY KeyTyped DEF IInv
    <3> QED
          BY <3>1 DEF LeafFor, CacheMiss, SignLeaf, SignFails, Return, IInv, TypeOK, Key, Cert
  <2>3. pc'[t] = "return" => cert'[t] = NoCert
        BY DEF LeafFor, CacheMiss, SignLeaf, SignFails, Return, IInv, TypeOK
  <2>4. Filed'
        BY <1>1, <2>1, <2>2 DEF IInv, Filed
  <2>5. RightHost'
        BY <2>1, <2>3 DEF IInv, RightHost
  <2> QED
        BY <2>4, <2>5
<1>4. StoreConsistent' /\ NoDuplicates(used)' /\ KeepsMostRecent'
      BY <1>1 DEF IInv, StoreConsistent, NoDuplicates, KeepsMostRecent
<1> QED
      BY <1>2, <1>3, <1>4 DEF IInv

(* What moving a cached host to the front leaves of the lists.             *)
LEMMA MovedToFront ==
    ASSUME IInv, Capacity > 0, NEW k \in DOMAIN items,
           order' = ToFront(order, k), used' = ToFront(used, k)
    PROVE  /\ order' \in Seq(Keys) /\ used' \in Seq(Keys)
           /\ Range(order)' = DOMAIN items /\ Len(order') <= Capacity
           /\ NoDuplicates(order)' /\ NoDuplicates(used)'
           /\ KeepsMostRecent'
<1>1. /\ k \in Keys /\ order \in Seq(Keys) /\ used \in Seq(Keys)
      /\ NoDuplicates(order) /\ NoDuplicates(used)
      /\ Range(order) = DOMAIN items /\ Len(order) <= Capacity
      /\ order = Top(used)
      BY DEF IInv, TypeOK, StoreConsistent, KeepsMostRecent, Top, NoDuplicates
<1>2. /\ order' \in Seq(Keys) /\ NoDuplicates(order') /\ Range(order') = Range(order) \cup {k}
      BY <1>1, ToFrontKeeps
<1>3. used' \in Seq(Keys) /\ NoDuplicates(used')
      BY <1>1, ToFrontKeeps
<1>4. PICK p \in 1..Len(order) : order[p] = k
      BY <1>1 DEF Range
<1>5. Len(order') = Len(order)
      BY <1>1, <1>4, ToFrontAt
<1>6. order' = Top(used')
      BY <1>1, HitMovesTop
<1> QED
      BY ZenonT(30), <1>1, <1>2, <1>3, <1>5, <1>6 DEF KeepsMostRecent, Top, NoDuplicates

(* A hit.                                                                  *)
LEMMA StepCacheHit == ASSUME IInv, NEW t \in Threads, CacheHit(t) PROVE IInv'
<1> DEFINE k == Key(t)
<1>1. /\ Capacity > 0 /\ k \in DOMAIN items /\ items' = items /\ host' = host /\ signed' = signed
      /\ order' = ToFront(order, k) /\ used' = ToFront(used, k)
      /\ cert' = [cert EXCEPT ![t] = items[k]] /\ pc' = [pc EXCEPT ![t] = "return"]
      BY DEF CacheHit
<1>2. items[k] \in Cert /\ items[k].host = k
      BY <1>1 DEF IInv, Filed
<1>3. /\ order' \in Seq(Keys) /\ used' \in Seq(Keys)
      /\ Range(order)' = DOMAIN items /\ Len(order') <= Capacity
      /\ NoDuplicates(order)' /\ NoDuplicates(used)'
      /\ KeepsMostRecent'
      BY <1>1, MovedToFront
<1>4. TypeOK'
      BY <1>1, <1>2, <1>3 DEF IInv, TypeOK
<1>5. StoreConsistent'
      BY <1>1, <1>3, StoreAssumption DEF StoreConsistent, NoDuplicates
<1>6. Filed' /\ RightHost'
      BY <1>1, <1>2 DEF IInv, TypeOK, Filed, RightHost, Key
<1> QED
      BY <1>3, <1>4, <1>5, <1>6 DEF IInv

(* What cachePut leaves, for a host that another call may have put, moved  *)
(* or evicted since this one missed.                                       *)
LEMMA StepCachePut == ASSUME IInv, NEW t \in Threads, CachePut(t) PROVE IInv'
<1> DEFINE k == Key(t)
           c == cert[t]
<1>1. /\ pc[t] = "put" /\ pc' = [pc EXCEPT ![t] = "return"]
      /\ host' = host /\ cert' = cert /\ signed' = signed
      BY DEF CachePut
<1>2. c \in Cert /\ c.host = k /\ k \in Keys
      BY <1>1, KeyTyped DEF IInv, Filed
<1>3. RightHost'
      BY <1>1, <1>2 DEF IInv, TypeOK, RightHost, Key
<1>4. SUFFICES /\ order' \in Seq(Keys) /\ used' \in Seq(Keys)
               /\ DOMAIN items' \subseteq Keys /\ items' \in [DOMAIN items' -> Cert]
               /\ \A h \in DOMAIN items' : items'[h].host = h
               /\ StoreConsistent' /\ NoDuplicates(used)' /\ KeepsMostRecent'
  <2>1. TypeOK'
        BY <1>1, <1>4 DEF IInv, TypeOK
  <2>2. Filed'
        BY <1>1, <1>4 DEF IInv, TypeOK, Filed, Key
  <2> QED
        BY <1>3, <1>4, <2>1, <2>2 DEF IInv
<1>5. CASE Capacity <= 0
  <2>1. items' = items /\ order' = order /\ used' = used
        BY <1>5 DEF CachePut
  <2> QED
        BY <2>1 DEF IInv, TypeOK, Filed, StoreConsistent, NoDuplicates, KeepsMostRecent
<1>6. CASE Capacity > 0 /\ k \in DOMAIN items
  <2>1. /\ order' = ToFront(order, k) /\ used' = ToFront(used, k)
        /\ items' = [items EXCEPT ![k] = c]
        BY <1>6, StoreAssumption DEF CachePut
  <2>2. /\ order' \in Seq(Keys) /\ used' \in Seq(Keys)
        /\ Range(order)' = DOMAIN items /\ Len(order') <= Capacity
        /\ NoDuplicates(order)' /\ NoDuplicates(used)'
        /\ KeepsMostRecent'
        BY <1>6, <2>1, MovedToFront
  <2>3. /\ DOMAIN items' = DOMAIN items /\ items' \in [DOMAIN items' -> Cert]
        /\ \A h \in DOMAIN items' : items'[h].host = h
        BY <1>2, <1>6, <2>1 DEF IInv, Filed
  <2>4. StoreConsistent'
        BY <1>6, <2>2, <2>3, StoreAssumption DEF StoreConsistent, NoDuplicates
  <2> QED
        BY <2>2, <2>3, <2>4 DEF IInv, TypeOK
<1>7. CASE Capacity > 0 /\ k \notin DOMAIN items
  <2>1. /\ order' = Evict(ToFront(order, k)) /\ used' = ToFront(used, k)
        /\ items' = PutItems(k, c)
        BY <1>7, StoreAssumption DEF CachePut
  <2>2. /\ order \in Seq(Keys) /\ used \in Seq(Keys) /\ NoDuplicates(order) /\ NoDuplicates(used)
        /\ Range(order) = DOMAIN items /\ order = Top(used)
        BY <1>7 DEF IInv, TypeOK, StoreConsistent, KeepsMostRecent, Top, NoDuplicates
  <2> DEFINE f == ToFront(order, k)
  <2>3. f \in Seq(Keys) /\ NoDuplicates(f) /\ Range(f) = Range(order) \cup {k}
        BY <1>2, <2>2, ToFrontKeeps
  <2>4. used' \in Seq(Keys) /\ NoDuplicates(used')
        BY <1>2, <2>1, <2>2, ToFrontKeeps
  <2>5. order' = Top(f)
        BY <1>7, <2>1, <2>3, TopIs
  <2>6. order' = Top(used')
        BY <1>2, <1>7, <2>1, <2>2, MissPushesOut
  <2> HIDE DEF f
  <2>7. order' \in Seq(Keys) /\ Len(order') <= Capacity
        BY <1>7, <2>3, <2>5, TopIs, StoreAssumption
  <2>8. NoDuplicates(order') /\ Range(order') \subseteq Range(order) \cup {k}
        BY <1>7, <2>3, <2>5, TopKeeps
  <2>9. items' = [h \in Range(order') |-> IF h = k THEN c ELSE items[h]]
        BY <2>1 DEF PutItems, Range
  <2>10. \A h \in Range(order') : h # k => h \in DOMAIN items /\ items[h] \in Cert /\ items[h].host = h
        BY <2>2, <2>8 DEF IInv, TypeOK, Filed
  <2>11. /\ DOMAIN items' = Range(order') /\ items' \in [DOMAIN items' -> Cert]
         /\ \A h \in DOMAIN items' : items'[h].host = h
        BY <1>2, <2>9, <2>10
  <2>12. DOMAIN items' \subseteq Keys
        BY <1>2, <2>2, <2>8, <2>11 DEF IInv, TypeOK
  <2>13. StoreConsistent'
        BY <1>7, <2>7, <2>8, <2>11, StoreAssumption DEF StoreConsistent, NoDuplicates
  <2>14. KeepsMostRecent'
        BY <2>6 DEF KeepsMostRecent, Top
  <2> QED
        BY <2>4, <2>7, <2>11, <2>12, <2>13, <2>14
<1> QED
      BY <1>5, <1>6, <1>7, StoreAssumption

LEMMA StepPreserves == IInv /\ [Next]_vars => IInv'
<1> SUFFICES ASSUME IInv, [Next]_vars PROVE IInv'
    OBVIOUS
<1>1. ASSUME NEW t \in Threads, (\E name \in Names : LeafFor(t, name)) \/ Call(t) PROVE IInv'
      BY <1>1, StepCall, StepCacheHit, StepCachePut DEF Call
<1>2. CASE UNCHANGED vars
      BY <1>2 DEF vars, IInv, TypeOK, StoreConsistent, Filed, RightHost, Key, NoDuplicates,
                  KeepsMostRecent
<1> QED
      BY <1>1, <1>2 DEF Next

LEMMA Invariance == Spec => []IInv
BY InitEstablishes, StepPreserves, PTL DEF Spec

(* The variables of the store keep their types.                            *)
THEOREM Typed == Spec => []TypeOK
<1>1. IInv => TypeOK
      BY DEF IInv
<1> QED
      BY <1>1, Invariance, PTL

(* The map and the list of the LRU hold the same hosts, each once and no   *)
(* more than the cache size, although LeafFor signs without the mutex.     *)
THEOREM CacheConsistent == Spec => []StoreConsistent
<1>1. IInv => StoreConsistent
      BY DEF IInv
<1> QED
      BY <1>1, Invariance, PTL

(* LeafFor returns a certificate for the host it was asked for, whatever   *)
(* other calls put, replace and evict between its lookup and its return.   *)
THEOREM CertificateMatches == Spec => []RightHost
<1>1. IInv => RightHost
      BY DEF IInv
<1> QED
      BY <1>1, Invariance, PTL

(* The cache is the LRU of its size: at every moment it holds the most     *)
(* recently used hosts of the whole history, in their order.               *)
THEOREM LeastRecentEvicted == Spec => []KeepsMostRecent
<1>1. IInv => KeepsMostRecent
      BY DEF IInv
<1> QED
      BY <1>1, Invariance, PTL
=============================================================================
