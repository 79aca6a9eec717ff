-------------------------- MODULE AdmissionProofs --------------------------
(***************************************************************************)
(* Theorems about Admission, for any number of accounts, addresses,        *)
(* buckets and tokens, and for every limit, window, lifetime and cap.      *)
(***************************************************************************)
EXTENDS Admission, FiniteSetTheorems, TLAPS

-----------------------------------------------------------------------------
(* The operators *)

LEMMA TiersBelow == \A clearance : AllowedTiers(clearance) \subseteq Tiers
  BY AdmissionAssumption DEF AllowedTiers, Tiers

LEMMA SeededType ==
    ASSUME NEW entry
    PROVE  SeededUser(entry) \in Authorities \cup {None}
  BY AdmissionAssumption DEF SeededUser, Authorities

LEMMA OlderType ==
    \A cap \in Nat : \A age \in 0 .. cap :
        Older(age, cap) \in 0 .. cap /\ Older(age, cap) >= age
  BY DEF Older

LEMMA OlderMonotone ==
    \A cap \in Nat : \A a, b \in 0 .. cap : a <= b => Older(a, cap) <= Older(b, cap)
  BY DEF Older

LEMMA CountersFinite == IsFiniteSet(Counters)
  <1>1. IsFiniteSet(Users \cup Peers)
    BY AdmissionAssumption, FS_Union
  <1>2. QED
    BY <1>1, AdmissionAssumption, FS_Product DEF Counters, Buckets

LEMMA KeptFinite == \A h : IsFiniteSet(Kept(h)) /\ Cardinality(Kept(h)) \in Nat
  <1>1. \A h : Kept(h) \subseteq Counters
    BY DEF Kept
  <1>2. QED
    BY <1>1, CountersFinite, FS_Subset, FS_CardinalityType

LEMMA LimitNat == \A c \in Counters : Limit[c[1]] \in Nat
  BY AdmissionAssumption DEF Counters, Buckets

\* What a window says is no None.
LEMMA HitIsNoNone == \A c \in Counters : None \notin Hit(c)
  <1> SUFFICES ASSUME NEW c \in Counters, None \in Hit(c) PROVE FALSE
    OBVIOUS
  <1>1. Hit(c) \subseteq [age : 0 .. Window, count : Nat]
    BY LimitNat DEF Hit
  <1>2. QED
    BY <1>1, AdmissionAssumption

LEMMA CountedType ==
    ASSUME NEW c \in Counters, NEW w \in Hit(c) \cup {None}
    PROVE  Counted(w, Limit[c[1]]) \in Hit(c)
  <1> DEFINE L == Limit[c[1]]
  <1>1. L \in Nat /\ Window \in Nat
    BY LimitNat, AdmissionAssumption
  <1> HIDE DEF L
  <1>2. CASE w = None \/ Expired(w)
    <2>1. Counted(w, L) = [age |-> 0, count |-> 1]
      BY <1>2 DEF Counted
    <2>2. 0 \in 0 .. Window /\ 1 \in 0 .. L + 1
      BY <1>1
    <2>3. QED
      BY <2>1, <2>2 DEF Hit, L
  <1>3. CASE ~(w = None \/ Expired(w))
    <2>1. w.age \in 0 .. Window /\ w.count \in 0 .. L + 1
      BY <1>3 DEF Hit, L
    <2>2. Counted(w, L) = [age |-> w.age, count |-> IF w.count > L THEN L + 1 ELSE w.count + 1]
      BY <1>3 DEF Counted
    <2>3. (IF w.count > L THEN L + 1 ELSE w.count + 1) \in 0 .. L + 1
      BY <1>1, <2>1
    <2>4. QED
      BY <2>1, <2>2, <2>3 DEF Hit, L
  <1>4. QED
    BY <1>2, <1>3 DEF L

\* What a purge leaves of each window.
LEMMA PurgedWindows ==
    ASSUME NEW h, DOMAIN h = Counters,
           \A c \in Counters : h[c] \in Hit(c) \cup {None}
    PROVE  /\ DOMAIN Purged(h) = Counters
           /\ \A c \in Counters : Purged(h)[c] = h[c] \/ (Purged(h)[c] = None /\ Expired(h[c]))
           /\ \A c \in Counters : Purged(h)[c] \in Hit(c) \cup {None}
  BY DEF Purged

-----------------------------------------------------------------------------
(* What one step does to the windows and to what observes them *)

\* A request of one counter was metered.
Metered(c, admitted) ==
    /\ Allow(c, admitted)
    /\ watch' = IF admitted /\ watch # None /\ watch.counter = c
                THEN [watch EXCEPT !.count = @ + 1] ELSE watch
    /\ fullAge' = IF IsFull(Purged(hits)) THEN fullAge ELSE 0

LimiterKept == UNCHANGED <<hits, watch, fullAge>>

LimiterStarts == hits' = NoHits /\ watch' = None /\ fullAge' = 0

LimiterWatched(c) ==
    /\ watch = None
    /\ watch' = [counter |-> c, age |-> 0, count |-> 0]
    /\ UNCHANGED <<hits, fullAge>>

LimiterStep ==
    \/ \E c \in Counters, admitted \in BOOLEAN : Metered(c, admitted)
    \/ LimiterKept \/ LimiterStarts \/ Tick
    \/ \E c \in Counters : LimiterWatched(c)

LEMMA RateLimitMeters ==
    ASSUME TypeOK, NEW bucket \in Buckets, NEW k \in tokens \cup {None}, NEW peer \in Peers,
           NEW admitted \in BOOLEAN, RateLimit(bucket, k, peer, admitted)
    PROVE  \E c \in Counters : Metered(c, admitted)
  <1>1. PICK caller \in Callers(k, peer) :
          /\ Allow(<<bucket, caller>>, admitted)
          /\ watch' = IF admitted /\ watch # None /\ watch.counter = <<bucket, caller>>
                      THEN [watch EXCEPT !.count = @ + 1] ELSE watch
          /\ fullAge' = IF IsFull(Purged(hits)) THEN fullAge ELSE 0
    BY DEF RateLimit
  <1>2. caller \in Users \cup Peers
    <2>1. CASE k = None
      BY <2>1 DEF Callers
    <2>2. CASE k # None
      <3>1. k.user \in Users
        BY <2>2 DEF TypeOK, Tokens
      <3>2. QED
        BY <3>1 DEF Callers
    <2>3. QED
      BY <2>1, <2>2
  <1>3. <<bucket, caller>> \in Counters
    BY <1>2 DEF Counters
  <1>4. QED
    BY <1>1, <1>3 DEF Metered

LEMMA NextLimiterStep == TypeOK /\ [Next]_vars => LimiterStep
  <1> SUFFICES ASSUME TypeOK, [Next]_vars PROVE LimiterStep
    OBVIOUS
  <1>b. "login" \in Buckets /\ DOMAIN RoleOf \subseteq Buckets
    BY AdmissionAssumption DEF Buckets
  <1>1. ASSUME NEW u \in Users, NEW peer \in Peers, NEW k \in tokens \cup {None}, Login(u, k, peer)
        PROVE  LimiterStep
    BY <1>1, <1>b, RateLimitMeters DEF Login, LimiterStep
  <1>2. ASSUME NEW peer \in Peers, NEW k \in tokens \cup {None}, LoginRefused(k, peer)
        PROVE  LimiterStep
    BY <1>2, <1>b, RateLimitMeters DEF LoginRefused, LimiterStep
  <1>3. ASSUME NEW bucket \in DOMAIN RoleOf, NEW k \in tokens, NEW peer \in Peers,
               Call(bucket, k, peer)
        PROVE  LimiterStep
    BY <1>3, <1>b, RateLimitMeters DEF Call, LimiterStep
  <1>4. ASSUME NEW k \in tokens, Discard(k) PROVE LimiterStep
    BY <1>4 DEF Discard, LimiterStep, LimiterKept
  <1>5. CASE Tick
    BY <1>5 DEF LimiterStep
  <1>6. CASE Restart
    BY <1>6 DEF Restart, LimiterStep, LimiterStarts
  <1>7. ASSUME NEW c \in Counters, Watch(c) PROVE LimiterStep
    BY <1>7 DEF Watch, LimiterStep, LimiterWatched
  <1>8. CASE UNCHANGED vars
    BY <1>8 DEF vars, LimiterStep, LimiterKept
  <1>9. QED
    BY <1>1, <1>2, <1>3, <1>4, <1>5, <1>6, <1>7, <1>8 DEF Next

-----------------------------------------------------------------------------
(* Type correctness *)

LimiterTypeOK ==
    /\ DOMAIN hits = Counters
    /\ \A c \in Counters : hits[c] \in Hit(c) \cup {None}
    /\ watch \in Watches \cup {None}
    /\ fullAge \in 0 .. Window

LEMMA NoHitsType ==
    /\ DOMAIN NoHits = Counters
    /\ \A c \in Counters : NoHits[c] \in Hit(c) \cup {None}
  BY DEF NoHits

LEMMA TickWindows ==
    ASSUME LimiterTypeOK, Tick, NEW c \in Counters
    PROVE  /\ hits[c] = None => hits'[c] = None
           /\ hits[c] # None => /\ hits'[c] = [age |-> Older(hits[c].age, Window),
                                               count |-> hits[c].count]
                                /\ hits'[c] \in Hit(c)
  <1>1. hits'[c] = IF hits[c] = None THEN None ELSE [hits[c] EXCEPT !.age = Older(@, Window)]
    BY DEF Tick
  <1>2. CASE hits[c] # None
    <2>1. hits[c] \in Hit(c)
      BY <1>2 DEF LimiterTypeOK
    <2>2. hits'[c] = [age |-> Older(hits[c].age, Window), count |-> hits[c].count]
      BY <1>1, <1>2, <2>1 DEF Hit
    <2>3. Older(hits[c].age, Window) \in 0 .. Window
      BY <2>1, OlderType, AdmissionAssumption DEF Hit
    <2>4. QED
      BY <1>2, <2>1, <2>2, <2>3 DEF Hit
  <1>3. QED
    BY <1>1, <1>2

LEMMA AllowType ==
    ASSUME LimiterTypeOK, NEW c \in Counters, NEW admitted \in BOOLEAN, Allow(c, admitted)
    PROVE  DOMAIN hits' = Counters /\ \A d \in Counters : hits'[d] \in Hit(d) \cup {None}
  <1>1. /\ DOMAIN Purged(hits) = Counters
        /\ \A d \in Counters : Purged(hits)[d] \in Hit(d) \cup {None}
    BY PurgedWindows DEF LimiterTypeOK
  <1>2. Counted(Purged(hits)[c], Limit[c[1]]) \in Hit(c)
    BY <1>1, CountedType
  <1>3. QED
    BY <1>1, <1>2 DEF Allow

LEMMA LimiterTypeStep ==
    ASSUME LimiterTypeOK, LimiterStep
    PROVE  LimiterTypeOK'
  <1>w. Window \in Nat \ {0} /\ 0 \in 0 .. Window /\ 0 \in 0 .. Window - 1
    BY AdmissionAssumption
  <1>1. ASSUME NEW c \in Counters, NEW admitted \in BOOLEAN, Metered(c, admitted)
        PROVE  LimiterTypeOK'
    <2>1. DOMAIN hits' = Counters /\ \A d \in Counters : hits'[d] \in Hit(d) \cup {None}
      BY <1>1, AllowType DEF Metered
    <2>2. watch' \in Watches \cup {None}
      BY <1>1 DEF Metered, LimiterTypeOK, Watches
    <2>3. fullAge' \in 0 .. Window
      BY <1>1, <1>w DEF Metered, LimiterTypeOK
    <2>4. QED
      BY <2>1, <2>2, <2>3 DEF LimiterTypeOK
  <1>2. CASE LimiterKept
    BY <1>2 DEF LimiterKept, LimiterTypeOK
  <1>3. CASE LimiterStarts
    BY <1>3, <1>w, NoHitsType DEF LimiterStarts, LimiterTypeOK
  <1>4. CASE Tick
    <2>1. DOMAIN hits' = Counters
      BY <1>4 DEF Tick
    <2>2. \A d \in Counters : hits'[d] \in Hit(d) \cup {None}
      BY <1>4, TickWindows
    <2>3. watch' \in Watches \cup {None}
      <3>1. CASE watch = None \/ watch.age + 1 >= Window
        BY <1>4, <3>1 DEF Tick
      <3>2. CASE ~(watch = None \/ watch.age + 1 >= Window)
        <4>1. watch \in Watches
          BY <3>2 DEF LimiterTypeOK
        <4>2. watch.age + 1 \in 0 .. Window - 1
          BY <3>2, <4>1, <1>w DEF Watches
        <4>3. watch' = [watch EXCEPT !.age = @ + 1]
          BY <1>4, <3>2 DEF Tick
        <4>4. QED
          BY <4>1, <4>2, <4>3 DEF Watches
      <3>3. QED
        BY <3>1, <3>2
    <2>4. fullAge' \in 0 .. Window
      BY <1>4, <1>w, OlderType DEF Tick, LimiterTypeOK
    <2>5. QED
      BY <2>1, <2>2, <2>3, <2>4 DEF LimiterTypeOK
  <1>5. ASSUME NEW c \in Counters, LimiterWatched(c) PROVE LimiterTypeOK'
    <2>1. watch' \in Watches
      BY <1>5, <1>w DEF LimiterWatched, Watches
    <2>2. QED
      BY <1>5, <2>1 DEF LimiterWatched, LimiterTypeOK
  <1>6. QED
    BY <1>1, <1>2, <1>3, <1>4, <1>5 DEF LimiterStep

Ages == 0 .. TTL + 1

LEMMA AgesOlder == \A age \in Ages : Older(age, TTL + 1) \in Ages
  <1>1. TTL + 1 \in Nat
    BY AdmissionAssumption
  <1>2. QED
    BY <1>1, OlderType DEF Ages

LEMMA GrantedType ==
    ASSUME NEW table, NEW before,
           \A u \in Users : \A g \in Roles \X Tiers : before[u][g] \in Ages
    PROVE  GrantedSince(table, before) \in [Users -> [Roles \X Tiers -> Ages]]
  <1>1. 0 \in Ages
    BY AdmissionAssumption DEF Ages
  <1>2. QED
    BY <1>1 DEF GrantedSince

LEMMA SeedType ==
    ASSUME NEW spec
    PROVE  [u \in Users |-> SeededUser(spec[u])] \in [Users -> Authorities \cup {None}]
  BY SeededType

LEMMA InitTypeOK == Init => TypeOK
  <1> SUFFICES ASSUME Init PROVE TypeOK
    OBVIOUS
  <1>1. users \in [Users -> Authorities \cup {None}]
    BY SeedType DEF Init
  <1>2. granted \in [Users -> [Roles \X Tiers -> 0 .. TTL + 1]]
    <2>1. TTL + 1 \in Ages
      BY AdmissionAssumption DEF Ages
    <2>2. \A u \in Users : \A g \in Roles \X Tiers : NeverGranted[u][g] \in Ages
      BY <2>1 DEF NeverGranted
    <2>3. QED
      BY <2>2, GrantedType DEF Init, Ages
  <1>3. 0 \in 0 .. Window
    BY AdmissionAssumption
  <1>4. QED
    BY <1>1, <1>2, <1>3, NoHitsType DEF Init, TypeOK

LEMMA NextTypeOK == TypeOK /\ [Next]_vars => TypeOK'
  <1> SUFFICES ASSUME TypeOK, [Next]_vars PROVE TypeOK'
    OBVIOUS
  <1>0. LimiterTypeOK'
    <2>1. LimiterTypeOK
      BY DEF TypeOK, LimiterTypeOK
    <2>2. QED
      BY <2>1, NextLimiterStep, LimiterTypeStep
  <1> DEFINE AuthTypeOK == /\ users' \in [Users -> Authorities \cup {None}]
                           /\ signer' \in SigningKeys
                           /\ tokens' \subseteq Tokens
                           /\ granted' \in [Users -> [Roles \X Tiers -> 0 .. TTL + 1]]
  <1>1. ASSUME NEW u \in Users, NEW peer \in Peers, NEW k \in tokens \cup {None}, Login(u, k, peer)
        PROVE  AuthTypeOK
    <2>1. users[u] # None => Issued(u) \in Tokens
      <3>1. 0 \in 0 .. TTL + 1
        BY AdmissionAssumption
      <3>2. QED
        BY <3>1 DEF TypeOK, Tokens, Issued
    <2>2. tokens' \subseteq Tokens
      BY <1>1, <2>1 DEF Login, TypeOK
    <2>3. QED
      BY <1>1, <2>2 DEF Login, TypeOK
  <1>2. ASSUME \/ \E peer \in Peers, k \in tokens \cup {None} : LoginRefused(k, peer)
               \/ \E bucket \in DOMAIN RoleOf, k \in tokens, peer \in Peers : Call(bucket, k, peer)
               \/ \E k \in tokens : Discard(k)
               \/ \E c \in Counters : Watch(c)
               \/ UNCHANGED vars
        PROVE  AuthTypeOK
    BY <1>2 DEF LoginRefused, Call, Discard, Watch, vars, TypeOK
  <1>3. ASSUME Tick PROVE AuthTypeOK
    <2>1. tokens' \subseteq Tokens
      <3>1. \A k \in tokens : Older(k.age, TTL + 1) \in 0 .. TTL + 1
        BY AgesOlder DEF TypeOK, Tokens, Ages
      <3>2. \A k \in tokens : [k EXCEPT !.age = Older(@, TTL + 1)] \in Tokens
        BY <3>1 DEF TypeOK, Tokens
      <3>3. QED
        BY <1>3, <3>2 DEF Tick
    <2>2. granted' \in [Users -> [Roles \X Tiers -> 0 .. TTL + 1]]
      <3> DEFINE older == [u \in Users |-> [g \in Roles \X Tiers |-> Older(granted[u][g], TTL + 1)]]
      <3>1. \A u \in Users : \A g \in Roles \X Tiers : granted[u][g] \in 0 .. TTL + 1
        BY DEF TypeOK
      <3>2. \A u \in Users : \A g \in Roles \X Tiers : older[u][g] \in Ages
        BY <3>1, AgesOlder DEF Ages
      <3>3. granted' = GrantedSince(users, older)
        BY <1>3 DEF Tick
      <3> HIDE DEF older
      <3>4. QED
        BY <3>2, <3>3, GrantedType DEF Ages
    <2>3. users' = users /\ signer' = signer
      BY <1>3 DEF Tick
    <2>4. QED
      BY <2>1, <2>2, <2>3 DEF TypeOK
  <1>4. ASSUME Restart PROVE AuthTypeOK
    <2>1. users' \in [Users -> Authorities \cup {None}]
      BY <1>4, SeedType DEF Restart
    <2>2. granted' \in [Users -> [Roles \X Tiers -> 0 .. TTL + 1]]
      <3>1. \A u \in Users : \A g \in Roles \X Tiers : granted[u][g] \in Ages
        BY DEF TypeOK, Ages
      <3>2. granted' = GrantedSince(users', granted)
        BY <1>4 DEF Restart
      <3>3. QED
        BY <3>1, <3>2, GrantedType DEF Ages
    <2>3. signer' \in SigningKeys /\ tokens' = tokens
      BY <1>4 DEF Restart
    <2>4. QED
      BY <2>1, <2>2, <2>3 DEF TypeOK
  <1> HIDE DEF AuthTypeOK
  <1>5. AuthTypeOK
    BY <1>1, <1>2, <1>3, <1>4 DEF Next
  <1>6. QED
    BY <1>0, <1>5 DEF LimiterTypeOK, TypeOK, AuthTypeOK

\* Every variable keeps its type: no account has a clearance or a role that the
\* code does not know, and no counter runs past one above its limit.
THEOREM AdmissionTypeOK == Spec => []TypeOK
  BY InitTypeOK, NextTypeOK, PTL DEF Spec
-----------------------------------------------------------------------------
(* Bursts *)

\* The inductive form of BurstIsBounded.  A window that was open when the observer
\* began has counted all it saw; one that began later is the second and the last,
\* for no window ends within its own length.
WatchInv ==
    watch # None =>
        LET c == watch.counter
            L == Limit[c[1]]
            w == hits[c]
        IN \/ w = None /\ watch.count <= L
           \/ w # None /\ w.age > watch.age /\ watch.count <= L /\ watch.count <= w.count
           \/ /\ w # None /\ w.age <= watch.age
              /\ watch.count <= 2 * L /\ watch.count <= L + w.count

\* The same of single numbers: a window of an age and a count, an observer.
Seen(open, age, count, since, n, L) ==
    \/ ~open /\ n <= L
    \/ open /\ age > since /\ n <= L /\ n <= count
    \/ open /\ age <= since /\ n <= 2 * L /\ n <= L + count

LEMMA SeenWatch ==
    watch # None => (WatchInv <=>
        Seen(hits[watch.counter] # None, hits[watch.counter].age, hits[watch.counter].count,
             watch.age, watch.count, Limit[watch.counter[1]]))
  BY DEF WatchInv, Seen

LEMMA SeenPurge ==
    \A age, count, since, n, L, W \in Nat :
        Seen(TRUE, age, count, since, n, L) /\ since < W /\ age >= W
            => Seen(FALSE, age, count, since, n, L)
  BY DEF Seen

LEMMA SeenFirst ==
    \A age, count, since, n, L \in Nat :
        Seen(FALSE, age, count, since, n, L) =>
            /\ Seen(TRUE, 0, 1, since, n, L)
            /\ 1 <= L => Seen(TRUE, 0, 1, since, n + 1, L)
  BY DEF Seen

LEMMA SeenExpired ==
    \A age, count, since, n, L, W \in Nat :
        Seen(TRUE, age, count, since, n, L) /\ since < W /\ age >= W =>
            /\ Seen(TRUE, 0, 1, since, n, L)
            /\ 1 <= L => Seen(TRUE, 0, 1, since, n + 1, L)
  BY DEF Seen

LEMMA SeenCounted ==
    \A age, count, since, n, L \in Nat :
        Seen(TRUE, age, count, since, n, L) =>
            /\ \A more \in Nat : more >= count => Seen(TRUE, age, more, since, n, L)
            /\ count + 1 <= L => Seen(TRUE, age, count + 1, since, n + 1, L)
  BY DEF Seen

LEMMA SeenTick ==
    \A age, count, since, n, L, W \in Nat : \A open \in BOOLEAN :
        Seen(open, age, count, since, n, L) /\ since + 1 < W /\ age <= W
            => Seen(open, Older(age, W), count, since + 1, n, L)
  BY DEF Seen, Older

LEMMA WatchStep ==
    ASSUME LimiterTypeOK, WatchInv, LimiterStep
    PROVE  WatchInv'
  <1> SUFFICES ASSUME watch' # None PROVE WatchInv'
    BY DEF WatchInv
  <1>w. Window \in Nat \ {0}
    BY AdmissionAssumption
  <1>t. /\ LimiterTypeOK'
        /\ watch' \in Watches
    BY LimiterTypeStep DEF LimiterTypeOK
  <1> DEFINE c == watch'.counter
             L == Limit[c[1]]
  <1>c. c \in Counters /\ L \in Nat
    BY <1>t, LimitNat DEF Watches
  <1>h. \A d \in Counters : hits[d] # None =>
            /\ hits[d].age \in 0 .. Window
            /\ hits[d].count \in Nat
    BY LimitNat DEF LimiterTypeOK, Hit
  <1>p. \A d \in Counters : hits'[d] # None =>
            /\ hits'[d].age \in 0 .. Window
            /\ hits'[d].count \in Nat
    BY <1>t, LimitNat DEF LimiterTypeOK, Hit
  \* What WatchInv says of an observer that was there before the step.
  <1>s. ASSUME watch # None, watch.counter = c
        PROVE  /\ watch \in Watches
               /\ watch.age \in Nat /\ watch.age < Window /\ watch.count \in Nat
               /\ Seen(hits[c] # None, hits[c].age, hits[c].count, watch.age, watch.count, L)
    <2>1. watch \in Watches
      BY <1>s DEF LimiterTypeOK
    <2>2. watch.age \in Nat /\ watch.age < Window /\ watch.count \in Nat
      BY <2>1, <1>w DEF Watches
    <2>3. QED
      BY <1>s, <2>1, <2>2, SeenWatch DEF WatchInv
  <1>q. (watch # None => (WatchInv <=>
        Seen(hits[watch.counter] # None, hits[watch.counter].age, hits[watch.counter].count,
             watch.age, watch.count, Limit[watch.counter[1]])))'
    BY SeenWatch, PTL
  <1>r. WatchInv' <=> Seen(hits'[c] # None, hits'[c].age, hits'[c].count, watch'.age, watch'.count, L)
    BY <1>q
  <1>o. ASSUME hits'[c] # None,
               NEW age, age = hits'[c].age, NEW count, count = hits'[c].count,
               NEW since, since = watch'.age, NEW n, n = watch'.count,
               Seen(TRUE, age, count, since, n, L)
        PROVE  WatchInv'
    BY <1>r, <1>o DEF Seen
  <1> HIDE DEF c, L
  <1>1. ASSUME NEW d \in Counters, NEW admitted \in BOOLEAN, Metered(d, admitted)
        PROVE  WatchInv'
    <2> DEFINE P == Purged(hits)[c]
    <2>1. /\ watch # None
          /\ watch' = IF admitted /\ watch.counter = d THEN [watch EXCEPT !.count = @ + 1]
                      ELSE watch
      BY <1>1 DEF Metered
    <2>2. watch \in Watches /\ watch.counter = c
      BY <2>1 DEF c, LimiterTypeOK, Watches
    <2>3. /\ watch.age \in Nat /\ watch.age < Window /\ watch.count \in Nat
          /\ Seen(hits[c] # None, hits[c].age, hits[c].count, watch.age, watch.count, L)
      BY <1>s, <2>1, <2>2
    <2>4. /\ P = hits[c] \/ (P = None /\ Expired(hits[c]))
          /\ P \in Hit(c) \cup {None}
      BY <1>c, PurgedWindows DEF LimiterTypeOK
    <2>5. P # None => P.age \in 0 .. Window /\ P.count \in 0 .. L + 1
      BY <2>4 DEF Hit, L
    <2>6. Seen(P # None, P.age, P.count, watch.age, watch.count, L)
      <3>1. CASE P = hits[c]
        BY <2>3, <3>1
      <3>2. CASE P = None /\ Expired(hits[c])
        <4>1. hits[c] # None /\ hits[c].age >= Window
          BY <3>2 DEF Expired
        <4>2. hits[c].age \in Nat /\ hits[c].count \in Nat
          BY <1>c, <1>h, <1>w, <4>1
        <4>3. watch.count <= L
          BY <1>c, <1>w, <2>3, <4>1, <4>2 DEF Seen
        <4>4. QED
          BY <3>2, <4>3 DEF Seen
      <3>3. QED
        BY <2>4, <3>1, <3>2
    <2>7. CASE hits'[c] = P /\ watch' = watch
      BY <1>r, <2>6, <2>7
    <2>8. CASE /\ d = c
               /\ hits'[c] = Counted(P, L)
               /\ admitted = (hits'[c].count <= L)
      <3>1. /\ watch'.age = watch.age
            /\ watch'.count = IF hits'[c].count <= L THEN watch.count + 1 ELSE watch.count
        BY <2>1, <2>2, <2>8 DEF Watches
      <3>2. CASE P = None
        <4>1. hits'[c] = [age |-> 0, count |-> 1]
          BY <2>8, <3>2 DEF Counted
        <4>2. watch.count <= L
          BY <2>6, <3>2 DEF Seen
        <4>3. /\ Seen(TRUE, 0, 1, watch.age, watch.count, L)
              /\ 1 <= L => Seen(TRUE, 0, 1, watch.age, watch.count + 1, L)
          BY <1>c, <2>3, <4>2 DEF Seen
        <4>4. hits'[c] # None
          BY <1>c, <4>1, <2>8, <3>2, CountedType, HitIsNoNone DEF L
        <4>5. hits'[c].age = 0 /\ hits'[c].count = 1
          BY <4>1
        <4>6. CASE 1 <= L
          BY <1>o, <3>1, <4>3, <4>4, <4>5, <4>6
        <4>7. CASE ~(1 <= L)
          BY <1>o, <3>1, <4>3, <4>4, <4>5, <4>7
        <4>8. QED
          BY <4>6, <4>7
      <3>3. CASE P # None /\ Expired(P)
        <4>1. hits'[c] = [age |-> 0, count |-> 1]
          BY <2>8, <3>3 DEF Counted
        <4>2. P.age \in Nat /\ P.count \in Nat /\ P.age >= Window
          BY <1>c, <1>w, <2>5, <3>3 DEF Expired
        <4>3. Seen(TRUE, P.age, P.count, watch.age, watch.count, L)
          BY <2>6, <3>3
        <4>4. /\ Seen(TRUE, 0, 1, watch.age, watch.count, L)
              /\ 1 <= L => Seen(TRUE, 0, 1, watch.age, watch.count + 1, L)
          BY <1>c, <1>w, <2>3, <4>2, <4>3, SeenExpired
        <4>5. hits'[c] # None
          BY <1>c, <2>4, <2>8, CountedType, HitIsNoNone DEF L
        <4>6. hits'[c].age = 0 /\ hits'[c].count = 1
          BY <4>1
        <4>7. CASE 1 <= L
          BY <1>o, <3>1, <4>4, <4>5, <4>6, <4>7
        <4>8. CASE ~(1 <= L)
          BY <1>o, <3>1, <4>4, <4>5, <4>6, <4>8
        <4>9. QED
          BY <4>7, <4>8
      <3>4. CASE P # None /\ ~Expired(P)
        <4> DEFINE more == IF P.count > L THEN L + 1 ELSE P.count + 1
        <4>1. hits'[c] = [age |-> P.age, count |-> more]
          BY <2>8, <3>4 DEF Counted
        <4>2. P.age \in Nat /\ P.count \in Nat /\ more \in Nat /\ more >= P.count
          BY <1>c, <1>w, <2>5, <3>4
        <4>3. Seen(TRUE, P.age, P.count, watch.age, watch.count, L)
          BY <2>6, <3>4
        <4>4. more <= L => more = P.count + 1
          BY <1>c, <4>2
        <4> HIDE DEF more
        <4>5. /\ Seen(TRUE, P.age, more, watch.age, watch.count, L)
              /\ more <= L => Seen(TRUE, P.age, more, watch.age, watch.count + 1, L)
          BY ZenonT(30), <1>c, <2>3, <4>2, <4>3, <4>4, SeenCounted
        <4>6. hits'[c] # None
          BY <1>c, <2>4, <2>8, CountedType, HitIsNoNone DEF L
        <4>7. hits'[c].age = P.age /\ hits'[c].count = more
          BY <4>1
        <4>8. CASE more <= L
          BY <1>o, <3>1, <4>5, <4>6, <4>7, <4>8
        <4>9. CASE ~(more <= L)
          BY <1>o, <3>1, <4>5, <4>6, <4>7, <4>9
        <4>10. QED
          BY <4>8, <4>9
      <3>5. QED
        BY <3>2, <3>3, <3>4
    <2>9. QED
      <3> DEFINE h == Purged(hits)
      <3>1. DOMAIN h = Counters
        BY PurgedWindows DEF LimiterTypeOK
      <3>2. Allow(d, admitted)
        BY <1>1 DEF Metered
      <3>3. CASE IsFull(h) /\ ~admitted /\ hits' = h
        BY <2>1, <2>7, <3>3
      <3>4. CASE /\ ~IsFull(h)
                 /\ hits' = [h EXCEPT ![d] = Counted(h[d], Limit[d[1]])]
                 /\ admitted = (hits'[d].count <= Limit[d[1]])
        <4>1. CASE d = c
          <5>1. hits'[c] = Counted(P, L)
            BY <1>c, <3>1, <3>4, <4>1 DEF L
          <5>2. QED
            BY <2>8, <3>4, <4>1, <5>1 DEF L
        <4>2. CASE d # c
          BY <1>c, <2>1, <2>2, <2>7, <3>1, <3>4, <4>2
        <4>3. QED
          BY <4>1, <4>2
      <3>5. QED
        BY <3>2, <3>3, <3>4 DEF Allow
  <1>2. CASE LimiterKept
    BY <1>2 DEF LimiterKept, WatchInv
  <1>3. CASE LimiterStarts
    BY <1>3 DEF LimiterStarts
  <1>4. CASE Tick
    <2>1. /\ watch # None /\ ~(watch.age + 1 >= Window)
          /\ watch' = [watch EXCEPT !.age = @ + 1]
      BY <1>4 DEF Tick
    <2>2. watch \in Watches /\ watch.counter = c
      BY <2>1 DEF c, LimiterTypeOK, Watches
    <2>3. /\ watch.age \in Nat /\ watch.age + 1 < Window /\ watch.count \in Nat
          /\ Seen(hits[c] # None, hits[c].age, hits[c].count, watch.age, watch.count, L)
      BY <1>s, <1>w, <2>1, <2>2
    <2>4. watch'.age = watch.age + 1 /\ watch'.count = watch.count
      BY <2>1, <2>2 DEF Watches
    <2>5. CASE hits[c] = None
      <3>1. hits'[c] = None
        BY <1>4, <1>c, <2>5, TickWindows
      <3>2. watch.count <= L
        BY <2>3, <2>5 DEF Seen
      <3>3. QED
        BY <1>r, <2>4, <3>1, <3>2 DEF Seen
    <2>6. CASE hits[c] # None
      <3>1. /\ hits'[c] = [age |-> Older(hits[c].age, Window), count |-> hits[c].count]
            /\ hits'[c] # None
        BY <1>4, <1>c, <2>6, TickWindows, HitIsNoNone
      <3>2. Seen(TRUE, hits[c].age, hits[c].count, watch.age, watch.count, L)
        BY <2>3, <2>6
      <3>3. hits[c].age \in Nat /\ hits[c].age <= Window /\ hits[c].count \in Nat
        BY <1>c, <1>h, <1>w, <2>6
      <3>4. Seen(TRUE, Older(hits[c].age, Window), hits[c].count, watch.age + 1, watch.count, L)
        BY <1>c, <1>w, <2>3, <3>2, <3>3, SeenTick
      <3>5. hits'[c].age = Older(hits[c].age, Window) /\ hits'[c].count = hits[c].count
        BY <3>1
      <3>6. QED
        BY <1>o, <2>4, <3>1, <3>4, <3>5
    <2>7. QED
      BY <2>5, <2>6
  <1>5. ASSUME NEW d \in Counters, LimiterWatched(d) PROVE WatchInv'
    <2>1. watch'.age = 0 /\ watch'.count = 0
      BY <1>5 DEF LimiterWatched
    <2>2. \A open \in BOOLEAN, age, count \in Nat : Seen(open, age, count, 0, 0, L)
      BY <1>c DEF Seen
    <2>3. CASE hits'[c] = None
      BY <1>c, <1>r, <2>1, <2>3 DEF Seen
    <2>4. CASE hits'[c] # None
      <3>1. hits'[c].age \in Nat /\ hits'[c].count \in Nat
        BY <1>c, <1>p, <1>w, <2>4
      <3>2. QED
        BY <1>r, <2>1, <2>2, <2>4, <3>1
    <2>5. QED
      BY <2>3, <2>4
  <1>6. QED
    BY <1>1, <1>2, <1>3, <1>4, <1>5 DEF LimiterStep

LEMMA WatchBounded == LimiterTypeOK /\ WatchInv => BurstIsBounded
  <1> SUFFICES ASSUME LimiterTypeOK, WatchInv, watch # None
               PROVE  watch.count <= 2 * Limit[watch.counter[1]]
    BY DEF BurstIsBounded
  <1>1. watch \in Watches
    BY DEF LimiterTypeOK
  <1>2. Limit[watch.counter[1]] \in Nat /\ watch.count \in Nat
    BY <1>1, LimitNat DEF Watches
  <1>3. watch.count <= Limit[watch.counter[1]] \/ watch.count <= 2 * Limit[watch.counter[1]]
    BY DEF WatchInv
  <1>4. QED
    BY <1>2, <1>3

\* In any span of one window's length, whenever it begins, a counter admits at
\* most twice its limit, whatever was purged or refused meanwhile.
THEOREM Bursts == Spec => []BurstIsBounded
  <1>1. Init => WatchInv
    BY DEF Init, WatchInv
  <1>2. TypeOK /\ WatchInv /\ [Next]_vars => WatchInv'
    BY NextLimiterStep, WatchStep DEF TypeOK, LimiterTypeOK
  <1>3. TypeOK /\ WatchInv => BurstIsBounded
    BY WatchBounded DEF TypeOK, LimiterTypeOK
  <1>4. QED
    BY <1>1, <1>2, <1>3, AdmissionTypeOK, PTL DEF Spec

-----------------------------------------------------------------------------
(* Authority *)

\* The inductive form of AuthorityIsRecent: what the table grants now has been
\* granted since no tick, and what a token carries since no more than its age.
AuthorityInv ==
    /\ \A u \in Users, r \in Roles : users[u] # None =>
          \A t \in AllowedTiers(users[u].clearance) :
              r = users[u].role => granted[u][<<r, t>>] = 0
    /\ \A k \in tokens : \A t \in AllowedTiers(k.auth.clearance) :
          granted[k.user][<<k.auth.role, t>>] <= k.age

\* The first conjunct holds of any table that was just taken into account.
LEMMA GrantedNow ==
    ASSUME NEW table, NEW before, NEW u \in Users, NEW r \in Roles, table[u] # None,
           r = table[u].role, NEW t \in AllowedTiers(table[u].clearance)
    PROVE  GrantedSince(table, before)[u][<<r, t>>] = 0
  <1>1. <<r, t>> \in Roles \X Tiers
    BY TiersBelow
  <1> DEFINE g == <<r, t>>
  <1>2. g[1] = r /\ g[2] = t /\ g \in Roles \X Tiers
    BY <1>1
  <1> HIDE DEF g
  <1>3. GrantedSince(table, before)[u][g] = 0
    BY <1>2 DEF GrantedSince, Grants
  <1>4. QED
    BY <1>3 DEF g

\* A table that is taken into account ages nothing.
LEMMA GrantedNoLater ==
    ASSUME NEW table, NEW before, NEW u \in Users, NEW g \in Roles \X Tiers,
           before[u][g] \in Ages
    PROVE  GrantedSince(table, before)[u][g] <= before[u][g]
  <1>1. 0 <= before[u][g] /\ before[u][g] <= before[u][g]
    BY AdmissionAssumption DEF Ages
  <1>2. GrantedSince(table, before)[u][g] = (IF Grants(table[u], g[1], g[2]) THEN 0 ELSE before[u][g])
    BY DEF GrantedSince
  <1>3. QED
    BY <1>1, <1>2

LEMMA AuthorityStep == TypeOK /\ AuthorityInv /\ [Next]_vars => AuthorityInv'
  <1> SUFFICES ASSUME TypeOK, AuthorityInv, [Next]_vars PROVE AuthorityInv'
    OBVIOUS
  <1>t. TypeOK'
    BY NextTypeOK
  <1>a. \A u \in Users : \A g \in Roles \X Tiers : granted[u][g] \in Ages
    BY DEF TypeOK, Ages
  <1>k. \A k \in tokens : /\ k.user \in Users /\ k.auth.role \in Roles
                          /\ \A t \in AllowedTiers(k.auth.clearance) :
                                <<k.auth.role, t>> \in Roles \X Tiers
    BY TiersBelow DEF TypeOK, Tokens, Authorities
  <1>1. ASSUME NEW u \in Users, NEW peer \in Peers, NEW k \in tokens \cup {None}, Login(u, k, peer)
        PROVE  AuthorityInv'
    <2> DEFINE new == Issued(u)
    <2>1. users' = users /\ granted' = granted
      BY <1>1 DEF Login
    <2>2. tokens' = tokens \/ (users[u] # None /\ tokens' = tokens \cup {new})
      BY <1>1 DEF Login
    <2>3. users[u] # None => \A t \in AllowedTiers(users[u].clearance) :
              granted[u][<<users[u].role, t>>] <= 0
      <3>1. users[u] # None => users[u].role \in Roles
        BY DEF TypeOK, Authorities
      <3>2. QED
        BY <3>1 DEF AuthorityInv
    <2>4. /\ new.user = u /\ new.auth = users[u] /\ new.age = 0
      BY DEF Issued
    <2> HIDE DEF new
    <2>5. users[u] # None => \A t \in AllowedTiers(new.auth.clearance) :
              granted[new.user][<<new.auth.role, t>>] <= new.age
      BY <2>3, <2>4
    <2>6. QED
      BY <2>1, <2>2, <2>5 DEF AuthorityInv
  <1>2. ASSUME \/ \E peer \in Peers, k \in tokens \cup {None} : LoginRefused(k, peer)
               \/ \E bucket \in DOMAIN RoleOf, k \in tokens, peer \in Peers : Call(bucket, k, peer)
               \/ \E k \in tokens : Discard(k)
               \/ \E c \in Counters : Watch(c)
               \/ UNCHANGED vars
        PROVE  AuthorityInv'
    BY <1>2 DEF LoginRefused, Call, Discard, Watch, vars, AuthorityInv
  <1>3. CASE Tick
    <2> DEFINE older == [u \in Users |-> [g \in Roles \X Tiers |-> Older(granted[u][g], TTL + 1)]]
    <2>1. granted' = GrantedSince(users, older) /\ users' = users
      BY <1>3 DEF Tick
    <2>2. \A u \in Users : \A g \in Roles \X Tiers :
              older[u][g] = Older(granted[u][g], TTL + 1) /\ older[u][g] \in Ages
      BY <1>a, AgesOlder
    <2> HIDE DEF older
    <2>3. ASSUME NEW k \in tokens', NEW t \in AllowedTiers(k.auth.clearance)
          PROVE  granted'[k.user][<<k.auth.role, t>>] <= k.age
      <3>1. PICK j \in tokens : k = [j EXCEPT !.age = Older(@, TTL + 1)]
        BY <1>3 DEF Tick
      <3>2. /\ k.user = j.user /\ k.auth = j.auth /\ k.age = Older(j.age, TTL + 1)
            /\ j.age \in Ages
        BY <3>1 DEF TypeOK, Tokens, Ages
      <3> DEFINE g == <<j.auth.role, t>>
      <3>3. g \in Roles \X Tiers /\ j.user \in Users /\ granted[j.user][g] <= j.age
        BY <1>k, <2>3, <3>2 DEF AuthorityInv
      <3> HIDE DEF g
      <3>4. granted[j.user][g] \in Ages /\ TTL + 1 \in Nat
        BY <1>a, <3>3, AdmissionAssumption
      <3>5. Older(granted[j.user][g], TTL + 1) <= Older(j.age, TTL + 1)
        BY <3>2, <3>3, <3>4, OlderMonotone DEF Ages
      <3>6. granted'[j.user][g] <= older[j.user][g]
        BY <2>1, <2>2, <3>3, GrantedNoLater
      <3>7. /\ older[j.user][g] = Older(granted[j.user][g], TTL + 1)
            /\ older[j.user][g] \in Ages /\ granted'[j.user][g] \in Ages
            /\ Older(j.age, TTL + 1) \in Ages
        BY <1>t, <2>2, <3>2, <3>3, AgesOlder DEF TypeOK, Ages
      <3>8. granted'[j.user][g] <= Older(j.age, TTL + 1)
        BY <3>5, <3>6, <3>7, AdmissionAssumption DEF Ages
      <3>9. QED
        BY <3>2, <3>8 DEF g
    <2>4. QED
      BY <2>1, <2>3, GrantedNow DEF AuthorityInv
  <1>4. CASE Restart
    <2>1. granted' = GrantedSince(users', granted) /\ tokens' = tokens
      BY <1>4 DEF Restart
    <2>2. ASSUME NEW k \in tokens, NEW t \in AllowedTiers(k.auth.clearance)
          PROVE  granted'[k.user][<<k.auth.role, t>>] <= k.age
      <3> DEFINE g == <<k.auth.role, t>>
      <3>1. g \in Roles \X Tiers /\ k.user \in Users /\ granted[k.user][g] <= k.age
        BY <1>k, <2>2 DEF AuthorityInv
      <3> HIDE DEF g
      <3>2. granted'[k.user][g] <= granted[k.user][g]
        BY <1>a, <2>1, <3>1, GrantedNoLater
      <3>3. granted'[k.user][g] \in Ages /\ granted[k.user][g] \in Ages /\ k.age \in Ages
        BY <1>t, <3>1 DEF TypeOK, Tokens, Ages
      <3>4. granted'[k.user][g] <= k.age
        BY SMTT(20), <3>1, <3>2, <3>3, AdmissionAssumption DEF Ages
      <3>5. QED
        BY <3>4 DEF g
    <2>3. QED
      BY <2>1, <2>2, GrantedNow DEF AuthorityInv
  <1>5. QED
    BY <1>1, <1>2, <1>3, <1>4 DEF Next

\* A token that is accepted lets its holder do in a tier only what a table of
\* users granted that account within the last lifetime of a token, over restarts
\* with other tables and with the signing key changed and changed back.
THEOREM Authority == Spec => []AuthorityIsRecent
  <1>1. Init => AuthorityInv
    <2> SUFFICES ASSUME Init PROVE AuthorityInv
      OBVIOUS
    <2>1. tokens = {} /\ granted = GrantedSince(users, NeverGranted)
      BY DEF Init
    <2>2. QED
      BY <2>1, GrantedNow DEF AuthorityInv
  <1>2. TypeOK /\ AuthorityInv /\ [Next]_vars => AuthorityInv'
    BY AuthorityStep
  <1>3. TypeOK /\ AuthorityInv => AuthorityIsRecent
    <2> SUFFICES ASSUME TypeOK, AuthorityInv, NEW k \in tokens, VerifyToken(k),
                        NEW t \in AllowedTiers(k.auth.clearance)
                 PROVE  granted[k.user][<<k.auth.role, t>>] <= TTL
      BY DEF AuthorityIsRecent
    <2> DEFINE g == <<k.auth.role, t>>
    <2>1. k.age \in 0 .. TTL + 1 /\ k.age <= TTL /\ granted[k.user][g] <= k.age
      BY DEF TypeOK, Tokens, VerifyToken, AuthorityInv
    <2>2. g \in Roles \X Tiers /\ k.user \in Users
      BY TiersBelow DEF TypeOK, Tokens, Authorities
    <2> HIDE DEF g
    <2>3. granted[k.user][g] \in 0 .. TTL + 1
      BY <2>2 DEF TypeOK
    <2>4. granted[k.user][g] <= TTL
      BY <2>1, <2>3, AdmissionAssumption
    <2>5. QED
      BY <2>4 DEF g
  <1>4. QED
    BY <1>1, <1>2, <1>3, AdmissionTypeOK, PTL DEF Spec

-----------------------------------------------------------------------------
(* Lockout *)

Small(h) == Cardinality(Kept(h)) <= MaxKeys + 1

\* The inductive form of LockoutIsShort: over the cap, no window is younger than
\* the request that went over it.
LockoutInv ==
    /\ Small(hits)
    /\ IsFull(hits) => \A c \in Counters : hits[c] # None => hits[c].age >= fullAge

LEMMA KeptFewer ==
    ASSUME NEW h, NEW g, Kept(g) \subseteq Kept(h), Small(h)
    PROVE  Small(g)
  <1>1. Cardinality(Kept(g)) <= Cardinality(Kept(h))
    BY KeptFinite, FS_Subset
  <1>2. QED
    BY <1>1, KeptFinite, AdmissionAssumption DEF Small

LEMMA KeptOneMore ==
    ASSUME NEW h, NEW g, NEW c, Kept(g) \subseteq Kept(h) \cup {c}, ~IsFull(h)
    PROVE  Small(g)
  <1>1. IsFiniteSet(Kept(h)) /\ Cardinality(Kept(h)) \in Nat
    BY KeptFinite
  <1>2. /\ IsFiniteSet(Kept(h) \cup {c})
        /\ Cardinality(Kept(h) \cup {c}) <= Cardinality(Kept(h)) + 1
    <2> DEFINE S == Kept(h)
    <2>1. IsFiniteSet(S) /\ Cardinality(S) \in Nat
      BY <1>1
    <2> HIDE DEF S
    <2>2. /\ IsFiniteSet(S \cup {c})
          /\ Cardinality(S \cup {c}) = Cardinality(S) \/ Cardinality(S \cup {c}) = Cardinality(S) + 1
      BY <2>1, FS_AddElement
    <2>3. Cardinality(S \cup {c}) <= Cardinality(S) + 1
      BY <2>1, <2>2
    <2>4. QED
      BY <2>2, <2>3 DEF S
  <1>3. Cardinality(Kept(g)) <= Cardinality(Kept(h) \cup {c})
    BY <1>2, FS_Subset
  <1>4. Cardinality(Kept(h) \cup {c}) \in Nat /\ Cardinality(Kept(g)) \in Nat
    BY <1>2, KeptFinite, FS_CardinalityType
  <1>5. Cardinality(Kept(h)) <= MaxKeys
    BY <1>1, AdmissionAssumption DEF IsFull
  <1>6. QED
    BY <1>1, <1>2, <1>3, <1>4, <1>5, AdmissionAssumption DEF Small

LEMMA LockoutStep ==
    ASSUME LimiterTypeOK, LockoutInv, LimiterStep
    PROVE  LockoutInv'
  <1>h. \A d \in Counters : hits[d] # None => hits[d] \in Hit(d) /\ hits[d].age \in 0 .. Window
    BY DEF LimiterTypeOK, Hit
  <1>p. LimiterTypeOK'
    BY LimiterTypeStep
  <1>q. \A d \in Counters : hits'[d] # None => hits'[d].age \in 0 .. Window
    BY <1>p DEF LimiterTypeOK, Hit
  <1>1. ASSUME NEW c \in Counters, NEW admitted \in BOOLEAN, Metered(c, admitted)
        PROVE  LockoutInv'
    <2> DEFINE h == Purged(hits)
    <2>1. /\ DOMAIN h = Counters
          /\ \A d \in Counters : h[d] = hits[d] \/ h[d] = None
      BY PurgedWindows DEF LimiterTypeOK
    <2>2. IsFull(h) => IsFull(hits)
      BY DEF Purged
    <2>3. fullAge' = IF IsFull(h) THEN fullAge ELSE 0
      BY <1>1 DEF Metered
    <2> HIDE DEF h
    <2>4. CASE IsFull(h) /\ hits' = h
      <3>1. Small(hits')
        <4>1. Kept(hits') \subseteq Kept(hits)
          BY <2>1, <2>4 DEF Kept
        <4>2. QED
          BY <4>1, KeptFewer DEF LockoutInv
      <3>2. \A d \in Counters : hits'[d] # None => hits'[d].age >= fullAge'
        BY <2>1, <2>2, <2>3, <2>4 DEF LockoutInv
      <3>3. QED
        BY <3>1, <3>2 DEF LockoutInv
    <2>5. CASE ~IsFull(h) /\ hits' = [h EXCEPT ![c] = Counted(h[c], Limit[c[1]])]
      <3>1. Small(hits')
        <4>1. Kept(hits') \subseteq Kept(h) \cup {c}
          BY <2>1, <2>5 DEF Kept
        <4>2. QED
          BY <2>5, <4>1, KeptOneMore
      <3>2. \A d \in Counters : hits'[d] # None => hits'[d].age >= fullAge'
        BY <1>q, <2>3, <2>5, AdmissionAssumption
      <3>3. QED
        BY <3>1, <3>2 DEF LockoutInv
    <2>6. QED
      BY <1>1, <2>4, <2>5 DEF Metered, Allow, h
  <1>2. CASE LimiterKept
    BY <1>2 DEF LimiterKept, LockoutInv, Small, IsFull
  <1>3. CASE LimiterStarts
    <2>1. Kept(hits') = {}
      BY <1>3 DEF LimiterStarts, Kept, NoHits
    <2>2. Small(hits')
      BY <2>1, FS_EmptySet, AdmissionAssumption DEF Small
    <2>3. \A d \in Counters : hits'[d] = None
      BY <1>3 DEF LimiterStarts, NoHits
    <2>4. QED
      BY <2>2, <2>3 DEF LockoutInv
  <1>4. CASE Tick
    <2>1. Kept(hits') = Kept(hits)
      <3>1. \A d \in Counters : hits'[d] = None <=> hits[d] = None
        BY <1>4, TickWindows, HitIsNoNone
      <3>2. QED
        BY <3>1 DEF Kept
    <2>2. ASSUME IsFull(hits'), NEW d \in Counters, hits'[d] # None
          PROVE  hits'[d].age >= fullAge'
      <3>1. IsFull(hits)
        BY <2>1, <2>2 DEF IsFull
      <3>2. fullAge' = Older(fullAge, Window)
        BY <1>4, <3>1 DEF Tick
      <3>3. hits[d] # None
        BY <1>4, <2>2, TickWindows
      <3>4. hits'[d] = [age |-> Older(hits[d].age, Window), count |-> hits[d].count]
        BY <1>4, <3>3, TickWindows
      <3>5. hits'[d].age = Older(hits[d].age, Window)
        BY <3>4
      <3>6. /\ fullAge <= hits[d].age
            /\ fullAge \in 0 .. Window /\ hits[d].age \in 0 .. Window /\ Window \in Nat
        BY <1>h, <3>1, <3>3, AdmissionAssumption DEF LockoutInv, LimiterTypeOK
      <3>7. Older(fullAge, Window) <= Older(hits[d].age, Window)
        BY <3>6, OlderMonotone
      <3>8. Older(fullAge, Window) \in Nat /\ Older(hits[d].age, Window) \in Nat
        BY <3>6, OlderType
      <3>9. QED
        BY <3>2, <3>5, <3>7, <3>8
    <2>3. QED
      BY <2>1, <2>2 DEF LockoutInv, Small
  <1>5. ASSUME NEW c \in Counters, LimiterWatched(c) PROVE LockoutInv'
    BY <1>5 DEF LimiterWatched, LockoutInv, Small, IsFull
  <1>6. QED
    BY <1>1, <1>2, <1>3, <1>4, <1>5 DEF LimiterStep

\* The table of windows stays within one of its cap; when it refuses everyone for
\* being over it, one window later a request is counted again.
THEOREM Lockout == Spec => []LockoutIsShort
  <1>1. Init => LockoutInv
    <2> SUFFICES ASSUME Init PROVE LockoutInv
      OBVIOUS
    <2>1. Kept(hits) = {} /\ \A c \in Counters : hits[c] = None
      BY DEF Init, Kept, NoHits
    <2>2. QED
      BY <2>1, FS_EmptySet, AdmissionAssumption DEF LockoutInv, Small
  <1>2. TypeOK /\ LockoutInv /\ [Next]_vars => LockoutInv'
    BY NextLimiterStep, LockoutStep DEF TypeOK, LimiterTypeOK
  <1>3. TypeOK /\ LockoutInv => LockoutIsShort
    <2> SUFFICES ASSUME TypeOK, LockoutInv, fullAge >= Window PROVE ~IsFull(Purged(hits))
      BY DEF LockoutIsShort, LockoutInv, Small
    <2>1. CASE ~IsFull(hits)
      BY <2>1 DEF Purged
    <2>2. CASE IsFull(hits)
      <3>1. \A c \in Counters : hits[c] # None => Expired(hits[c])
        <4>1. \A c \in Counters : hits[c] # None => hits[c].age \in 0 .. Window /\ hits[c].age >= fullAge
          BY <2>2 DEF TypeOK, Hit, LockoutInv
        <4>2. fullAge \in 0 .. Window
          BY DEF TypeOK
        <4>3. QED
          BY <4>1, <4>2, AdmissionAssumption DEF Expired
      <3>2. Kept(Purged(hits)) = {}
        BY <2>2, <3>1 DEF Kept, Purged
      <3>3. QED
        BY <3>2, FS_EmptySet, AdmissionAssumption DEF IsFull
    <2>3. QED
      BY <2>1, <2>2
  <1>4. QED
    BY <1>1, <1>2, <1>3, AdmissionTypeOK, PTL DEF Spec
=============================================================================
