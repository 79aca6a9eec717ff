----------------------------- MODULE Admission -----------------------------
(***************************************************************************)
(* Who is let in and how often: app/auth.py (the user table and the signed *)
(* tokens) together with app/limits.py (windows per bucket and caller).    *)
(*                                                                         *)
(* The table of users is read once per process.  A token carries its       *)
(* authority, and is never looked up again, so a restart with another      *)
(* table leaves old tokens in use.  Every endpoint meters its caller, by   *)
(* account while the token holds and by address otherwise.                 *)
(* Time is counted in ticks; the ages of windows and tokens are capped     *)
(* where no guard tells them apart any more.                               *)
(***************************************************************************)
EXTENDS Integers, Sequences, FiniteSets

CONSTANTS
    TierSeq,      \* TIERS, least privileged first
    Roles,        \* ROLES
    DefaultRole,  \* DEFAULT_ROLE
    Users,        \* names that may stand in DEMO_USERS
    Entries,      \* what DEMO_USERS may say of one of them
    Peers,        \* network addresses
    SigningKeys,  \* values of SESSION_SIGNING_KEY
    RoleOf,       \* endpoints that need a role, by rate-limit bucket
    Limit,        \* admissions per window of each bucket, "login" included
    Window,       \* RATE_LIMIT_WINDOW_SECONDS
    TTL,          \* TOKEN_TTL_SECONDS
    MaxKeys,      \* _MAX_KEYS
    MaxTokens,    \* bound on the tokens clients hold
    None

Tiers == {TierSeq[i] : i \in 1 .. Len(TierSeq)}

Buckets == DOMAIN Limit

\* The keys of _HITS: a bucket and an account or an address.
Counters == Buckets \X (Users \cup Peers)

Authorities == [clearance : Tiers, role : Roles]

ASSUME AdmissionAssumption ==
    /\ TierSeq \in Seq(STRING)
    /\ DefaultRole \in Roles
    /\ IsFiniteSet(Users) /\ IsFiniteSet(Peers) /\ IsFiniteSet(DOMAIN Limit)
    /\ Limit \in [DOMAIN Limit -> Nat]
    /\ DOMAIN RoleOf \subseteq DOMAIN Limit /\ "login" \in DOMAIN Limit
    /\ Window \in Nat \ {0} /\ TTL \in Nat /\ MaxKeys \in Nat /\ MaxTokens \in Nat
    /\ None \notin Authorities
    /\ None \notin [age : 0 .. Window, count : Nat]
    /\ None \notin [counter : Counters, age : 0 .. Window - 1, count : Nat]

VARIABLES
    users,        \* _USERS
    signer,       \* SESSION_SIGNING_KEY of this process
    tokens,       \* the tokens clients hold
    hits,         \* _HITS
    granted,      \* history: ticks since the table last granted a role in a tier
    watch,        \* an observer that counts the admissions of one counter
    fullAge       \* history: ticks since the request that took _HITS over _MAX_KEYS

vars == <<users, signer, tokens, hits, granted, watch, fullAge>>

Tokens == [user : Users, auth : Authorities, key : SigningKeys, age : 0 .. TTL + 1]

\* The start of a window is kept as its age, its count up to one above the limit.
Hit(c) == [age : 0 .. Window, count : 0 .. Limit[c[1]] + 1]

Watches == [counter : Counters, age : 0 .. Window - 1, count : Nat]

TypeOK ==
    /\ users \in [Users -> Authorities \cup {None}]
    /\ signer \in SigningKeys
    /\ tokens \subseteq Tokens
    /\ DOMAIN hits = Counters
    /\ \A c \in Counters : hits[c] \in Hit(c) \cup {None}
    /\ granted \in [Users -> [Roles \X Tiers -> 0 .. TTL + 1]]
    /\ watch \in Watches \cup {None}
    /\ fullAge \in 0 .. Window

-----------------------------------------------------------------------------
(* auth.py *)

\* A clearance grants its own tier and every tier below it; an unknown one none.
AllowedTiers(clearance) ==
    UNION {{TierSeq[j] : j \in 1 .. i} : i \in {k \in 1 .. Len(TierSeq) : TierSeq[k] = clearance}}

\* Mutant: an entry is taken as it stands.
SeededUserUnchecked(entry) ==
    IF entry = None \/ entry.role = None THEN None
    ELSE [clearance |-> entry.clearance, role |-> entry.role]

\* An entry that names no role reads; one with a clearance or a role nobody
\* knows is skipped.
SeededUser(entry) ==
    IF entry = None \/ entry.clearance \notin Tiers \/ entry.role \notin Roles \cup {None}
    THEN None
    ELSE [clearance |-> entry.clearance,
          role |-> IF entry.role = None THEN DefaultRole ELSE entry.role]

Grants(auth, r, t) == auth # None /\ auth.role = r /\ t \in AllowedTiers(auth.clearance)

\* Ticks since a table last granted it, given those before this table was read.
GrantedSince(table, before) ==
    [u \in Users |-> [g \in Roles \X Tiers |->
        IF Grants(table[u], g[1], g[2]) THEN 0 ELSE before[u][g]]]

\* Mutant: a token is accepted one tick too long.
VerifyTokenLate(k) == k.key = signer /\ k.age <= TTL + 1

\* Signed with this process's key, and not expired; TIERS and ROLES never change, so
\* the second look at clearance and role finds them as they were issued.
VerifyToken(k) == k.key = signer /\ k.age <= TTL

\* The token of an account with its authority of now.
Issued(u) == [user |-> u, auth |-> users[u], key |-> signer, age |-> 0]

\* The guards of an endpoint: a valid token (or 401), its one role (or 403).
MayCall(bucket, k) == VerifyToken(k) /\ k.auth.role = RoleOf[bucket]

-----------------------------------------------------------------------------
(* limits.py *)

Kept(h) == {c \in Counters : h[c] # None}

IsFull(h) == Cardinality(Kept(h)) > MaxKeys

\* The window has passed.
Expired(w) == w # None /\ w.age >= Window

\* Over the cap, expired windows are dropped.
Purged(h) ==
    IF IsFull(h) THEN [c \in Counters |-> IF Expired(h[c]) THEN None ELSE h[c]] ELSE h

\* Mutant: once it has refused, a window starts anew before its length has passed.
CountedAnew(w, limit) ==
    IF w = None \/ Expired(w) \/ w.count > limit THEN [age |-> 0, count |-> 1]
    ELSE [age |-> w.age, count |-> w.count + 1]

\* A refusal counts as well.
Counted(w, limit) ==
    IF w = None \/ Expired(w) THEN [age |-> 0, count |-> 1]
    ELSE [age |-> w.age, count |-> IF w.count > limit THEN limit + 1 ELSE w.count + 1]

\* Mutant: a caller that is refused because the table is full is counted all the same.
AllowAlwaysCounts(c, admitted) ==
    LET h == Purged(hits)
    IN /\ hits' = [h EXCEPT ![c] = [age |-> 0, count |-> 1]]
       /\ admitted = ~IsFull(h)

\* _allow: still over the cap, nobody is admitted and nobody is counted.
Allow(c, admitted) ==
    LET h == Purged(hits)
    IN \/ IsFull(h) /\ ~admitted /\ hits' = h
       \/ /\ ~IsFull(h)
          /\ hits' = [h EXCEPT ![c] = Counted(h[c], Limit[c[1]])]
          /\ admitted = (hits'[c].count <= Limit[c[1]])

\* _caller: the account a valid token names, the address otherwise.  A token
\* verified for the endpoint may have expired when it is verified for this.
Callers(k, peer) ==
    IF k = None \/ ~VerifyToken(k) THEN {peer}
    ELSE {k.user} \cup (IF k.age = TTL THEN {peer} ELSE {})

\* The rate_limit dependency of one bucket, with what the observers see of it.
RateLimit(bucket, k, peer, admitted) ==
    \E caller \in Callers(k, peer) :
        LET c == <<bucket, caller>>
        IN /\ Allow(c, admitted)
           /\ watch' = IF admitted /\ watch # None /\ watch.counter = c
                       THEN [watch EXCEPT !.count = @ + 1] ELSE watch
           /\ fullAge' = IF IsFull(Purged(hits)) THEN fullAge ELSE 0

-----------------------------------------------------------------------------
(* Requests *)

NoHits == [c \in Counters |-> None]

NeverGranted == [u \in Users |-> [g \in Roles \X Tiers |-> TTL + 1]]

Init ==
    /\ \E spec \in [Users -> Entries \cup {None}] :
          users = [u \in Users |-> SeededUser(spec[u])]
    /\ signer \in SigningKeys
    /\ tokens = {}
    /\ hits = NoHits
    /\ granted = GrantedSince(users, NeverGranted)
    /\ watch = None
    /\ fullAge = 0

\* POST /login with the right password.
Login(u, k, peer) ==
    \E admitted \in BOOLEAN :
        /\ RateLimit("login", k, peer, admitted)
        /\ IF admitted /\ users[u] # None
           THEN /\ Cardinality(tokens) < MaxTokens
                /\ tokens' = tokens \cup {Issued(u)}
           ELSE tokens' = tokens
        /\ UNCHANGED <<users, signer, granted>>

\* POST /login with a wrong password, which is metered like any other.
LoginRefused(k, peer) ==
    /\ \E admitted \in BOOLEAN : RateLimit("login", k, peer, admitted)
    /\ UNCHANGED <<users, signer, tokens, granted>>

\* An endpoint behind require_role.  A request its guards refuse is not metered.
Call(bucket, k, peer) ==
    /\ MayCall(bucket, k)
    /\ \E admitted \in BOOLEAN : RateLimit(bucket, k, peer, admitted)
    /\ UNCHANGED <<users, signer, tokens, granted>>

\* A client drops a token.
Discard(k) ==
    /\ tokens' = tokens \ {k}
    /\ UNCHANGED <<users, signer, hits, granted, watch, fullAge>>

Older(age, cap) == IF age >= cap THEN cap ELSE age + 1

Tick ==
    /\ hits' = [c \in Counters |->
          IF hits[c] = None THEN None ELSE [hits[c] EXCEPT !.age = Older(@, Window)]]
    /\ tokens' = {[k EXCEPT !.age = Older(@, TTL + 1)] : k \in tokens}
    /\ granted' = GrantedSince(users,
          [u \in Users |-> [g \in Roles \X Tiers |-> Older(granted[u][g], TTL + 1)]])
    /\ watch' = IF watch = None \/ watch.age + 1 >= Window THEN None
                ELSE [watch EXCEPT !.age = @ + 1]
    /\ fullAge' = IF IsFull(hits) THEN Older(fullAge, Window) ELSE 0
    /\ UNCHANGED <<users, signer>>

\* The process stops, and starts with what its environment says by then.
Restart ==
    \E spec \in [Users -> Entries \cup {None}], key \in SigningKeys :
        /\ users' = [u \in Users |-> SeededUser(spec[u])]
        /\ signer' = key
        /\ hits' = NoHits
        /\ granted' = GrantedSince(users', granted)
        /\ watch' = None
        /\ fullAge' = 0
        /\ UNCHANGED tokens

\* The observer begins to count, at any time, the admissions of any counter.
Watch(c) ==
    /\ watch = None
    /\ watch' = [counter |-> c, age |-> 0, count |-> 0]
    /\ UNCHANGED <<users, signer, tokens, hits, granted, fullAge>>

Next ==
    \/ \E peer \in Peers, k \in tokens \cup {None} :
          \/ \E u \in Users : Login(u, k, peer)
          \/ LoginRefused(k, peer)
    \/ \E bucket \in DOMAIN RoleOf, k \in tokens, peer \in Peers : Call(bucket, k, peer)
    \/ \E k \in tokens : Discard(k)
    \/ \E c \in Counters : Watch(c)
    \/ Tick
    \/ Restart

Spec == Init /\ [][Next]_vars

-----------------------------------------------------------------------------
(* Properties *)

\* "a burst can straddle a window boundary": in any span of a window's length a
\* counter admits at most twice its limit, through purges and refusals.
BurstIsBounded == watch # None => watch.count <= 2 * Limit[watch.counter[1]]

\* What a valid token lets its holder do in a tier, a table of users granted that
\* account at most a token's lifetime ago, whatever was revoked since.
AuthorityIsRecent ==
    \A k \in tokens : VerifyToken(k) =>
        \A t \in AllowedTiers(k.auth.clearance) : granted[k.user][<<k.auth.role, t>>] <= TTL

\* _HITS never grows past one above its cap.  A table over its cap, which refuses
\* everyone, refuses for one window at most: the request after that finds room.
LockoutIsShort ==
    /\ Cardinality(Kept(hits)) <= MaxKeys + 1
    /\ fullAge >= Window => ~IsFull(Purged(hits))
=============================================================================
