----------------------------- MODULE ChatProofs -----------------------------
(***************************************************************************)
(* Theorems about Chat.  What a list of turns looks like when the lock is  *)
(* free follows from what it looks like while it is held (ListsOK); what a *)
(* replay returns follows from where its list starts: at the turn it       *)
(* started at when the replay began, plus one for each cut (ReplaysOK).    *)
(***************************************************************************)
EXTENDS Chat, TLAPS

SessionSet == [owner : Users, turns : Seq(Turns), added : Nat]

RequestSet == [pc : {"idle", "replay", "answer", "append", "trim"},
               user : Users \cup {NoOne}, id : Nat, messages : Seq(Turns)]

ReplaySet == [oldest : Int, length : Nat, trims : Nat]

Types ==
    /\ sessions \in Seq(SessionSet)
    /\ table \in Seq(Nat)
    /\ lock \in Requests \cup {NoOne}
    /\ req \in [Requests -> RequestSet]
    /\ asked \in 0 .. MaxQuestions
    /\ replay \in [Requests -> ReplaySet]

\* The number of the first turn of a list.
First(s) == s.added - Len(s.turns) + 1

Numbered(s) ==
    \A k \in 1 .. Len(s.turns) : s.turns[k] = Turn(s.owner, First(s) + k - 1)

\* Nobody is inside append for the session, or somebody is.
Settled(s) == Len(s.turns) = IF s.added < MaxTurns THEN s.added ELSE MaxTurns

Grown(s) == Len(s.turns) = IF s.added <= MaxTurns THEN s.added ELSE MaxTurns + 1

TableOK ==
    /\ Len(table) = IF Len(sessions) > MaxSessions THEN MaxSessions ELSE Len(sessions)
    /\ \A k \in 1 .. Len(table) : table[k] = Len(sessions) - Len(table) + k

\* A request past its first step has a session of its own; the one in "trim" has
\* the lock.
RequestsOK ==
    \A r \in Requests :
        /\ req[r].pc = "idle" => req[r].id = 0 /\ req[r].messages = <<>>
        /\ req[r].pc # "idle" => /\ req[r].id \in 1 .. Len(sessions)
                                 /\ req[r].user = sessions[req[r].id].owner
        /\ req[r].pc = "trim" <=> lock = r

ListsOK ==
    \A id \in 1 .. Len(sessions) :
        /\ Numbered(sessions[id])
        /\ IF lock # NoOne /\ req[lock].id = id THEN Grown(sessions[id])
           ELSE Settled(sessions[id])

\* What a replay has read so far.
MessagesOK(q, f) ==
    /\ \A k \in 1 .. Len(q.messages) :
          /\ q.messages[k].user = q.user
          /\ q.messages[k].n \in f.oldest + k - 1 .. f.oldest + k - 1 + f.trims
    /\ \A j, k \in 1 .. Len(q.messages) : j < k => q.messages[j].n < q.messages[k].n
    /\ Len(q.messages) <= MaxTurns + 1

\* What is left for it to read.
AheadOK(f, s) ==
    /\ First(s) = f.oldest + f.trims
    /\ f.length <= Len(s.turns)
    /\ f.length <= MaxTurns

ReplaysOK ==
    \A r \in Requests :
        /\ req[r].pc \in {"replay", "answer"} => MessagesOK(req[r], replay[r])
        /\ req[r].pc = "replay" => AheadOK(replay[r], sessions[req[r].id])
        /\ req[r].pc = "answer" => replay[r].length <= Len(req[r].messages)
        /\ req[r].pc \in {"append", "trim"} => req[r].messages = <<>>

IInv == Types /\ TableOK /\ RequestsOK /\ ListsOK /\ ReplaysOK

-----------------------------------------------------------------------------
(* Lists *)

\* What remains of a list whose oldest elements are deleted is its tail.
LEMMA LatestIsTail ==
    ASSUME NEW S, NEW s \in Seq(S), NEW n \in Nat \ {0}
    PROVE  /\ Latest(s, n) \in Seq(S)
           /\ Len(Latest(s, n)) = IF Len(s) > n THEN n ELSE Len(s)
           /\ \A k \in 1 .. Len(Latest(s, n)) :
                 Latest(s, n)[k] = s[Len(s) - Len(Latest(s, n)) + k]
<1>1. CASE Len(s) > n
  <2>1. Latest(s, n) = SubSeq(s, Len(s) - n + 1, Len(s))
    BY <1>1 DEF Latest
  <2>2. Len(s) - n + 1 \in 1 .. Len(s) + 1 /\ Len(s) \in Nat
    BY <1>1
  <2>3. /\ SubSeq(s, Len(s) - n + 1, Len(s)) \in Seq(S)
        /\ Len(SubSeq(s, Len(s) - n + 1, Len(s))) = n
        /\ \A k \in 1 .. n : SubSeq(s, Len(s) - n + 1, Len(s))[k] = s[Len(s) - n + k]
    BY <1>1, <2>2
  <2> QED
    BY <1>1, <2>1, <2>3
<1>2. CASE ~(Len(s) > n)
  BY <1>2 DEF Latest
<1> QED
  BY <1>1, <1>2

\* A turn more: the list is numbered as before and one longer.
LEMMA TurnAdded ==
    ASSUME ChatAssumption, NEW s \in SessionSet, Numbered(s), Settled(s)
    PROVE  LET t == WithTurn(s, Turn(s.owner, s.added + 1))
           IN  /\ t \in SessionSet
               /\ t.owner = s.owner
               /\ Len(t.turns) = Len(s.turns) + 1
               /\ First(t) = First(s)
               /\ Numbered(t) /\ Grown(t)
<1> DEFINE turn == Turn(s.owner, s.added + 1)
           t == WithTurn(s, turn)
<1>1. s.owner \in Users /\ s.turns \in Seq(Turns) /\ s.added \in Nat /\ MaxTurns \in Nat
  BY DEF SessionSet, ChatAssumption
<1>2. turn \in Turns
  BY <1>1 DEF Turn, Turns
<1>3. t.owner = s.owner /\ t.turns = Append(s.turns, turn) /\ t.added = s.added + 1
  BY DEF WithTurn, Session
<1>t. t \in [owner : {t.owner}, turns : {t.turns}, added : {t.added}]
  BY DEF WithTurn, Session
<1> HIDE DEF t, turn
<1>4. /\ t.turns \in Seq(Turns) /\ Len(t.turns) = Len(s.turns) + 1
      /\ \A k \in 1 .. Len(s.turns) : t.turns[k] = s.turns[k]
      /\ t.turns[Len(s.turns) + 1] = turn
      /\ Len(s.turns) \in Nat
  BY <1>1, <1>2, <1>3
<1>5. t \in SessionSet
  <2>1. t.owner \in Users /\ t.turns \in Seq(Turns) /\ t.added \in Nat
    BY <1>1, <1>3, <1>4
  <2> QED
    BY <1>t, <2>1 DEF SessionSet
<1>6. First(t) = First(s)
  <2>1. \A a, n \in Nat : (a + 1) - (n + 1) + 1 = a - n + 1
    OBVIOUS
  <2>2. t.added - Len(t.turns) + 1 = (s.added + 1) - (Len(s.turns) + 1) + 1
    BY <1>3, <1>4
  <2> QED
    BY <1>1, <1>4, <2>1, <2>2 DEF First
<1>7. Numbered(t)
  <2> SUFFICES ASSUME NEW k \in 1 .. Len(t.turns)
               PROVE  t.turns[k] = Turn(t.owner, First(t) + k - 1)
    BY DEF Numbered
  <2>1. CASE k \in 1 .. Len(s.turns)
    BY <1>3, <1>4, <1>6, <2>1 DEF Numbered
  <2>2. CASE k = Len(s.turns) + 1
    <3>1. First(t) + k - 1 = s.added + 1
      BY <1>1, <1>6, <2>2 DEF First
    <3> QED
      BY <1>3, <1>4, <2>2, <3>1 DEF turn
  <2> QED
    BY <1>1, <1>4, <2>1, <2>2
<1>8. Grown(t)
  <2>1. Len(s.turns) = IF s.added < MaxTurns THEN s.added ELSE MaxTurns
    BY DEF Settled
  <2> QED
    BY <1>1, <1>3, <1>4, <2>1 DEF Grown
<1> QED
  BY <1>3, <1>4, <1>5, <1>6, <1>7, <1>8 DEF t, turn

\* The cut: the list is settled, and starts one turn later if it was too long.
LEMMA TurnsCut ==
    ASSUME ChatAssumption, NEW s \in SessionSet, Numbered(s), Grown(s)
    PROVE  LET t == Session(s.owner, Kept(s.turns), s.added)
           IN  /\ t \in SessionSet
               /\ t.owner = s.owner
               /\ Numbered(t) /\ Settled(t)
               /\ Len(s.turns) > MaxTurns => First(t) = First(s) + 1 /\ Len(t.turns) = MaxTurns
               /\ ~(Len(s.turns) > MaxTurns) => t = s
<1> DEFINE t == Session(s.owner, Kept(s.turns), s.added)
<1>1. s.owner \in Users /\ s.turns \in Seq(Turns) /\ s.added \in Nat /\ MaxTurns \in Nat \ {0}
      /\ s = [owner |-> s.owner, turns |-> s.turns, added |-> s.added]
  BY DEF SessionSet, ChatAssumption
<1>2. t.owner = s.owner /\ t.turns = Latest(s.turns, MaxTurns) /\ t.added = s.added
      /\ t = [owner |-> t.owner, turns |-> t.turns, added |-> t.added]
  BY DEF Session, Kept
<1>t. t \in [owner : {t.owner}, turns : {t.turns}, added : {t.added}]
  BY DEF Session
<1> HIDE DEF t
<1>3. /\ t.turns \in Seq(Turns)
      /\ Len(t.turns) = IF Len(s.turns) > MaxTurns THEN MaxTurns ELSE Len(s.turns)
      /\ \A k \in 1 .. Len(t.turns) : t.turns[k] = s.turns[Len(s.turns) - Len(t.turns) + k]
  <2>1. /\ Latest(s.turns, MaxTurns) \in Seq(Turns)
        /\ Len(Latest(s.turns, MaxTurns)) = IF Len(s.turns) > MaxTurns
                                           THEN MaxTurns ELSE Len(s.turns)
        /\ \A k \in 1 .. Len(Latest(s.turns, MaxTurns)) :
              Latest(s.turns, MaxTurns)[k]
                = s.turns[Len(s.turns) - Len(Latest(s.turns, MaxTurns)) + k]
    BY <1>1, LatestIsTail
  <2> QED
    BY <1>2, <2>1
<1>4. t \in SessionSet
  BY <1>1, <1>2, <1>3, <1>t DEF SessionSet
<1>5. Len(s.turns) = IF s.added <= MaxTurns THEN s.added ELSE MaxTurns + 1
  BY DEF Grown
<1>6. Settled(t)
  BY <1>1, <1>2, <1>3, <1>5 DEF Settled
<1>7. Numbered(t)
  <2> SUFFICES ASSUME NEW k \in 1 .. Len(t.turns)
               PROVE  t.turns[k] = Turn(t.owner, First(t) + k - 1)
    BY DEF Numbered
  <2> DEFINE j == Len(s.turns) - Len(t.turns) + k
  <2>1. j \in 1 .. Len(s.turns)
    BY <1>1, <1>3
  <2>2. s.turns[j] = Turn(s.owner, First(s) + j - 1)
    BY <2>1 DEF Numbered
  <2>3. First(s) + j - 1 = First(t) + k - 1
    BY <1>1, <1>2, <1>3 DEF First
  <2> QED
    BY <1>2, <1>3, <2>2, <2>3
<1>8. Len(s.turns) > MaxTurns => First(t) = First(s) + 1 /\ Len(t.turns) = MaxTurns
  BY <1>1, <1>2, <1>3, <1>5 DEF First
<1>9. ~(Len(s.turns) > MaxTurns) => t = s
  BY <1>1, <1>2 DEF Latest
<1> QED
  BY <1>2, <1>4, <1>6, <1>7, <1>8, <1>9 DEF t

-----------------------------------------------------------------------------
(* What the invariant says of one request *)

\* A request past its first step: its session, its list and their types.
LEMMA SessionInUse ==
    ASSUME ChatAssumption, IInv, NEW r \in Requests, req[r].pc # "idle"
    PROVE  LET s == sessions[req[r].id]
           IN  /\ req[r] \in RequestSet /\ replay[r] \in ReplaySet
               /\ req[r].id \in 1 .. Len(sessions)
               /\ s \in SessionSet /\ s.owner = req[r].user /\ s.owner \in Users
               /\ s.turns \in Seq(Turns) /\ s.added \in Nat
               /\ Len(s.turns) \in 0 .. MaxTurns + 1
               /\ Numbered(s)
               /\ lock = NoOne => Settled(s) /\ Len(s.turns) <= MaxTurns
               /\ lock = r => Grown(s)
<1> DEFINE s == sessions[req[r].id]
<1>1. req[r] \in RequestSet /\ replay[r] \in ReplaySet /\ req[r].id \in 1 .. Len(sessions)
      /\ s.owner = req[r].user
  BY DEF IInv, Types, RequestsOK
<1>2. s \in SessionSet
  BY <1>1 DEF IInv, Types
<1>3. s.owner \in Users /\ s.turns \in Seq(Turns) /\ s.added \in Nat
  BY <1>2 DEF SessionSet
<1>4. Numbered(s) /\ (IF lock # NoOne /\ req[lock].id = req[r].id THEN Grown(s) ELSE Settled(s))
  BY <1>1 DEF IInv, ListsOK
<1>5. Settled(s) => Len(s.turns) <= MaxTurns
  BY <1>3 DEF Settled, ChatAssumption
<1>6. Grown(s) => Len(s.turns) <= MaxTurns + 1
  BY <1>3 DEF Grown, ChatAssumption
<1>7. Len(s.turns) \in Nat /\ MaxTurns \in Nat /\ NoOne \notin Requests
  BY <1>3 DEF ChatAssumption
<1> QED
  BY <1>1, <1>2, <1>3, <1>4, <1>5, <1>6, <1>7

\* The next turn of a replay carries the number its place asks for, plus the cuts.
LEMMA ReadTurnKeeps ==
    ASSUME ChatAssumption, IInv, NEW r \in Requests, ReadTurn(r)
    PROVE  IInv'
<1> DEFINE m == req[r].messages
           f == replay[r]
           s == sessions[req[r].id]
           t == s.turns[Len(m) + 1]
           q == Request("replay", req[r].user, req[r].id, Append(m, t))
<1>1. /\ req[r].pc = "replay" /\ Len(m) < Len(s.turns)
      /\ req' = [req EXCEPT ![r] = q]
      /\ UNCHANGED <<sessions, table, lock, asked, replay>>
  BY DEF ReadTurn, TurnsOf
<1>2. /\ req[r] \in RequestSet /\ f \in ReplaySet /\ s.owner = req[r].user
      /\ s.owner \in Users /\ s.turns \in Seq(Turns) /\ s.added \in Nat
      /\ Len(s.turns) \in 0 .. MaxTurns + 1 /\ Numbered(s)
  BY <1>1, SessionInUse
<1>3. m \in Seq(Turns) /\ Len(m) \in Nat /\ f.oldest \in Int /\ f.trims \in Nat /\ f.length \in Nat
      /\ MaxTurns \in Nat
  BY <1>2 DEF RequestSet, ReplaySet, ChatAssumption
<1>4. MessagesOK(req[r], f) /\ AheadOK(f, s)
  BY <1>1 DEF IInv, ReplaysOK
<1>5. t = Turn(s.owner, First(s) + Len(m))
  <2>1. Len(m) + 1 \in 1 .. Len(s.turns)
    BY SMTT(20), <1>1, <1>2, <1>3
  <2>2. t = Turn(s.owner, First(s) + (Len(m) + 1) - 1)
    BY <1>2, <2>1 DEF Numbered
  <2>3. First(s) + (Len(m) + 1) - 1 = First(s) + Len(m)
    BY <1>2, <1>3 DEF First
  <2> QED
    BY <2>2, <2>3
<1>6. t \in Turns /\ t.user = req[r].user /\ t.n = f.oldest + f.trims + Len(m)
  <2>1. Len(m) + 1 \in 1 .. Len(s.turns)
    BY SMTT(20), <1>1, <1>2, <1>3
  <2>2. t \in Turns
    BY <1>2, <2>1
  <2>3. First(s) = f.oldest + f.trims
    BY <1>4 DEF AheadOK
  <2> QED
    BY <1>2, <1>5, <2>2, <2>3 DEF Turn
<1>7. q.pc = "replay" /\ q.user = req[r].user /\ q.id = req[r].id /\ q.messages = Append(m, t)
      /\ q \in RequestSet
  <2>1. Append(m, t) \in Seq(Turns)
    BY <1>3, <1>6
  <2>2. req[r].user \in Users \cup {NoOne} /\ req[r].id \in Nat
    BY <1>2 DEF RequestSet
  <2> HIDE DEF t, m
  <2> QED
    BY <2>1, <2>2 DEF Request, RequestSet
<1> HIDE DEF q, t
<1>8. req'[r] = q /\ (\A p \in Requests \ {r} : req'[p] = req[p])
      /\ req' \in [Requests -> RequestSet]
      /\ \A p \in Requests : req'[p].pc = req[p].pc /\ req'[p].id = req[p].id
                             /\ req'[p].user = req[p].user
  BY <1>1, <1>7 DEF IInv, Types
<1>9. Types'
  BY <1>1, <1>8 DEF IInv, Types
<1>10. TableOK'
  BY <1>1 DEF IInv, TableOK
<1>11. RequestsOK'
  BY <1>1, <1>8 DEF IInv, RequestsOK
<1>12. ListsOK'
  <2>1. lock # NoOne => req'[lock].id = req[lock].id
    BY <1>8 DEF IInv, Types
  <2> QED
    BY <1>1, <2>1 DEF IInv, ListsOK
<1>13. MessagesOK(q, f)
  <2>1. /\ Len(q.messages) = Len(m) + 1
        /\ \A k \in 1 .. Len(m) : q.messages[k] = m[k]
        /\ q.messages[Len(m) + 1] = t
    BY <1>3, <1>6, <1>7
  <2>2. \A k \in 1 .. Len(m) : /\ m[k].user = req[r].user
                               /\ m[k].n \in f.oldest + k - 1 .. f.oldest + k - 1 + f.trims
    BY <1>4 DEF MessagesOK
  <2>3. \A j, k \in 1 .. Len(m) : j < k => m[j].n < m[k].n
    BY <1>4 DEF MessagesOK
  <2>4. \A k \in 1 .. Len(q.messages) :
          /\ q.messages[k].user = q.user
          /\ q.messages[k].n \in f.oldest + k - 1 .. f.oldest + k - 1 + f.trims
    <3> SUFFICES ASSUME NEW k \in 1 .. Len(q.messages)
                 PROVE  /\ q.messages[k].user = q.user
                        /\ q.messages[k].n \in f.oldest + k - 1 .. f.oldest + k - 1 + f.trims
      OBVIOUS
    <3>1. CASE k \in 1 .. Len(m)
      BY <1>7, <2>1, <2>2, <3>1
    <3>2. CASE k = Len(m) + 1
      <4>1. q.messages[k] = t
        BY <2>1, <3>2
      <4>2. t.n \in f.oldest + k - 1 .. f.oldest + k - 1 + f.trims
        <5>1. \A o \in Int, c, n \in Nat : o + c + n \in o + (n + 1) - 1 .. o + (n + 1) - 1 + c
          OBVIOUS
        <5> HIDE DEF m, f
        <5> QED
          BY <1>3, <1>6, <3>2, <5>1
      <4> QED
        BY <1>6, <1>7, <4>1, <4>2
    <3> QED
      BY SMTT(20), <1>3, <2>1, <3>1, <3>2
  <2>5. \A j, k \in 1 .. Len(q.messages) : j < k => q.messages[j].n < q.messages[k].n
    <3> SUFFICES ASSUME NEW j \in 1 .. Len(q.messages), NEW k \in 1 .. Len(q.messages), j < k
                 PROVE  q.messages[j].n < q.messages[k].n
      OBVIOUS
    <3>1. j \in 1 .. Len(m)
      BY <1>3, <2>1
    <3>2. CASE k \in 1 .. Len(m)
      BY <2>1, <2>3, <3>1, <3>2
    <3>3. CASE k = Len(m) + 1
      <4>1. m[j].n \in f.oldest + j - 1 .. f.oldest + j - 1 + f.trims
        BY <2>2, <3>1
      <4>2. \A o, x \in Int, c, n \in Nat, i \in Nat :
               i <= n /\ x \in o + i - 1 .. o + i - 1 + c => x < o + c + n
        OBVIOUS
      <4>3. q.messages[j] = m[j] /\ q.messages[k] = t
        BY <2>1, <3>1, <3>3
      <4>4. m[j].n \in Int
        BY <1>3, <4>1
      <4>5. m[j].n < t.n
        <5> HIDE DEF m, f
        <5> QED
          BY SMTT(20), <1>3, <1>6, <3>1, <4>1, <4>2, <4>4
      <4> QED
        BY <4>3, <4>5
    <3> QED
      BY SMTT(20), <1>3, <2>1, <3>2, <3>3
  <2>6. Len(q.messages) <= MaxTurns + 1
    BY <1>1, <1>2, <1>3, <2>1
  <2> QED
    BY <2>4, <2>5, <2>6 DEF MessagesOK
<1>14. ReplaysOK'
  BY <1>1, <1>4, <1>7, <1>8, <1>13 DEF IInv, ReplaysOK
<1> QED
  BY <1>9, <1>10, <1>11, <1>12, <1>14 DEF IInv

LEMMA ReadDoneKeeps ==
    ASSUME ChatAssumption, IInv, NEW r \in Requests, ReadDone(r)
    PROVE  IInv'
<1> DEFINE s == sessions[req[r].id]
           q == Request("answer", req[r].user, req[r].id, req[r].messages)
<1>1. /\ req[r].pc = "replay" /\ Len(req[r].messages) >= Len(s.turns)
      /\ req' = [req EXCEPT ![r] = q]
      /\ UNCHANGED <<sessions, table, lock, asked, replay>>
  BY DEF ReadDone, TurnsOf
<1>2. /\ req[r] \in RequestSet /\ replay[r] \in ReplaySet /\ Len(s.turns) \in Nat
      /\ MessagesOK(req[r], replay[r]) /\ AheadOK(replay[r], s)
  BY <1>1, SessionInUse DEF IInv, ReplaysOK
<1>3. /\ q.pc = "answer" /\ q.user = req[r].user /\ q.id = req[r].id
      /\ q.messages = req[r].messages /\ q \in RequestSet
  BY <1>2 DEF Request, RequestSet
<1> HIDE DEF q
<1>4. /\ req' \in [Requests -> RequestSet] /\ req'[r] = q
      /\ \A p \in Requests \ {r} : req'[p] = req[p]
      /\ \A p \in Requests : req'[p].id = req[p].id /\ req'[p].user = req[p].user
  BY <1>1, <1>3 DEF IInv, Types
<1>5. Types' /\ TableOK' /\ RequestsOK'
  BY ZenonT(30), <1>1, <1>3, <1>4 DEF IInv, Types, TableOK, RequestsOK
<1>6. ListsOK'
  <2>1. lock # NoOne => req'[lock].id = req[lock].id
    BY <1>4 DEF IInv, Types
  <2> QED
    BY <1>1, <2>1 DEF IInv, ListsOK
<1>7. replay[r].length <= Len(q.messages)
  <2>1. replay[r].length <= Len(s.turns) /\ replay[r].length \in Nat /\ Len(q.messages) \in Nat
    BY <1>2, <1>3 DEF AheadOK, ReplaySet, RequestSet
  <2> QED
    BY SMTT(20), <1>1, <1>2, <1>3, <2>1
<1>8. MessagesOK(q, replay[r])
  BY <1>2, <1>3 DEF MessagesOK
<1>9. ReplaysOK'
  BY <1>1, <1>3, <1>4, <1>7, <1>8 DEF IInv, ReplaysOK
<1> QED
  BY <1>5, <1>6, <1>9 DEF IInv

\* A request that is not in append ends, or goes there.
LEMMA AnsweredKeeps ==
    ASSUME ChatAssumption, IInv, NEW r \in Requests, Answer(r) \/ Fail(r)
    PROVE  IInv'
<1> DEFINE q == req'[r]
<1>1. /\ req[r].pc = "answer"
      /\ \/ req' = [req EXCEPT ![r] = Request("append", req[r].user, req[r].id, <<>>)]
         \/ req' = [req EXCEPT ![r] = Idle]
      /\ replay' = [replay EXCEPT ![r] = NoReplay]
      /\ UNCHANGED <<sessions, table, lock, asked>>
  BY DEF Answer, Fail
<1>2. req[r] \in RequestSet
  BY DEF IInv, Types
<1>3. /\ q.messages = <<>> /\ q \in RequestSet
      /\ \/ q.pc = "append" /\ q.user = req[r].user /\ q.id = req[r].id
         \/ q.pc = "idle" /\ q.id = 0
      /\ \A p \in Requests \ {r} : req'[p] = req[p]
      /\ DOMAIN req' = Requests
  <2>1. CASE req' = [req EXCEPT ![r] = Request("append", req[r].user, req[r].id, <<>>)]
    BY <1>2, <2>1 DEF IInv, Types, Request, RequestSet
  <2>2. CASE req' = [req EXCEPT ![r] = Idle]
    BY <1>2, <2>2 DEF IInv, Types, Request, RequestSet, Idle
  <2> QED
    BY <1>1, <2>1, <2>2
<1>4. req' \in [Requests -> RequestSet]
  <2>1. req' = [p \in Requests |-> req'[p]]
    BY <1>1 DEF IInv, Types
  <2>2. \A p \in Requests : req'[p] \in RequestSet
    BY <1>3 DEF IInv, Types
  <2> QED
    BY <2>1, <2>2
<1> HIDE DEF q
<1>5. /\ replay' \in [Requests -> ReplaySet]
      /\ \A p \in Requests \ {r} : replay'[p] = replay[p]
  BY <1>1 DEF IInv, Types, NoReplay, Replay, ReplaySet
<1>6. lock # r /\ (lock # NoOne => lock \in Requests \ {r})
  BY <1>1 DEF IInv, Types, RequestsOK
<1>7. Types' /\ TableOK'
  BY <1>1, <1>4, <1>5 DEF IInv, Types, TableOK
<1>8. RequestsOK'
  BY <1>1, <1>3, <1>6 DEF IInv, RequestsOK, q
<1>9. ListsOK'
  BY <1>1, <1>3, <1>6 DEF IInv, ListsOK
<1>10. ReplaysOK'
  BY <1>1, <1>3, <1>5 DEF IInv, ReplaysOK, q
<1> QED
  BY <1>7, <1>8, <1>9, <1>10 DEF IInv

\* The newest session comes last in the table and the oldest leaves it.
LEMMA TableGrows ==
    ASSUME ChatAssumption, Types, TableOK
    PROVE  LET n == Len(sessions) + 1
               new == Registered(n)
           IN  /\ new \in Seq(Nat)
               /\ Len(new) = IF n > MaxSessions THEN MaxSessions ELSE n
               /\ \A k \in 1 .. Len(new) : new[k] = n - Len(new) + k
<1> DEFINE n == Len(sessions) + 1
           long == Append(table, n)
           new == Latest(long, MaxSessions)
<1>1. n \in Nat /\ table \in Seq(Nat) /\ Len(table) \in Nat /\ MaxSessions \in Nat \ {0}
  BY DEF Types, ChatAssumption
<1>2. /\ long \in Seq(Nat) /\ Len(long) = Len(table) + 1
      /\ \A k \in 1 .. Len(table) : long[k] = table[k]
      /\ long[Len(table) + 1] = n
  <2> HIDE DEF n
  <2> QED
    BY <1>1
<1>3. Len(table) = IF n - 1 > MaxSessions THEN MaxSessions ELSE n - 1
  BY DEF TableOK, Types
<1>4. \A k \in 1 .. Len(long) : long[k] = n - Len(long) + k
  <2> SUFFICES ASSUME NEW k \in 1 .. Len(long) PROVE long[k] = n - Len(long) + k
    OBVIOUS
  <2>1. CASE k \in 1 .. Len(table)
    <3>1. long[k] = (n - 1) - Len(table) + k
      <4>1. table[k] = Len(sessions) - Len(table) + k
        BY <2>1 DEF TableOK
      <4>2. Len(sessions) = n - 1
        BY DEF Types
      <4> HIDE DEF long, n
      <4> QED
        BY <1>2, <2>1, <4>1, <4>2
    <3> QED
      BY <1>1, <1>2, <3>1
  <2>2. CASE k = Len(table) + 1
    BY <1>1, <1>2, <2>2
  <2> QED
    BY <1>1, <1>2, <2>1, <2>2
<1> HIDE DEF long, n
<1>5. /\ new \in Seq(Nat)
      /\ Len(new) = IF Len(long) > MaxSessions THEN MaxSessions ELSE Len(long)
      /\ \A k \in 1 .. Len(new) : new[k] = long[Len(long) - Len(new) + k]
  BY <1>1, <1>2, LatestIsTail
<1>6. Registered(n) = new
  BY DEF Registered, long
<1> HIDE DEF new
<1>7. Len(new) = IF n > MaxSessions THEN MaxSessions ELSE n
  BY <1>1, <1>2, <1>3, <1>5
<1>8. ASSUME NEW k \in 1 .. Len(new) PROVE new[k] = n - Len(new) + k
  <2>1. Len(long) - Len(new) + k \in 1 .. Len(long)
    BY <1>1, <1>2, <1>5
  <2>2. new[k] = n - Len(long) + (Len(long) - Len(new) + k)
    BY <1>4, <1>5, <2>1
  <2> QED
    BY <1>1, <1>2, <1>5, <2>2
<1> QED
  BY <1>5, <1>6, <1>7, <1>8 DEF n

LEMMA OpenKeeps ==
    ASSUME ChatAssumption, IInv, NEW r \in Requests, NEW user \in Users, Open(r, user)
    PROVE  IInv'
<1> DEFINE n == Len(sessions) + 1
           new == Session(user, <<>>, 0)
           q == Request("replay", user, n, <<>>)
           f == Replay(1, 0, 0)
<1>1. /\ req[r].pc = "idle" /\ lock = NoOne /\ asked < MaxQuestions
      /\ sessions' = Append(sessions, new)
      /\ table' = Registered(n)
      /\ req' = [req EXCEPT ![r] = q]
      /\ asked' = asked + 1
      /\ replay' = [replay EXCEPT ![r] = f]
      /\ lock' = lock
  BY DEF Open
<1>2. new \in SessionSet /\ new.owner = user /\ new.turns = <<>> /\ new.added = 0
  BY DEF Session, SessionSet
<1>3. q \in RequestSet /\ q.pc = "replay" /\ q.user = user /\ q.id = n /\ q.messages = <<>>
  BY DEF Request, RequestSet, IInv, Types
<1>4. f \in ReplaySet /\ f.oldest = 1 /\ f.length = 0 /\ f.trims = 0
  BY DEF Replay, ReplaySet
<1>5. MaxTurns \in Nat \ {0} /\ MaxQuestions \in Nat /\ NoOne \notin Requests
      /\ sessions \in Seq(SessionSet) /\ Len(sessions) \in Nat
  BY DEF ChatAssumption, IInv, Types
<1> HIDE DEF new, q, f
<1>6. /\ sessions' \in Seq(SessionSet) /\ Len(sessions') = n
      /\ \A id \in 1 .. Len(sessions) : sessions'[id] = sessions[id]
      /\ sessions'[n] = new
  BY <1>1, <1>2, <1>5
<1>7. /\ req' \in [Requests -> RequestSet] /\ req'[r] = q
      /\ \A p \in Requests \ {r} : req'[p] = req[p]
      /\ replay' \in [Requests -> ReplaySet] /\ replay'[r] = f
      /\ \A p \in Requests \ {r} : replay'[p] = replay[p]
  BY <1>1, <1>3, <1>4 DEF IInv, Types
<1>8. TableOK' /\ table' \in Seq(Nat)
  BY <1>1, <1>6, TableGrows DEF IInv, TableOK
<1>9. Types'
  BY <1>1, <1>5, <1>6, <1>7, <1>8 DEF IInv, Types
<1>10. RequestsOK'
  <2> SUFFICES ASSUME NEW p \in Requests
               PROVE  /\ req'[p].pc = "idle" => req'[p].id = 0 /\ req'[p].messages = <<>>
                      /\ req'[p].pc # "idle" => /\ req'[p].id \in 1 .. Len(sessions')
                                                /\ req'[p].user = sessions'[req'[p].id].owner
                      /\ req'[p].pc = "trim" <=> lock' = p
    BY DEF RequestsOK
  <2>1. CASE p = r
    BY <1>1, <1>2, <1>3, <1>5, <1>6, <1>7, <2>1
  <2>2. CASE p # r
    BY <1>1, <1>5, <1>6, <1>7, <2>2 DEF IInv, RequestsOK
  <2> QED
    BY <2>1, <2>2
<1>11. Numbered(new) /\ Settled(new) /\ First(new) = 1 /\ Len(new.turns) = 0
  BY <1>2, <1>5 DEF Numbered, Settled, First
<1>12. ListsOK'
  <2> SUFFICES ASSUME NEW id \in 1 .. Len(sessions')
               PROVE  Numbered(sessions'[id]) /\ Settled(sessions'[id])
    BY <1>1 DEF ListsOK
  <2>1. CASE id \in 1 .. Len(sessions)
    BY <1>1, <1>6, <2>1 DEF IInv, ListsOK
  <2>2. CASE id = n
    BY <1>6, <1>11, <2>2
  <2> QED
    BY <1>5, <1>6, <2>1, <2>2
<1>13. MessagesOK(q, f) /\ AheadOK(f, new)
  BY <1>3, <1>4, <1>5, <1>11 DEF MessagesOK, AheadOK
<1>14. ReplaysOK'
  <2> SUFFICES ASSUME NEW p \in Requests
               PROVE  /\ req'[p].pc \in {"replay", "answer"} => MessagesOK(req'[p], replay'[p])
                      /\ req'[p].pc = "replay" => AheadOK(replay'[p], sessions'[req'[p].id])
                      /\ req'[p].pc = "answer" => replay'[p].length <= Len(req'[p].messages)
                      /\ req'[p].pc \in {"append", "trim"} => req'[p].messages = <<>>
    BY DEF ReplaysOK
  <2>1. CASE p = r
    BY <1>3, <1>6, <1>7, <1>13, <2>1
  <2>2. CASE p # r
    <3>1. req'[p] = req[p] /\ replay'[p] = replay[p]
      BY <1>7, <2>2
    <3>2. req[p].pc = "replay" => sessions'[req[p].id] = sessions[req[p].id]
      BY <1>6 DEF IInv, RequestsOK
    <3> QED
      BY <3>1, <3>2 DEF IInv, ReplaysOK
  <2> QED
    BY <2>1, <2>2
<1> QED
  BY <1>8, <1>9, <1>10, <1>12, <1>14 DEF IInv

LEMMA ResumeKeeps ==
    ASSUME ChatAssumption, IInv, NEW r \in Requests, NEW user \in Users, NEW id \in Ids,
           Resume(r, user, id)
    PROVE  IInv'
<1> DEFINE s == sessions[id]
           q == Request("replay", user, id, <<>>)
           f == Replay(s.added - Len(s.turns) + 1, Len(s.turns), 0)
<1>1. /\ req[r].pc = "idle" /\ lock = NoOne /\ asked < MaxQuestions
      /\ s.owner = user
      /\ req' = [req EXCEPT ![r] = q]
      /\ asked' = asked + 1
      /\ replay' = [replay EXCEPT ![r] = f]
      /\ UNCHANGED <<sessions, table, lock>>
  BY DEF Resume, MayUse
<1>2. id \in 1 .. Len(sessions) /\ s \in SessionSet /\ NoOne \notin Requests
      /\ MaxTurns \in Nat /\ MaxQuestions \in Nat
  BY DEF Ids, IInv, Types, ChatAssumption
<1>3. s.turns \in Seq(Turns) /\ s.added \in Nat /\ Len(s.turns) \in Nat
  BY <1>2 DEF SessionSet
<1>4. Settled(s) /\ Len(s.turns) <= MaxTurns
  <2>1. Settled(s)
    BY <1>1, <1>2 DEF IInv, ListsOK
  <2> QED
    BY <1>2, <1>3, <2>1 DEF Settled
<1>5. q \in RequestSet /\ q.pc = "replay" /\ q.user = user /\ q.id = id /\ q.messages = <<>>
  BY <1>2 DEF Request, RequestSet
<1>6. f \in ReplaySet /\ f.oldest = First(s) /\ f.length = Len(s.turns) /\ f.trims = 0
  BY <1>3 DEF Replay, ReplaySet, First
<1>7. First(s) \in Int
  BY <1>3 DEF First
<1> HIDE DEF q, f, s
<1>8. /\ req' \in [Requests -> RequestSet] /\ req'[r] = q
      /\ \A p \in Requests \ {r} : req'[p] = req[p]
      /\ replay' \in [Requests -> ReplaySet] /\ replay'[r] = f
      /\ \A p \in Requests \ {r} : replay'[p] = replay[p]
  BY <1>1, <1>5, <1>6 DEF IInv, Types
<1>9. Types' /\ TableOK'
  <2>1. asked' \in 0 .. MaxQuestions
    BY <1>1, <1>2 DEF IInv, Types
  <2>2. TableOK'
    BY <1>1 DEF IInv, TableOK
  <2> QED
    BY <1>1, <1>8, <2>1, <2>2 DEF IInv, Types
<1>10. RequestsOK'
  BY <1>1, <1>2, <1>5, <1>8 DEF IInv, RequestsOK, s
<1>11. ListsOK'
  BY <1>1 DEF IInv, ListsOK
<1>12. MessagesOK(q, f) /\ AheadOK(f, s)
  BY <1>2, <1>3, <1>4, <1>5, <1>6, <1>7 DEF MessagesOK, AheadOK
<1>13. ReplaysOK'
  BY <1>1, <1>5, <1>8, <1>12 DEF IInv, ReplaysOK, s
<1> QED
  BY <1>9, <1>10, <1>11, <1>13 DEF IInv

LEMMA AppendTurnKeeps ==
    ASSUME ChatAssumption, IInv, NEW r \in Requests, AppendTurn(r)
    PROVE  IInv'
<1> DEFINE i == req[r].id
           s == sessions[i]
           t == WithTurn(s, Turn(req[r].user, s.added + 1))
           q == Request("trim", req[r].user, req[r].id, req[r].messages)
<1>1. /\ req[r].pc = "append" /\ lock = NoOne /\ lock' = r
      /\ sessions' = [sessions EXCEPT ![i] = t]
      /\ req' = [req EXCEPT ![r] = q]
      /\ UNCHANGED <<table, asked, replay>>
  BY DEF AppendTurn
<1>2. /\ req[r] \in RequestSet /\ i \in 1 .. Len(sessions) /\ s \in SessionSet
      /\ s.owner = req[r].user /\ Numbered(s) /\ Settled(s)
      /\ s.turns \in Seq(Turns) /\ Len(s.turns) \in Nat
  BY <1>1, SessionInUse
<1>3. /\ t \in SessionSet /\ t.owner = s.owner /\ Len(t.turns) = Len(s.turns) + 1
      /\ First(t) = First(s) /\ Numbered(t) /\ Grown(t)
  BY <1>2, TurnAdded
<1>4. /\ q \in RequestSet /\ q.pc = "trim" /\ q.user = req[r].user /\ q.id = i
      /\ q.messages = <<>>
  BY <1>1, <1>2 DEF Request, RequestSet, IInv, ReplaysOK
<1>5. sessions \in Seq(SessionSet) /\ MaxTurns \in Nat /\ NoOne \notin Requests
  BY DEF IInv, Types, ChatAssumption
<1> HIDE DEF t, q, i, s
<1>6. /\ sessions' \in Seq(SessionSet) /\ Len(sessions') = Len(sessions)
      /\ sessions'[i] = t
      /\ \A id \in 1 .. Len(sessions) : id # i => sessions'[id] = sessions[id]
  BY <1>1, <1>2, <1>3, <1>5
<1>7. /\ req' \in [Requests -> RequestSet] /\ req'[r] = q
      /\ \A p \in Requests \ {r} : req'[p] = req[p]
      /\ \A p \in Requests : req'[p].id = req[p].id /\ req'[p].user = req[p].user
  BY <1>1, <1>4 DEF IInv, Types, i
<1>8. Types' /\ TableOK'
  BY <1>1, <1>6, <1>7 DEF IInv, Types, TableOK
<1>9. RequestsOK'
  <2>1. \A id \in 1 .. Len(sessions) : sessions'[id].owner = sessions[id].owner
    BY <1>3, <1>6 DEF s
  <2> QED
    BY <1>1, <1>2, <1>4, <1>5, <1>6, <1>7, <2>1 DEF IInv, RequestsOK
<1>10. ListsOK'
  <2> SUFFICES ASSUME NEW id \in 1 .. Len(sessions)
               PROVE  /\ Numbered(sessions'[id])
                      /\ IF lock' # NoOne /\ req'[lock'].id = id THEN Grown(sessions'[id])
                         ELSE Settled(sessions'[id])
    BY <1>6 DEF ListsOK
  <2>1. CASE id = i
    BY <1>1, <1>3, <1>4, <1>5, <1>6, <1>7, <2>1
  <2>2. CASE id # i
    BY <1>1, <1>4, <1>6, <1>7, <2>2 DEF IInv, ListsOK
  <2> QED
    BY <2>1, <2>2
<1>11. ASSUME NEW p \in Requests, req[p].pc = "replay"
       PROVE  AheadOK(replay[p], sessions'[req[p].id])
  <2>1. AheadOK(replay[p], sessions[req[p].id]) /\ req[p].id \in 1 .. Len(sessions)
        /\ replay[p].length \in Nat
    BY <1>11 DEF IInv, ReplaysOK, RequestsOK, Types, ReplaySet
  <2>2. CASE req[p].id = i
    <3>1. AheadOK(replay[p], s)
      BY <2>1, <2>2 DEF s
    <3>2. AheadOK(replay[p], t)
      BY <1>2, <1>3, <2>1, <3>1 DEF AheadOK
    <3> QED
      BY <1>6, <2>2, <3>2
  <2>3. CASE req[p].id # i
    BY <1>6, <2>1, <2>3
  <2> QED
    BY <2>2, <2>3
<1>12. ReplaysOK'
  BY <1>1, <1>4, <1>7, <1>11 DEF IInv, ReplaysOK
<1> QED
  BY <1>8, <1>9, <1>10, <1>12 DEF IInv

\* The cut moves the lists of the replays that are under way, and counts.
LEMMA TrimKeeps ==
    ASSUME ChatAssumption, IInv, NEW r \in Requests, Trim(r)
    PROVE  IInv'
<1> DEFINE i == req[r].id
           s == sessions[i]
           t == Session(s.owner, Kept(s.turns), s.added)
<1>1. /\ req[r].pc = "trim" /\ lock' = NoOne
      /\ sessions' = [sessions EXCEPT ![i] = t]
      /\ replay' = IF Len(s.turns) > MaxTurns THEN Trimmed(i) ELSE replay
      /\ req' = [req EXCEPT ![r] = Idle]
      /\ UNCHANGED <<table, asked>>
  BY DEF Trim
<1>2. lock = r /\ NoOne \notin Requests
  BY <1>1 DEF IInv, RequestsOK, ChatAssumption
<1>3. /\ i \in 1 .. Len(sessions) /\ s \in SessionSet /\ Numbered(s) /\ Grown(s)
      /\ s.turns \in Seq(Turns) /\ Len(s.turns) \in Nat
  BY <1>1, <1>2, SessionInUse
<1>4. /\ t \in SessionSet /\ t.owner = s.owner /\ Numbered(t) /\ Settled(t)
      /\ Len(s.turns) > MaxTurns => First(t) = First(s) + 1 /\ Len(t.turns) = MaxTurns
      /\ ~(Len(s.turns) > MaxTurns) => t = s
  BY <1>3, TurnsCut
<1>5. sessions \in Seq(SessionSet) /\ MaxTurns \in Nat
  BY DEF IInv, Types, ChatAssumption
<1>6. Idle \in RequestSet /\ Idle.pc = "idle" /\ Idle.id = 0 /\ Idle.messages = <<>>
  BY DEF Idle, Request, RequestSet
<1> HIDE DEF t, i, s
<1>7. /\ sessions' \in Seq(SessionSet) /\ Len(sessions') = Len(sessions)
      /\ sessions'[i] = t
      /\ \A id \in 1 .. Len(sessions) : id # i => sessions'[id] = sessions[id]
  BY <1>1, <1>3, <1>4, <1>5
<1>8. /\ req' \in [Requests -> RequestSet] /\ req'[r] = Idle
      /\ \A p \in Requests \ {r} : req'[p] = req[p]
  BY <1>1, <1>6 DEF IInv, Types
<1>9. /\ replay' \in [Requests -> ReplaySet]
      /\ \A p \in Requests :
            \/ replay'[p] = replay[p] /\ ~(req[p].pc = "replay" /\ req[p].id = i /\ Len(s.turns) > MaxTurns)
            \/ /\ req[p].pc = "replay" /\ req[p].id = i /\ Len(s.turns) > MaxTurns
               /\ replay'[p].oldest = replay[p].oldest
               /\ replay'[p].length = replay[p].length
               /\ replay'[p].trims = replay[p].trims + 1
  <2>1. replay \in [Requests -> ReplaySet]
    BY DEF IInv, Types
  <2>2. \A f \in ReplaySet : Replay(f.oldest, f.length, f.trims + 1) \in ReplaySet
    BY DEF Replay, ReplaySet
  <2>3. CASE Len(s.turns) > MaxTurns
    <3>1. replay' = [q \in Requests |->
                       IF req[q].pc = "replay" /\ req[q].id = i
                       THEN Replay(replay[q].oldest, replay[q].length, replay[q].trims + 1)
                       ELSE replay[q]]
      BY <1>1, <2>3 DEF Trimmed
    <3>2. replay' \in [Requests -> ReplaySet]
      BY <2>1, <2>2, <3>1
    <3> QED
      BY <2>3, <3>1, <3>2 DEF Replay
  <2>4. CASE ~(Len(s.turns) > MaxTurns)
    BY <1>1, <2>1, <2>4
  <2> QED
    BY <2>3, <2>4
<1>10. Types' /\ TableOK'
  BY ZenonT(30), <1>1, <1>7, <1>8, <1>9 DEF IInv, Types, TableOK
<1>11. RequestsOK'
  <2>1. \A id \in 1 .. Len(sessions) : sessions'[id].owner = sessions[id].owner
    BY <1>4, <1>7 DEF s
  <2> QED
    BY <1>1, <1>2, <1>6, <1>7, <1>8, <2>1 DEF IInv, RequestsOK
<1>12. ListsOK'
  <2> SUFFICES ASSUME NEW id \in 1 .. Len(sessions)
               PROVE  Numbered(sessions'[id]) /\ Settled(sessions'[id])
    BY <1>1, <1>7 DEF ListsOK
  <2>1. CASE id = i
    BY <1>4, <1>7, <2>1
  <2>2. CASE id # i
    BY <1>2, <1>7, <2>2 DEF IInv, ListsOK, i
  <2> QED
    BY <2>1, <2>2
<1>13. ASSUME NEW p \in Requests, req[p].pc = "replay"
       PROVE  AheadOK(replay'[p], sessions'[req[p].id]) /\ MessagesOK(req[p], replay'[p])
  <2>1. /\ AheadOK(replay[p], sessions[req[p].id]) /\ MessagesOK(req[p], replay[p])
        /\ req[p].id \in 1 .. Len(sessions)
        /\ replay[p] \in ReplaySet
    BY <1>13 DEF IInv, ReplaysOK, RequestsOK, Types
  <2>2. replay[p].oldest \in Int /\ replay[p].length \in Nat /\ replay[p].trims \in Nat
    BY <2>1 DEF ReplaySet
  <2>3. CASE req[p].id = i /\ Len(s.turns) > MaxTurns
    <3>1. /\ replay'[p].oldest = replay[p].oldest
          /\ replay'[p].length = replay[p].length
          /\ replay'[p].trims = replay[p].trims + 1
      BY <1>9, <1>13, <2>3
    <3>2. AheadOK(replay[p], s)
      BY <2>1, <2>3 DEF s
    <3>3. AheadOK(replay'[p], t)
      <4>1. First(t) = replay[p].oldest + replay[p].trims + 1
        BY <1>4, <2>3, <3>2 DEF AheadOK
      <4>2. replay[p].length <= Len(t.turns)
        BY <1>4, <2>3, <3>2 DEF AheadOK
      <4> QED
        BY <2>2, <3>1, <3>2, <4>1, <4>2 DEF AheadOK
    <3>4. MessagesOK(req[p], replay'[p])
      <4>1. \A k \in 1 .. Len(req[p].messages) :
               /\ req[p].messages[k].user = req[p].user
               /\ req[p].messages[k].n
                     \in replay[p].oldest + k - 1 .. replay[p].oldest + k - 1 + replay[p].trims
        BY <2>1 DEF MessagesOK
      <4>2. \A o, x, k \in Int, c \in Nat :
               x \in o + k - 1 .. o + k - 1 + c => x \in o + k - 1 .. o + k - 1 + (c + 1)
        OBVIOUS
      <4>3. \A k \in 1 .. Len(req[p].messages) :
               req[p].messages[k].n
                  \in replay'[p].oldest + k - 1 .. replay'[p].oldest + k - 1 + replay'[p].trims
        <5> TAKE k \in 1 .. Len(req[p].messages)
        <5>1. req[p].messages[k].n
                 \in replay[p].oldest + k - 1 .. replay[p].oldest + k - 1 + replay[p].trims
          BY <4>1
        <5>2. k \in Int /\ req[p].messages[k].n \in Int
          BY <2>2, <5>1
        <5>3. req[p].messages[k].n
                 \in replay[p].oldest + k - 1 .. replay[p].oldest + k - 1 + (replay[p].trims + 1)
          BY <2>2, <4>2, <5>1, <5>2
        <5> QED
          BY <3>1, <5>3
      <4> QED
        BY <2>1, <4>1, <4>3 DEF MessagesOK
    <3> QED
      BY <1>7, <2>3, <3>3, <3>4
  <2>4. CASE ~(req[p].id = i /\ Len(s.turns) > MaxTurns)
    <3>1. replay'[p] = replay[p]
      BY <1>9, <2>4
    <3>2. sessions'[req[p].id] = sessions[req[p].id]
      BY <1>4, <1>7, <2>1, <2>4 DEF s
    <3> QED
      BY <2>1, <3>1, <3>2
  <2> QED
    BY <2>3, <2>4
<1>14. ReplaysOK'
  <2> SUFFICES ASSUME NEW p \in Requests
               PROVE  /\ req'[p].pc \in {"replay", "answer"} => MessagesOK(req'[p], replay'[p])
                      /\ req'[p].pc = "replay" => AheadOK(replay'[p], sessions'[req'[p].id])
                      /\ req'[p].pc = "answer" => replay'[p].length <= Len(req'[p].messages)
                      /\ req'[p].pc \in {"append", "trim"} => req'[p].messages = <<>>
    BY DEF ReplaysOK
  <2>1. CASE p = r
    BY <1>6, <1>8, <2>1
  <2>2. CASE p # r /\ req[p].pc = "replay"
    BY <1>8, <1>13, <2>2
  <2>3. CASE p # r /\ req[p].pc # "replay"
    <3>1. req'[p] = req[p] /\ replay'[p] = replay[p]
      BY <1>8, <1>9, <2>3
    <3> QED
      BY <2>3, <3>1 DEF IInv, ReplaysOK
  <2> QED
    BY <2>1, <2>2, <2>3
<1> QED
  BY <1>10, <1>11, <1>12, <1>14 DEF IInv

LEMMA RestartKeeps ==
    ASSUME ChatAssumption, IInv, Restart
    PROVE  IInv'
<1>1. /\ sessions' = <<>> /\ table' = <<>> /\ lock' = NoOne
      /\ req' = [r \in Requests |-> Idle]
      /\ replay' = [r \in Requests |-> NoReplay]
      /\ asked' = asked
  BY DEF Restart
<1>2. Idle \in RequestSet /\ Idle.pc = "idle" /\ Idle.id = 0 /\ Idle.messages = <<>>
      /\ NoReplay \in ReplaySet
  BY DEF Idle, Request, RequestSet, NoReplay, Replay, ReplaySet
<1>3. Types'
  BY <1>1, <1>2 DEF IInv, Types
<1>4. TableOK' /\ ListsOK'
  BY <1>1 DEF TableOK, ListsOK, ChatAssumption
<1>5. RequestsOK' /\ ReplaysOK'
  BY <1>1, <1>2 DEF RequestsOK, ReplaysOK, ChatAssumption
<1> QED
  BY <1>3, <1>4, <1>5 DEF IInv

-----------------------------------------------------------------------------
(* The theorems *)

LEMMA InitIInv == ChatAssumption /\ Init => IInv
<1> SUFFICES ASSUME ChatAssumption, Init PROVE IInv
  OBVIOUS
<1>1. Idle \in RequestSet /\ Idle.pc = "idle" /\ Idle.id = 0 /\ Idle.messages = <<>>
      /\ NoReplay \in ReplaySet
  BY DEF Idle, Request, RequestSet, NoReplay, Replay, ReplaySet
<1>2. Types
  BY <1>1 DEF Init, Types, ChatAssumption
<1>3. TableOK /\ ListsOK
  BY DEF Init, TableOK, ListsOK, ChatAssumption
<1>4. RequestsOK /\ ReplaysOK
  BY <1>1 DEF Init, RequestsOK, ReplaysOK, ChatAssumption
<1> QED
  BY <1>2, <1>3, <1>4 DEF IInv

LEMMA StepIInv == ChatAssumption /\ IInv /\ [Next]_vars => IInv'
<1> SUFFICES ASSUME ChatAssumption, IInv, [Next]_vars PROVE IInv'
  OBVIOUS
<1>1. ASSUME NEW r \in Requests, NEW user \in Users, Open(r, user) PROVE IInv'
  BY <1>1, OpenKeeps
<1>2. ASSUME NEW r \in Requests, NEW user \in Users, NEW id \in Ids, Resume(r, user, id)
      PROVE IInv'
  BY <1>2, ResumeKeeps
<1>3. ASSUME NEW r \in Requests, Step(r) PROVE IInv'
  BY <1>3, ReadTurnKeeps, ReadDoneKeeps, AnsweredKeeps, AppendTurnKeeps, TrimKeeps DEF Step
<1>4. CASE Restart
  BY <1>4, RestartKeeps
<1>5. CASE UNCHANGED vars
  BY <1>5 DEF vars, IInv, Types, TableOK, RequestsOK, ListsOK, ReplaysOK
<1> QED
  BY <1>1, <1>2, <1>3, <1>4, <1>5 DEF Next

\* What TableOK says of the numbers.
LEMMA TableEntries ==
    ASSUME ChatAssumption, Types, TableOK
    PROVE  /\ DOMAIN table = 1 .. Len(table) /\ Len(table) \in Nat /\ Len(sessions) \in Nat
           /\ DOMAIN sessions = 1 .. Len(sessions)
           /\ Len(table) <= MaxSessions /\ Len(table) <= Len(sessions)
           /\ Len(table) = Len(sessions) \/ Len(table) = MaxSessions
           /\ \A k \in 1 .. Len(table) : table[k] = Len(sessions) - Len(table) + k
<1>1. /\ DOMAIN table = 1 .. Len(table) /\ Len(table) \in Nat /\ Len(sessions) \in Nat
      /\ DOMAIN sessions = 1 .. Len(sessions) /\ MaxSessions \in Nat
  BY DEF Types, ChatAssumption
<1>2. Len(table) = IF Len(sessions) > MaxSessions THEN MaxSessions ELSE Len(sessions)
  BY DEF TableOK
<1>3. \A k \in 1 .. Len(table) : table[k] = Len(sessions) - Len(table) + k
  BY DEF TableOK
<1>4. /\ Len(table) <= MaxSessions /\ Len(table) <= Len(sessions)
      /\ Len(table) = Len(sessions) \/ Len(table) = MaxSessions
  BY <1>1, <1>2
<1> QED
  BY <1>1, <1>3, <1>4

THEOREM ChatInvariant == Spec => []IInv
<1>1. ChatAssumption
  BY ChatAssumption
<1> QED
  BY <1>1, InitIInv, StepIInv, PTL DEF Spec

\* Types, and the memory chats may take: at most MAX_SESSIONS sessions in the
\* table, and at most MAX_TURNS + 1 turns in a list at any moment.
THEOREM ChatTypeOK == Spec => []TypeOK
<1>1. ASSUME ChatAssumption, IInv PROVE TypeOK
  <2>1. /\ Types /\ MaxTurns \in Nat /\ MaxSessions \in Nat
        /\ DOMAIN sessions = 1 .. Len(sessions) /\ Len(sessions) \in Nat
    BY <1>1 DEF IInv, Types, ChatAssumption
  <2>2. ASSUME NEW id \in DOMAIN sessions PROVE Len(sessions[id].turns) <= MaxTurns + 1
    <3>1. sessions[id].added \in Nat
      <4>1. sessions[id] \in SessionSet
        BY <2>1, <2>2 DEF Types
      <4> QED
        BY <4>1 DEF SessionSet
    <3>2. Settled(sessions[id]) \/ Grown(sessions[id])
      BY <1>1, <2>1, <2>2 DEF IInv, ListsOK
    <3> QED
      BY <2>1, <3>1, <3>2 DEF Settled, Grown
  <2>3. table \in Seq(DOMAIN sessions) /\ Len(table) <= MaxSessions
    <3>1. /\ Len(table) \in Nat /\ Len(table) <= MaxSessions /\ Len(table) <= Len(sessions)
          /\ \A k \in 1 .. Len(table) : table[k] = Len(sessions) - Len(table) + k
      BY <1>1, TableEntries DEF IInv
    <3>2. \A k \in 1 .. Len(table) : table[k] \in 1 .. Len(sessions)
      BY <2>1, <3>1
    <3>3. table \in Seq(Nat)
      BY <2>1 DEF Types
    <3> QED
      BY SMTT(20), <2>1, <3>1, <3>2, <3>3
  <2>4. req \in [Requests -> [pc : {"idle", "replay", "answer", "append", "trim"},
                              user : Users \cup {NoOne}, id : 0 .. Len(sessions),
                              messages : Seq(Turns)]]
    <3>1. ASSUME NEW r \in Requests PROVE req[r].id \in 0 .. Len(sessions)
      <4>1. req[r].id = 0 \/ req[r].id \in 1 .. Len(sessions)
        BY <1>1 DEF IInv, RequestsOK
      <4> QED
        BY <2>1, <4>1
    <3> QED
      BY <2>1, <3>1 DEF Types, RequestSet
  <2> QED
    BY <2>1, <2>2, <2>3, <2>4 DEF TypeOK, Types, SessionSet, ReplaySet
<1>2. ChatAssumption
  BY ChatAssumption
<1> QED
  BY <1>1, <1>2, ChatInvariant, PTL

\* A replay holds nothing but turns of the account that asks.
THEOREM ChatOwnTurns == Spec => []OwnTurns
<1>1. ASSUME IInv PROVE OwnTurns
  <2> SUFFICES ASSUME NEW r \in Requests, NEW k \in DOMAIN req[r].messages
               PROVE  req[r].messages[k].user = req[r].user
    BY DEF OwnTurns
  <2>1. req[r] \in RequestSet
    BY <1>1 DEF IInv, Types
  <2>2. k \in 1 .. Len(req[r].messages)
    BY <2>1 DEF RequestSet
  <2>3. req[r].messages # <<>>
    BY <2>2
  <2>4. req[r].pc \in {"replay", "answer"}
    BY <1>1, <2>1, <2>3 DEF IInv, RequestsOK, ReplaysOK, RequestSet
  <2> QED
    BY <1>1, <2>2, <2>4 DEF IInv, ReplaysOK, MessagesOK
<1> QED
  BY <1>1, ChatInvariant, PTL

\* Between two appends, a conversation is its latest turns, in order.
THEOREM ChatLatestTurns == Spec => []LatestTurnsKept
<1>1. ASSUME IInv PROVE LatestTurnsKept
  <2> SUFFICES ASSUME lock = NoOne, NEW id \in Ids
               PROVE  LET turns == sessions[id].turns
                      IN  /\ Len(turns) = IF sessions[id].added < MaxTurns
                                          THEN sessions[id].added ELSE MaxTurns
                          /\ \A k \in DOMAIN turns :
                                turns[k].n = sessions[id].added - Len(turns) + k
    BY DEF LatestTurnsKept
  <2>1. id \in 1 .. Len(sessions) /\ sessions[id] \in SessionSet
    BY <1>1 DEF IInv, Types, Ids
  <2>2. Numbered(sessions[id]) /\ Settled(sessions[id])
    BY <1>1, <2>1 DEF IInv, ListsOK
  <2>3. sessions[id].turns \in Seq(Turns) /\ sessions[id].added \in Nat
    BY <2>1 DEF SessionSet
  <2>4. ASSUME NEW k \in DOMAIN sessions[id].turns
        PROVE  sessions[id].turns[k].n = sessions[id].added - Len(sessions[id].turns) + k
    <3>1. k \in 1 .. Len(sessions[id].turns)
      BY <2>3, <2>4
    <3>2. sessions[id].turns[k] = Turn(sessions[id].owner, First(sessions[id]) + k - 1)
      BY <2>2, <3>1 DEF Numbered
    <3>3. sessions[id].turns[k].n = First(sessions[id]) + k - 1
      BY <3>2 DEF Turn
    <3> QED
      BY <2>3, <3>1, <3>3 DEF First
  <2> QED
    BY <2>2, <2>4 DEF Settled
<1> QED
  BY <1>1, ChatInvariant, PTL

\* What a replay beside other requests of its session may lose, and what not.
THEOREM ChatReplay == Spec => []ReplayIsFaithful
<1>1. ASSUME ChatAssumption, IInv PROVE ReplayIsFaithful
  <2> SUFFICES ASSUME NEW r \in Requests, req[r].pc = "answer"
               PROVE  LET messages == req[r].messages
                          found    == replay[r]
                      IN  /\ \A k \in DOMAIN messages :
                                messages[k].n - (found.oldest + k - 1) \in 0 .. found.trims
                          /\ \A j, k \in DOMAIN messages : j < k => messages[j].n < messages[k].n
                          /\ Len(messages) \in found.length .. MaxTurns + 1
    BY DEF ReplayIsFaithful
  <2>1. /\ req[r] \in RequestSet /\ replay[r] \in ReplaySet /\ MaxTurns \in Nat
        /\ MessagesOK(req[r], replay[r]) /\ replay[r].length <= Len(req[r].messages)
    BY <1>1 DEF IInv, Types, ReplaysOK, ChatAssumption
  <2>2. /\ req[r].messages \in Seq(Turns) /\ Len(req[r].messages) \in Nat
        /\ DOMAIN req[r].messages = 1 .. Len(req[r].messages)
        /\ replay[r].oldest \in Int /\ replay[r].trims \in Nat /\ replay[r].length \in Nat
    BY <2>1 DEF RequestSet, ReplaySet
  <2>3. ASSUME NEW k \in 1 .. Len(req[r].messages)
        PROVE  req[r].messages[k].n - (replay[r].oldest + k - 1) \in 0 .. replay[r].trims
    <3>1. req[r].messages[k].n
             \in replay[r].oldest + k - 1 .. replay[r].oldest + k - 1 + replay[r].trims
      BY <2>1 DEF MessagesOK
    <3> QED
      BY SMTT(20), <2>2, <3>1
  <2>4. /\ \A j, k \in 1 .. Len(req[r].messages) :
              j < k => req[r].messages[j].n < req[r].messages[k].n
        /\ Len(req[r].messages) <= MaxTurns + 1
    BY <2>1 DEF MessagesOK
  <2>5. Len(req[r].messages) \in replay[r].length .. MaxTurns + 1
    BY <2>1, <2>2, <2>4
  <2> QED
    BY <2>2, <2>3, <2>4, <2>5
<1>2. ChatAssumption
  BY ChatAssumption
<1> QED
  BY <1>1, <1>2, ChatInvariant, PTL

\* The table holds exactly the sessions created last.
THEOREM ChatNewestSessions == Spec => []NewestSessionsSurvive
<1>1. ASSUME ChatAssumption, IInv PROVE NewestSessionsSurvive
  <2>1. /\ DOMAIN table = 1 .. Len(table) /\ Len(table) \in Nat /\ Len(sessions) \in Nat
        /\ Ids = 1 .. Len(sessions) /\ MaxSessions \in Nat
        /\ Len(table) <= MaxSessions /\ Len(table) <= Len(sessions)
        /\ Len(table) = Len(sessions) \/ Len(table) = MaxSessions
    BY <1>1, TableEntries DEF IInv, ChatAssumption, Ids
  <2>2. \A k \in 1 .. Len(table) : table[k] = Len(sessions) - Len(table) + k
    BY <1>1, TableEntries DEF IInv
  <2>3. \A n, t, m \in Nat : t <= m /\ t <= n /\ (t = n \/ t = m) =>
           /\ \A k \in 1 .. t : n - t + k > n - m
           /\ \A id \in 1 .. n : id > n - m =>
                 id - (n - t) \in 1 .. t /\ n - t + (id - (n - t)) = id
    OBVIOUS
  <2>4. /\ \A k \in 1 .. Len(table) : Len(sessions) - Len(table) + k > Len(sessions) - MaxSessions
        /\ \A id \in 1 .. Len(sessions) : id > Len(sessions) - MaxSessions =>
              \E k \in 1 .. Len(table) : Len(sessions) - Len(table) + k = id
    BY ZenonT(30), <2>1, <2>3
  <2>5. ASSUME NEW id \in Ids
        PROVE  id \in {table[k] : k \in DOMAIN table} => id > Len(sessions) - MaxSessions
    BY <2>1, <2>2, <2>4
  <2>6. ASSUME NEW id \in Ids, id > Len(sessions) - MaxSessions
        PROVE  id \in {table[k] : k \in DOMAIN table}
    <3>1. PICK k \in 1 .. Len(table) : Len(sessions) - Len(table) + k = id
      BY <2>1, <2>4, <2>6
    <3>2. table[k] = id
      BY <2>2, <3>1
    <3> QED
      BY <2>1, <3>1, <3>2
  <2> QED
    BY <2>5, <2>6 DEF NewestSessionsSurvive
<1>2. ChatAssumption
  BY ChatAssumption
<1> QED
  BY <1>1, <1>2, ChatInvariant, PTL
=============================================================================
