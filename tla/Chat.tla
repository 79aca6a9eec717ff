-------------------------------- MODULE Chat --------------------------------
(***************************************************************************)
(* Conversations: app/chat.py and the handler of POST /chat.               *)
(*                                                                         *)
(* The table of sessions is used under _LOCK only, so each use is one      *)
(* step.  A list of turns is not: append takes the lock for its two steps, *)
(* as_messages iterates over the list without it.  A session object that   *)
(* was evicted lives on while a request holds it.                          *)
(*                                                                         *)
(* A turn is known by who asked it and by its number in the conversation.  *)
(* Session ids are random and never repeat: here, the n-th session created.*)
(***************************************************************************)
EXTENDS Integers, Sequences

CONSTANTS
    Requests,     \* concurrent requests
    Users,        \* accounts with the role reader
    MaxTurns,     \* MAX_TURNS
    MaxSessions,  \* MAX_SESSIONS
    MaxQuestions, \* bound: questions asked in a behaviour
    NoOne         \* no request, no account

ASSUME ChatAssumption ==
    /\ MaxTurns \in Nat \ {0}
    /\ MaxSessions \in Nat \ {0}
    /\ MaxQuestions \in Nat
    /\ NoOne \notin Requests \cup Users

VARIABLES
    sessions,   \* the session objects, in the order of their creation
    table,      \* _SESSIONS: ids in insertion order
    lock,       \* the request inside append, or NoOne
    req,        \* local state of the requests
    asked,      \* questions so far
    replay      \* history: what the list was when a replay began, and trims since

vars == <<sessions, table, lock, req, asked, replay>>

Turn(user, n) == [user |-> user, n |-> n]

\* added, a history field, counts the turns ever added.
Session(owner, turns, added) == [owner |-> owner, turns |-> turns, added |-> added]

\* messages: what as_messages has returned so far; its length is the iterator's index.
Request(pc, user, id, messages) ==
    [pc |-> pc, user |-> user, id |-> id, messages |-> messages]

Replay(oldest, length, trims) == [oldest |-> oldest, length |-> length, trims |-> trims]

NoReplay == Replay(0, 0, 0)

Turns == [user : Users, n : Nat \ {0}]

TypeOK ==
    /\ sessions \in Seq([owner : Users, turns : Seq(Turns), added : Nat])
    /\ \A id \in DOMAIN sessions : Len(sessions[id].turns) <= MaxTurns + 1
    /\ table \in Seq(DOMAIN sessions) /\ Len(table) <= MaxSessions
    /\ lock \in Requests \cup {NoOne}
    /\ req \in [Requests -> [pc : {"idle", "replay", "answer", "append", "trim"},
                             user : Users \cup {NoOne}, id : 0 .. Len(sessions),
                             messages : Seq(Turns)]]
    /\ asked \in 0 .. MaxQuestions
    /\ replay \in [Requests -> [oldest : Int, length : Nat, trims : Nat]]

\* A request that has nothing to do.
Idle == Request("idle", NoOne, 0, <<>>)

Init ==
    /\ sessions = <<>>
    /\ table = <<>>
    /\ lock = NoOne
    /\ req = [r \in Requests |-> Idle]
    /\ asked = 0
    /\ replay = [r \in Requests |-> NoReplay]

Ids == DOMAIN sessions

\* What is left when the oldest are deleted until n remain.
Latest(s, n) == IF Len(s) > n THEN SubSeq(s, Len(s) - n + 1, Len(s)) ELSE s

-----------------------------------------------------------------------------
(* A question *)

\* Mutant: the newest session has to go.
RegisteredFull(id) == IF Len(table) < MaxSessions THEN Append(table, id) ELSE table

\* The table once a session is in it and the oldest ones are out.
Registered(id) == Latest(Append(table, id), MaxSessions)

\* create, and the call of as_messages
Open(r, user) ==
    /\ req[r].pc = "idle"
    /\ asked < MaxQuestions
    /\ lock = NoOne
    /\ sessions' = Append(sessions, Session(user, <<>>, 0))
    /\ table' = Registered(Len(sessions) + 1)
    /\ req' = [req EXCEPT ![r] = Request("replay", user, Len(sessions) + 1, <<>>)]
    /\ asked' = asked + 1
    /\ replay' = [replay EXCEPT ![r] = Replay(1, 0, 0)]
    /\ UNCHANGED <<lock>>

\* Mutant: whoever knows the id of a session may go on with it.
MayUseAny(user, id) == id \in {table[k] : k \in DOMAIN table}

\* An unknown session and somebody else's are not told apart: both are a 404.
MayUse(user, id) ==
    /\ id \in {table[k] : k \in DOMAIN table}
    /\ sessions[id].owner = user

\* get, and the call of as_messages
Resume(r, user, id) ==
    /\ req[r].pc = "idle"
    /\ asked < MaxQuestions
    /\ lock = NoOne
    /\ MayUse(user, id)
    /\ req' = [req EXCEPT ![r] = Request("replay", user, id, <<>>)]
    /\ asked' = asked + 1
    /\ replay' = [replay EXCEPT ![r] =
                     Replay(sessions[id].added - Len(sessions[id].turns) + 1,
                            Len(sessions[id].turns), 0)]
    /\ UNCHANGED <<sessions, table, lock>>

\* The list the request iterates over.
TurnsOf(r) == sessions[req[r].id].turns

\* One round of the loop of as_messages: the iterator is an index into a list
\* that may have moved.
ReadTurn(r) ==
    /\ req[r].pc = "replay"
    /\ Len(req[r].messages) < Len(TurnsOf(r))
    /\ req' = [req EXCEPT ![r] =
                  Request("replay", req[r].user, req[r].id,
                          Append(req[r].messages, TurnsOf(r)[Len(req[r].messages) + 1]))]
    /\ UNCHANGED <<sessions, table, lock, asked, replay>>

ReadDone(r) ==
    /\ req[r].pc = "replay"
    /\ Len(req[r].messages) >= Len(TurnsOf(r))
    /\ req' = [req EXCEPT ![r] = Request("answer", req[r].user, req[r].id, req[r].messages)]
    /\ UNCHANGED <<sessions, table, lock, asked, replay>>

\* answer returns: a refusal is a turn like any other.
Answer(r) ==
    /\ req[r].pc = "answer"
    /\ req' = [req EXCEPT ![r] = Request("append", req[r].user, req[r].id, <<>>)]
    /\ replay' = [replay EXCEPT ![r] = NoReplay]
    /\ UNCHANGED <<sessions, table, lock, asked>>

\* answer raises: no slot, a question that does not validate, an error.
Fail(r) ==
    /\ req[r].pc = "answer"
    /\ req' = [req EXCEPT ![r] = Idle]
    /\ replay' = [replay EXCEPT ![r] = NoReplay]
    /\ UNCHANGED <<sessions, table, lock, asked>>

-----------------------------------------------------------------------------
(* append *)

\* Mutant: the newest turn first.
WithTurnInFront(session, turn) ==
    Session(session.owner, <<turn>> \o session.turns, session.added + 1)

WithTurn(session, turn) ==
    Session(session.owner, Append(session.turns, turn), session.added + 1)

\* The lock is taken and the turn added.
AppendTurn(r) ==
    /\ req[r].pc = "append"
    /\ lock = NoOne
    /\ lock' = r
    /\ LET session == sessions[req[r].id] IN
          sessions' = [sessions EXCEPT ![req[r].id] =
                          WithTurn(session, Turn(req[r].user, session.added + 1))]
    /\ req' = [req EXCEPT ![r] = Request("trim", req[r].user, req[r].id, req[r].messages)]
    /\ UNCHANGED <<table, asked, replay>>

\* The replays of the session that are under way see its list move.
Trimmed(id) ==
    [q \in Requests |->
        IF req[q].pc = "replay" /\ req[q].id = id
        THEN Replay(replay[q].oldest, replay[q].length, replay[q].trims + 1)
        ELSE replay[q]]

\* Mutant: nothing is cut.
KeptAll(turns) == turns

\* Mutant: the list is emptied down to the newest turn.
KeptNewest(turns) == IF Len(turns) > MaxTurns THEN Latest(turns, 1) ELSE turns

Kept(turns) == Latest(turns, MaxTurns)

\* Mutant: an early return keeps the lock.
TrimOnlyIfFull(r) ==
    LET session == sessions[req[r].id] IN
    /\ req[r].pc = "trim"
    /\ Len(session.turns) > MaxTurns
    /\ sessions' = [sessions EXCEPT ![req[r].id] =
                       Session(session.owner, Kept(session.turns), session.added)]
    /\ replay' = Trimmed(req[r].id)
    /\ lock' = NoOne
    /\ req' = [req EXCEPT ![r] = Idle]
    /\ UNCHANGED <<table, asked>>

\* The list is cut, the lock given back and the request over.
Trim(r) ==
    LET session == sessions[req[r].id] IN
    /\ req[r].pc = "trim"
    /\ sessions' = [sessions EXCEPT ![req[r].id] =
                       Session(session.owner, Kept(session.turns), session.added)]
    /\ replay' = IF Len(session.turns) > MaxTurns THEN Trimmed(req[r].id) ELSE replay
    /\ lock' = NoOne
    /\ req' = [req EXCEPT ![r] = Idle]
    /\ UNCHANGED <<table, asked>>

\* Sessions are in memory: a restart loses them and every request, and the ids of
\* an earlier process are unknown.
Restart ==
    /\ sessions' = <<>>
    /\ table' = <<>>
    /\ lock' = NoOne
    /\ req' = [r \in Requests |-> Idle]
    /\ replay' = [r \in Requests |-> NoReplay]
    /\ UNCHANGED asked

-----------------------------------------------------------------------------
Step(r) == ReadTurn(r) \/ ReadDone(r) \/ Answer(r) \/ Fail(r) \/ AppendTurn(r) \/ Trim(r)

Next ==
    \/ \E r \in Requests :
          \/ \E user \in Users : Open(r, user) \/ \E id \in Ids : Resume(r, user, id)
          \/ Step(r)
    \/ Restart

Spec == Init /\ [][Next]_vars

\* Every request runs in a thread of its own.  Nothing is assumed of the lock:
\* questions are finite in number, so it is free in the end.
FairSpec == Spec /\ \A r \in Requests : WF_vars(Step(r))

-----------------------------------------------------------------------------
(* Properties *)

\* No question is answered with a turn of somebody else's conversation, whatever
\* was evicted, lost in a restart or appended meanwhile.
OwnTurns ==
    \A r \in Requests : \A k \in DOMAIN req[r].messages :
        req[r].messages[k].user = req[r].user

\* When nobody is inside append, a conversation is its latest MAX_TURNS turns in
\* the order in which they were added, however many requests added them.
LatestTurnsKept ==
    lock = NoOne =>
        \A id \in Ids :
            LET turns == sessions[id].turns
            IN  /\ Len(turns) = IF sessions[id].added < MaxTurns
                                THEN sessions[id].added ELSE MaxTurns
                /\ \A k \in DOMAIN turns :
                      turns[k].n = sessions[id].added - Len(turns) + k

\* A replay that runs beside other requests of its session is in order, skips at
\* most one turn for each time the list is cut meanwhile, is no shorter than the
\* list was when it began, and MAX_TURNS + 1 turns long at most.
ReplayIsFaithful ==
    \A r \in Requests : req[r].pc = "answer" =>
        LET messages == req[r].messages
            found    == replay[r]
        IN  /\ \A k \in DOMAIN messages :
                  messages[k].n - (found.oldest + k - 1) \in 0 .. found.trims
            /\ \A j, k \in DOMAIN messages : j < k => messages[j].n < messages[k].n
            /\ Len(messages) \in found.length .. MaxTurns + 1

\* The sessions that can be resumed are the MAX_SESSIONS created last.
NewestSessionsSurvive ==
    \A id \in Ids :
        id \in {table[k] : k \in DOMAIN table}
            <=> id > Len(sessions) - MaxSessions

\* Every question comes to an end, though its replay may chase a growing list and
\* others hold the lock.
RequestsEnd == \A r \in Requests : req[r].pc # "idle" ~> req[r].pc = "idle"
=============================================================================
