----------------------------- MODULE ChatTurns -----------------------------
(***************************************************************************)
(* Chat conversations: the browser's agent loops, and the turns they ask   *)
(* the server for.  A turn takes a client of the connection pool for the   *)
(* conversation's advisory lock and keeps it until its end; every query    *)
(* it makes meanwhile needs another client.  Under the lock it reads the   *)
(* history, answers the tool calls an interrupted turn left open, appends  *)
(* the incoming message, asks the model and appends the answer.  The agent *)
(* loop runs the tools the answer calls and sends their results in the     *)
(* next turn.                                                              *)
(*                                                                         *)
(* Each awaited query of a turn is an action; the two of listMessages are  *)
(* one, as are the insertion of a message and the update of its            *)
(* conversation's time and title.  A message is its role and the ids of    *)
(* its tool calls or results; the ids are numbers, fresh in each answer.   *)
(***************************************************************************)
EXTENDS Naturals, Sequences, FiniteSets

CONSTANTS
    Conversations, Turns, Tabs, Deleters,
    Nobody,       \* the holder of a free lock, the turn of an idle tab
    PoolSize,     \* clients of the connection pool
    MaxRounds,    \* turns of one agent loop
    MaxCalls,     \* bound: tool calls in one answer
    MaxSends,     \* bound: messages the users send
    MaxCrashes    \* bound: crashes of the server

ASSUME PoolSizeType == PoolSize \in Nat
ASSUME RoundsType == MaxRounds \in Nat \ {0}
ASSUME BoundsType == {MaxCalls, MaxSends, MaxCrashes} \subseteq Nat
ASSUME NobodyIsNothingElse == Nobody \notin Turns \cup Conversations
ASSUME TurnsAreNoDeleters == Turns \cap Deleters = {}

Message == [role : {"user", "assistant", "tool"}, ids : SUBSET (Nat \ {0})]
Request == [conversation : Conversations, role : {"user", "tool"}, ids : SUBSET (Nat \ {0})]
Steps == {"idle", "connect", "poll", "prepare", "read", "repair", "insert", "model", "store",
          "unlock", "release"}

VARIABLES
    state,      \* chat_conversations: whether each conversation was created, or deleted
    messages,   \* chat_messages of each conversation, in order
    lock,       \* the turn that holds each conversation's advisory lock
    clients,    \* who holds a client of the pool
    step,       \* where each turn is
    request,    \* what it was asked: its conversation and incoming message
    history,    \* the history it works with
    calls,      \* the tool calls of the answer it received
    reply,      \* how its response ended
    aborted,    \* whether its browser closed the connection
    loop,       \* each tab's agent loop
    deletion,   \* the conversation each deleter is deleting
    issued,     \* tool calls issued so far
    sends,      \* messages sent so far
    crashes     \* crashes so far

rows == <<state, messages>>
server == <<lock, clients, step, history, calls, reply>>
asked == <<request, aborted>>
bounds == <<sends, crashes>>
vars == <<rows, server, asked, loop, deletion, issued, bounds>>

\* A conversation a deleter works on; it holds a client once it is connected.
Deletion == [conversation : Conversations, connected : BOOLEAN]
Loop == [step : {"idle", "wait", "tools"}, turn : Turns \cup {Nobody},
         conversation : Conversations \cup {Nobody}, round : 0..MaxRounds]

RowsType ==
    /\ state \in [Conversations -> {"none", "live", "gone"}]
    /\ messages \in [Conversations -> Seq(Message)]

TurnsType ==
    /\ lock \in [Conversations -> Turns \cup {Nobody}]
    /\ step \in [Turns -> Steps]
    /\ request \in [Turns -> Request \cup {Nobody}]
    /\ \A r \in Turns : step[r] # "idle" => request[r] \in Request
    /\ history \in [Turns -> Seq(Message)]
    /\ calls \in [Turns -> SUBSET (Nat \ {0})]
    /\ reply \in [Turns -> {"none", "done", "error"}]
    /\ aborted \in [Turns -> BOOLEAN]

LoopsType ==
    /\ loop \in [Tabs -> Loop]
    /\ \A t \in Tabs : loop[t].step # "idle" => loop[t].turn # Nobody /\ loop[t].conversation # Nobody

TypeOK ==
    /\ RowsType /\ TurnsType /\ LoopsType
    /\ clients \subseteq Turns \cup Deleters
    /\ deletion \in [Deleters -> Deletion \cup {Nobody}]
    /\ {issued, sends, crashes} \subseteq Nat

Idle == [step |-> "idle", turn |-> Nobody, conversation |-> Nobody, round |-> 0]

Init ==
    /\ state = [c \in Conversations |-> "none"]
    /\ messages = [c \in Conversations |-> <<>>]
    /\ lock = [c \in Conversations |-> Nobody]
    /\ clients = {}
    /\ step = [r \in Turns |-> "idle"]
    /\ request = [r \in Turns |-> Nobody]
    /\ history = [r \in Turns |-> <<>>]
    /\ calls = [r \in Turns |-> {}]
    /\ reply = [r \in Turns |-> "none"]
    /\ aborted = [r \in Turns |-> FALSE]
    /\ loop = [t \in Tabs |-> Idle]
    /\ deletion = [d \in Deleters |-> Nobody]
    /\ issued = 0 /\ sends = 0 /\ crashes = 0
-----------------------------------------------------------------------------
(* The history *)

IsAnswer(s, i) == s[i].role = "assistant"

\* The position of the last answer, if there is one.
LastAnswer(s) == {i \in DOMAIN s : IsAnswer(s, i) /\ \A j \in DOMAIN s : IsAnswer(s, j) => j <= i}

ResultsAfter(s, i) == UNION {s[j].ids : j \in {k \in DOMAIN s : k > i /\ s[k].role = "tool"}}

\* pendingToolCallIds
Pending(s) == UNION {s[i].ids \ ResultsAfter(s, i) : i \in LastAnswer(s)}

\* Results are taken as the browser sends them.
AnyResults(s, incoming) == TRUE

\* validateToolContinuation: exactly the results the last answer waits for.
ValidContinuation(s, incoming) == incoming.role = "tool" => incoming.ids = Pending(s)

\* The message a turn adds first when a user goes on after an interrupted turn.
Interrupted(s) == [role |-> "tool", ids |-> Pending(s)]
Incoming(r) == [role |-> request[r].role, ids |-> request[r].ids]
Answered(r) == [role |-> "assistant", ids |-> calls[r]]
-----------------------------------------------------------------------------
(* A turn on the server: streamTurn and runTurn *)

ConversationOf(r) == request[r].conversation
Exists(r) == state[ConversationOf(r)] = "live"

\* A query outside a transaction takes a client of the pool for its duration.
ClientFree == Cardinality(clients) < PoolSize

GoTo(r, s) == step' = [step EXCEPT ![r] = s]

\* getPool().connect()
Connect(r) ==
    /\ step[r] = "connect" /\ ClientFree
    /\ clients' = clients \cup {r}
    /\ GoTo(r, "poll")
    /\ UNCHANGED <<rows, lock, history, calls, reply, asked, loop, deletion, issued, bounds>>

\* A turn that goes on without waiting for the lock.
MayAlwaysRun(r) == TRUE

\* pg_try_advisory_lock
MayRun(r) == lock[ConversationOf(r)] = Nobody

\* The lock is tried again and again until it is free or the browser has left.
Poll(r) ==
    /\ step[r] = "poll"
    /\ \/ /\ aborted[r]
          /\ GoTo(r, "release")
          /\ UNCHANGED lock
       \/ /\ ~aborted[r] /\ MayRun(r)
          /\ lock' = [lock EXCEPT ![ConversationOf(r)] = r]
          /\ GoTo(r, "prepare")
    /\ UNCHANGED <<rows, clients, history, calls, reply, asked, loop, deletion, issued, bounds>>

\* The step of a turn that failed, without the finally block around the lock.
ForgetsLock(r) == "release"

\* A turn that fails under the lock gives it back.
AfterFailure(r) == "unlock"

\* The conversation and the credentials are loaded, unless the browser has left.
Prepare(r) ==
    /\ step[r] = "prepare" /\ ClientFree
    /\ GoTo(r, IF Exists(r) /\ ~aborted[r] THEN "read" ELSE AfterFailure(r))
    /\ UNCHANGED <<rows, lock, clients, history, calls, reply, asked, loop, deletion, issued, bounds>>

\* Only a user's message closes the calls an interrupted turn left open.
NeedsRepair(r) == request[r].role = "user" /\ Pending(messages[ConversationOf(r)]) # {}

ReadHistory(r) ==
    /\ step[r] = "read" /\ ClientFree
    /\ LET prior == messages[ConversationOf(r)]
       IN  IF Exists(r) /\ ValidContinuation(prior, Incoming(r))
           THEN /\ history' = [history EXCEPT ![r] = prior]
                /\ GoTo(r, IF NeedsRepair(r) THEN "repair" ELSE "insert")
           ELSE GoTo(r, AfterFailure(r)) /\ UNCHANGED history
    /\ UNCHANGED <<rows, lock, clients, calls, reply, asked, loop, deletion, issued, bounds>>

\* insertMessage, and the turn's own copy.
Append1(r, message) ==
    /\ messages' = [messages EXCEPT ![ConversationOf(r)] = Append(@, message)]
    /\ history' = [history EXCEPT ![r] = Append(@, message)]

\* A message of a conversation that is gone violates a foreign key.
InsertOrFail(r, message, next) ==
    /\ ClientFree
    /\ IF Exists(r) THEN Append1(r, message) /\ GoTo(r, next)
                    ELSE GoTo(r, AfterFailure(r)) /\ UNCHANGED <<messages, history>>
    /\ UNCHANGED <<state, lock, clients, calls, reply, asked, loop, deletion, issued, bounds>>

Repair(r) == step[r] = "repair" /\ InsertOrFail(r, Interrupted(history[r]), "insert")
Insert(r) == step[r] = "insert" /\ InsertOrFail(r, Incoming(r), "model")

\* The model's answer streams to its end, or until the browser leaves, with some
\* tool calls.
Answer(r) ==
    /\ step[r] = "model"
    /\ \E n \in 0..MaxCalls :
        /\ calls' = [calls EXCEPT ![r] = (issued + 1)..(issued + n)]
        /\ issued' = issued + n
    /\ GoTo(r, "store")
    /\ UNCHANGED <<rows, lock, clients, history, reply, asked, loop, deletion, bounds>>

\* The answer is stored even when the browser has left meanwhile; the response still
\* fails if the conversation's time cannot be updated.
StoreAnswer(r) ==
    /\ step[r] = "store" /\ ClientFree
    /\ IF Exists(r)
       THEN messages' = [messages EXCEPT ![ConversationOf(r)] = Append(@, Answered(r))]
       ELSE UNCHANGED messages
    /\ \E end \in {"done", "error"} :
        /\ end = "done" => Exists(r)
        /\ reply' = [reply EXCEPT ![r] = end]
    /\ GoTo(r, "unlock")
    /\ UNCHANGED <<state, lock, clients, history, calls, asked, loop, deletion, issued, bounds>>

\* A query or the model fails, or the browser's leaving stops the model.
TurnFails(r) ==
    /\ step[r] \in {"prepare", "read", "repair", "insert", "model", "store"}
    /\ reply' = [reply EXCEPT ![r] = IF step[r] \in {"model", "store"} THEN "error" ELSE @]
    /\ GoTo(r, AfterFailure(r))
    /\ UNCHANGED <<rows, lock, clients, history, calls, asked, loop, deletion, issued, bounds>>

Unlock(r) ==
    /\ step[r] = "unlock"
    /\ lock' = [lock EXCEPT ![ConversationOf(r)] = IF @ = r THEN Nobody ELSE @]
    /\ GoTo(r, "release")
    /\ UNCHANGED <<rows, clients, history, calls, reply, asked, loop, deletion, issued, bounds>>

\* The client goes back to the pool; a turn that failed before it streamed answers
\* with its error now.
Release(r) ==
    /\ step[r] = "release"
    /\ clients' = clients \ {r}
    /\ reply' = [reply EXCEPT ![r] = IF @ = "none" THEN "error" ELSE @]
    /\ history' = [history EXCEPT ![r] = <<>>]
    /\ request' = [request EXCEPT ![r] = Nobody]
    /\ aborted' = [aborted EXCEPT ![r] = FALSE]
    /\ GoTo(r, "idle")
    /\ UNCHANGED <<rows, lock, calls, loop, deletion, issued, bounds>>

\* The server dies: the connections break, and the locks go with them.
Crash ==
    /\ crashes < MaxCrashes
    /\ crashes' = crashes + 1
    /\ lock' = [c \in Conversations |-> Nobody]
    /\ clients' = {}
    /\ reply' = [r \in Turns |-> IF step[r] # "idle" /\ reply[r] = "none" THEN "error" ELSE reply[r]]
    /\ history' = [r \in Turns |-> <<>>]
    /\ step' = [r \in Turns |-> "idle"]
    /\ request' = [r \in Turns |-> Nobody]
    /\ aborted' = [r \in Turns |-> FALSE]
    /\ deletion' = [d \in Deleters |-> Nobody]
    /\ UNCHANGED <<rows, calls, loop, issued, sends>>
-----------------------------------------------------------------------------
(* Conversations *)

CreateConversation(c) ==
    /\ state[c] = "none"
    /\ state' = [state EXCEPT ![c] = "live"]
    /\ UNCHANGED <<messages, server, asked, loop, deletion, issued, bounds>>

Gone(c) ==
    /\ state' = [state EXCEPT ![c] = "gone"]
    /\ messages' = [messages EXCEPT ![c] = <<>>]

BeginDelete(d, c) ==
    /\ deletion[d] = Nobody /\ state[c] = "live"
    /\ deletion' = [deletion EXCEPT ![d] = [conversation |-> c, connected |-> FALSE]]
    /\ UNCHANGED <<rows, server, asked, loop, issued, bounds>>

\* BEGIN; from now on the deletion waits for the lock with a client in its hands.
ConnectDelete(d) ==
    /\ deletion[d] # Nobody /\ ~deletion[d].connected /\ ClientFree
    /\ deletion' = [deletion EXCEPT ![d].connected = TRUE]
    /\ clients' = clients \cup {d}
    /\ UNCHANGED <<rows, lock, step, history, calls, reply, asked, loop, issued, bounds>>

\* pg_advisory_xact_lock
MayDelete(c) == lock[c] = Nobody

\* The lock is granted and the conversation deleted, if it is still there.
CommitDelete(d) ==
    /\ deletion[d] # Nobody /\ deletion[d].connected
    /\ LET c == deletion[d].conversation
       IN  /\ MayDelete(c)
           /\ IF state[c] = "live" THEN Gone(c) ELSE UNCHANGED rows
    /\ deletion' = [deletion EXCEPT ![d] = Nobody]
    /\ clients' = clients \ {d}
    /\ UNCHANGED <<lock, step, history, calls, reply, asked, loop, issued, bounds>>

\* The project is deleted, and its conversations with it: no lock is taken.
DeleteProject(c) ==
    /\ state[c] = "live"
    /\ Gone(c)
    /\ UNCHANGED <<server, asked, loop, deletion, issued, bounds>>
-----------------------------------------------------------------------------
(* The agent loop of a tab *)

\* A turn nobody works on and no other tab waits for.
Unused(t, r) == step[r] = "idle" /\ \A u \in Tabs \ {t} : loop[u].turn # r

\* POST /api/ai/conversations/:id/turn
Ask(t, c, role, ids, round) ==
    /\ \E r \in Turns :
        /\ Unused(t, r)
        /\ step' = [step EXCEPT ![r] = "connect"]
        /\ request' = [request EXCEPT ![r] = [conversation |-> c, role |-> role, ids |-> ids]]
        /\ aborted' = [aborted EXCEPT ![r] = FALSE]
        /\ calls' = [calls EXCEPT ![r] = {}]
        /\ reply' = [reply EXCEPT ![r] = "none"]
        /\ loop' = [loop EXCEPT ![t] =
               [step |-> "wait", turn |-> r, conversation |-> c, round |-> round]]
    /\ UNCHANGED <<rows, lock, clients, history, deletion, issued, crashes>>

SendMessage(t, c) ==
    /\ loop[t].step = "idle" /\ state[c] = "live" /\ sends < MaxSends
    /\ sends' = sends + 1
    /\ Ask(t, c, "user", {}, 1)

\* The response has ended: the tools it calls are run next, or the loop ends.
GetReply(t) ==
    LET r == loop[t].turn
    IN  /\ loop[t].step = "wait" /\ reply[r] # "none"
        /\ loop' = [loop EXCEPT ![t] =
               IF reply[r] = "done" /\ calls[r] # {} THEN [@ EXCEPT !.step = "tools"] ELSE Idle]
        /\ UNCHANGED <<rows, server, asked, deletion, issued, bounds>>

\* A loop that goes on for one round too many.
OneRoundMore(t) == loop[t].round <= MaxRounds

MoreRounds(t) == loop[t].round < MaxRounds

\* The tools have run, and their results are sent; the last round's are not.
SendResults(t) ==
    LET r == loop[t].turn
    IN  /\ loop[t].step = "tools"
        /\ IF MoreRounds(t)
           THEN Ask(t, loop[t].conversation, "tool", calls[r], loop[t].round + 1) /\ UNCHANGED sends
           ELSE /\ loop' = [loop EXCEPT ![t] = Idle]
                /\ UNCHANGED <<rows, server, asked, deletion, issued, bounds>>

\* The user stops the loop, opens another conversation or closes the tab.
Leave(t) ==
    /\ loop[t].step # "idle"
    /\ aborted' = [r \in Turns |->
           aborted[r] \/ (loop[t].step = "wait" /\ loop[t].turn = r /\ step[r] # "idle")]
    /\ loop' = [loop EXCEPT ![t] = Idle]
    /\ UNCHANGED <<rows, server, request, deletion, issued, bounds>>
-----------------------------------------------------------------------------
GoOn(r) ==
    \/ Connect(r) \/ Poll(r) \/ Prepare(r) \/ ReadHistory(r) \/ Repair(r) \/ Insert(r)
    \/ Answer(r) \/ StoreAnswer(r) \/ Unlock(r) \/ Release(r)

RunTurn(r) == GoOn(r) \/ TurnFails(r)

RunDelete(d) == ConnectDelete(d) \/ CommitDelete(d)

Browse(t) ==
    \/ \E c \in Conversations : SendMessage(t, c)
    \/ GetReply(t) \/ SendResults(t) \/ Leave(t)

Next ==
    \/ \E r \in Turns : RunTurn(r)
    \/ \E d \in Deleters : RunDelete(d) \/ \E c \in Conversations : BeginDelete(d, c)
    \/ \E t \in Tabs : Browse(t)
    \/ \E c \in Conversations : CreateConversation(c) \/ DeleteProject(c)
    \/ Crash

Spec == Init /\ [][Next]_vars

\* The server's event loop runs on, and a request to the model ends some time; no
\* turn owes a failure.
FairSpec ==
    /\ Spec
    /\ \A r \in Turns : WF_vars(GoOn(r))
    /\ \A d \in Deleters : WF_vars(RunDelete(d))
-----------------------------------------------------------------------------
(* Properties *)

\* "Serializes model turns so one conversation cannot interleave its history"
\* (turn.ts): what the model was asked with is the conversation when its answer
\* is appended.
AnswersWholeHistory ==
    \A r \in Turns : (step[r] \in {"model", "store"} /\ Exists(r)) =>
        history[r] = messages[ConversationOf(r)]

\* A result answers an open call of the last answer, and neither a user nor the
\* model goes on before each of its calls has been answered.
MayFollow(s, message) ==
    IF message.role = "tool" THEN message.ids \subseteq Pending(s) ELSE Pending(s) = {}

WellFormed(s) == \A i \in DOMAIN s : MayFollow(SubSeq(s, 1, i - 1), s[i])

\* "Rejects missing, duplicate, and replayed browser tool results" (turn.ts): every
\* history is one the model accepts, whatever was interrupted, replayed or lost.
HistoryIsWellFormed == \A c \in Conversations : WellFormed(messages[c])

\* No turn leaves its conversation locked or keeps a client of the pool.
NothingLeaks ==
    /\ \A c \in Conversations : lock[c] # Nobody => step[lock[c]] \notin {"idle", "release"}
    /\ \A r \in Turns : step[r] = "idle" => r \notin clients

\* A conversation is deleted under its turns only together with its project.
DeletesWaitForTurns ==
    [][\A d \in Deleters, c \in Conversations :
           (CommitDelete(d) /\ state[c] # state'[c]) =>
               \A r \in Turns : step[r] \in {"read", "repair", "insert", "model", "store"} =>
                   ConversationOf(r) # c]_vars

\* Every turn and every deletion comes to its end, and gives its client back.
TurnsEnd ==
    /\ \A r \in Turns : step[r] # "idle" ~> step[r] = "idle"
    /\ \A d \in Deleters : deletion[d] # Nobody ~> deletion[d] = Nobody
=============================================================================
