-------------------------- MODULE ChatTurnsProofs --------------------------
(***************************************************************************)
(* Proofs about ChatTurns for any conversations, turns, tabs and           *)
(* deleters, and any bounds.                                               *)
(***************************************************************************)
EXTENDS ChatTurns, SequenceTheorems, TLAPS

-----------------------------------------------------------------------------
(* Type correctness *)

LEMMA PendingType ==
    ASSUME NEW s \in Seq(Message)
    PROVE  Pending(s) \in SUBSET (Nat \ {0})
<1> SUFFICES ASSUME NEW x \in Pending(s) PROVE x \in Nat \ {0}
  OBVIOUS
<1> PICK i \in DOMAIN s : x \in s[i].ids
  BY DEF Pending, LastAnswer
<1>1. s[i] \in Message
  OBVIOUS
<1> QED
  BY <1>1 DEF Message

LEMMA IdleType == Idle \in Loop
BY RoundsType DEF Idle, Loop

LEMMA NoMessages == <<>> \in Seq(Message)
OBVIOUS

LEMMA InitType == Init => TypeOK
<1> SUFFICES ASSUME Init PROVE TypeOK
  OBVIOUS
<1>1. RowsType
  BY NoMessages DEF Init, RowsType
<1>2. TurnsType
  BY NoMessages DEF Init, TurnsType, Steps
<1>3. LoopsType
  BY IdleType DEF Init, LoopsType, Idle
<1> QED
  BY <1>1, <1>2, <1>3 DEF Init, TypeOK

LEMMA ConnectType ==
    ASSUME TypeOK, NEW r \in Turns, Connect(r) PROVE TypeOK'
BY DEF TypeOK, RowsType, TurnsType, LoopsType, Steps, Connect, GoTo, rows, asked, bounds

LEMMA PollType ==
    ASSUME TypeOK, NEW r \in Turns, Poll(r) PROVE TypeOK'
BY DEF TypeOK, RowsType, TurnsType, LoopsType, Steps, Poll, GoTo, rows, asked, bounds

LEMMA PrepareType ==
    ASSUME TypeOK, NEW r \in Turns, Prepare(r) PROVE TypeOK'
BY DEF TypeOK, RowsType, TurnsType, LoopsType, Steps, Prepare, AfterFailure, GoTo, rows, asked, bounds

LEMMA ReadType ==
    ASSUME TypeOK, NEW r \in Turns, ReadHistory(r) PROVE TypeOK'
<1>1. request[r] \in Request /\ messages[ConversationOf(r)] \in Seq(Message)
  BY DEF TypeOK, RowsType, TurnsType, ReadHistory, ConversationOf, Request
<1>2. history' \in [Turns -> Seq(Message)]
  BY <1>1 DEF TypeOK, TurnsType, ReadHistory
<1> QED
  BY <1>2 DEF TypeOK, RowsType, TurnsType, LoopsType, Steps, ReadHistory, AfterFailure, GoTo, rows, asked, bounds

LEMMA InsertType ==
    ASSUME TypeOK, NEW r \in Turns, NEW message \in Message, NEW next \in Steps, step[r] # "idle",
           InsertOrFail(r, message, next)
    PROVE  TypeOK'
<1>1. request[r] \in Request /\ ConversationOf(r) \in Conversations
  BY DEF TypeOK, TurnsType, ConversationOf, Request
<1>2. \/ Append1(r, message)
      \/ UNCHANGED <<messages, history>>
  BY DEF InsertOrFail
<1>3. /\ Append(messages[ConversationOf(r)], message) \in Seq(Message)
      /\ Append(history[r], message) \in Seq(Message)
  BY <1>1 DEF TypeOK, RowsType, TurnsType
<1>4. messages' \in [Conversations -> Seq(Message)] /\ history' \in [Turns -> Seq(Message)]
  BY <1>2, <1>3 DEF TypeOK, RowsType, TurnsType, Append1
<1> QED
  BY <1>4 DEF TypeOK, RowsType, TurnsType, LoopsType, Steps, InsertOrFail, AfterFailure, GoTo, asked, bounds

LEMMA AnswerType ==
    ASSUME TypeOK, NEW r \in Turns, Answer(r) PROVE TypeOK'
<1> PICK n \in 0..MaxCalls : calls' = [calls EXCEPT ![r] = (issued + 1)..(issued + n)] /\ issued' = issued + n
  BY DEF Answer
<1>1. issued \in Nat /\ n \in Nat
  BY BoundsType DEF TypeOK
<1>2. (issued + 1)..(issued + n) \in SUBSET (Nat \ {0}) /\ issued + n \in Nat
  BY <1>1
<1> QED
  BY <1>2 DEF TypeOK, RowsType, TurnsType, LoopsType, Steps, Answer, GoTo, rows, asked, bounds

LEMMA StoreType ==
    ASSUME TypeOK, NEW r \in Turns, StoreAnswer(r) PROVE TypeOK'
<1>1. request[r] \in Request /\ ConversationOf(r) \in Conversations /\ Answered(r) \in Message
  BY DEF TypeOK, TurnsType, ConversationOf, Request, StoreAnswer, Answered, Message
<1>2. \/ messages' = [messages EXCEPT ![ConversationOf(r)] = Append(@, Answered(r))]
      \/ messages' = messages
  BY DEF StoreAnswer
<1>3. messages[ConversationOf(r)] \in Seq(Message)
  BY <1>1 DEF TypeOK, RowsType
<1>4. Append(messages[ConversationOf(r)], Answered(r)) \in Seq(Message)
  BY <1>1, <1>3
<1>5. messages' \in [Conversations -> Seq(Message)]
  BY <1>2, <1>4 DEF TypeOK, RowsType
<1>6. reply' \in [Turns -> {"none", "done", "error"}]
  BY DEF TypeOK, TurnsType, StoreAnswer
<1> QED
  BY <1>5, <1>6 DEF TypeOK, RowsType, TurnsType, LoopsType, Steps, StoreAnswer, GoTo, asked, bounds

LEMMA RunTurnType ==
    ASSUME TypeOK, NEW r \in Turns, RunTurn(r) PROVE TypeOK'
<1>1. CASE Connect(r) BY <1>1, ConnectType
<1>2. CASE Poll(r) BY <1>2, PollType
<1>3. CASE Prepare(r) BY <1>3, PrepareType
<1>4. CASE ReadHistory(r) BY <1>4, ReadType
<1>5. CASE Repair(r)
  <2>1. Interrupted(history[r]) \in Message
    BY PendingType DEF TypeOK, TurnsType, Interrupted, Message
  <2> QED
    BY <1>5, <2>1, InsertType DEF Repair, Steps
<1>6. CASE Insert(r)
  <2>1. Incoming(r) \in Message
    BY <1>6 DEF TypeOK, TurnsType, Insert, Incoming, Message, Request
  <2> QED
    BY <1>6, <2>1, InsertType DEF Insert, Steps
<1>7. CASE Answer(r) BY <1>7, AnswerType
<1>8. CASE StoreAnswer(r) BY <1>8, StoreType
<1>9. CASE TurnFails(r)
  BY <1>9 DEF TypeOK, RowsType, TurnsType, LoopsType, Steps, TurnFails, AfterFailure, GoTo, rows, asked, bounds
<1>10. CASE Unlock(r)
  BY <1>10 DEF TypeOK, RowsType, TurnsType, LoopsType, Steps, Unlock, GoTo, rows, asked, bounds
<1>11. CASE Release(r)
  BY <1>11 DEF TypeOK, RowsType, TurnsType, LoopsType, Steps, Release, GoTo, rows, bounds
<1> QED
  BY <1>1, <1>2, <1>3, <1>4, <1>5, <1>6, <1>7, <1>8, <1>9, <1>10, <1>11 DEF RunTurn, GoOn

LEMMA DeletionType ==
    ASSUME TypeOK, NEW d \in Deleters,
           RunDelete(d) \/ \E c \in Conversations : BeginDelete(d, c)
    PROVE  TypeOK'
<1>1. CASE ConnectDelete(d)
  BY <1>1 DEF TypeOK, RowsType, TurnsType, LoopsType, ConnectDelete, Deletion, rows, asked, bounds
<1>2. CASE CommitDelete(d)
  <2>1. deletion[d] # Nobody /\ deletion[d] \in Deletion /\ deletion[d].conversation \in Conversations
    BY <1>2 DEF TypeOK, CommitDelete, Deletion
  <2>2. RowsType'
    BY <1>2, <2>1, NoMessages DEF TypeOK, RowsType, CommitDelete, Gone, rows
  <2> QED
    BY <1>2, <2>2 DEF TypeOK, TurnsType, LoopsType, CommitDelete, asked, bounds
<1>3. ASSUME NEW c \in Conversations, BeginDelete(d, c) PROVE TypeOK'
  BY <1>3 DEF TypeOK, RowsType, TurnsType, LoopsType, BeginDelete, Deletion, rows, server, asked, bounds
<1> QED
  BY <1>1, <1>2, <1>3 DEF RunDelete

LEMMA ConversationType ==
    ASSUME TypeOK, NEW c \in Conversations, CreateConversation(c) \/ DeleteProject(c)
    PROVE  TypeOK'
<1>1. RowsType'
  BY NoMessages DEF TypeOK, RowsType, CreateConversation, DeleteProject, Gone
<1> QED
  BY <1>1 DEF TypeOK, TurnsType, LoopsType, CreateConversation, DeleteProject, server, asked, bounds

\* A request a tab sends.
LEMMA AskType ==
    ASSUME TypeOK, NEW t \in Tabs, NEW c \in Conversations, NEW role \in {"user", "tool"},
           NEW ids \in SUBSET (Nat \ {0}), NEW round \in 0..MaxRounds,
           Ask(t, c, role, ids, round), sends' \in Nat
    PROVE  TypeOK'
<1> PICK r \in Turns :
        /\ Unused(t, r)
        /\ step' = [step EXCEPT ![r] = "connect"]
        /\ request' = [request EXCEPT ![r] = [conversation |-> c, role |-> role, ids |-> ids]]
        /\ aborted' = [aborted EXCEPT ![r] = FALSE]
        /\ calls' = [calls EXCEPT ![r] = {}]
        /\ reply' = [reply EXCEPT ![r] = "none"]
        /\ loop' = [loop EXCEPT ![t] =
               [step |-> "wait", turn |-> r, conversation |-> c, round |-> round]]
  BY DEF Ask
<1>1. r # Nobody /\ c # Nobody
  BY NobodyIsNothingElse
<1>2. LoopsType'
  BY <1>1 DEF TypeOK, LoopsType, Loop
<1>3. TurnsType'
  BY DEF TypeOK, TurnsType, Ask, Steps, Request
<1> QED
  BY <1>2, <1>3 DEF TypeOK, RowsType, Ask, rows

LEMMA BrowseType ==
    ASSUME TypeOK, NEW t \in Tabs, Browse(t) PROVE TypeOK'
<1>1. ASSUME NEW c \in Conversations, SendMessage(t, c) PROVE TypeOK'
  <2>1. 1 \in 0..MaxRounds /\ sends' \in Nat
    BY <1>1, RoundsType DEF TypeOK, SendMessage
  <2> QED
    BY <1>1, <2>1, AskType DEF SendMessage
<1>2. CASE GetReply(t)
  <2>1. \/ loop' = [loop EXCEPT ![t] = Idle]
        \/ loop' = [loop EXCEPT ![t] = [@ EXCEPT !.step = "tools"]]
    BY <1>2 DEF GetReply
  <2>2. loop[t].step = "wait" /\ loop[t] \in Loop
    BY <1>2 DEF TypeOK, LoopsType, GetReply
  <2>3. [loop[t] EXCEPT !.step = "tools"] \in Loop
    BY <2>2 DEF Loop
  <2>4. /\ [loop[t] EXCEPT !.step = "tools"].turn = loop[t].turn
        /\ [loop[t] EXCEPT !.step = "tools"].conversation = loop[t].conversation
    BY <2>2 DEF Loop
  <2>5. loop' = [loop EXCEPT ![t] = Idle] => LoopsType'
    BY IdleType DEF TypeOK, LoopsType, Idle
  <2>6. ASSUME loop' = [loop EXCEPT ![t] = [@ EXCEPT !.step = "tools"]] PROVE LoopsType'
    <3>1. loop' \in [Tabs -> Loop]
      BY <2>3, <2>6 DEF TypeOK, LoopsType
    <3>2. ASSUME NEW u \in Tabs PROVE loop'[u].turn = loop[u].turn /\ loop'[u].conversation = loop[u].conversation
                                      /\ (loop'[u].step # "idle" => loop[u].step # "idle")
      BY <2>2, <2>4, <2>6 DEF TypeOK, LoopsType
    <3> QED
      BY <3>1, <3>2 DEF TypeOK, LoopsType
  <2>7. LoopsType'
    BY <2>1, <2>5, <2>6
  <2> QED
    BY <1>2, <2>7 DEF TypeOK, RowsType, TurnsType, GetReply, rows, server, asked, bounds
<1>3. CASE SendResults(t)
  <2>1. loop[t] \in Loop /\ loop[t].turn \in Turns /\ loop[t].conversation \in Conversations
    BY <1>3 DEF TypeOK, LoopsType, Loop, SendResults
  <2>2. CASE MoreRounds(t)
    <3>1. loop[t].round + 1 \in 0..MaxRounds /\ calls[loop[t].turn] \in SUBSET (Nat \ {0})
      BY <2>1, <2>2, RoundsType DEF TypeOK, TurnsType, Loop, MoreRounds
    <3> QED
      BY <1>3, <2>1, <2>2, <3>1, AskType DEF SendResults, TypeOK
  <2>3. CASE ~MoreRounds(t)
    <3>1. LoopsType'
      BY <1>3, <2>3, IdleType DEF TypeOK, LoopsType, Idle, SendResults
    <3> QED
      BY <1>3, <2>3, <3>1 DEF TypeOK, RowsType, TurnsType, SendResults, rows, server, asked, bounds
  <2> QED
    BY <2>2, <2>3
<1>4. CASE Leave(t)
  <2>1. LoopsType'
    BY <1>4, IdleType DEF TypeOK, LoopsType, Idle, Leave
  <2>2. aborted' \in [Turns -> BOOLEAN]
    BY <1>4 DEF TypeOK, TurnsType, Leave
  <2> QED
    BY <1>4, <2>1, <2>2 DEF TypeOK, RowsType, TurnsType, Leave, rows, server, bounds
<1> QED
  BY <1>1, <1>2, <1>3, <1>4 DEF Browse

LEMMA CrashType ==
    ASSUME TypeOK, Crash PROVE TypeOK'
<1>1. crashes' \in Nat
  BY DEF TypeOK, Crash
<1>2. reply' \in [Turns -> {"none", "done", "error"}]
  BY DEF TypeOK, TurnsType, Crash
<1>3. TurnsType'
  BY <1>2 DEF TypeOK, TurnsType, Crash, Steps
<1> QED
  BY <1>1, <1>3 DEF TypeOK, RowsType, LoopsType, Crash, rows

LEMMA NextType == TypeOK /\ [Next]_vars => TypeOK'
<1> SUFFICES ASSUME TypeOK, [Next]_vars PROVE TypeOK'
  OBVIOUS
<1>1. CASE UNCHANGED vars
  BY <1>1 DEF TypeOK, RowsType, TurnsType, LoopsType, vars, rows, server, asked, bounds
<1>2. CASE Next
  BY <1>2, RunTurnType, DeletionType, ConversationType, BrowseType, CrashType DEF Next
<1> QED
  BY <1>1, <1>2

\* Every variable of the turns, of the loops that ask for them and of the deletions
\* keeps its type (turn.ts, conversations.ts, agentLoop.ts): in particular no loop
\* runs for more than its rounds.
THEOREM ChatTypes == Spec => []TypeOK
BY InitType, NextType, PTL DEF Spec
-----------------------------------------------------------------------------
(* Histories: how a message changes what is pending *)

LEMMA AppendIndices ==
    ASSUME NEW s \in Seq(Message), NEW m \in Message
    PROVE  /\ Append(s, m) \in Seq(Message)
           /\ DOMAIN Append(s, m) = 1..(Len(s) + 1) /\ DOMAIN s = 1..Len(s) /\ Len(s) \in Nat
           /\ \A i \in 1..Len(s) : Append(s, m)[i] = s[i]
           /\ Append(s, m)[Len(s) + 1] = m
BY AppendProperties

\* After an answer its calls are pending.
LEMMA AppendAnswer ==
    ASSUME NEW s \in Seq(Message), NEW m \in Message, m.role = "assistant"
    PROVE  Pending(Append(s, m)) = m.ids
<1> DEFINE t == Append(s, m)
           n == Len(s) + 1
<1>1. n \in DOMAIN t /\ t[n] = m /\ \A i \in DOMAIN t : i <= n
  BY AppendIndices
<1>2. LastAnswer(t) = {n}
  BY <1>1, AppendIndices DEF LastAnswer, IsAnswer
<1>3. ResultsAfter(t, n) = {}
  BY <1>1, AppendIndices DEF ResultsAfter
<1> HIDE DEF t, n
<1>4. Pending(t) = t[n].ids \ ResultsAfter(t, n)
  BY <1>2 DEF Pending
<1> QED
  BY <1>1, <1>3, <1>4 DEF t

\* Another message leaves the last answer where it is.
LEMMA SameAnswer ==
    ASSUME NEW s \in Seq(Message), NEW m \in Message, m.role # "assistant"
    PROVE  LastAnswer(Append(s, m)) = LastAnswer(s) /\ LastAnswer(s) \subseteq 1..Len(s)
BY AppendIndices DEF LastAnswer, IsAnswer

\* Results are no longer pending.
LEMMA AppendResults ==
    ASSUME NEW s \in Seq(Message), NEW m \in Message, m.role = "tool"
    PROVE  Pending(Append(s, m)) = Pending(s) \ m.ids
<1> DEFINE t == Append(s, m)
<1>1. \A i \in 1..Len(s) : ResultsAfter(t, i) = ResultsAfter(s, i) \cup m.ids
  BY AppendIndices DEF ResultsAfter
<1>2. \A i \in 1..Len(s) : t[i] = s[i]
  BY AppendIndices
<1>3. LastAnswer(t) = LastAnswer(s) /\ LastAnswer(s) \subseteq 1..Len(s)
  BY SameAnswer
<1> HIDE DEF t
<1>4. Pending(t) = Pending(s) \ m.ids
  BY <1>1, <1>2, <1>3 DEF Pending
<1> QED
  BY <1>4 DEF t

\* A user's message answers nothing.
LEMMA AppendUser ==
    ASSUME NEW s \in Seq(Message), NEW m \in Message, m.role = "user"
    PROVE  Pending(Append(s, m)) = Pending(s)
<1> DEFINE t == Append(s, m)
<1>1. \A i \in 1..Len(s) : ResultsAfter(t, i) = ResultsAfter(s, i)
  BY AppendIndices DEF ResultsAfter
<1>2. \A i \in 1..Len(s) : t[i] = s[i]
  BY AppendIndices
<1>3. LastAnswer(t) = LastAnswer(s) /\ LastAnswer(s) \subseteq 1..Len(s)
  BY SameAnswer
<1> HIDE DEF t
<1>4. Pending(t) = Pending(s)
  BY <1>1, <1>2, <1>3 DEF Pending
<1> QED
  BY <1>4 DEF t

\* A message that may follow a well-formed history makes another one.
LEMMA AppendWellFormed ==
    ASSUME NEW s \in Seq(Message), NEW m \in Message, WellFormed(s), MayFollow(s, m)
    PROVE  WellFormed(Append(s, m))
<1> DEFINE t == Append(s, m)
<1>1. ASSUME NEW i \in DOMAIN t PROVE SubSeq(t, 1, i - 1) = SubSeq(s, 1, i - 1)
  <2>1. i \in 1..(Len(s) + 1) /\ i - 1 \in 0..Len(s) /\ Len(t) = Len(s) + 1
    BY AppendIndices, AppendProperties
  <2>2. t = s \o <<m>> /\ <<m>> \in Seq(Message)
    BY AppendIsConcat
  <2>3. CASE i = 1
    BY <2>3, SubSeqEmpty
  <2>4. CASE i # 1
    <3>1. 1 \in 1..Len(s) /\ i - 1 \in 1..Len(s)
      BY <2>1, <2>4, AppendIndices
    <3>2. SubSeq(s \o <<m>>, 1, i - 1) = SubSeq(s, 1, i - 1)
      BY <2>2, <3>1, SubSeqOfConcat1
    <3> QED
      BY <2>2, <3>2
  <2> QED
    BY <2>3, <2>4
<1>2. SubSeq(t, 1, Len(s)) = s
  BY <1>1, AppendIndices, SubSeqFull
<1>3. ASSUME NEW i \in DOMAIN t PROVE MayFollow(SubSeq(t, 1, i - 1), t[i])
  <2>1. CASE i = Len(s) + 1
    <3>1. i - 1 = Len(s) /\ t[i] = m
      BY <2>1, AppendIndices
    <3>2. SubSeq(t, 1, i - 1) = s
      BY <1>2, <3>1
    <3> QED
      BY <3>1, <3>2
  <2>2. CASE i \in 1..Len(s)
    BY <2>2, <1>1, AppendIndices DEF WellFormed
  <2> QED
    BY <2>1, <2>2, AppendIndices
<1> QED
  BY <1>3 DEF WellFormed
-----------------------------------------------------------------------------
(* Turns of a conversation exclude each other *)

UnderLock == {"prepare", "read", "repair", "insert", "model", "store", "unlock"}
WithHistory == {"repair", "insert", "model", "store"}

\* Between taking the lock and giving it back a turn has it, and only then.
LocksAreHeld ==
    /\ \A r \in Turns : step[r] \in UnderLock => lock[ConversationOf(r)] = r
    /\ \A c \in Conversations : lock[c] # Nobody =>
           step[lock[c]] \in UnderLock /\ ConversationOf(lock[c]) = c

ClientsAreHeld == \A r \in Turns : step[r] = "idle" => r \notin clients

\* A conversation somebody works on has been created, so it cannot appear again
\* after its deletion.
IsOld(r) == step[r] # "idle" => state[ConversationOf(r)] # "none"
LoopIsOld(t) == loop[t].step # "idle" => state[loop[t].conversation] # "none"

\* The history a turn works with is the conversation's.
Knows(r) == (step[r] \in WithHistory /\ Exists(r)) => history[r] = messages[ConversationOf(r)]

\* The message a turn is about to add may follow.
GoesOn(r) ==
    /\ step[r] = "repair" => request[r].role = "user"
    /\ step[r] = "insert" =>
           \/ request[r].role = "user" /\ Pending(history[r]) = {}
           \/ request[r].role = "tool" /\ request[r].ids = Pending(history[r])
    /\ step[r] \in {"model", "store"} => Pending(history[r]) = {}

TurnsGoOn == \A r \in Turns : IsOld(r) /\ Knows(r) /\ GoesOn(r)

LoopsAreOld == \A t \in Tabs : LoopIsOld(t)

TurnInv == LocksAreHeld /\ ClientsAreHeld /\ TurnsGoOn /\ LoopsAreOld

LEMMA InitInv == Init => TurnInv /\ HistoryIsWellFormed
BY DEF Init, TurnInv, LocksAreHeld, ClientsAreHeld, TurnsGoOn, IsOld, Knows, GoesOn, LoopsAreOld, LoopIsOld,
       HistoryIsWellFormed, WellFormed, UnderLock, WithHistory, Idle

\* What a turn is asked for is in a conversation.
LEMMA ConversationIn ==
    ASSUME TypeOK, NEW r \in Turns, step[r] # "idle"
    PROVE  /\ ConversationOf(r) \in Conversations /\ request[r].role \in {"user", "tool"}
           /\ history[r] \in Seq(Message) /\ messages[ConversationOf(r)] \in Seq(Message)
           /\ Incoming(r) \in Message /\ Answered(r) \in Message /\ Interrupted(history[r]) \in Message
<1>1. request[r] \in Request /\ history[r] \in Seq(Message) /\ calls[r] \in SUBSET (Nat \ {0})
  BY DEF TypeOK, TurnsType
<1> QED
  BY <1>1, PendingType DEF TypeOK, RowsType, ConversationOf, Request, Incoming, Answered, Interrupted, Message

\* A step of a turn that keeps the lock.
LEMMA KeepsLock ==
    ASSUME TypeOK, TurnInv, NEW r \in Turns, NEW s \in UnderLock, step[r] \in UnderLock,
           GoTo(r, s), UNCHANGED <<lock, clients, request>>
    PROVE  LocksAreHeld' /\ ClientsAreHeld'
<1>1. step \in [Turns -> Steps] /\ step' = [step EXCEPT ![r] = s] /\ lock \in [Conversations -> Turns \cup {Nobody}]
  BY DEF TypeOK, TurnsType, GoTo
<1>2. \A q \in Turns : step'[q] \in UnderLock <=> step[q] \in UnderLock
  BY <1>1
<1>3. \A q \in Turns : ConversationOf(q)' = ConversationOf(q)
  BY DEF ConversationOf
<1>4. LocksAreHeld'
  BY <1>1, <1>2, <1>3 DEF TurnInv, LocksAreHeld
<1>5. ClientsAreHeld'
  BY <1>1 DEF TurnInv, ClientsAreHeld, UnderLock
<1> QED
  BY <1>4, <1>5

\* The part of the invariant that concerns the locks and the clients.
LEMMA LockSteps ==
    ASSUME TypeOK, TurnInv, NEW r \in Turns, RunTurn(r)
    PROVE  LocksAreHeld' /\ ClientsAreHeld'
<1>1. CASE Poll(r)
  <2>1. ConversationOf(r) \in Conversations /\ step[r] = "poll"
    BY <1>1, ConversationIn DEF Poll
  <2>2. CASE GoTo(r, "release") /\ UNCHANGED lock
    BY <1>1, <2>1, <2>2 DEF Poll, TypeOK, TurnsType, TurnInv, LocksAreHeld, ClientsAreHeld, UnderLock,
                            GoTo, asked, ConversationOf
  <2>3. CASE GoTo(r, "prepare") /\ lock[ConversationOf(r)] = Nobody /\ lock' = [lock EXCEPT ![ConversationOf(r)] = r]
    <3>1. step' = [step EXCEPT ![r] = "prepare"] /\ clients' = clients /\ request' = request
      BY <1>1, <2>3 DEF Poll, GoTo, asked
    <3>2. \A q \in Turns : q # Nobody /\ step'[q] = IF q = r THEN "prepare" ELSE step[q]
      BY <3>1, NobodyIsNothingElse DEF TypeOK, TurnsType
    <3>3. \A c \in Conversations : lock'[c] = IF c = ConversationOf(r) THEN r ELSE lock[c]
      BY <2>3 DEF TypeOK, TurnsType
    <3>4. \A c \in Conversations : lock[c] # r /\ lock[c] \in Turns \cup {Nobody}
      BY <2>1, <3>2 DEF TypeOK, TurnsType, TurnInv, LocksAreHeld, UnderLock
    <3>5. ASSUME NEW q \in Turns, step'[q] \in UnderLock PROVE lock'[request'[q].conversation] = q
      <4>1. CASE q = r
        BY <2>1, <3>1, <3>3, <4>1 DEF ConversationOf
      <4>2. CASE q # r
        <5>1. step[q] \in UnderLock /\ lock[ConversationOf(q)] = q
          BY <3>2, <3>5, <4>2 DEF TurnInv, LocksAreHeld
        <5>2. ConversationOf(q) \in Conversations
          BY <5>1, ConversationIn DEF UnderLock
        <5> QED
          BY <2>3, <3>1, <3>2, <3>3, <5>1, <5>2 DEF ConversationOf
      <4> QED
        BY <4>1, <4>2
    <3>6. ASSUME NEW c \in Conversations, lock'[c] # Nobody
          PROVE  \E q \in Turns : q = lock'[c] /\ step'[q] \in UnderLock /\ request'[q].conversation = c
      <4>1. CASE c = ConversationOf(r)
        BY <3>1, <3>2, <3>3, <4>1 DEF UnderLock, ConversationOf
      <4>2. CASE c # ConversationOf(r)
        <5>1. lock'[c] = lock[c] /\ lock[c] \in Turns /\ lock[c] # r
          BY <3>3, <3>4, <3>6, <4>2
        <5>2. step[lock[c]] \in UnderLock /\ ConversationOf(lock[c]) = c
          BY <3>6, <5>1, NobodyIsNothingElse DEF TurnInv, LocksAreHeld
        <5> QED
          BY <3>1, <3>2, <5>1, <5>2 DEF ConversationOf
      <4> QED
        BY <4>1, <4>2
    <3>7. ClientsAreHeld'
      BY <2>1, <3>1, <3>2 DEF TurnInv, ClientsAreHeld
    <3> QED
      BY <3>5, <3>6, <3>7 DEF LocksAreHeld, ConversationOf
  <2> QED
    BY <1>1, <2>2, <2>3 DEF Poll, MayRun
<1>2. CASE Prepare(r) \/ ReadHistory(r) \/ Repair(r) \/ Insert(r) \/ Answer(r) \/ StoreAnswer(r) \/ TurnFails(r)
  <2>1. /\ \E s \in UnderLock : GoTo(r, s)
        /\ step[r] \in UnderLock
    BY <1>2 DEF Prepare, ReadHistory, Repair, Insert, InsertOrFail, Answer, StoreAnswer, TurnFails, AfterFailure,
                UnderLock
  <2>2. UNCHANGED <<lock, clients, request>>
    BY <1>2 DEF Prepare, ReadHistory, Repair, Insert, InsertOrFail, Answer, StoreAnswer, TurnFails, asked
  <2> QED
    BY <2>1, <2>2, KeepsLock
<1> USE DEF TypeOK, TurnsType, TurnInv, LocksAreHeld, ClientsAreHeld, UnderLock, GoTo, ConversationOf
<1>3. CASE Connect(r)
  BY <1>3 DEF Connect, asked
<1>4. CASE Unlock(r)
  <2>1. step[r] = "unlock" /\ lock[ConversationOf(r)] = r /\ ConversationOf(r) \in Conversations
    BY <1>4, ConversationIn DEF Unlock
  <2>2. /\ lock' = [lock EXCEPT ![ConversationOf(r)] = Nobody]
        /\ step' = [step EXCEPT ![r] = "release"] /\ UNCHANGED <<clients, request>>
    BY <1>4, <2>1 DEF Unlock, asked
  <2>3. \A q \in Turns : step'[q] \in UnderLock => q # r /\ step[q] \in UnderLock
    BY <2>2
  <2>4. \A q \in Turns : step'[q] \in UnderLock => lock[ConversationOf(q)] = q /\ ConversationOf(q) \in Conversations
    BY <2>3, ConversationIn
  <2>5. \A c \in Conversations : lock'[c] = IF c = ConversationOf(r) THEN Nobody ELSE lock[c]
    BY <2>2
  <2>6. \A c \in Conversations : lock[c] = r => c = ConversationOf(r)
    BY NobodyIsNothingElse
  <2> QED
    BY <2>1, <2>2, <2>3, <2>4, <2>5, <2>6
<1>5. CASE Release(r)
  <2>1. /\ step[r] = "release" /\ step' = [step EXCEPT ![r] = "idle"] /\ clients' = clients \ {r}
        /\ request' = [request EXCEPT ![r] = Nobody] /\ lock' = lock
    BY <1>5 DEF Release
  <2>2. \A q \in Turns : step'[q] \in UnderLock => q # r /\ step[q] \in UnderLock /\ request'[q] = request[q]
    BY <2>1
  <2>3. \A c \in Conversations : lock[c] # Nobody => lock[c] # r
    BY <2>1
  <2> QED
    BY <2>1, <2>2, <2>3
<1> QED
  BY <1>1, <1>2, <1>3, <1>4, <1>5 DEF RunTurn, GoOn

LEMMA OtherLockSteps ==
    ASSUME TypeOK, TurnInv,
           \/ \E d \in Deleters : RunDelete(d) \/ \E c \in Conversations : BeginDelete(d, c)
           \/ \E t \in Tabs : Browse(t)
           \/ \E c \in Conversations : CreateConversation(c) \/ DeleteProject(c)
           \/ Crash
           \/ UNCHANGED vars
    PROVE  LocksAreHeld' /\ ClientsAreHeld'
<1> USE DEF TypeOK, TurnsType, TurnInv, LocksAreHeld, ClientsAreHeld, UnderLock, ConversationOf
<1>1. CASE UNCHANGED <<lock, step, request>> /\ \A r \in Turns : r \in clients' => r \in clients
  BY <1>1
<1>2. ASSUME NEW d \in Deleters, RunDelete(d) \/ \E c \in Conversations : BeginDelete(d, c)
      PROVE  LocksAreHeld' /\ ClientsAreHeld'
  BY <1>2, <1>1, TurnsAreNoDeleters DEF RunDelete, ConnectDelete, CommitDelete, BeginDelete, server, asked
<1>3. ASSUME NEW t \in Tabs, Browse(t)
      PROVE  LocksAreHeld' /\ ClientsAreHeld'
  <2>1. CASE UNCHANGED <<lock, step, request, clients>>
    BY <2>1, <1>1
  <2>2. ASSUME NEW r \in Turns, NEW q, step[r] = "idle", step' = [step EXCEPT ![r] = "connect"],
               request' = [request EXCEPT ![r] = q], UNCHANGED <<lock, clients>>
        PROVE  LocksAreHeld' /\ ClientsAreHeld'
    BY <2>2
  <2>3. ASSUME NEW c, NEW role, NEW ids, NEW round, Ask(t, c, role, ids, round)
        PROVE  LocksAreHeld' /\ ClientsAreHeld'
    BY <2>3, <2>2 DEF Ask, Unused
  <2> QED
    BY <1>3, <2>1, <2>3 DEF Browse, SendMessage, GetReply, SendResults, Leave, server, asked
<1>4. ASSUME NEW c \in Conversations, CreateConversation(c) \/ DeleteProject(c)
      PROVE  LocksAreHeld' /\ ClientsAreHeld'
  BY <1>4, <1>1 DEF CreateConversation, DeleteProject, server, asked
<1>5. CASE Crash
  BY <1>5 DEF Crash
<1>6. CASE UNCHANGED vars
  BY <1>6, <1>1 DEF vars, server, asked
<1> QED
  BY <1>2, <1>3, <1>4, <1>5, <1>6

\* What a turn's step leaves alone of another turn that has the lock of another
\* conversation or none.
LEMMA OtherTurns ==
    ASSUME TypeOK, TurnInv, NEW r \in Turns, RunTurn(r), NEW q \in Turns, q # r
    PROVE  IsOld(q)' /\ Knows(q)' /\ GoesOn(q)'
<1>1. /\ step'[q] = step[q] /\ request'[q] = request[q] /\ history'[q] = history[q]
      /\ state' = state
  BY DEF TypeOK, TurnsType, RunTurn, GoOn, Connect, Poll, Prepare, ReadHistory, Repair, Insert, InsertOrFail, Append1,
         Answer, StoreAnswer, TurnFails, Unlock, Release, GoTo, rows, asked
<1>2. ASSUME step[q] \in WithHistory
      PROVE  messages'[ConversationOf(q)] = messages[ConversationOf(q)]
  <2>1. lock[ConversationOf(q)] = q /\ ConversationOf(q) \in Conversations
    BY <1>2, ConversationIn DEF TurnInv, LocksAreHeld, UnderLock, WithHistory
  <2>2. step[r] \in UnderLock => ConversationOf(r) # ConversationOf(q)
    BY <2>1 DEF TurnInv, LocksAreHeld
  <2>3. messages' = messages \/ (step[r] \in UnderLock /\ \E m : messages' = [messages EXCEPT ![ConversationOf(r)] = m])
    BY DEF RunTurn, GoOn, Connect, Poll, Prepare, ReadHistory, Repair, Insert, InsertOrFail, Append1, Answer,
           StoreAnswer, TurnFails, Unlock, Release, rows, UnderLock
  <2> QED
    BY <2>1, <2>2, <2>3 DEF TypeOK, RowsType
<1>3. IsOld(q) /\ Knows(q) /\ GoesOn(q)
  BY DEF TurnInv, TurnsGoOn
<1> QED
  BY <1>1, <1>2, <1>3 DEF IsOld, Knows, GoesOn, ConversationOf, Exists

\* A message added to a conversation that exists, where it may follow.
LEMMA AddMessage ==
    ASSUME TypeOK, HistoryIsWellFormed, NEW c \in Conversations, NEW m \in Message,
           MayFollow(messages[c], m), messages' = [messages EXCEPT ![c] = Append(@, m)]
    PROVE  HistoryIsWellFormed'
<1>1. \A b \in Conversations : messages'[b] = IF b = c THEN Append(messages[c], m) ELSE messages[b]
  BY DEF TypeOK, RowsType
<1>2. messages[c] \in Seq(Message) /\ WellFormed(messages[c])
  BY DEF TypeOK, RowsType, HistoryIsWellFormed
<1>3. WellFormed(Append(messages[c], m))
  BY <1>2, AppendWellFormed
<1>4. \A b \in Conversations : WellFormed(messages'[b])
  BY <1>1, <1>3 DEF HistoryIsWellFormed
<1> QED
  BY <1>4 DEF HistoryIsWellFormed

LEMMA InsertSteps ==
    ASSUME TypeOK, TurnInv, HistoryIsWellFormed, NEW r \in Turns, Repair(r) \/ Insert(r)
    PROVE  IsOld(r)' /\ Knows(r)' /\ GoesOn(r)' /\ HistoryIsWellFormed'
<1> DEFINE c == ConversationOf(r)
<1>1. /\ step[r] \in {"repair", "insert"} /\ c \in Conversations /\ history[r] \in Seq(Message)
      /\ Incoming(r) \in Message /\ Interrupted(history[r]) \in Message
  BY ConversationIn DEF Repair, Insert
<1>2. IsOld(r) /\ Knows(r) /\ GoesOn(r)
  BY DEF TurnInv, TurnsGoOn
<1>3. request' = request /\ state' = state /\ step \in [Turns -> Steps] /\ history \in [Turns -> Seq(Message)]
  BY DEF Repair, Insert, InsertOrFail, asked, TypeOK, TurnsType
<1>4. CASE ~Exists(r)
  <2>1. step' = [step EXCEPT ![r] = "unlock"] /\ messages' = messages
    BY <1>4 DEF Repair, Insert, InsertOrFail, AfterFailure, GoTo
  <2> QED
    BY <1>1, <1>2, <1>3, <2>1 DEF IsOld, Knows, GoesOn, WithHistory, ConversationOf, HistoryIsWellFormed
<1>5. ASSUME Exists(r), NEW m \in Message, NEW next \in {"insert", "model"}, Append1(r, m), GoTo(r, next),
             MayFollow(history[r], m),
             next = "insert" => request[r].role = "user" /\ Pending(Append(history[r], m)) = {},
             next = "model" => Pending(Append(history[r], m)) = {}
      PROVE  IsOld(r)' /\ Knows(r)' /\ GoesOn(r)' /\ HistoryIsWellFormed'
  <2>1. history[r] = messages[c]
    BY <1>1, <1>2, <1>5 DEF Knows, WithHistory
  <2>2. HistoryIsWellFormed'
    BY <1>1, <1>5, <2>1, AddMessage DEF Append1
  <2>3. step'[r] = next /\ history'[r] = Append(history[r], m)
    BY <1>3, <1>5 DEF GoTo, Append1
  <2>4. messages'[c] = Append(messages[c], m)
    BY <1>1, <1>5 DEF Append1, TypeOK, RowsType
  <2>5. IsOld(r)' /\ Knows(r)'
    BY <1>1, <1>2, <1>3, <2>1, <2>3, <2>4 DEF IsOld, Knows, ConversationOf
  <2>6. GoesOn(r)'
    BY <1>3, <1>5, <2>3 DEF GoesOn
  <2> QED
    BY <2>2, <2>5, <2>6
<1>6. CASE Exists(r) /\ Repair(r)
  <2>1. Append1(r, Interrupted(history[r])) /\ GoTo(r, "insert") /\ request[r].role = "user"
    BY <1>2, <1>6 DEF Repair, InsertOrFail, GoesOn
  <2>2. Pending(Append(history[r], Interrupted(history[r]))) = {}
    BY <1>1, AppendResults DEF Interrupted
  <2>3. MayFollow(history[r], Interrupted(history[r]))
    BY DEF MayFollow, Interrupted
  <2> QED
    BY <1>1, <1>5, <1>6, <2>1, <2>2, <2>3
<1>7. CASE Exists(r) /\ Insert(r)
  <2>1. Append1(r, Incoming(r)) /\ GoTo(r, "model") /\ step[r] = "insert"
    BY <1>7 DEF Insert, InsertOrFail
  <2>2. Pending(Append(history[r], Incoming(r))) = {} /\ MayFollow(history[r], Incoming(r))
    BY <1>1, <1>2, <2>1, AppendResults, AppendUser DEF GoesOn, Incoming, MayFollow
  <2> QED
    BY <1>1, <1>5, <1>7, <2>1, <2>2
<1> QED
  BY <1>4, <1>6, <1>7

\* What a turn's step does to itself.
LEMMA OwnTurn ==
    ASSUME TypeOK, TurnInv, HistoryIsWellFormed, NEW r \in Turns, RunTurn(r)
    PROVE  IsOld(r)' /\ Knows(r)' /\ GoesOn(r)' /\ HistoryIsWellFormed'
<1>1. IsOld(r) /\ Knows(r) /\ GoesOn(r) /\ step \in [Turns -> Steps] /\ history \in [Turns -> Seq(Message)]
  BY DEF TurnInv, TurnsGoOn, TypeOK, TurnsType
<1>2. ASSUME NEW s \in Steps \ WithHistory, GoTo(r, s), UNCHANGED <<rows, request>>, step[r] # "idle"
      PROVE  IsOld(r)' /\ Knows(r)' /\ GoesOn(r)' /\ HistoryIsWellFormed'
  BY <1>1, <1>2 DEF GoTo, WithHistory, rows, IsOld, Knows, GoesOn, ConversationOf, HistoryIsWellFormed
<1>3. CASE Connect(r) \/ Poll(r) \/ Prepare(r) \/ Unlock(r) \/ TurnFails(r)
  BY <1>2, <1>3 DEF Connect, Poll, Prepare, Unlock, TurnFails, AfterFailure, asked, Steps, WithHistory
<1>4. CASE ReadHistory(r)
  <2>1. CASE GoTo(r, "unlock")
    BY <1>2, <1>4, <2>1 DEF ReadHistory, asked, Steps, WithHistory
  <2>2. CASE Exists(r) /\ ValidContinuation(messages[ConversationOf(r)], Incoming(r))
    <3>1. /\ history'[r] = messages[ConversationOf(r)]
          /\ step'[r] = IF NeedsRepair(r) THEN "repair" ELSE "insert"
          /\ UNCHANGED <<rows, request>> /\ step[r] = "read"
      BY <1>1, <1>4, <2>2 DEF ReadHistory, GoTo, asked
    <3>2. request[r].role \in {"user", "tool"}
      BY <3>1, ConversationIn
    <3> QED
      BY <1>1, <2>2, <3>1, <3>2
         DEF rows, NeedsRepair, ValidContinuation, Incoming, IsOld, Knows, GoesOn, ConversationOf, HistoryIsWellFormed
  <2> QED
    BY <1>4, <2>1, <2>2 DEF ReadHistory, AfterFailure
<1>5. CASE Repair(r) \/ Insert(r)
  BY <1>5, InsertSteps
<1>6. CASE Answer(r)
  BY <1>1, <1>6 DEF Answer, GoTo, rows, asked, WithHistory, IsOld, Knows, GoesOn, ConversationOf, Exists, HistoryIsWellFormed
<1>7. CASE StoreAnswer(r)
  <2>1. /\ ConversationOf(r) \in Conversations /\ history[r] \in Seq(Message) /\ Answered(r) \in Message
        /\ step[r] = "store" /\ step'[r] = "unlock" /\ state' = state /\ request' = request
    BY <1>1, <1>7, ConversationIn DEF StoreAnswer, GoTo, asked
  <2>2. IsOld(r)' /\ Knows(r)' /\ GoesOn(r)'
    BY <1>1, <2>1 DEF IsOld, Knows, GoesOn, WithHistory, ConversationOf
  <2>3. CASE Exists(r)
    <3>1. MayFollow(messages[ConversationOf(r)], Answered(r))
      BY <1>1, <2>1, <2>3 DEF Knows, WithHistory, GoesOn, MayFollow, Answered
    <3> QED
      BY <1>7, <2>1, <2>2, <2>3, <3>1, AddMessage DEF StoreAnswer
  <2>4. CASE ~Exists(r)
    BY <1>7, <2>2, <2>4 DEF StoreAnswer, HistoryIsWellFormed
  <2> QED
    BY <2>3, <2>4
<1>8. CASE Release(r)
  BY <1>1, <1>8 DEF Release, GoTo, rows, IsOld, Knows, GoesOn, WithHistory, HistoryIsWellFormed
<1> QED
  BY <1>3, <1>4, <1>5, <1>6, <1>7, <1>8 DEF RunTurn, GoOn

LEMMA RunTurnInv ==
    ASSUME TypeOK, TurnInv, HistoryIsWellFormed, NEW r \in Turns, RunTurn(r)
    PROVE  TurnInv' /\ HistoryIsWellFormed'
<1>1. LoopsAreOld'
  BY DEF TurnInv, LoopsAreOld, LoopIsOld, RunTurn, GoOn, Connect, Poll, Prepare, ReadHistory, Repair, Insert,
         InsertOrFail, Answer, StoreAnswer, TurnFails, Unlock, Release, rows
<1>2. TurnsGoOn'
  BY OtherTurns, OwnTurn DEF TurnsGoOn
<1> QED
  BY <1>1, <1>2, LockSteps, OwnTurn DEF TurnInv

\* A conversation that is created is nobody's yet, and one that is gone is nobody's
\* any more.
LEMMA RowsInv ==
    ASSUME TypeOK, TurnInv, HistoryIsWellFormed, UNCHANGED <<step, request, history, loop>>,
           \/ UNCHANGED rows
           \/ \E c \in Conversations : Gone(c) \/ CreateConversation(c)
    PROVE  TurnsGoOn' /\ LoopsAreOld' /\ HistoryIsWellFormed'
<1>1. CASE UNCHANGED rows
  BY <1>1 DEF rows, TurnInv, TurnsGoOn, IsOld, Knows, GoesOn, LoopsAreOld, LoopIsOld, Exists, ConversationOf,
              HistoryIsWellFormed
<1>2. ASSUME NEW c \in Conversations, Gone(c) \/ CreateConversation(c)
      PROVE  TurnsGoOn' /\ LoopsAreOld' /\ HistoryIsWellFormed'
  <2>1. /\ \A b \in Conversations : state[b] # "none" =>
               state'[b] # "none" /\ (state'[b] = "live" => state[b] = "live" /\ messages'[b] = messages[b])
        /\ \A b \in Conversations : messages'[b] \in {messages[b], <<>>}
    BY <1>2 DEF TypeOK, RowsType, Gone, CreateConversation
  <2>2. ASSUME NEW r \in Turns PROVE IsOld(r)' /\ Knows(r)' /\ GoesOn(r)'
    <3>1. CASE step[r] = "idle"
      BY <3>1 DEF IsOld, Knows, GoesOn, WithHistory
    <3>2. CASE step[r] # "idle"
      BY <2>1, <3>2, ConversationIn
         DEF TurnInv, TurnsGoOn, IsOld, Knows, GoesOn, Exists, ConversationOf
    <3> QED
      BY <3>1, <3>2
  <2>3. ASSUME NEW t \in Tabs PROVE LoopIsOld(t)'
    BY <2>1 DEF TypeOK, LoopsType, Loop, TurnInv, LoopsAreOld, LoopIsOld
  <2>4. WellFormed(<<>>)
    BY DEF WellFormed
  <2> QED
    BY <2>1, <2>2, <2>3, <2>4 DEF TurnsGoOn, LoopsAreOld, HistoryIsWellFormed
<1> QED
  BY <1>1, <1>2

LEMMA AskInv ==
    ASSUME TypeOK, TurnInv, NEW t \in Tabs, NEW c \in Conversations, NEW role, NEW ids, NEW round,
           Ask(t, c, role, ids, round), state[c] # "none"
    PROVE  TurnsGoOn' /\ LoopsAreOld'
<1> PICK r \in Turns :
        /\ step' = [step EXCEPT ![r] = "connect"]
        /\ request' = [request EXCEPT ![r] = [conversation |-> c, role |-> role, ids |-> ids]]
        /\ loop' = [loop EXCEPT ![t] =
               [step |-> "wait", turn |-> r, conversation |-> c, round |-> round]]
  BY DEF Ask
<1>1. step'[r] = "connect" /\ request'[r].conversation = c /\ loop'[t].conversation = c /\ UNCHANGED <<rows, history>>
  BY DEF Ask, TypeOK, TurnsType, LoopsType
<1>2. ASSUME NEW q \in Turns PROVE IsOld(q)' /\ Knows(q)' /\ GoesOn(q)'
  <2>1. CASE q = r
    BY <1>1, <2>1 DEF IsOld, Knows, GoesOn, WithHistory, ConversationOf, rows
  <2>2. CASE q # r
    <3>1. step'[q] = step[q] /\ request'[q] = request[q] /\ history'[q] = history[q]
      BY <1>1, <2>2 DEF TypeOK, TurnsType
    <3> QED
      BY <1>1, <3>1 DEF TurnInv, TurnsGoOn, IsOld, Knows, GoesOn, Exists, ConversationOf, rows
  <2> QED
    BY <2>1, <2>2
<1>3. ASSUME NEW u \in Tabs PROVE LoopIsOld(u)'
  BY <1>1 DEF TypeOK, LoopsType, TurnInv, LoopsAreOld, LoopIsOld, rows
<1> QED
  BY <1>2, <1>3 DEF TurnsGoOn, LoopsAreOld

LEMMA BrowseInv ==
    ASSUME TypeOK, TurnInv, HistoryIsWellFormed, NEW t \in Tabs, Browse(t)
    PROVE  TurnsGoOn' /\ LoopsAreOld' /\ HistoryIsWellFormed'
<1>1. UNCHANGED rows
  BY DEF Browse, SendMessage, GetReply, SendResults, Leave, Ask
<1>2. HistoryIsWellFormed'
  BY <1>1 DEF HistoryIsWellFormed, rows
<1>3. ASSUME UNCHANGED <<step, request, history>>, NEW l, loop' = [loop EXCEPT ![t] = l],
             l.step # "idle" => loop[t].step # "idle" /\ l.conversation = loop[t].conversation
      PROVE  TurnsGoOn' /\ LoopsAreOld'
  BY <1>1, <1>3 DEF rows, TypeOK, LoopsType, TurnInv, TurnsGoOn, IsOld, Knows, GoesOn, LoopsAreOld, LoopIsOld,
                    Exists, ConversationOf
<1>4. ASSUME NEW c \in Conversations, SendMessage(t, c) PROVE TurnsGoOn' /\ LoopsAreOld'
  BY <1>4, AskInv DEF SendMessage
<1>5. loop[t].step # "idle" => loop[t].conversation \in Conversations /\ state[loop[t].conversation] # "none"
  BY DEF TypeOK, LoopsType, Loop, TurnInv, LoopsAreOld, LoopIsOld
<1>6. Idle.step = "idle" /\ [loop[t] EXCEPT !.step = "tools"].conversation = loop[t].conversation
  BY DEF Idle, TypeOK, LoopsType, Loop
<1>7. ASSUME UNCHANGED <<step, request, history>>, loop' = [loop EXCEPT ![t] = Idle]
      PROVE  TurnsGoOn' /\ LoopsAreOld'
  BY <1>3, <1>6, <1>7
<1>8. CASE GetReply(t)
  <2>1. UNCHANGED <<step, request, history>> /\ loop[t].step # "idle"
    BY <1>8 DEF GetReply, server, asked
  <2>2. ASSUME loop' = [loop EXCEPT ![t] = [@ EXCEPT !.step = "tools"]]
        PROVE  TurnsGoOn' /\ LoopsAreOld'
    BY <1>3, <1>6, <2>1, <2>2
  <2> QED
    BY <1>2, <1>8, <1>7, <2>1, <2>2 DEF GetReply
<1>9. CASE SendResults(t)
  <2>1. CASE MoreRounds(t)
    BY <1>2, <1>5, <1>9, <2>1, AskInv DEF SendResults
  <2>2. CASE ~MoreRounds(t)
    BY <1>2, <1>9, <1>7, <2>2 DEF SendResults, server, asked
  <2> QED
    BY <2>1, <2>2
<1>10. CASE Leave(t)
  BY <1>2, <1>10, <1>7 DEF Leave, server
<1> QED
  BY <1>2, <1>4, <1>8, <1>9, <1>10 DEF Browse

LEMMA NextInv == TypeOK /\ TurnInv /\ HistoryIsWellFormed /\ [Next]_vars => TurnInv' /\ HistoryIsWellFormed'
<1> SUFFICES ASSUME TypeOK, TurnInv, HistoryIsWellFormed, [Next]_vars PROVE TurnInv' /\ HistoryIsWellFormed'
  OBVIOUS
<1>1. ASSUME NEW r \in Turns, RunTurn(r) PROVE TurnInv' /\ HistoryIsWellFormed'
  BY <1>1, RunTurnInv
<1>2. ASSUME NEW d \in Deleters, RunDelete(d) \/ \E c \in Conversations : BeginDelete(d, c)
      PROVE  TurnInv' /\ HistoryIsWellFormed'
  <2>1. UNCHANGED <<step, request, history, loop>>
    BY <1>2 DEF RunDelete, ConnectDelete, CommitDelete, BeginDelete, server, asked
  <2>2. UNCHANGED rows \/ \E c \in Conversations : Gone(c)
    BY <1>2 DEF RunDelete, ConnectDelete, CommitDelete, BeginDelete, TypeOK, Deletion
  <2> QED
    BY <1>2, <2>1, <2>2, RowsInv, OtherLockSteps DEF TurnInv
<1>3. ASSUME NEW t \in Tabs, Browse(t) PROVE TurnInv' /\ HistoryIsWellFormed'
  BY <1>3, BrowseInv, OtherLockSteps DEF TurnInv
<1>4. ASSUME NEW c \in Conversations, CreateConversation(c) \/ DeleteProject(c)
      PROVE  TurnInv' /\ HistoryIsWellFormed'
  <2>1. UNCHANGED <<step, request, history, loop>> /\ (Gone(c) \/ CreateConversation(c))
    BY <1>4 DEF CreateConversation, DeleteProject, server, asked
  <2> QED
    BY <1>4, <2>1, RowsInv, OtherLockSteps DEF TurnInv
<1>5. CASE Crash
  <2>1. \A r \in Turns : step'[r] = "idle"
    BY <1>5 DEF Crash
  <2>2. UNCHANGED rows /\ loop' = loop
    BY <1>5 DEF Crash
  <2> QED
    BY <1>5, <2>1, <2>2, OtherLockSteps
       DEF rows, TurnInv, TurnsGoOn, IsOld, Knows, GoesOn, WithHistory, LoopsAreOld, LoopIsOld, HistoryIsWellFormed
<1>6. CASE UNCHANGED vars
  BY <1>6, RowsInv, OtherLockSteps DEF TurnInv, vars, server, asked
<1> QED
  BY <1>1, <1>2, <1>3, <1>4, <1>5, <1>6 DEF Next

\* The inductive invariant: besides the types and the histories it says who holds
\* the locks, and what a turn that holds one knows.
ChatInv == TypeOK /\ TurnInv /\ HistoryIsWellFormed

LEMMA ChatInvHolds == Spec => []ChatInv
<1>1. Init => ChatInv
  BY InitType, InitInv DEF ChatInv
<1>2. ChatInv /\ [Next]_vars => ChatInv'
  BY NextType, NextInv DEF ChatInv
<1> QED
  BY <1>1, <1>2, PTL DEF Spec

\* "Serializes model turns so one conversation cannot interleave its history"
\* (turn.ts:372): the advisory lock makes what the model was asked with the
\* conversation its answer is appended to.
THEOREM TurnsAreSerial == Spec => []AnswersWholeHistory
<1>1. ChatInv => AnswersWholeHistory
  BY DEF ChatInv, TurnInv, TurnsGoOn, Knows, WithHistory, AnswersWholeHistory
<1> QED
  BY <1>1, ChatInvHolds, PTL

\* pendingToolCallIds, validateToolContinuation and the repair of runTurn
\* (turn.ts:156-236) keep every history one the model accepts.
THEOREM HistoriesAreWellFormed == Spec => []HistoryIsWellFormed
<1>1. ChatInv => HistoryIsWellFormed
  BY DEF ChatInv
<1> QED
  BY <1>1, ChatInvHolds, PTL

\* The finally blocks of streamTurn (turn.ts:394-405) give back lock and client.
THEOREM TurnsLeakNothing == Spec => []NothingLeaks
<1>1. ChatInv => NothingLeaks
  BY DEF ChatInv, TurnInv, LocksAreHeld, ClientsAreHeld, UnderLock, NothingLeaks
<1> QED
  BY <1>1, ChatInvHolds, PTL

\* deleteConversation waits for the turn that runs (conversations.ts:136-140): only
\* the deletion of the project takes a conversation away under a turn.
THEOREM DeletesWait == Spec => DeletesWaitForTurns
<1>1. ASSUME ChatInv, NEW d \in Deleters, NEW c \in Conversations, CommitDelete(d), state[c] # state'[c],
             NEW r \in Turns, step[r] \in {"read", "repair", "insert", "model", "store"}
      PROVE  ConversationOf(r) # c
  <2>1. deletion[d].conversation \in Conversations /\ lock[deletion[d].conversation] = Nobody
    BY <1>1 DEF ChatInv, TypeOK, Deletion, CommitDelete, MayDelete
  <2>2. c = deletion[d].conversation
    BY <1>1, <2>1 DEF ChatInv, TypeOK, RowsType, CommitDelete, Gone, rows
  <2>3. lock[ConversationOf(r)] = r
    BY <1>1 DEF ChatInv, TurnInv, LocksAreHeld, UnderLock
  <2> QED
    BY <2>1, <2>2, <2>3, NobodyIsNothingElse
<1>2. ChatInv /\ [Next]_vars =>
        [\A d \in Deleters, c \in Conversations :
            (CommitDelete(d) /\ state[c] # state'[c]) =>
                \A r \in Turns : step[r] \in {"read", "repair", "insert", "model", "store"} =>
                    ConversationOf(r) # c]_vars
  BY <1>1
<1> QED
  BY <1>2, ChatInvHolds, PTL DEF Spec, DeletesWaitForTurns
=============================================================================
