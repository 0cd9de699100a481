----------------------------- MODULE AccessProofs -----------------------------
(***************************************************************************)
(* Proofs about Access for any browsers, passkeys, tokens and processes,   *)
(* and any bounds.                                                         *)
(***************************************************************************)
EXTENDS Access, SequenceTheorems, WellFoundedInduction, TLAPS

-----------------------------------------------------------------------------
(* What the browsers leave alone *)

\* A browser, a connection and a crash touch none of the server's rows.
LEMMA BrowsersStayAway ==
    ASSUME \/ \E d \in Devices : Browse(d)
           \/ \E h \in Slots : Resend(h) \/ Forget(h)
           \/ Crash
    PROVE  UNCHANGED <<server, commands, preset, stored, opened, mixed>>
<1>1. ASSUME NEW d \in Devices, Browse(d) PROVE Away
  BY <1>1 DEF Browse, Refresh, Press, CreatePasskey, AssertPasskey, Cancel, HearAnswer, AskOptions,
              HearConflict, HearFailure, Reload, EditPalette, SendSave, HearSaved, HearUnsaved
<1>2. ASSUME NEW h \in Slots, Resend(h) \/ Forget(h) PROVE Away
  BY <1>2 DEF Resend, Forget
<1>3. CASE Crash
  BY <1>3 DEF Crash, Away
<1> QED
  BY <1>1, <1>2, <1>3 DEF Away
-----------------------------------------------------------------------------
(* A token and a challenge are used once *)

Ceremony == [kind : {"registration", "authentication"}, open : BOOLEAN, keys : SUBSET Keys, uses : {0, 1}]
Command == [op : {"none", "start", "setupToken", "revokeAll"},
            step : {"none", "preset", "read", "store", "rotate", "print", "revoke"},
            token : AllTokens \cup {None}]

\* A stored token has been taken less often than stored, so it may be taken again.
TokensInv ==
    /\ DOMAIN account = {"enrolled", "token", "palette"}
    /\ account.enrolled \in BOOLEAN /\ account.token \in AllTokens \cup {None}
    /\ preset \in Presets
    /\ opened \in [AllTokens -> Nat] /\ stored \in [AllTokens -> Nat]
    /\ \A t \in AllTokens : /\ opened[t] <= stored[t]
                            /\ account.token = t => opened[t] < stored[t]

CommandsInv ==
    /\ commands \in [Admins -> Command]
    /\ \A a \in Admins : /\ commands[a].step = "preset" => preset # None
                         /\ commands[a].step = "revoke" => commands[a].op = "revokeAll"

\* An open challenge has not been used.
CeremoniesInv ==
    /\ ceremonies \in Seq(Ceremony)
    /\ \A c \in DOMAIN ceremonies : ceremonies[c].open => ceremonies[c].uses = 0

UseInv == TokensInv /\ CommandsInv /\ CeremoniesInv

LEMMA NoneIsNoToken == None \notin AllTokens
BY NoneIsNothing DEF AllTokens

LEMMA InitUse == Init => UseInv
<1> SUFFICES ASSUME Init PROVE UseInv
  OBVIOUS
<1> PICK start \in Starts :
        /\ preset = start.preset
        /\ account = [enrolled |-> Live # {}, token |-> None, palette |-> <<Black>>]
        /\ sessions = [s \in DOMAIN start.signedIn |-> TRUE]
  BY DEF Init
<1>1. start.preset \in Presets /\ start.signedIn \in Seq(Devices)
  BY StartsAreSound
<1>2. TokensInv
  <2>1. stored = [t \in AllTokens |-> 0] /\ opened = [t \in AllTokens |-> 0]
    BY DEF Init
  <2>2. Tokens \subseteq AllTokens
    BY DEF AllTokens
  <2> QED
    BY <1>1, <2>1, <2>2, NoneIsNoToken DEF TokensInv
<1>3. CommandsInv
  BY DEF Init, CommandsInv, NoCommand, Command
<1>4. DOMAIN sessions = 1..Len(start.signedIn) /\ Len(start.signedIn) \in Nat
  BY <1>1
<1>5. CeremoniesInv
  <2>1. ceremonies = [c \in 1..Len(start.signedIn) |->
            [kind |-> "registration", open |-> FALSE, keys |-> {}, uses |-> 1]]
    BY <1>4 DEF Init
  <2>2. [kind |-> "registration", open |-> FALSE, keys |-> {}, uses |-> 1] \in Ceremony
    BY DEF Ceremony
  <2> QED
    BY <1>4, <2>1, <2>2 DEF CeremoniesInv
<1> QED
  BY <1>2, <1>3, <1>5 DEF UseInv

LEMMA ReplaceCeremony ==
    ASSUME CeremoniesInv, NEW c \in DOMAIN ceremonies, NEW x \in Ceremony,
           x.open => x.uses = 0, ceremonies' = [ceremonies EXCEPT ![c] = x]
    PROVE  CeremoniesInv'
<1>1. ceremonies \in Seq(Ceremony) /\ c \in 1..Len(ceremonies)
  BY DEF CeremoniesInv
<1>2. ceremonies' \in Seq(Ceremony) /\ DOMAIN ceremonies' = DOMAIN ceremonies
  BY <1>1, ExceptSeq
<1>3. ASSUME NEW i \in DOMAIN ceremonies PROVE ceremonies'[i] = IF i = c THEN x ELSE ceremonies[i]
  BY <1>1
<1> QED
  BY <1>2, <1>3 DEF CeremoniesInv

LEMMA TakenCeremony ==
    ASSUME NEW y \in Ceremony, y.uses = 0
    PROVE  [y EXCEPT !.open = FALSE, !.uses = @ + 1] \in Ceremony
<1>1. y.uses + 1 = 1
  OBVIOUS
<1>2. [y EXCEPT !.open = FALSE, !.uses = 1] \in Ceremony
  BY DEF Ceremony
<1> QED
  BY <1>1, <1>2

LEMMA HandleUse == ASSUME UseInv, NEW h \in Slots, Handle(h) PROVE UseInv'
<1>1. UNCHANGED <<commands, preset>>
  BY DEF Handle, TakeToken, OpenSession, RegistrationOptions, LoginOptions, ReadKey, TakeChallenge,
         InsertKey, MarkEnrolled, ReadSession, RevokeSession, StorePalette, Outside
<1>2. CommandsInv'
  BY <1>1 DEF UseInv, CommandsInv
<1>3. TokensInv'
  <2>1. CASE TakeToken(h)
    BY <2>1, <1>1, NoneIsNoToken DEF UseInv, TokensInv, TakeToken
  <2>2. CASE MarkEnrolled(h)
    BY <2>2, <1>1 DEF UseInv, TokensInv, MarkEnrolled
  <2>3. CASE StorePalette(h)
    BY <2>3, <1>1 DEF UseInv, TokensInv, StorePalette
  <2>4. CASE OpenSession(h) \/ RegistrationOptions(h) \/ LoginOptions(h) \/ ReadKey(h)
             \/ TakeChallenge(h) \/ InsertKey(h) \/ ReadSession(h) \/ RevokeSession(h)
    <3>1. UNCHANGED <<account, opened, stored>>
      BY <2>4 DEF OpenSession, RegistrationOptions, LoginOptions, ReadKey, TakeChallenge,
                  InsertKey, ReadSession, RevokeSession, server, history
    <3> QED
      BY <3>1, <1>1 DEF UseInv, TokensInv
  <2> QED
    BY <2>1, <2>2, <2>3, <2>4 DEF Handle
<1>4. CeremoniesInv'
  <2>1. ASSUME NEW kind \in {"registration", "authentication"}, Challenge(h, kind)
        PROVE  CeremoniesInv'
    <3> DEFINE made == [kind |-> kind, open |-> TRUE, keys |-> Live, uses |-> 0]
    <3>1. made \in Ceremony
      BY DEF Ceremony, Live
    <3>2. ceremonies' = Append(ceremonies, made)
      BY <2>1 DEF Challenge
    <3> QED
      BY <3>1, <3>2 DEF UseInv, CeremoniesInv, Ceremony
  <2>2. CASE TakeChallenge(h)
    <3> DEFINE c == calls[h].ceremony
    <3>1. \/ ceremonies[c].open /\ ceremonies' = [ceremonies EXCEPT ![c].open = FALSE, ![c].uses = @ + 1]
          \/ UNCHANGED ceremonies
      BY <2>2 DEF TakeChallenge
    <3> HIDE DEF c
    <3>2. CASE c \in DOMAIN ceremonies /\ ceremonies[c].open
               /\ ceremonies' = [ceremonies EXCEPT ![c].open = FALSE, ![c].uses = @ + 1]
      <4> DEFINE x == [ceremonies[c] EXCEPT !.open = FALSE, !.uses = @ + 1]
      <4>1. ceremonies[c] \in Ceremony
        BY <3>2 DEF UseInv, CeremoniesInv
      <4>2. ceremonies[c].uses = 0
        BY <3>2 DEF UseInv, CeremoniesInv
      <4>3. x \in Ceremony
        BY <4>1, <4>2, TakenCeremony
      <4>4. ceremonies' = [ceremonies EXCEPT ![c] = x]
        BY <3>2
      <4>5. ~x.open
        BY <4>1 DEF Ceremony
      <4> QED
        BY <3>2, <4>3, <4>4, <4>5, ReplaceCeremony DEF UseInv
    <3>3. CASE c \notin DOMAIN ceremonies
               /\ ceremonies' = [ceremonies EXCEPT ![c].open = FALSE, ![c].uses = @ + 1]
      <4>1. ceremonies' = ceremonies
        BY <3>3 DEF UseInv, CeremoniesInv
      <4> QED
        BY <4>1 DEF UseInv, CeremoniesInv
    <3> QED
      BY <3>1, <3>2, <3>3 DEF UseInv, CeremoniesInv
  <2>3. CASE UNCHANGED ceremonies
    BY <2>3 DEF UseInv, CeremoniesInv
  <2> QED
    BY <2>1, <2>2, <2>3 DEF Handle, TakeToken, OpenSession, RegistrationOptions, LoginOptions, ReadKey,
         InsertKey, MarkEnrolled, ReadSession, RevokeSession, StorePalette, server
<1> QED
  BY <1>2, <1>3, <1>4 DEF UseInv

LEMMA ExpireUse == ASSUME UseInv, Expire PROVE UseInv'
<1>1. TokensInv' /\ CommandsInv'
  BY DEF UseInv, TokensInv, CommandsInv, Expire, Outside, history
<1>2. ASSUME NEW c \in DOMAIN ceremonies, ceremonies[c].open,
             ceremonies' = [ceremonies EXCEPT ![c].open = FALSE]
      PROVE  CeremoniesInv'
  <2> DEFINE x == [ceremonies[c] EXCEPT !.open = FALSE]
  <2>1. ceremonies[c] \in Ceremony
    BY DEF UseInv, CeremoniesInv
  <2>2. x \in Ceremony /\ ~x.open
    BY <2>1 DEF Ceremony
  <2>3. ceremonies' = [ceremonies EXCEPT ![c] = x]
    BY <1>2
  <2> QED
    BY <2>2, <2>3, ReplaceCeremony DEF UseInv
<1>3. ASSUME UNCHANGED ceremonies PROVE CeremoniesInv'
  BY <1>3 DEF UseInv, CeremoniesInv
<1> QED
  BY <1>1, <1>2, <1>3 DEF Expire, UseInv

LEMMA AdministerUse == ASSUME UseInv, NEW a \in Admins, Administer(a) PROVE UseInv'
<1>1. UNCHANGED <<ceremonies, preset, opened>>
  BY DEF Administer, Run, StorePreset, ReadStatus, StoreToken, RotateToken, PrintToken, RevokeKeys, Besides
<1>2. SUFFICES TokensInv' /\ CommandsInv'
  BY <1>1 DEF UseInv, CeremoniesInv
<1>3. ASSUME NEW op \in {"start", "setupToken", "revokeAll"}, Run(a, op)
      PROVE  TokensInv' /\ CommandsInv'
  BY <1>1, <1>3 DEF UseInv, TokensInv, CommandsInv, Command, Run
<1>4. CASE StorePreset(a)
  <2>1. preset \in AllTokens /\ preset \notin Tokens
    BY <1>4, PresetsAreApart DEF UseInv, TokensInv, CommandsInv, StorePreset, Running, AllTokens
  <2>2. CommandsInv'
    BY <1>1, <1>4 DEF UseInv, CommandsInv, Command, StorePreset, DoneWith, NoCommand
  <2>3. UNCHANGED <<account, stored>>
        \/ /\ account.token = None
           /\ account' = [account EXCEPT !.token = preset]
           /\ stored' = [stored EXCEPT ![preset] = @ + 1]
    BY <1>4 DEF StorePreset
  <2>4. CASE UNCHANGED <<account, stored>>
    BY <1>1, <2>2, <2>4 DEF UseInv, TokensInv
  <2>5. CASE /\ account.token = None
             /\ account' = [account EXCEPT !.token = preset]
             /\ stored' = [stored EXCEPT ![preset] = @ + 1]
    <3>1. /\ DOMAIN account' = DOMAIN account /\ account'.token = preset
          /\ account'.enrolled \in BOOLEAN
      BY <2>5 DEF UseInv, TokensInv
    <3>2. /\ stored' \in [AllTokens -> Nat] /\ stored'[preset] = stored[preset] + 1
          /\ \A u \in AllTokens \ {preset} : stored'[u] = stored[u]
      BY <2>1, <2>5 DEF UseInv, TokensInv
    <3>3. Tokens \subseteq AllTokens
      BY DEF AllTokens
    <3>4. TokensInv'
      BY <1>1, <2>1, <3>1, <3>2, <3>3 DEF UseInv, TokensInv
    <3> QED
      BY <2>2, <3>4
  <2> QED
    BY <2>3, <2>4, <2>5
<1>5. CASE ReadStatus(a)
  BY <1>1, <1>5 DEF UseInv, TokensInv, CommandsInv, Command, ReadStatus, NoCommand
<1>6. ASSUME StoreToken(a) \/ RotateToken(a) PROVE TokensInv' /\ CommandsInv'
  <2>1. PICK t \in Fresh :
            /\ \/ account' = [account EXCEPT !.token = t]
               \/ account' = [account EXCEPT !.token = t,
                                !.enrolled = IF account.token = None THEN FALSE ELSE @]
            /\ stored' = [stored EXCEPT ![t] = 1]
            /\ \/ commands' = [commands EXCEPT ![a] = NoCommand]
               \/ commands' = [commands EXCEPT ![a].step = "print", ![a].token = t]
               \/ commands' = [commands EXCEPT ![a] = [@ EXCEPT !.step = "print", !.token = t]]
    BY <1>6 DEF StoreToken, RotateToken
  <2>2. t \in Tokens /\ t \in AllTokens /\ stored[t] = 0 /\ opened[t] = 0
    BY <2>1 DEF Fresh, AllTokens, UseInv, TokensInv
  <2>3. TokensInv'
    <3>1. /\ DOMAIN account' = DOMAIN account /\ account'.token = t
          /\ account'.enrolled \in BOOLEAN
      BY <2>1 DEF UseInv, TokensInv
    <3>2. /\ stored' \in [AllTokens -> Nat] /\ stored'[t] = 1
          /\ \A u \in AllTokens \ {t} : stored'[u] = stored[u]
      BY <2>1, <2>2 DEF UseInv, TokensInv
    <3>3. Tokens \subseteq AllTokens
      BY DEF AllTokens
    <3> QED
      BY <1>1, <2>2, <3>1, <3>2, <3>3 DEF UseInv, TokensInv
  <2>4. CommandsInv'
    <3>1. commands[a] \in Command /\ NoCommand \in Command
      BY DEF UseInv, CommandsInv, NoCommand, Command
    <3>2. commands' = [commands EXCEPT ![a] = NoCommand]
          \/ commands' = [commands EXCEPT ![a] = [commands[a] EXCEPT !.step = "print", !.token = t]]
      BY <2>1, <3>1 DEF UseInv, CommandsInv, Command
    <3>3. [commands[a] EXCEPT !.step = "print", !.token = t] \in Command
      BY <2>2, <3>1 DEF Command
    <3> QED
      BY <1>1, <3>1, <3>2, <3>3 DEF UseInv, CommandsInv, NoCommand, Command
  <2> QED
    BY <2>3, <2>4
<1>7. CASE PrintToken(a)
  BY <1>1, <1>7 DEF UseInv, TokensInv, CommandsInv, Command, PrintToken, DoneWith, NoCommand
<1>8. CASE RevokeKeys(a)
  BY <1>1, <1>8 DEF UseInv, TokensInv, CommandsInv, Command, RevokeKeys
<1> QED
  BY <1>3, <1>4, <1>5, <1>6, <1>7, <1>8 DEF Administer

LEMMA NextUse == UseInv /\ [Next]_vars => UseInv'
<1> SUFFICES ASSUME UseInv, [Next]_vars PROVE UseInv'
  OBVIOUS
<1>1. CASE \/ \E d \in Devices : Browse(d)
           \/ \E h \in Slots : Resend(h) \/ Forget(h)
           \/ Crash
  BY <1>1, BrowsersStayAway DEF UseInv, TokensInv, CommandsInv, CeremoniesInv, server
<1>2. CASE \E h \in Slots : Handle(h)
  BY <1>2, HandleUse
<1>3. CASE \E a \in Admins : Administer(a)
  BY <1>3, AdministerUse
<1>4. CASE Expire
  BY <1>4, ExpireUse
<1>5. CASE UNCHANGED vars
  BY <1>5 DEF UseInv, TokensInv, CommandsInv, CeremoniesInv, vars, server, history
<1> QED
  BY <1>1, <1>2, <1>3, <1>4, <1>5 DEF Next

LEMMA UseHolds == Spec => []UseInv
BY InitUse, NextUse, PTL DEF Spec

\* However handlers, commands and crashes interleave, and although requests may arrive
\* twice, a setup token opens at most as many sessions as times it has been stored, and a
\* challenge is answered by one registration or one sign-in.
THEOREM TokensAreUsedOnce == Spec => []UsedOnce
<1>1. UseInv => UsedOnce
  <2> SUFFICES ASSUME UseInv PROVE UsedOnce
    OBVIOUS
  <2>1. ASSUME NEW c \in DOMAIN ceremonies PROVE ceremonies[c].uses <= 1
    <3>1. ceremonies[c] \in Ceremony
      BY DEF UseInv, CeremoniesInv
    <3> QED
      BY <3>1 DEF Ceremony
  <2> QED
    BY <2>1 DEF UseInv, TokensInv, UsedOnce
<1> QED
  BY <1>1, UseHolds, PTL
-----------------------------------------------------------------------------
(* The owner is not locked out *)

CallFields == {"op", "step", "device", "session", "token", "key", "ceremony", "palette", "at"}
Marks == {"consume", "open", "insert", "mark", "markAgain"}

\* A handler on its way to the mark is a sign-in, a registration or a setup's session.
IsCall(call) ==
    /\ DOMAIN call = CallFields
    /\ call.op \in {"login", "register"} => call.key \in Keys
    /\ call.step = "consume" => call.op = "login"
    /\ call.step = "open" => call.op \in {"setup", "login"}
    /\ call.step = "insert" => call.op = "register"
    /\ call.step = "mark" => call.op \in {"login", "register"}
    /\ call.step = "markAgain" => call.op = "register"

\* A call that is none of the server's handlers' doing.
Harmless(call) == IsCall(call) /\ call.step \notin Marks
SameWork(call, other) ==
    /\ DOMAIN call = DOMAIN other
    /\ call.op = other.op /\ call.step = other.step /\ call.key = other.key

Marking(call) == \/ call.op = "login" /\ call.step \in {"consume", "open", "mark"}
                 \/ call.op = "register" /\ call.step \in {"mark", "markAgain"}

CallsInv == DOMAIN calls = Slots /\ \A h \in Slots : IsCall(calls[h])

KeysInv ==
    /\ CallsInv
    /\ keys \in [Keys -> {"none", "live", "revoked"}]
    /\ mixed \in BOOLEAN
    /\ account.enrolled /\ ~mixed => Live # {} \/ Revoking
    /\ \A h \in Slots : Marking(calls[h]) /\ ~mixed => keys[calls[h].key] = "live"
    /\ account.enrolled /\ account.token # None => mixed

\* What a request, an answer, a broken connection, a reload or a crash makes of the calls.
CallsMove ==
    /\ DOMAIN calls' = Slots
    /\ \A h \in Slots : SameWork(calls'[h], calls[h]) \/ Harmless(calls'[h])

LEMMA NoCallHarmless == Harmless(NoCall)
BY DEF Harmless, IsCall, NoCall, CallFields, Marks

LEMMA SignsInMarks == ASSUME NEW h \in Slots PROVE SignsIn(h) <=> Marking(calls[h])
BY DEF SignsIn, Marking, At

LEMMA SetCall ==
    ASSUME CallsInv, NEW h, NEW call, Harmless(call), calls' = [calls EXCEPT ![h] = call]
    PROVE  CallsMove
BY DEF CallsInv, CallsMove, SameWork

LEMMA ReleaseMoves == ASSUME CallsInv, NEW h, Release(h) PROVE CallsMove
BY NoCallHarmless, SetCall DEF Release

LEMMA StayMoves == ASSUME CallsInv, UNCHANGED calls PROVE CallsMove
BY DEF CallsInv, CallsMove, SameWork

LEMMA ResendMoves == ASSUME CallsInv, NEW h \in Slots, Resend(h) PROVE CallsMove
<1> PICK call : call = [calls[h] EXCEPT !.step = "sent", !.device = None]
  OBVIOUS
<1>1. IsCall(calls[h])
  BY DEF CallsInv
<1>2. /\ DOMAIN call = CallFields /\ call.op = calls[h].op /\ call.key = calls[h].key
      /\ call.step = "sent"
  BY <1>1 DEF IsCall, CallFields
<1>3. Harmless(call)
  BY <1>1, <1>2 DEF Harmless, IsCall, Marks
<1> QED
  BY <1>3, SetCall DEF Resend

LEMMA BreaksMoves == ASSUME CallsInv, NEW h, Breaks(h) PROVE CallsMove
BY DEF CallsInv, CallsMove, SameWork, Breaks, IsCall, CallFields

LEMMA AskMoves ==
    ASSUME CallsInv, NEW d, NEW tab, NEW call, DOMAIN call = CallFields,
           call.op \in {"login", "register"} => call.key \in Keys, Ask(d, tab, call)
    PROVE  CallsMove
<1> PICK h : calls' = [calls EXCEPT ![h] = [call EXCEPT !.step = "sent", !.device = d,
                                                        !.session = tab.cookie]]
  BY DEF Ask
<1> DEFINE sent == [call EXCEPT !.step = "sent", !.device = d, !.session = tab.cookie]
<1>1. /\ DOMAIN sent = CallFields /\ sent.step = "sent"
      /\ sent.op = call.op /\ sent.key = call.key
  BY DEF CallFields
<1> HIDE DEF sent
<1>2. Harmless(sent)
  BY <1>1 DEF Harmless, IsCall, Marks
<1> QED
  BY <1>2, SetCall DEF sent

LEMMA CallFits ==
    ASSUME NEW op, NEW call, call = Call(op), op \notin {"login", "register"}
    PROVE  DOMAIN call = CallFields /\ call.op = op
BY DEF Call, NoCall, CallFields

LEMMA BrowseMoves == ASSUME CallsInv, NEW d \in Devices, Browse(d) PROVE CallsMove
<1>1. CASE Refresh(d)
  BY <1>1, CallFits, AskMoves DEF Refresh
<1>2. CASE Press(d)
  <2>1. ASSUME NEW op \in {"loginOptions", "logout"}, Ask(d, tabs[d], Call(op)) PROVE CallsMove
    BY <2>1, CallFits, AskMoves
  <2>2. ASSUME NEW t \in known, Ask(d, tabs[d], [Call("setup") EXCEPT !.token = t]) PROVE CallsMove
    <3> DEFINE call == [Call("setup") EXCEPT !.token = t]
    <3>1. DOMAIN call = CallFields /\ call.op = "setup"
      BY DEF Call, NoCall, CallFields
    <3> QED
      BY <2>2, <3>1, AskMoves
  <2> QED
    BY <1>2, <2>1, <2>2 DEF Press
<1>3. CASE CreatePasskey(d)
  <2> PICK k \in Keys :
        Ask(d, tabs[d], [Call("register") EXCEPT !.key = k, !.ceremony = tabs[d].ceremony])
    BY <1>3 DEF CreatePasskey
  <2> DEFINE call == [Call("register") EXCEPT !.key = k, !.ceremony = tabs[d].ceremony]
  <2>1. DOMAIN call = CallFields /\ call.key = k
    BY DEF Call, NoCall, CallFields
  <2> QED
    BY <2>1, AskMoves
<1>4. CASE AssertPasskey(d)
  <2> PICK k \in Keys :
        Ask(d, tabs[d], [Call("login") EXCEPT !.key = k, !.ceremony = tabs[d].ceremony])
    BY <1>4 DEF AssertPasskey
  <2> DEFINE call == [Call("login") EXCEPT !.key = k, !.ceremony = tabs[d].ceremony]
  <2>1. DOMAIN call = CallFields /\ call.key = k
    BY DEF Call, NoCall, CallFields
  <2> QED
    BY <2>1, AskMoves
<1>5. CASE Cancel(d)
  BY <1>5, StayMoves DEF Cancel
<1>6. CASE HearAnswer(d)
  BY <1>6, ReleaseMoves DEF HearAnswer
<1>7. CASE AskOptions(d)
  BY <1>7, CallFits, AskMoves DEF AskOptions
<1>8. CASE HearConflict(d)
  BY <1>8, ReleaseMoves DEF HearConflict
<1>9. CASE HearFailure(d)
  BY <1>9, ReleaseMoves, BreaksMoves DEF HearFailure
<1>10. CASE Reload(d)
  BY <1>10 DEF Reload, CallsInv, CallsMove, SameWork, IsCall, CallFields
<1>11. CASE EditPalette(d)
  BY <1>11, StayMoves DEF EditPalette
<1>12. CASE SendSave(d)
  <2> DEFINE call == [Call("palette") EXCEPT !.palette = tabs[d].saves[1].palette]
  <2>1. DOMAIN call = CallFields /\ call.op = "palette"
    BY DEF Call, NoCall, CallFields
  <2> QED
    BY <1>12, <2>1, AskMoves DEF SendSave
<1>13. CASE HearSaved(d)
  BY <1>13, ReleaseMoves DEF HearSaved
<1>14. CASE HearUnsaved(d)
  BY <1>14, ReleaseMoves, BreaksMoves DEF HearUnsaved
<1> QED
  BY <1>1, <1>2, <1>3, <1>4, <1>5, <1>6, <1>7, <1>8, <1>9, <1>10, <1>11, <1>12, <1>13, <1>14 DEF Browse

\* The calls may move so without a change of the keys, the account or the commands.
LEMMA MoveKeys ==
    ASSUME KeysInv, CallsMove, UNCHANGED <<keys, account, commands, mixed>>
    PROVE  KeysInv'
<1>1. ASSUME NEW h \in Slots
      PROVE  IsCall(calls'[h]) /\ (Marking(calls'[h]) => Marking(calls[h]) /\ calls'[h].key = calls[h].key)
  <2>1. CASE SameWork(calls'[h], calls[h])
    BY <2>1 DEF KeysInv, CallsInv, SameWork, IsCall, Marking
  <2>2. CASE Harmless(calls'[h])
    BY <2>2 DEF Harmless, Marking, Marks
  <2> QED
    BY <2>1, <2>2 DEF CallsMove
<1> QED
  BY <1>1 DEF KeysInv, CallsInv, CallsMove, Live, Revoking

LEMMA CrashMoves == ASSUME CallsInv, Crash PROVE CallsMove
<1>1. calls' = [h \in Slots |-> IF calls[h].op = "none" THEN NoCall ELSE [calls[h] EXCEPT !.step = "failed"]]
  BY DEF Crash
<1>2. ASSUME NEW h \in Slots PROVE Harmless([calls[h] EXCEPT !.step = "failed"])
  BY DEF CallsInv, Harmless, IsCall, CallFields, Marks
<1> QED
  BY <1>1, <1>2, NoCallHarmless DEF CallsMove

Steps == {"open", "answered", "failed", "conflict", "insert", "mark"}

\* A call that goes on to the next step, and why that step may be one.
Advanced(moved, call, next) ==
    /\ DOMAIN moved = DOMAIN call /\ moved.op = call.op /\ moved.key = call.key
    /\ moved.step = next
    /\ next = "open" => call.op = "setup" \/ (call.op = "login" /\ call.step = "consume")
    /\ next = "mark" => call.op = "login" /\ call.step = "open"
    /\ next = "insert" => call.op = "register"

LEMMA HandleKeys == ASSUME KeysInv, UseInv, NEW h \in Slots, Handle(h) PROVE KeysInv'
<1> DEFINE call == calls[h]
<1>1. IsCall(call) /\ DOMAIN calls = Slots
  BY DEF KeysInv, CallsInv
<1>2. UNCHANGED commands
  BY DEF Handle, TakeToken, OpenSession, RegistrationOptions, LoginOptions, ReadKey, TakeChallenge,
         InsertKey, MarkEnrolled, ReadSession, RevokeSession, StorePalette, Outside
<1>3. CASE MarkEnrolled(h)
  <2>1. Marking(call)
    BY <1>1, <1>3 DEF MarkEnrolled, IsCall, Marking
  <2>2. ~mixed => Live # {}
    BY <1>1, <2>1 DEF KeysInv, IsCall, Marking, Live
  <2>3. account.enrolled' /\ account.token' = account.token /\ mixed' = (mixed \/ account.token # None)
        /\ keys' = keys
    BY <1>3 DEF MarkEnrolled, UseInv, TokensInv
  <2>4. \E next \in {"markAgain", "answered"} :
            /\ calls' = [calls EXCEPT ![h].step = next]
            /\ next = "markAgain" => call.op = "register"
    BY <1>3 DEF MarkEnrolled, GoTo, At
  <2>5. /\ CallsInv'
        /\ \A g \in Slots : Marking(calls'[g]) => Marking(calls[g]) /\ calls'[g].key = calls[g].key
    BY <1>1, <2>1, <2>4 DEF KeysInv, CallsInv, IsCall, CallFields, Marking
  <2> QED
    BY <1>2, <2>2, <2>3, <2>5 DEF KeysInv, Live, Revoking
<1>4. CASE InsertKey(h)
  <2>1. call.op = "register" /\ call.step = "insert" /\ call.key \in Keys
    BY <1>1, <1>4 DEF InsertKey, At, IsCall
  <2>2. keys' = [keys EXCEPT ![call.key] = "live"] /\ UNCHANGED <<account, mixed>>
    BY <1>4 DEF InsertKey, history
  <2>3. calls' = [calls EXCEPT ![h].step = "mark"]
    BY <1>4 DEF InsertKey, GoTo
  <2>4. CallsInv' /\ \A g \in Slots : calls'[g].key = calls[g].key
                      /\ (g # h => calls'[g] = calls[g])
    BY <1>1, <2>1, <2>3 DEF KeysInv, CallsInv, IsCall, CallFields
  <2>5. \A k \in Keys : keys[k] = "live" \/ k = call.key => keys'[k] = "live"
    BY <2>1, <2>2 DEF KeysInv
  <2>6. keys' \in [Keys -> {"none", "live", "revoked"}] /\ Live' # {}
    BY <2>1, <2>2, <2>5 DEF KeysInv, Live
  <2>7. ASSUME NEW g \in Slots, Marking(calls[g]), ~mixed PROVE keys'[calls[g].key] = "live"
    BY <2>5, <2>7 DEF KeysInv, CallsInv, IsCall, Marking
  <2>8. ASSUME NEW g \in Slots, Marking(calls'[g]), ~mixed PROVE keys'[calls'[g].key] = "live"
    BY <2>1, <2>4, <2>5, <2>7, <2>8
  <2> QED
    BY <1>2, <2>2, <2>4, <2>6, <2>8 DEF KeysInv
<1>5. CASE ReadKey(h)
  <2>1. call.op = "login" /\ UNCHANGED <<keys, account, mixed>>
    BY <1>5 DEF ReadKey, At, server, history
  <2>2. \/ calls' = [calls EXCEPT ![h].step = "consume"] /\ keys[call.key] = "live"
        \/ calls' = [calls EXCEPT ![h].step = "failed"]
    BY <1>5 DEF ReadKey, GoTo
  <2>3. CallsInv' /\ \A g \in Slots : calls'[g].key = calls[g].key
                      /\ (g # h => calls'[g] = calls[g])
                      /\ (g = h /\ Marking(calls'[g]) => keys[calls[g].key] = "live")
    BY <1>1, <2>1, <2>2 DEF KeysInv, CallsInv, IsCall, CallFields, Marking
  <2> QED
    BY <1>2, <2>1, <2>3 DEF KeysInv, Live, Revoking
<1>6. ASSUME UNCHANGED <<keys, mixed>>, account'.enrolled = account.enrolled,
             account'.token \in {account.token, None},
             NEW next \in Steps, NEW moved, calls' = [calls EXCEPT ![h] = moved],
             Advanced(moved, call, next)
      PROVE  KeysInv'
  <2>1. IsCall(moved) /\ (Marking(moved) => Marking(call) /\ moved.key = call.key)
    BY <1>1, <1>6 DEF Advanced, IsCall, Marking, Steps
  <2>2. /\ CallsInv'
        /\ \A g \in Slots : Marking(calls'[g]) => Marking(calls[g]) /\ calls'[g].key = calls[g].key
    BY <1>1, <1>6, <2>1 DEF KeysInv, CallsInv
  <2> QED
    BY <1>2, <1>6, <2>2 DEF KeysInv, Live, Revoking
<1>7. CASE TakeToken(h)
  <2>1. \E next \in {"open", "failed"} : calls' = [calls EXCEPT ![h] = [call EXCEPT !.step = next]]
    BY <1>7 DEF TakeToken, GoTo
  <2>2. PICK next \in {"open", "failed"} : calls' = [calls EXCEPT ![h] = [call EXCEPT !.step = next]]
    BY <2>1
  <2>3. call.op = "setup" /\ Advanced([call EXCEPT !.step = next], call, next)
    BY <1>1, <1>7 DEF TakeToken, At, Advanced, IsCall, CallFields
  <2>4. /\ account'.enrolled = account.enrolled /\ account'.token \in {account.token, None}
        /\ UNCHANGED <<keys, mixed>>
    BY <1>7 DEF TakeToken, UseInv, TokensInv
  <2> QED
    BY <1>6, <2>2, <2>3, <2>4 DEF Steps
<1>8. CASE OpenSession(h)
  <2> DEFINE next == IF call.op = "login" THEN "mark" ELSE "answered"
             moved == [call EXCEPT !.session = Len(sessions) + 1, !.step = next]
  <2>1. calls' = [calls EXCEPT ![h] = moved]
    BY <1>8 DEF OpenSession
  <2>2. Advanced(moved, call, next)
    BY <1>1, <1>8 DEF OpenSession, Advanced, IsCall, CallFields
  <2>3. UNCHANGED <<keys, mixed, account>> /\ next \in Steps
    BY <1>8 DEF OpenSession, history, Steps
  <2> HIDE DEF moved, next
  <2> QED
    BY <1>6, <2>1, <2>2, <2>3
<1>9. CASE TakeChallenge(h)
  <2>1. PICK next \in {"open", "insert", "failed"} :
            /\ calls' = [calls EXCEPT ![h] = [call EXCEPT !.step = next]]
            /\ next = "open" => call.op = "login"
            /\ next = "insert" => call.op # "login"
    BY <1>9 DEF TakeChallenge, GoTo
  <2>2. \/ call.op = "login" /\ call.step = "consume"
        \/ call.op = "register"
    BY <1>9 DEF TakeChallenge, At
  <2>3. Advanced([call EXCEPT !.step = next], call, next)
    BY <1>1, <2>1, <2>2 DEF Advanced, IsCall, CallFields
  <2>4. UNCHANGED <<keys, mixed, account>> /\ next \in Steps
    BY <1>9, <2>1 DEF TakeChallenge, history, Steps
  <2> QED
    BY <1>6, <2>1, <2>3, <2>4
<1>10. CASE RegistrationOptions(h) \/ LoginOptions(h) \/ ReadSession(h) \/ RevokeSession(h) \/ StorePalette(h)
  <2>1. PICK next \in {"answered", "failed", "conflict"} :
            \/ calls' = [calls EXCEPT ![h] = [call EXCEPT !.step = next]]
            \/ \E c : calls' = [calls EXCEPT ![h] = [call EXCEPT !.step = next, !.ceremony = c]]
            \/ \E p, w : calls' = [calls EXCEPT ![h] = [call EXCEPT !.step = next, !.palette = p, !.at = w]]
    <3>1. CASE GoTo(h, "answered") \/ GoTo(h, "failed") \/ GoTo(h, "conflict")
      BY <3>1 DEF GoTo
    <3>2. ASSUME NEW kind, Challenge(h, kind)
          PROVE  calls' = [calls EXCEPT ![h] = [call EXCEPT !.step = "answered",
                                                            !.ceremony = Len(ceremonies) + 1]]
      BY <3>2 DEF Challenge
    <3>3. CASE calls' = [calls EXCEPT ![h].step = "answered", ![h].palette = account.palette,
                                      ![h].at = writes]
      <4>1. calls' = [calls EXCEPT ![h] = [call EXCEPT !.step = "answered",
                                               !.palette = account.palette, !.at = writes]]
        BY <3>3
      <4> QED
        BY <4>1
    <3> QED
      BY <1>10, <3>1, <3>2, <3>3 DEF RegistrationOptions, LoginOptions, ReadSession, RevokeSession,
                                     StorePalette
  <2>2. PICK moved : calls' = [calls EXCEPT ![h] = moved] /\ Advanced(moved, call, next)
    <3>1. Advanced([call EXCEPT !.step = next], call, next)
      BY <1>1 DEF Advanced, IsCall, CallFields
    <3>2. ASSUME NEW c PROVE Advanced([call EXCEPT !.step = next, !.ceremony = c], call, next)
      BY <1>1 DEF Advanced, IsCall, CallFields
    <3>3. ASSUME NEW p, NEW w
          PROVE  Advanced([call EXCEPT !.step = next, !.palette = p, !.at = w], call, next)
      BY <1>1 DEF Advanced, IsCall, CallFields
    <3> QED
      BY <2>1, <3>1, <3>2, <3>3
  <2>3. /\ UNCHANGED <<keys, mixed>> /\ next \in Steps
        /\ account'.enrolled = account.enrolled /\ account'.token = account.token
    BY <1>10 DEF RegistrationOptions, LoginOptions, ReadSession, RevokeSession, StorePalette,
                 server, history, Steps, UseInv, TokensInv
  <2> QED
    BY <1>6, <2>2, <2>3
<1> QED
  BY <1>3, <1>4, <1>5, <1>7, <1>8, <1>9, <1>10 DEF Handle

\* What a command does, when it leaves the keys and the calls alone.
LEMMA CommandKeys ==
    ASSUME KeysInv, UNCHANGED <<keys, calls>>, mixed' \in BOOLEAN, mixed => mixed',
           account'.enrolled => account.enrolled,
           account'.enrolled /\ account'.token # None => mixed',
           Revoking => Revoking' \/ ~account'.enrolled \/ mixed'
    PROVE  KeysInv'
BY DEF KeysInv, CallsInv, Live

LEMMA AdministerKeys ==
    ASSUME KeysInv, UseInv, NEW a \in Admins, Administer(a)
    PROVE  KeysInv'
<1> DEFINE op == commands[a].op
<1>1. /\ commands[a] \in Command /\ mixed \in BOOLEAN
      /\ DOMAIN commands = Admins /\ account.enrolled \in BOOLEAN
      /\ DOMAIN account = {"enrolled", "token", "palette"}
  BY DEF KeysInv, UseInv, CommandsInv, TokensInv
\* The other processes stay where they are.
<1>2. ASSUME commands[a].step # "rotate", \E new : commands' = [commands EXCEPT ![a] = new],
             Revoking
      PROVE  Revoking'
  BY <1>1, <1>2 DEF Revoking
<1>3. ASSUME NEW o \in {"start", "setupToken", "revokeAll"}, Run(a, o) PROVE KeysInv'
  <2>1. commands[a].step # "rotate" /\ \E new : commands' = [commands EXCEPT ![a] = new]
    <3>1. commands[a].step = "none"
      BY <1>3 DEF Run, NoCommand
    <3> QED
      BY <1>3, <3>1 DEF Run
  <2> QED
    BY <1>2, <1>3, <2>1, CommandKeys DEF Run, KeysInv
<1>4. CASE StorePreset(a)
  <2>1. commands[a].step # "rotate" /\ \E new : commands' = [commands EXCEPT ![a] = new]
    BY <1>4 DEF StorePreset, Running, DoneWith
  <2>2. UNCHANGED account \/ (~account.enrolled /\ account' = [account EXCEPT !.token = preset])
    BY <1>4 DEF StorePreset
  <2>3. UNCHANGED account \/ ~account'.enrolled
    BY <1>1, <2>2
  <2> QED
    BY <1>1, <1>2, <1>4, <2>1, <2>3, CommandKeys DEF StorePreset, KeysInv
<1>5. CASE ReadStatus(a)
  <2>1. commands[a].step # "rotate" /\ \E new : commands' = [commands EXCEPT ![a] = new]
    BY <1>5 DEF ReadStatus, Running
  <2> QED
    BY <1>2, <1>5, <2>1, CommandKeys DEF ReadStatus, KeysInv
<1>6. CASE StoreToken(a)
  <2>1. PICK t \in Fresh : /\ commands' = [commands EXCEPT ![a].step = "print", ![a].token = t]
                          /\ account' = [account EXCEPT !.token = t]
    BY <1>6 DEF StoreToken
  <2>2. account'.enrolled = account.enrolled /\ mixed' = (mixed \/ account.enrolled)
    BY <1>1, <1>6, <2>1 DEF StoreToken
  <2>3. Revoking => Revoking'
    <3>1. commands' = [commands EXCEPT ![a] = [commands[a] EXCEPT !.step = "print", !.token = t]]
      BY <1>1, <2>1
    <3>2. commands[a].step # "rotate"
      BY <1>6 DEF StoreToken, Running
    <3> QED
      BY <1>2, <3>1, <3>2
  <2> QED
    BY <1>1, <1>6, <2>2, <2>3, CommandKeys DEF StoreToken
<1>7. CASE RotateToken(a)
  <2>1. PICK t : account' = [account EXCEPT !.token = t,
                                !.enrolled = IF account.token = None THEN FALSE ELSE @]
    BY <1>7 DEF RotateToken
  <2>2. account'.enrolled => account.enrolled /\ account.token # None
    BY <1>1, <2>1
  <2>3. account'.enrolled => mixed
    BY <2>2 DEF KeysInv
  <2> QED
    BY <1>1, <1>7, <2>2, <2>3, CommandKeys DEF RotateToken
<1>8. CASE PrintToken(a)
  <2>1. commands[a].step # "rotate" /\ \E new : commands' = [commands EXCEPT ![a] = new]
    BY <1>8 DEF PrintToken, Running, DoneWith
  <2> QED
    BY <1>2, <1>8, <2>1, CommandKeys DEF PrintToken, KeysInv
<1>9. CASE RevokeKeys(a)
  <2>1. op = "revokeAll"
    BY <1>9 DEF RevokeKeys, Running, UseInv, CommandsInv
  <2>2. commands' = [commands EXCEPT ![a].step = "rotate"]
    BY <1>9 DEF RevokeKeys
  <2>3. Revoking'
    BY <1>1, <2>1, <2>2 DEF Revoking, Command
  <2>4. /\ mixed' = (mixed \/ \E h \in Slots : Marking(calls[h]))
        /\ UNCHANGED <<account, calls>>
        /\ keys' \in [Keys -> {"none", "live", "revoked"}]
    <3>1. keys' \in [Keys -> {"none", "live", "revoked"}]
      BY <1>9 DEF RevokeKeys, KeysInv
    <3> QED
      BY <1>9, <3>1, SignsInMarks DEF RevokeKeys
  <2> QED
    BY <1>1, <2>3, <2>4 DEF KeysInv, CallsInv
<1> QED
  BY <1>3, <1>4, <1>5, <1>6, <1>7, <1>8, <1>9 DEF Administer

LEMMA InitKeys == Init => KeysInv
<1> SUFFICES ASSUME Init PROVE KeysInv
  OBVIOUS
<1>1. calls = [h \in Slots |-> NoCall] /\ mixed = FALSE /\ account.token = None
      /\ account.enrolled = (Live # {})
      /\ keys \in [Keys -> {"none", "live", "revoked"}]
  <2> PICK start \in Starts :
        /\ holder = start.holder
        /\ keys = [k \in Keys |-> IF holder[k] = None THEN "none" ELSE "live"]
        /\ account = [enrolled |-> Live # {}, token |-> None, palette |-> <<Black>>]
    BY DEF Init
  <2> QED
    BY DEF Init
<1>2. \A h \in Slots : calls[h] = NoCall /\ ~Marking(NoCall)
  BY <1>1 DEF Marking, NoCall
<1>3. CallsInv
  BY <1>1, <1>2, NoCallHarmless DEF CallsInv, Harmless
<1> QED
  BY <1>1, <1>2, <1>3 DEF KeysInv

LEMMA NextKeys == KeysInv /\ UseInv /\ [Next]_vars => KeysInv'
<1> SUFFICES ASSUME KeysInv, UseInv, [Next]_vars PROVE KeysInv'
  OBVIOUS
<1>0. CallsInv
  BY DEF KeysInv
<1>1. ASSUME NEW d \in Devices, Browse(d) PROVE KeysInv'
  BY <1>0, <1>1, BrowsersStayAway, BrowseMoves, MoveKeys DEF server
<1>2. ASSUME NEW h \in Slots, Resend(h) \/ Forget(h) PROVE KeysInv'
  <2>1. CallsMove
    BY <1>0, <1>2, ResendMoves, ReleaseMoves DEF Forget
  <2> QED
    BY <1>2, <2>1, BrowsersStayAway, MoveKeys DEF server
<1>3. CASE Crash
  BY <1>0, <1>3, BrowsersStayAway, CrashMoves, MoveKeys DEF server
<1>4. ASSUME NEW h \in Slots, Handle(h) PROVE KeysInv'
  BY <1>4, HandleKeys
<1>5. ASSUME NEW a \in Admins, Administer(a) PROVE KeysInv'
  BY <1>5, AdministerKeys
<1>6. CASE Expire
  <2>1. CallsMove
    BY <1>0, <1>6, StayMoves DEF Expire
  <2> QED
    BY <1>6, <2>1, MoveKeys DEF Expire, Outside, history
<1>7. CASE UNCHANGED vars
  BY <1>0, <1>7, StayMoves, MoveKeys DEF vars, server, history
<1> QED
  BY <1>1, <1>2, <1>3, <1>4, <1>5, <1>6, <1>7 DEF Next

\* An owner who counts as enrolled has a passkey that works, however enrollment, signing
\* in, starts and resets interleave and break off, for any number of processes, but for
\* three things: between the two statements of revoke-all, for good if it dies there; once
\* the account was marked as enrolled with a token stored; or once a sign-in marked it after
\* its passkey was revoked.
THEOREM OwnerKeepsAKey == Spec => []EnrolledHasKey
<1>1. KeysInv => EnrolledHasKey
  BY DEF KeysInv, EnrolledHasKey
<1>2. Spec => []KeysInv
  BY InitKeys, NextKeys, UseHolds, PTL DEF Spec
<1> QED
  BY <1>1, <1>2, PTL
-----------------------------------------------------------------------------
(* What an edit makes of a palette *)

\* Where the places of a palette without its i-th color were.
Behind(i, k) == IF k < i THEN k ELSE k + 1

LEMMA RemovedColor ==
    ASSUME NEW p \in Seq(Colors), NEW i \in 1..Len(p)
    PROVE  LET q == RemoveAt(p, i)
           IN /\ q \in Seq(Colors) /\ Len(q) = Len(p) - 1
              /\ \A k \in 1..Len(p) - 1 : q[k] = p[Behind(i, k)]
<1> DEFINE l == SubSeq(p, 1, i - 1)
           r == SubSeq(p, i + 1, Len(p))
<1>1. Len(p) \in Nat /\ i \in Nat /\ 1 <= i /\ i <= Len(p)
  OBVIOUS
<1>2. l \in Seq(Colors) /\ Len(l) = i - 1 /\ \A k \in 1..i - 1 : l[k] = p[k]
  BY <1>1, SubSeqProperties
<1>3. r \in Seq(Colors) /\ Len(r) = Len(p) - i /\ \A k \in 1..Len(p) - i : r[k] = p[i + k]
  BY <1>1, SubSeqProperties
<1> HIDE DEF l, r
<1> DEFINE q == l \o r
<1>a. /\ q \in Seq(Colors) /\ Len(q) = Len(l) + Len(r)
      /\ \A k \in 1..Len(l) + Len(r) : q[k] = IF k <= Len(l) THEN l[k] ELSE r[k - Len(l)]
  BY <1>2, <1>3, ConcatProperties
<1> HIDE DEF q
<1>4. /\ q \in Seq(Colors) /\ Len(q) = Len(p) - 1
      /\ \A k \in 1..Len(p) - 1 : q[k] = IF k <= i - 1 THEN l[k] ELSE r[k - (i - 1)]
  <2>1. Len(l) + Len(r) = Len(p) - 1
    BY <1>1, <1>2, <1>3
  <2> QED
    BY <1>a, <1>2, <2>1
<1>5. ASSUME NEW k \in 1..Len(p) - 1 PROVE q[k] = p[Behind(i, k)]
  <2>1. CASE k <= i - 1
    BY <1>1, <1>2, <1>4, <2>1 DEF Behind
  <2>2. CASE k > i - 1
    <3>1. k - (i - 1) \in 1..Len(p) - i /\ i + (k - (i - 1)) = k + 1 /\ Behind(i, k) = k + 1
      BY <1>1, <2>2 DEF Behind
    <3>2. ~(k <= i - 1)
      BY <1>1, <2>2
    <3> QED
      BY <1>3, <1>4, <3>1, <3>2
  <2> QED
    BY <1>1, <2>1, <2>2
<1> QED
  BY <1>4, <1>5 DEF RemoveAt, q, l, r

\* From where in a palette the colors of the one with c put in at j come; 0 is c.
Before(j, k) == IF k < j THEN k ELSE IF k = j THEN 0 ELSE k - 1

LEMMA InsertedColor ==
    ASSUME NEW p \in Seq(Colors), NEW j \in 1..Len(p) + 1, NEW c \in Colors
    PROVE  LET q == InsertAt(p, j, c)
           IN /\ q \in Seq(Colors) /\ Len(q) = Len(p) + 1
              /\ \A k \in 1..Len(p) + 1 : q[k] = IF k = j THEN c ELSE p[Before(j, k)]
<1> DEFINE l == SubSeq(p, 1, j - 1)
           r == SubSeq(p, j, Len(p))
           m == l \o <<c>>
<1>1. Len(p) \in Nat /\ j \in Nat /\ 1 <= j /\ j <= Len(p) + 1
  OBVIOUS
<1>2. l \in Seq(Colors) /\ Len(l) = j - 1 /\ \A k \in 1..j - 1 : l[k] = p[k]
  BY <1>1, SubSeqProperties
<1>3. r \in Seq(Colors) /\ Len(r) = Len(p) - j + 1 /\ \A k \in 1..Len(p) - j + 1 : r[k] = p[j + k - 1]
  BY <1>1, SubSeqProperties
<1> HIDE DEF l, r
<1>4. <<c>> \in Seq(Colors) /\ Len(<<c>>) = 1 /\ <<c>>[1] = c
  OBVIOUS
<1>5. m \in Seq(Colors) /\ Len(m) = j /\ \A k \in 1..j : m[k] = IF k <= j - 1 THEN l[k] ELSE c
  BY <1>1, <1>2, <1>4, ConcatProperties
<1> HIDE DEF m
<1> DEFINE q == m \o r
<1>a. /\ q \in Seq(Colors) /\ Len(q) = Len(m) + Len(r)
      /\ \A k \in 1..Len(m) + Len(r) : q[k] = IF k <= Len(m) THEN m[k] ELSE r[k - Len(m)]
  BY <1>3, <1>5, ConcatProperties
<1> HIDE DEF q
<1>6. /\ q \in Seq(Colors) /\ Len(q) = Len(p) + 1
      /\ \A k \in 1..Len(p) + 1 : q[k] = IF k <= j THEN m[k] ELSE r[k - j]
  <2>1. Len(m) + Len(r) = Len(p) + 1
    BY <1>1, <1>3, <1>5
  <2> QED
    BY <1>a, <1>5, <2>1
<1>7. ASSUME NEW k \in 1..Len(p) + 1
      PROVE  q[k] = IF k = j THEN c ELSE p[Before(j, k)]
  <2>1. CASE k <= j
    BY <1>1, <1>2, <1>5, <1>6, <2>1 DEF Before
  <2>2. CASE k > j
    <3>1. k - j \in 1..Len(p) - j + 1 /\ j + (k - j) - 1 = k - 1 /\ Before(j, k) = k - 1
      BY <1>1, <2>2 DEF Before
    <3>2. ~(k <= j) /\ k # j
      BY <1>1, <2>2
    <3> QED
      BY <1>3, <1>6, <3>1, <3>2
  <2> QED
    BY <1>1, <2>1, <2>2
<1> QED
  BY <1>6, <1>7 DEF InsertAt, q, m, l, r

\* Adding, removing and dragging colors keeps a palette one.
LEMMA EditedPalettes ==
    ASSUME NEW p, IsPalette(p), NEW q \in Edited(p)
    PROVE  IsPalette(q)
<1>1. /\ p \in Seq(Colors) /\ Len(p) \in 1..MaxColors /\ MaxColors \in Nat
      /\ \A i, j \in 1..Len(p) : p[i] = p[j] => i = j
      /\ DOMAIN p = 1..Len(p)
  BY PaletteHasRoom DEF IsPalette
<1>2. ASSUME NEW c \in Colors, Len(p) < MaxColors, ~Contains(p, c), q = Append(p, c)
      PROVE  IsPalette(q)
  <2>1. \A i \in 1..Len(p) : p[i] # c
    BY <1>2 DEF Contains
  <2>2. /\ q \in Seq(Colors) /\ Len(q) = Len(p) + 1 /\ DOMAIN q = 1..Len(p) + 1
        /\ \A i \in 1..Len(p) : q[i] = p[i]
        /\ q[Len(p) + 1] = c
    BY <1>1, <1>2
  <2>3. ASSUME NEW i \in 1..Len(p) + 1, NEW j \in 1..Len(p) + 1, q[i] = q[j] PROVE i = j
    BY <1>1, <2>1, <2>2, <2>3
  <2> QED
    BY <1>1, <1>2, <2>2, <2>3 DEF IsPalette
<1>3. ASSUME NEW i \in 1..Len(p), Len(p) > 1, q = RemoveAt(p, i)
      PROVE  IsPalette(q)
  <2>1. q \in Seq(Colors) /\ Len(q) = Len(p) - 1 /\ \A k \in 1..Len(p) - 1 : q[k] = p[Behind(i, k)]
    BY <1>1, <1>3, RemovedColor
  <2>2. ASSUME NEW k \in 1..Len(p) - 1, NEW l \in 1..Len(p) - 1, q[k] = q[l] PROVE k = l
    <3>1. Behind(i, k) \in 1..Len(p) /\ Behind(i, l) \in 1..Len(p)
      BY <1>1 DEF Behind
    <3>2. Behind(i, k) = Behind(i, l)
      BY <1>1, <2>1, <2>2, <3>1
    <3> QED
      BY <1>1, <3>2 DEF Behind
  <2>3. DOMAIN q = 1..Len(p) - 1
    BY <2>1
  <2> QED
    BY <1>1, <1>3, <2>1, <2>2, <2>3 DEF IsPalette
<1>4. ASSUME NEW i \in 1..Len(p), NEW j \in 1..Len(p), q = Moved(p, i, j)
      PROVE  IsPalette(q)
  <2> DEFINE r == RemoveAt(p, i)
             From(k) == IF k = j THEN i ELSE Behind(i, Before(j, k))
  <2>1. r \in Seq(Colors) /\ Len(r) = Len(p) - 1 /\ \A k \in 1..Len(p) - 1 : r[k] = p[Behind(i, k)]
    BY <1>1, RemovedColor
  <2> HIDE DEF r
  <2>2. p[i] \in Colors /\ j \in 1..Len(r) + 1 /\ Len(r) + 1 = Len(p)
    BY <1>1, <2>1
  <2>3. /\ q \in Seq(Colors) /\ Len(q) = Len(p)
        /\ \A k \in 1..Len(p) : q[k] = IF k = j THEN p[i] ELSE r[Before(j, k)]
    <3> DEFINE s == InsertAt(r, j, p[i])
    <3>1. /\ s \in Seq(Colors) /\ Len(s) = Len(r) + 1
          /\ \A k \in 1..Len(r) + 1 : s[k] = IF k = j THEN p[i] ELSE r[Before(j, k)]
      BY <2>1, <2>2, InsertedColor
    <3>2. q = s
      BY <1>4 DEF Moved, r
    <3> QED
      BY <2>2, <3>1, <3>2
  <2>4. ASSUME NEW k \in 1..Len(p) PROVE q[k] = p[From(k)] /\ From(k) \in 1..Len(p)
    <3>1. CASE k = j
      BY <2>3, <3>1
    <3>2. CASE k # j
      <4>1. Before(j, k) \in 1..Len(p) - 1
        BY <1>1, <3>2 DEF Before
      <4>2. Behind(i, Before(j, k)) \in 1..Len(p)
        BY <1>1, <4>1 DEF Behind
      <4> QED
        BY <2>1, <2>3, <3>2, <4>1, <4>2
    <3> QED
      BY <3>1, <3>2
  <2>5. ASSUME NEW k \in 1..Len(p), NEW l \in 1..Len(p), From(k) = From(l) PROVE k = l
    BY <1>1, <2>5 DEF Behind, Before
  <2> HIDE DEF From
  <2>6. ASSUME NEW k \in 1..Len(p), NEW l \in 1..Len(p), q[k] = q[l] PROVE k = l
    <3>1. From(k) = From(l)
      BY <1>1, <2>4, <2>6
    <3> QED
      BY <2>5, <3>1
  <2>7. DOMAIN q = 1..Len(p)
    BY <2>3
  <2> QED
    BY <1>1, <2>3, <2>6, <2>7 DEF IsPalette
<1> QED
  BY <1>1, <1>2, <1>3, <1>4 DEF Edited
-----------------------------------------------------------------------------
(* What a browser shows, and what it waits for *)

TabFields == {"state", "view", "step", "cookie", "ceremony", "call", "palette", "saves", "saving"}
Palettes == {p \in Seq(Colors) : IsPalette(p)}
Save == [palette : Palettes, before : Palettes, after : BOOLEAN]

\* A save goes back to the palette of the save before it, unless it may not have been
\* stored; the latest save is what a signed-in browser shows, unless none is sure.
ChainOK(tab) ==
    /\ \A i \in 1..Len(tab.saves) : i > 1 /\ ~tab.saves[i].after =>
            tab.saves[i].before = tab.saves[i - 1].palette
    /\ tab.state = "authenticated" /\ tab.saves # << >> =>
          \/ tab.palette = tab.saves[Len(tab.saves)].palette
          \/ \A i \in 1..Len(tab.saves) : tab.saves[i].after

TabOK(tab) ==
    /\ DOMAIN tab = TabFields /\ IsPalette(tab.palette) /\ tab.saves \in Seq(Save)
    /\ (tab.call # 0) <=> (tab.step = "wait")
    /\ ChainOK(tab)

PlainOps == {"session", "setup", "options", "loginOptions", "login", "register", "logout"}

\* d waits for a request of its own, and for the first of its saves.
CallOK(tab, d) ==
    tab.call # 0 => /\ tab.call \in Slots
                    /\ calls[tab.call].device = d /\ calls[tab.call].op \in PlainOps
SavingOK(tab, d) ==
    tab.saving # 0 => /\ tab.saving \in Slots /\ tab.saves # << >>
                      /\ calls[tab.saving].device = d /\ calls[tab.saving].op = "palette"
                      /\ calls[tab.saving].palette = tab.saves[1].palette

\* The save that is under way has reached the account.
IsStored(tab) == tab.saving # 0 /\ calls[tab.saving].step = "answered"

\* Where the account's palette is among what the browser shows and goes back to.
Agrees(tab) ==
    /\ tab.saves = << >> /\ tab.state = "authenticated" => tab.palette = account.palette
    /\ IsStored(tab) => tab.saves[1].palette = account.palette
    /\ tab.saves # << >> /\ ~tab.saves[1].after /\ ~IsStored(tab) =>
          tab.saves[1].before = account.palette

SlotOK(call) ==
    /\ call.op = "none" => call.device = None
    /\ call.op = "palette" => IsPalette(call.palette)
    /\ call.at \in 0..writes
    /\ call.op = "session" /\ call.step = "answered" =>
          IsPalette(call.palette) /\ (call.at = writes => call.palette = account.palette)

DeviceOK(d) ==
    /\ TabOK(tabs[d]) /\ CallOK(tabs[d], d) /\ SavingOK(tabs[d], d)
    /\ apart[d] \/ Agrees(tabs[d])

\* The request of a save is the one its browser waits for.
SavesOwned ==
    \A h \in Slots : \A d \in Devices :
        calls[h].op = "palette" /\ calls[h].device = d => tabs[d].saving = h

RowsInv ==
    /\ sessions \in Seq(BOOLEAN) /\ known \subseteq AllTokens /\ IsPalette(account.palette)
    /\ writes \in Nat /\ apart \in [Devices -> BOOLEAN] /\ DOMAIN tabs = Devices
    /\ \A a \in Admins : commands[a].step = "print" => commands[a].token # None

TabsInv ==
    /\ RowsInv
    /\ \A d \in Devices : DeviceOK(d)
    /\ \A h \in Slots : SlotOK(calls[h])
    /\ SavesOwned

LEMMA DevicesAreSome == \A d \in Devices : d # None
BY NoneIsNothing

LEMMA SlotsAreSome == 0 \notin Slots /\ Slots \subseteq Nat
BY PresetsAreApart

LEMMA BlackPalette == IsPalette(<<Black>>)
<1>1. <<Black>> \in Seq(Colors) /\ Len(<<Black>>) = 1 /\ DOMAIN <<Black>> = 1..1
  BY PaletteHasRoom
<1> QED
  BY <1>1, PaletteHasRoom DEF IsPalette

\* A request that no other browser waits for.
NotOfOthers(call, d) == \A e \in Devices \ {d} : call.device # e

\* A browser's step: it touches what it shows, and requests nobody else waits for.
LEMMA BrowserHolds ==
    ASSUME TabsInv, CallsInv, NEW d \in Devices, NEW t, tabs' = [tabs EXCEPT ![d] = t],
           UNCHANGED <<account, sessions, commands, known, writes>>, DOMAIN calls' = Slots,
           apart' \in [Devices -> BOOLEAN], \A e \in Devices \ {d} : apart'[e] = apart[e],
           \A h \in Slots : \/ calls'[h] = calls[h]
                            \/ /\ NotOfOthers(calls[h], d) /\ NotOfOthers(calls'[h], d)
                               /\ SlotOK(calls'[h]),
           TabOK(t), CallOK(t, d)', SavingOK(t, d)', apart'[d] \/ Agrees(t)',
           \A h \in Slots : calls'[h].op = "palette" /\ calls'[h].device = d => t.saving = h
    PROVE  TabsInv'
<1>1. RowsInv'
  BY DEF TabsInv, RowsInv
<1>2. \A h \in Slots : SlotOK(calls[h])'
  BY DEF TabsInv, SlotOK
<1>3. tabs'[d] = t /\ \A e \in Devices \ {d} : tabs'[e] = tabs[e]
  BY DEF TabsInv, RowsInv
<1>4. ASSUME NEW e \in Devices \ {d} PROVE DeviceOK(e)'
  <2>1. DeviceOK(e) /\ tabs'[e] = tabs[e] /\ apart'[e] = apart[e]
    BY <1>3 DEF TabsInv
  <2>2. tabs[e].call # 0 => calls'[tabs[e].call] = calls[tabs[e].call]
    BY <2>1 DEF DeviceOK, CallOK, NotOfOthers
  <2>3. tabs[e].saving # 0 => calls'[tabs[e].saving] = calls[tabs[e].saving]
    BY <2>1 DEF DeviceOK, SavingOK, NotOfOthers
  <2>4. CallOK(tabs[e], e)' /\ SavingOK(tabs[e], e)'
    BY <2>1, <2>2, <2>3 DEF DeviceOK, CallOK, SavingOK
  <2>5. Agrees(tabs[e]) => Agrees(tabs[e])'
    BY <2>1, <2>3 DEF Agrees, IsStored
  <2> QED
    BY <2>1, <2>4, <2>5 DEF DeviceOK
<1>5. DeviceOK(d)'
  BY <1>3 DEF DeviceOK, CallOK, SavingOK, Agrees, IsStored
<1>6. SavesOwned'
  <2> SUFFICES ASSUME NEW h \in Slots, NEW e \in Devices,
                      calls'[h].op = "palette", calls'[h].device = e
               PROVE  tabs'[e].saving = h
    BY DEF SavesOwned
  <2>1. CASE e = d
    BY <1>3, <2>1
  <2>2. CASE e # d
    BY <1>3, <2>2 DEF TabsInv, SavesOwned, NotOfOthers
  <2> QED
    BY <2>1, <2>2
<1> QED
  BY <1>1, <1>2, <1>4, <1>5, <1>6 DEF TabsInv

\* The palette and its saves stay as they are.
SamePalette(t, tab) ==
    /\ DOMAIN t = TabFields /\ t.palette = tab.palette /\ t.saves = tab.saves /\ t.saving = tab.saving
    /\ t.state = tab.state

\* A step of the browser that is none of its palette's.
LEMMA PlainHolds ==
    ASSUME TabsInv, CallsInv, NEW d \in Devices, NEW t, tabs' = [tabs EXCEPT ![d] = t],
           UNCHANGED <<account, sessions, commands, known, writes, apart>>, DOMAIN calls' = Slots,
           \A h \in Slots : \/ calls'[h] = calls[h]
                            \/ /\ NotOfOthers(calls[h], d) /\ NotOfOthers(calls'[h], d)
                               /\ SlotOK(calls'[h])
                               /\ calls[h].op # "palette" /\ (calls'[h].op = "palette" => calls'[h].device # d),
           SamePalette(t, tabs[d]), (t.call # 0) <=> (t.step = "wait"), CallOK(t, d)'
    PROVE  TabsInv'
<1>1. DeviceOK(d) /\ apart \in [Devices -> BOOLEAN]
  BY DEF TabsInv, RowsInv
<1>2. TabOK(t)
  BY <1>1 DEF DeviceOK, TabOK, ChainOK, SamePalette
<1>3. tabs[d].saving # 0 => calls'[tabs[d].saving] = calls[tabs[d].saving]
  BY <1>1 DEF DeviceOK, SavingOK
<1>4. SavingOK(t, d)'
  BY <1>1, <1>3 DEF DeviceOK, SavingOK, SamePalette
<1>5. apart'[d] \/ Agrees(t)'
  BY <1>1, <1>3 DEF DeviceOK, Agrees, IsStored, SamePalette
<1>6. \A h \in Slots : calls'[h].op = "palette" /\ calls'[h].device = d => t.saving = h
  BY DEF TabsInv, SavesOwned, SamePalette
<1>7. \A h \in Slots : \/ calls'[h] = calls[h]
                       \/ /\ NotOfOthers(calls[h], d) /\ NotOfOthers(calls'[h], d)
                          /\ SlotOK(calls'[h])
  OBVIOUS
<1> QED
  BY <1>1, <1>2, <1>4, <1>5, <1>6, <1>7, BrowserHolds

\* Any slots in use or not have a first one.
LEMMA LeastOfNats ==
    ASSUME NEW S \in SUBSET Nat, S # {}
    PROVE  \E m \in S : \A n \in S : m <= n
<1> DEFINE Less == {ss \in Nat \X Nat : ss[1] < ss[2]}
<1>1. IsWellFoundedOn(Less, Nat)
  BY NatLessThanWellFounded DEF OpToRel
<1>2. \A m, n \in Nat : n < m => <<n, m>> \in Less
  OBVIOUS
<1> HIDE DEF Less
<1>3. PICK m \in S : \A n \in S : ~(<<n, m>> \in Less)
  BY <1>1, WFMin
<1>4. ASSUME NEW n \in S PROVE m <= n
  <2>1. m \in Nat /\ n \in Nat
    OBVIOUS
  <2>2. ~(n < m)
    BY <1>2, <1>3, <2>1, Zenon
  <2> QED
    BY <2>1, <2>2
<1> QED
  BY <1>4

\* Where a request goes: the first slot without one.
LEMMA FirstFreeSlot ==
    ASSUME FreeSlots # {}
    PROVE  NextSlot \in FreeSlots
<1>1. FreeSlots \in SUBSET Nat
  BY SlotsAreSome DEF FreeSlots
<1>2. \E f \in FreeSlots : \A g \in FreeSlots : f <= g
  BY <1>1, LeastOfNats
<1> QED
  BY <1>2 DEF NextSlot

\* A request as the browser makes it, before it is given a slot.
LEMMA PlainCall ==
    ASSUME NEW op \in PlainOps, NEW call, DOMAIN call = CallFields, call.op = op, call.at = 0,
           TabsInv, CallsInv, NEW d \in Devices, Ask(d, tabs[d], call),
           UNCHANGED <<account, sessions, commands, known, writes, apart>>
    PROVE  TabsInv'
<1> PICK h \in FreeSlots :
        /\ calls' = [calls EXCEPT ![h] = [call EXCEPT !.step = "sent", !.device = d,
                                                      !.session = tabs[d].cookie]]
        /\ tabs' = [tabs EXCEPT ![d] =
              IF call.op = "palette" THEN [tabs[d] EXCEPT !.saving = h]
              ELSE [tabs[d] EXCEPT !.call = h, !.step = "wait", !.ceremony = 0]]
  BY FirstFreeSlot DEF Ask
<1> DEFINE made == [call EXCEPT !.step = "sent", !.device = d, !.session = tabs[d].cookie]
<1> PICK t : t = [tabs[d] EXCEPT !.call = h, !.step = "wait", !.ceremony = 0]
  OBVIOUS
<1>1. call.op # "palette" /\ call.op # "none"
  BY DEF PlainOps
<1>2. tabs' = [tabs EXCEPT ![d] = t] /\ calls' = [calls EXCEPT ![h] = made]
  BY <1>1
<1>3. /\ made.op = op /\ made.device = d /\ made.step = "sent" /\ made.at = 0
  BY DEF CallFields
<1>4. TabOK(tabs[d]) /\ h \in Slots /\ calls[h].op = "none" /\ SlotOK(calls[h]) /\ writes \in Nat
  BY DEF TabsInv, RowsInv, DeviceOK, FreeSlots
<1>5. /\ SamePalette(t, tabs[d]) /\ t.call = h /\ t.step = "wait"
  BY <1>4 DEF TabOK, SamePalette, TabFields
<1> HIDE DEF made
<1>6. DOMAIN calls' = Slots /\ calls'[h] = made /\ \A g \in Slots \ {h} : calls'[g] = calls[g]
  BY <1>2, <1>4 DEF CallsInv
<1>7. SlotOK(made)
  BY <1>1, <1>3, <1>4 DEF SlotOK
<1>8. NotOfOthers(made, d) /\ NotOfOthers(calls[h], d)
  BY <1>3, <1>4, DevicesAreSome DEF NotOfOthers, SlotOK
<1>9. \A g \in Slots : \/ calls'[g] = calls[g]
                       \/ /\ NotOfOthers(calls[g], d) /\ NotOfOthers(calls'[g], d)
                          /\ SlotOK(calls'[g])
                          /\ calls[g].op # "palette" /\ (calls'[g].op = "palette" => calls'[g].device # d)
  BY <1>1, <1>3, <1>4, <1>6, <1>7, <1>8
<1>10. CallOK(t, d)'
  BY <1>3, <1>4, <1>5, <1>6 DEF CallOK
<1>11. (t.call # 0) <=> (t.step = "wait")
  BY <1>4, <1>5, SlotsAreSome
<1> QED
  BY <1>2, <1>5, <1>6, <1>9, <1>10, <1>11, PlainHolds

LEMMA AsksHold ==
    ASSUME TabsInv, CallsInv, NEW d \in Devices,
           Refresh(d) \/ Press(d) \/ CreatePasskey(d) \/ AssertPasskey(d) \/ AskOptions(d)
    PROVE  TabsInv'
<1>0. UNCHANGED <<account, sessions, commands, known, writes, apart>>
  BY DEF Refresh, Press, CreatePasskey, AssertPasskey, AskOptions, Away, server
<1>1. ASSUME NEW op \in PlainOps, Ask(d, tabs[d], Call(op)) PROVE TabsInv'
  <2>1. DOMAIN Call(op) = CallFields /\ Call(op).op = op /\ Call(op).at = 0
    BY DEF Call, NoCall, CallFields
  <2> QED
    BY <1>0, <1>1, <2>1, PlainCall
<1>2. ASSUME NEW t, Ask(d, tabs[d], [Call("setup") EXCEPT !.token = t]) PROVE TabsInv'
  <2> DEFINE call == [Call("setup") EXCEPT !.token = t]
  <2>1. DOMAIN call = CallFields /\ call.op = "setup" /\ call.at = 0 /\ "setup" \in PlainOps
    BY DEF Call, NoCall, CallFields, PlainOps
  <2> QED
    BY <1>0, <1>2, <2>1, PlainCall
<1>3. ASSUME NEW op \in {"register", "login"}, NEW k, NEW c,
             Ask(d, tabs[d], [Call(op) EXCEPT !.key = k, !.ceremony = c])
      PROVE  TabsInv'
  <2> DEFINE call == [Call(op) EXCEPT !.key = k, !.ceremony = c]
  <2>1. DOMAIN call = CallFields /\ call.op = op /\ call.at = 0 /\ op \in PlainOps
    BY DEF Call, NoCall, CallFields, PlainOps
  <2> QED
    BY <1>0, <1>3, <2>1, PlainCall
<1>4. {"session", "loginOptions", "logout", "options"} \subseteq PlainOps
  BY DEF PlainOps
<1> QED
  BY <1>1, <1>2, <1>3, <1>4 DEF Refresh, Press, CreatePasskey, AssertPasskey, AskOptions

LEMMA NoCallOK == ASSUME writes \in Nat PROVE SlotOK(NoCall)
BY DEF SlotOK, NoCall

\* The answer to a request, an error, or a broken connection, heard by its browser.
Released(h, x) == x = NoCall \/ x = [calls[h] EXCEPT !.device = None]

LEMMA ReleasedOK ==
    ASSUME TabsInv, CallsInv, NEW h \in Slots, NEW x, Released(h, x)
    PROVE  SlotOK(x) /\ x.device = None
<1>1. SlotOK(calls[h]) /\ writes \in Nat /\ DOMAIN calls[h] = CallFields
  BY DEF TabsInv, RowsInv, CallsInv, IsCall
<1>2. CASE x = NoCall
  BY <1>1, <1>2, NoCallOK DEF NoCall
<1>3. CASE x = [calls[h] EXCEPT !.device = None]
  BY <1>1, <1>3 DEF SlotOK, CallFields
<1> QED
  BY <1>2, <1>3 DEF Released

LEMMA HeardHolds ==
    ASSUME TabsInv, CallsInv, NEW d \in Devices, NEW h, h = tabs[d].call, h # 0,
           NEW t, tabs' = [tabs EXCEPT ![d] = t], SamePalette(t, tabs[d]),
           t.call = 0, t.step # "wait", NEW x, Released(h, x), calls' = [calls EXCEPT ![h] = x],
           UNCHANGED <<account, sessions, commands, known, writes, apart>>
    PROVE  TabsInv'
<1>1. h \in Slots /\ calls[h].device = d /\ calls[h].op \in PlainOps
  BY DEF TabsInv, DeviceOK, CallOK
<1>2. DOMAIN calls' = Slots /\ calls'[h] = x /\ \A g \in Slots \ {h} : calls'[g] = calls[g]
  BY <1>1 DEF CallsInv
<1>3. SlotOK(x) /\ x.device = None
  BY <1>1, ReleasedOK
<1>4. NotOfOthers(calls[h], d) /\ NotOfOthers(x, d) /\ x.device # d /\ calls[h].op # "palette"
  BY <1>1, <1>3, DevicesAreSome DEF NotOfOthers, PlainOps
<1>5. \A g \in Slots : \/ calls'[g] = calls[g]
                       \/ /\ NotOfOthers(calls[g], d) /\ NotOfOthers(calls'[g], d)
                          /\ SlotOK(calls'[g])
                          /\ calls[g].op # "palette" /\ (calls'[g].op = "palette" => calls'[g].device # d)
  BY <1>2, <1>3, <1>4
<1>6. CallOK(t, d)'
  BY DEF CallOK
<1> QED
  BY <1>2, <1>5, <1>6, PlainHolds

LEMMA BreaksReleases ==
    ASSUME CallsInv, NEW h \in Slots, Breaks(h)
    PROVE  \E x : Released(h, x) /\ calls' = [calls EXCEPT ![h] = x]
BY DEF Breaks, Released

\* What is heard of a request that is none of the session.
LEMMA HearsHold ==
    ASSUME TabsInv, CallsInv, NEW d \in Devices,
           \/ Cancel(d) \/ HearConflict(d)
           \/ HearAnswer(d) /\ calls[tabs[d].call].op # "session"
           \/ HearFailure(d) /\ calls[tabs[d].call].op # "session"
    PROVE  TabsInv'
<1> DEFINE h == tabs[d].call
           tab == tabs[d]
<1>0. TabOK(tab) /\ (h # 0 => h \in Slots /\ calls[h].op \in PlainOps)
  BY DEF TabsInv, DeviceOK, CallOK
<1>1. CASE Cancel(d)
  <2> DEFINE t == [tab EXCEPT !.step = "idle", !.ceremony = 0]
  <2>1. /\ tabs' = [tabs EXCEPT ![d] = t] /\ UNCHANGED <<calls, apart>>
        /\ UNCHANGED <<account, sessions, commands, known, writes>> /\ tab.step # "wait"
    BY <1>1 DEF Cancel, Show, Away, server
  <2>2. SamePalette(t, tab) /\ t.call = 0 /\ t.step # "wait"
    BY <1>0, <2>1 DEF TabOK, SamePalette, TabFields
  <2>3. PICK u : u = t
    OBVIOUS
  <2> HIDE DEF t
  <2>4. CallOK(u, d)' /\ DOMAIN calls' = Slots
    BY <2>1, <2>2, <2>3 DEF CallOK, CallsInv
  <2> QED
    BY <2>1, <2>2, <2>3, <2>4, PlainHolds
<1>2. ASSUME h # 0, NEW x, Released(h, x), calls' = [calls EXCEPT ![h] = x],
             NEW t, tabs' = [tabs EXCEPT ![d] = t],
             SamePalette(t, tab), t.call = 0, t.step # "wait", apart' = apart, Away
      PROVE  TabsInv'
  <2>1. UNCHANGED <<account, sessions, commands, known, writes, apart>>
    BY <1>2 DEF Away, server
  <2> QED
    BY <1>2, <2>1, HeardHolds
<1>3. /\ SamePalette(Heard(d), tab) /\ Heard(d).call = 0 /\ Heard(d).step = "idle"
      /\ \A v : SamePalette([Heard(d) EXCEPT !.view = v], tab) /\ [Heard(d) EXCEPT !.view = v].call = 0
                /\ [Heard(d) EXCEPT !.view = v].step = "idle"
  BY <1>0 DEF Heard, SamePalette, TabOK, TabFields
<1>4. ASSUME NEW s \in {"enroll", "create", "assert", "load"}, NEW k, NEW c, NEW v
      PROVE  /\ LET t == [Heard(d) EXCEPT !.cookie = k, !.step = s]
                IN SamePalette(t, tab) /\ t.call = 0 /\ t.step # "wait"
             /\ LET t == [Heard(d) EXCEPT !.ceremony = c, !.step = s]
                IN SamePalette(t, tab) /\ t.call = 0 /\ t.step # "wait"
             /\ LET t == [Heard(d) EXCEPT !.view = v, !.step = s]
                IN SamePalette(t, tab) /\ t.call = 0 /\ t.step # "wait"
             /\ LET t == [Heard(d) EXCEPT !.cookie = k, !.view = v, !.step = s]
                IN SamePalette(t, tab) /\ t.call = 0 /\ t.step # "wait"
  <2>1. DOMAIN Heard(d) = TabFields
    BY <1>3 DEF SamePalette
  <2> QED
    BY <1>3, <2>1 DEF SamePalette, TabFields
<1>5. Released(h, NoCall)
  BY DEF Released
<1>6. CASE HearConflict(d)
  BY <1>2, <1>3, <1>5, <1>6 DEF HearConflict, Show, Release
<1>7. CASE HearAnswer(d) /\ calls[h].op # "session"
  <2>1. h # 0 /\ apart' = apart /\ Away /\ calls' = [calls EXCEPT ![h] = NoCall]
    BY <1>0, <1>7 DEF HearAnswer, Release, PlainOps
  <2>2. ASSUME NEW t, tabs' = [tabs EXCEPT ![d] = t],
               SamePalette(t, tab), t.call = 0, t.step # "wait"
        PROVE  TabsInv'
    BY <1>2, <1>5, <2>1, <2>2
  <2>3. CASE calls[h].op = "setup"
    BY <1>4, <1>7, <2>2, <2>3 DEF HearAnswer, Show
  <2>4. CASE calls[h].op = "options"
    BY <1>4, <1>7, <2>2, <2>4 DEF HearAnswer, Show
  <2>5. CASE calls[h].op = "loginOptions"
    BY <1>4, <1>7, <2>2, <2>5 DEF HearAnswer, Show
  <2>6. CASE calls[h].op = "login"
    BY <1>4, <1>7, <2>2, <2>6 DEF HearAnswer, Show
  <2>7. CASE calls[h].op = "register"
    BY <1>4, <1>7, <2>2, <2>7 DEF HearAnswer, Show
  <2>8. CASE calls[h].op = "logout"
    <3>1. tabs' = [tabs EXCEPT ![d] = [Heard(d) EXCEPT !.cookie = 0, !.view = "login", !.step = "load"]]
      BY <1>7, <2>8 DEF HearAnswer, Show
    <3> QED
      BY <1>4, <2>2, <3>1
  <2> QED
    BY <1>0, <1>7, <2>1, <2>3, <2>4, <2>5, <2>6, <2>7, <2>8 DEF PlainOps
<1>8. CASE HearFailure(d) /\ calls[h].op # "session"
  <2>1. h # 0 /\ h \in Slots /\ apart' = apart /\ Away
    BY <1>0, <1>8 DEF HearFailure
  <2>2. PICK x : Released(h, x) /\ calls' = [calls EXCEPT ![h] = x]
    BY <1>5, <1>8, <2>1, BreaksReleases DEF HearFailure, Release
  <2>3. CASE calls[h].op = "logout"
    BY <1>2, <1>4, <1>8, <2>1, <2>2, <2>3 DEF HearFailure, Show
  <2>4. CASE calls[h].op # "logout"
    <3>1. tabs' = [tabs EXCEPT ![d] = Heard(d)]
      BY <1>8, <2>4 DEF HearFailure, Show
    <3> QED
      BY <1>2, <1>3, <2>1, <2>2, <3>1
  <2> QED
    BY <2>3, <2>4
<1> QED
  BY <1>1, <1>6, <1>7, <1>8

\* A refreshed session replaces the palette; what saves would go back to is unsure then.
LEMMA SessionHolds ==
    ASSUME TabsInv, CallsInv, NEW d \in Devices, HearAnswer(d), calls[tabs[d].call].op = "session"
    PROVE  TabsInv'
<1> DEFINE h == tabs[d].call
           tab == tabs[d]
           call == calls[h]
<1>0. /\ TabOK(tab) /\ h # 0 /\ h \in Slots /\ call.device = d
      /\ SlotOK(call) /\ call.step = "answered" /\ SavingOK(tab, d) /\ writes \in Nat
      /\ apart \in [Devices -> BOOLEAN]
  BY DEF TabsInv, RowsInv, DeviceOK, CallOK, HearAnswer
<1>1. PICK t : t = [Heard(d) EXCEPT !.state = "authenticated", !.palette = call.palette,
                       !.saves = [i \in DOMAIN tab.saves |-> [tab.saves[i] EXCEPT !.after = TRUE]]]
  OBVIOUS
<1>2. /\ tabs' = [tabs EXCEPT ![d] = t] /\ calls' = [calls EXCEPT ![h] = NoCall]
      /\ apart' = [apart EXCEPT ![d] = call.at # writes \/ tab.saves # << >>]
      /\ UNCHANGED <<account, sessions, commands, known, writes>>
  BY <1>1 DEF HearAnswer, Show, Release, Away, server, Heard
<1>3. /\ DOMAIN t = TabFields /\ t.state = "authenticated" /\ t.palette = call.palette
      /\ t.call = 0 /\ t.step = "idle" /\ t.saving = tab.saving
      /\ t.saves = [i \in DOMAIN tab.saves |-> [tab.saves[i] EXCEPT !.after = TRUE]]
  BY <1>0, <1>1 DEF TabOK, TabFields, Heard
<1>4. /\ t.saves \in Seq(Save) /\ Len(t.saves) = Len(tab.saves)
      /\ \A i \in 1..Len(tab.saves) : t.saves[i].after /\ t.saves[i].palette = tab.saves[i].palette
  <2>1. tab.saves \in Seq(Save) /\ DOMAIN tab.saves = 1..Len(tab.saves) /\ Len(tab.saves) \in Nat
    BY <1>0 DEF TabOK
  <2>2. ASSUME NEW i \in 1..Len(tab.saves)
        PROVE  /\ [tab.saves[i] EXCEPT !.after = TRUE] \in Save
               /\ [tab.saves[i] EXCEPT !.after = TRUE].after
               /\ [tab.saves[i] EXCEPT !.after = TRUE].palette = tab.saves[i].palette
    <3>1. tab.saves[i] \in Save
      BY <2>1
    <3> QED
      BY <3>1 DEF Save
  <2>3. t.saves \in [1..Len(tab.saves) -> Save]
    BY <1>3, <2>1, <2>2
  <2>4. t.saves \in Seq(Save) /\ Len(t.saves) = Len(tab.saves)
    BY <2>1, <2>3, IsASeq
  <2> QED
    BY <1>3, <2>1, <2>2, <2>4
<1>5. IsPalette(t.palette) /\ (call.at = writes => t.palette = account.palette)
  BY <1>0, <1>3 DEF SlotOK
<1>6. TabOK(t)
  BY <1>0, <1>3, <1>4, <1>5 DEF TabOK, ChainOK
<1>7. DOMAIN calls' = Slots /\ calls'[h] = NoCall /\ \A g \in Slots \ {h} : calls'[g] = calls[g]
  BY <1>0, <1>2 DEF CallsInv
<1>8. tab.saves # << >> <=> t.saves # << >>
  BY <1>0, <1>4 DEF TabOK
<1>9. tab.saving # 0 => tab.saving # h /\ calls'[tab.saving] = calls[tab.saving]
  BY <1>0, <1>7 DEF SavingOK
<1>10. tab.saves # << >> => tab.saves[1].palette = t.saves[1].palette
  BY <1>0, <1>4 DEF TabOK
<1>11. SavingOK(t, d)'
  BY <1>0, <1>3, <1>8, <1>9, <1>10 DEF SavingOK
<1>12. CallOK(t, d)'
  BY <1>3 DEF CallOK
<1>13. apart'[d] \/ Agrees(t)'
  <2>1. apart'[d] = (call.at # writes \/ tab.saves # << >>)
    BY <1>0, <1>2
  <2> SUFFICES ASSUME call.at = writes, tab.saves = << >> PROVE Agrees(t)'
    BY <2>1
  <2>2. t.saves = << >> /\ t.saving = 0 /\ t.palette = account'.palette
    BY <1>0, <1>2, <1>3, <1>5, <1>8 DEF SavingOK
  <2> QED
    BY <2>2 DEF Agrees, IsStored
<1>14. SlotOK(NoCall) /\ NotOfOthers(NoCall, d) /\ NotOfOthers(call, d)
  BY <1>0, NoCallOK, DevicesAreSome DEF NotOfOthers, NoCall
<1>15. \A g \in Slots : \/ calls'[g] = calls[g]
                        \/ /\ NotOfOthers(calls[g], d) /\ NotOfOthers(calls'[g], d)
                           /\ SlotOK(calls'[g])
  BY <1>7, <1>14
<1>16. \A g \in Slots : calls'[g].op = "palette" /\ calls'[g].device = d => t.saving = g
  BY <1>3, <1>7 DEF TabsInv, SavesOwned, NoCall
<1>17. apart' \in [Devices -> BOOLEAN] /\ \A e \in Devices \ {d} : apart'[e] = apart[e]
  BY <1>0, <1>2
<1> QED
  BY <1>2, <1>6, <1>7, <1>11, <1>12, <1>13, <1>15, <1>16, <1>17, BrowserHolds

\* Without an answer to that request a browser shows the login screen, in black.
LEMMA NoSessionHolds ==
    ASSUME TabsInv, CallsInv, NEW d \in Devices, HearFailure(d), calls[tabs[d].call].op = "session"
    PROVE  TabsInv'
<1> DEFINE h == tabs[d].call
           tab == tabs[d]
           call == calls[h]
<1>0. /\ TabOK(tab) /\ h # 0 /\ h \in Slots /\ call.device = d
      /\ SavingOK(tab, d) /\ apart \in [Devices -> BOOLEAN] /\ (apart[d] \/ Agrees(tab))
  BY DEF TabsInv, RowsInv, DeviceOK, CallOK, HearFailure
<1>1. PICK t : t = [Heard(d) EXCEPT !.state = "unauthenticated", !.palette = <<Black>>]
  OBVIOUS
<1>2. PICK x : Released(h, x) /\ calls' = [calls EXCEPT ![h] = x]
  <2>1. Release(h) \/ Breaks(h)
    BY DEF HearFailure
  <2> QED
    BY <1>0, <2>1, BreaksReleases DEF Release, Released
<1>3. /\ tabs' = [tabs EXCEPT ![d] = t] /\ apart' = apart
      /\ UNCHANGED <<account, sessions, commands, known, writes>>
  BY <1>1 DEF HearFailure, Show, Away, server, Heard
<1>4. /\ DOMAIN t = TabFields /\ t.state = "unauthenticated" /\ t.palette = <<Black>>
      /\ t.call = 0 /\ t.step = "idle" /\ t.saving = tab.saving /\ t.saves = tab.saves
  BY <1>0, <1>1 DEF TabOK, TabFields, Heard
<1>5. TabOK(t)
  BY <1>0, <1>4, BlackPalette DEF TabOK, ChainOK
<1>6. DOMAIN calls' = Slots /\ calls'[h] = x /\ \A g \in Slots \ {h} : calls'[g] = calls[g]
  BY <1>0, <1>2 DEF CallsInv
<1>7. SlotOK(x) /\ x.device = None /\ NotOfOthers(x, d) /\ NotOfOthers(call, d)
  BY <1>0, <1>2, ReleasedOK, DevicesAreSome DEF NotOfOthers
<1>8. tab.saving # 0 => tab.saving # h /\ calls'[tab.saving] = calls[tab.saving]
  BY <1>0, <1>6 DEF SavingOK
<1>9. SavingOK(t, d)' /\ CallOK(t, d)'
  BY <1>0, <1>4, <1>8 DEF SavingOK, CallOK
<1>10. apart'[d] \/ Agrees(t)'
  BY <1>0, <1>3, <1>4, <1>8 DEF Agrees, IsStored
<1>11. \A g \in Slots : \/ calls'[g] = calls[g]
                        \/ /\ NotOfOthers(calls[g], d) /\ NotOfOthers(calls'[g], d)
                           /\ SlotOK(calls'[g])
  BY <1>6, <1>7
<1>12. \A g \in Slots : calls'[g].op = "palette" /\ calls'[g].device = d => t.saving = g
  BY <1>4, <1>6, <1>7, DevicesAreSome DEF TabsInv, SavesOwned
<1> QED
  BY <1>0, <1>3, <1>5, <1>6, <1>9, <1>10, <1>11, <1>12, BrowserHolds

LEMMA EditHolds ==
    ASSUME TabsInv, CallsInv, NEW d \in Devices, EditPalette(d)
    PROVE  TabsInv'
<1> DEFINE tab == tabs[d]
<1>0. /\ TabOK(tab) /\ CallOK(tab, d) /\ SavingOK(tab, d) /\ (apart[d] \/ Agrees(tab))
      /\ apart \in [Devices -> BOOLEAN] /\ tab.state = "authenticated"
      /\ tab.saves \in Seq(Save) /\ Len(tab.saves) \in Nat /\ IsPalette(tab.palette)
  BY DEF TabsInv, RowsInv, DeviceOK, TabOK, EditPalette
<1>1. PICK next \in Edited(tab.palette) :
        tabs' = [tabs EXCEPT ![d] = [tab EXCEPT !.palette = next,
                    !.saves = Append(@, [palette |-> next, before |-> tab.palette,
                              after |-> \E i \in DOMAIN @ : @[i].after])]]
  BY DEF EditPalette, Show
<1>2. PICK s : s = [palette |-> next, before |-> tab.palette,
                    after |-> \E i \in DOMAIN tab.saves : tab.saves[i].after]
  OBVIOUS
<1>3. PICK t : t = [tab EXCEPT !.palette = next, !.saves = Append(tab.saves, s)]
  OBVIOUS
<1>4. tabs' = [tabs EXCEPT ![d] = t]
  BY <1>1, <1>2, <1>3
<1>5. IsPalette(next) /\ IsPalette(tab.palette)
  BY <1>0, EditedPalettes
<1>6. /\ s.palette = next /\ s.before = tab.palette
      /\ s.after = (\E i \in 1..Len(tab.saves) : tab.saves[i].after)
  <2>1. DOMAIN tab.saves = 1..Len(tab.saves)
    BY <1>0
  <2> QED
    BY <1>2, <2>1
<1>7. s \in Save
  <2>1. next \in Palettes /\ tab.palette \in Palettes
    BY <1>5 DEF Palettes, IsPalette
  <2>2. (\E i \in DOMAIN tab.saves : tab.saves[i].after) \in BOOLEAN
    OBVIOUS
  <2> QED
    BY <1>2, <2>1, <2>2 DEF Save
<1>8. /\ DOMAIN t = TabFields /\ t.palette = next /\ t.saves = Append(tab.saves, s)
      /\ t.call = tab.call /\ t.step = tab.step /\ t.saving = tab.saving /\ t.state = tab.state
  BY <1>0, <1>3 DEF TabOK, TabFields
<1>9. /\ t.saves \in Seq(Save) /\ Len(t.saves) = Len(tab.saves) + 1 /\ t.saves # << >>
      /\ \A i \in 1..Len(tab.saves) : t.saves[i] = tab.saves[i]
      /\ t.saves[Len(tab.saves) + 1] = s
  <2>1. t.saves = Append(tab.saves, s) /\ tab.saves \in Seq(Save) /\ s \in Save
    BY <1>0, <1>7, <1>8
  <2> HIDE DEF tab
  <2> QED
    BY <2>1
<1> HIDE DEF tab
<1>10. ChainOK(t)
  <2>1. t.palette = t.saves[Len(t.saves)].palette
    BY <1>0, <1>6, <1>8, <1>9
  <2>2. ASSUME NEW i \in 1..Len(t.saves), i > 1, ~t.saves[i].after
        PROVE  t.saves[i].before = t.saves[i - 1].palette
    <3>1. CASE i \in 1..Len(tab.saves)
      BY <1>0, <1>9, <2>2, <3>1 DEF TabOK, ChainOK
    <3>2. CASE i = Len(tab.saves) + 1
      <4>1. \A j \in 1..Len(tab.saves) : ~tab.saves[j].after
        BY <1>6, <1>9, <2>2, <3>2
      <4>2. tab.saves # << >> /\ Len(tab.saves) \in 1..Len(tab.saves)
        BY <1>0, <2>2, <3>2
      <4>3. tab.palette = tab.saves[Len(tab.saves)].palette
        BY <1>0, <4>1, <4>2 DEF TabOK, ChainOK
      <4> QED
        BY <1>0, <1>6, <1>9, <3>2, <4>2, <4>3
    <3> QED
      BY <1>0, <1>9, <3>1, <3>2
  <2> QED
    BY <2>1, <2>2 DEF ChainOK
<1>11. TabOK(t)
  BY <1>0, <1>5, <1>8, <1>9, <1>10 DEF TabOK
<1>12. /\ UNCHANGED <<calls, apart>> /\ UNCHANGED <<account, sessions, commands, known, writes>>
       /\ DOMAIN calls = Slots
  BY DEF EditPalette, Away, server, CallsInv
<1>13. tab.saves # << >> => t.saves[1] = tab.saves[1]
  BY <1>0, <1>9
<1>14. CallOK(t, d)' /\ SavingOK(t, d)'
  BY <1>0, <1>8, <1>9, <1>12, <1>13 DEF CallOK, SavingOK
<1>15. apart'[d] \/ Agrees(t)'
  <2> SUFFICES ASSUME Agrees(tab) PROVE Agrees(t)'
    BY <1>0, <1>12
  <2>1. CASE tab.saves = << >>
    <3>1. t.saves[1] = s /\ tab.saving = 0
      BY <1>0, <1>9, <2>1 DEF SavingOK
    <3>2. s.before = account.palette
      BY <1>0, <1>6, <2>1 DEF Agrees
    <3> QED
      BY <1>8, <1>9, <1>12, <3>1, <3>2 DEF Agrees, IsStored
  <2>2. CASE tab.saves # << >>
    BY <1>8, <1>9, <1>12, <1>13, <2>2 DEF Agrees, IsStored
  <2> QED
    BY <2>1, <2>2
<1>16. \A h \in Slots : calls'[h].op = "palette" /\ calls'[h].device = d => t.saving = h
  BY <1>8, <1>12 DEF TabsInv, SavesOwned, tab
<1> QED
  BY <1>0, <1>4, <1>11, <1>12, <1>14, <1>15, <1>16, BrowserHolds

LEMMA SendSaveHolds ==
    ASSUME TabsInv, CallsInv, NEW d \in Devices, SendSave(d)
    PROVE  TabsInv'
<1> DEFINE tab == tabs[d]
           call == [Call("palette") EXCEPT !.palette = tab.saves[1].palette]
<1>0. /\ TabOK(tab) /\ CallOK(tab, d) /\ (apart[d] \/ Agrees(tab)) /\ writes \in Nat
      /\ apart \in [Devices -> BOOLEAN] /\ tab.saves \in Seq(Save) /\ tab.saves # << >> /\ tab.saving = 0
      /\ UNCHANGED <<account, sessions, commands, known, writes, apart>>
  BY DEF TabsInv, RowsInv, DeviceOK, TabOK, SendSave, Away, server
<1>1. DOMAIN call = CallFields /\ call.op = "palette" /\ call.at = 0 /\ call.palette = tab.saves[1].palette
  BY DEF Call, NoCall, CallFields
<1>2. Ask(d, tab, call)
  BY DEF SendSave
<1> HIDE DEF call
<1> PICK h \in FreeSlots :
        /\ calls' = [calls EXCEPT ![h] = [call EXCEPT !.step = "sent", !.device = d,
                                                      !.session = tabs[d].cookie]]
        /\ tabs' = [tabs EXCEPT ![d] =
              IF call.op = "palette" THEN [tabs[d] EXCEPT !.saving = h]
              ELSE [tabs[d] EXCEPT !.call = h, !.step = "wait", !.ceremony = 0]]
  BY <1>2, FirstFreeSlot DEF Ask
<1> PICK t : t = [tab EXCEPT !.saving = h]
  OBVIOUS
<1> DEFINE made == [call EXCEPT !.step = "sent", !.device = d, !.session = tabs[d].cookie]
<1>3. tabs' = [tabs EXCEPT ![d] = t] /\ calls' = [calls EXCEPT ![h] = made]
  BY <1>1
<1>4. /\ made.op = "palette" /\ made.device = d /\ made.step = "sent" /\ made.at = 0
      /\ made.palette = tab.saves[1].palette
  BY <1>1 DEF CallFields
<1>5. h \in Slots /\ calls[h].op = "none" /\ calls[h].device = None /\ h # 0
  BY SlotsAreSome DEF TabsInv, SlotOK, FreeSlots
<1>6. /\ DOMAIN t = TabFields /\ t.saving = h /\ t.call = tab.call /\ t.step = tab.step
      /\ t.palette = tab.palette /\ t.saves = tab.saves /\ t.state = tab.state
  BY <1>0 DEF TabOK, TabFields
<1> HIDE DEF made
<1>7. TabOK(t)
  BY <1>0, <1>6 DEF TabOK, ChainOK
<1>8. DOMAIN calls' = Slots /\ calls'[h] = made /\ \A g \in Slots \ {h} : calls'[g] = calls[g]
  BY <1>3, <1>5 DEF CallsInv
<1>9. IsPalette(tab.saves[1].palette)
  <2>1. tab.saves[1] \in Save
    BY <1>0
  <2> QED
    BY <2>1 DEF Save, Palettes
<1>10. SlotOK(made) /\ NotOfOthers(made, d) /\ NotOfOthers(calls[h], d)
  BY <1>0, <1>4, <1>5, <1>9, DevicesAreSome DEF SlotOK, NotOfOthers
<1>11. CallOK(t, d)'
  <2>1. tab.call # h \/ tab.call = 0
    BY <1>0, <1>5 DEF CallOK, PlainOps
  <2> QED
    BY <1>0, <1>6, <1>8, <2>1 DEF CallOK
<1>12. SavingOK(t, d)'
  BY <1>0, <1>4, <1>5, <1>6, <1>8 DEF SavingOK
<1>13. apart'[d] \/ Agrees(t)'
  <2>1. ~IsStored(tab) /\ ~IsStored(t)'
    BY <1>0, <1>4, <1>6, <1>8 DEF IsStored
  <2> QED
    BY <1>0, <1>6, <2>1 DEF Agrees
<1>14. \A g \in Slots : \/ calls'[g] = calls[g]
                        \/ /\ NotOfOthers(calls[g], d) /\ NotOfOthers(calls'[g], d)
                           /\ SlotOK(calls'[g])
  BY <1>8, <1>10
<1>15. \A g \in Slots : calls'[g].op = "palette" /\ calls'[g].device = d => t.saving = g
  <2>1. ASSUME NEW g \in Slots \ {h}, calls'[g].op = "palette", calls'[g].device = d PROVE FALSE
    <3>1. tab.saving = g /\ g # 0
      BY <1>8, <2>1, SlotsAreSome DEF TabsInv, SavesOwned
    <3> QED
      BY <1>0, <3>1
  <2> QED
    BY <1>6, <2>1
<1>16. apart' \in [Devices -> BOOLEAN] /\ \A e \in Devices \ {d} : apart'[e] = apart[e]
  BY <1>0
<1>17. UNCHANGED <<account, sessions, commands, known, writes>>
  BY <1>0
<1> HIDE DEF tab
<1> QED
  BY <1>3, <1>7, <1>8, <1>11, <1>12, <1>13, <1>14, <1>15, <1>16, <1>17, BrowserHolds

LEMMA TailOfSaves ==
    ASSUME NEW s \in Seq(Save), s # << >>
    PROVE  /\ Tail(s) \in Seq(Save) /\ Len(Tail(s)) \in Nat /\ Len(s) = Len(Tail(s)) + 1
           /\ \A i \in 1..Len(Tail(s)) : Tail(s)[i] = s[i + 1] /\ Tail(s)[i] \in Save
           /\ (Tail(s) = << >>) <=> (Len(Tail(s)) = 0)
<1> DEFINE r == Tail(s)
<1>1. /\ r \in Seq(Save) /\ Len(r) = Len(s) - 1 /\ \A i \in 1..Len(r) : r[i] = s[i + 1]
      /\ Len(s) \in Nat /\ Len(s) # 0
  BY HeadTailProperties
<1> HIDE DEF r
<1>2. Len(r) \in Nat /\ \A i \in 1..Len(r) : r[i] \in Save
  BY <1>1
<1>3. r = << >> <=> Len(r) = 0
  BY <1>1
<1> QED
  BY <1>1, <1>2, <1>3 DEF r

LEMMA FirstReplaced ==
    ASSUME NEW s \in Seq(Save), 1 \in 1..Len(s), NEW first \in Save
    PROVE  LET r == [s EXCEPT ![1] = first]
           IN /\ r \in Seq(Save) /\ Len(r) = Len(s) /\ r[1] = first
              /\ \A i \in 1..Len(s) : i # 1 => r[i] = s[i]
OBVIOUS

\* A save is over: the next one is the first, or the palette is settled.
LEMMA SaveEndHolds ==
    ASSUME TabsInv, CallsInv, NEW d \in Devices, NEW h, h = tabs[d].saving, h # 0,
           NEW palette, IsPalette(palette), NEW failed \in BOOLEAN, SaveEnds(d, palette, failed),
           NEW x, Released(h, x), calls' = [calls EXCEPT ![h] = x],
           UNCHANGED <<account, sessions, commands, known, writes>>,
           NEW b \in BOOLEAN, apart' = [apart EXCEPT ![d] = b],
           Len(tabs[d].saves) = 1 => b \/ palette = account.palette,
           ~failed => b \/ tabs[d].saves[1].palette = account.palette
    PROVE  TabsInv'
<1> DEFINE tab == tabs[d]
           rest == Tail(tab.saves)
<1>0. /\ TabOK(tab) /\ CallOK(tab, d) /\ SavingOK(tab, d)
      /\ apart \in [Devices -> BOOLEAN] /\ tab.saves \in Seq(Save) /\ tab.saves # << >>
      /\ h \in Slots /\ calls[h].op = "palette" /\ calls[h].device = d
  BY DEF TabsInv, RowsInv, DeviceOK, TabOK, SavingOK
<1>a. PICK t : t = [tab EXCEPT !.saving = 0,
           !.saves = IF rest = << >> \/ ~failed THEN rest ELSE [rest EXCEPT ![1].after = TRUE],
           !.palette = IF rest = << >> THEN palette ELSE @]
  OBVIOUS
<1>1. tabs' = [tabs EXCEPT ![d] = t]
  BY <1>a DEF SaveEnds, Show
<1>2. /\ DOMAIN t = TabFields /\ t.saving = 0 /\ t.call = tab.call /\ t.step = tab.step
      /\ t.state = tab.state
      /\ t.saves = IF rest = << >> \/ ~failed THEN rest ELSE [rest EXCEPT ![1].after = TRUE]
      /\ t.palette = IF rest = << >> THEN palette ELSE tab.palette
  BY <1>0, <1>a DEF TabOK, TabFields
<1>3. /\ rest \in Seq(Save) /\ Len(rest) \in Nat /\ Len(tab.saves) = Len(rest) + 1
      /\ \A i \in 1..Len(rest) : rest[i] = tab.saves[i + 1] /\ rest[i] \in Save
      /\ (rest = << >>) <=> (Len(rest) = 0)
  BY <1>0, TailOfSaves
<1> HIDE DEF rest
<1>4. /\ t.saves \in Seq(Save) /\ Len(t.saves) = Len(rest)
      /\ \A i \in 1..Len(rest) : /\ t.saves[i].palette = tab.saves[i + 1].palette
                                 /\ t.saves[i].before = tab.saves[i + 1].before
                                 /\ tab.saves[i + 1].after => t.saves[i].after
      /\ failed /\ rest # << >> => t.saves[1].after
  <2>1. CASE rest = << >> \/ ~failed
    BY <1>2, <1>3, <2>1
  <2>2. CASE rest # << >> /\ failed
    <3> DEFINE first == [rest[1] EXCEPT !.after = TRUE]
    <3>1. 1 \in 1..Len(rest)
      BY <1>3, <2>2
    <3>2. rest[1] \in Save
      BY <1>3, <3>1
    <3>3. /\ first \in Save /\ first.after /\ first.palette = rest[1].palette
          /\ first.before = rest[1].before
      BY <3>2 DEF Save
    <3>4. t.saves = [rest EXCEPT ![1] = first]
      BY <1>2, <2>2
    <3> HIDE DEF first
    <3>5. /\ t.saves \in Seq(Save) /\ Len(t.saves) = Len(rest) /\ t.saves[1] = first
          /\ \A i \in 1..Len(rest) : i # 1 => t.saves[i] = rest[i]
      BY <1>3, <3>1, <3>3, <3>4, FirstReplaced
    <3>6. ASSUME NEW i \in 1..Len(rest)
          PROVE  /\ t.saves[i].palette = tab.saves[i + 1].palette
                 /\ t.saves[i].before = tab.saves[i + 1].before
                 /\ tab.saves[i + 1].after => t.saves[i].after
      <4>1. CASE i = 1
        BY <1>3, <3>1, <3>3, <3>5, <4>1
      <4>2. CASE i # 1
        BY <1>3, <3>5, <4>2
      <4> QED
        BY <4>1, <4>2
    <3> QED
      BY <3>3, <3>5, <3>6
  <2> QED
    BY <2>1, <2>2
<1>5. t.saves = << >> <=> rest = << >>
  BY <1>3, <1>4
<1>6. ChainOK(t)
  <2>1. ASSUME NEW i \in 1..Len(t.saves), i > 1, ~t.saves[i].after
        PROVE  t.saves[i].before = t.saves[i - 1].palette
    <3>1. i \in 1..Len(rest) /\ i - 1 \in 1..Len(rest) /\ i + 1 \in 1..Len(tab.saves) /\ i + 1 > 1
          /\ (i + 1) - 1 = i /\ (i - 1) + 1 = i
      BY <1>3, <1>4, <2>1
    <3>2. ~tab.saves[i + 1].after
      BY <1>4, <2>1, <3>1
    <3>3. tab.saves[i + 1].before = tab.saves[i].palette
      BY <1>0, <3>1, <3>2 DEF TabOK, ChainOK
    <3> QED
      BY <1>4, <3>1, <3>3
  <2>2. ASSUME t.state = "authenticated", t.saves # << >>
        PROVE  \/ t.palette = t.saves[Len(t.saves)].palette
               \/ \A i \in 1..Len(t.saves) : t.saves[i].after
    <3>1. /\ Len(rest) \in 1..Len(rest) /\ Len(rest) + 1 = Len(tab.saves)
          /\ \A i \in 1..Len(rest) : i + 1 \in 1..Len(tab.saves)
      BY <1>3, <1>5, <2>2
    <3>2. t.palette = tab.palette
      BY <1>2, <1>5, <2>2
    <3>3. \/ tab.palette = tab.saves[Len(tab.saves)].palette
          \/ \A i \in 1..Len(tab.saves) : tab.saves[i].after
      BY <1>0, <1>2, <2>2 DEF TabOK, ChainOK
    <3> QED
      BY <1>4, <3>1, <3>2, <3>3
  <2> QED
    BY <2>1, <2>2 DEF ChainOK
<1>7. TabOK(t)
  BY <1>0, <1>2, <1>4, <1>6 DEF TabOK
<1>8. DOMAIN calls' = Slots /\ calls'[h] = x /\ \A g \in Slots \ {h} : calls'[g] = calls[g]
  BY <1>0 DEF CallsInv
<1>9. SlotOK(x) /\ x.device = None /\ NotOfOthers(x, d) /\ NotOfOthers(calls[h], d)
  BY <1>0, ReleasedOK, DevicesAreSome DEF NotOfOthers
<1>10. CallOK(t, d)'
  <2>1. tab.call # 0 => tab.call # h
    BY <1>0 DEF CallOK, PlainOps
  <2> QED
    BY <1>0, <1>2, <1>8, <2>1 DEF CallOK
<1>11. SavingOK(t, d)'
  BY <1>2 DEF SavingOK
<1>12. apart' \in [Devices -> BOOLEAN] /\ apart'[d] = b /\ \A e \in Devices \ {d} : apart'[e] = apart[e]
  BY <1>0
<1>13. apart'[d] \/ Agrees(t)'
  <2> SUFFICES ASSUME ~b PROVE Agrees(t)'
    BY <1>12
  <2>1. ~IsStored(t)'
    BY <1>2 DEF IsStored
  <2>2. CASE rest = << >>
    BY <1>2, <1>3, <1>5, <2>1, <2>2 DEF Agrees
  <2>3. CASE rest # << >>
    <3>1. 1 \in 1..Len(rest) /\ 1 + 1 = 2 /\ 2 \in 1..Len(tab.saves) /\ 2 > 1 /\ 2 - 1 = 1
      BY <1>3, <2>3
    <3>2. ASSUME ~t.saves[1].after PROVE t.saves[1].before = account'.palette
      <4>1. ~failed /\ ~tab.saves[2].after
        BY <1>4, <2>3, <3>1, <3>2
      <4>2. tab.saves[2].before = tab.saves[1].palette
        BY <1>0, <3>1, <4>1 DEF TabOK, ChainOK
      <4> QED
        BY <1>4, <3>1, <4>1, <4>2
    <3> QED
      BY <1>5, <2>1, <2>3, <3>2 DEF Agrees
  <2> QED
    BY <2>2, <2>3
<1>14. \A g \in Slots : \/ calls'[g] = calls[g]
                        \/ /\ NotOfOthers(calls[g], d) /\ NotOfOthers(calls'[g], d)
                           /\ SlotOK(calls'[g])
  BY <1>8, <1>9
<1>15. \A g \in Slots : calls'[g].op = "palette" /\ calls'[g].device = d => t.saving = g
  BY <1>8, <1>9, DevicesAreSome DEF TabsInv, SavesOwned
<1> HIDE DEF tab
<1> QED
  BY <1>1, <1>7, <1>8, <1>10, <1>11, <1>12, <1>13, <1>14, <1>15, BrowserHolds

LEMMA HearSaveHolds ==
    ASSUME TabsInv, CallsInv, NEW d \in Devices, HearSaved(d) \/ HearUnsaved(d)
    PROVE  TabsInv'
<1> DEFINE tab == tabs[d]
           h == tab.saving
<1>0. /\ TabOK(tab) /\ h # 0 /\ h \in Slots /\ SlotOK(calls[h]) /\ SavingOK(tab, d)
      /\ calls[h].op = "palette" /\ calls[h].palette = tab.saves[1].palette
      /\ apart \in [Devices -> BOOLEAN] /\ (apart[d] \/ Agrees(tab))
      /\ tab.saves \in Seq(Save) /\ tab.saves # << >>
  BY DEF TabsInv, RowsInv, DeviceOK, TabOK, SavingOK, HearSaved, HearUnsaved
<1>1. IsPalette(calls[h].palette) /\ IsPalette(tab.saves[1].before) /\ tab.saves[1].after \in BOOLEAN
  <2>1. tab.saves[1] \in Save
    BY <1>0
  <2> QED
    BY <1>0, <2>1 DEF SlotOK, Save, Palettes
<1>2. UNCHANGED <<account, sessions, commands, known, writes>>
  BY DEF HearSaved, HearUnsaved, Away, server
<1>3. CASE HearSaved(d)
  <2>1. /\ SaveEnds(d, calls[h].palette, FALSE) /\ calls' = [calls EXCEPT ![h] = NoCall]
        /\ Released(h, NoCall) /\ IsStored(tab) /\ apart' = [apart EXCEPT ![d] = apart[d]]
    BY <1>0, <1>3 DEF HearSaved, Release, Released, IsStored
  <2>2. apart[d] \/ (calls[h].palette = account.palette /\ tab.saves[1].palette = account.palette)
    BY <1>0, <2>1 DEF Agrees
  <2> QED
    BY <1>0, <1>1, <1>2, <2>1, <2>2, SaveEndHolds
<1>4. CASE HearUnsaved(d)
  <2>1. PICK x : Released(h, x) /\ calls' = [calls EXCEPT ![h] = x]
    <3>1. Release(h) \/ Breaks(h)
      BY <1>4 DEF HearUnsaved
    <3> QED
      BY <1>0, <3>1, BreaksReleases DEF Release, Released
  <2> DEFINE lost == calls[h].step = "answered"
             b == apart[d] \/ lost \/ (Len(tab.saves) = 1 /\ tab.saves[1].after)
  <2>2. SaveEnds(d, tab.saves[1].before, TRUE) /\ apart' = [apart EXCEPT ![d] = b]
    BY <1>4 DEF HearUnsaved
  <2>3. b \in BOOLEAN
    BY <1>0, <1>1
  <2>4. Len(tab.saves) = 1 => b \/ tab.saves[1].before = account.palette
    BY <1>0 DEF Agrees, IsStored
  <2> HIDE DEF b
  <2> QED
    BY <1>0, <1>1, <1>2, <2>1, <2>2, <2>3, <2>4, SaveEndHolds
<1> QED
  BY <1>3, <1>4

LEMMA ReloadHolds ==
    ASSUME TabsInv, CallsInv, NEW d \in Devices, Reload(d)
    PROVE  TabsInv'
<1> PICK t : t = [NewTab EXCEPT !.cookie = tabs[d].cookie]
  OBVIOUS
<1>0. apart \in [Devices -> BOOLEAN] /\ writes \in Nat /\ tabs' = [tabs EXCEPT ![d] = t]
      /\ UNCHANGED <<account, sessions, commands, known, writes>> /\ apart' = apart
  BY DEF TabsInv, RowsInv, Reload, Show, Away, server
<1>1. /\ DOMAIN t = TabFields /\ t.saving = 0 /\ t.call = 0 /\ t.step = "load"
      /\ t.state = "checking" /\ t.saves = << >> /\ t.palette = <<Black>>
  BY DEF NewTab, TabFields
<1>2. ChainOK(t) /\ << >> \in Seq(Save)
  BY <1>1 DEF ChainOK
<1>3. TabOK(t)
  BY <1>1, <1>2, BlackPalette DEF TabOK
<1>4. ASSUME NEW h \in Slots
      PROVE  /\ \/ calls'[h] = calls[h]
                \/ NotOfOthers(calls[h], d) /\ NotOfOthers(calls'[h], d) /\ SlotOK(calls'[h])
             /\ calls'[h].device # d
  <2>1. CASE calls[h].device = d
    <3>1. calls'[h] = [calls[h] EXCEPT !.device = None]
      BY <2>1 DEF Reload
    <3>2. SlotOK(calls'[h]) /\ calls'[h].device = None
      BY <3>1, ReleasedOK DEF Released
    <3> QED
      BY <2>1, <3>2, DevicesAreSome DEF NotOfOthers
  <2>2. CASE calls[h].device # d
    BY <2>2 DEF Reload
  <2> QED
    BY <2>1, <2>2
<1>5. DOMAIN calls' = Slots
  BY DEF Reload
<1>6. CallOK(t, d)' /\ SavingOK(t, d)' /\ Agrees(t)'
  BY <1>1 DEF CallOK, SavingOK, Agrees, IsStored
<1>7. \A h \in Slots : calls'[h].op = "palette" /\ calls'[h].device = d => t.saving = h
  BY <1>4
<1>8. apart' \in [Devices -> BOOLEAN] /\ \A e \in Devices \ {d} : apart'[e] = apart[e]
  BY <1>0
<1>9. \A h \in Slots : \/ calls'[h] = calls[h]
                       \/ NotOfOthers(calls[h], d) /\ NotOfOthers(calls'[h], d) /\ SlotOK(calls'[h])
  BY <1>4
<1> QED
  BY <1>0, <1>3, <1>5, <1>6, <1>7, <1>8, <1>9, BrowserHolds

LEMMA BrowseHolds == ASSUME TabsInv, CallsInv, NEW d \in Devices, Browse(d) PROVE TabsInv'
BY AsksHold, HearsHold, SessionHolds, NoSessionHolds, EditHolds, SendSaveHolds, HearSaveHolds,
   ReloadHolds DEF Browse

\* Requests that nobody waits for are all that a step touches, apart from the rows.
LEMMA UnheardHolds ==
    ASSUME TabsInv, UNCHANGED <<tabs, writes, apart>>, account'.palette = account.palette,
           sessions' \in Seq(BOOLEAN), known' \subseteq AllTokens,
           \A a \in Admins : commands'[a].step = "print" => commands'[a].token # None,
           \A h \in Slots : \/ calls'[h] = calls[h]
                            \/ calls[h].device = None /\ calls'[h].device = None /\ SlotOK(calls'[h])
    PROVE  TabsInv'
<1>1. RowsInv'
  BY DEF TabsInv, RowsInv
<1>2. \A h \in Slots : SlotOK(calls[h])'
  BY DEF TabsInv, SlotOK
<1>3. ASSUME NEW d \in Devices PROVE DeviceOK(d)'
  <2>1. DeviceOK(d) /\ tabs'[d] = tabs[d] /\ apart'[d] = apart[d]
    BY DEF TabsInv
  <2>2. tabs[d].call # 0 => calls'[tabs[d].call] = calls[tabs[d].call]
    BY <2>1, DevicesAreSome DEF DeviceOK, CallOK
  <2>3. tabs[d].saving # 0 => calls'[tabs[d].saving] = calls[tabs[d].saving]
    BY <2>1, DevicesAreSome DEF DeviceOK, SavingOK
  <2>4. CallOK(tabs[d], d)' /\ SavingOK(tabs[d], d)'
    BY <2>1, <2>2, <2>3 DEF DeviceOK, CallOK, SavingOK
  <2>5. Agrees(tabs[d]) => Agrees(tabs[d])'
    BY <2>1, <2>3 DEF Agrees, IsStored
  <2> QED
    BY <2>1, <2>4, <2>5 DEF DeviceOK
<1>4. SavesOwned'
  BY DevicesAreSome DEF TabsInv, SavesOwned
<1> QED
  BY <1>1, <1>2, <1>3, <1>4 DEF TabsInv

\* A handler's step that reaches no palette: the request keeps what its browser knows.
LEMMA ServerHolds ==
    ASSUME TabsInv, CallsInv, NEW h \in Slots, NEW moved, calls' = [calls EXCEPT ![h] = moved],
           UNCHANGED <<tabs, writes, apart, known, commands>>, account'.palette = account.palette,
           sessions' \in Seq(BOOLEAN), SlotOK(moved),
           moved.op = calls[h].op, moved.device = calls[h].device,
           calls[h].op = "palette" => /\ moved.palette = calls[h].palette
                                      /\ moved.step # "answered" /\ calls[h].step # "answered"
    PROVE  TabsInv'
<1>0. DOMAIN calls' = Slots /\ calls'[h] = moved /\ \A g \in Slots \ {h} : calls'[g] = calls[g]
  BY DEF CallsInv
<1>1. RowsInv'
  BY DEF TabsInv, RowsInv
<1>2. \A g \in Slots : SlotOK(calls[g])'
  BY <1>0 DEF TabsInv, SlotOK
<1>3. ASSUME NEW d \in Devices PROVE DeviceOK(d)'
  <2>1. DeviceOK(d) /\ tabs'[d] = tabs[d] /\ apart'[d] = apart[d]
    BY DEF TabsInv
  <2>2. CallOK(tabs[d], d)' /\ SavingOK(tabs[d], d)'
    BY <1>0, <2>1 DEF DeviceOK, CallOK, SavingOK
  <2>3. IsStored(tabs[d]) <=> IsStored(tabs[d])'
    BY <1>0, <2>1 DEF DeviceOK, SavingOK, IsStored
  <2>4. Agrees(tabs[d]) => Agrees(tabs[d])'
    BY <2>1, <2>3 DEF Agrees
  <2> QED
    BY <2>1, <2>2, <2>4 DEF DeviceOK
<1>4. SavesOwned'
  BY <1>0 DEF TabsInv, SavesOwned
<1> QED
  BY <1>1, <1>2, <1>3, <1>4 DEF TabsInv

LEMMA StorePaletteHolds ==
    ASSUME TabsInv, CallsInv, TokensInv, NEW h \in Slots, StorePalette(h), HasSession(h)
    PROVE  TabsInv'
<1> DEFINE d == calls[h].device
<1>0. /\ account' = [account EXCEPT !.palette = calls[h].palette] /\ writes' = writes + 1
      /\ apart' = [e \in Devices |-> e # d] /\ calls' = [calls EXCEPT ![h].step = "answered"]
      /\ UNCHANGED <<tabs, sessions, known, commands>>
      /\ calls[h].op = "palette" /\ SlotOK(calls[h]) /\ DOMAIN calls[h] = CallFields /\ writes \in Nat
  BY DEF StorePalette, At, GoTo, Outside, TabsInv, RowsInv, CallsInv, IsCall
<1>1. account'.palette = calls[h].palette /\ IsPalette(calls[h].palette)
  BY <1>0 DEF TokensInv, SlotOK
<1>2. RowsInv'
  BY <1>0, <1>1 DEF TabsInv, RowsInv
<1>3. /\ DOMAIN calls' = Slots /\ \A g \in Slots \ {h} : calls'[g] = calls[g]
      /\ calls'[h].op = "palette" /\ calls'[h].device = d /\ calls'[h].step = "answered"
      /\ calls'[h].palette = calls[h].palette /\ calls'[h].at = calls[h].at
  BY <1>0 DEF CallsInv, CallFields
<1>4. ASSUME NEW g \in Slots PROVE SlotOK(calls[g])'
  <2>1. CASE g = h
    BY <1>0, <1>1, <1>3, <2>1 DEF SlotOK
  <2>2. CASE g # h
    <3>1. SlotOK(calls[g]) /\ calls'[g] = calls[g]
      BY <1>3, <2>2 DEF TabsInv
    <3> QED
      BY <1>0, <3>1 DEF SlotOK
  <2> QED
    BY <2>1, <2>2
<1>5. ASSUME NEW e \in Devices PROVE DeviceOK(e)'
  <2>1. DeviceOK(e) /\ tabs'[e] = tabs[e]
    BY <1>0 DEF TabsInv
  <2>2. CallOK(tabs[e], e)' /\ SavingOK(tabs[e], e)'
    BY <1>0, <1>3, <2>1 DEF DeviceOK, CallOK, SavingOK
  <2>3. apart'[e] \/ Agrees(tabs[e])'
    <3>1. CASE e # d
      BY <1>0, <3>1
    <3>2. CASE e = d
      <4>1. tabs[e].saving = h /\ h # 0
        BY <1>0, <3>2, SlotsAreSome DEF TabsInv, SavesOwned
      <4>2. IsStored(tabs[e])' /\ tabs[e].saves # << >> /\ tabs[e].saves[1].palette = calls[h].palette
        BY <1>3, <2>1, <4>1 DEF IsStored, DeviceOK, SavingOK
      <4> QED
        BY <1>1, <2>1, <4>2 DEF Agrees
    <3> QED
      BY <3>1, <3>2
  <2> QED
    BY <2>1, <2>2, <2>3 DEF DeviceOK
<1>6. SavesOwned'
  BY <1>0, <1>3 DEF TabsInv, SavesOwned
<1> QED
  BY <1>2, <1>4, <1>5, <1>6 DEF TabsInv

LEMMA HandleHolds ==
    ASSUME TabsInv, CallsInv, TokensInv, NEW h \in Slots, Handle(h)
    PROVE  TabsInv'
<1> DEFINE call == calls[h]
<1>0. /\ IsCall(call) /\ SlotOK(call) /\ writes \in Nat /\ sessions \in Seq(BOOLEAN)
      /\ IsPalette(account.palette) /\ DOMAIN account = {"enrolled", "token", "palette"}
  BY DEF TabsInv, RowsInv, CallsInv, TokensInv
<1>1. CASE StorePalette(h) /\ HasSession(h)
  BY <1>1, StorePaletteHolds
<1>2. CASE ~(StorePalette(h) /\ HasSession(h))
  <2>1. UNCHANGED <<tabs, writes, apart, known, commands>> /\ account'.palette = account.palette
    <3>1. UNCHANGED <<tabs, known, commands>>
      BY DEF Handle, TakeToken, OpenSession, RegistrationOptions, LoginOptions, ReadKey, TakeChallenge,
             InsertKey, MarkEnrolled, ReadSession, RevokeSession, StorePalette, Outside
    <3>2. UNCHANGED <<writes, apart>>
      BY <1>2 DEF Handle, TakeToken, OpenSession, RegistrationOptions, LoginOptions, ReadKey, TakeChallenge,
             InsertKey, MarkEnrolled, ReadSession, RevokeSession, StorePalette, history
    <3>a. ASSUME NEW t, account' = [account EXCEPT !.token = t] PROVE account'.palette = account.palette
      BY <1>0, <3>a
    <3>b. ASSUME account' = [account EXCEPT !.enrolled = TRUE] PROVE account'.palette = account.palette
      BY <1>0, <3>b
    <3>3. CASE TakeToken(h)
      <4>1. account' = [account EXCEPT !.token = None] \/ account' = account
        BY <3>3 DEF TakeToken
      <4> QED
        BY <3>1, <3>2, <4>1, <3>a
    <3>4. CASE MarkEnrolled(h)
      <4>1. account' = [account EXCEPT !.enrolled = TRUE]
        BY <3>4 DEF MarkEnrolled
      <4> QED
        BY <3>1, <3>2, <4>1, <3>b
    <3>5. CASE ~TakeToken(h) /\ ~MarkEnrolled(h)
      <4>1. CASE StorePalette(h)
        BY <3>1, <3>2, <1>2, <4>1 DEF StorePalette
      <4>2. CASE ~StorePalette(h)
        <5>1. \/ OpenSession(h) \/ RegistrationOptions(h) \/ LoginOptions(h) \/ ReadKey(h)
              \/ TakeChallenge(h) \/ InsertKey(h) \/ ReadSession(h) \/ RevokeSession(h)
          BY <3>5, <4>2 DEF Handle
        <5> QED
          BY <3>1, <3>2, <5>1 DEF OpenSession, RegistrationOptions, LoginOptions, ReadKey, TakeChallenge,
                 InsertKey, ReadSession, RevokeSession, server
      <4> QED
        BY <4>1, <4>2
    <3> QED
      BY <3>1, <3>2, <3>3, <3>4, <3>5
  <2>2. sessions' \in Seq(BOOLEAN)
    <3>1. CASE OpenSession(h)
      BY <1>0, <3>1 DEF OpenSession
    <3>2. CASE RevokeSession(h)
      <4>1. ASSUME NEW s, sessions' = [sessions EXCEPT ![s] = FALSE] PROVE sessions' \in Seq(BOOLEAN)
        <5>1. /\ sessions \in [1..Len(sessions) -> BOOLEAN] /\ Len(sessions) \in Nat
          BY <1>0
        <5>2. sessions' \in [1..Len(sessions) -> BOOLEAN]
          BY <4>1, <5>1
        <5> QED
          BY <5>1, <5>2, IsASeq
      <4> QED
        BY <1>0, <3>2, <4>1 DEF RevokeSession
    <3>3. CASE ~OpenSession(h) /\ ~RevokeSession(h)
      BY <1>0, <3>3 DEF Handle, TakeToken, RegistrationOptions, LoginOptions, ReadKey, TakeChallenge,
             InsertKey, MarkEnrolled, ReadSession, StorePalette, server
    <3> QED
      BY <3>1, <3>2, <3>3
  <2>3. ASSUME NEW moved, calls' = [calls EXCEPT ![h] = moved], SlotOK(moved),
               moved.op = call.op, moved.device = call.device,
               call.op = "palette" => /\ moved.palette = call.palette
                                      /\ moved.step # "answered" /\ call.step # "answered"
        PROVE  TabsInv'
    BY <2>1, <2>2, <2>3, ServerHolds
  <2>4. ASSUME NEW s, GoTo(h, s), call.op \in {"session", "palette"} => call.step = "sent" /\ s = "failed"
        PROVE  TabsInv'
    <3> DEFINE moved == [call EXCEPT !.step = s]
    <3>1. /\ moved.op = call.op /\ moved.device = call.device /\ moved.palette = call.palette
          /\ moved.at = call.at /\ moved.step = s
      BY <1>0 DEF IsCall, CallFields
    <3>2. calls' = [calls EXCEPT ![h] = moved]
      BY <2>4 DEF GoTo
    <3> HIDE DEF moved
    <3>3. SlotOK(moved)
      BY <1>0, <2>4, <3>1 DEF SlotOK
    <3> QED
      BY <2>3, <2>4, <3>1, <3>2, <3>3
  <2>5. CASE ReadSession(h) /\ HasSession(h)
    <3> DEFINE moved == [call EXCEPT !.step = "answered", !.palette = account.palette, !.at = writes]
    <3>1. /\ moved.op = call.op /\ moved.device = call.device /\ moved.palette = account.palette
          /\ moved.at = writes
      BY <1>0 DEF IsCall, CallFields
    <3>2. calls' = [calls EXCEPT ![h] = moved] /\ call.op = "session"
      BY <2>5 DEF ReadSession, At
    <3> HIDE DEF moved
    <3>3. SlotOK(moved)
      BY <1>0, <3>1, <3>2 DEF SlotOK
    <3> QED
      BY <2>3, <3>1, <3>2, <3>3
  <2>6. CASE OpenSession(h)
    <3> DEFINE moved == [call EXCEPT !.session = Len(sessions) + 1,
                              !.step = IF call.op = "login" THEN "mark" ELSE "answered"]
    <3>1. /\ moved.op = call.op /\ moved.device = call.device /\ moved.palette = call.palette
          /\ moved.at = call.at
      BY <1>0 DEF IsCall, CallFields
    <3>2. calls' = [calls EXCEPT ![h] = moved] /\ call.op \notin {"session", "palette"}
      BY <1>0, <2>6 DEF OpenSession, IsCall
    <3> HIDE DEF moved
    <3>3. SlotOK(moved)
      BY <1>0, <3>1, <3>2 DEF SlotOK
    <3> QED
      BY <2>3, <3>1, <3>2, <3>3
  <2>7. ASSUME NEW kind, Challenge(h, kind), call.op \notin {"session", "palette"}
        PROVE  TabsInv'
    <3> DEFINE moved == [call EXCEPT !.step = "answered", !.ceremony = Len(ceremonies) + 1]
    <3>1. /\ moved.op = call.op /\ moved.device = call.device /\ moved.palette = call.palette
          /\ moved.at = call.at
      BY <1>0 DEF IsCall, CallFields
    <3>2. calls' = [calls EXCEPT ![h] = moved]
      BY <2>7 DEF Challenge
    <3> HIDE DEF moved
    <3>3. SlotOK(moved)
      BY <1>0, <2>7, <3>1 DEF SlotOK
    <3> QED
      BY <2>3, <2>7, <3>1, <3>2, <3>3
  <2>8. CASE RegistrationOptions(h) \/ LoginOptions(h)
    BY <2>4, <2>7, <2>8 DEF RegistrationOptions, LoginOptions, At
  <2>9. CASE TakeToken(h) \/ ReadKey(h) \/ TakeChallenge(h) \/ InsertKey(h) \/ RevokeSession(h)
    BY <2>4, <2>9 DEF TakeToken, ReadKey, TakeChallenge, InsertKey, RevokeSession, At
  <2>10. CASE MarkEnrolled(h)
    <3>1. call.op \in {"login", "register"}
      BY <1>0, <2>10 DEF MarkEnrolled, IsCall
    <3> QED
      BY <2>4, <2>10, <3>1 DEF MarkEnrolled
  <2>11. CASE (ReadSession(h) \/ StorePalette(h)) /\ ~HasSession(h)
    BY <2>4, <2>11 DEF ReadSession, StorePalette, At
  <2> QED
    BY <1>2, <2>5, <2>6, <2>8, <2>9, <2>10, <2>11 DEF Handle
<1> QED
  BY <1>1, <1>2

\* What a command makes of its own line: a step that prints has a token.
Prints(new) == new.step = "print" => new.token # None

LEMMA AdministerHolds ==
    ASSUME TabsInv, UseInv, NEW a \in Admins, Administer(a)
    PROVE  TabsInv'
<1>0. /\ UNCHANGED <<calls, tabs, writes, apart, sessions>>
      /\ commands \in [Admins -> Command] /\ known \subseteq AllTokens /\ sessions \in Seq(BOOLEAN)
      /\ DOMAIN account = {"enrolled", "token", "palette"}
      /\ \A b \in Admins : Prints(commands[b])
  <2>1. UNCHANGED <<calls, tabs, writes, apart, sessions>>
    BY DEF Administer, Run, StorePreset, ReadStatus, StoreToken, RotateToken, PrintToken, RevokeKeys, Besides
  <2> QED
    BY <2>1 DEF TabsInv, RowsInv, UseInv, CommandsInv, TokensInv, Prints
<1>1. Prints(NoCommand)
  BY DEF Prints, NoCommand
\* The command's own line is all that changes of the commands.
<1>2. ASSUME NEW new, commands' = [commands EXCEPT ![a] = new], Prints(new),
             known' \subseteq AllTokens, account'.palette = account.palette
      PROVE  TabsInv'
  <2>1. \A b \in Admins : commands'[b].step = "print" => commands'[b].token # None
    BY <1>0, <1>2 DEF Prints
  <2> QED
    BY <1>0, <1>2, <2>1, UnheardHolds
<1>3. ASSUME NEW t \in Tokens PROVE Prints([commands[a] EXCEPT !.step = "print", !.token = t])
  BY <1>0, NoneIsNothing DEF Prints, Command
<1>4. ASSUME NEW s \in {"store", "rotate"} PROVE Prints([commands[a] EXCEPT !.step = s])
  BY <1>0 DEF Prints, Command
<1>5. ASSUME NEW t PROVE [account EXCEPT !.token = t].palette = account.palette
  BY <1>0
<1>6. ASSUME NEW t, NEW e PROVE [account EXCEPT !.token = t, !.enrolled = e].palette = account.palette
  BY <1>0
<1>7. ASSUME NEW op, Run(a, op) PROVE TabsInv'
  <2> PICK new : new = [op |-> op, token |-> None,
                        step |-> IF op = "revokeAll" THEN "revoke"
                                 ELSE IF preset # None THEN "preset" ELSE "read"]
    OBVIOUS
  <2>1. Prints(new)
    BY DEF Prints
  <2> QED
    BY <1>0, <1>2, <1>7, <2>1 DEF Run
<1>8. CASE StorePreset(a)
  <2>1. account' = account \/ account' = [account EXCEPT !.token = preset]
    BY <1>8 DEF StorePreset
  <2>2. account'.palette = account.palette
    BY <1>5, <2>1
  <2> QED
    BY <1>0, <1>1, <1>2, <1>8, <2>2 DEF StorePreset, DoneWith
<1>9. CASE ReadStatus(a)
  <2>1. \/ commands' = [commands EXCEPT ![a] = [@ EXCEPT !.step = "store"]]
        \/ commands' = [commands EXCEPT ![a] = [@ EXCEPT !.step = "rotate"]]
        \/ commands' = [commands EXCEPT ![a] = NoCommand]
    BY <1>0, <1>9 DEF ReadStatus
  <2>2. \/ commands' = [commands EXCEPT ![a] = [commands[a] EXCEPT !.step = "store"]]
        \/ commands' = [commands EXCEPT ![a] = [commands[a] EXCEPT !.step = "rotate"]]
        \/ commands' = [commands EXCEPT ![a] = NoCommand]
    BY <1>0, <2>1
  <2> QED
    BY <1>0, <1>1, <1>2, <1>4, <1>9, <2>2 DEF ReadStatus
<1>10. CASE StoreToken(a) \/ RotateToken(a)
  <2> PICK t \in Fresh :
        /\ \/ account' = [account EXCEPT !.token = t]
           \/ account' = [account EXCEPT !.token = t,
                            !.enrolled = IF account.token = None THEN FALSE ELSE @]
        /\ \/ commands' = [commands EXCEPT ![a] = NoCommand]
           \/ commands' = [commands EXCEPT ![a].step = "print", ![a].token = t]
           \/ commands' = [commands EXCEPT ![a] = [@ EXCEPT !.step = "print", !.token = t]]
    BY <1>10 DEF StoreToken, RotateToken
  <2>1. account'.palette = account.palette
    BY <1>0
  <2>2. \/ commands' = [commands EXCEPT ![a] = NoCommand]
        \/ commands' = [commands EXCEPT ![a] = [commands[a] EXCEPT !.step = "print", !.token = t]]
    BY <1>0
  <2>3. known' = known
    BY <1>10 DEF StoreToken, RotateToken
  <2>4. t \in Tokens
    BY DEF Fresh
  <2>5. Prints([commands[a] EXCEPT !.step = "print", !.token = t])
    BY <1>3, <2>4
  <2> QED
    BY <1>0, <1>1, <1>2, <2>1, <2>2, <2>3, <2>5
<1>11. CASE PrintToken(a)
  <2>1. commands[a].token \in AllTokens
    BY <1>0, <1>11 DEF PrintToken, Running, Prints, Command
  <2>2. known' \subseteq AllTokens
    BY <1>0, <1>11, <2>1 DEF PrintToken
  <2> QED
    BY <1>0, <1>1, <1>2, <1>11, <2>2 DEF PrintToken, DoneWith
<1>12. CASE RevokeKeys(a)
  <2>1. commands' = [commands EXCEPT ![a] = [commands[a] EXCEPT !.step = "rotate"]]
    BY <1>0, <1>12 DEF RevokeKeys
  <2> QED
    BY <1>0, <1>2, <1>4, <1>12, <2>1 DEF RevokeKeys
<1> QED
  BY <1>7, <1>8, <1>9, <1>10, <1>11, <1>12 DEF Administer

LEMMA ResendHolds == ASSUME TabsInv, CallsInv, NEW h \in Slots, Resend(h) PROVE TabsInv'
<1> PICK call : call = [calls[h] EXCEPT !.step = "sent", !.device = None]
  OBVIOUS
<1>1. NextSlot \in Slots /\ calls[NextSlot].op = "none"
  BY FirstFreeSlot DEF Resend, FreeSlots
<1>2. calls[NextSlot].device = None /\ SlotOK(calls[h]) /\ DOMAIN calls[h] = CallFields
  BY <1>1 DEF TabsInv, CallsInv, IsCall, SlotOK
<1>3. /\ call.op = calls[h].op /\ call.op \in {"setup", "register", "login"}
      /\ call.step = "sent" /\ call.device = None /\ call.at = calls[h].at
  BY <1>2 DEF Resend, CallFields
<1>4. SlotOK(call)
  BY <1>2, <1>3 DEF SlotOK
<1>5. calls' = [calls EXCEPT ![NextSlot] = call]
  BY DEF Resend
<1>6. \A g \in Slots : \/ calls'[g] = calls[g]
                       \/ calls[g].device = None /\ calls'[g].device = None /\ SlotOK(calls'[g])
  BY <1>1, <1>2, <1>3, <1>4, <1>5 DEF CallsInv
<1>7. UNCHANGED <<tabs, writes, apart, sessions, known, commands, account>>
  BY DEF Resend, Away, server
<1> QED
  BY <1>6, <1>7, UnheardHolds DEF TabsInv, RowsInv

LEMMA ForgetHolds == ASSUME TabsInv, CallsInv, NEW h \in Slots, Forget(h) PROVE TabsInv'
<1>1. SlotOK(NoCall) /\ NoCall.device = None
  BY NoCallOK DEF TabsInv, RowsInv, NoCall
<1>2. \A g \in Slots : \/ calls'[g] = calls[g]
                       \/ calls[g].device = None /\ calls'[g].device = None /\ SlotOK(calls'[g])
  BY <1>1 DEF Forget, Release, CallsInv
<1>3. /\ UNCHANGED <<tabs, writes, apart, sessions, known, commands, account>>
  BY DEF Forget, Away, server
<1> QED
  BY <1>2, <1>3, UnheardHolds DEF TabsInv, RowsInv

LEMMA ExpireHolds == ASSUME TabsInv, Expire PROVE TabsInv'
<1>1. UNCHANGED <<tabs, writes, apart, known, commands, account, calls>>
  BY DEF Expire, Outside, history
<1>2. sessions' \in Seq(BOOLEAN)
  <2>1. ASSUME NEW s \in DOMAIN sessions, sessions' = [sessions EXCEPT ![s] = FALSE]
        PROVE  sessions' \in Seq(BOOLEAN)
    BY <2>1, ExceptSeq DEF TabsInv, RowsInv
  <2> QED
    BY <2>1 DEF Expire, TabsInv, RowsInv
<1> QED
  BY <1>1, <1>2, UnheardHolds DEF TabsInv, RowsInv

\* A crash keeps who waits for what, and nobody knows of an answer that was on its way.
LEMMA CrashHolds == ASSUME TabsInv, CallsInv, Crash PROVE TabsInv'
<1>0. /\ UNCHANGED <<account, sessions, commands, known, writes, tabs>>
      /\ DOMAIN calls' = Slots /\ writes \in Nat
      /\ \A d \in Devices : apart'[d] <=> apart[d] \/ \E h \in Slots :
                                At(h, "palette", "answered") /\ calls[h].device = d
      /\ apart' \in [Devices -> BOOLEAN]
  BY DEF Crash, Away, server, TabsInv, RowsInv
<1>1. ASSUME NEW h \in Slots
      PROVE  /\ calls'[h].op = calls[h].op /\ calls'[h].step # "answered"
             /\ calls[h].op # "none" => /\ calls'[h].device = calls[h].device
                                        /\ calls'[h].palette = calls[h].palette
             /\ SlotOK(calls'[h])
  <2>1. SlotOK(calls[h]) /\ DOMAIN calls[h] = CallFields /\ SlotOK(NoCall)
    BY NoCallOK DEF TabsInv, RowsInv, CallsInv, IsCall
  <2>2. CASE calls[h].op = "none"
    <3>1. calls'[h] = NoCall
      BY <2>2 DEF Crash
    <3> QED
      BY <2>1, <2>2, <3>1 DEF NoCall
  <2>3. CASE calls[h].op # "none"
    <3> PICK moved : moved = [calls[h] EXCEPT !.step = "failed"]
      OBVIOUS
    <3>1. calls'[h] = moved
      BY <2>3 DEF Crash
    <3>2. /\ moved.op = calls[h].op /\ moved.device = calls[h].device /\ moved.at = calls[h].at
          /\ moved.palette = calls[h].palette /\ moved.step = "failed"
      BY <2>1 DEF CallFields
    <3> QED
      BY <2>1, <3>1, <3>2 DEF SlotOK
  <2> QED
    BY <2>2, <2>3
<1>2. RowsInv'
  BY <1>0 DEF TabsInv, RowsInv
<1>3. \A h \in Slots : SlotOK(calls[h])'
  BY <1>0, <1>1 DEF SlotOK
<1>4. ASSUME NEW d \in Devices PROVE DeviceOK(d)'
  <2>1. DeviceOK(d) /\ tabs'[d] = tabs[d]
    BY <1>0 DEF TabsInv
  <2>2. CallOK(tabs[d], d)' /\ SavingOK(tabs[d], d)'
    BY <1>1, <2>1 DEF DeviceOK, CallOK, SavingOK, PlainOps
  <2>3. ~IsStored(tabs[d])'
    BY <1>1, <2>1 DEF IsStored, DeviceOK, SavingOK
  <2>4. IsStored(tabs[d]) => apart'[d]
    BY <1>0, <2>1 DEF IsStored, DeviceOK, SavingOK, At
  <2>5. ~IsStored(tabs[d]) /\ Agrees(tabs[d]) => Agrees(tabs[d])'
    BY <1>0, <2>1, <2>3 DEF Agrees
  <2> QED
    BY <1>0, <2>1, <2>2, <2>4, <2>5 DEF DeviceOK
<1>5. SavesOwned'
  BY <1>0, <1>1 DEF TabsInv, SavesOwned
<1> QED
  BY <1>2, <1>3, <1>4, <1>5 DEF TabsInv

LEMMA AllTrue == ASSUME NEW S, NEW q \in Seq(S) PROVE [i \in DOMAIN q |-> TRUE] \in Seq(BOOLEAN)
<1>1. Len(q) \in Nat /\ DOMAIN q = 1..Len(q)
  OBVIOUS
<1>2. [i \in DOMAIN q |-> TRUE] \in [1..Len(q) -> BOOLEAN]
  BY <1>1
<1> QED
  BY <1>1, <1>2

LEMMA NoSaves == ASSUME NEW t, t.saves = << >> PROVE t.saves \in Seq(Save) /\ ChainOK(t)
<1>1. t.saves \in Seq(Save) /\ Len(t.saves) = 0
  BY EmptySeq
<1>2. \A i \in 1..Len(t.saves) : FALSE
  BY <1>1
<1> QED
  BY <1>1, <1>2 DEF ChainOK

LEMMA InitTabs == Init => TabsInv
<1> SUFFICES ASSUME Init PROVE TabsInv
  OBVIOUS
<1> PICK start \in Starts :
        /\ preset = start.preset
        /\ account = [enrolled |-> Live # {}, token |-> None, palette |-> <<Black>>]
        /\ sessions = [s \in DOMAIN start.signedIn |-> TRUE]
        /\ tabs = [d \in Devices |->
                IF Contains(start.signedIn, d)
                THEN [NewTab EXCEPT !.state = "authenticated", !.step = "idle",
                        !.cookie = CHOOSE s \in DOMAIN start.signedIn : start.signedIn[s] = d]
                ELSE NewTab]
  BY DEF Init
<1>0. /\ calls = [h \in Slots |-> NoCall] /\ commands = [a \in Admins |-> NoCommand]
      /\ known = {preset} \ {None} /\ writes = 0 /\ apart = [d \in Devices |-> FALSE]
  BY DEF Init
<1>1. start.preset \in Presets /\ start.signedIn \in Seq(Devices)
  BY StartsAreSound
<1>2. sessions \in Seq(BOOLEAN)
  BY <1>1, AllTrue
<1>3. RowsInv
  BY <1>0, <1>1, <1>2, BlackPalette DEF RowsInv, AllTokens, NoCommand
<1>4. ASSUME NEW d \in Devices PROVE DeviceOK(d)
  <2>1. /\ DOMAIN tabs[d] = TabFields /\ tabs[d].palette = <<Black>> /\ tabs[d].saves = << >>
        /\ tabs[d].saving = 0 /\ tabs[d].call = 0 /\ tabs[d].step # "wait"
    BY DEF NewTab, TabFields
  <2>2. tabs[d].saves \in Seq(Save) /\ ChainOK(tabs[d])
    BY <2>1, NoSaves
  <2>4. TabOK(tabs[d])
    BY <2>1, <2>2, BlackPalette DEF TabOK
  <2>5. Agrees(tabs[d])
    BY <2>1 DEF Agrees, IsStored
  <2> QED
    BY <2>1, <2>4, <2>5 DEF DeviceOK, CallOK, SavingOK
<1>5. \A h \in Slots : SlotOK(calls[h])
  BY <1>0, NoCallOK
<1>6. SavesOwned
  BY <1>0 DEF SavesOwned, NoCall
<1> QED
  BY <1>3, <1>4, <1>5, <1>6 DEF TabsInv

LEMMA NextTabs == TabsInv /\ KeysInv /\ UseInv /\ [Next]_vars => TabsInv'
<1> SUFFICES ASSUME TabsInv, KeysInv, UseInv, [Next]_vars PROVE TabsInv'
  OBVIOUS
<1>0. CallsInv /\ TokensInv
  BY DEF KeysInv, UseInv
<1>1. CASE UNCHANGED vars
  BY <1>1 DEF vars, server, history, TabsInv, RowsInv, DeviceOK, CallOK, SavingOK, Agrees, IsStored,
              SlotOK, SavesOwned
<1> QED
  BY <1>0, <1>1, BrowseHolds, HandleHolds, ResendHolds, ForgetHolds, AdministerHolds, ExpireHolds, CrashHolds DEF Next

LEMMA TabsHold == Spec => [](TabsInv /\ KeysInv /\ UseInv)
<1>1. Spec => []KeysInv
  BY InitKeys, NextKeys, UseHolds, PTL DEF Spec
<1>2. Spec => []TabsInv
  BY <1>1, InitTabs, NextTabs, UseHolds, PTL DEF Spec
<1> QED
  BY <1>1, <1>2, UseHolds, PTL

\* The rows keep their types, a palette never has a color twice, none or too many, however
\* it is edited, saved and put back, and a browser waits for handlers of its own.
THEOREM AccessTypes == Spec => []TypeOK
<1>1. ASSUME TabsInv, KeysInv, UseInv PROVE TypeOK
  <2>1. /\ DOMAIN account = {"enrolled", "token", "palette"}
        /\ account.enrolled \in BOOLEAN /\ account.token \in AllTokens \cup {None}
        /\ IsPalette(account.palette)
        /\ keys \in [Keys -> {"none", "live", "revoked"}]
        /\ sessions \in Seq(BOOLEAN) /\ known \subseteq AllTokens
        /\ DOMAIN tabs = Devices /\ DOMAIN calls = Slots
    BY <1>1 DEF TabsInv, RowsInv, KeysInv, CallsInv, UseInv, TokensInv
  <2>2. ASSUME NEW d \in Devices
        PROVE  /\ IsPalette(tabs[d].palette)
               /\ (tabs[d].call # 0) <=> (tabs[d].step = "wait")
               /\ \A h \in {tabs[d].call, tabs[d].saving} \ {0} : calls[h].device = d
    BY <1>1 DEF TabsInv, DeviceOK, TabOK, CallOK, SavingOK
  <2>3. ASSUME NEW d \in Devices, NEW i \in DOMAIN tabs[d].saves
        PROVE  IsPalette(tabs[d].saves[i].palette)
    <3>1. tabs[d].saves \in Seq(Save)
      BY <1>1 DEF TabsInv, DeviceOK, TabOK
    <3>2. tabs[d].saves[i] \in Save
      BY <2>3, <3>1
    <3> QED
      BY <3>2 DEF Save, Palettes
  <2> QED
    BY <2>1, <2>2, <2>3 DEF TypeOK
<1> QED
  BY <1>1, TabsHold, PTL

\* A browser with nothing under way shows the account's palette, for any browsers, edits,
\* saves that fail or break off, reloads and crashes, but after four things: another
\* browser saved; the answer to a save was lost; the latest save failed after another; or
\* the session was read while a save of its own was under way.
THEOREM PaletteIsTheAccounts == Spec => []PaletteSettles
<1>1. TabsInv => PaletteSettles
  BY DEF TabsInv, DeviceOK, Agrees, PaletteSettles
<1> QED
  BY <1>1, TabsHold, PTL
===============================================================================
