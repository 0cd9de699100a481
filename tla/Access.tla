-------------------------------- MODULE Access --------------------------------
(***************************************************************************)
(* The owner's way in: the one-time setup token, passkeys and the two      *)
(* WebAuthn ceremonies, sessions, the commands that issue and reset        *)
(* tokens, and the screens of the browsers, with the color palette that a  *)
(* browser loads with its session and saves to the account.                *)
(*                                                                         *)
(* A handler runs statement by statement beside the others and beside the  *)
(* commands.  A connection may break while its handler goes on, and the    *)
(* server may crash between two statements.  The row of the one owner is   *)
(* always there, since every handler and command makes sure of it first.   *)
(***************************************************************************)
EXTENDS Integers, FiniteSets, Sequences, SequencesExt

CONSTANTS
    Devices,       \* browsers, each with an authenticator of its own
    Admins,        \* processes that start a server or run the reset command
    Keys,          \* the passkeys authenticators may make
    Tokens,        \* the setup tokens that may be generated
    Presets,       \* AURORA_SETUP_TOKEN: a token, or None when it is not set
    Colors, Black, \* of the palette, and its default
    MaxColors,     \* colors in a palette, 64
    None,
    Starts,        \* the beginnings: who holds which passkey and is signed in
    Slots,         \* bound: handlers under way at a time
    MaxCeremonies, MaxSessions, MaxCommands, MaxEdits, MaxFailures  \* bounds

ASSUME NoneIsNothing == None \notin Devices \cup Keys \cup Tokens
ASSUME PresetsAreApart == Presets \cap Tokens = {} /\ IsFiniteSet(Slots) /\ Slots \subseteq Nat \ {0}
ASSUME StartsAreSound ==
    \A start \in Starts : start.preset \in Presets /\ start.signedIn \in Seq(Devices)
ASSUME PaletteHasRoom == Black \in Colors /\ MaxColors \in Nat \ {0}

VARIABLES
    account,     \* the users row: setup_token_hash, enrolled_at, drawing_palette
    keys,        \* passkey_credentials, by id
    ceremonies,  \* auth_challenges, by number; keys: those the options name
    sessions,    \* by number: whether neither expired nor revoked
    calls,       \* the handlers under way
    tabs,        \* what each browser shows and waits for
    holder,      \* the authenticator that holds a passkey
    commands,    \* what each admin process is doing
    preset,      \* AURORA_SETUP_TOKEN
    known,       \* the setup tokens the owner has been shown
    spent,       \* failures, edits and commands so far
    stored,      \* history: times a token has been stored
    opened,      \* history: times a token has been taken
    mixed,       \* history: enrolled with a token stored, or revoked during a sign-in
    writes,      \* history: palettes stored
    apart        \* history: what a browser shows may not be the account's palette

server == <<account, keys, ceremonies, sessions>>
history == <<stored, opened, mixed, writes, apart>>
vars == <<server, calls, tabs, holder, commands, preset, known, spent, history>>

Live == {k \in Keys : keys[k] = "live"}
AllTokens == Tokens \cup (Presets \ {None})

\* device: whose request it is, None once the browser no longer waits for it.
NoCall == [op |-> "none", step |-> "none", device |-> None, session |-> 0, token |-> None,
           key |-> None, ceremony |-> 0, palette |-> << >>, at |-> 0]
NoCommand == [op |-> "none", step |-> "none", token |-> None]

NewTab == [state |-> "checking", view |-> "login", step |-> "load", cookie |-> 0,
           ceremony |-> 0, call |-> 0, palette |-> <<Black>>, saves |-> << >>, saving |-> 0]

\* A new account, or one whose owner has enrolled and is signed in on some browsers.
Init ==
    /\ \E start \in Starts :
        /\ holder = start.holder /\ spent = start.spent /\ preset = start.preset
        /\ keys = [k \in Keys |-> IF holder[k] = None THEN "none" ELSE "live"]
        /\ account = [enrolled |-> Live # {}, token |-> None, palette |-> <<Black>>]
        /\ sessions = [s \in DOMAIN start.signedIn |-> TRUE]
        /\ tabs = [d \in Devices |->
                IF Contains(start.signedIn, d)
                THEN [NewTab EXCEPT !.state = "authenticated", !.step = "idle",
                        !.cookie = CHOOSE s \in DOMAIN start.signedIn : start.signedIn[s] = d]
                ELSE NewTab]
    /\ ceremonies = [c \in DOMAIN sessions |->
            [kind |-> "registration", open |-> FALSE, keys |-> {}, uses |-> 1]]
    /\ calls = [h \in Slots |-> NoCall]
    /\ commands = [a \in Admins |-> NoCommand]
    /\ known = {preset} \ {None}
    /\ stored = [t \in AllTokens |-> 0] /\ opened = [t \in AllTokens |-> 0]
    /\ mixed = FALSE /\ writes = 0 /\ apart = [d \in Devices |-> FALSE]
-----------------------------------------------------------------------------
(***************************************************************************)
(* The server's handlers.                                                  *)
(***************************************************************************)
At(h, op, step) == calls[h].op = op /\ calls[h].step = step
GoTo(h, step) == calls' = [calls EXCEPT ![h].step = step]
\* requireSession: the session its cookie names is neither revoked nor expired.
HasSession(h) == calls[h].session # 0 /\ sessions[calls[h].session]
Outside == UNCHANGED <<tabs, holder, commands, preset, known, spent>>

\* consumeSetupToken, one transaction that locks the row.
TakeToken(h) ==
    LET t == calls[h].token
    IN /\ At(h, "setup", "sent")
       /\ IF account.token = t /\ t # None
          THEN /\ account' = [account EXCEPT !.token = None]
               /\ opened' = [opened EXCEPT ![t] = @ + 1]
               /\ GoTo(h, "open")
          ELSE GoTo(h, "failed") /\ UNCHANGED <<account, opened>>
       /\ UNCHANGED <<keys, ceremonies, sessions, stored, mixed, writes, apart>> /\ Outside

\* createSession: the cookie goes out with the answer.
OpenSession(h) ==
    /\ calls[h].step = "open" /\ Len(sessions) < MaxSessions
    /\ sessions' = Append(sessions, TRUE)
    /\ calls' = [calls EXCEPT ![h].session = Len(sessions) + 1,
                              ![h].step = IF calls[h].op = "login" THEN "mark" ELSE "answered"]
    /\ UNCHANGED <<account, keys, ceremonies, history>> /\ Outside

\* storeChallenge, with the passkeys known: a browser's options are for all of them.
Challenge(h, kind) ==
    /\ Len(ceremonies) < MaxCeremonies
    /\ ceremonies' = Append(ceremonies, [kind |-> kind, open |-> TRUE, keys |-> Live, uses |-> 0])
    /\ calls' = [calls EXCEPT ![h].step = "answered", ![h].ceremony = Len(ceremonies) + 1]

RegistrationOptions(h) ==
    /\ At(h, "options", "sent")
    /\ IF HasSession(h) THEN Challenge(h, "registration")
       ELSE GoTo(h, "failed") /\ UNCHANGED ceremonies
    /\ UNCHANGED <<account, keys, sessions, history>> /\ Outside

\* Without a passkey there is nothing to sign in with: the answer is 409.
LoginOptions(h) ==
    /\ At(h, "loginOptions", "sent")
    /\ IF Live # {} THEN Challenge(h, "authentication")
       ELSE GoTo(h, "conflict") /\ UNCHANGED ceremonies
    /\ UNCHANGED <<account, keys, sessions, history>> /\ Outside

\* loginWithPasskey reads the passkey before it takes the challenge.
ReadKey(h) ==
    /\ At(h, "login", "sent")
    /\ GoTo(h, IF keys[calls[h].key] = "live" THEN "consume" ELSE "failed")
    /\ UNCHANGED <<server, history>> /\ Outside

\* Mutant: a challenge that was consumed is taken once more.
TakeChallengeAgain(h) ==
    LET c == calls[h].ceremony
        login == calls[h].op = "login"
        kind == IF login THEN "authentication" ELSE "registration"
    IN /\ At(h, "login", "consume") \/ At(h, "register", "sent")
       /\ IF (login \/ HasSession(h)) /\ ceremonies[c].kind = kind
          THEN /\ ceremonies' = [ceremonies EXCEPT ![c].open = FALSE, ![c].uses = @ + 1]
               /\ GoTo(h, IF login THEN "open" ELSE "insert")
          ELSE GoTo(h, "failed") /\ UNCHANGED ceremonies
       /\ UNCHANGED <<account, keys, sessions, history>> /\ Outside

\* consumeChallenge, then the verification of what the authenticator signed.
TakeChallenge(h) ==
    LET c == calls[h].ceremony
        login == calls[h].op = "login"
        kind == IF login THEN "authentication" ELSE "registration"
    IN /\ At(h, "login", "consume") \/ At(h, "register", "sent")
       /\ IF (login \/ HasSession(h)) /\ ceremonies[c].open /\ ceremonies[c].kind = kind
          THEN /\ ceremonies' = [ceremonies EXCEPT ![c].open = FALSE, ![c].uses = @ + 1]
               /\ GoTo(h, IF login THEN "open" ELSE "insert")
          ELSE GoTo(h, "failed") /\ UNCHANGED ceremonies
       /\ UNCHANGED <<account, keys, sessions, history>> /\ Outside

\* registerPasskey's INSERT: a passkey known already is no longer revoked.
InsertKey(h) ==
    /\ At(h, "register", "insert")
    /\ keys' = [keys EXCEPT ![calls[h].key] = "live"]
    /\ GoTo(h, "mark")
    /\ UNCHANGED <<account, ceremonies, sessions, history>> /\ Outside

\* markEnrolled, whatever has become of the passkey; a registration calls it twice.
MarkEnrolled(h) ==
    /\ calls[h].step \in {"mark", "markAgain"}
    /\ account' = [account EXCEPT !.enrolled = TRUE]
    /\ mixed' = (mixed \/ account.token # None)
    /\ GoTo(h, IF At(h, "register", "mark") THEN "markAgain" ELSE "answered")
    /\ UNCHANGED <<keys, ceremonies, sessions, stored, opened, writes, apart>> /\ Outside

\* GET session answers with the account's palette.
ReadSession(h) ==
    /\ At(h, "session", "sent")
    /\ IF HasSession(h)
       THEN calls' = [calls EXCEPT ![h].step = "answered", ![h].palette = account.palette,
                                   ![h].at = writes]
       ELSE GoTo(h, "failed")
    /\ UNCHANGED <<server, history>> /\ Outside

RevokeSession(h) ==
    /\ At(h, "logout", "sent")
    /\ IF HasSession(h)
       THEN sessions' = [sessions EXCEPT ![calls[h].session] = FALSE] /\ GoTo(h, "answered")
       ELSE GoTo(h, "failed") /\ UNCHANGED sessions
    /\ UNCHANGED <<account, keys, ceremonies, history>> /\ Outside

StorePalette(h) ==
    /\ At(h, "palette", "sent")
    /\ IF HasSession(h)
       THEN /\ account' = [account EXCEPT !.palette = calls[h].palette]
            /\ writes' = writes + 1
            /\ apart' = [d \in Devices |-> d # calls[h].device]
            /\ GoTo(h, "answered")
       ELSE GoTo(h, "failed") /\ UNCHANGED <<account, writes, apart>>
    /\ UNCHANGED <<keys, ceremonies, sessions, stored, opened, mixed>> /\ Outside

Handle(h) ==
    \/ TakeToken(h) \/ OpenSession(h) \/ RegistrationOptions(h) \/ LoginOptions(h)
    \/ ReadKey(h) \/ TakeChallenge(h) \/ InsertKey(h) \/ MarkEnrolled(h)
    \/ ReadSession(h) \/ RevokeSession(h) \/ StorePalette(h)

\* Of time; cleanupSessions deletes what is over, which nobody can tell apart.
Expire ==
    /\ \/ \E s \in DOMAIN sessions :
            /\ sessions[s] /\ sessions' = [sessions EXCEPT ![s] = FALSE]
            /\ UNCHANGED ceremonies
       \/ \E c \in DOMAIN ceremonies :
            /\ ceremonies[c].open /\ ceremonies' = [ceremonies EXCEPT ![c].open = FALSE]
            /\ UNCHANGED sessions
    /\ UNCHANGED <<account, keys, calls, history>> /\ Outside
-----------------------------------------------------------------------------
(***************************************************************************)
(* Starting a server, and the reset command.                               *)
(***************************************************************************)
Fresh == {t \in Tokens : stored[t] = 0}
Running(a, step) == commands[a].step = step
Besides == UNCHANGED <<ceremonies, sessions, tabs, holder, preset, opened, writes, apart>>
DoneWith(a) == commands' = [commands EXCEPT ![a] = NoCommand]

Run(a, op) ==
    /\ commands[a] = NoCommand /\ spent.commands < MaxCommands
    /\ spent' = [spent EXCEPT !.commands = @ + 1]
    /\ commands' = [commands EXCEPT ![a] =
           [op |-> op, token |-> None,
            step |-> IF op = "revokeAll" THEN "revoke" ELSE IF preset # None THEN "preset" ELSE "read"]]
    /\ UNCHANGED <<account, keys, calls, known, stored, mixed>> /\ Besides

\* The token of the configuration is stored unless one is, or the owner is enrolled.
StorePreset(a) ==
    /\ Running(a, "preset")
    /\ IF ~account.enrolled /\ account.token = None
       THEN /\ account' = [account EXCEPT !.token = preset]
            /\ stored' = [stored EXCEPT ![preset] = @ + 1]
       ELSE UNCHANGED <<account, stored>>
    /\ DoneWith(a)
    /\ UNCHANGED <<keys, calls, known, spent, mixed>> /\ Besides

\* bootstrapStatus, in a statement before the one that stores a token.
ReadStatus(a) ==
    /\ Running(a, "read")
    /\ commands' = [commands EXCEPT ![a] =
           IF ~account.enrolled /\ account.token = None THEN [@ EXCEPT !.step = "store"]
           ELSE IF @.op = "setupToken" THEN [@ EXCEPT !.step = "rotate"] ELSE NoCommand]
    /\ UNCHANGED <<account, keys, calls, known, spent, stored, mixed>> /\ Besides

\* Issuing a token leaves enrolled_at as it is, whatever it has become since.
StoreToken(a) ==
    /\ Running(a, "store")
    /\ \E t \in Fresh :
        /\ account' = [account EXCEPT !.token = t]
        /\ stored' = [stored EXCEPT ![t] = 1]
        /\ commands' = [commands EXCEPT ![a].step = "print", ![a].token = t]
    /\ mixed' = (mixed \/ account.enrolled)
    /\ UNCHANGED <<keys, calls, known, spent>> /\ Besides

\* Mutant: rotating a token leaves the owner enrolled.
RotateTokenOnly(a) ==
    /\ Running(a, "rotate")
    /\ \E t \in Fresh :
        /\ account' = [account EXCEPT !.token = t]
        /\ stored' = [stored EXCEPT ![t] = 1]
        /\ commands' = [commands EXCEPT ![a] =
              IF @.op = "revokeAll" THEN NoCommand ELSE [@ EXCEPT !.step = "print", !.token = t]]
    /\ UNCHANGED <<keys, calls, known, spent, mixed>> /\ Besides

\* rotateSetupToken: without a token stored, the owner has to enroll again.  After
\* revoke-all the new token is not shown: setup-token rotates it once more.
RotateToken(a) ==
    /\ Running(a, "rotate")
    /\ \E t \in Fresh :
        /\ account' = [account EXCEPT !.token = t,
                          !.enrolled = IF account.token = None THEN FALSE ELSE @]
        /\ stored' = [stored EXCEPT ![t] = 1]
        /\ commands' = [commands EXCEPT ![a] =
              IF @.op = "revokeAll" THEN NoCommand ELSE [@ EXCEPT !.step = "print", !.token = t]]
    /\ UNCHANGED <<keys, calls, known, spent, mixed>> /\ Besides

\* A server says its token only to an owner who is not enrolled.
PrintToken(a) ==
    /\ Running(a, "print")
    /\ known' = IF commands[a].op = "start" /\ account.enrolled THEN known
                ELSE known \cup {commands[a].token}
    /\ DoneWith(a)
    /\ UNCHANGED <<account, keys, calls, spent, stored, mixed>> /\ Besides

\* A handler that will mark the owner as enrolled, by a passkey it has read or written.
SignsIn(h) == \/ calls[h].op = "login" /\ calls[h].step \in {"consume", "open", "mark"}
              \/ At(h, "register", "mark") \/ At(h, "register", "markAgain")

RevokeKeys(a) ==
    /\ Running(a, "revoke")
    /\ keys' = [k \in Keys |-> IF keys[k] = "live" THEN "revoked" ELSE keys[k]]
    /\ commands' = [commands EXCEPT ![a].step = "rotate"]
    /\ mixed' = (mixed \/ \E h \in Slots : SignsIn(h))
    /\ UNCHANGED <<account, calls, known, spent, stored>> /\ Besides

Administer(a) ==
    \/ \E op \in {"start", "setupToken", "revokeAll"} : Run(a, op)
    \/ StorePreset(a) \/ ReadStatus(a) \/ StoreToken(a) \/ RotateToken(a)
    \/ PrintToken(a) \/ RevokeKeys(a)
-----------------------------------------------------------------------------
(***************************************************************************)
(* The browsers.                                                           *)
(***************************************************************************)
FreeSlots == {h \in Slots : calls[h].op = "none"}
Away == UNCHANGED <<server, commands, preset, known, stored, opened, mixed, writes>>

NextSlot == CHOOSE f \in FreeSlots : \A g \in FreeSlots : f <= g

\* A request with the cookie of the browser; tab is what the browser then shows.
Ask(d, tab, call) ==
    /\ FreeSlots # {}
    /\ LET h == NextSlot
       IN /\ calls' = [calls EXCEPT ![h] = [call EXCEPT !.step = "sent", !.device = d,
                                                      !.session = tab.cookie]]
          /\ tabs' = [tabs EXCEPT ![d] =
                IF call.op = "palette" THEN [tab EXCEPT !.saving = h]
                ELSE [tab EXCEPT !.call = h, !.step = "wait", !.ceremony = 0]]

Call(op) == [NoCall EXCEPT !.op = op]
Idles(d) == tabs[d].step = "idle"
Show(d, tab) == tabs' = [tabs EXCEPT ![d] = tab]

\* refresh, when the page is opened and after each change of who is signed in.
Refresh(d) ==
    /\ tabs[d].step = "load"
    /\ Ask(d, tabs[d], Call("session"))
    /\ UNCHANGED <<holder, spent, apart>> /\ Away

\* The buttons of the login and the enroll screen, and of the account settings.
Press(d) ==
    /\ Idles(d)
    /\ \/ /\ tabs[d].state = "unauthenticated" /\ tabs[d].view = "login"
          /\ Ask(d, tabs[d], Call("loginOptions"))
       \/ /\ tabs[d].state = "unauthenticated" /\ tabs[d].view = "enroll"
          /\ \E t \in known : Ask(d, tabs[d], [Call("setup") EXCEPT !.token = t])
       \/ /\ tabs[d].state = "authenticated"
          /\ Ask(d, tabs[d], Call("logout"))
    /\ UNCHANGED <<holder, spent, apart>> /\ Away

\* createPasskey: an authenticator makes no second passkey where it holds one.
CreatePasskey(d) ==
    /\ tabs[d].step = "create"
    /\ {k \in Keys : holder[k] = d} \cap ceremonies[tabs[d].ceremony].keys = {}
    /\ \E k \in {j \in Keys : holder[j] = None} :
         /\ holder' = [holder EXCEPT ![k] = d]
         /\ Ask(d, tabs[d], [Call("register") EXCEPT !.key = k, !.ceremony = tabs[d].ceremony])
    /\ UNCHANGED <<spent, apart>> /\ Away

AssertPasskey(d) ==
    /\ tabs[d].step = "assert"
    /\ \E k \in {j \in Keys : holder[j] = d} \cap ceremonies[tabs[d].ceremony].keys :
         Ask(d, tabs[d], [Call("login") EXCEPT !.key = k, !.ceremony = tabs[d].ceremony])
    /\ UNCHANGED <<holder, spent, apart>> /\ Away

\* The authenticator has no passkey to offer, or one it must not make, or is cancelled.
Cancel(d) ==
    /\ tabs[d].step \in {"create", "assert"}
    /\ Show(d, [tabs[d] EXCEPT !.step = "idle", !.ceremony = 0])
    /\ UNCHANGED <<calls, holder, spent, apart>> /\ Away

Heard(d) == [tabs[d] EXCEPT !.call = 0, !.step = "idle"]
Release(h) == calls' = [calls EXCEPT ![h] = NoCall]

\* An answer.  A session just opened goes on to the passkey, or to the account.
HearAnswer(d) ==
    LET h == tabs[d].call
        call == calls[h]
        tab == Heard(d)
    IN /\ h # 0 /\ call.step = "answered"
       /\ CASE call.op = "session" ->
                 /\ Show(d, [tab EXCEPT !.state = "authenticated", !.palette = call.palette,
                        !.saves = [i \in DOMAIN tab.saves |-> [tab.saves[i] EXCEPT !.after = TRUE]]])
                 /\ apart' = [apart EXCEPT ![d] = call.at # writes \/ tab.saves # << >>]
            [] call.op = "setup" ->
                 Show(d, [tab EXCEPT !.cookie = call.session, !.step = "enroll"]) /\ UNCHANGED apart
            [] call.op = "options" ->
                 Show(d, [tab EXCEPT !.ceremony = call.ceremony, !.step = "create"]) /\ UNCHANGED apart
            [] call.op = "loginOptions" ->
                 Show(d, [tab EXCEPT !.ceremony = call.ceremony, !.step = "assert"]) /\ UNCHANGED apart
            [] call.op = "login" ->
                 Show(d, [tab EXCEPT !.cookie = call.session, !.step = "load"]) /\ UNCHANGED apart
            [] call.op = "register" ->
                 Show(d, [tab EXCEPT !.view = "login", !.step = "load"]) /\ UNCHANGED apart
            [] call.op = "logout" ->
                 Show(d, [tab EXCEPT !.cookie = 0, !.view = "login", !.step = "load"]) /\ UNCHANGED apart
       /\ Release(h)
       /\ UNCHANGED <<holder, spent>> /\ Away

AskOptions(d) ==
    /\ tabs[d].step = "enroll"
    /\ Ask(d, tabs[d], Call("options"))
    /\ UNCHANGED <<holder, spent, apart>> /\ Away

\* 409: no passkey is enrolled, which is the only way to the enroll screen.
HearConflict(d) ==
    /\ tabs[d].call # 0 /\ calls[tabs[d].call].step = "conflict"
    /\ Show(d, [Heard(d) EXCEPT !.view = "enroll"])
    /\ Release(tabs[d].call)
    /\ UNCHANGED <<holder, spent, apart>> /\ Away

\* The connection of a request breaks, and its handler goes on.
Breaks(h) ==
    /\ spent.failures < MaxFailures
    /\ spent' = [spent EXCEPT !.failures = @ + 1]
    /\ calls' = [calls EXCEPT ![h].device = None]

\* An error: logging out and refreshing have their way all the same.
HearFailure(d) ==
    LET h == tabs[d].call
        tab == Heard(d)
    IN /\ h # 0
       /\ (calls[h].step = "failed" /\ Release(h) /\ UNCHANGED spent) \/ Breaks(h)
       /\ Show(d, CASE calls[h].op = "session" ->
                         [tab EXCEPT !.state = "unauthenticated", !.palette = <<Black>>]
                    [] calls[h].op = "logout" -> [tab EXCEPT !.view = "login", !.step = "load"]
                    [] OTHER -> tab)
       /\ UNCHANGED <<holder, apart>> /\ Away

\* The request of a setup token or of a ceremony arrives once more, from a browser or a proxy
\* that saw its connection break; the answer to this one is not waited for.
Resend(h) ==
    /\ calls[h].op \in {"setup", "register", "login"} /\ FreeSlots # {}
    /\ spent.failures < MaxFailures
    /\ spent' = [spent EXCEPT !.failures = @ + 1]
    /\ calls' = [calls EXCEPT ![NextSlot] = [calls[h] EXCEPT !.step = "sent", !.device = None]]
    /\ UNCHANGED <<tabs, holder, apart>> /\ Away

\* Nobody waits for the answer of a handler that is done.
Forget(h) ==
    /\ calls[h].op # "none" /\ calls[h].device = None
    /\ calls[h].step \in {"answered", "failed", "conflict"}
    /\ Release(h)
    /\ UNCHANGED <<tabs, holder, spent, apart>> /\ Away

\* The server stops: what it had not written yet is not written, nobody is answered.
Crash ==
    /\ spent.failures < MaxFailures
    /\ spent' = [spent EXCEPT !.failures = @ + 1]
    /\ calls' = [h \in Slots |-> IF calls[h].op = "none" THEN NoCall ELSE [calls[h] EXCEPT !.step = "failed"]]
    /\ apart' = [d \in Devices |-> apart[d] \/ \E h \in Slots :
                     At(h, "palette", "answered") /\ calls[h].device = d]
    /\ UNCHANGED <<tabs, holder>> /\ Away
-----------------------------------------------------------------------------
(***************************************************************************)
(* The palette: an edit is shown at once, and saves go out one by one.     *)
(***************************************************************************)
Moved(palette, from, to) == InsertAt(RemoveAt(palette, from), to, palette[from])

\* Mutant: a color may be added that the palette has.
EditedTwice(palette) ==
    {Append(palette, c) : c \in {c \in Colors : Len(palette) < MaxColors}}
        \cup {RemoveAt(palette, i) : i \in {i \in DOMAIN palette : Len(palette) > 1}}

\* DrawingColorPalette: a color is added, removed, or dragged to another place.
Edited(palette) ==
    {Append(palette, c) : c \in {c \in Colors : Len(palette) < MaxColors /\ ~Contains(palette, c)}}
        \cup {RemoveAt(palette, i) : i \in {i \in DOMAIN palette : Len(palette) > 1}}
        \cup ({Moved(palette, i, j) : i, j \in DOMAIN palette} \ {palette})

\* after: the palette it would go back to may never have been saved, since an earlier
\* save failed, or the session was read again before it was sent.
EditPalette(d) ==
    /\ tabs[d].state = "authenticated" /\ spent.edits < MaxEdits
    /\ spent' = [spent EXCEPT !.edits = @ + 1]
    /\ \E next \in Edited(tabs[d].palette) :
         Show(d, [tabs[d] EXCEPT !.palette = next,
                    !.saves = Append(@, [palette |-> next, before |-> tabs[d].palette,
                              after |-> \E i \in DOMAIN @ : @[i].after])])
    /\ UNCHANGED <<calls, holder, apart>> /\ Away

\* Mutant: saves do not wait for one another, and the latest may arrive first.
SendSaveUnqueued(d) ==
    /\ tabs[d].saves # << >> /\ tabs[d].saving = 0
    /\ \E i \in DOMAIN tabs[d].saves :
         Ask(d, tabs[d], [Call("palette") EXCEPT !.palette = tabs[d].saves[i].palette])
    /\ UNCHANGED <<holder, spent, apart>> /\ Away

SendSave(d) ==
    /\ tabs[d].saves # << >> /\ tabs[d].saving = 0
    /\ Ask(d, tabs[d], [Call("palette") EXCEPT !.palette = tabs[d].saves[1].palette])
    /\ UNCHANGED <<holder, spent, apart>> /\ Away

\* Only the latest save has a say in what is shown.
SaveEnds(d, palette, failed) ==
    LET rest == Tail(tabs[d].saves)
    IN Show(d, [tabs[d] EXCEPT !.saving = 0,
           !.saves = IF rest = << >> \/ ~failed THEN rest ELSE [rest EXCEPT ![1].after = TRUE],
           !.palette = IF rest = << >> THEN palette ELSE @])

HearSaved(d) ==
    LET h == tabs[d].saving
    IN /\ h # 0 /\ calls[h].step = "answered"
       /\ SaveEnds(d, calls[h].palette, FALSE)
       /\ Release(h)
       /\ UNCHANGED <<holder, spent, apart>> /\ Away

\* The latest save puts back what was shown when it was made.
HearUnsaved(d) ==
    LET h == tabs[d].saving
        save == tabs[d].saves[1]
        lost == calls[h].step = "answered"
    IN /\ h # 0
       /\ (calls[h].step = "failed" /\ Release(h) /\ UNCHANGED spent) \/ Breaks(h)
       /\ SaveEnds(d, save.before, TRUE)
       /\ apart' = [apart EXCEPT ![d] = @ \/ lost \/ (Len(tabs[d].saves) = 1 /\ save.after)]
       /\ UNCHANGED holder /\ Away

\* The page is closed and opened: its requests are no longer waited for.
Reload(d) ==
    /\ tabs[d].step # "load" /\ spent.failures < MaxFailures
    /\ spent' = [spent EXCEPT !.failures = @ + 1]
    /\ calls' = [h \in Slots |-> IF calls[h].device = d THEN [calls[h] EXCEPT !.device = None] ELSE calls[h]]
    /\ Show(d, [NewTab EXCEPT !.cookie = tabs[d].cookie])
    /\ UNCHANGED <<holder, apart>> /\ Away

Browse(d) ==
    \/ Refresh(d) \/ Press(d) \/ CreatePasskey(d) \/ AssertPasskey(d) \/ Cancel(d)
    \/ HearAnswer(d) \/ AskOptions(d) \/ HearConflict(d) \/ HearFailure(d) \/ Reload(d)
    \/ EditPalette(d) \/ SendSave(d) \/ HearSaved(d) \/ HearUnsaved(d)

Next ==
    \/ \E d \in Devices : Browse(d)
    \/ \E h \in Slots : Handle(h) \/ Resend(h) \/ Forget(h)
    \/ \E a \in Admins : Administer(a)
    \/ Expire \/ Crash

Spec == Init /\ [][Next]_vars
-----------------------------------------------------------------------------
\* A palette has between one and MaxColors colors, none of them twice.
IsPalette(palette) ==
    /\ palette \in Seq(Colors) /\ Len(palette) \in 1..MaxColors
    /\ \A i, j \in DOMAIN palette : palette[i] = palette[j] => i = j

(***************************************************************************)
(* The rows are of their types, palettes are ones the account may have,    *)
(* and a browser waits for a handler of its own.                           *)
(***************************************************************************)
TypeOK ==
    /\ DOMAIN account = {"enrolled", "token", "palette"}
    /\ account.enrolled \in BOOLEAN /\ account.token \in AllTokens \cup {None}
    /\ IsPalette(account.palette)
    /\ keys \in [Keys -> {"none", "live", "revoked"}]
    /\ sessions \in Seq(BOOLEAN)
    /\ known \subseteq AllTokens
    /\ DOMAIN tabs = Devices /\ DOMAIN calls = Slots
    /\ \A d \in Devices :
         /\ IsPalette(tabs[d].palette)
         /\ \A i \in DOMAIN tabs[d].saves : IsPalette(tabs[d].saves[i].palette)
         /\ (tabs[d].call # 0) <=> (tabs[d].step = "wait")
         /\ \A h \in {tabs[d].call, tabs[d].saving} \ {0} : calls[h].device = d

(***************************************************************************)
(* "A token can be used exactly once even under concurrent requests"       *)
(* (auth/bootstrap.ts), and so can a ceremony's challenge: whatever        *)
(* requests overlap, break off or arrive twice, a token opens as many      *)
(* sessions at most as times it has been stored - a generated one once, a  *)
(* configured one again by each start before enrollment - and a challenge  *)
(* is answered by one registration or one sign-in.                         *)
(***************************************************************************)
UsedOnce ==
    /\ \A t \in AllTokens : opened[t] <= stored[t]
    /\ \A c \in DOMAIN ceremonies : ceremonies[c].uses <= 1

(***************************************************************************)
(* The owner is not locked out.  An owner who counts as enrolled gets no   *)
(* setup token from a start of the server, so some passkey must then work, *)
(* wherever enrollment, signing in, starts and resets break off on the     *)
(* way, but for three things.  Between the two statements of revoke-all    *)
(* the passkeys are gone and the account still counts as enrolled, for     *)
(* good if the command dies there.  An account that was marked as enrolled *)
(* while a token was stored is left enrolled by revoke-all.  And a sign-in *)
(* may mark the account after its passkey was revoked.                     *)
(***************************************************************************)
Revoking == \E a \in Admins : commands[a].op = "revokeAll" /\ commands[a].step = "rotate"

EnrolledHasKey == account.enrolled /\ ~Revoking /\ ~mixed => Live # {}

(***************************************************************************)
(* Once a signed-in browser has nothing under way, the palette it shows is *)
(* the account's, whatever was edited meanwhile and whichever saves failed *)
(* or broke off, except after four things, and until it next saves or      *)
(* reads its session: another browser saved; the answer to a save was      *)
(* lost; the latest save failed after another one had, and put back a      *)
(* palette that was never saved; or its session, which it reads again      *)
(* after a sign-out that failed, was being read while a save of its own    *)
(* was under way, and the answer showed the older palette over it.         *)
(***************************************************************************)
PaletteSettles ==
    \A d \in Devices :
        LET tab == tabs[d]
        IN tab.state = "authenticated" /\ tab.step = "idle" /\ tab.saves = << >> /\ ~apart[d]
            => tab.palette = account.palette
===============================================================================
