----------------------------- MODULE AdminAccess -----------------------------
(***************************************************************************)
(* Access to the admin API and to the key that it hands out: the guards of   *)
(* app.ts in their order (localOnly, requireAdmin, the limit on logins), the *)
(* stateless tokens of lib/adminAuth.ts, the check of the configuration at   *)
(* the start, the unified key of db/index.ts, and the dashboard, which keeps  *)
(* its token in localStorage, drops it at any 401 and asks for a password.   *)
(*                                                                          *)
(* One tab of one browser, beside others that may ask for a new key too.     *)
(* Time is a count of ticks, kept as ages: of a                              *)
(* token, of the window of the login limit, of past guesses.  A token is the  *)
(* password that signed it and its age.                                      *)
(***************************************************************************)
EXTENDS Integers, FiniteSets

CONSTANTS
    Passwords,    \* values that ADMIN_PASSWORD may have
    Unset,        \* it is unset
    Networks,     \* where else than on the machine a browser may be: "tailscale", "remote"
    Window,       \* WINDOW_MS in ticks
    MaxAttempts,  \* MAX_ATTEMPTS
    TTL,          \* TOKEN_TTL_MS in ticks
    MaxGuesses,   \* bound: wrong passwords typed
    MaxKeys,      \* bound: regenerations of the unified key, one key for each
    MaxRestarts,  \* bound: restarts of the server
    MaxFaults     \* bound: UPDATEs that fail, or whose answer is lost

ASSUME UnsetAssumption == Unset \notin Passwords
ASSUME NetworkAssumption == Networks \subseteq {"tailscale", "remote"}
ASSUME NumberAssumption ==
    /\ {Window, TTL, MaxGuesses, MaxKeys, MaxRestarts, MaxFaults} \subseteq Nat
    /\ MaxAttempts \in Nat \ {0}

Posts == 1..MaxKeys
NoKey == -1    \* the pages have not got one yet

VARIABLES
    config,    \* ADMIN_PASSWORD, and whom ADMIN_ALLOW_... let in
    up,        \* does the server run?
    attempts,  \* the login limit's entry for the browser's address
    row,       \* the unified key in table settings
    unified,   \* unifiedApiKey, the copy that requests are compared with
    peer,      \* where the browser is
    phase,     \* of AuthGate
    stored,    \* the token in localStorage
    login,     \* the request of LoginScreen
    get,       \* the request for the unified key
    posts,     \* the requests for a new one, of this tab and of others
    mine,      \* those whose answer this tab waits for
    held,      \* the one whose end the button waits for, or 0
    shown,     \* the unified key that the pages show and use
    doubt,     \* has the key changed, without an answer to the tab, since the server read
               \* it for the pages, or was that request given up?
    crossed,   \* the regenerations that another has come between
    parted,    \* has the last to end been crossed, or an UPDATE lost its answer?
    guesses,   \* of each wrong password typed, the age of its comparison; Window + 1: too
               \* old, before a login that succeeded, or not compared
    wrong, restarts, faults

keyVars == <<row, unified, crossed, parted>>
serverVars == <<config, up, keyVars>>
mountVars == <<mine, held>>
tabVars == <<phase, stored, mountVars, shown, doubt>>
guardVars == <<attempts, guesses>>
boundVars == <<wrong, restarts, faults>>
vars == <<serverVars, peer, tabVars, login, get, posts, guardVars, boundVars>>

Peers == {"loopback"} \cup Networks
Configs == [password : Passwords \cup {Unset}, allow : {"none"} \cup Networks]

NoToken == [pw |-> Unset, age |-> 0]
Tokens == [pw : Passwords \cup {Unset}, age : 0..(TTL + 1)]

\* A request: how far it is, the token it carries, the answer and the key in it.
Idle == [at |-> "none", token |-> NoToken, result |-> "none", key |-> 0]
Sent(token) == [at |-> "sent", token |-> token, result |-> "none", key |-> 0]
Answered(q, result) == [q EXCEPT !.at = "answered", !.result = result]
Replied(result, key) == [at |-> "answered", token |-> NoToken, result |-> result, key |-> key]
At(place) == [Idle EXCEPT !.at = place]

NoEntry == [count |-> 0, age |-> 0]
Forgotten == [g \in 1..MaxGuesses |-> Window + 1]

\* assertRemoteAccessIsSafe.
Safe(c) == c.password # Unset \/ c.allow = "none"

\* localOnly.
LetIn(c) ==
    \/ c.allow = "remote"
    \/ peer = "loopback"
    \/ c.allow = "tailscale" /\ peer = "tailscale"

\* verifyToken.
Valid(token) == token.pw = config.password /\ token.age <= TTL

\* requireAdmin.
Admitted(token) == config.password = Unset \/ Valid(token)

Requests == [at : {"none", "sent", "updating", "updated", "answered", "done"},
             token : Tokens,
             result : {"none", "ok", "denied", "failed"},
             key : 0..MaxKeys]

TypeOK ==
    /\ config \in Configs /\ up \in BOOLEAN /\ peer \in Peers
    /\ attempts \in [count : 0..MaxAttempts, age : 0..(Window + 1)]
    /\ {row, unified} \subseteq 0..MaxKeys /\ shown \in {NoKey} \cup 0..MaxKeys
    /\ phase \in {"loading", "asked", "login", "ready", "away"} /\ doubt \in BOOLEAN
    /\ stored \in Tokens
    /\ {login, get} \subseteq Requests /\ posts \in [Posts -> Requests]
    /\ mine \subseteq Posts /\ held \in {0} \cup Posts
    /\ crossed \subseteq Posts /\ parted \in BOOLEAN
    /\ guesses \in [1..MaxGuesses -> 0..(Window + 1)]
    /\ wrong \in 0..MaxGuesses
    /\ restarts \in 0..MaxRestarts /\ faults \in 0..MaxFaults

Init ==
    /\ config \in {c \in Configs : Safe(c)}
    /\ up = TRUE /\ peer \in Peers
    /\ attempts = NoEntry
    /\ row = 0 /\ unified = 0 /\ crossed = {} /\ parted = FALSE
    /\ phase = "loading" /\ stored = NoToken /\ shown = NoKey /\ doubt = FALSE
    /\ login = Idle /\ get = Idle
    /\ posts = [k \in Posts |-> Idle] /\ mine = {} /\ held = 0
    /\ guesses = Forgotten
    /\ wrong = 0 /\ restarts = 0 /\ faults = 0

-----------------------------------------------------------------------------
\* AuthGate.

\* The page is loaded; also once more, when it has stayed blank.
Load ==
    /\ phase = "loading"
    /\ phase' = "asked"
    /\ UNCHANGED <<serverVars, peer, stored, mountVars, shown, doubt, login, get, posts, guardVars,
                   boundVars>>

\* The tab is loaded anew: it forgets all but the token, also what it has sent.
Reload ==
    /\ phase \in {"ready", "away"}
    /\ phase' = "loading"
    /\ shown' = NoKey /\ get' = Idle
    /\ mine' = {} /\ held' = 0
    /\ UNCHANGED <<serverVars, peer, stored, doubt, login, posts, guardVars, boundVars>>

\* The pages with the key come up: its query is sent, unless it goes on from before.
\* After five minutes without them the cache has forgotten the key.
Mount(token) ==
    /\ phase' = "ready"
    /\ \/ get.at = "none" /\ get' = Sent(token) /\ shown' \in {shown, NoKey}
       \/ get.at # "none" /\ UNCHANGED <<get, shown>>

\* The user goes to another page of the dashboard, and comes back.
Leave ==
    /\ phase = "ready"
    /\ phase' = "away"
    /\ held' = 0
    /\ UNCHANGED <<serverVars, peer, stored, mine, shown, doubt, login, get, posts, guardVars,
                   boundVars>>
Return ==
    /\ phase = "away"
    /\ Mount(stored)
    /\ UNCHANGED <<serverVars, peer, stored, mountVars, doubt, login, posts, guardVars, boundVars>>

\* fetchAuthStatus: an answer that is not ok counts as no need to log in.
Status ==
    /\ phase = "asked" /\ up
    /\ IF LetIn(config) /\ config.password # Unset /\ stored = NoToken
         THEN phase' = "login" /\ UNCHANGED <<get, shown>>
         ELSE Mount(stored)
    /\ UNCHANGED <<serverVars, peer, stored, mountVars, doubt, login, posts, guardVars, boundVars>>

\* submit of LoginScreen.
Submit(pw) ==
    /\ phase = "login" /\ login.at = "none"
    /\ login' = Sent([pw |-> pw, age |-> 0])
    /\ UNCHANGED <<serverVars, peer, tabVars, get, posts, guardVars, boundVars>>

SubmitRight == config.password # Unset /\ Submit(config.password)
SubmitAny == config.password = Unset /\ \E pw \in Passwords : Submit(pw)
SubmitWrong ==
    /\ wrong < MaxGuesses
    /\ wrong' = wrong + 1
    /\ \E pw \in Passwords : pw # config.password /\ login' = Sent([pw |-> pw, age |-> 0])
    /\ phase = "login" /\ login.at = "none"
    /\ UNCHANGED <<serverVars, peer, tabVars, get, posts, guardVars, restarts, faults>>

\* What loginRateLimit makes of its entry, and whether it lets the request pass.
WindowOver == attempts = NoEntry \/ attempts.age > Window
\* Mutant: one attempt too many.
Limited_offByOne == ~WindowOver /\ attempts.count > MaxAttempts
Limited == ~WindowOver /\ attempts.count >= MaxAttempts
\* Mutant: an attempt that is refused starts the window again.
EntryAfter_sliding ==
    IF WindowOver THEN [count |-> 1, age |-> 0]
    ELSE [count |-> IF Limited THEN attempts.count ELSE attempts.count + 1, age |-> 0]
EntryAfter ==
    CASE WindowOver -> [count |-> 1, age |-> 0]
      [] Limited -> attempts
      [] OTHER -> [attempts EXCEPT !.count = @ + 1]

\* POST /api/auth/login.
Forbidden ==
    /\ ~LetIn(config)
    /\ login' = Answered(login, "failed")
    /\ UNCHANGED guardVars
TooMany ==
    /\ LetIn(config) /\ Limited
    /\ attempts' = EntryAfter
    /\ login' = Answered(login, "failed")
    /\ UNCHANGED guesses
Right ==
    /\ LetIn(config) /\ ~Limited /\ config.password \in {Unset, login.token.pw}
    /\ attempts' = NoEntry
    /\ guesses' = Forgotten
    /\ login' = Answered(IF config.password = Unset THEN [login EXCEPT !.token = NoToken]
                         ELSE login, "ok")
\* It is the last one typed: LoginScreen has one request at a time.
Wrong ==
    /\ LetIn(config) /\ ~Limited /\ config.password \notin {Unset, login.token.pw}
    /\ attempts' = EntryAfter
    /\ guesses' = [guesses EXCEPT ![wrong] = 0]
    /\ login' = Answered(login, "failed")

CheckLogin ==
    /\ up /\ login.at = "sent"
    /\ Forbidden \/ TooMany \/ Right \/ Wrong
    /\ UNCHANGED <<serverVars, peer, tabVars, get, posts, boundVars>>

\* The answer to a login: a token is kept, and with or without one the pages come up.
LoginAnswer ==
    /\ login.at = "answered"
    /\ login' = Idle
    /\ IF login.result # "ok" THEN UNCHANGED <<phase, stored, get, shown>>
       ELSE /\ stored' = IF login.token = NoToken THEN stored ELSE login.token
            /\ Mount(stored')
    /\ UNCHANGED <<serverVars, peer, mountVars, doubt, posts, guardVars, boundVars>>

-----------------------------------------------------------------------------
\* The unified key.

\* The query is sent again when the window gets the focus.
FetchKey ==
    /\ phase = "ready" /\ get.at = "none"
    /\ get' = Sent(stored)
    /\ UNCHANGED <<serverVars, peer, tabVars, login, posts, guardVars, boundVars>>

NextPost(k) == posts[k].at = "none" /\ \A j \in 1..(k - 1) : posts[j].at # "none"

\* The button, disabled while the mutation of the mounted page is pending, and only then.
Regenerate(k) ==
    /\ phase = "ready" /\ NextPost(k)
    /\ \A j \in Posts : j = held => posts[j].at = "done"
    /\ posts' = [posts EXCEPT ![k] = Sent(stored)]
    /\ mine' = mine \cup {k} /\ held' = k
    /\ UNCHANGED <<serverVars, peer, phase, stored, shown, doubt, login, get, guardVars, boundVars>>

\* The button of another tab, with the token of the same localStorage.
RegenerateElsewhere(k) ==
    /\ NextPost(k)
    /\ posts' = [posts EXCEPT ![k] = Sent(stored)]
    /\ UNCHANGED <<serverVars, peer, tabVars, login, get, guardVars, boundVars>>

\* What the guards of /api make of a request: 403, 401, or on to its handler.
Guarded(q) ==
    CASE ~LetIn(config) -> "failed" [] ~Admitted(q.token) -> "denied" [] OTHER -> "ok"

\* GET /api/settings/api-key.
ServeGet ==
    /\ up /\ get.at = "sent"
    /\ get' = Replied(Guarded(get), unified)
    /\ doubt' = FALSE
    /\ UNCHANGED <<serverVars, peer, phase, stored, mountVars, shown, login, posts, guardVars,
                   boundVars>>

\* POST /api/settings/api-key/regenerate up to the UPDATE.
ServePost(k) ==
    /\ up /\ posts[k].at = "sent"
    /\ posts' = [posts EXCEPT ![k] = IF Guarded(@) = "ok" THEN At("updating")
                                     ELSE Replied(Guarded(@), 0)]
    /\ UNCHANGED <<serverVars, peer, tabVars, login, get, guardVars, boundVars>>

\* Those between their UPDATE and what follows it.
Halfway == {k \in Posts : posts[k].at = "updated"}

\* regenerateUnifiedKey: the row first, the copy when the UPDATE is done.  It may
\* fail, or commit and lose its answer: the handler throws either way.
\* Mutant: the copy is set together with sending the UPDATE.
UpdateRow_copyFirst(k) ==
    /\ posts[k].at = "updating"
    /\ unified' = k
    /\ \/ row' = k /\ posts' = [posts EXCEPT ![k] = At("updated")] /\ UNCHANGED faults
       \/ /\ faults < MaxFaults /\ faults' = faults + 1
          /\ row' = row /\ posts' = [posts EXCEPT ![k] = Replied("failed", 0)]
    /\ UNCHANGED <<config, up, crossed, parted, peer, tabVars, login, get, guardVars, wrong,
                   restarts>>
RowWritten(k) ==
    /\ row' = k
    /\ crossed' = IF Halfway = {} THEN crossed ELSE crossed \cup Halfway \cup {k}
UpdateRow(k) ==
    /\ posts[k].at = "updating"
    /\ \/ /\ RowWritten(k)
          /\ posts' = [posts EXCEPT ![k] = At("updated")]
          /\ UNCHANGED <<faults, parted>>
       \/ /\ faults < MaxFaults /\ faults' = faults + 1
          /\ posts' = [posts EXCEPT ![k] = Replied("failed", 0)]
          /\ \/ UNCHANGED <<row, crossed, parted>>
             \/ RowWritten(k) /\ parted' = TRUE
    /\ UNCHANGED <<config, up, unified, peer, tabVars, login, get, guardVars, wrong, restarts>>

SetCopy(k) ==
    /\ posts[k].at = "updated"
    /\ unified' = k
    /\ parted' = (k \in crossed)
    /\ doubt' = (doubt \/ k \notin mine)
    /\ posts' = [posts EXCEPT ![k] = Replied("ok", 0)]
    /\ UNCHANGED <<config, up, row, crossed, peer, phase, stored, mountVars, shown, login, get,
                   guardVars, boundVars>>

\* apiFetch: any 401 drops the token, whichever token the request had, and
\* AuthGate shows the login screen.
Unauthorized == phase' = "login" /\ held' = 0 /\ stored' = NoToken

\* A query that has failed is tried again, or given up.
GetAnswer ==
    /\ get.at = "answered"
    /\ \/ /\ get.result = "denied"
          /\ Unauthorized
          /\ get' = Idle /\ UNCHANGED <<shown, doubt>>
       \/ /\ get.result = "ok"
          /\ shown' = get.key
          /\ get' = Idle /\ UNCHANGED <<phase, held, stored, doubt>>
       \/ /\ get.result = "failed"
          /\ \/ get' = Sent(stored) /\ UNCHANGED doubt
             \/ get' = Idle /\ doubt' = TRUE
          /\ UNCHANGED <<phase, held, stored, shown>>
    /\ UNCHANGED <<serverVars, peer, mine, login, posts, guardVars, boundVars>>

\* onSuccess: the key is fetched again, instead of a fetch that is under way.  While no
\* page is there nothing is fetched; and a fetch that is under way is kept, although
\* it may have read the key before, if no page is there or none has had a key yet.
\* Mutant: a fetch that is under way is taken to be good enough.
Invalidated_joins ==
    /\ get' = IF phase = "ready" /\ get.at = "none" THEN Sent(stored) ELSE get
    /\ UNCHANGED doubt
Invalidated ==
    \/ /\ phase = "ready" /\ (get.at = "none" \/ shown # NoKey)
       /\ get' = Sent(stored) /\ UNCHANGED doubt
    \/ /\ phase # "ready" \/ (get.at # "none" /\ shown = NoKey)
       /\ doubt' = (doubt \/ get.at = "answered") /\ UNCHANGED get

\* A 401 to another tab takes the token from this one too.
PostAnswer(k) ==
    /\ posts[k].at = "answered"
    /\ posts' = [posts EXCEPT ![k] = At("done")]
    /\ \/ /\ posts[k].result = "denied" /\ k \in mine
          /\ Unauthorized /\ UNCHANGED <<get, doubt>>
       \/ /\ posts[k].result = "denied" /\ k \notin mine
          /\ stored' = NoToken /\ UNCHANGED <<phase, held, get, doubt>>
       \/ /\ posts[k].result = "ok" /\ k \in mine
          /\ Invalidated /\ UNCHANGED <<phase, held, stored>>
       \/ /\ posts[k].result = "failed" \/ (posts[k].result = "ok" /\ k \notin mine)
          /\ UNCHANGED <<phase, held, stored, get, doubt>>
    /\ UNCHANGED <<serverVars, peer, mine, shown, login, guardVars, boundVars>>

-----------------------------------------------------------------------------
\* The process ends, and starts with a configuration that may be another one, or
\* refuses to.  Requests under way fail; an UPDATE that is under way may still be done.
Cut(q) == IF q.at \in {"none", "answered", "done"} THEN q ELSE Replied("failed", 0)

Restart ==
    /\ restarts < MaxRestarts
    /\ restarts' = restarts + 1
    /\ config' \in Configs
    /\ up' = Safe(config')
    /\ row' \in {row} \cup {k \in Posts : posts[k].at = "updating"}
    /\ unified' = row' /\ parted' = FALSE
    /\ attempts' = NoEntry
    /\ guesses' = Forgotten
    /\ phase' = IF phase = "asked" THEN "loading" ELSE phase
    /\ doubt' = (doubt \/ unified' # unified)
    /\ login' = Cut(login) /\ get' = Cut(get)
    /\ posts' = [k \in Posts |-> Cut(posts[k])]
    /\ UNCHANGED <<crossed, peer, stored, mountVars, shown, wrong, faults>>

\* While the server is down, every request fails, and a page that is loaded stays blank.
NoServer ==
    /\ ~up
    /\ \/ get.at = "sent" /\ get' = Cut(get) /\ UNCHANGED <<phase, login, posts>>
       \/ \E k \in Posts :
            /\ posts[k].at = "sent" /\ posts' = [posts EXCEPT ![k] = Cut(@)]
            /\ UNCHANGED <<phase, login, get>>
       \/ login.at = "sent" /\ login' = Cut(login) /\ UNCHANGED <<phase, get, posts>>
       \/ phase = "asked" /\ phase' = "loading" /\ UNCHANGED <<login, get, posts>>
    /\ UNCHANGED <<serverVars, peer, stored, mountVars, shown, doubt, guardVars, boundVars>>

Older(token) ==
    IF token = NoToken THEN token ELSE [token EXCEPT !.age = IF @ > TTL THEN @ ELSE @ + 1]

Tick ==
    /\ attempts' = IF attempts = NoEntry THEN attempts
                   ELSE [attempts EXCEPT !.age = IF @ > Window THEN @ ELSE @ + 1]
    /\ guesses' = [g \in 1..MaxGuesses |->
                     IF guesses[g] > Window THEN guesses[g] ELSE guesses[g] + 1]
    /\ stored' = Older(stored)
    /\ login' = IF login.at = "answered" THEN [login EXCEPT !.token = Older(@)] ELSE login
    /\ get' = [get EXCEPT !.token = Older(@)]
    /\ posts' = [k \in Posts |-> [posts[k] EXCEPT !.token = Older(@)]]
    /\ UNCHANGED <<serverVars, peer, phase, mountVars, shown, doubt, boundVars>>

TabStep ==
    Load \/ Status \/ LoginAnswer \/ GetAnswer \/ \E k \in Posts : PostAnswer(k)
ServerStep ==
    CheckLogin \/ ServeGet \/ \E k \in Posts : ServePost(k) \/ UpdateRow(k) \/ SetCopy(k)
UserStep ==
    \/ SubmitRight \/ SubmitAny \/ SubmitWrong
    \/ Reload \/ Leave \/ Return \/ FetchKey
    \/ \E k \in Posts : Regenerate(k) \/ RegenerateElsewhere(k)

Next == TabStep \/ ServerStep \/ UserStep \/ NoServer \/ Restart \/ Tick

\* The event loops go on, time passes, a user who sees the login screen types the
\* right password again and again.
Fairness ==
    /\ WF_vars(Load) /\ WF_vars(Status) /\ WF_vars(LoginAnswer)
    /\ WF_vars(CheckLogin) /\ WF_vars(Tick)
    /\ SF_vars(SubmitRight) /\ SF_vars(SubmitAny)

Spec == Init /\ [][Next]_vars
FairSpec == Spec /\ Fairness

-----------------------------------------------------------------------------
\* Properties.

\* Of wrong passwords, fewer than twice the limit are compared within any interval
\* as long as the window, as far as no login succeeds in between: the windows are
\* fixed, and two that follow each other can be used up end to start.
GuessBound ==
    /\ TypeOK
    /\ Cardinality({g \in 1..MaxGuesses : guesses[g] <= Window}) <= 2 * MaxAttempts - 1

\* Unless a regeneration is halfway, the key that requests are compared with is the
\* one in the table, which the next start will read: failed UPDATEs, restarts halfway
\* and admins who are logged out do not part them.  What does is named: an UPDATE whose
\* answer is lost, and regenerations that cross.  The next one that runs alone, or
\* a restart, brings them together again.
UnifiedKeyStored == Halfway = {} /\ ~parted => unified = row

\* A page that waits for nothing uses the key that the server accepts, also if it was
\* fetching it while a new one was made, or came up again after a login or a visit to
\* another page.  What keeps it from that has a name: its fetch was given up, or had
\* read the key when another tab or a restart changed it or when it could not be
\* replaced.
ShownKeyAccepted ==
    /\ phase = "ready" /\ get.at = "none" /\ ~doubt
    /\ \A k \in mine : posts[k].at = "done"
    => shown = unified

\* A user at the login screen gets back to the pages by typing the right password,
\* however many wrong ones came before: the limit delays but never locks out.
SignsIn ==
    (phase = "login" /\ LetIn(config) /\ up) ~> (phase = "ready" \/ ~LetIn(config) \/ ~up)
=============================================================================
