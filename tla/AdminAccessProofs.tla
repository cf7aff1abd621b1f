--------------------------- MODULE AdminAccessProofs ---------------------------
(***************************************************************************)
(* Theorems about AdminAccess, for any passwords, configurations, limits and  *)
(* bounds: what alone parts the unified key that requests are compared with   *)
(* from the one in the table, and the pages from the key that is compared,    *)
(* and that the guesses of the password within a window are bounded.         *)
(***************************************************************************)
EXTENDS AdminAccess, FiniteSetTheorems, TLAPS

Entries == [count : 0..MaxAttempts, age : 0..(Window + 1)]
Results == {"none", "ok", "denied", "failed"}

-----------------------------------------------------------------------------
\* The constants.

LEMMA Numbers ==
    /\ Window \in Nat /\ TTL \in Nat /\ MaxGuesses \in Nat /\ MaxKeys \in Nat
    /\ MaxRestarts \in Nat /\ MaxFaults \in Nat
    /\ MaxAttempts \in Nat /\ MaxAttempts >= 1
BY NumberAssumption

\* The requests, tokens and entries that actions make are well typed.

LEMMA NoTokenTyped == NoToken \in Tokens
BY Numbers DEF NoToken, Tokens

LEMMA IdleTyped == Idle \in Requests
BY Numbers, NoTokenTyped DEF Idle, Requests

LEMMA SentTyped ==
    ASSUME NEW token \in Tokens
    PROVE  /\ Sent(token) \in Requests
           /\ Sent(token).at = "sent" /\ Sent(token).token = token
           /\ Sent(token).result = "none" /\ Sent(token).key = 0
BY Numbers DEF Sent, Requests

LEMMA AnsweredTyped ==
    ASSUME NEW q \in Requests, NEW r \in Results
    PROVE  /\ Answered(q, r) \in Requests
           /\ Answered(q, r).at = "answered" /\ Answered(q, r).result = r
           /\ Answered(q, r).token = q.token /\ Answered(q, r).key = q.key
BY DEF Answered, Requests, Results

LEMMA RepliedTyped ==
    ASSUME NEW r \in Results, NEW k \in 0..MaxKeys
    PROVE  /\ Replied(r, k) \in Requests
           /\ Replied(r, k).at = "answered" /\ Replied(r, k).result = r
           /\ Replied(r, k).key = k
BY NoTokenTyped DEF Replied, Requests, Results

LEMMA AtTyped ==
    /\ At("updating") \in Requests /\ At("updating").at = "updating"
    /\ At("updated") \in Requests /\ At("updated").at = "updated"
    /\ At("done") \in Requests /\ At("done").at = "done"
BY Numbers, NoTokenTyped DEF At, Idle, Requests

LEMMA CutTyped ==
    ASSUME NEW q \in Requests
    PROVE  /\ Cut(q) \in Requests
           /\ Cut(q).at \in {"none", "answered", "done"}
           /\ q.at \in {"none", "answered", "done"} => Cut(q) = q
           /\ q.at \notin {"none", "answered", "done"} =>
                  Cut(q).at = "answered" /\ Cut(q).result = "failed"
BY Numbers, RepliedTyped DEF Cut, Results

LEMMA OlderTyped ==
    ASSUME NEW token \in Tokens
    PROVE  Older(token) \in Tokens /\ Older(token).pw = token.pw
BY Numbers DEF Older, Tokens

LEMMA AgedTyped ==
    ASSUME NEW q \in Requests
    PROVE  LET r == [q EXCEPT !.token = Older(@)]
           IN  r \in Requests /\ r.at = q.at /\ r.result = q.result /\ r.key = q.key
BY OlderTyped DEF Requests

LEMMA NoEntryTyped == NoEntry \in Entries
BY Numbers DEF NoEntry, Entries

LEMMA EntryAfterTyped ==
    ASSUME attempts \in Entries
    PROVE  EntryAfter \in Entries
<1>1. CASE WindowOver
  BY <1>1, Numbers DEF EntryAfter, Entries
<1>2. CASE ~WindowOver /\ Limited
  BY <1>2 DEF EntryAfter
<1>3. CASE ~WindowOver /\ ~Limited
  <2>1. attempts.count + 1 \in 0..MaxAttempts
    BY <1>3, Numbers DEF Limited, Entries
  <2> QED
    BY <1>3, <2>1 DEF EntryAfter, Entries
<1> QED
  BY <1>1, <1>2, <1>3

LEMMA GuardedTyped == \A q : Guarded(q) \in Results \ {"none"}
BY DEF Guarded, Results

-----------------------------------------------------------------------------
\* Typing.

\* The request of the pages and what they show, after the pages have come up.
LEMMA MountType ==
    ASSUME TypeOK, NEW token \in Tokens, Mount(token)
    PROVE  /\ phase' = "ready" /\ get' \in Requests /\ shown' \in {NoKey} \cup 0..MaxKeys
           /\ (get' = get /\ shown' = shown /\ get.at # "none") \/ get'.at = "sent"
BY SentTyped DEF Mount, TypeOK

LEMMA TabType ==
    ASSUME TypeOK, TabStep
    PROVE  TypeOK'
<1> USE DEF TypeOK
<1>1. CASE Load
  BY <1>1 DEF Load, serverVars, keyVars, mountVars, guardVars, boundVars
<1>2. CASE Status
  <2>1. UNCHANGED <<serverVars, peer, stored, mountVars, doubt, login, posts, guardVars,
                    boundVars>>
    BY <1>2 DEF Status
  <2>2. /\ phase' \in {"login", "ready"} /\ get' \in Requests
        /\ shown' \in {NoKey} \cup 0..MaxKeys
    BY <1>2, MountType DEF Status
  <2> QED
    BY <2>1, <2>2 DEF serverVars, keyVars, mountVars, guardVars, boundVars
<1>3. CASE LoginAnswer
  <2>1. /\ login' = Idle /\ stored' \in {stored, login.token}
        /\ UNCHANGED <<serverVars, peer, mountVars, doubt, posts, guardVars, boundVars>>
    BY <1>3 DEF LoginAnswer
  <2>2. stored' \in Tokens
    BY <2>1 DEF Requests
  <2>3. /\ phase' \in {phase, "ready"} /\ get' \in Requests
        /\ shown' \in {NoKey} \cup 0..MaxKeys
    BY <1>3, <2>2, MountType DEF LoginAnswer
  <2> QED
    BY <2>1, <2>2, <2>3, IdleTyped DEF serverVars, keyVars, mountVars, guardVars, boundVars
<1>4. CASE GetAnswer
  <2>1. get' \in {Idle, Sent(stored)} /\ shown' \in {shown, get.key} /\ doubt' \in {doubt, TRUE}
    BY <1>4 DEF GetAnswer
  <2>2. /\ phase' \in {phase, "login"} /\ stored' \in {stored, NoToken}
        /\ held' \in {held, 0}
    BY <1>4 DEF GetAnswer, Unauthorized
  <2>3. UNCHANGED <<serverVars, peer, mine, login, posts, guardVars, boundVars>>
    BY <1>4 DEF GetAnswer
  <2>4. shown' \in {NoKey} \cup 0..MaxKeys
    BY <2>1 DEF Requests
  <2>5. get' \in Requests
    BY <2>1, SentTyped, IdleTyped
  <2>6. stored' \in Tokens
    BY <2>2, NoTokenTyped
  <2> QED
    BY <2>1, <2>2, <2>3, <2>4, <2>5, <2>6 DEF serverVars, keyVars, guardVars, boundVars
<1>5. ASSUME NEW k \in Posts, PostAnswer(k) PROVE TypeOK'
  <2>1. posts' \in [Posts -> Requests]
    BY <1>5, AtTyped DEF PostAnswer
  <2>2. get' \in {get, Sent(stored)} /\ doubt' \in BOOLEAN
    BY <1>5 DEF PostAnswer, Invalidated
  <2>3. /\ phase' \in {phase, "login"} /\ stored' \in {stored, NoToken}
        /\ held' \in {held, 0}
    BY <1>5 DEF PostAnswer, Unauthorized
  <2>4. UNCHANGED <<serverVars, peer, mine, shown, login, guardVars, boundVars>>
    BY <1>5 DEF PostAnswer
  <2>5. get' \in Requests
    BY <2>2, SentTyped
  <2>6. stored' \in Tokens
    BY <2>3, NoTokenTyped
  <2> QED
    BY <2>1, <2>2, <2>3, <2>4, <2>5, <2>6 DEF serverVars, keyVars, guardVars, boundVars
<1> QED
  BY <1>1, <1>2, <1>3, <1>4, <1>5 DEF TabStep

\* The outcomes of an UPDATE: done, failed, or done with its answer lost.
LEMMA UpdateCases ==
    ASSUME TypeOK, NEW k \in Posts, UpdateRow(k)
    PROVE  /\ posts[k].at = "updating"
           /\ \/ /\ RowWritten(k) /\ posts' = [posts EXCEPT ![k] = At("updated")]
                 /\ faults' = faults /\ parted' = parted
              \/ /\ posts' = [posts EXCEPT ![k] = Replied("failed", 0)]
                 /\ faults < MaxFaults /\ faults' = faults + 1
                 /\ row' = row /\ crossed' = crossed /\ parted' = parted
              \/ /\ posts' = [posts EXCEPT ![k] = Replied("failed", 0)]
                 /\ faults < MaxFaults /\ faults' = faults + 1
                 /\ RowWritten(k) /\ parted' = TRUE
BY DEF UpdateRow

LEMMA ServerType ==
    ASSUME TypeOK, ServerStep
    PROVE  TypeOK'
<1> USE DEF TypeOK
<1>1. CASE CheckLogin
  <2>1. attempts' \in {attempts, NoEntry, EntryAfter}
    BY <1>1 DEF CheckLogin, Forbidden, TooMany, Right, Wrong, guardVars
  <2>2. guesses' \in [1..MaxGuesses -> 0..(Window + 1)]
    <3>1. guesses' \in {guesses, Forgotten, [guesses EXCEPT ![wrong] = 0]}
      BY <1>1 DEF CheckLogin, Forbidden, TooMany, Right, Wrong, guardVars
    <3>2. Forgotten \in [1..MaxGuesses -> 0..(Window + 1)]
      BY Numbers DEF Forgotten
    <3>3. [guesses EXCEPT ![wrong] = 0] \in [1..MaxGuesses -> 0..(Window + 1)]
      <4>1. 0 \in 0..(Window + 1)
        BY Numbers
      <4> QED
        BY <4>1
    <3> QED
      BY <3>1, <3>2, <3>3
  <2>3. login' \in Requests /\ login'.at = "answered"
    <3>1. \/ \E r \in Results : login' = Answered(login, r)
          \/ login' = Answered([login EXCEPT !.token = NoToken], "ok")
      BY <1>1 DEF CheckLogin, Forbidden, TooMany, Right, Wrong, Results
    <3>2. [login EXCEPT !.token = NoToken] \in Requests
      BY NoTokenTyped DEF Requests
    <3> QED
      BY <3>1, <3>2, AnsweredTyped DEF Results
  <2>4. UNCHANGED <<serverVars, peer, tabVars, get, posts, boundVars>>
    BY <1>1 DEF CheckLogin
  <2> QED
    BY <2>1, <2>2, <2>3, <2>4, NoEntryTyped, EntryAfterTyped DEF Entries, serverVars,
       keyVars, tabVars, mountVars, boundVars
<1>2. CASE ServeGet
  <2>1. get' \in Requests /\ doubt' = FALSE
    BY <1>2, RepliedTyped, GuardedTyped DEF ServeGet
  <2>2. UNCHANGED <<serverVars, peer, phase, stored, mountVars, shown, login, posts,
                    guardVars, boundVars>>
    BY <1>2 DEF ServeGet
  <2> QED
    BY <2>1, <2>2 DEF serverVars, keyVars, mountVars, guardVars, boundVars
<1>3. ASSUME NEW k \in Posts, ServePost(k) PROVE TypeOK'
  <2>1. UNCHANGED <<serverVars, peer, tabVars, login, get, guardVars, boundVars>>
    BY <1>3 DEF ServePost
  <2>2. posts' \in [Posts -> Requests]
    <3>1. 0 \in 0..MaxKeys
      BY Numbers
    <3>2. At("updating") \in Requests /\ Replied(Guarded(posts[k]), 0) \in Requests
      BY <3>1, AtTyped, RepliedTyped, GuardedTyped
    <3> QED
      BY <1>3, <3>2 DEF ServePost
  <2> QED
    BY <2>1, <2>2 DEF serverVars, keyVars, tabVars, mountVars, guardVars, boundVars
<1>4. ASSUME NEW k \in Posts, UpdateRow(k) PROVE TypeOK'
  <2>1. UNCHANGED <<config, up, unified, peer, tabVars, login, get, guardVars, wrong,
                    restarts>>
    BY <1>4 DEF UpdateRow
  <2>2. posts' \in [Posts -> Requests]
    <3>1. 0 \in 0..MaxKeys /\ "failed" \in Results
      BY Numbers DEF Results
    <3>2. At("updated") \in Requests /\ Replied("failed", 0) \in Requests
      BY <3>1, AtTyped, RepliedTyped
    <3> QED
      BY <1>4, <3>2, UpdateCases
  <2>3. /\ row' \in {row, k} /\ crossed' \in {crossed, crossed \cup Halfway \cup {k}}
        /\ parted' \in {parted, TRUE}
    BY <1>4, UpdateCases DEF RowWritten
  <2>4. row' \in 0..MaxKeys /\ crossed' \subseteq Posts /\ parted' \in BOOLEAN
    <3>1. k \in 0..MaxKeys
      BY Numbers DEF Posts
    <3>2. Halfway \subseteq Posts
      BY DEF Halfway
    <3>3. row' \in 0..MaxKeys
      BY <2>3, <3>1
    <3>4. crossed' \subseteq Posts
      BY <2>3, <3>2
    <3>5. parted' \in BOOLEAN
      BY <2>3
    <3> QED
      BY <3>3, <3>4, <3>5
  <2>5. faults' \in 0..MaxFaults
    <3>1. faults' = faults \/ (faults < MaxFaults /\ faults' = faults + 1)
      BY <1>4, UpdateCases
    <3>2. faults \in 0..MaxFaults
      OBVIOUS
    <3> QED
      BY <3>1, <3>2, Numbers
  <2> QED
    BY <2>1, <2>2, <2>4, <2>5 DEF tabVars, mountVars, guardVars
<1>5. ASSUME NEW k \in Posts, SetCopy(k) PROVE TypeOK'
  <2>1. UNCHANGED <<config, up, row, crossed, peer, phase, stored, mountVars, shown, login,
                    get, guardVars, boundVars>>
    BY <1>5 DEF SetCopy
  <2>2. unified' \in 0..MaxKeys /\ parted' \in BOOLEAN /\ doubt' \in BOOLEAN
    BY <1>5, Numbers DEF SetCopy, Posts
  <2>3. posts' \in [Posts -> Requests]
    <3>1. Replied("ok", 0) \in Requests
      BY Numbers, RepliedTyped DEF Results
    <3> QED
      BY <1>5, <3>1 DEF SetCopy
  <2> QED
    BY <2>1, <2>2, <2>3 DEF mountVars, guardVars, boundVars
<1> QED
  BY <1>1, <1>2, <1>3, <1>4, <1>5 DEF ServerStep

LEMMA UserType ==
    ASSUME TypeOK, UserStep
    PROVE  TypeOK'
<1> USE DEF TypeOK
<1>1. ASSUME NEW pw \in Passwords, login' = Sent([pw |-> pw, age |-> 0])
      PROVE  login' \in Requests /\ login'.at = "sent"
  <2>1. [pw |-> pw, age |-> 0] \in Tokens
    BY Numbers DEF Tokens
  <2> QED
    BY <1>1, <2>1, SentTyped
<1>2. CASE SubmitRight \/ SubmitAny
  <2>1. PICK pw \in Passwords : Submit(pw)
    BY <1>2 DEF SubmitRight, SubmitAny, Configs
  <2> QED
    BY <1>1, <2>1 DEF Submit, serverVars, keyVars, tabVars, mountVars, guardVars, boundVars
<1>3. CASE SubmitWrong
  <2>1. login' \in Requests /\ login'.at = "sent"
    BY <1>1, <1>3 DEF SubmitWrong
  <2>2. wrong' \in 0..MaxGuesses
    BY <1>3, Numbers DEF SubmitWrong
  <2>3. UNCHANGED <<serverVars, peer, tabVars, get, posts, guardVars, restarts, faults>>
    BY <1>3 DEF SubmitWrong
  <2> QED
    BY <2>1, <2>2, <2>3 DEF serverVars, keyVars, tabVars, mountVars, guardVars
<1>4. CASE FetchKey
  BY <1>4, SentTyped DEF FetchKey, serverVars, keyVars, tabVars, mountVars, guardVars,
     boundVars
<1>5. ASSUME NEW k \in Posts, Regenerate(k) \/ RegenerateElsewhere(k) PROVE TypeOK'
  <2>1. posts' \in [Posts -> Requests]
    <3>1. posts' = [posts EXCEPT ![k] = Sent(stored)]
      BY <1>5 DEF Regenerate, RegenerateElsewhere
    <3> QED
      BY <3>1, SentTyped
  <2>2. /\ mine' \subseteq Posts /\ held' \in {0} \cup Posts
        /\ UNCHANGED <<serverVars, peer, phase, stored, shown, doubt, login, get, guardVars,
                       boundVars>>
    BY <1>5 DEF Regenerate, RegenerateElsewhere, tabVars, mountVars
  <2> QED
    BY <2>1, <2>2 DEF serverVars, keyVars, guardVars, boundVars
<1>6. CASE Reload
  BY <1>6, IdleTyped DEF Reload, serverVars, keyVars, guardVars, boundVars
<1>7. CASE Leave
  BY <1>7 DEF Leave, serverVars, keyVars, guardVars, boundVars
<1>8. CASE Return
  <2>1. phase' = "ready" /\ get' \in Requests /\ shown' \in {NoKey} \cup 0..MaxKeys
    BY <1>8, MountType DEF Return
  <2>2. UNCHANGED <<serverVars, peer, stored, mountVars, doubt, login, posts, guardVars,
                    boundVars>>
    BY <1>8 DEF Return
  <2> QED
    BY <2>1, <2>2 DEF serverVars, keyVars, mountVars, guardVars, boundVars
<1> QED
  BY <1>2, <1>3, <1>4, <1>5, <1>6, <1>7, <1>8 DEF UserStep

LEMMA FaultType ==
    ASSUME TypeOK, NoServer \/ Restart
    PROVE  TypeOK'
<1> USE DEF TypeOK
<1>1. CASE NoServer
  <2>1. login' \in {login, Cut(login)} /\ get' \in {get, Cut(get)}
    BY <1>1 DEF NoServer
  <2>2. phase' \in {phase, "loading"}
    BY <1>1 DEF NoServer
  <2>3. UNCHANGED <<serverVars, peer, stored, mountVars, shown, doubt, guardVars, boundVars>>
    BY <1>1 DEF NoServer
  <2>4. posts' \in [Posts -> Requests]
    <3>1. posts' = posts \/ \E k \in Posts : posts' = [posts EXCEPT ![k] = Cut(posts[k])]
      BY <1>1 DEF NoServer
    <3>2. \A k \in Posts : Cut(posts[k]) \in Requests
      BY CutTyped
    <3> QED
      BY <3>1, <3>2
  <2> QED
    BY <2>1, <2>2, <2>3, <2>4, CutTyped DEF serverVars, keyVars, mountVars, guardVars,
       boundVars
<1>2. CASE Restart
  <2>1. /\ login' = Cut(login) /\ get' = Cut(get)
        /\ posts' = [k \in Posts |-> Cut(posts[k])]
    BY <1>2 DEF Restart
  <2>2. phase' \in {phase, "loading"} /\ restarts' \in 0..MaxRestarts
    BY <1>2, Numbers DEF Restart
  <2>3. config' \in Configs /\ unified' = row' /\ attempts' = NoEntry /\ guesses' = Forgotten
    BY <1>2 DEF Restart
  <2>4. up' \in BOOLEAN /\ doubt' \in BOOLEAN /\ parted' \in BOOLEAN
    BY <1>2 DEF Restart, Safe
  <2>5. Forgotten \in [1..MaxGuesses -> 0..(Window + 1)]
    BY Numbers DEF Forgotten
  <2>6. row' \in 0..MaxKeys
    BY <1>2, Numbers DEF Restart, Posts
  <2>7. posts' \in [Posts -> Requests]
    BY <2>1, CutTyped
  <2>8. UNCHANGED <<crossed, peer, stored, mountVars, shown, wrong, faults>>
    BY <1>2 DEF Restart
  <2> QED
    BY <2>1, <2>2, <2>3, <2>4, <2>5, <2>6, <2>7, <2>8, CutTyped, NoEntryTyped
       DEF Entries, mountVars
<1> QED
  BY <1>1, <1>2

LEMMA TickType ==
    ASSUME TypeOK, Tick
    PROVE  TypeOK'
<1> USE DEF TypeOK
<1>1. attempts' \in Entries
  <2>1. attempts \in Entries
    BY DEF Entries
  <2>2. attempts' \in {attempts, [attempts EXCEPT !.age = IF @ > Window THEN @ ELSE @ + 1]}
    BY DEF Tick
  <2>3. (IF attempts.age > Window THEN attempts.age ELSE attempts.age + 1)
            \in 0..(Window + 1)
    BY <2>1, Numbers DEF Entries
  <2> QED
    BY <2>1, <2>2, <2>3 DEF Entries
<1>2. guesses' \in [1..MaxGuesses -> 0..(Window + 1)]
  <2> DEFINE Aged(g) == IF guesses[g] > Window THEN guesses[g] ELSE guesses[g] + 1
  <2>1. \A g \in 1..MaxGuesses : Aged(g) \in 0..(Window + 1)
    BY Numbers
  <2>2. guesses' = [g \in 1..MaxGuesses |-> Aged(g)]
    BY DEF Tick
  <2> HIDE DEF Aged
  <2> QED
    BY <2>1, <2>2
<1>3. stored' \in Tokens
  BY OlderTyped DEF Tick
<1>4. login' \in Requests /\ login'.at = login.at
  BY AgedTyped DEF Tick
<1>5. get' \in Requests
  BY AgedTyped DEF Tick
<1>6. posts' \in [Posts -> Requests]
  <2> DEFINE AgedPost(k) == [posts[k] EXCEPT !.token = Older(@)]
  <2>1. \A k \in Posts : AgedPost(k) \in Requests
    BY AgedTyped
  <2>2. posts' = [k \in Posts |-> AgedPost(k)]
    BY DEF Tick
  <2> HIDE DEF AgedPost
  <2> QED
    BY <2>1, <2>2
<1>7. UNCHANGED <<serverVars, peer, phase, mountVars, shown, doubt, boundVars>>
  BY DEF Tick
<1> QED
  BY <1>1, <1>2, <1>3, <1>4, <1>5, <1>6, <1>7 DEF Entries, serverVars, keyVars, mountVars,
     boundVars

LEMMA TypeStep ==
    ASSUME TypeOK, Next
    PROVE  TypeOK'
BY TabType, ServerType, UserType, FaultType, TickType DEF Next

-----------------------------------------------------------------------------
\* The unified key.

\* While no regeneration is halfway the copy is the row, unless the two are parted; a
\* regeneration that is halfway and has not been crossed is the only one, and the row
\* holds its key.
KeyInv ==
    /\ Halfway = {} /\ ~parted => unified = row
    /\ \A k \in Halfway : k \notin crossed => row = k /\ Halfway = {k}

\* The steps that leave row, copy and the regenerations that are halfway alone.
LEMMA KeyQuiet ==
    ASSUME TypeOK, KeyInv, UNCHANGED keyVars,
           \A k \in Posts : posts'[k].at = "updated" <=> posts[k].at = "updated"
    PROVE  KeyInv'
<1>1. Halfway' = Halfway
  BY DEF Halfway
<1> QED
  BY <1>1 DEF KeyInv, keyVars

LEMMA KeyStep ==
    ASSUME TypeOK, KeyInv, Next
    PROVE  KeyInv'
<1>1. ASSUME UNCHANGED keyVars, NEW k \in Posts, posts'[k].at # "updated",
             posts[k].at # "updated", NEW q, posts' = [posts EXCEPT ![k] = q]
      PROVE  KeyInv'
  <2>1. \A j \in Posts : j # k => posts'[j] = posts[j]
    BY <1>1 DEF TypeOK
  <2> QED
    BY <1>1, <2>1, KeyQuiet
<1>2. CASE Load \/ Status \/ LoginAnswer \/ GetAnswer \/ CheckLogin \/ ServeGet
  BY <1>2, KeyQuiet DEF Load, Status, LoginAnswer, GetAnswer, CheckLogin, ServeGet,
     serverVars
<1>3. ASSUME NEW k \in Posts, PostAnswer(k) PROVE KeyInv'
  <2>1. /\ posts[k].at = "answered" /\ posts' = [posts EXCEPT ![k] = At("done")]
        /\ UNCHANGED keyVars
    BY <1>3 DEF PostAnswer, serverVars
  <2>2. posts'[k].at = "done"
    BY <2>1, AtTyped DEF TypeOK
  <2> QED
    BY <1>1, <2>1, <2>2
<1>4. ASSUME NEW k \in Posts, ServePost(k) PROVE KeyInv'
  <2> DEFINE q == IF Guarded(posts[k]) = "ok" THEN At("updating")
                  ELSE Replied(Guarded(posts[k]), 0)
  <2>1. /\ posts[k].at = "sent" /\ posts' = [posts EXCEPT ![k] = q] /\ UNCHANGED keyVars
    BY <1>4 DEF ServePost, serverVars
  <2>2. q.at \in {"updating", "answered"}
    BY Numbers, AtTyped, RepliedTyped, GuardedTyped
  <2> HIDE DEF q
  <2>3. posts'[k].at # "updated"
    BY <2>1, <2>2 DEF TypeOK
  <2> QED
    BY <1>1, <2>1, <2>3
<1>5. ASSUME NEW k \in Posts, UpdateRow(k) PROVE KeyInv'
  <2>1. posts[k].at = "updating" /\ unified' = unified /\ k \notin Halfway
    BY <1>5 DEF UpdateRow, Halfway
  <2>2. /\ At("updated").at = "updated"
        /\ Replied("failed", 0).at = "answered"
    BY Numbers, AtTyped, RepliedTyped DEF Results
  <2>3. ASSUME RowWritten(k), parted' \in {parted, TRUE},
               Halfway' = Halfway \cup {k} \/ (Halfway' = Halfway /\ parted' = TRUE)
        PROVE  KeyInv'
    <3>1. /\ row' = k
          /\ crossed' = IF Halfway = {} THEN crossed ELSE crossed \cup Halfway \cup {k}
      BY <2>3 DEF RowWritten
    <3>2. CASE Halfway = {}
      BY <2>1, <2>3, <3>1, <3>2 DEF KeyInv
    <3>3. CASE Halfway # {}
      <4>1. Halfway' \subseteq crossed' /\ Halfway' # {}
        BY <2>3, <3>1, <3>3
      <4> QED
        BY <4>1 DEF KeyInv
    <3> QED
      BY <3>2, <3>3
  <2>4. CASE RowWritten(k) /\ posts' = [posts EXCEPT ![k] = At("updated")] /\ parted' = parted
    <3>1. Halfway' = Halfway \cup {k}
      BY <2>2, <2>4 DEF Halfway, TypeOK
    <3> QED
      BY <2>3, <2>4, <3>1
  <2>5. ASSUME posts' = [posts EXCEPT ![k] = Replied("failed", 0)]
        PROVE  Halfway' = Halfway
    BY <2>1, <2>2, <2>5 DEF Halfway, TypeOK
  <2>6. CASE /\ posts' = [posts EXCEPT ![k] = Replied("failed", 0)]
             /\ row' = row /\ crossed' = crossed /\ parted' = parted
    BY <2>1, <2>5, <2>6 DEF KeyInv
  <2>7. CASE /\ posts' = [posts EXCEPT ![k] = Replied("failed", 0)]
             /\ RowWritten(k) /\ parted' = TRUE
    BY <2>3, <2>5, <2>7
  <2> QED
    BY <1>5, <2>4, <2>6, <2>7, UpdateCases
<1>6. ASSUME NEW k \in Posts, SetCopy(k) PROVE KeyInv'
  <2>1. /\ posts[k].at = "updated" /\ unified' = k /\ parted' = (k \in crossed)
        /\ posts' = [posts EXCEPT ![k] = Replied("ok", 0)]
        /\ row' = row /\ crossed' = crossed
    BY <1>6 DEF SetCopy
  <2>2. Replied("ok", 0).at = "answered"
    BY Numbers, RepliedTyped DEF Results
  <2>3. Halfway' = Halfway \ {k} /\ k \in Halfway
    BY <2>1, <2>2 DEF Halfway, TypeOK
  <2>4. CASE k \in crossed
    <3>1. ASSUME NEW j \in Halfway', j \notin crossed PROVE row = j /\ Halfway' = {j}
      <4>1. j \in Halfway /\ j # k
        BY <2>3, <3>1
      <4>2. Halfway = {j}
        BY <3>1, <4>1 DEF KeyInv
      <4> QED
        BY <2>3, <4>1, <4>2
    <3> QED
      BY <2>1, <2>4, <3>1 DEF KeyInv
  <2>5. CASE k \notin crossed
    <3>1. row = k /\ Halfway = {k}
      BY <2>3, <2>5 DEF KeyInv
    <3> QED
      BY <2>1, <2>3, <3>1 DEF KeyInv
  <2> QED
    BY <2>4, <2>5
<1>7. CASE SubmitRight \/ SubmitAny \/ SubmitWrong \/ Reload \/ Leave \/ Return \/ FetchKey
  BY <1>7, KeyQuiet DEF SubmitRight, SubmitAny, SubmitWrong, Submit, Reload, Leave, Return,
     FetchKey, serverVars
<1>8. ASSUME NEW k \in Posts, Regenerate(k) \/ RegenerateElsewhere(k) PROVE KeyInv'
  <2>1. /\ posts[k].at = "none" /\ posts' = [posts EXCEPT ![k] = Sent(stored)]
        /\ UNCHANGED keyVars
    BY <1>8 DEF Regenerate, RegenerateElsewhere, NextPost, serverVars
  <2>2. posts'[k].at = "sent"
    BY <2>1, SentTyped DEF TypeOK
  <2> QED
    BY <1>1, <2>1, <2>2
<1>9. CASE NoServer
  <2>1. UNCHANGED keyVars
    BY <1>9 DEF NoServer, serverVars
  <2>2. CASE posts' = posts
    BY <2>1, <2>2, KeyQuiet
  <2>3. CASE \E k \in Posts : posts[k].at = "sent" /\ posts' = [posts EXCEPT ![k] = Cut(posts[k])]
    <3>1. PICK k \in Posts : posts[k].at = "sent" /\ posts' = [posts EXCEPT ![k] = Cut(posts[k])]
      BY <2>3
    <3>2. posts'[k].at # "updated"
      BY <3>1, CutTyped DEF TypeOK
    <3> QED
      BY <1>1, <2>1, <3>1, <3>2
  <2> QED
    BY <1>9, <2>2, <2>3 DEF NoServer
<1>10. CASE Restart
  <2>1. unified' = row' /\ posts' = [k \in Posts |-> Cut(posts[k])]
    BY <1>10 DEF Restart
  <2>2. Halfway' = {}
    BY <2>1, CutTyped DEF Halfway, TypeOK
  <2> QED
    BY <2>1, <2>2 DEF KeyInv
<1>11. CASE Tick
  <2>1. UNCHANGED keyVars
    BY <1>11 DEF Tick, serverVars
  <2>2. \A k \in Posts : posts'[k].at = posts[k].at
    BY <1>11, AgedTyped DEF Tick, TypeOK
  <2> QED
    BY <2>1, <2>2, KeyQuiet
<1> QED
  BY <1>2, <1>3, <1>4, <1>5, <1>6, <1>7, <1>8, <1>9, <1>10, <1>11
     DEF Next, TabStep, ServerStep, UserStep

\* An answer that the tab has not seen yet will make it fetch the key again.
Unseen == \E k \in mine : posts[k].at = "answered" /\ posts[k].result = "ok"

\* Otherwise what the tab shows, or is about to show, is the key that is compared.
ShownInv ==
    ~doubt /\ ~Unseen =>
        /\ phase = "ready" /\ get.at = "none" => shown = unified
        /\ get.at = "answered" /\ get.result = "ok" => get.key = unified

\* The steps that leave all this alone but for the answers of the tab.
LEMMA ShownQuiet ==
    ASSUME TypeOK, ShownInv, UNCHANGED <<get, shown, doubt, unified>>,
           phase' = "ready" => phase = "ready", Unseen => Unseen'
    PROVE  ShownInv'
BY DEF ShownInv

\* A request of a regeneration moves on, not to an answer that the tab has waited for.
LEMMA UnseenKept ==
    ASSUME TypeOK, NEW k \in Posts, posts[k].at # "answered", mine' = mine,
           NEW q, posts' = [posts EXCEPT ![k] = q]
    PROVE  Unseen => Unseen'
<1>1. \A j \in Posts : j # k => posts'[j] = posts[j]
  BY DEF TypeOK
<1>2. mine \subseteq Posts
  BY DEF TypeOK
<1> QED
  BY <1>1, <1>2 DEF Unseen

LEMMA ShownStep ==
    ASSUME TypeOK, ShownInv, Next
    PROVE  ShownInv'
<1>1. ASSUME get'.at = "sent"
      PROVE  ShownInv'
  BY <1>1 DEF ShownInv
<1>2. ASSUME posts' = posts, mine' = mine
      PROVE  Unseen' = Unseen
  BY <1>2 DEF Unseen
<1>3. CASE Load
  BY <1>2, <1>3, ShownQuiet DEF Load, mountVars, serverVars, keyVars
<1>4. ASSUME NEW token \in Tokens, Mount(token), UNCHANGED <<doubt, posts, mine, unified>>
      PROVE  ShownInv'
  <2>1. CASE get'.at = "sent"
    BY <1>1, <2>1
  <2>2. CASE get' = get /\ shown' = shown /\ get.at # "none"
    BY <1>2, <1>4, <2>2 DEF ShownInv
  <2> QED
    BY <1>4, <2>1, <2>2, MountType
<1>5. CASE Status
  <2>1. UNCHANGED <<doubt, posts, mine, unified>> /\ stored \in Tokens
    BY <1>5 DEF Status, mountVars, serverVars, keyVars, TypeOK
  <2>2. CASE Mount(stored)
    BY <1>4, <2>1, <2>2
  <2>3. CASE phase' = "login" /\ get' = get /\ shown' = shown
    BY <1>2, <2>1, <2>3, ShownQuiet
  <2> QED
    BY <1>5, <2>2, <2>3 DEF Status
<1>6. CASE LoginAnswer
  <2>1. UNCHANGED <<doubt, posts, mine, unified>> /\ stored' \in Tokens
    <3>1. TypeOK'
      BY <1>6, TabType DEF TabStep
    <3> QED
      BY <1>6, <3>1 DEF LoginAnswer, mountVars, serverVars, keyVars, TypeOK
  <2>2. CASE login.result # "ok"
    BY <1>2, <1>6, <2>1, <2>2, ShownQuiet DEF LoginAnswer
  <2>3. CASE login.result = "ok"
    <3>1. PICK token \in Tokens : token = stored'
      BY <2>1
    <3>2. Mount(token)
      BY <1>6, <2>3, <3>1 DEF LoginAnswer
    <3> QED
      BY <1>4, <2>1, <3>2
  <2> QED
    BY <2>2, <2>3
<1>7. CASE GetAnswer
  <2>1. /\ get.at = "answered" /\ posts' = posts /\ mine' = mine /\ unified' = unified
        /\ Idle.at = "none" /\ stored \in Tokens
    BY <1>7 DEF GetAnswer, serverVars, keyVars, Idle, TypeOK
  <2>2. Unseen' = Unseen
    BY <1>2, <2>1
  <2>3. CASE get.result = "denied"
    <3>1. get' = Idle /\ phase' = "login" /\ doubt' = doubt
      BY <1>7, <2>3 DEF GetAnswer, Unauthorized
    <3> QED
      BY <2>1, <3>1 DEF ShownInv
  <2>4. CASE get.result = "ok"
    <3>1. get' = Idle /\ phase' = phase /\ doubt' = doubt /\ shown' = get.key
      BY <1>7, <2>4 DEF GetAnswer
    <3> QED
      BY <2>1, <2>2, <2>4, <3>1 DEF ShownInv
  <2>5. CASE get.result = "failed"
    <3>1. get' = Sent(stored) \/ doubt' = TRUE
      BY <1>7, <2>5 DEF GetAnswer
    <3>2. CASE doubt' = TRUE
      BY <3>2 DEF ShownInv
    <3> QED
      BY <1>1, <2>1, <3>1, <3>2, SentTyped
  <2> QED
    BY <1>7, <2>3, <2>4, <2>5 DEF GetAnswer
<1>8. ASSUME NEW k \in Posts, PostAnswer(k) PROVE ShownInv'
  <2>1. /\ posts[k].at = "answered" /\ posts' = [posts EXCEPT ![k] = At("done")]
        /\ mine' = mine /\ unified' = unified /\ shown' = shown
        /\ mine \subseteq Posts /\ stored \in Tokens
    BY <1>8 DEF PostAnswer, serverVars, keyVars, TypeOK
  <2>2. \A j \in Posts : j # k => posts'[j] = posts[j]
    BY <2>1 DEF TypeOK
  <2>3. k \notin mine \/ posts[k].result # "ok" => (Unseen => Unseen')
    BY <2>1, <2>2 DEF Unseen
  <2>4. CASE posts[k].result = "denied"
    <3>1. phase' \in {phase, "login"} /\ get' = get /\ doubt' = doubt
      BY <1>8, <2>4 DEF PostAnswer, Unauthorized
    <3> QED
      BY <2>1, <2>3, <2>4, <3>1, ShownQuiet
  <2>5. CASE posts[k].result = "ok" /\ k \in mine
    <3>1. Invalidated /\ phase' = phase
      BY <1>8, <2>5 DEF PostAnswer
    <3>2. CASE get' = Sent(stored)
      BY <1>1, <2>1, <3>2, SentTyped
    <3>3. CASE /\ phase # "ready" \/ (get.at # "none" /\ shown = NoKey)
               /\ doubt' = (doubt \/ get.at = "answered") /\ get' = get
      BY <3>1, <3>3 DEF ShownInv
    <3> QED
      BY <3>1, <3>2, <3>3 DEF Invalidated
  <2>6. CASE posts[k].result = "failed" \/ (posts[k].result = "ok" /\ k \notin mine)
    <3>1. phase' = phase /\ get' = get /\ doubt' = doubt
      BY <1>8, <2>6 DEF PostAnswer
    <3> QED
      BY <2>1, <2>3, <2>6, <3>1, ShownQuiet
  <2> QED
    BY <1>8, <2>4, <2>5, <2>6 DEF PostAnswer
<1>9. CASE CheckLogin
  BY <1>2, <1>9, ShownQuiet DEF CheckLogin, tabVars, mountVars, serverVars, keyVars
<1>10. CASE ServeGet
  <2>1. get'.key = unified /\ get'.at = "answered" /\ unified' = unified
    <3>1. unified \in 0..MaxKeys
      BY DEF TypeOK
    <3> QED
      BY <1>10, <3>1, RepliedTyped, GuardedTyped DEF ServeGet, serverVars, keyVars
  <2> QED
    BY <2>1 DEF ShownInv
<1>11. ASSUME NEW k \in Posts, ServePost(k) PROVE ShownInv'
  <2>1. posts[k].at # "answered" /\ mine' = mine
    BY <1>11 DEF ServePost, tabVars, mountVars
  <2>2. Unseen => Unseen'
    BY <1>11, <2>1, UnseenKept DEF ServePost
  <2> QED
    BY <1>11, <2>2, ShownQuiet DEF ServePost, tabVars, serverVars, keyVars
<1>12. ASSUME NEW k \in Posts, UpdateRow(k) PROVE ShownInv'
  <2>1. posts[k].at # "answered" /\ mine' = mine
    BY <1>12 DEF UpdateRow, tabVars, mountVars
  <2>2. Unseen => Unseen'
    BY <1>12, <2>1, UnseenKept DEF UpdateRow
  <2> QED
    BY <1>12, <2>2, ShownQuiet DEF UpdateRow, tabVars
<1>13. ASSUME NEW k \in Posts, SetCopy(k) PROVE ShownInv'
  <2>1. /\ posts' = [posts EXCEPT ![k] = Replied("ok", 0)] /\ mine' = mine
        /\ doubt' = (doubt \/ k \notin mine)
    BY <1>13 DEF SetCopy, mountVars
  <2>2. posts'[k].at = "answered" /\ posts'[k].result = "ok"
    BY <2>1, Numbers, RepliedTyped DEF Results, TypeOK
  <2>3. doubt' \/ Unseen'
    BY <2>1, <2>2 DEF Unseen
  <2> QED
    BY <2>3 DEF ShownInv
<1>14. CASE SubmitRight \/ SubmitAny \/ SubmitWrong
  <2>1. UNCHANGED <<serverVars, tabVars, get, posts>>
    BY <1>14 DEF SubmitRight, SubmitAny, SubmitWrong, Submit
  <2>2. UNCHANGED <<get, shown, doubt, unified, phase, posts, mine>>
    BY <2>1 DEF serverVars, keyVars, tabVars, mountVars
  <2> QED
    BY <1>2, <2>2, ShownQuiet
<1>15. CASE FetchKey
  BY <1>1, <1>15, SentTyped DEF FetchKey, TypeOK
<1>16. ASSUME NEW k \in Posts, Regenerate(k) \/ RegenerateElsewhere(k) PROVE ShownInv'
  <2>1. /\ posts[k].at = "none" /\ posts' = [posts EXCEPT ![k] = Sent(stored)]
        /\ mine \subseteq mine'
        /\ UNCHANGED <<get, shown, doubt, unified, phase>>
    BY <1>16 DEF Regenerate, RegenerateElsewhere, NextPost, serverVars, keyVars, tabVars,
       mountVars
  <2>2. \A j \in Posts : j # k => posts'[j] = posts[j]
    BY <2>1 DEF TypeOK
  <2>3. mine \subseteq Posts
    BY DEF TypeOK
  <2>4. Unseen => Unseen'
    BY <2>1, <2>2, <2>3 DEF Unseen
  <2> QED
    BY <2>1, <2>4, ShownQuiet
<1>17. CASE Reload
  <2>1. phase' = "loading" /\ get'.at = "none"
    BY <1>17 DEF Reload, Idle
  <2> QED
    BY <2>1 DEF ShownInv
<1>18. CASE Leave
  BY <1>2, <1>18, ShownQuiet DEF Leave, serverVars, keyVars
<1>19. CASE Return
  <2>1. UNCHANGED <<doubt, posts, mine, unified>> /\ stored \in Tokens /\ Mount(stored)
    BY <1>19 DEF Return, mountVars, serverVars, keyVars, TypeOK
  <2> QED
    BY <1>4, <2>1
<1>20. CASE NoServer
  <2>1. UNCHANGED <<shown, doubt, unified, mine>> /\ phase' \in {phase, "loading"}
    BY <1>20 DEF NoServer, serverVars, keyVars, mountVars
  <2>2. \/ posts' = posts
        \/ \E k \in Posts : posts[k].at = "sent" /\ posts' = [posts EXCEPT ![k] = Cut(posts[k])]
    BY <1>20 DEF NoServer
  <2>3. Unseen => Unseen'
    <3>1. CASE posts' = posts
      BY <1>2, <2>1, <3>1
    <3>2. ASSUME NEW k \in Posts, posts[k].at = "sent",
                 posts' = [posts EXCEPT ![k] = Cut(posts[k])]
          PROVE  Unseen => Unseen'
      BY <2>1, <3>2, UnseenKept
    <3> QED
      BY <2>2, <3>1, <3>2
  <2>4. CASE get' = get
    BY <2>1, <2>3, <2>4, ShownQuiet
  <2>5. CASE get.at = "sent" /\ get' = Cut(get)
    <3>1. get'.at = "answered" /\ get'.result = "failed"
      BY <2>5, CutTyped DEF TypeOK
    <3> QED
      BY <3>1 DEF ShownInv
  <2> QED
    BY <1>20, <2>4, <2>5 DEF NoServer
<1>21. CASE Restart
  <2>1. /\ shown' = shown /\ mine' = mine /\ phase' \in {phase, "loading"}
        /\ doubt' = (doubt \/ unified' # unified)
        /\ get' = Cut(get) /\ posts' = [k \in Posts |-> Cut(posts[k])]
    BY <1>21 DEF Restart, mountVars
  <2>2. CASE unified' # unified
    BY <2>1, <2>2 DEF ShownInv
  <2>3. CASE unified' = unified
    <3>1. Unseen => Unseen'
      <4>1. \A k \in Posts : posts[k].at = "answered" => posts'[k] = posts[k]
        BY <2>1, CutTyped DEF TypeOK
      <4>2. mine \subseteq Posts
        BY DEF TypeOK
      <4> QED
        BY <2>1, <4>1, <4>2 DEF Unseen
    <3>2. get'.at = "none" => get.at = "none"
      BY <2>1, CutTyped DEF TypeOK
    <3>3. get'.at = "answered" /\ get'.result = "ok" => get' = get
      BY <2>1, CutTyped DEF TypeOK
    <3> QED
      BY <2>1, <2>3, <3>1, <3>2, <3>3 DEF ShownInv
  <2> QED
    BY <2>2, <2>3
<1>22. CASE Tick
  <2>1. UNCHANGED <<shown, doubt, phase, unified, mine>>
    BY <1>22 DEF Tick, serverVars, keyVars, mountVars
  <2>2. \A k \in Posts : posts'[k].at = posts[k].at /\ posts'[k].result = posts[k].result
    BY <1>22, AgedTyped DEF Tick, TypeOK
  <2>3. get'.at = get.at /\ get'.result = get.result /\ get'.key = get.key
    BY <1>22, AgedTyped DEF Tick, TypeOK
  <2>4. mine \subseteq Posts
    BY DEF TypeOK
  <2>5. Unseen => Unseen'
    BY <2>1, <2>2, <2>4 DEF Unseen
  <2> QED
    BY <2>1, <2>3, <2>5 DEF ShownInv
<1> QED
  BY <1>3, <1>5, <1>6, <1>7, <1>8, <1>9, <1>10, <1>11, <1>12, <1>13, <1>14, <1>15, <1>16,
     <1>17, <1>18, <1>19, <1>20, <1>21, <1>22 DEF Next, TabStep, ServerStep, UserStep

-----------------------------------------------------------------------------
\* The guesses.

Recent == {g \in 1..MaxGuesses : guesses[g] <= Window}

\* Those of the open window, and those of windows before.
InWindow == {g \in 1..MaxGuesses : guesses[g] <= attempts.age}
Earlier == {g \in Recent : guesses[g] > attempts.age}

\* Without an entry there is no recent guess.
NoWindow == attempts = NoEntry => Recent = {}

\* The open window counts its guesses, the first of which opened it; those of the
\* window before that are still recent are fewer than the limit.
OpenWindow ==
    attempts # NoEntry /\ attempts.age <= Window =>
        /\ Cardinality(InWindow) <= attempts.count
        /\ \E g \in 1..MaxGuesses : guesses[g] = attempts.age
        /\ Cardinality(Earlier) <= MaxAttempts - 1

\* When a window is over, so is its first guess; none has come after its end.
OverWindow ==
    attempts # NoEntry /\ attempts.age > Window =>
        /\ \A g \in 1..MaxGuesses : guesses[g] >= 1
        /\ Cardinality(Recent) <= MaxAttempts - 1

\* A password that is yet to be typed or compared has not been compared.
NotYet ==
    /\ \A g \in 1..MaxGuesses : g > wrong => guesses[g] > Window
    /\ login.at = "sent" /\ config.password \notin {Unset, login.token.pw} =>
           wrong \in 1..MaxGuesses /\ guesses[wrong] > Window

GuessInv == NoWindow /\ OpenWindow /\ OverWindow /\ NotYet

\* A set of guesses within another has no more of them.
LEMMA FewerGuesses ==
    ASSUME NEW S, NEW T, S \subseteq T, T \subseteq 1..MaxGuesses
    PROVE  /\ Cardinality(S) <= Cardinality(T)
           /\ Cardinality(S) \in Nat /\ Cardinality(T) \in Nat
<1>1. IsFiniteSet(1..MaxGuesses)
  BY Numbers, FS_Interval
<1>2. IsFiniteSet(T)
  BY <1>1, FS_Subset
<1> QED
  BY <1>2, FS_Subset, FS_CardinalityType

\* One guess more or less.
LEMMA OneGuess ==
    ASSUME NEW S, NEW g, S \subseteq 1..MaxGuesses, g \in 1..MaxGuesses
    PROVE  /\ g \notin S => Cardinality(S \cup {g}) = Cardinality(S) + 1
           /\ g \in S => Cardinality(S \ {g}) = Cardinality(S) - 1
<1>1. IsFiniteSet(S)
  <2>1. IsFiniteSet(1..MaxGuesses)
    BY Numbers, FS_Interval
  <2> QED
    BY <2>1, FS_Subset
<1> QED
  BY <1>1, FS_AddElement, FS_RemoveElement

\* From the invariant, the bound on what is recent.
LEMMA RecentBounded ==
    ASSUME TypeOK, GuessInv
    PROVE  Cardinality(Recent) <= 2 * MaxAttempts - 1
<1> USE Numbers
<1>1. CASE attempts = NoEntry
  BY <1>1, FS_EmptySet DEF GuessInv, NoWindow
<1>2. CASE attempts # NoEntry /\ attempts.age > Window
  BY <1>2, FewerGuesses DEF GuessInv, OverWindow, Recent
<1>3. CASE attempts # NoEntry /\ attempts.age <= Window
  <2>1. attempts \in Entries /\ guesses \in [1..MaxGuesses -> 0..(Window + 1)]
    BY DEF TypeOK, Entries
  <2>2. Recent = InWindow \cup Earlier
    BY <1>3, <2>1 DEF Recent, InWindow, Earlier, Entries
  <2>3. IsFiniteSet(InWindow) /\ IsFiniteSet(Earlier)
    <3>1. IsFiniteSet(1..MaxGuesses)
      BY FS_Interval
    <3>2. InWindow \subseteq 1..MaxGuesses /\ Earlier \subseteq 1..MaxGuesses
      BY DEF InWindow, Earlier, Recent
    <3> QED
      BY <3>1, <3>2, FS_Subset
  <2>4. Cardinality(Recent) <= Cardinality(InWindow) + Cardinality(Earlier)
    <3>1. InWindow \cap Earlier = {}
      BY <2>1 DEF InWindow, Earlier, Recent, Entries
    <3>2. Cardinality(Recent) =
            Cardinality(InWindow) + Cardinality(Earlier)
                - Cardinality(InWindow \cap Earlier)
      BY <2>2, <2>3, FS_Union
    <3>3. Cardinality(InWindow) \in Nat /\ Cardinality(Earlier) \in Nat
      BY <2>3, FS_CardinalityType
    <3>4. Cardinality(InWindow \cap Earlier) = 0
      BY <3>1, FS_EmptySet
    <3> QED
      BY <3>2, <3>3, <3>4
  <2>5. Cardinality(InWindow) <= MaxAttempts /\ Cardinality(Earlier) <= MaxAttempts - 1
    BY <1>3, <2>1, <2>3, FS_CardinalityType DEF GuessInv, OpenWindow, Entries
  <2> QED
    BY <2>3, <2>4, <2>5, FS_CardinalityType, FewerGuesses DEF Recent
<1> QED
  BY <1>1, <1>2, <1>3 DEF TypeOK

\* Steps that compare no password and let no time pass.
LEMMA GuessQuiet ==
    ASSUME TypeOK, GuessInv, UNCHANGED <<attempts, guesses, wrong>>,
           \/ UNCHANGED <<config, login>>
           \/ login'.at # "sent"
    PROVE  GuessInv'
BY DEF GuessInv, NoWindow, OpenWindow, OverWindow, NotYet, Recent, InWindow, Earlier

LEMMA GuessForgotten ==
    ASSUME TypeOK, attempts' = NoEntry, guesses' = Forgotten, login'.at # "sent"
    PROVE  GuessInv'
<1>1. \A g \in 1..MaxGuesses : guesses'[g] = Window + 1
  BY DEF Forgotten
<1>2. Recent' = {}
  BY <1>1, Numbers DEF Recent
<1>3. NotYet'
  BY <1>1, Numbers DEF NotYet
<1> QED
  BY <1>2, <1>3 DEF GuessInv, NoWindow, OpenWindow, OverWindow

\* A wrong password is compared.
LEMMA GuessWrong ==
    ASSUME TypeOK, GuessInv, login.at = "sent", Wrong, wrong' = wrong
    PROVE  GuessInv'
<1> USE Numbers
<1>1. attempts \in Entries /\ guesses \in [1..MaxGuesses -> 0..(Window + 1)]
  BY DEF TypeOK, Entries
<1>2. wrong \in 1..MaxGuesses /\ guesses[wrong] > Window
  BY DEF GuessInv, NotYet, Wrong
<1>3. \A g \in 1..MaxGuesses : guesses'[g] = IF g = wrong THEN 0 ELSE guesses[g]
  BY <1>1 DEF Wrong
<1>4. NotYet'
  <2>1. login'.at # "sent"
    BY AnsweredTyped DEF Wrong, TypeOK, Results
  <2> QED
    BY <1>2, <1>3, <2>1 DEF NotYet, GuessInv, TypeOK
<1>5. CASE WindowOver
  <2>1. attempts' = [count |-> 1, age |-> 0]
    BY <1>5 DEF Wrong, EntryAfter
  <2>2. attempts' # NoEntry
    BY <2>1 DEF NoEntry
  <2>3. \A g \in 1..MaxGuesses : guesses[g] >= 1
    <3>1. CASE attempts = NoEntry
      BY <1>1, <3>1 DEF GuessInv, NoWindow, Recent
    <3>2. CASE attempts # NoEntry
      BY <1>5, <3>2 DEF WindowOver, GuessInv, OverWindow
    <3> QED
      BY <3>1, <3>2
  <2>4. InWindow' = {wrong}
    BY <1>1, <1>2, <1>3, <2>1, <2>3 DEF InWindow
  <2>5. Cardinality(InWindow') = 1
    BY <2>4, FS_Singleton
  <2>6. Earlier' \subseteq Recent
    BY <1>1, <1>3, <2>1 DEF Earlier, Recent
  <2>7. Cardinality(Recent) <= MaxAttempts - 1
    <3>1. CASE attempts = NoEntry
      BY <3>1, FS_EmptySet DEF GuessInv, NoWindow
    <3>2. CASE attempts # NoEntry
      BY <1>5, <3>2 DEF WindowOver, GuessInv, OverWindow
    <3> QED
      BY <3>1, <3>2
  <2>8. Cardinality(Earlier') <= MaxAttempts - 1
    <3>1. Recent \subseteq 1..MaxGuesses
      BY DEF Recent
    <3>2. Cardinality(Earlier') <= Cardinality(Recent) /\ Cardinality(Earlier') \in Nat
          /\ Cardinality(Recent) \in Nat
      BY <2>6, <3>1, FewerGuesses
    <3> QED
      BY <2>7, <3>2
  <2>9. \E g \in 1..MaxGuesses : guesses'[g] = 0
    BY <1>2, <1>3
  <2> QED
    BY <1>4, <2>1, <2>2, <2>5, <2>8, <2>9 DEF GuessInv, NoWindow, OpenWindow, OverWindow
<1>6. CASE ~WindowOver
  <2>1. attempts' = [attempts EXCEPT !.count = @ + 1]
    BY <1>6 DEF Wrong, EntryAfter
  <2>2. attempts'.age = attempts.age /\ attempts'.count = attempts.count + 1
    BY <1>1, <2>1 DEF Entries
  <2>3. attempts' # NoEntry
    BY <1>1, <2>2 DEF NoEntry, Entries
  <2>4. attempts # NoEntry /\ attempts.age <= Window /\ attempts.age \in Nat
    BY <1>1, <1>6 DEF WindowOver, Entries
  <2>5. InWindow' = InWindow \cup {wrong}
    BY <1>1, <1>2, <1>3, <2>2, <2>4 DEF InWindow
  <2>6. InWindow \subseteq 1..MaxGuesses /\ wrong \notin InWindow
    BY <1>1, <1>2, <2>4 DEF InWindow
  <2>7. Cardinality(InWindow') = Cardinality(InWindow) + 1
    BY <1>2, <2>5, <2>6, OneGuess
  <2>8. Cardinality(InWindow') <= attempts'.count
    <3>1. Cardinality(InWindow) <= attempts.count
      BY <2>4 DEF GuessInv, OpenWindow
    <3>2. Cardinality(InWindow) \in Nat
      BY <2>6, FewerGuesses
    <3>3. attempts.count \in Nat
      BY <1>1 DEF Entries
    <3> QED
      BY <2>2, <2>7, <3>1, <3>2, <3>3
  <2>9. Earlier' = Earlier
    BY <1>1, <1>2, <1>3, <2>2, <2>4 DEF Earlier, Recent
  <2>10. \E g \in 1..MaxGuesses : guesses'[g] = attempts'.age
    <3>1. PICK g \in 1..MaxGuesses : guesses[g] = attempts.age
      BY <2>4 DEF GuessInv, OpenWindow
    <3>2. g # wrong
      BY <1>1, <1>2, <2>4, <3>1
    <3> QED
      BY <1>3, <2>2, <3>1, <3>2
  <2> QED
    BY <1>4, <2>2, <2>3, <2>4, <2>8, <2>9, <2>10 DEF GuessInv, NoWindow, OpenWindow,
       OverWindow
<1> QED
  BY <1>5, <1>6

\* Time passes: a window that ends leaves its first guess behind.
LEMMA GuessTick ==
    ASSUME TypeOK, GuessInv, Tick
    PROVE  GuessInv'
<1> USE Numbers
<1>1. attempts \in Entries /\ guesses \in [1..MaxGuesses -> 0..(Window + 1)]
  BY DEF TypeOK, Entries
<1>2. \A g \in 1..MaxGuesses :
        guesses'[g] = IF guesses[g] > Window THEN guesses[g] ELSE guesses[g] + 1
  BY DEF Tick
<1>3. NotYet'
  <2>1. login'.at = login.at /\ (login.at = "sent" => login'.token = login.token)
    BY AgedTyped DEF Tick, TypeOK
  <2>2. wrong' = wrong /\ config' = config
    BY DEF Tick, boundVars, serverVars
  <2> QED
    BY <1>1, <1>2, <2>1, <2>2 DEF NotYet, GuessInv
<1>4. Recent' \subseteq Recent /\ Recent \subseteq 1..MaxGuesses
  BY <1>1, <1>2 DEF Recent
<1>5. CASE attempts = NoEntry
  <2>1. attempts' = NoEntry
    BY <1>5 DEF Tick
  <2>2. Recent' = {}
    BY <1>4, <1>5 DEF GuessInv, NoWindow
  <2> QED
    BY <1>3, <2>1, <2>2 DEF GuessInv, NoWindow, OpenWindow, OverWindow
<1>6. CASE attempts # NoEntry /\ attempts.age > Window
  <2>1. attempts' = [attempts EXCEPT !.age = attempts.age]
    BY <1>6 DEF Tick
  <2>2. attempts' = attempts
    BY <1>1, <2>1 DEF Entries
  <2>3. \A g \in 1..MaxGuesses : guesses[g] >= 1 /\ guesses'[g] >= 1
    BY <1>1, <1>2, <1>6 DEF GuessInv, OverWindow
  <2>4. Cardinality(Recent') <= MaxAttempts - 1
    <3>1. Cardinality(Recent) <= MaxAttempts - 1
      BY <1>6 DEF GuessInv, OverWindow
    <3>2. Cardinality(Recent') <= Cardinality(Recent)
          /\ Cardinality(Recent') \in Nat /\ Cardinality(Recent) \in Nat
      BY <1>4, FewerGuesses
    <3> QED
      BY <3>1, <3>2
  <2>5. ~(attempts.age <= Window)
    BY <1>1, <1>6 DEF Entries
  <2> QED
    BY <1>3, <1>6, <2>2, <2>3, <2>4, <2>5 DEF GuessInv, NoWindow, OpenWindow, OverWindow
<1>7. CASE attempts # NoEntry /\ attempts.age <= Window
  <2>1. attempts' = [attempts EXCEPT !.age = attempts.age + 1]
    <3>1. ~(attempts.age > Window)
      BY <1>1, <1>7 DEF Entries
    <3> QED
      BY <1>7, <3>1 DEF Tick
  <2>2. /\ attempts'.age = attempts.age + 1 /\ attempts'.count = attempts.count
        /\ attempts.age \in Nat
    BY <1>1, <2>1 DEF Entries
  <2>3. attempts' # NoEntry
    BY <1>1, <2>2 DEF NoEntry, Entries
  <2>4. PICK first \in 1..MaxGuesses : guesses[first] = attempts.age
    BY <1>7 DEF GuessInv, OpenWindow
  <2>5. Cardinality(InWindow) <= attempts.count /\ attempts.count \in Nat
        /\ attempts.count <= MaxAttempts
    BY <1>1, <1>7 DEF GuessInv, OpenWindow, Entries
  <2>6. InWindow \subseteq 1..MaxGuesses /\ first \in InWindow
    BY <1>1, <2>4 DEF InWindow, Entries
  <2>7. CASE attempts.age + 1 <= Window
    <3>1. InWindow' = InWindow
      <4>1. ASSUME NEW g \in 1..MaxGuesses
            PROVE  guesses'[g] <= attempts'.age <=> guesses[g] <= attempts.age
        <5>1. guesses[g] \in Nat /\ guesses'[g] \in Nat
          BY <1>1, <1>2
        <5>2. guesses'[g] = IF guesses[g] > Window THEN guesses[g] ELSE guesses[g] + 1
          BY <1>2
        <5> QED
          BY <2>2, <2>7, <5>1, <5>2
      <4> QED
        BY <4>1 DEF InWindow
    <3>2. Earlier' \subseteq Earlier /\ Earlier \subseteq 1..MaxGuesses
      BY <1>1, <1>2, <2>2, <2>7 DEF Earlier, Recent
    <3>3. Cardinality(Earlier') <= MaxAttempts - 1
      <4>1. Cardinality(Earlier) <= MaxAttempts - 1
        BY <1>7 DEF GuessInv, OpenWindow
      <4>2. Cardinality(Earlier') <= Cardinality(Earlier)
            /\ Cardinality(Earlier') \in Nat /\ Cardinality(Earlier) \in Nat
        BY <3>2, FewerGuesses
      <4> QED
        BY <4>1, <4>2
    <3>4. guesses'[first] = attempts'.age
      BY <1>2, <1>7, <2>2, <2>4
    <3> QED
      BY <1>3, <2>2, <2>3, <2>4, <2>5, <2>7, <3>1, <3>3, <3>4
         DEF GuessInv, NoWindow, OpenWindow, OverWindow
  <2>8. CASE attempts.age = Window
    <3>1. \A g \in 1..MaxGuesses : guesses'[g] >= 1
      BY <1>1, <1>2
    <3>2. Recent' \subseteq InWindow \ {first}
      BY <1>1, <1>2, <2>4, <2>8 DEF Recent, InWindow
    <3>3. Cardinality(InWindow \ {first}) = Cardinality(InWindow) - 1
      BY <2>6, OneGuess
    <3>4. Cardinality(Recent') <= Cardinality(InWindow \ {first})
          /\ Cardinality(Recent') \in Nat
      BY <2>6, <3>2, FewerGuesses
    <3>5. Cardinality(InWindow) \in Nat
      BY <2>6, FewerGuesses
    <3>6. Cardinality(Recent') <= MaxAttempts - 1
      BY <2>5, <3>3, <3>4, <3>5
    <3> QED
      BY <1>3, <2>2, <2>3, <2>8, <3>1, <3>6 DEF GuessInv, NoWindow, OpenWindow,
         OverWindow
  <2> QED
    BY <1>7, <2>2, <2>7, <2>8
<1> QED
  BY <1>1, <1>5, <1>6, <1>7 DEF Entries

LEMMA GuessStep ==
    ASSUME TypeOK, GuessInv, Next
    PROVE  GuessInv'
<1>1. CASE Load \/ Status \/ GetAnswer \/ ServeGet \/ FetchKey \/ Reload \/ Leave \/ Return
  BY <1>1, GuessQuiet DEF Load, Status, GetAnswer, ServeGet, FetchKey, Reload, Leave,
     Return, guardVars, boundVars, serverVars
<1>9. ASSUME NEW k \in Posts, \/ PostAnswer(k) \/ ServePost(k) \/ UpdateRow(k) \/ SetCopy(k)
                              \/ Regenerate(k) \/ RegenerateElsewhere(k)
      PROVE  GuessInv'
  BY <1>9, GuessQuiet DEF PostAnswer, ServePost, UpdateRow, SetCopy, Regenerate,
     RegenerateElsewhere, guardVars, boundVars, serverVars
<1>2. CASE LoginAnswer
  <2>1. login'.at # "sent"
    BY <1>2 DEF LoginAnswer, Idle
  <2> QED
    BY <1>2, <2>1, GuessQuiet DEF LoginAnswer, guardVars, boundVars
<1>3. CASE CheckLogin
  <2>1. wrong' = wrong /\ login.at = "sent"
    BY <1>3 DEF CheckLogin, boundVars
  <2>2. login'.at # "sent"
    <3>1. [login EXCEPT !.token = NoToken] \in Requests
      BY NoTokenTyped DEF TypeOK, Requests
    <3> QED
      BY <1>3, <3>1, AnsweredTyped DEF CheckLogin, Forbidden, TooMany, Right, Wrong,
         TypeOK, Results
  <2>3. CASE Forbidden
    BY <2>1, <2>2, <2>3, GuessQuiet DEF Forbidden, guardVars
  <2>4. CASE TooMany
    <3>1. attempts' = attempts
      BY <2>4 DEF TooMany, EntryAfter, Limited
    <3> QED
      BY <2>1, <2>2, <2>4, <3>1, GuessQuiet DEF TooMany
  <2>5. CASE Right
    BY <2>2, <2>5, GuessForgotten DEF Right
  <2>6. CASE Wrong
    BY <2>1, <2>6, GuessWrong
  <2> QED
    BY <1>3, <2>3, <2>4, <2>5, <2>6 DEF CheckLogin
<1>4. CASE SubmitRight \/ SubmitAny
  <2>1. PICK pw \in Passwords : Submit(pw) /\ config.password \in {Unset, pw}
    BY <1>4 DEF SubmitRight, SubmitAny, TypeOK, Configs
  <2>2. login'.token.pw = pw
    BY <2>1 DEF Submit, Sent
  <2>3. UNCHANGED <<config, attempts, guesses, wrong>>
    BY <2>1 DEF Submit, serverVars, guardVars, boundVars
  <2> QED
    BY <2>1, <2>2, <2>3 DEF GuessInv, NoWindow, OpenWindow, OverWindow, NotYet, Recent,
       InWindow,
       Earlier
<1>5. CASE SubmitWrong
  <2>1. wrong < MaxGuesses /\ wrong' = wrong + 1 /\ UNCHANGED <<attempts, guesses>>
    BY <1>5 DEF SubmitWrong, guardVars
  <2>2. wrong' \in 1..MaxGuesses
    BY <2>1, Numbers DEF TypeOK
  <2>3. NotYet'
    <3>1. \A g \in 1..MaxGuesses : g > wrong => guesses[g] > Window
      BY DEF GuessInv, NotYet
    <3>2. wrong' > wrong
      BY <2>1 DEF TypeOK
    <3>3. guesses'[wrong'] > Window
      BY <2>1, <2>2, <3>1, <3>2
    <3>4. \A g \in 1..MaxGuesses : g > wrong' => guesses'[g] > Window
      BY <2>1, <3>1 DEF TypeOK
    <3> QED
      BY <2>2, <3>3, <3>4 DEF NotYet
  <2> QED
    BY <2>1, <2>3 DEF GuessInv, NoWindow, OpenWindow, OverWindow, Recent, InWindow,
       Earlier
<1>6. CASE NoServer
  <2>1. login' = login \/ login'.at # "sent"
    BY <1>6, CutTyped DEF NoServer, TypeOK
  <2> QED
    BY <1>6, <2>1, GuessQuiet DEF NoServer, guardVars, boundVars, serverVars
<1>7. CASE Restart
  <2>1. login'.at # "sent"
    BY <1>7, CutTyped DEF Restart, TypeOK
  <2> QED
    BY <1>7, <2>1, GuessForgotten DEF Restart
<1>8. CASE Tick
  BY <1>8, GuessTick
<1> QED
  BY <1>1, <1>2, <1>3, <1>4, <1>5, <1>6, <1>7, <1>8, <1>9
     DEF Next, TabStep, ServerStep, UserStep

-----------------------------------------------------------------------------
\* The invariant, and the theorems.

IInv == TypeOK /\ KeyInv /\ ShownInv /\ GuessInv

LEMMA InitIInv == Init => IInv
<1> SUFFICES ASSUME Init PROVE IInv
  OBVIOUS
<1> USE Numbers
<1>1. \A g \in 1..MaxGuesses : guesses[g] = Window + 1
  BY DEF Init, Forgotten
<1>2. TypeOK
  <2>1. guesses \in [1..MaxGuesses -> 0..(Window + 1)]
    BY DEF Init, Forgotten
  <2>2. attempts \in Entries
    BY NoEntryTyped DEF Init
  <2>3. login.at = "none"
    BY DEF Init, Idle
  <2>4. config \in Configs /\ peer \in Peers /\ up \in BOOLEAN /\ doubt \in BOOLEAN
    BY DEF Init
  <2>5. posts \in [Posts -> Requests]
    BY IdleTyped DEF Init
  <2>6. /\ row = 0 /\ unified = 0 /\ shown = NoKey /\ held = 0 /\ mine = {} /\ crossed = {}
        /\ parted = FALSE /\ phase = "loading" /\ stored = NoToken
        /\ login = Idle /\ get = Idle /\ wrong = 0 /\ restarts = 0 /\ faults = 0
    BY DEF Init
  <2>7. 0 \in 0..MaxKeys /\ 0 \in 0..MaxGuesses /\ 0 \in 0..MaxRestarts /\ 0 \in 0..MaxFaults
    OBVIOUS
  <2>8. {row, unified} \subseteq 0..MaxKeys /\ {login, get} \subseteq Requests
    BY <2>6, <2>7, IdleTyped
  <2> QED
    BY <2>1, <2>2, <2>4, <2>5, <2>6, <2>7, <2>8, NoTokenTyped DEF TypeOK, Entries
<1>3. KeyInv
  <2>1. Halfway = {}
    BY DEF Init, Idle, Halfway
  <2> QED
    BY <2>1 DEF Init, KeyInv
<1>4. ShownInv
  BY DEF Init, ShownInv, Idle
<1>5. GuessInv
  <2>1. Recent = {}
    BY <1>1 DEF Recent
  <2>2. login.at = "none" /\ attempts = NoEntry
    BY DEF Init, Idle
  <2> QED
    BY <1>1, <2>1, <2>2 DEF GuessInv, NoWindow, OpenWindow, OverWindow, NotYet
<1> QED
  BY <1>2, <1>3, <1>4, <1>5 DEF IInv

LEMMA NextIInv == IInv /\ [Next]_vars => IInv'
<1> SUFFICES ASSUME IInv, [Next]_vars PROVE IInv'
  OBVIOUS
<1>1. CASE Next
  BY <1>1, TypeStep, KeyStep, ShownStep, GuessStep DEF IInv
<1>2. CASE UNCHANGED vars
  BY <1>2 DEF IInv, TypeOK, KeyInv, Halfway, ShownInv, Unseen, GuessInv, NoWindow,
     OpenWindow,
     OverWindow, NotYet, Recent, InWindow, Earlier, vars, serverVars, keyVars, tabVars,
     mountVars, guardVars, boundVars
<1> QED
  BY <1>1, <1>2

\* Whenever no regeneration is halfway, the key that requests are compared with is the
\* one that the next start will read, unless an UPDATE has lost its answer or the last
\* regeneration has been crossed by another: regenerateUnifiedKey, ensureUnifiedKey.
THEOREM UnifiedKeyIsStored == Spec => []UnifiedKeyStored
<1>1. IInv => UnifiedKeyStored
  BY DEF IInv, KeyInv, UnifiedKeyStored
<1> QED
  BY InitIInv, NextIInv, <1>1, PTL DEF Spec

\* A page that waits for nothing uses the key that the server accepts, however fetches,
\* regenerations, visits, logins and 401s overlap, unless its last fetch was given up
\* or had read the key before a change that the tab is not told of or cannot act on:
\* the invalidation in KeysPage, apiFetch, AuthGate.
THEOREM ShownKeyIsAccepted == Spec => []ShownKeyAccepted
<1>1. IInv => ShownKeyAccepted
  <2> SUFFICES ASSUME IInv, phase = "ready", get.at = "none", ~doubt,
                      \A k \in mine : posts[k].at = "done"
               PROVE  shown = unified
    BY DEF ShownKeyAccepted
  <2>1. ~Unseen
    BY DEF Unseen
  <2> QED
    BY <2>1 DEF IInv, ShownInv
<1> QED
  BY InitIInv, NextIInv, <1>1, PTL DEF Spec

\* Of wrong passwords, at most twice the limit less one are compared within a window's
\* length of time unless a login succeeds or the server is restarted, whatever the limit,
\* the window and the configuration: loginRateLimit, resetLoginAttempts.
THEOREM GuessesAreBounded == Spec => []GuessBound
<1>1. IInv => GuessBound
  BY RecentBounded DEF IInv, GuessBound, Recent
<1> QED
  BY InitIInv, NextIInv, <1>1, PTL DEF Spec
=============================================================================
