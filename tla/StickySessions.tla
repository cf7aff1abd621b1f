---------------------------- MODULE StickySessions ----------------------------
(***************************************************************************)
(* Sticky sessions of routes/proxy.ts: the model that served a turn of a    *)
(* conversation is remembered under a key made of the conversation's first  *)
(* user message, and preferred for the next turn.                           *)
(*                                                                          *)
(* A conversation is what one client sends turn after turn: the messages    *)
(* before the first user message, then user and assistant in alternation.   *)
(* The server keeps nothing of it but the map; conversations that open with *)
(* the same message share an entry.  The lookup happens when a turn arrives *)
(* and the update when a provider has served it; other turns are handled in *)
(* between.                                                                 *)
(***************************************************************************)
EXTENDS Catalog, Integers, FiniteSets, Functions

CONSTANTS
    Conversations,
    Opening,     \* the first user message of each conversation
    Opaque,      \* an opening that is not a string: parts, or no user message
    Prelude,     \* how many messages come before the opening
    Ttl,         \* STICKY_TTL_MS, in clock ticks
    CleanAt,     \* the 500 entries above which the map is cleaned
    MaxTurns,    \* bound: turns of a conversation
    MaxTime,     \* bound: last tick of the clock
    MaxCrashes   \* bound: restarts of the process

ASSUME ConversationAssumption ==
    /\ DOMAIN Opening = Conversations
    /\ Prelude \in [Conversations -> Nat]
ASSUME StickyNumberAssumption ==
    {Ttl, CleanAt, MaxTurns, MaxTime, MaxCrashes} \subseteq Nat

VARIABLES
    now,        \* Date.now()
    sticky,     \* stickySessionMap
    turns,      \* turns of each conversation that have been served
    phase,      \* "idle", or "asked" while a turn is under way
    pinned,     \* does that turn name its model?
    prefers,    \* the model it prefers, or NoModel
    lastModel,  \* the model this process last served the conversation by
    lastAt,     \* and when
    crashes

stickyVars == <<now, sticky, turns, phase, pinned, prefers, lastModel, lastAt, crashes>>

Openings == {Opening[c] : c \in Conversations} \ {Opaque}
SessionKeys == Openings \X {"single", "multi"}
Entries == [modelDbId : Models, lastUsed : Nat]

StickyTypeOK ==
    /\ now \in Nat /\ crashes \in Nat
    /\ DOMAIN sticky \subseteq SessionKeys /\ Range(sticky) \subseteq Entries
    /\ turns \in [Conversations -> Nat]
    /\ phase \in [Conversations -> {"idle", "asked"}]
    /\ pinned \in [Conversations -> BOOLEAN]
    /\ prefers \in [Conversations -> Models \cup {NoModel}]
    /\ lastModel \in [Conversations -> Models \cup {NoModel}]
    /\ lastAt \in [Conversations -> Nat]

StickyInit ==
    /\ now = 0 /\ crashes = 0
    /\ sticky = <<>>
    /\ turns = [c \in Conversations |-> 0]
    /\ phase = [c \in Conversations |-> "idle"]
    /\ pinned = [c \in Conversations |-> FALSE]
    /\ prefers = [c \in Conversations |-> NoModel]
    /\ lastModel = [c \in Conversations |-> NoModel]
    /\ lastAt = [c \in Conversations |-> 0]

-----------------------------------------------------------------------------
\* What the turn under way sends: the whole conversation so far.
Length(c) == Prelude[c] + 2 * turns[c] + 1

SessionKey(c) == <<Opening[c], IF Length(c) > 2 THEN "multi" ELSE "single">>

\* Mutant: conversations without a text to hash share an entry.
HasKeyAlways(c) == TRUE

HasKey(c) == Opening[c] # Opaque

\* Mutant: an entry is kept for ever.
StaleNever(key) == FALSE

Stale(key) == now - sticky[key].lastUsed > Ttl

\* The turn arrives without a model field.  Only a continuation is looked up,
\* and an entry that is too old is dropped.
Ask(c) ==
    LET key == SessionKey(c)
        found == turns[c] > 0 /\ HasKey(c) /\ key \in DOMAIN sticky
    IN  /\ phase[c] = "idle" /\ turns[c] < MaxTurns
        /\ phase' = [phase EXCEPT ![c] = "asked"]
        /\ pinned' = [pinned EXCEPT ![c] = FALSE]
        /\ prefers' = [prefers EXCEPT
              ![c] = IF found /\ ~Stale(key) THEN sticky[key].modelDbId ELSE NoModel]
        /\ sticky' = IF found /\ Stale(key)
                       THEN Restrict(sticky, DOMAIN sticky \ {key}) ELSE sticky
        /\ UNCHANGED <<now, turns, lastModel, lastAt, crashes>>

\* It arrives with one: the map is not consulted.
AskPinned(c) ==
    /\ phase[c] = "idle" /\ turns[c] < MaxTurns
    /\ phase' = [phase EXCEPT ![c] = "asked"]
    /\ pinned' = [pinned EXCEPT ![c] = TRUE]
    /\ \E m \in Models : prefers' = [prefers EXCEPT ![c] = m]
    /\ UNCHANGED <<now, sticky, turns, lastModel, lastAt, crashes>>

\* Mutant: a map that has grown too large keeps the new entry only.
KeptNew(keys, new) == IF Cardinality(keys) > CleanAt THEN {new} ELSE keys

\* A map that has grown too large loses its old entries; the new one is not.
Kept(keys, new) ==
    IF Cardinality(keys) > CleanAt THEN {k \in keys : k = new \/ ~Stale(k)} ELSE keys

\* The turn is over, and with it what the handler kept of it.
Forget(c) ==
    /\ pinned' = [pinned EXCEPT ![c] = FALSE]
    /\ prefers' = [prefers EXCEPT ![c] = NoModel]

\* Some model has served the turn: the preferred one if it could.
Serve(c) ==
    /\ phase[c] = "asked"
    /\ phase' = [phase EXCEPT ![c] = "idle"]
    /\ turns' = [turns EXCEPT ![c] = @ + 1]
    /\ \E m \in Models :
         LET key == SessionKey(c)
         IN  /\ lastModel' = [lastModel EXCEPT ![c] = m]
             /\ sticky' = IF ~HasKey(c) THEN sticky
                  ELSE [k \in Kept(DOMAIN sticky \cup {key}, key) |->
                          IF k = key THEN [modelDbId |-> m, lastUsed |-> now]
                                     ELSE sticky[k]]
    /\ lastAt' = [lastAt EXCEPT ![c] = now]
    /\ Forget(c)
    /\ UNCHANGED <<now, crashes>>

\* Every provider has failed; the client may send the turn again.
Drop(c) ==
    /\ phase[c] = "asked"
    /\ phase' = [phase EXCEPT ![c] = "idle"]
    /\ Forget(c)
    /\ UNCHANGED <<now, sticky, turns, lastModel, lastAt, crashes>>

Tick ==
    /\ now < MaxTime
    /\ now' = now + 1
    /\ UNCHANGED <<sticky, turns, phase, pinned, prefers, lastModel, lastAt, crashes>>

\* The map is only in memory.
Restart ==
    /\ crashes < MaxCrashes
    /\ crashes' = crashes + 1
    /\ sticky' = <<>>
    /\ phase' = [c \in Conversations |-> "idle"]
    /\ pinned' = [c \in Conversations |-> FALSE]
    /\ prefers' = [c \in Conversations |-> NoModel]
    /\ lastModel' = [c \in Conversations |-> NoModel]
    /\ UNCHANGED <<now, turns, lastAt>>

StickyNext ==
    \/ Tick \/ Restart
    \/ \E c \in Conversations : Ask(c) \/ AskPinned(c) \/ Serve(c) \/ Drop(c)

StickySpec == StickyInit /\ [][StickyNext]_stickyVars

-----------------------------------------------------------------------------
Peers(c) == {d \in Conversations : Opening[d] = Opening[c]}

Recent(d) == lastModel[d] # NoModel /\ now - lastAt[d] <= Ttl

Asks(c) == phase[c] = "idle" /\ phase'[c] = "asked" /\ ~pinned'[c]

\* From the third turn on a conversation is steered to the model that served its
\* last turn, or the last one of a conversation that opens with the same words, if
\* that was within the TTL: however the turns of others interleave with its own and
\* whatever they make the map drop.
StickyFromThirdTurn ==
    [][\A c \in Conversations :
         Asks(c) /\ turns[c] >= 2 /\ Recent(c) /\ HasKey(c) =>
            prefers'[c] \in {lastModel[d] : d \in {e \in Peers(c) : Recent(e)}}]_stickyVars

\* A turn is steered only by what served a conversation with its opening within
\* the TTL: never by an entry that has outlived it, nor by another opening.
SteeredForCause ==
    [][\A c \in Conversations :
         Asks(c) /\ prefers'[c] # NoModel =>
            \E d \in Peers(c) : Recent(d) /\ lastModel[d] = prefers'[c]]_stickyVars
=============================================================================
