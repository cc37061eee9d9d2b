----------------------------- MODULE PlayerOnline -----------------------------
(***************************************************************************)
(* The online table of the gateway: the clients' logins run on actors, a    *)
(* client's disconnect on the loop thread of its channel, and the answers   *)
(* of the game on the actor of the player.  Player objects come from an     *)
(* ObjectPool and return to it, channels are freed by their loop, and both  *)
(* are held by raw pointers.                                               *)
(*                                                                         *)
(* A login request stands for its session: it names the channel it came by, *)
(* the uid, and the sid Snowflake gives it.  All that PlayerOnlineService   *)
(* does under its mutex is one step.  Every channel and every uid has an    *)
(* actor of its own here, which allows each interleaving that fewer allow.  *)
(***************************************************************************)
EXTENDS Naturals, Sequences, FiniteSets

CONSTANTS
    Uids,       \* players
    Chans,      \* client connections
    Logins,     \* login requests the clients send, each once
    LoginUid,   \* the player each is for
    LoginChan,  \* the connection it is sent on
    Objs,       \* storage for Player objects
    MaxFree,    \* _maxSize of the pool's free list; 0 is no limit
    NoObj, NoLogin

ASSUME OnlineAssumption ==
    /\ LoginUid \in [Logins -> Uids] /\ LoginChan \in [Logins -> Chans]
    /\ MaxFree \in Nat
    /\ NoObj \notin Objs /\ NoLogin \notin Logins

VARIABLES
    link,      \* the channel: "open", "closed" once on_closed ran, or "freed"
    sent,      \* logins the loop has posted to an actor
    mailbox,   \* the logins an actor has yet to run, by channel
    late,      \* logins whose player was created after on_closed
    table,     \* onlinePlayer
    userData,  \* Channel::userData
    holds,     \* the session each Player object was last constructed for
    free,      \* the free list of the pool
    asking,    \* the login between createPlayer and its sendMsg, by channel
    leaving,   \* the session between its removal and its sendMsg, by channel
    asked,     \* logins the game was sent
    told,      \* disconnects the game was sent
    answers,   \* answers of the game posted to an actor
    found,     \* what onInnerLoginRes holds after findPlayer, by uid
    faults     \* uses of memory that was recycled or freed

online == <<table, userData, holds, free>>
inner  == <<asked, told, answers>>
vars   == <<link, sent, mailbox, late, online, asking, leaving, inner, found, faults>>

Nobody == [obj |-> NoObj, login |-> NoLogin]

TypeOK ==
    /\ link \in [Chans -> {"open", "closed", "freed"}]
    /\ sent \subseteq Logins /\ late \subseteq sent
    /\ mailbox \in [Chans -> Seq(sent)]
    /\ table \in [Uids -> Objs \cup {NoObj}]
    /\ userData \in [Chans -> Objs \cup {NoObj}]
    /\ holds \in [Objs -> sent \cup {NoLogin}]
    /\ free \subseteq Objs
    /\ asking \in [Chans -> sent \cup {NoLogin}]
    /\ leaving \in [Chans -> sent \cup {NoLogin}]
    /\ asked \subseteq sent /\ told \subseteq sent /\ answers \subseteq sent
    /\ found \in [Uids -> [obj : Objs \cup {NoObj}, login : sent \cup {NoLogin}]]
    /\ faults \subseteq {"recycledPlayer", "freedChannel"}

Init ==
    /\ link = [c \in Chans |-> "open"]
    /\ sent = {} /\ late = {}
    /\ mailbox = [c \in Chans |-> <<>>]
    /\ table = [u \in Uids |-> NoObj]
    /\ userData = [c \in Chans |-> NoObj]
    /\ holds = [o \in Objs |-> NoLogin]
    /\ free = {}
    /\ asking = [c \in Chans |-> NoLogin]
    /\ leaving = [c \in Chans |-> NoLogin]
    /\ asked = {} /\ told = {} /\ answers = {}
    /\ found = [u \in Uids |-> Nobody]
    /\ faults = {}

-----------------------------------------------------------------------------
(* Players and their pool.                                                 *)

\* The pid, and the channel, of a constructed Player.
Pid(o)       == LoginUid[holds[o]]
ChannelOf(o) == LoginChan[holds[o]]

\* Player::recycle onto the free list f: a full list drops the object.
Recycle(f, o) == IF MaxFree > 0 /\ Cardinality(f) >= MaxFree THEN f ELSE f \cup {o}

\* Player::create from the free list f: a free object, or else a new one.
Available(f) == IF f = {} THEN {o \in Objs : holds[o] = NoLogin} ELSE f

\* Mutants of CreatePlayer: the old channel keeps its userData; or it is cleared
\* after the new player was attached.
CreatePlayerKeepsOld(l) ==
    LET u     == LoginUid[l]
        old   == table[u]
        freed == IF old = NoObj THEN free ELSE Recycle(free, old)
    IN  \E o \in Available(freed) :
            /\ holds' = [holds EXCEPT ![o] = l]
            /\ free' = freed \ {o}
            /\ userData' = [userData EXCEPT ![LoginChan[l]] = o]
            /\ table' = [table EXCEPT ![u] = o]
            /\ UNCHANGED faults
CreatePlayerClearsLast(l) ==
    LET u     == LoginUid[l]
        old   == table[u]
        freed == IF old = NoObj THEN free ELSE Recycle(free, old)
    IN  \E o \in Available(freed) :
            /\ holds' = [holds EXCEPT ![o] = l]
            /\ free' = freed \ {o}
            /\ userData' = [c \in Chans |->
                    IF old # NoObj /\ c = ChannelOf(old) THEN NoObj
                    ELSE IF c = LoginChan[l] THEN o ELSE userData[c]]
            /\ table' = [table EXCEPT ![u] = o]
            /\ UNCHANGED faults

\* createPlayer: the session the uid already has is taken out of the table, off
\* its channel and back to the pool; the new one is put in.
CreatePlayer(l) ==
    LET u     == LoginUid[l]
        old   == table[u]
        freed == IF old = NoObj THEN free ELSE Recycle(free, old)
    IN  \E o \in Available(freed) :
            /\ holds' = [holds EXCEPT ![o] = l]
            /\ free' = freed \ {o}
            /\ userData' = [c \in Chans |->
                    IF c = LoginChan[l] THEN o
                    ELSE IF old # NoObj /\ c = ChannelOf(old) THEN NoObj
                    ELSE userData[c]]
            /\ table' = [table EXCEPT ![u] = o]
            /\ faults' = IF old # NoObj /\ link[ChannelOf(old)] = "freed"
                         THEN faults \cup {"freedChannel"} ELSE faults

\* Mutants of RemovePlayerByChannel: the null test, the erase, or all but the
\* unlinking is missing.
RemovePlayerUntested(c) ==
    LET o == userData[c]
    IN  /\ userData' = [userData EXCEPT ![c] = NoObj]
        /\ free' = Recycle(free, o)
        /\ UNCHANGED <<table, holds, leaving>>
RemovePlayerKeepsEntry(c) ==
    LET o == userData[c]
    IN  /\ userData' = [userData EXCEPT ![c] = NoObj]
        /\ IF o = NoObj
           THEN UNCHANGED <<free, leaving>>
           ELSE free' = Recycle(free, o) /\ leaving' = [leaving EXCEPT ![c] = holds[o]]
        /\ UNCHANGED <<table, holds>>
RemovePlayerUnlinks(c) ==
    /\ userData' = [userData EXCEPT ![c] = NoObj]
    /\ UNCHANGED <<table, holds, free, leaving>>

\* removePlayerByChannel: the player on the channel, if it is the one in the
\* table, leaves the table and returns to the pool.
RemovePlayerByChannel(c) ==
    LET o == userData[c]
    IN  /\ userData' = [userData EXCEPT ![c] = NoObj]
        /\ IF o # NoObj /\ table[Pid(o)] = o
           THEN /\ table' = [table EXCEPT ![Pid(o)] = NoObj]
                /\ free' = Recycle(free, o)
                /\ leaving' = [leaving EXCEPT ![c] = holds[o]]
           ELSE UNCHANGED <<table, free, leaving>>
        /\ UNCHANGED holds

-----------------------------------------------------------------------------
(* The loop thread of a client's channel.                                  *)

\* onMsg: a login request is posted to the actor of the channel, together with
\* a shared_ptr to the channel.
Request(l) ==
    LET c == LoginChan[l]
    IN  /\ link[c] = "open" /\ l \notin sent
        /\ sent' = sent \cup {l}
        /\ mailbox' = [mailbox EXCEPT ![c] = Append(@, l)]
        /\ UNCHANGED <<link, late, online, asking, leaving, inner, found, faults>>

\* onClosed: onPlayerDisconnect, up to its message to the game.
Closed(c) ==
    /\ link[c] = "open"
    /\ link' = [link EXCEPT ![c] = "closed"]
    /\ RemovePlayerByChannel(c)
    /\ UNCHANGED <<sent, mailbox, late, asking, inner, found, faults>>

\* onPlayerDisconnect: the message, which is lost if no game is connected.
DisconnectSends(c) ==
    /\ leaving[c] # NoLogin
    /\ leaving' = [leaving EXCEPT ![c] = NoLogin]
    /\ told' \in {told, told \cup {leaving[c]}}
    /\ UNCHANGED <<link, sent, mailbox, late, online, asking, asked, answers, found, faults>>

\* The registry has released the channel, and no closure holds it any more.
Freed(c) ==
    /\ link[c] = "closed" /\ leaving[c] = NoLogin
    /\ mailbox[c] = <<>> /\ asking[c] = NoLogin
    /\ link' = [link EXCEPT ![c] = "freed"]
    /\ UNCHANGED <<sent, mailbox, late, online, asking, leaving, inner, found, faults>>

-----------------------------------------------------------------------------
(* The actors.                                                             *)

\* onPlayerLogin: createPlayer.
LoginCreates(c) ==
    /\ mailbox[c] # <<>> /\ asking[c] = NoLogin
    /\ LET l == Head(mailbox[c])
       IN  /\ CreatePlayer(l)
           /\ asking' = [asking EXCEPT ![c] = l]
           /\ late' = IF link[c] = "open" THEN late ELSE late \cup {l}
    /\ mailbox' = [mailbox EXCEPT ![c] = Tail(@)]
    /\ UNCHANGED <<link, sent, leaving, inner, found>>

\* onPlayerLogin: the message to the game, lost if no game is connected.
LoginSends(c) ==
    /\ asking[c] # NoLogin
    /\ asking' = [asking EXCEPT ![c] = NoLogin]
    /\ asked' \in {asked, asked \cup {asking[c]}}
    /\ UNCHANGED <<link, sent, mailbox, late, online, leaving, told, answers, found, faults>>

\* The game answers a login; the answer is posted to the actor of the uid.
GameAnswers(l) ==
    /\ l \in asked
    /\ asked' = asked \ {l}
    /\ answers' = answers \cup {l}
    /\ UNCHANGED <<link, sent, mailbox, late, online, asking, leaving, told, found, faults>>

\* onInnerLoginRes: findPlayer, whose result is used after the unlock.
FindPlayer(l) ==
    LET u == LoginUid[l]
        o == table[u]
    IN  /\ l \in answers /\ found[u] = Nobody
        /\ answers' = answers \ {l}
        /\ found' = [found EXCEPT ![u] =
                IF o = NoObj THEN Nobody ELSE [obj |-> o, login |-> holds[o]]]
        /\ UNCHANGED <<link, sent, mailbox, late, online, asking, leaving, asked, told, faults>>

\* onInnerLoginRes: setValid, and the answer to the client on the channel that
\* the object names by now.
ReplyToClient(u) ==
    LET o == found[u].obj
    IN  /\ found[u] # Nobody
        /\ found' = [found EXCEPT ![u] = Nobody]
        /\ faults' = faults
               \cup (IF o \in free \/ holds[o] # found[u].login \/ table[u] # o
                     THEN {"recycledPlayer"} ELSE {})
               \cup (IF link[ChannelOf(o)] = "freed" THEN {"freedChannel"} ELSE {})
        /\ UNCHANGED <<link, sent, mailbox, late, online, asking, leaving, inner>>

-----------------------------------------------------------------------------
Next ==
    \/ \E l \in Logins : Request(l) \/ GameAnswers(l) \/ FindPlayer(l)
    \/ \E c \in Chans : \/ Closed(c) \/ DisconnectSends(c) \/ Freed(c)
                        \/ LoginCreates(c) \/ LoginSends(c)
    \/ \E u \in Uids : ReplyToClient(u)

Spec == Init /\ [][Next]_vars

-----------------------------------------------------------------------------
(* Properties.                                                             *)

\* Did the connection ask for more than one player?
TwoUids(c) == \E l, k \in sent : LoginChan[l] = c /\ LoginChan[k] = c /\ LoginUid[l] # LoginUid[k]

\* No Player object serves two sessions: what is in the table is not free, and
\* is there once.  (ObjectPool.hpp: never the same object to two threads.)
PoolExclusive ==
    \A u \in Uids : table[u] # NoObj =>
        /\ table[u] \notin free
        /\ \A v \in Uids : table[v] = table[u] => v = u

\* userData never dangles: the player on a channel is in the table, and was made
\* for that channel.  createPlayer unlinks the session it kicks
\* (PlayerOnlineService.cpp:60-65), and removePlayerByChannel relies on it (:96).
\* Three comments tell of the time before, when a kick left userData dangling:
\* GatewayServerNetWorkHandler.cpp:81, PlayerOnlineService.h:27 and, of a test that
\* is never true, PlayerOnlineService.cpp:103.
UserDataFresh ==
    \A c \in Chans : userData[c] # NoObj =>
        /\ table[Pid(userData[c])] = userData[c]
        /\ ChannelOf(userData[c]) = c

\* A disconnect finds the session: what is in the table hangs on its channel,
\* unless the connection logged in for two players or had been closed before.
EntryReachable ==
    \A u \in Uids : LET o == table[u] IN
        o # NoObj => userData[ChannelOf(o)] = o \/ TwoUids(ChannelOf(o))

\* A session of a closed connection stays in the table only if its login ran
\* after on_closed, or the connection logged in for two players.
EndedSessionsLeave ==
    \A u \in Uids : LET o == table[u] IN
        o # NoObj /\ link[ChannelOf(o)] # "open" => holds[o] \in late \/ TwoUids(ChannelOf(o))

\* Nobody uses a Player after it was recycled.  (removePlayer's comment: another
\* thread may reuse it at once, the caller must not touch it again.)
NoRecycledPlayerUsed == "recycledPlayer" \notin faults

\* When nothing of a closed connection is left to run, the table has no session
\* of it.  (onClosed's comment: a disconnect takes the session out of the table.)
OfflineLeaves ==
    \A c \in Chans : link[c] = "freed" =>
        \A u \in Uids : table[u] # NoObj => ChannelOf(table[u]) # c

=============================================================================
