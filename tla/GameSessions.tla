---------------------------- MODULE GameSessions ----------------------------
(***************************************************************************)
(* The players of the game server: logins and disconnects that the gateway *)
(* sends over one connection or another (LoginService), the table of       *)
(* Players that the logic actors share without a lock (PlayerMgr), and     *)
(* what a Player's module loads from the database and saves to it (Module, *)
(* RoleModule).                                                            *)
(*                                                                         *)
(* The messages of one connection are handled by one actor in the order    *)
(* they came; those of two connections run side by side.  A Player is      *)
(* named by the login that made it, since no login makes two.  Nothing     *)
(* changes the data of a Player in memory: what matters is whose record it *)
(* holds, the stored one or one made from nothing.                         *)
(***************************************************************************)
EXTENDS Naturals, Sequences

CONSTANTS
    Pids,      \* the players; as a message, the disconnect of one
    Logins,    \* login messages, each sent once; as objects, the Players they make
    LoginPid,  \* the player each is for
    Conns,     \* the connections, each with an actor of its own
    NoPlayer,  \* nullptr
    NoConn,    \* the channel of a Player that has none
    Leaves,    \* how many disconnects are sent
    Failures   \* how many database calls may fail

ASSUME GameAssumption ==
    /\ LoginPid \in [Logins -> Pids]
    /\ Logins \cap Pids = {}
    /\ NoPlayer \notin Logins

VARIABLES
    link,      \* link[c]: "up" while the loop's registry has the channel, or "gone"
    sent,      \* the logins sent so far
    leaves,    \* the number of disconnects sent so far
    mail,      \* mail[c]: what the actor of c has to handle, the head in progress
    step,      \* step[c]: where that actor is in its message
    cur,       \* cur[c]: the Player it works on
    table,     \* PlayerMgr::players
    channel,   \* channel[l]: the channel of Player l
    data,      \* data[l]: dataDO_ of its RoleModule
    dirty,     \* dirty[l]: is_dirty of its RoleModule
    stored,    \* stored[p]: the record of p in the database
    failures,  \* the number of database calls that failed so far
    crashed,   \* the process went through a null pointer
    had,       \* history: the players whose record was there from the start
    misread,   \* history: the players whose record could not be read
    doubled,   \* history: the players with two logins at work at once
    raced,     \* history: two actors used the table at once, one to write
    served,    \* history: served[l]: the Player login l was handled with
    ended      \* history: the players whose last disconnect to find a Player
               \*   went to its end without an error

playerVars == <<channel, data, dirty>>
dbVars == <<stored, failures>>
history == <<had, misread, doubled, raced, served, ended>>
vars == <<link, sent, leaves, mail, step, cur, table, playerVars, dbVars, crashed,
          history>>

Step == {"idle", "load", "attach", "enter", "insert", "leave", "logout", "save"}
Data == {"none", "default", "saved"}
Stored == {"absent", "default", "saved"}

TypeOK ==
    /\ link \in [Conns -> {"up", "gone"}]
    /\ sent \subseteq Logins
    /\ leaves \in Nat
    /\ mail \in [Conns -> Seq(Logins \cup Pids)]
    /\ step \in [Conns -> Step]
    /\ cur \in [Conns -> Logins \cup {NoPlayer}]
    /\ table \in [Pids -> Logins \cup {NoPlayer}]
    /\ channel \in [Logins -> Conns \cup {NoConn}]
    /\ data \in [Logins -> Data]
    /\ dirty \in [Logins -> BOOLEAN]
    /\ stored \in [Pids -> Stored]
    /\ failures \in Nat
    /\ crashed \in BOOLEAN
    /\ had \subseteq Pids
    /\ misread \subseteq Pids
    /\ doubled \subseteq Pids
    /\ raced \in BOOLEAN
    /\ served \in [Logins -> Logins \cup {NoPlayer}]
    /\ ended \subseteq Pids

Init ==
    /\ link = [c \in Conns |-> "up"]
    /\ sent = {}
    /\ leaves = 0
    /\ mail = [c \in Conns |-> <<>>]
    /\ step = [c \in Conns |-> "idle"]
    /\ cur = [c \in Conns |-> NoPlayer]
    /\ table = [p \in Pids |-> NoPlayer]
    /\ channel = [l \in Logins |-> NoConn]
    /\ data = [l \in Logins |-> "none"]
    /\ dirty = [l \in Logins |-> FALSE]
    /\ had \in SUBSET Pids
    /\ stored = [p \in Pids |-> IF p \in had THEN "saved" ELSE "absent"]
    /\ failures = 0
    /\ crashed = FALSE
    /\ misread = {} /\ doubled = {} /\ raced = FALSE
    /\ served = [l \in Logins |-> NoPlayer]
    /\ ended = {}

-----------------------------------------------------------------------------
(* The gateway and the connections *)

LoginArrives(c, l) ==
    /\ link[c] = "up"
    /\ l \notin sent
    /\ sent' = sent \cup {l}
    /\ mail' = [mail EXCEPT ![c] = Append(@, l)]
    /\ UNCHANGED <<link, leaves, step, cur, table, playerVars, dbVars, crashed, history>>

LeaveArrives(c, p) ==
    /\ link[c] = "up"
    /\ leaves < Leaves
    /\ leaves' = leaves + 1
    /\ mail' = [mail EXCEPT ![c] = Append(@, p)]
    /\ UNCHANGED <<link, sent, step, cur, table, playerVars, dbVars, crashed, history>>

\* the connection was closed and its loop let go of the channel
Release(c) ==
    /\ link[c] = "up"
    /\ link' = [link EXCEPT ![c] = "gone"]
    /\ UNCHANGED <<sent, leaves, mail, step, cur, table, playerVars, dbVars, crashed,
                   history>>

-----------------------------------------------------------------------------
(* The table *)

Message(c) == Head(mail[c])

\* the player the actor of c works for
PidAt(c) == IF Message(c) \in Logins THEN LoginPid[Message(c)] ELSE Message(c)

\* c is in the insert of a new key
Writes(c) == step[c] = "insert" /\ table[PidAt(c)] = NoPlayer

\* Mutant of Found: a Player is made without a look at the table.
FoundNever(c, p) == {NoPlayer}

\* what find may return: an insert in progress may hide an entry
Found(c, p) ==
    {table[p]} \cup (IF \E d \in Conns \ {c} : Writes(d) THEN {NoPlayer} ELSE {})

Reads(c) == raced' = (raced \/ \E d \in Conns \ {c} : Writes(d))

Goes(c, s) == step' = [step EXCEPT ![c] = s]

Ends(c) ==
    /\ Goes(c, "idle")
    /\ mail' = [mail EXCEPT ![c] = Tail(@)]
    /\ cur' = [cur EXCEPT ![c] = NoPlayer]

\* Channel::channelPtr, as setChannel uses it
ChannelPtr(c) == IF link[c] = "up" THEN c ELSE NoConn

-----------------------------------------------------------------------------
(* onPlayerLogin *)

\* a login of p has begun and not ended
AtWork(p) ==
    \E c \in Conns : step[c] \in {"load", "attach", "enter", "insert"} /\ PidAt(c) = p

\* getPlayer, and newPlayer when it returns null
LoginBegins(c) ==
    /\ step[c] = "idle" /\ mail[c] # <<>> /\ Message(c) \in Logins
    /\ \E found \in Found(c, PidAt(c)) :
         IF found = NoPlayer
         THEN /\ cur' = [cur EXCEPT ![c] = Message(c)]
              /\ channel' = [channel EXCEPT ![Message(c)] = ChannelPtr(c)]
              /\ Goes(c, "load")
         ELSE /\ cur' = [cur EXCEPT ![c] = found]
              /\ Goes(c, "attach")
              /\ UNCHANGED channel
    /\ Reads(c)
    /\ doubled' = doubled \cup {p \in {PidAt(c)} : table[p] = NoPlayer /\ AtWork(p)}
    /\ UNCHANGED <<link, sent, leaves, mail, table, data, dirty, dbVars, crashed, had,
                   misread, served, ended>>

Attaches(c) ==
    /\ step[c] = "attach"
    /\ channel' = [channel EXCEPT ![cur[c]] = ChannelPtr(c)]
    /\ Goes(c, "enter")
    /\ UNCHANGED <<link, sent, leaves, mail, cur, table, data, dirty, dbVars, crashed,
                   history>>

\* Mutant of Record: the record is taken as it was read.
RecordAsRead(p) == stored[p]

\* Mutant of Record: the record is made anew.
RecordAnew(p) == "default"

\* what loadDataFromDB leaves in dataDO_ when it can read: the record, or one
\* that fromDO(nullptr) makes
Record(p) == IF stored[p] = "absent" THEN "default" ELSE stored[p]

LoadVars == <<link, sent, leaves, mail, cur, table, channel, dirty, stored, crashed,
              had, doubled, raced, served, ended>>

Loads(c) ==
    /\ step[c] = "load"
    /\ data' = [data EXCEPT ![cur[c]] = Record(PidAt(c))]
    /\ Goes(c, "enter")
    /\ UNCHANGED <<LoadVars, failures, misread>>

\* find_one fails, and an optional without a value says so as little as no record
LoadFails(c) ==
    /\ step[c] = "load"
    /\ failures < Failures
    /\ failures' = failures + 1
    /\ data' = [data EXCEPT ![cur[c]] = "default"]
    /\ misread' = misread \cup {PidAt(c)}
    /\ Goes(c, "enter")
    /\ UNCHANGED LoadVars

\* Mutant of MarkDirty: onLogin forgets it.
MarkDirtyNot(l) == UNCHANGED dirty

MarkDirty(l) == dirty' = [dirty EXCEPT ![l] = TRUE]

\* onLogin, and addPlayer up to its write
Enters(c) ==
    /\ step[c] = "enter"
    /\ MarkDirty(cur[c])
    /\ Goes(c, "insert")
    /\ raced' = (raced \/ \E d \in Conns \ {c} :
                            \/ Writes(d)
                            \/ step[d] = "insert" /\ table[PidAt(c)] = NoPlayer)
    /\ UNCHANGED <<link, sent, leaves, mail, cur, table, channel, data, dbVars, crashed,
                   had, misread, doubled, served, ended>>

\* insert leaves a key that is there alone.  After a race any entry may be lost
Inserts(c) ==
    /\ step[c] = "insert"
    /\ \E lost \in IF raced THEN SUBSET Pids ELSE {{}} :
         table' = [p \in Pids |-> IF p \in lost THEN NoPlayer
                                  ELSE IF p = PidAt(c) /\ table[p] = NoPlayer THEN cur[c]
                                  ELSE table[p]]
    /\ served' = [served EXCEPT ![Message(c)] = cur[c]]
    /\ Ends(c)
    /\ UNCHANGED <<link, sent, leaves, playerVars, dbVars, crashed, had, misread,
                   doubled, raced, ended>>

-----------------------------------------------------------------------------
(* onPlayerDisconnect *)

LeaveVars == <<link, sent, leaves, table, playerVars, had, misread, doubled, served>>

\* getPlayer; without a Player there is nothing to do
LeaveBegins(c) ==
    /\ step[c] = "idle" /\ mail[c] # <<>> /\ Message(c) \in Pids
    /\ \E found \in Found(c, PidAt(c)) :
         IF found = NoPlayer
         THEN Ends(c)
         ELSE cur' = [cur EXCEPT ![c] = found] /\ Goes(c, "leave") /\ UNCHANGED mail
    /\ Reads(c)
    /\ UNCHANGED <<LeaveVars, dbVars, crashed, ended>>

\* the first getChannel: a Player without a channel is not logged out
LeaveTests(c) ==
    /\ step[c] = "leave"
    /\ IF channel[cur[c]] = NoConn
       THEN Ends(c) /\ ended' = ended \ {PidAt(c)}
       ELSE Goes(c, "logout") /\ UNCHANGED <<mail, cur, ended>>
    /\ UNCHANGED <<LeaveVars, dbVars, crashed, raced>>

\* the second getChannel, whose result is used at once
LogsOut(c) ==
    /\ step[c] = "logout"
    /\ IF channel[cur[c]] = NoConn
       THEN crashed' = TRUE /\ UNCHANGED step
       ELSE Goes(c, "save") /\ UNCHANGED crashed
    /\ UNCHANGED <<LeaveVars, mail, cur, dbVars, raced, ended>>

\* saveDataToDB, which leaves is_dirty set
Saves(c) ==
    /\ step[c] = "save"
    /\ stored' = IF dirty[cur[c]] /\ data[cur[c]] # "none"
                 THEN [stored EXCEPT ![PidAt(c)] = data[cur[c]]]
                 ELSE stored
    /\ ended' = ended \cup {PidAt(c)}
    /\ Ends(c)
    /\ UNCHANGED <<LeaveVars, failures, crashed, raced>>

\* replace_one fails, and nobody looks at what update returns
SaveFails(c) ==
    /\ step[c] = "save"
    /\ dirty[cur[c]] /\ data[cur[c]] # "none"
    /\ failures < Failures
    /\ failures' = failures + 1
    /\ ended' = ended \ {PidAt(c)}
    /\ Ends(c)
    /\ UNCHANGED <<LeaveVars, stored, crashed, raced>>

-----------------------------------------------------------------------------
Arrives ==
    \E c \in Conns :
        \/ \E l \in Logins : LoginArrives(c, l)
        \/ \E p \in Pids : LeaveArrives(c, p)
        \/ Release(c)

LoginNext(c) ==
    LoginBegins(c) \/ Attaches(c) \/ Loads(c) \/ LoadFails(c) \/ Enters(c) \/ Inserts(c)

LeaveNext(c) ==
    LeaveBegins(c) \/ LeaveTests(c) \/ LogsOut(c) \/ Saves(c) \/ SaveFails(c)

Next ==
    /\ ~crashed
    /\ Arrives \/ \E c \in Conns : LoginNext(c) \/ LeaveNext(c)

Spec == Init /\ [][Next]_vars

-----------------------------------------------------------------------------
(***************************************************************************)
(* A record that was in the database is replaced by one made from nothing  *)
(* only for a player whose record could not be read (Module.h:39-45):      *)
(* logins and disconnects of one player on several connections, a crowded  *)
(* table, lost inserts and failed saves cannot do it.                      *)
(***************************************************************************)
DataLostOnlyAfterError == \A p \in had : stored[p] = "saved" \/ p \in misread

(***************************************************************************)
(* The Player a login was answered for is the one the table gives to every *)
(* later message (LoginService.cpp:12-26), unless two logins of the player *)
(* overlapped and the second insert lost, or two actors were in the        *)
(* unguarded table at once.                                                *)
(***************************************************************************)
SessionsAttached ==
    \A l \in Logins :
        served[l] # NoPlayer /\ ~raced /\ LoginPid[l] \notin doubled
        => table[LoginPid[l]] = served[l]

(***************************************************************************)
(* When the last disconnect that found the Player went to its end, the     *)
(* database holds the record of that Player, whatever logins came before,  *)
(* during and after (LoginService.cpp:54-56, Module.h:49-56), as long as   *)
(* no two actors were in the table at once.                                *)
(***************************************************************************)
EndedSessionsSaved ==
    \A p \in ended :
        ~raced => table[p] # NoPlayer /\ stored[p] = data[table[p]]

(***************************************************************************)
(* A record that was in the database is never replaced by one made from    *)
(* nothing.  (MongodbDAO.hpp:30-31 asks this of those who call find_one.)  *)
(***************************************************************************)
SavedDataKept == \A p \in had : stored[p] = "saved"
=============================================================================
