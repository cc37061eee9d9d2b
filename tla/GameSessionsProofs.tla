------------------------- MODULE GameSessionsProofs -------------------------
(***************************************************************************)
(* Theorems about GameSessions, for any number of players, logins,         *)
(* connections, disconnects and failing calls of the database.             *)
(***************************************************************************)
EXTENDS GameSessions, TLAPS

LoginSteps == {"load", "attach", "enter", "insert"}
LeaveSteps == {"leave", "logout", "save"}

\* an actor at work has its message at the head of its mailbox, and a Player of
\* the player the message is about
WorkOK ==
    \A c \in Conns :
        step[c] # "idle" =>
            /\ mail[c] # <<>>
            /\ cur[c] \in Logins
            /\ LoginPid[cur[c]] = PidAt(c)
            /\ step[c] \in LoginSteps => Message(c) \in Logins
            /\ step[c] \in LeaveSteps => Message(c) \in Pids

\* the table gives Players of the player it was asked for
TableOK == \A p \in Pids : table[p] # NoPlayer => LoginPid[table[p]] = p

\* a Player of a record that can be read holds that record once it is loaded
DataOK ==
    \A l \in Logins :
        LoginPid[l] \in had /\ LoginPid[l] \notin misread => data[l] \in {"none", "saved"}

DInv == TypeOK /\ WorkOK /\ TableOK /\ DataOK /\ DataLostOnlyAfterError

-----------------------------------------------------------------------------
(* Mailboxes *)

LEMMA MessageType ==
    ASSUME TypeOK, NEW c \in Conns, mail[c] # <<>>
    PROVE  /\ Message(c) \in Logins \cup Pids
           /\ PidAt(c) \in Pids
           /\ Tail(mail[c]) \in Seq(Logins \cup Pids)
<1>1. mail[c] \in Seq(Logins \cup Pids)  BY DEF TypeOK
<1>2. Head(mail[c]) \in Logins \cup Pids /\ Tail(mail[c]) \in Seq(Logins \cup Pids)
  BY <1>1
<1> QED  BY <1>2, GameAssumption DEF Message, PidAt

\* a message that arrives does not change the one an actor works on
LEMMA ArrivalKeeps ==
    ASSUME TypeOK, NEW c \in Conns, NEW m \in Logins \cup Pids,
           mail' = [mail EXCEPT ![c] = Append(@, m)]
    PROVE  /\ mail' \in [Conns -> Seq(Logins \cup Pids)]
           /\ \A d \in Conns : mail[d] # <<>> =>
                 mail'[d] # <<>> /\ Message(d)' = Message(d) /\ PidAt(d)' = PidAt(d)
<1>1. mail \in [Conns -> Seq(Logins \cup Pids)]  BY DEF TypeOK
<1>2. mail[c] \in Seq(Logins \cup Pids)  BY <1>1
<1>3. /\ Append(mail[c], m) \in Seq(Logins \cup Pids)
      /\ Append(mail[c], m) # <<>>
      /\ mail[c] # <<>> => Head(Append(mail[c], m)) = Head(mail[c])
  BY <1>2
<1>4. mail' \in [Conns -> Seq(Logins \cup Pids)]  BY <1>1, <1>3
<1>5. ASSUME NEW d \in Conns, mail[d] # <<>>
      PROVE  mail'[d] # <<>> /\ Message(d)' = Message(d) /\ PidAt(d)' = PidAt(d)
  <2>1. mail'[d] = IF d = c THEN Append(mail[c], m) ELSE mail[d]  BY <1>1
  <2>2. mail'[d] # <<>> /\ Head(mail'[d]) = Head(mail[d])  BY <2>1, <1>3, <1>5
  <2> QED  BY <2>2 DEF Message, PidAt
<1> QED  BY <1>4, <1>5

\* while nothing is posted and nothing taken, messages stay as they are
LEMMA MailStays ==
    ASSUME UNCHANGED mail, NEW c
    PROVE  Message(c)' = Message(c) /\ PidAt(c)' = PidAt(c)
  BY DEF Message, PidAt
-----------------------------------------------------------------------------
(* What an actor does keeps WorkOK *)

WorkAt(c, s, player) ==
    s # "idle" =>
        /\ mail[c] # <<>>
        /\ player \in Logins
        /\ LoginPid[player] = PidAt(c)
        /\ s \in LoginSteps => Message(c) \in Logins
        /\ s \in LeaveSteps => Message(c) \in Pids

LEMMA GoesKeepsWork ==
    ASSUME TypeOK, WorkOK, UNCHANGED mail, NEW c \in Conns, NEW s \in Step, Goes(c, s),
           NEW player \in Logins \cup {NoPlayer}, cur' = [cur EXCEPT ![c] = player],
           WorkAt(c, s, player)
    PROVE  WorkOK'
<1> SUFFICES ASSUME NEW d \in Conns, step'[d] # "idle"
             PROVE  /\ mail'[d] # <<>>
                    /\ cur'[d] \in Logins
                    /\ LoginPid[cur'[d]] = PidAt(d)'
                    /\ step'[d] \in LoginSteps => Message(d)' \in Logins
                    /\ step'[d] \in LeaveSteps => Message(d)' \in Pids
  BY DEF WorkOK
<1>1. Message(d)' = Message(d) /\ PidAt(d)' = PidAt(d)  BY MailStays
<1>2. step'[d] = IF d = c THEN s ELSE step[d]  BY DEF Goes, TypeOK
<1>3. cur'[d] = IF d = c THEN player ELSE cur[d]  BY DEF TypeOK
<1>4. CASE d = c  BY <1>1, <1>2, <1>3, <1>4 DEF WorkAt
<1>5. CASE d # c  BY <1>1, <1>2, <1>3, <1>5 DEF WorkOK
<1> QED  BY <1>4, <1>5

LEMMA EndsKeepsWork ==
    ASSUME TypeOK, WorkOK, NEW c \in Conns, mail[c] # <<>>, Ends(c)
    PROVE  /\ WorkOK'
           /\ mail' \in [Conns -> Seq(Logins \cup Pids)]
           /\ step' \in [Conns -> Step]
           /\ cur' \in [Conns -> Logins \cup {NoPlayer}]
<1>1. mail' \in [Conns -> Seq(Logins \cup Pids)]  BY MessageType DEF Ends, TypeOK
<1>2. step' \in [Conns -> Step]  BY DEF Ends, Goes, TypeOK, Step
<1>3. cur' \in [Conns -> Logins \cup {NoPlayer}]  BY DEF Ends, TypeOK
<1>4. WorkOK'
  <2> SUFFICES ASSUME NEW d \in Conns, step'[d] # "idle"
               PROVE  /\ mail'[d] # <<>>
                      /\ cur'[d] \in Logins
                      /\ LoginPid[cur'[d]] = PidAt(d)'
                      /\ step'[d] \in LoginSteps => Message(d)' \in Logins
                      /\ step'[d] \in LeaveSteps => Message(d)' \in Pids
    BY DEF WorkOK
  <2>1. d # c  BY DEF Ends, Goes, TypeOK
  <2>2. mail'[d] = mail[d] /\ step'[d] = step[d] /\ cur'[d] = cur[d]
    BY <2>1 DEF Ends, Goes, TypeOK
  <2>3. Message(d)' = Message(d) /\ PidAt(d)' = PidAt(d)  BY <2>2 DEF Message, PidAt
  <2> QED  BY <2>2, <2>3 DEF WorkOK
<1> QED  BY <1>1, <1>2, <1>3, <1>4

\* without a message begun there is nothing to do for the invariant of the table
LEMMA AtWork1 ==
    ASSUME TypeOK, WorkOK, NEW c \in Conns, step[c] # "idle"
    PROVE  /\ mail[c] # <<>> /\ cur[c] \in Logins /\ PidAt(c) \in Pids
           /\ LoginPid[cur[c]] = PidAt(c)
  BY MessageType DEF WorkOK

-----------------------------------------------------------------------------
(* The steps *)

LEMMA ArrivesKeeps == DInv /\ Arrives => DInv'
<1> SUFFICES ASSUME DInv, NEW c \in Conns,
                    \/ \E l \in Logins : LoginArrives(c, l)
                    \/ \E p \in Pids : LeaveArrives(c, p)
                    \/ Release(c)
             PROVE  DInv'
  BY DEF Arrives
<1> USE DEF DInv
<1>1. UNCHANGED <<step, cur, table, playerVars, dbVars, crashed, history>>
  BY DEF LoginArrives, LeaveArrives, Release
<1>2. /\ mail' \in [Conns -> Seq(Logins \cup Pids)]
      /\ \A d \in Conns : mail[d] # <<>> =>
            mail'[d] # <<>> /\ Message(d)' = Message(d) /\ PidAt(d)' = PidAt(d)
  <2>1. CASE \E l \in Logins : LoginArrives(c, l)
    BY <2>1, ArrivalKeeps DEF LoginArrives
  <2>2. CASE \E p \in Pids : LeaveArrives(c, p)
    BY <2>2, ArrivalKeeps DEF LeaveArrives
  <2>3. CASE Release(c)  BY <2>3, MailStays DEF Release, TypeOK
  <2> QED  BY <2>1, <2>2, <2>3
<1>3. TypeOK'
  <2>1. link' \in [Conns -> {"up", "gone"}]
    BY DEF LoginArrives, LeaveArrives, Release, TypeOK
  <2>2. sent' \subseteq Logins  BY DEF LoginArrives, LeaveArrives, Release, TypeOK
  <2>3. leaves' \in Nat
    <3>1. leaves \in Nat  BY DEF TypeOK
    <3>2. leaves' = leaves + 1 \/ leaves' = leaves
      BY DEF LoginArrives, LeaveArrives, Release
    <3> QED  BY <3>1, <3>2
  <2> QED
    BY <1>1, <1>2, <2>1, <2>2, <2>3 DEF TypeOK, playerVars, dbVars, history
<1>4. WorkOK'  BY <1>1, <1>2 DEF WorkOK
<1>5. TableOK' /\ DataOK' /\ DataLostOnlyAfterError'
  BY <1>1 DEF TableOK, DataOK, DataLostOnlyAfterError, playerVars, dbVars, history
<1> QED  BY <1>3, <1>4, <1>5

LEMMA LoginBeginsKeeps == \A c \in Conns : DInv /\ LoginBegins(c) => DInv'
<1> SUFFICES ASSUME NEW c \in Conns, DInv, LoginBegins(c)  PROVE DInv'
  OBVIOUS
<1> USE DEF DInv
<1>1. Message(c) \in Logins /\ mail[c] # <<>> /\ PidAt(c) = LoginPid[Message(c)]
  BY DEF LoginBegins, PidAt
<1>2. PidAt(c) \in Pids  BY <1>1, MessageType
<1>3. PICK found \in Found(c, PidAt(c)) :
         IF found = NoPlayer
         THEN /\ cur' = [cur EXCEPT ![c] = Message(c)]
              /\ channel' = [channel EXCEPT ![Message(c)] = ChannelPtr(c)]
              /\ Goes(c, "load")
         ELSE /\ cur' = [cur EXCEPT ![c] = found]
              /\ Goes(c, "attach")
              /\ UNCHANGED channel
  BY DEF LoginBegins
<1>4. found # NoPlayer => found = table[PidAt(c)] /\ found \in Logins
  BY <1>2 DEF Found, TypeOK
<1>5. UNCHANGED <<link, sent, leaves, mail, table, data, dirty, dbVars, crashed, had,
                  misread, served, ended>>
  BY DEF LoginBegins
<1>6. WorkOK'
  <2>1. CASE found = NoPlayer
    BY <2>1, <1>1, <1>3, <1>5, GoesKeepsWork DEF WorkAt, LeaveSteps, Step
  <2>2. CASE found # NoPlayer
    BY <2>2, <1>1, <1>2, <1>3, <1>4, <1>5, GoesKeepsWork
       DEF WorkAt, LeaveSteps, Step, TableOK
  <2> QED  BY <2>1, <2>2
<1>7. TypeOK'
  <2>1. step' \in [Conns -> Step] /\ cur' \in [Conns -> Logins \cup {NoPlayer}]
    BY <1>1, <1>3, <1>4 DEF Goes, TypeOK, Step
  <2>2. channel' \in [Logins -> Conns \cup {NoConn}]
    BY <1>1, <1>3 DEF ChannelPtr, TypeOK
  <2>3. raced' \in BOOLEAN  BY DEF LoginBegins, Reads
  <2>4. doubled' \subseteq Pids  BY <1>2 DEF LoginBegins, TypeOK
  <2> QED  BY <1>5, <2>1, <2>2, <2>3, <2>4 DEF TypeOK, dbVars
<1>8. TableOK' /\ DataOK' /\ DataLostOnlyAfterError'
  BY <1>5 DEF TableOK, DataOK, DataLostOnlyAfterError, dbVars
<1> QED  BY <1>6, <1>7, <1>8

LEMMA AttachesKeeps == \A c \in Conns : DInv /\ Attaches(c) => DInv'
<1> SUFFICES ASSUME NEW c \in Conns, DInv, Attaches(c)  PROVE DInv'
  OBVIOUS
<1> USE DEF DInv
<1>1. step[c] = "attach"  BY DEF Attaches
<1>2. WorkOK'
  <2>1. cur[c] \in Logins /\ cur' = [cur EXCEPT ![c] = cur[c]]
    BY <1>1, AtWork1 DEF Attaches, TypeOK
  <2>2. WorkAt(c, "enter", cur[c])
    BY <1>1 DEF WorkOK, WorkAt, LoginSteps, LeaveSteps
  <2> QED  BY <2>1, <2>2, GoesKeepsWork DEF Attaches, Step
<1>3. TypeOK'
  <2>1. step' \in [Conns -> Step]  BY DEF Attaches, Goes, TypeOK, Step
  <2>2. channel' \in [Logins -> Conns \cup {NoConn}]
    BY DEF Attaches, ChannelPtr, TypeOK
  <2> QED  BY <2>1, <2>2 DEF Attaches, TypeOK, dbVars, history
<1>4. TableOK' /\ DataOK' /\ DataLostOnlyAfterError'
  BY DEF Attaches, TableOK, DataOK, DataLostOnlyAfterError, dbVars, history
<1> QED  BY <1>2, <1>3, <1>4

\* an error is the only way to a default record where there was a saved one
LEMMA LoadKeeps == \A c \in Conns : DInv /\ (Loads(c) \/ LoadFails(c)) => DInv'
<1> SUFFICES ASSUME NEW c \in Conns, DInv, Loads(c) \/ LoadFails(c)  PROVE DInv'
  OBVIOUS
<1> USE DEF DInv
<1>1. step[c] = "load" /\ UNCHANGED LoadVars /\ Goes(c, "enter")
  BY DEF Loads, LoadFails
<1>2. cur[c] \in Logins /\ PidAt(c) \in Pids /\ LoginPid[cur[c]] = PidAt(c)
  BY <1>1, AtWork1
<1>3. PICK d \in {"default", "saved"} : data' = [data EXCEPT ![cur[c]] = d]
  BY <1>2 DEF Loads, LoadFails, Record, TypeOK, Stored
<1>4. misread' = misread \/ (misread' = misread \cup {PidAt(c)})
  BY DEF Loads, LoadFails
<1>5. PidAt(c) \in had /\ PidAt(c) \notin misread' => d = "saved"
  <2>1. CASE Loads(c)
    <3>1. PidAt(c) \in had /\ PidAt(c) \notin misread' => stored[PidAt(c)] = "saved"
      BY <1>2, <2>1 DEF Loads, DataLostOnlyAfterError
    <3>2. data'[cur[c]] = Record(PidAt(c)) /\ data'[cur[c]] = d
      BY <1>2, <1>3, <2>1 DEF Loads, TypeOK
    <3> QED  BY <3>1, <3>2 DEF Record
  <2>2. CASE LoadFails(c)  BY <2>2 DEF LoadFails
  <2> QED  BY <2>1, <2>2
<1>6. WorkOK'
  <2>1. cur' = [cur EXCEPT ![c] = cur[c]] /\ UNCHANGED mail
    BY <1>1 DEF LoadVars, TypeOK
  <2>2. WorkAt(c, "enter", cur[c])
    BY <1>1 DEF WorkOK, WorkAt, LoginSteps, LeaveSteps
  <2> QED  BY <1>1, <1>2, <2>1, <2>2, GoesKeepsWork DEF Step
<1>7. TypeOK'
  <2>1. step' \in [Conns -> Step]  BY <1>1 DEF Goes, TypeOK, Step
  <2>2. data' \in [Logins -> Data]  BY <1>3 DEF TypeOK, Data
  <2>3. failures' \in Nat
    <3>1. failures \in Nat  BY DEF TypeOK
    <3>2. failures' = failures + 1 \/ failures' = failures  BY DEF Loads, LoadFails
    <3> QED  BY <3>1, <3>2
  <2>4. misread' \subseteq Pids  BY <1>2, <1>4 DEF TypeOK
  <2> QED  BY <1>1, <2>1, <2>2, <2>3, <2>4 DEF TypeOK, LoadVars
<1>8. TableOK'  BY <1>1 DEF TableOK, LoadVars
<1>9. DataOK'
  <2> SUFFICES ASSUME NEW l \in Logins, LoginPid[l] \in had, LoginPid[l] \notin misread'
               PROVE  data'[l] \in {"none", "saved"}
    BY <1>1 DEF DataOK, LoadVars
  <2>1. data'[l] = IF l = cur[c] THEN d ELSE data[l]  BY <1>3 DEF TypeOK
  <2> QED  BY <2>1, <1>2, <1>4, <1>5 DEF DataOK
<1>10. DataLostOnlyAfterError'
  BY <1>1, <1>4 DEF DataLostOnlyAfterError, LoadVars
<1> QED  BY <1>6, <1>7, <1>8, <1>9, <1>10

LEMMA EntersKeeps == \A c \in Conns : DInv /\ Enters(c) => DInv'
<1> SUFFICES ASSUME NEW c \in Conns, DInv, Enters(c)  PROVE DInv'
  OBVIOUS
<1> USE DEF DInv
<1>1. step[c] = "enter" /\ Goes(c, "insert")  BY DEF Enters
<1>2. UNCHANGED <<link, sent, leaves, mail, cur, table, channel, data, dbVars, crashed,
                  had, misread, doubled, served, ended>>
  BY DEF Enters
<1>3. cur[c] \in Logins  BY <1>1, AtWork1
<1>4. WorkOK'
  <2>1. cur' = [cur EXCEPT ![c] = cur[c]]  BY <1>2 DEF TypeOK
  <2>2. WorkAt(c, "insert", cur[c])
    BY <1>1 DEF WorkOK, WorkAt, LoginSteps, LeaveSteps
  <2> QED  BY <1>1, <1>2, <1>3, <2>1, <2>2, GoesKeepsWork DEF Step
<1>5. TypeOK'
  <2>1. step' \in [Conns -> Step]  BY <1>1 DEF Goes, TypeOK, Step
  <2>2. dirty' \in [Logins -> BOOLEAN]  BY <1>3 DEF Enters, MarkDirty, TypeOK
  <2>3. raced' \in BOOLEAN  BY DEF Enters
  <2> QED  BY <1>2, <2>1, <2>2, <2>3 DEF TypeOK, dbVars
<1>6. TableOK' /\ DataOK' /\ DataLostOnlyAfterError'
  BY <1>2 DEF TableOK, DataOK, DataLostOnlyAfterError, dbVars
<1> QED  BY <1>4, <1>5, <1>6

LEMMA InsertsKeeps == \A c \in Conns : DInv /\ Inserts(c) => DInv'
<1> SUFFICES ASSUME NEW c \in Conns, DInv, Inserts(c)  PROVE DInv'
  OBVIOUS
<1> USE DEF DInv
<1>1. step[c] = "insert" /\ Ends(c)  BY DEF Inserts
<1>2. UNCHANGED <<link, sent, leaves, playerVars, dbVars, crashed, had, misread,
                  doubled, raced, ended>>
  BY DEF Inserts
<1>3. /\ mail[c] # <<>> /\ cur[c] \in Logins /\ PidAt(c) \in Pids
      /\ LoginPid[cur[c]] = PidAt(c)
  BY <1>1, AtWork1
<1>4. Message(c) \in Logins  BY <1>1 DEF WorkOK, LoginSteps
<1>5. PICK lost \in SUBSET Pids :
        table' = [p \in Pids |-> IF p \in lost THEN NoPlayer
                                 ELSE IF p = PidAt(c) /\ table[p] = NoPlayer THEN cur[c]
                                 ELSE table[p]]
  BY DEF Inserts
<1>6. TypeOK'
  <2>1. table' \in [Pids -> Logins \cup {NoPlayer}]  BY <1>3, <1>5 DEF TypeOK
  <2>2. served' \in [Logins -> Logins \cup {NoPlayer}]
    BY <1>3, <1>4 DEF Inserts, TypeOK
  <2>3. /\ mail' \in [Conns -> Seq(Logins \cup Pids)]
        /\ step' \in [Conns -> Step]
        /\ cur' \in [Conns -> Logins \cup {NoPlayer}]
    BY <1>1, <1>3, EndsKeepsWork
  <2> QED  BY <1>2, <2>1, <2>2, <2>3 DEF TypeOK, playerVars, dbVars
<1>7. WorkOK'  BY <1>1, <1>3, EndsKeepsWork
<1>8. TableOK'  BY <1>3, <1>5 DEF TableOK
<1>9. DataOK' /\ DataLostOnlyAfterError'
  BY <1>2 DEF DataOK, DataLostOnlyAfterError, playerVars, dbVars
<1> QED  BY <1>6, <1>7, <1>8, <1>9

LEMMA LeaveBeginsKeeps == \A c \in Conns : DInv /\ LeaveBegins(c) => DInv'
<1> SUFFICES ASSUME NEW c \in Conns, DInv, LeaveBegins(c)  PROVE DInv'
  OBVIOUS
<1> USE DEF DInv
<1>1. Message(c) \in Pids /\ mail[c] # <<>>  BY DEF LeaveBegins
<1>2. PidAt(c) \in Pids  BY <1>1, MessageType
<1>3. UNCHANGED <<LeaveVars, dbVars, crashed, ended>> /\ raced' \in BOOLEAN
  BY DEF LeaveBegins, Reads
<1>4. PICK found \in Found(c, PidAt(c)) :
         IF found = NoPlayer
         THEN Ends(c)
         ELSE cur' = [cur EXCEPT ![c] = found] /\ Goes(c, "leave") /\ UNCHANGED mail
  BY DEF LeaveBegins
<1>5. found # NoPlayer =>
         found \in Logins /\ LoginPid[found] = PidAt(c)
  BY <1>2 DEF Found, TypeOK, TableOK
<1>6. /\ WorkOK'
      /\ mail' \in [Conns -> Seq(Logins \cup Pids)]
      /\ step' \in [Conns -> Step]
      /\ cur' \in [Conns -> Logins \cup {NoPlayer}]
  <2>1. CASE found = NoPlayer  BY <2>1, <1>1, <1>4, EndsKeepsWork
  <2>2. CASE found # NoPlayer
    <3>1. WorkAt(c, "leave", found)  BY <1>1, <1>5, <2>2 DEF WorkAt, LoginSteps
    <3>2. WorkOK'  BY <1>4, <1>5, <2>2, <3>1, GoesKeepsWork DEF Step
    <3> QED  BY <1>4, <1>5, <2>2, <3>2 DEF Goes, TypeOK, Step
  <2> QED  BY <2>1, <2>2
<1>7. TypeOK'  BY <1>3, <1>6 DEF TypeOK, LeaveVars, playerVars, dbVars
<1>8. TableOK' /\ DataOK' /\ DataLostOnlyAfterError'
  BY <1>3 DEF TableOK, DataOK, DataLostOnlyAfterError, LeaveVars, playerVars, dbVars
<1> QED  BY <1>6, <1>7, <1>8

LEMMA LeaveGoesKeeps == \A c \in Conns : DInv /\ (LeaveTests(c) \/ LogsOut(c)) => DInv'
<1> SUFFICES ASSUME NEW c \in Conns, DInv, LeaveTests(c) \/ LogsOut(c)  PROVE DInv'
  OBVIOUS
<1> USE DEF DInv
<1>1. step[c] \in {"leave", "logout"}  BY DEF LeaveTests, LogsOut
<1>2. mail[c] # <<>> /\ cur[c] \in Logins /\ PidAt(c) \in Pids  BY <1>1, AtWork1
<1>3. UNCHANGED <<LeaveVars, dbVars, raced>>  BY DEF LeaveTests, LogsOut
<1>4. crashed' \in BOOLEAN /\ ended' \subseteq Pids
  BY DEF LeaveTests, LogsOut, TypeOK
<1>5. \/ Ends(c)
      \/ UNCHANGED <<mail, cur, step>>
      \/ UNCHANGED <<mail, cur>> /\ \E s \in {"logout", "save"} : Goes(c, s)
  BY DEF LeaveTests, LogsOut
<1>6. /\ WorkOK'
      /\ mail' \in [Conns -> Seq(Logins \cup Pids)]
      /\ step' \in [Conns -> Step]
      /\ cur' \in [Conns -> Logins \cup {NoPlayer}]
  <2>1. CASE Ends(c)  BY <2>1, <1>2, EndsKeepsWork
  <2>2. CASE UNCHANGED <<mail, cur, step>>
    BY <2>2, MailStays DEF WorkOK, TypeOK
  <2>3. ASSUME UNCHANGED <<mail, cur>>, NEW s \in {"logout", "save"}, Goes(c, s)
        PROVE  WorkOK' /\ step' \in [Conns -> Step]
    <3>1. WorkAt(c, s, cur[c])
      BY <1>1 DEF WorkOK, WorkAt, LoginSteps, LeaveSteps
    <3>2. cur' = [cur EXCEPT ![c] = cur[c]]  BY <2>3 DEF TypeOK
    <3>3. WorkOK'  BY <2>3, <1>2, <3>1, <3>2, GoesKeepsWork DEF Step
    <3> QED  BY <2>3, <3>3 DEF Goes, TypeOK, Step
  <2> QED  BY <2>1, <2>2, <2>3, <1>5 DEF TypeOK
<1>7. TypeOK'  BY <1>3, <1>4, <1>6 DEF TypeOK, LeaveVars, playerVars, dbVars
<1>8. TableOK' /\ DataOK' /\ DataLostOnlyAfterError'
  BY <1>3 DEF TableOK, DataOK, DataLostOnlyAfterError, LeaveVars, playerVars, dbVars
<1> QED  BY <1>6, <1>7, <1>8

\* what a disconnect stores is the record of a Player, and that is the saved one
LEMMA SaveKeeps == \A c \in Conns : DInv /\ (Saves(c) \/ SaveFails(c)) => DInv'
<1> SUFFICES ASSUME NEW c \in Conns, DInv, Saves(c) \/ SaveFails(c)  PROVE DInv'
  OBVIOUS
<1> USE DEF DInv
<1>1. step[c] = "save" /\ Ends(c) /\ UNCHANGED <<LeaveVars, crashed, raced>>
  BY DEF Saves, SaveFails
<1>2. /\ mail[c] # <<>> /\ cur[c] \in Logins /\ PidAt(c) \in Pids
      /\ LoginPid[cur[c]] = PidAt(c)
  BY <1>1, AtWork1
<1>3. \/ UNCHANGED stored
      \/ data[cur[c]] # "none" /\ stored' = [stored EXCEPT ![PidAt(c)] = data[cur[c]]]
  BY DEF Saves, SaveFails
<1>4. /\ WorkOK'
      /\ mail' \in [Conns -> Seq(Logins \cup Pids)]
      /\ step' \in [Conns -> Step]
      /\ cur' \in [Conns -> Logins \cup {NoPlayer}]
  BY <1>1, <1>2, EndsKeepsWork
<1>5. TypeOK'
  <2>1. data[cur[c]] \in Data  BY <1>2 DEF TypeOK
  <2>2. stored' \in [Pids -> Stored]  BY <1>2, <1>3, <2>1 DEF TypeOK, Stored, Data
  <2>3. failures' \in Nat
    <3>1. failures \in Nat  BY DEF TypeOK
    <3>2. failures' = failures + 1 \/ failures' = failures  BY DEF Saves, SaveFails
    <3> QED  BY <3>1, <3>2
  <2>4. ended' \subseteq Pids  BY <1>2 DEF Saves, SaveFails, TypeOK
  <2> QED  BY <1>1, <1>4, <2>2, <2>3, <2>4 DEF TypeOK, LeaveVars, playerVars
<1>6. TableOK' /\ DataOK'  BY <1>1 DEF TableOK, DataOK, LeaveVars, playerVars
<1>7. DataLostOnlyAfterError'
  <2> SUFFICES ASSUME NEW p \in had', p \notin misread'
               PROVE  stored'[p] = "saved"
    BY DEF DataLostOnlyAfterError
  <2>1. p \in had /\ p \notin misread /\ p \in Pids /\ stored[p] = "saved"
    BY <1>1 DEF DataLostOnlyAfterError, LeaveVars, TypeOK
  <2>2. CASE UNCHANGED stored  BY <2>1, <2>2
  <2>3. CASE data[cur[c]] # "none" /\ stored' = [stored EXCEPT ![PidAt(c)] = data[cur[c]]]
    <3>1. stored'[p] = IF p = PidAt(c) THEN data[cur[c]] ELSE stored[p]
      BY <2>1, <2>3 DEF TypeOK
    <3>2. p = PidAt(c) => data[cur[c]] = "saved"
      BY <1>2, <2>1, <2>3 DEF DataOK
    <3> QED  BY <2>1, <3>1, <3>2
  <2> QED  BY <1>3, <2>2, <2>3
<1> QED  BY <1>4, <1>5, <1>6, <1>7

LEMMA DInvStarts == Init => DInv
<1> SUFFICES ASSUME Init  PROVE DInv
  OBVIOUS
<1>1. TypeOK
  <2>1. <<>> \in Seq(Logins \cup Pids)  OBVIOUS
  <2>2. mail \in [Conns -> Seq(Logins \cup Pids)]  BY <2>1 DEF Init
  <2>3. /\ link \in [Conns -> {"up", "gone"}]
        /\ step \in [Conns -> Step]
        /\ cur \in [Conns -> Logins \cup {NoPlayer}]
        /\ table \in [Pids -> Logins \cup {NoPlayer}]
        /\ channel \in [Logins -> Conns \cup {NoConn}]
    BY DEF Init, Step
  <2>4. /\ data \in [Logins -> Data]
        /\ dirty \in [Logins -> BOOLEAN]
        /\ stored \in [Pids -> Stored]
        /\ served \in [Logins -> Logins \cup {NoPlayer}]
    BY DEF Init, Data, Stored
  <2> QED  BY <2>2, <2>3, <2>4 DEF Init, TypeOK
<1>2. WorkOK /\ TableOK /\ DataOK  BY DEF Init, WorkOK, TableOK, DataOK
<1>3. DataLostOnlyAfterError  BY DEF Init, DataLostOnlyAfterError
<1> QED  BY <1>1, <1>2, <1>3 DEF DInv

LEMMA DInvStutters == DInv /\ UNCHANGED vars => DInv'
<1> SUFFICES ASSUME DInv, UNCHANGED vars  PROVE DInv'
  OBVIOUS
<1>1. TypeOK'  BY DEF DInv, TypeOK, vars, playerVars, dbVars, history
<1>2. WorkOK'  BY MailStays DEF DInv, WorkOK, vars
<1>3. TableOK' /\ DataOK' /\ DataLostOnlyAfterError'
  BY DEF DInv, TableOK, DataOK, DataLostOnlyAfterError, vars, playerVars, dbVars, history
<1> QED  BY <1>1, <1>2, <1>3 DEF DInv

LEMMA DInvSteps == DInv /\ [Next]_vars => DInv'
<1> SUFFICES ASSUME DInv, [Next]_vars  PROVE DInv'
  OBVIOUS
<1>1. CASE Arrives  BY <1>1, ArrivesKeeps
<1>2. ASSUME NEW c \in Conns, LoginNext(c)  PROVE DInv'
  BY <1>2, LoginBeginsKeeps, AttachesKeeps, LoadKeeps, EntersKeeps, InsertsKeeps
     DEF LoginNext
<1>3. ASSUME NEW c \in Conns, LeaveNext(c)  PROVE DInv'
  BY <1>3, LeaveBeginsKeeps, LeaveGoesKeeps, SaveKeeps DEF LeaveNext
<1>4. CASE UNCHANGED vars  BY <1>4, DInvStutters
<1> QED  BY <1>1, <1>2, <1>3, <1>4 DEF Next

THEOREM DInvariant == Spec => []DInv
  BY DInvStarts, DInvSteps, PTL DEF Spec

-----------------------------------------------------------------------------
(* The state of the game's sessions is well typed in every behaviour: in    *)
(* particular no record is stored that is neither loaded nor made by fromDO *)
(* (TypeOK).                                                               *)
THEOREM TypeCorrect == Spec => []TypeOK
<1>1. DInv => TypeOK  BY DEF DInv
<1> QED  BY <1>1, DInvariant, PTL

(* However many logins, disconnects and actors there are, a stored record   *)
(* is replaced by a new one only after a read of it failed                  *)
(* (DataLostOnlyAfterError).                                               *)
THEOREM RecordsSurvive == Spec => []DataLostOnlyAfterError
<1>1. DInv => DataLostOnlyAfterError  BY DEF DInv
<1> QED  BY <1>1, DInvariant, PTL

-----------------------------------------------------------------------------
(***************************************************************************)
(* The second invariant: which Player a login works with, and what the     *)
(* table holds of it.                                                      *)
(***************************************************************************)

\* a login waits in one mailbox, once, after it was sent
MailOK ==
    \A c \in Conns : \A i \in DOMAIN mail[c] :
        mail[c][i] \in Logins =>
            /\ mail[c][i] \in sent
            /\ \A d \in Conns : \A j \in DOMAIN mail[d] :
                  mail[d][j] = mail[c][i] => d = c /\ j = i

Waiting(l) == \E c \in Conns : \E i \in DOMAIN mail[c] : mail[c][i] = l

\* a login makes its Player once it is at work, and leaves the mailbox with it
MadeOK ==
    /\ \A p \in Pids : table[p] # NoPlayer => table[p] \in sent /\ ~Waiting(table[p])
    /\ \A c \in Conns :
         /\ step[c] = "load" => cur[c] = Message(c)
         /\ step[c] \in {"attach", "enter", "insert"} =>
               cur[c] = Message(c) \/ (cur[c] \in sent /\ ~Waiting(cur[c]))

\* a Player is loaded when it is logged in, and dirty before it is in the table
ReadyOK ==
    /\ \A p \in Pids : table[p] # NoPlayer => dirty[table[p]] /\ data[table[p]] # "none"
    /\ \A c \in Conns :
         /\ step[c] \in {"attach", "enter", "insert"} => data[cur[c]] # "none"
         /\ step[c] = "insert" => dirty[cur[c]]

\* without a race, a login that is alone with its player works with the Player of
\* the table, or will be the one to put its own there; so does a disconnect
AloneOK ==
    ~raced =>
        \A c \in Conns :
            /\ step[c] \in LoginSteps /\ PidAt(c) \notin doubled =>
                 \/ table[PidAt(c)] = cur[c]
                 \/ /\ table[PidAt(c)] = NoPlayer
                    /\ \A d \in Conns \ {c} : step[d] \in LoginSteps => PidAt(d) # PidAt(c)
            /\ step[c] \in LeaveSteps => table[PidAt(c)] = cur[c]

SInv == MailOK /\ MadeOK /\ ReadyOK /\ AloneOK /\ SessionsAttached /\ EndedSessionsSaved

-----------------------------------------------------------------------------
(* Mailboxes, index by index *)

LEMMA TailIndex ==
    ASSUME NEW S, NEW s \in Seq(S), s # <<>>
    PROVE  /\ 1 \in DOMAIN s /\ Head(s) = s[1]
           /\ \A i \in DOMAIN Tail(s) :
                 i \in Nat /\ i + 1 \in DOMAIN s /\ i + 1 # 1 /\ Tail(s)[i] = s[i + 1]
<1>1. Len(s) \in Nat /\ Len(s) # 0 /\ DOMAIN s = 1 .. Len(s)  OBVIOUS
<1>2. DOMAIN Tail(s) = 1 .. (Len(s) - 1)  OBVIOUS
<1>3. ASSUME NEW i \in DOMAIN Tail(s)  PROVE Tail(s)[i] = s[i + 1]  OBVIOUS
<1> QED  BY <1>1, <1>2, <1>3

LEMMA AppendIndex ==
    ASSUME NEW S, NEW s \in Seq(S), NEW e \in S
    PROVE  \A i \in DOMAIN Append(s, e) :
              \/ i = Len(s) + 1 /\ Append(s, e)[i] = e
              \/ i \in DOMAIN s /\ Append(s, e)[i] = s[i]
  OBVIOUS

LEMMA TailKeepsMail ==
    ASSUME TypeOK, MailOK, UNCHANGED sent, NEW c \in Conns, mail[c] # <<>>,
           mail' = [mail EXCEPT ![c] = Tail(@)]
    PROVE  /\ MailOK'
           /\ \A l \in Logins : ~Waiting(l) => ~Waiting(l)'
           /\ \A l \in Logins : l = Message(c) => l \in sent /\ ~Waiting(l)'
<1>1. mail[c] \in Seq(Logins \cup Pids) /\ DOMAIN mail = Conns  BY DEF TypeOK
<1>2. /\ 1 \in DOMAIN mail[c] /\ Message(c) = mail[c][1]
      /\ \A i \in DOMAIN Tail(mail[c]) :
            /\ i \in Nat /\ i + 1 \in DOMAIN mail[c] /\ i + 1 # 1
            /\ Tail(mail[c])[i] = mail[c][i + 1]
  BY <1>1, TailIndex DEF Message
<1>3. \A d \in Conns : mail'[d] = IF d = c THEN Tail(mail[c]) ELSE mail[d]  BY <1>1
<1>4. ASSUME NEW d \in Conns, NEW i \in DOMAIN mail'[d]
      PROVE  /\ i \in DOMAIN mail[d] /\ d # c /\ mail'[d][i] = mail[d][i]
             \/ /\ d = c /\ i + 1 \in DOMAIN mail[d] /\ i + 1 # 1 /\ i \in Nat
                /\ mail'[d][i] = mail[d][i + 1]
  <2>1. CASE d = c  BY <2>1, <1>2, <1>3
  <2>2. CASE d # c  BY <2>2, <1>3
  <2> QED  BY <2>1, <2>2
<1>5. MailOK'
  <2> SUFFICES ASSUME NEW d \in Conns, NEW i \in DOMAIN mail'[d], mail'[d][i] \in Logins
               PROVE  /\ mail'[d][i] \in sent
                      /\ \A e \in Conns : \A j \in DOMAIN mail'[e] :
                            mail'[e][j] = mail'[d][i] => e = d /\ j = i
    BY DEF MailOK
  <2>1. mail'[d][i] \in sent  BY <1>4 DEF MailOK
  <2>2. ASSUME NEW e \in Conns, NEW j \in DOMAIN mail'[e], mail'[e][j] = mail'[d][i]
        PROVE  e = d /\ j = i
    <3>1. CASE d # c  BY <3>1, <1>4, <2>2 DEF MailOK
    <3>2. CASE d = c
      <4>1. i + 1 \in DOMAIN mail[d] /\ mail'[d][i] = mail[d][i + 1] /\ i \in Nat
        BY <3>2, <1>4
      <4>2. CASE e # c  BY <3>2, <4>1, <4>2, <1>4, <2>2 DEF MailOK
      <4>3. CASE e = c
        <5>1. j + 1 \in DOMAIN mail[e] /\ mail'[e][j] = mail[e][j + 1] /\ j \in Nat
          BY <4>3, <1>4
        <5>2. j + 1 = i + 1  BY <3>2, <4>1, <4>3, <5>1, <2>2 DEF MailOK
        <5> QED  BY <3>2, <4>1, <4>3, <5>1, <5>2
      <4> QED  BY <4>2, <4>3
    <3> QED  BY <3>1, <3>2
  <2> QED  BY <2>1, <2>2
<1>6. ASSUME NEW l \in Logins, ~Waiting(l)  PROVE ~Waiting(l)'
  BY <1>4, <1>6 DEF Waiting
<1>7. ASSUME NEW l \in Logins, l = Message(c)  PROVE l \in sent /\ ~Waiting(l)'
  <2>1. l \in sent  BY <1>2, <1>7 DEF MailOK
  <2>2. ASSUME NEW d \in Conns, NEW i \in DOMAIN mail'[d], mail'[d][i] = l  PROVE FALSE
    <3>1. CASE d # c
      <4>1. i \in DOMAIN mail[d] /\ mail[d][i] = l  BY <3>1, <1>4, <2>2
      <4> QED  BY <3>1, <4>1, <1>2, <1>7 DEF MailOK
    <3>2. CASE d = c
      <4>1. i + 1 \in DOMAIN mail[c] /\ mail[c][i + 1] = l /\ i + 1 # 1
        BY <3>2, <1>4, <2>2
      <4> QED  BY <4>1, <1>2, <1>7 DEF MailOK
    <3> QED  BY <3>1, <3>2
  <2> QED  BY <2>1, <2>2 DEF Waiting
<1> QED  BY <1>5, <1>6, <1>7

LEMMA AppendKeepsMail ==
    ASSUME TypeOK, MailOK, NEW c \in Conns, NEW m \in Logins \cup Pids,
           mail' = [mail EXCEPT ![c] = Append(@, m)],
           \/ m \in Pids /\ UNCHANGED sent
           \/ m \in Logins /\ m \notin sent /\ sent' = sent \cup {m}
    PROVE  /\ MailOK'
           /\ \A l \in Logins : l \in sent /\ ~Waiting(l) => l \in sent' /\ ~Waiting(l)'
<1>1. mail[c] \in Seq(Logins \cup Pids) /\ DOMAIN mail = Conns  BY DEF TypeOK
<1>2. \A i \in DOMAIN Append(mail[c], m) :
         \/ i = Len(mail[c]) + 1 /\ Append(mail[c], m)[i] = m
         \/ i \in DOMAIN mail[c] /\ Append(mail[c], m)[i] = mail[c][i]
  BY <1>1, AppendIndex
<1>3. \A d \in Conns : mail'[d] = IF d = c THEN Append(mail[c], m) ELSE mail[d]
  BY <1>1
<1>4. ASSUME NEW d \in Conns, NEW i \in DOMAIN mail'[d]
      PROVE  \/ i \in DOMAIN mail[d] /\ mail'[d][i] = mail[d][i]
             \/ d = c /\ i = Len(mail[c]) + 1 /\ mail'[d][i] = m
  BY <1>2, <1>3
<1>5. \A d \in Conns : \A i \in DOMAIN mail[d] : mail[d][i] \in Logins => mail[d][i] \in sent
  BY DEF MailOK
<1>6. sent \subseteq sent' /\ (m \in Logins => m \notin sent /\ m \in sent')
  BY GameAssumption
<1>7. MailOK'
  <2> SUFFICES ASSUME NEW d \in Conns, NEW i \in DOMAIN mail'[d], mail'[d][i] \in Logins
               PROVE  /\ mail'[d][i] \in sent'
                      /\ \A e \in Conns : \A j \in DOMAIN mail'[e] :
                            mail'[e][j] = mail'[d][i] => e = d /\ j = i
    BY DEF MailOK
  <2>1. mail'[d][i] \in sent'  BY <1>4, <1>5, <1>6
  <2>2. ASSUME NEW e \in Conns, NEW j \in DOMAIN mail'[e], mail'[e][j] = mail'[d][i]
        PROVE  e = d /\ j = i
    <3>1. CASE i \in DOMAIN mail[d] /\ mail'[d][i] = mail[d][i]
      <4>1. mail'[e][j] \in sent  BY <3>1, <2>2, <1>5
      <4>2. j \in DOMAIN mail[e] /\ mail'[e][j] = mail[e][j]
        BY <4>1, <1>4, <1>6, <2>2
      <4> QED  BY <3>1, <4>2, <2>2 DEF MailOK
    <3>2. CASE d = c /\ i = Len(mail[c]) + 1 /\ mail'[d][i] = m
      <4>1. ~(j \in DOMAIN mail[e] /\ mail'[e][j] = mail[e][j])
        BY <3>2, <2>2, <1>5, <1>6
      <4> QED  BY <3>2, <4>1, <1>4
    <3> QED  BY <3>1, <3>2, <1>4
  <2> QED  BY <2>1, <2>2
<1>8. ASSUME NEW l \in Logins, l \in sent, ~Waiting(l)  PROVE l \in sent' /\ ~Waiting(l)'
  <2>1. l # m  BY <1>6, <1>8
  <2> QED  BY <1>4, <1>6, <1>8, <2>1 DEF Waiting
<1> QED  BY <1>7, <1>8

-----------------------------------------------------------------------------
(* The steps keep the second invariant *)

LEMMA ArrivesKeepsS == DInv /\ SInv /\ Arrives => SInv'
<1> SUFFICES ASSUME DInv, SInv, NEW c \in Conns,
                    \/ \E l \in Logins : LoginArrives(c, l)
                    \/ \E p \in Pids : LeaveArrives(c, p)
                    \/ Release(c)
             PROVE  SInv'
  BY DEF Arrives
<1> USE DEF DInv, SInv
<1>1. UNCHANGED <<step, cur, table, playerVars, dbVars, crashed, history>>
  BY DEF LoginArrives, LeaveArrives, Release
<1>2. /\ MailOK'
      /\ \A l \in Logins : l \in sent /\ ~Waiting(l) => l \in sent' /\ ~Waiting(l)'
      /\ \A d \in Conns : mail[d] # <<>> =>
            Message(d)' = Message(d) /\ PidAt(d)' = PidAt(d)
  <2>1. CASE \E l \in Logins : LoginArrives(c, l)
    BY <2>1, ArrivalKeeps, AppendKeepsMail DEF LoginArrives
  <2>2. CASE \E p \in Pids : LeaveArrives(c, p)
    BY <2>2, ArrivalKeeps, AppendKeepsMail DEF LeaveArrives
  <2>3. CASE Release(c)
    BY <2>3, MailStays DEF Release, MailOK, Waiting
  <2> QED  BY <2>1, <2>2, <2>3
<1>3. \A d \in Conns : step[d] # "idle" =>
         Message(d)' = Message(d) /\ PidAt(d)' = PidAt(d)
  BY <1>2 DEF WorkOK
<1>4. MadeOK'
  <2>1. \A p \in Pids : table[p] # NoPlayer => table[p] \in Logins  BY DEF TypeOK
  <2>2. \A d \in Conns : step[d] # "idle" => cur[d] \in Logins  BY DEF WorkOK
  <2>3. \A p \in Pids : table'[p] # NoPlayer => table'[p] \in sent' /\ ~Waiting(table[p])'
    BY <1>1, <1>2, <2>1 DEF MadeOK
  <2> QED  BY <1>1, <1>2, <1>3, <2>1, <2>2 DEF MadeOK
<1>5. ReadyOK'  BY <1>1 DEF ReadyOK, playerVars
<1>6. AloneOK'  BY <1>1, <1>3 DEF AloneOK, history, LoginSteps, LeaveSteps
<1>7. SessionsAttached' /\ EndedSessionsSaved'
  BY <1>1 DEF SessionsAttached, EndedSessionsSaved, playerVars, dbVars, history
<1> QED  BY <1>2, <1>4, <1>5, <1>6, <1>7

LEMMA WaitingStays ==
    ASSUME UNCHANGED <<mail, sent>>, MailOK
    PROVE  /\ MailOK'
           /\ \A l \in Logins : ~Waiting(l) => ~Waiting(l)'
  BY DEF MailOK, Waiting

LEMMA HeadWaits ==
    ASSUME TypeOK, NEW c \in Conns, mail[c] # <<>>
    PROVE  Waiting(Message(c))
<1>1. mail[c] \in Seq(Logins \cup Pids)  BY DEF TypeOK
<1>2. 1 \in DOMAIN mail[c] /\ Message(c) = mail[c][1]  BY <1>1, TailIndex DEF Message
<1> QED  BY <1>2 DEF Waiting

LEMMA LoginBeginsKeepsS == \A c \in Conns : DInv /\ SInv /\ LoginBegins(c) => SInv'
<1> SUFFICES ASSUME NEW c \in Conns, DInv, SInv, LoginBegins(c)  PROVE SInv'
  OBVIOUS
<1> USE DEF DInv, SInv
<1>1. /\ step[c] = "idle" /\ mail[c] # <<>> /\ Message(c) \in Logins
      /\ PidAt(c) = LoginPid[Message(c)]
  BY DEF LoginBegins, PidAt
<1>2. PidAt(c) \in Pids  BY <1>1, MessageType
<1>3. PICK found \in Found(c, PidAt(c)) :
         IF found = NoPlayer
         THEN /\ cur' = [cur EXCEPT ![c] = Message(c)]
              /\ channel' = [channel EXCEPT ![Message(c)] = ChannelPtr(c)]
              /\ Goes(c, "load")
         ELSE /\ cur' = [cur EXCEPT ![c] = found]
              /\ Goes(c, "attach")
              /\ UNCHANGED channel
  BY DEF LoginBegins
<1>4. found # NoPlayer => found = table[PidAt(c)] /\ found \in Logins
  BY <1>2 DEF Found, TypeOK
<1>5. /\ UNCHANGED <<sent, mail, table, data, dirty, stored, served, ended>>
      /\ doubled' = doubled \cup {p \in {PidAt(c)} : table[p] = NoPlayer /\ AtWork(p)}
      /\ raced' = (raced \/ \E d \in Conns \ {c} : Writes(d))
  BY DEF LoginBegins, dbVars, Reads
<1>6. /\ \A d \in Conns : Message(d)' = Message(d) /\ PidAt(d)' = PidAt(d)
      /\ MailOK'
      /\ \A l \in Logins : ~Waiting(l) => ~Waiting(l)'
  BY <1>5, MailStays, WaitingStays
<1>7. \A d \in Conns :
         /\ step'[d] = IF d = c THEN IF found = NoPlayer THEN "load" ELSE "attach"
                       ELSE step[d]
         /\ cur'[d] = IF d = c THEN IF found = NoPlayer THEN Message(c) ELSE found
                      ELSE cur[d]
  BY <1>3 DEF Goes, TypeOK
<1>8. MadeOK'
  <2>1. \A p \in Pids : table[p] # NoPlayer => table[p] \in Logins  BY DEF TypeOK
  <2>2. \A d \in Conns : step[d] # "idle" => cur[d] \in Logins  BY DEF WorkOK
  <2>3. \A p \in Pids : table'[p] # NoPlayer => table'[p] \in sent' /\ ~Waiting(table[p])'
    BY <1>5, <1>6, <2>1 DEF MadeOK
  <2>4. ASSUME NEW d \in Conns
        PROVE  /\ step'[d] = "load" => cur'[d] = Message(d)'
               /\ step'[d] \in {"attach", "enter", "insert"} =>
                     \/ cur'[d] = Message(d)'
                     \/ cur'[d] \in sent' /\ ~Waiting(cur[d])'
    <3>1. CASE d # c  BY <3>1, <1>5, <1>6, <1>7, <2>2 DEF MadeOK
    <3>2. CASE d = c /\ found = NoPlayer  BY <3>2, <1>6, <1>7
    <3>3. CASE d = c /\ found # NoPlayer
      <4>1. found \in sent' /\ ~Waiting(found)'
        <5>1. found \in sent /\ ~Waiting(found)  BY <3>3, <1>2, <1>4 DEF MadeOK
        <5> QED  BY <5>1, <3>3, <1>4, <1>5, <1>6
      <4>2. step'[c] = "attach" /\ cur'[c] = found  BY <3>3, <1>7
      <4>3. ~Waiting(cur[c])'
        BY <4>1, <4>2 DEF Waiting
      <4> QED  BY <3>3, <4>1, <4>2, <4>3
    <3> QED  BY <3>1, <3>2, <3>3
  <2> QED  BY <2>3, <2>4 DEF MadeOK
<1>9. ReadyOK'
  <2>1. \A d \in Conns \ {c} : step'[d] = step[d] /\ cur'[d] = cur[d]  BY <1>7
  <2>2. step'[c] \in {"load", "attach"} /\ (step'[c] = "attach" => data[cur'[c]] # "none")
    BY <1>2, <1>4, <1>7 DEF ReadyOK
  <2> QED  BY <1>5, <2>1, <2>2 DEF ReadyOK
<1>10. AloneOK'
  <2> SUFFICES ASSUME ~raced', NEW d \in Conns
               PROVE  /\ step'[d] \in LoginSteps /\ PidAt(d)' \notin doubled' =>
                           \/ table'[PidAt(d)'] = cur'[d]
                           \/ /\ table'[PidAt(d)'] = NoPlayer
                              /\ \A e \in Conns \ {d} :
                                   step'[e] \in LoginSteps => PidAt(e)' # PidAt(d)'
                      /\ step'[d] \in LeaveSteps => table'[PidAt(d)'] = cur'[d]
    BY DEF AloneOK
  <2>1. ~raced /\ found = table[PidAt(c)]  BY <1>4, <1>5 DEF Found
  <2>2. CASE d = c
    <3>1. step'[d] \notin LeaveSteps  BY <2>2, <1>7 DEF LeaveSteps
    <3>2. ASSUME PidAt(c) \notin doubled', table[PidAt(c)] = NoPlayer
          PROVE  \A e \in Conns \ {c} : step[e] \in LoginSteps => PidAt(e) # PidAt(c)
      BY <3>2, <1>5 DEF AtWork, LoginSteps
    <3>3. table[PidAt(c)] # NoPlayer => cur'[c] = table[PidAt(c)]  BY <1>7, <2>1
    <3> QED  BY <2>2, <3>1, <3>2, <3>3, <1>5, <1>6, <1>7
  <2>3. CASE d # c
    <3>1. step'[d] = step[d] /\ cur'[d] = cur[d]  BY <2>3, <1>7
    <3>2. step[d] \in LeaveSteps => table[PidAt(d)] = cur[d]  BY <2>1 DEF AloneOK
    <3>3. ASSUME step[d] \in LoginSteps, PidAt(d) \notin doubled'
          PROVE  \/ table[PidAt(d)] = cur[d]
                 \/ /\ table[PidAt(d)] = NoPlayer
                    /\ \A e \in Conns \ {d} :
                         step'[e] \in LoginSteps => PidAt(e) # PidAt(d)
      <4>1. \/ table[PidAt(d)] = cur[d]
            \/ /\ table[PidAt(d)] = NoPlayer
               /\ \A e \in Conns \ {d} : step[e] \in LoginSteps => PidAt(e) # PidAt(d)
        BY <2>1, <1>5, <3>3 DEF AloneOK
      <4>2. table[PidAt(d)] = NoPlayer => PidAt(c) # PidAt(d)
        BY <1>5, <3>3 DEF AtWork, LoginSteps
      <4> QED  BY <4>1, <4>2, <1>7
    <3> QED  BY <3>1, <3>2, <3>3, <1>5, <1>6
  <2> QED  BY <2>2, <2>3
<1>11. SessionsAttached' /\ EndedSessionsSaved'
  BY <1>5 DEF SessionsAttached, EndedSessionsSaved
<1> QED  BY <1>6, <1>8, <1>9, <1>10, <1>11

\* an actor that goes on with its message leaves the first parts as they are
LEMMA GoesOnKeepsS ==
    ASSUME DInv, SInv, NEW c \in Conns, NEW s \in Step, Goes(c, s), s # "load",
           UNCHANGED <<mail, sent, table, cur, doubled>>, raced => raced',
           \/ step[c] \in LoginSteps /\ s \in LoginSteps
           \/ step[c] \in LeaveSteps /\ s \in LeaveSteps
    PROVE  MailOK' /\ MadeOK' /\ AloneOK'
<1> USE DEF DInv, SInv
<1>1. /\ \A d \in Conns : Message(d)' = Message(d) /\ PidAt(d)' = PidAt(d)
      /\ MailOK'
      /\ \A l \in Logins : ~Waiting(l) => ~Waiting(l)'
  BY MailStays, WaitingStays
<1>2. \A d \in Conns : step'[d] = IF d = c THEN s ELSE step[d]  BY DEF Goes, TypeOK
<1>3. \A d \in Conns : cur'[d] = cur[d] /\ (step[d] # "idle" => cur[d] \in Logins)
  BY DEF WorkOK
<1>4. step[c] # "idle"  BY DEF LoginSteps, LeaveSteps
<1>5. MadeOK'
  <2>1. \A p \in Pids : table[p] # NoPlayer => table[p] \in Logins  BY DEF TypeOK
  <2>2. \A p \in Pids : table'[p] # NoPlayer => table'[p] \in sent' /\ ~Waiting(table[p])'
    BY <1>1, <2>1 DEF MadeOK
  <2>3. ASSUME NEW d \in Conns
        PROVE  /\ step'[d] = "load" => cur'[d] = Message(d)'
               /\ step'[d] \in {"attach", "enter", "insert"} =>
                     \/ cur'[d] = Message(d)'
                     \/ cur'[d] \in sent' /\ ~Waiting(cur[d])'
    <3>1. CASE d # c  BY <3>1, <1>1, <1>2, <1>3 DEF MadeOK
    <3>2. CASE d = c /\ step[c] \in LeaveSteps
      BY <3>2, <1>2 DEF LoginSteps, LeaveSteps
    <3>3. CASE d = c /\ step[c] \in LoginSteps
      <4>1. cur[c] = Message(c) \/ (cur[c] \in sent /\ ~Waiting(cur[c]))
        BY <3>3 DEF MadeOK, LoginSteps
      <4> QED  BY <3>3, <4>1, <1>1, <1>2, <1>3, <1>4
    <3> QED  BY <3>1, <3>2, <3>3
  <2> QED  BY <2>2, <2>3 DEF MadeOK
<1>6. AloneOK'
  <2> SUFFICES ASSUME ~raced', NEW d \in Conns
               PROVE  /\ step'[d] \in LoginSteps /\ PidAt(d)' \notin doubled' =>
                           \/ table'[PidAt(d)'] = cur'[d]
                           \/ /\ table'[PidAt(d)'] = NoPlayer
                              /\ \A e \in Conns \ {d} :
                                   step'[e] \in LoginSteps => PidAt(e)' # PidAt(d)'
                      /\ step'[d] \in LeaveSteps => table'[PidAt(d)'] = cur'[d]
    BY DEF AloneOK
  <2>1. \A e \in Conns : /\ step'[e] \in LoginSteps <=> step[e] \in LoginSteps
                         /\ step'[e] \in LeaveSteps <=> step[e] \in LeaveSteps
    BY <1>2 DEF LoginSteps, LeaveSteps
  <2>2. ~raced  OBVIOUS
  <2> QED  BY <2>1, <2>2, <1>1, <1>3 DEF AloneOK
<1> QED  BY <1>1, <1>5, <1>6

\* so does one that is done with a message and did not touch the table
LEMMA EndsKeepsS ==
    ASSUME DInv, SInv, NEW c \in Conns, mail[c] # <<>>, Ends(c),
           UNCHANGED <<sent, table, doubled, data, dirty>>, raced => raced'
    PROVE  MailOK' /\ MadeOK' /\ ReadyOK' /\ AloneOK'
<1> USE DEF DInv, SInv
<1>1. /\ MailOK'
      /\ \A l \in Logins : ~Waiting(l) => ~Waiting(l)'
  BY TailKeepsMail DEF Ends
<1>2. \A d \in Conns : step'[d] = IF d = c THEN "idle" ELSE step[d]
  BY DEF Ends, Goes, TypeOK
<1>3. \A d \in Conns \ {c} :
         /\ mail'[d] = mail[d] /\ cur'[d] = cur[d]
         /\ Message(d)' = Message(d) /\ PidAt(d)' = PidAt(d)
         /\ step[d] # "idle" => cur[d] \in Logins
  BY DEF Ends, TypeOK, WorkOK, Message, PidAt
<1>4. MadeOK'
  <2>1. \A p \in Pids : table[p] # NoPlayer => table[p] \in Logins  BY DEF TypeOK
  <2>2. \A p \in Pids : table'[p] # NoPlayer => table'[p] \in sent' /\ ~Waiting(table[p])'
    BY <1>1, <2>1 DEF MadeOK
  <2>3. ASSUME NEW d \in Conns
        PROVE  /\ step'[d] = "load" => cur'[d] = Message(d)'
               /\ step'[d] \in {"attach", "enter", "insert"} =>
                     \/ cur'[d] = Message(d)'
                     \/ cur'[d] \in sent' /\ ~Waiting(cur[d])'
    <3>1. CASE d = c  BY <3>1, <1>2
    <3>2. CASE d # c
      <4>1. step'[d] = step[d] /\ cur'[d] = cur[d]  BY <3>2, <1>2, <1>3
      <4> QED  BY <3>2, <4>1, <1>1, <1>3 DEF MadeOK
    <3> QED  BY <3>1, <3>2
  <2> QED  BY <2>2, <2>3 DEF MadeOK
<1>5. ReadyOK'  BY <1>2, <1>3 DEF ReadyOK
<1>6. AloneOK'
  <2> SUFFICES ASSUME ~raced', NEW d \in Conns \ {c}
               PROVE  /\ step'[d] \in LoginSteps /\ PidAt(d)' \notin doubled' =>
                           \/ table'[PidAt(d)'] = cur'[d]
                           \/ /\ table'[PidAt(d)'] = NoPlayer
                              /\ \A e \in Conns \ {d} :
                                   step'[e] \in LoginSteps => PidAt(e)' # PidAt(d)'
                      /\ step'[d] \in LeaveSteps => table'[PidAt(d)'] = cur'[d]
    BY <1>2 DEF AloneOK, LoginSteps, LeaveSteps
  <2>1. \A e \in Conns : step'[e] \in LoginSteps => e # c /\ step[e] \in LoginSteps
    BY <1>2 DEF LoginSteps
  <2>2. ~raced /\ step'[d] = step[d]  BY <1>2
  <2>3. step[d] \in LeaveSteps => table[PidAt(d)] = cur[d]  BY <2>2 DEF AloneOK
  <2>4. step[d] \in LoginSteps /\ PidAt(d) \notin doubled =>
           \/ table[PidAt(d)] = cur[d]
           \/ /\ table[PidAt(d)] = NoPlayer
              /\ \A e \in Conns \ {d} : step[e] \in LoginSteps => PidAt(e) # PidAt(d)
    BY <2>2 DEF AloneOK
  <2> QED  BY <2>1, <2>2, <2>3, <2>4, <1>3
<1> QED  BY <1>1, <1>4, <1>5, <1>6

LEMMA AttachesKeepsS == \A c \in Conns : DInv /\ SInv /\ Attaches(c) => SInv'
<1> SUFFICES ASSUME NEW c \in Conns, DInv, SInv, Attaches(c)  PROVE SInv'
  OBVIOUS
<1>1. MailOK' /\ MadeOK' /\ AloneOK'
  BY GoesOnKeepsS DEF Attaches, Step, LoginSteps, history
<1>2. ReadyOK'
  <2>1. \A d \in Conns : step'[d] = IF d = c THEN "enter" ELSE step[d]
    BY DEF Attaches, Goes, DInv, TypeOK
  <2> QED  BY <2>1 DEF SInv, Attaches, ReadyOK
<1>3. SessionsAttached' /\ EndedSessionsSaved'
  BY DEF SInv, Attaches, SessionsAttached, EndedSessionsSaved, dbVars, history
<1> QED  BY <1>1, <1>2, <1>3 DEF SInv

\* a Player that is loaded is not yet in the table
LEMMA LoadKeepsS == \A c \in Conns : DInv /\ SInv /\ (Loads(c) \/ LoadFails(c)) => SInv'
<1> SUFFICES ASSUME NEW c \in Conns, DInv, SInv, Loads(c) \/ LoadFails(c)  PROVE SInv'
  OBVIOUS
<1>1. step[c] = "load" /\ UNCHANGED LoadVars /\ Goes(c, "enter")
  BY DEF Loads, LoadFails
<1>2. mail[c] # <<>> /\ cur[c] \in Logins /\ PidAt(c) \in Pids
  BY <1>1, AtWork1 DEF DInv
<1>3. PICK d \in {"default", "saved"} : data' = [data EXCEPT ![cur[c]] = d]
  BY <1>2 DEF Loads, LoadFails, Record, DInv, TypeOK, Stored
<1>4. \A l \in Logins : data'[l] = IF l = cur[c] THEN d ELSE data[l]
  BY <1>3 DEF DInv, TypeOK
<1>5. MailOK' /\ MadeOK' /\ AloneOK'
  BY <1>1, GoesOnKeepsS DEF LoadVars, Step, LoginSteps
<1>6. \A p \in Pids : table[p] # NoPlayer => table[p] \in Logins /\ table[p] # cur[c]
  <2>1. Waiting(cur[c])  BY <1>1, <1>2, HeadWaits DEF SInv, MadeOK, DInv
  <2> QED  BY <2>1 DEF SInv, MadeOK, DInv, TypeOK
<1>7. ReadyOK'
  <2>1. \A e \in Conns : /\ step'[e] = IF e = c THEN "enter" ELSE step[e]
                         /\ step[e] # "idle" => cur[e] \in Logins
    BY <1>1 DEF Goes, DInv, TypeOK, WorkOK
  <2>2. cur' = cur /\ table' = table /\ dirty' = dirty  BY <1>1 DEF LoadVars
  <2>3. \A p \in Pids : table'[p] # NoPlayer =>
           dirty'[table'[p]] /\ data'[table'[p]] # "none"
    BY <1>4, <1>6, <2>2 DEF SInv, ReadyOK
  <2>4. ASSUME NEW e \in Conns
        PROVE  /\ step'[e] \in {"attach", "enter", "insert"} => data'[cur'[e]] # "none"
               /\ step'[e] = "insert" => dirty'[cur'[e]]
    BY <1>2, <1>4, <2>1, <2>2 DEF SInv, ReadyOK
  <2> QED  BY <2>3, <2>4 DEF ReadyOK
<1>8. SessionsAttached'  BY <1>1 DEF SInv, LoadVars, SessionsAttached
<1>9. EndedSessionsSaved'
  <2>1. ended' = ended /\ raced' = raced /\ table' = table /\ stored' = stored
    BY <1>1 DEF LoadVars
  <2>2. ended \subseteq Pids  BY DEF DInv, TypeOK
  <2> QED  BY <1>4, <1>6, <2>1, <2>2 DEF SInv, EndedSessionsSaved
<1> QED  BY <1>5, <1>7, <1>8, <1>9 DEF SInv

LEMMA EntersKeepsS == \A c \in Conns : DInv /\ SInv /\ Enters(c) => SInv'
<1> SUFFICES ASSUME NEW c \in Conns, DInv, SInv, Enters(c)  PROVE SInv'
  OBVIOUS
<1>1. /\ step[c] = "enter" /\ Goes(c, "insert") /\ (raced => raced')
      /\ UNCHANGED <<mail, sent, table, cur, data, stored, doubled, served, ended>>
  BY DEF Enters, dbVars
<1>2. cur[c] \in Logins  BY <1>1, AtWork1 DEF DInv
<1>3. MailOK' /\ MadeOK' /\ AloneOK'
  BY <1>1, GoesOnKeepsS DEF Step, LoginSteps
<1>4. ReadyOK'
  <2>1. \A d \in Conns : step'[d] = IF d = c THEN "insert" ELSE step[d]
    BY <1>1 DEF Goes, DInv, TypeOK
  <2>2. \A l \in Logins : dirty'[l] = (l = cur[c] \/ dirty[l])
    BY <1>2 DEF Enters, MarkDirty, DInv, TypeOK
  <2>3. \A d \in Conns : step[d] # "idle" => cur[d] \in Logins  BY DEF DInv, WorkOK
  <2>4. \A p \in Pids : table[p] # NoPlayer => table[p] \in Logins  BY DEF DInv, TypeOK
  <2> QED  BY <1>1, <1>2, <2>1, <2>2, <2>3, <2>4 DEF SInv, ReadyOK
<1>5. SessionsAttached' /\ EndedSessionsSaved'
  BY <1>1 DEF SInv, SessionsAttached, EndedSessionsSaved
<1> QED  BY <1>3, <1>4, <1>5 DEF SInv

\* an insert without a race puts the Player of a login where there was none
LEMMA InsertsKeepsS == \A c \in Conns : DInv /\ SInv /\ Inserts(c) => SInv'
<1> SUFFICES ASSUME NEW c \in Conns, DInv, SInv, Inserts(c)  PROVE SInv'
  OBVIOUS
<1> USE DEF DInv, SInv
<1>1. /\ step[c] = "insert" /\ Ends(c)
      /\ UNCHANGED <<sent, data, dirty, stored, doubled, raced, ended>>
  BY DEF Inserts, playerVars, dbVars
<1>2. /\ mail[c] # <<>> /\ cur[c] \in Logins /\ PidAt(c) \in Pids
      /\ LoginPid[cur[c]] = PidAt(c)
  BY <1>1, AtWork1
<1>3. Message(c) \in Logins /\ LoginPid[Message(c)] = PidAt(c)
  BY <1>1 DEF WorkOK, LoginSteps, PidAt
<1>4. PICK lost \in IF raced THEN SUBSET Pids ELSE {{}} :
        table' = [p \in Pids |-> IF p \in lost THEN NoPlayer
                                 ELSE IF p = PidAt(c) /\ table[p] = NoPlayer THEN cur[c]
                                 ELSE table[p]]
  BY DEF Inserts
<1>5. /\ \A p \in Pids : table'[p] # NoPlayer => table'[p] = table[p] \/ table'[p] = cur[c]
      /\ ~raced => \A p \in Pids :
            table'[p] = IF p = PidAt(c) /\ table[p] = NoPlayer THEN cur[c] ELSE table[p]
  BY <1>4
<1>6. /\ MailOK'
      /\ \A l \in Logins : ~Waiting(l) => ~Waiting(l)'
      /\ \A l \in Logins : l = Message(c) => l \in sent /\ ~Waiting(l)'
  BY <1>1, <1>2, TailKeepsMail DEF Ends
<1>7. \A d \in Conns : step'[d] = IF d = c THEN "idle" ELSE step[d]
  BY <1>1 DEF Ends, Goes, TypeOK
<1>8. \A d \in Conns \ {c} :
         /\ mail'[d] = mail[d] /\ cur'[d] = cur[d]
         /\ Message(d)' = Message(d) /\ PidAt(d)' = PidAt(d)
         /\ step[d] # "idle" => cur[d] \in Logins /\ PidAt(d) \in Pids
  BY <1>1, AtWork1 DEF Ends, TypeOK, Message, PidAt
<1>9. \/ cur[c] \in sent /\ ~Waiting(cur[c])
      \/ cur[c] = Message(c)
  BY <1>1 DEF MadeOK
<1>10. MadeOK'
  <2>1. ASSUME NEW l \in Logins, l = cur[c]  PROVE l \in sent' /\ ~Waiting(l)'
    BY <2>1, <1>1, <1>3, <1>6, <1>9
  <2>2. ASSUME NEW p \in Pids, NEW l \in Logins, l = table[p], table[p] # NoPlayer
        PROVE  l \in sent' /\ ~Waiting(l)'
    BY <2>2, <1>1, <1>6 DEF MadeOK
  <2>3. \A p \in Pids : table[p] # NoPlayer => table[p] \in Logins  BY DEF TypeOK
  <2>4. ASSUME NEW p \in Pids, table'[p] # NoPlayer
        PROVE  table'[p] \in sent' /\ ~Waiting(table[p])'
    <3>1. CASE table'[p] = table[p]  BY <3>1, <2>2, <2>3, <2>4 DEF Waiting
    <3>2. CASE table'[p] = cur[c]  BY <3>2, <1>2, <2>1 DEF Waiting
    <3> QED  BY <3>1, <3>2, <1>5, <2>4
  <2>5. ASSUME NEW d \in Conns
        PROVE  /\ step'[d] = "load" => cur'[d] = Message(d)'
               /\ step'[d] \in {"attach", "enter", "insert"} =>
                     \/ cur'[d] = Message(d)'
                     \/ cur'[d] \in sent' /\ ~Waiting(cur[d])'
    <3>1. CASE d = c  BY <3>1, <1>7
    <3>2. CASE d # c
      <4>1. step'[d] = step[d] /\ cur'[d] = cur[d]  BY <3>2, <1>7, <1>8
      <4> QED  BY <3>2, <4>1, <1>1, <1>6, <1>8 DEF MadeOK
    <3> QED  BY <3>1, <3>2
  <2> QED  BY <2>4, <2>5 DEF MadeOK
<1>11. ReadyOK'
  <2>1. dirty[cur[c]] /\ data[cur[c]] # "none"  BY <1>1 DEF ReadyOK
  <2>2. \A p \in Pids : table'[p] # NoPlayer =>
           dirty'[table'[p]] /\ data'[table'[p]] # "none"
    BY <1>1, <1>5, <2>1 DEF ReadyOK
  <2> QED  BY <1>1, <1>7, <1>8, <2>2 DEF ReadyOK
<1>12. ASSUME ~raced
       PROVE  \A p \in Pids : table[p] # NoPlayer => table'[p] = table[p]
  BY <1>5, <1>12
<1>13. AloneOK'
  <2> SUFFICES ASSUME ~raced, NEW d \in Conns \ {c}
               PROVE  /\ step'[d] \in LoginSteps /\ PidAt(d)' \notin doubled' =>
                           \/ table'[PidAt(d)'] = cur'[d]
                           \/ /\ table'[PidAt(d)'] = NoPlayer
                              /\ \A e \in Conns \ {d} :
                                   step'[e] \in LoginSteps => PidAt(e)' # PidAt(d)'
                      /\ step'[d] \in LeaveSteps => table'[PidAt(d)'] = cur'[d]
    BY <1>1, <1>7 DEF AloneOK, LoginSteps, LeaveSteps
  <2>1. step'[d] = step[d] /\ cur'[d] = cur[d] /\ PidAt(d)' = PidAt(d)
    BY <1>7, <1>8
  <2>2. ASSUME step[d] \in LeaveSteps  PROVE table'[PidAt(d)] = cur[d]
    <3>1. table[PidAt(d)] = cur[d]  BY <2>2 DEF AloneOK
    <3>2. cur[d] \in Logins /\ PidAt(d) \in Pids  BY <2>2, <1>8 DEF LeaveSteps
    <3> QED  BY <3>1, <3>2, <1>12, GameAssumption
  <2>3. ASSUME step[d] \in LoginSteps, PidAt(d) \notin doubled
        PROVE  \/ table'[PidAt(d)] = cur[d]
               \/ /\ table'[PidAt(d)] = NoPlayer
                  /\ \A e \in Conns \ {d} :
                       step'[e] \in LoginSteps => PidAt(e)' # PidAt(d)
    <3>1. cur[d] \in Logins /\ PidAt(d) \in Pids  BY <2>3, <1>8 DEF LoginSteps
    <3>2. CASE table[PidAt(d)] = cur[d]  BY <3>1, <3>2, <1>12, GameAssumption
    <3>3. CASE /\ table[PidAt(d)] = NoPlayer
               /\ \A e \in Conns \ {d} : step[e] \in LoginSteps => PidAt(e) # PidAt(d)
      <4>1. PidAt(c) # PidAt(d)  BY <3>3, <1>1 DEF LoginSteps
      <4>2. table'[PidAt(d)] = NoPlayer  BY <3>1, <3>3, <4>1, <1>5
      <4>3. \A e \in Conns \ {d} : step'[e] \in LoginSteps =>
               e # c /\ step[e] \in LoginSteps /\ PidAt(e)' = PidAt(e)
        BY <1>7, <1>8 DEF LoginSteps
      <4> QED  BY <3>3, <4>2, <4>3
    <3> QED  BY <2>3, <3>2, <3>3 DEF AloneOK
  <2> QED  BY <2>1, <2>2, <2>3, <1>1
<1>14. SessionsAttached'
  <2> SUFFICES ASSUME NEW l \in Logins, served'[l] # NoPlayer, ~raced,
                      LoginPid[l] \notin doubled
               PROVE  table'[LoginPid[l]] = served'[l]
    BY <1>1 DEF SessionsAttached
  <2>1. served'[l] = IF l = Message(c) THEN cur[c] ELSE served[l]
    BY DEF Inserts, TypeOK
  <2>2. CASE l = Message(c)
    <3>1. table[PidAt(c)] = cur[c] \/ table[PidAt(c)] = NoPlayer
      BY <2>2, <1>1, <1>3 DEF AloneOK, LoginSteps
    <3> QED  BY <2>1, <2>2, <3>1, <1>2, <1>3, <1>5
  <2>3. CASE l # Message(c)
    <3>1. table[LoginPid[l]] = served[l] /\ LoginPid[l] \in Pids
      BY <2>1, <2>3, GameAssumption DEF SessionsAttached
    <3> QED  BY <2>1, <2>3, <3>1, <1>12
  <2> QED  BY <2>2, <2>3
<1>15. EndedSessionsSaved'
  BY <1>1, <1>12 DEF EndedSessionsSaved, TypeOK
<1> QED  BY <1>6, <1>10, <1>11, <1>13, <1>14, <1>15

LEMMA LeaveBeginsKeepsS == \A c \in Conns : DInv /\ SInv /\ LeaveBegins(c) => SInv'
<1> SUFFICES ASSUME NEW c \in Conns, DInv, SInv, LeaveBegins(c)  PROVE SInv'
  OBVIOUS
<1> USE DEF DInv, SInv
<1>1. /\ step[c] = "idle" /\ mail[c] # <<>> /\ Message(c) \in Pids
      /\ UNCHANGED <<sent, table, data, dirty, stored, doubled, served, ended>>
      /\ raced' = (raced \/ \E d \in Conns \ {c} : Writes(d))
  BY DEF LeaveBegins, LeaveVars, playerVars, dbVars, Reads
<1>2. PidAt(c) \in Pids  BY <1>1, MessageType
<1>3. PICK found \in Found(c, PidAt(c)) :
         IF found = NoPlayer
         THEN Ends(c)
         ELSE cur' = [cur EXCEPT ![c] = found] /\ Goes(c, "leave") /\ UNCHANGED mail
  BY DEF LeaveBegins
<1>4. MailOK' /\ MadeOK' /\ ReadyOK' /\ AloneOK'
  <2>1. CASE found = NoPlayer  BY <2>1, <1>1, <1>3, EndsKeepsS
  <2>2. CASE found # NoPlayer
    <3>1. UNCHANGED mail /\ found = table[PidAt(c)] /\ found \in Logins
      BY <2>2, <1>2, <1>3 DEF Found, TypeOK
    <3>2. /\ \A d \in Conns : Message(d)' = Message(d) /\ PidAt(d)' = PidAt(d)
          /\ MailOK'
          /\ \A l \in Logins : ~Waiting(l) => ~Waiting(l)'
      BY <1>1, <3>1, MailStays, WaitingStays
    <3>3. \A d \in Conns : /\ step'[d] = IF d = c THEN "leave" ELSE step[d]
                           /\ cur'[d] = IF d = c THEN found ELSE cur[d]
      BY <2>2, <1>3 DEF Goes, TypeOK
    <3>4. MadeOK'
      <4>1. \A p \in Pids : table[p] # NoPlayer => table[p] \in Logins  BY DEF TypeOK
      <4>2. \A d \in Conns : step[d] # "idle" => cur[d] \in Logins  BY DEF WorkOK
      <4>3. \A p \in Pids : table'[p] # NoPlayer =>
               table'[p] \in sent' /\ ~Waiting(table[p])'
        BY <1>1, <3>2, <4>1 DEF MadeOK
      <4>4. ASSUME NEW d \in Conns
            PROVE  /\ step'[d] = "load" => cur'[d] = Message(d)'
                   /\ step'[d] \in {"attach", "enter", "insert"} =>
                         \/ cur'[d] = Message(d)'
                         \/ cur'[d] \in sent' /\ ~Waiting(cur[d])'
        <5>1. CASE d = c  BY <5>1, <3>3
        <5>2. CASE d # c
          <6>1. step'[d] = step[d] /\ cur'[d] = cur[d]  BY <5>2, <3>3
          <6> QED  BY <5>2, <6>1, <1>1, <3>2, <4>2 DEF MadeOK
        <5> QED  BY <5>1, <5>2
      <4> QED  BY <4>3, <4>4 DEF MadeOK
    <3>5. ReadyOK'  BY <1>1, <3>3 DEF ReadyOK
    <3>6. AloneOK'
      <4> SUFFICES ASSUME ~raced', NEW d \in Conns
                   PROVE  /\ step'[d] \in LoginSteps /\ PidAt(d)' \notin doubled' =>
                               \/ table'[PidAt(d)'] = cur'[d]
                               \/ /\ table'[PidAt(d)'] = NoPlayer
                                  /\ \A e \in Conns \ {d} :
                                       step'[e] \in LoginSteps => PidAt(e)' # PidAt(d)'
                          /\ step'[d] \in LeaveSteps => table'[PidAt(d)'] = cur'[d]
        BY DEF AloneOK
      <4>1. ~raced  BY <1>1
      <4>2. CASE d = c  BY <4>2, <1>1, <3>1, <3>2, <3>3 DEF LoginSteps
      <4>3. CASE d # c
        <5>1. step'[d] = step[d] /\ cur'[d] = cur[d]  BY <4>3, <3>3
        <5>2. \A e \in Conns : step'[e] \in LoginSteps => step[e] \in LoginSteps
          BY <3>3 DEF LoginSteps
        <5> QED  BY <4>1, <5>1, <5>2, <1>1, <3>2 DEF AloneOK
      <4> QED  BY <4>2, <4>3
    <3> QED  BY <3>2, <3>4, <3>5, <3>6
  <2> QED  BY <2>1, <2>2
<1>5. SessionsAttached' /\ EndedSessionsSaved'
  BY <1>1 DEF SessionsAttached, EndedSessionsSaved
<1> QED  BY <1>4, <1>5

LEMMA LeaveTestsKeepsS == \A c \in Conns : DInv /\ SInv /\ LeaveTests(c) => SInv'
<1> SUFFICES ASSUME NEW c \in Conns, DInv, SInv, LeaveTests(c)  PROVE SInv'
  OBVIOUS
<1>1. /\ step[c] = "leave"
      /\ UNCHANGED <<sent, table, data, dirty, stored, doubled, raced, served>>
      /\ ended' \subseteq ended
  BY DEF LeaveTests, LeaveVars, playerVars, dbVars
<1>2. mail[c] # <<>>  BY <1>1, AtWork1 DEF DInv
<1>3. MailOK' /\ MadeOK' /\ ReadyOK' /\ AloneOK'
  <2>1. CASE Ends(c)  BY <2>1, <1>1, <1>2, EndsKeepsS
  <2>2. CASE Goes(c, "logout") /\ UNCHANGED <<mail, cur, ended>>
    <3>1. MailOK' /\ MadeOK' /\ AloneOK'
      BY <2>2, <1>1, GoesOnKeepsS DEF Step, LeaveSteps
    <3>2. \A d \in Conns : step'[d] = IF d = c THEN "logout" ELSE step[d]
      BY <2>2 DEF Goes, DInv, TypeOK
    <3> QED  BY <2>2, <3>1, <3>2, <1>1 DEF SInv, ReadyOK
  <2> QED  BY <2>1, <2>2 DEF LeaveTests
<1>4. SessionsAttached' /\ EndedSessionsSaved'
  BY <1>1 DEF SInv, SessionsAttached, EndedSessionsSaved
<1> QED  BY <1>3, <1>4 DEF SInv

LEMMA LogsOutKeepsS == \A c \in Conns : DInv /\ SInv /\ LogsOut(c) => SInv'
<1> SUFFICES ASSUME NEW c \in Conns, DInv, SInv, LogsOut(c)  PROVE SInv'
  OBVIOUS
<1>1. /\ step[c] = "logout"
      /\ UNCHANGED <<mail, sent, table, cur, data, dirty, stored, doubled, raced, served,
                     ended>>
  BY DEF LogsOut, LeaveVars, playerVars, dbVars
<1>2. MailOK' /\ MadeOK' /\ ReadyOK' /\ AloneOK'
  <2>1. CASE UNCHANGED step
    <3>1. \A d \in Conns : Message(d)' = Message(d) /\ PidAt(d)' = PidAt(d)
      BY <1>1, MailStays
    <3>2. MailOK' /\ \A l \in Logins : ~Waiting(l) => ~Waiting(l)'
      BY <1>1, WaitingStays DEF SInv
    <3>3. MadeOK'
      BY <2>1, <1>1, <3>1 DEF SInv, MadeOK, Waiting
    <3> QED  BY <2>1, <1>1, <3>1, <3>2, <3>3 DEF SInv, ReadyOK, AloneOK
  <2>2. CASE Goes(c, "save")
    <3>1. MailOK' /\ MadeOK' /\ AloneOK'
      BY <2>2, <1>1, GoesOnKeepsS DEF Step, LeaveSteps
    <3>2. \A d \in Conns : step'[d] = IF d = c THEN "save" ELSE step[d]
      BY <2>2 DEF Goes, DInv, TypeOK
    <3> QED  BY <3>1, <3>2, <1>1 DEF SInv, ReadyOK
  <2> QED  BY <2>1, <2>2 DEF LogsOut
<1>3. SessionsAttached' /\ EndedSessionsSaved'
  BY <1>1 DEF SInv, SessionsAttached, EndedSessionsSaved
<1> QED  BY <1>2, <1>3 DEF SInv

\* a disconnect that goes to its end stores the record of the Player in the table
LEMMA SaveKeepsS == \A c \in Conns : DInv /\ SInv /\ (Saves(c) \/ SaveFails(c)) => SInv'
<1> SUFFICES ASSUME NEW c \in Conns, DInv, SInv, Saves(c) \/ SaveFails(c)  PROVE SInv'
  OBVIOUS
<1>1. /\ step[c] = "save" /\ Ends(c)
      /\ UNCHANGED <<sent, table, data, dirty, doubled, raced, served>>
  BY DEF Saves, SaveFails, LeaveVars, playerVars
<1>2. mail[c] # <<>> /\ cur[c] \in Logins /\ PidAt(c) \in Pids
  BY <1>1, AtWork1 DEF DInv
<1>3. MailOK' /\ MadeOK' /\ ReadyOK' /\ AloneOK'  BY <1>1, <1>2, EndsKeepsS
<1>4. SessionsAttached'  BY <1>1 DEF SInv, SessionsAttached
<1>5. EndedSessionsSaved'
  <2> SUFFICES ASSUME NEW p \in ended', ~raced
               PROVE  table[p] # NoPlayer /\ stored'[p] = data[table[p]]
    BY <1>1 DEF EndedSessionsSaved
  <2>1. CASE SaveFails(c)
    BY <2>1 DEF SInv, SaveFails, EndedSessionsSaved
  <2>2. CASE Saves(c)
    <3>1. table[PidAt(c)] = cur[c] /\ cur[c] # NoPlayer
      BY <1>1, <1>2, GameAssumption DEF SInv, AloneOK, LeaveSteps
    <3>2. dirty[cur[c]] /\ data[cur[c]] # "none"
      BY <1>2, <3>1 DEF SInv, ReadyOK
    <3>3. p \in Pids /\ (p = PidAt(c) \/ p \in ended)
      BY <2>2, <1>2 DEF Saves, DInv, TypeOK
    <3>4. stored'[p] = IF p = PidAt(c) THEN data[cur[c]] ELSE stored[p]
      BY <2>2, <3>2, <3>3 DEF Saves, DInv, TypeOK
    <3> QED  BY <3>1, <3>3, <3>4 DEF SInv, EndedSessionsSaved
  <2> QED  BY <2>1, <2>2
<1> QED  BY <1>3, <1>4, <1>5 DEF SInv

LEMMA SInvStarts == Init => SInv
<1> SUFFICES ASSUME Init  PROVE SInv
  OBVIOUS
<1>1. \A c \in Conns : mail[c] = <<>> /\ DOMAIN mail[c] = {}  BY DEF Init
<1>2. MailOK  BY <1>1 DEF MailOK
<1>3. MadeOK /\ ReadyOK /\ AloneOK
  BY DEF Init, MadeOK, ReadyOK, AloneOK, LoginSteps, LeaveSteps
<1>4. SessionsAttached /\ EndedSessionsSaved
  BY DEF Init, SessionsAttached, EndedSessionsSaved
<1> QED  BY <1>2, <1>3, <1>4 DEF SInv

LEMMA SInvStutters == SInv /\ UNCHANGED vars => SInv'
<1> SUFFICES ASSUME SInv, UNCHANGED vars  PROVE SInv'
  OBVIOUS
<1> USE DEF SInv, vars, playerVars, dbVars, history
<1>1. \A d \in Conns : Message(d)' = Message(d) /\ PidAt(d)' = PidAt(d)  BY MailStays
<1>2. MailOK'  BY WaitingStays
<1>3. MadeOK'  BY <1>1 DEF MadeOK, Waiting
<1>4. ReadyOK' /\ AloneOK'  BY <1>1 DEF ReadyOK, AloneOK
<1>5. SessionsAttached' /\ EndedSessionsSaved'
  BY DEF SessionsAttached, EndedSessionsSaved
<1> QED  BY <1>2, <1>3, <1>4, <1>5

LEMMA SInvSteps == DInv /\ SInv /\ [Next]_vars => SInv'
<1> SUFFICES ASSUME DInv, SInv, [Next]_vars  PROVE SInv'
  OBVIOUS
<1>1. CASE Arrives  BY <1>1, ArrivesKeepsS
<1>2. ASSUME NEW c \in Conns, LoginNext(c)  PROVE SInv'
  BY <1>2, LoginBeginsKeepsS, AttachesKeepsS, LoadKeepsS, EntersKeepsS, InsertsKeepsS
     DEF LoginNext
<1>3. ASSUME NEW c \in Conns, LeaveNext(c)  PROVE SInv'
  BY <1>3, LeaveBeginsKeepsS, LeaveTestsKeepsS, LogsOutKeepsS, SaveKeepsS DEF LeaveNext
<1>4. CASE UNCHANGED vars  BY <1>4, SInvStutters
<1> QED  BY <1>1, <1>2, <1>3, <1>4 DEF Next

THEOREM SInvariant == Spec => []SInv
  BY DInvariant, SInvStarts, SInvSteps, PTL DEF Spec

-----------------------------------------------------------------------------
(* A login that was answered works with the Player the table gives to every *)
(* later message, for any number of players, logins and actors, unless its  *)
(* player's logins overlapped or the unguarded table was raced for          *)
(* (SessionsAttached).                                                     *)
THEOREM SessionsStayAttached == Spec => []SessionsAttached
<1>1. SInv => SessionsAttached  BY DEF SInv
<1> QED  BY <1>1, SInvariant, PTL

(* After a disconnect that found the Player and went to its end, the        *)
(* database holds the Player's record, whatever other players and           *)
(* connections do (EndedSessionsSaved).                                    *)
THEOREM EndedSessionsAreSaved == Spec => []EndedSessionsSaved
<1>1. SInv => EndedSessionsSaved  BY DEF SInv
<1> QED  BY <1>1, SInvariant, PTL

=============================================================================
