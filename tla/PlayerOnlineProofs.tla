-------------------------- MODULE PlayerOnlineProofs --------------------------
(***************************************************************************)
(* Proofs about PlayerOnline, for every set of players, connections, login  *)
(* requests and Player objects, and every bound of the pool's free list.    *)
(*                                                                         *)
(* The invariant of the shared data is an operator of its four parts and    *)
(* the logins sent: t is the table, d the userData of the channels, h the   *)
(* session of each object, f the free list, s the logins sent.             *)
(***************************************************************************)
EXTENDS PlayerOnline, TLAPS

-----------------------------------------------------------------------------
(* The inductive invariant.                                                *)

Two(s, c) == \E l, k \in s : LoginChan[l] = c /\ LoginChan[k] = c /\ LoginUid[l] # LoginUid[k]

DataTypes(t, d, h, f, s) ==
    /\ s \subseteq Logins
    /\ t \in [Uids -> Objs \cup {NoObj}] /\ d \in [Chans -> Objs \cup {NoObj}]
    /\ h \in [Objs -> s \cup {NoLogin}]
    /\ f \subseteq Objs

\* The table holds players under their own pid, and none that is free.
TableInv(t, h, f) ==
    \A v \in Uids : t[v] # NoObj =>
        h[t[v]] # NoLogin /\ LoginUid[h[t[v]]] = v /\ t[v] \notin f

\* What is free was constructed once.
FreeInv(h, f) == \A p \in f : h[p] # NoLogin

\* A player on a channel was constructed, is in the table and names the channel.
UserDataInv(t, d, h) ==
    \A c \in Chans : d[c] # NoObj =>
        h[d[c]] # NoLogin /\ t[LoginUid[h[d[c]]]] = d[c] /\ LoginChan[h[d[c]]] = c

\* A player in the table is on its channel, or the channel asked for two players.
ReachInv(t, d, h, s) ==
    \A v \in Uids : t[v] # NoObj =>
        d[LoginChan[h[t[v]]]] = t[v] \/ Two(s, LoginChan[h[t[v]]])

DataInv(t, d, h, f, s) ==
    /\ DataTypes(t, d, h, f, s)
    /\ TableInv(t, h, f) /\ FreeInv(h, f) /\ UserDataInv(t, d, h) /\ ReachInv(t, d, h, s)

\* A mailbox holds logins that came by its channel.
MailInv(s, m) == m \in [Chans -> Seq(s)]
                 /\ \A c \in Chans : \A i \in 1 .. Len(m[c]) : LoginChan[m[c][i]] = c

\* What a thread has removed from the table, or put into it, and not yet sent.
Others ==
    /\ link \in [Chans -> {"open", "closed", "freed"}]
    /\ late \subseteq sent
    /\ asking \in [Chans -> sent \cup {NoLogin}] /\ leaving \in [Chans -> sent \cup {NoLogin}]
    /\ asked \subseteq sent /\ told \subseteq sent /\ answers \subseteq sent
    /\ found \in [Uids -> [obj : Objs \cup {NoObj}, login : sent \cup {NoLogin}]]
    /\ faults \subseteq {"recycledPlayer", "freedChannel"}

\* A session of a closed connection that is in the table came late.
EndedInv(t, h, s, k, e) ==
    \A v \in Uids : t[v] # NoObj /\ k[LoginChan[h[t[v]]]] # "open" =>
        h[t[v]] \in e \/ Two(s, LoginChan[h[t[v]]])

IInv ==
    /\ DataInv(table, userData, holds, free, sent)
    /\ MailInv(sent, mailbox)
    /\ Others
    /\ EndedInv(table, holds, sent, link, late)

-----------------------------------------------------------------------------
(* What the invariant says.                                                *)

LEMMA RecycleWithin ==
    ASSUME NEW f, NEW p
    PROVE  Recycle(f, p) \subseteq f \cup {p}
BY DEF Recycle

\* The session of a constructed object.
LEMMA Held ==
    ASSUME NEW t, NEW d, NEW h, NEW f, NEW s, DataTypes(t, d, h, f, s),
           NEW p \in Objs, h[p] # NoLogin
    PROVE  h[p] \in s /\ h[p] \in Logins /\ LoginUid[h[p]] \in Uids /\ LoginChan[h[p]] \in Chans
BY OnlineAssumption DEF DataTypes

\* Two names of one table entry.
LEMMA OneEntry ==
    ASSUME NEW t, NEW h, NEW f, TableInv(t, h, f), NEW u \in Uids, NEW v \in Uids,
           t[u] # NoObj, t[u] = t[v]
    PROVE  u = v
BY DEF TableInv

\* The logins sent only grow.
LEMMA TwoGrows ==
    ASSUME NEW s, NEW r, s \subseteq r, NEW c, Two(s, c)
    PROVE  Two(r, c)
BY DEF Two

\* The properties of the runs, from the invariant.
LEMMA IInvImplies ==
    ASSUME IInv
    PROVE  TypeOK /\ PoolExclusive /\ UserDataFresh /\ EntryReachable /\ EndedSessionsLeave
<1> USE DEF IInv, DataInv
<1>1. TypeOK
  BY DEF Others, DataTypes, MailInv, TypeOK
<1>2. PoolExclusive
  BY DEF PoolExclusive, TableInv
<1>3. UserDataFresh
  BY DEF UserDataFresh, UserDataInv, Pid, ChannelOf
<1>4. EntryReachable
  BY DEF EntryReachable, ReachInv, ChannelOf, TwoUids, Two
<1>5. EndedSessionsLeave
  BY DEF EndedSessionsLeave, EndedInv, ChannelOf, TwoUids, Two
<1> QED BY <1>1, <1>2, <1>3, <1>4, <1>5

LEMMA InitIInv == Init => IInv
<1> SUFFICES ASSUME Init PROVE IInv
  OBVIOUS
<1> USE DEF Init
<1>1. DataInv(table, userData, holds, free, sent)
  BY DEF DataInv, DataTypes, TableInv, FreeInv, UserDataInv, ReachInv
<1>2. MailInv(sent, mailbox)
  <2>1. mailbox = [c \in Chans |-> <<>>] /\ <<>> \in Seq(sent) /\ Len(<<>>) = 0
    OBVIOUS
  <2> QED BY <2>1 DEF MailInv
<1>3. Others
  BY DEF Others, Nobody
<1>4. EndedInv(table, holds, sent, link, late)
  BY DEF EndedInv
<1> QED BY <1>1, <1>2, <1>3, <1>4 DEF IInv

-----------------------------------------------------------------------------
(* createPlayer: the old session of u may go to the free list, and o is     *)
(* constructed for l.                                                      *)

LEMMA CreateKeeps ==
    ASSUME DataInv(table, userData, holds, free, sent),
           NEW l \in sent,
           NEW o \in Objs, o \in free \/ o = table[LoginUid[l]] \/ holds[o] = NoLogin,
           free' \subseteq free \cup {table[LoginUid[l]]}, o \notin free', NoObj \notin free',
           table' = [table EXCEPT ![LoginUid[l]] = o],
           holds' = [holds EXCEPT ![o] = l],
           userData' = [c \in Chans |->
                IF c = LoginChan[l] THEN o
                ELSE IF table[LoginUid[l]] # NoObj /\ c = LoginChan[holds[table[LoginUid[l]]]]
                     THEN NoObj
                ELSE userData[c]]
    PROVE  /\ DataInv(table', userData', holds', free', sent)
           /\ \A v \in Uids : v # LoginUid[l] /\ table[v] # NoObj =>
                  table'[v] = table[v] /\ holds'[table'[v]] = holds[table[v]]
           /\ table'[LoginUid[l]] = o /\ holds'[o] = l
<1> USE DEF DataInv
<1> DEFINE u == LoginUid[l]
<1>1. /\ l \in Logins /\ l # NoLogin /\ u \in Uids /\ LoginChan[l] \in Chans
      /\ o # NoObj /\ table[u] \in Objs \cup {NoObj} /\ free' \subseteq Objs
  BY OnlineAssumption DEF DataTypes
<1>2. /\ holds'[o] = l /\ table'[u] = o
      /\ \A p \in Objs : p # o => holds'[p] = holds[p]
      /\ \A v \in Uids : v # u => table'[v] = table[v]
      /\ userData'[LoginChan[l]] = o
  BY <1>1 DEF DataTypes
<1>3. \A v \in Uids : v # u => table[v] # o
  <2> SUFFICES ASSUME NEW v \in Uids, v # u, table[v] = o PROVE FALSE
    OBVIOUS
  <2>1. holds[o] # NoLogin /\ o \notin free
    BY <1>1 DEF TableInv
  <2>2. o = table[u]
    BY <2>1
  <2> QED BY <2>2, <1>1, OneEntry
<1>4. DataTypes(table', userData', holds', free', sent)
  <2>1. table' \in [Uids -> Objs \cup {NoObj}] /\ holds' \in [Objs -> sent \cup {NoLogin}]
    BY <1>1 DEF DataTypes
  <2>2. userData' \in [Chans -> Objs \cup {NoObj}]
    BY <1>1 DEF DataTypes
  <2> QED BY <2>1, <2>2, <1>1 DEF DataTypes
<1>5. \A v \in Uids : v # u /\ table[v] # NoObj =>
          /\ table'[v] = table[v] /\ holds'[table'[v]] = holds[table[v]]
          /\ table[v] \in Objs /\ table[v] # o /\ table[v] \notin free'
          /\ holds[table[v]] # NoLogin /\ LoginUid[holds[table[v]]] = v
  <2> SUFFICES ASSUME NEW v \in Uids, v # u, table[v] # NoObj
               PROVE  /\ table'[v] = table[v] /\ holds'[table'[v]] = holds[table[v]]
                      /\ table[v] \in Objs /\ table[v] # o /\ table[v] \notin free'
                      /\ holds[table[v]] # NoLogin /\ LoginUid[holds[table[v]]] = v
    OBVIOUS
  <2>1. table[v] \in Objs /\ table[v] # o /\ table'[v] = table[v] /\ holds'[table'[v]] = holds[table[v]]
    BY <1>2, <1>3 DEF DataTypes
  <2>2. holds[table[v]] # NoLogin /\ LoginUid[holds[table[v]]] = v /\ table[v] \notin free
    BY DEF TableInv
  <2>3. table[v] # table[u]
    BY <1>1, OneEntry
  <2> QED BY <2>1, <2>2, <2>3
<1>6. TableInv(table', holds', free')
  <2> SUFFICES ASSUME NEW v \in Uids, table'[v] # NoObj
               PROVE  /\ holds'[table'[v]] # NoLogin
                      /\ LoginUid[holds'[table'[v]]] = v
                      /\ table'[v] \notin free'
    BY DEF TableInv
  <2>1. CASE v = u
    BY <2>1, <1>1, <1>2
  <2>2. CASE v # u
    BY <2>2, <1>2, <1>5
  <2> QED BY <2>1, <2>2
<1>7. FreeInv(holds', free')
  <2> SUFFICES ASSUME NEW p \in free' PROVE holds'[p] # NoLogin
    BY DEF FreeInv
  <2>1. p # o /\ holds'[p] = holds[p]
    BY <1>1, <1>2
  <2>2. holds[p] # NoLogin
    BY <1>1 DEF FreeInv, TableInv
  <2> QED BY <2>1, <2>2
<1>8. UserDataInv(table', userData', holds')
  <2> SUFFICES ASSUME NEW c \in Chans, userData'[c] # NoObj
               PROVE  /\ holds'[userData'[c]] # NoLogin
                      /\ table'[LoginUid[holds'[userData'[c]]]] = userData'[c]
                      /\ LoginChan[holds'[userData'[c]]] = c
    BY DEF UserDataInv
  <2>1. CASE c = LoginChan[l]
    BY <2>1, <1>1, <1>2
  <2>2. CASE c # LoginChan[l]
    <3>1. /\ userData'[c] = userData[c] /\ userData[c] \in Objs
          /\ ~(table[u] # NoObj /\ c = LoginChan[holds[table[u]]])
      BY <2>2 DEF DataTypes
    <3>2. /\ holds[userData[c]] # NoLogin
          /\ table[LoginUid[holds[userData[c]]]] = userData[c]
          /\ LoginChan[holds[userData[c]]] = c
      BY <3>1 DEF UserDataInv
    <3>3. LoginUid[holds[userData[c]]] \in Uids
      BY <3>1, <3>2, OnlineAssumption DEF DataTypes
    <3>4. LoginUid[holds[userData[c]]] # u
      BY <3>1, <3>2
    <3>5. userData[c] # NoObj
      BY <3>1, <1>1, OnlineAssumption
    <3>6. /\ table'[LoginUid[holds[userData[c]]]] = userData[c]
          /\ holds'[userData[c]] = holds[userData[c]]
      BY <3>2, <3>3, <3>4, <3>5, <1>5
    <3> QED BY <3>1, <3>2, <3>6
  <2> QED BY <2>1, <2>2
<1>9. ReachInv(table', userData', holds', sent)
  <2> SUFFICES ASSUME NEW v \in Uids, table'[v] # NoObj
               PROVE  \/ userData'[LoginChan[holds'[table'[v]]]] = table'[v]
                      \/ Two(sent, LoginChan[holds'[table'[v]]])
    BY DEF ReachInv
  <2>1. CASE v = u
    BY <2>1, <1>2
  <2>2. CASE v # u
    <3> DEFINE q == table[v]
               c == LoginChan[holds[q]]
    <3>1. /\ table'[v] = q /\ holds'[q] = holds[q] /\ q \in Objs /\ q # NoObj
          /\ holds[q] # NoLogin /\ LoginUid[holds[q]] = v
      BY <2>2, <1>2, <1>5
    <3>2. holds[q] \in sent /\ c \in Chans
      BY <3>1, OnlineAssumption DEF DataTypes
    <3>3. CASE c = LoginChan[l]
      BY <3>1, <3>2, <3>3, <2>2 DEF Two
    <3>4. CASE table[u] # NoObj /\ c = LoginChan[holds[table[u]]]
      <4>1. holds[table[u]] \in sent /\ LoginUid[holds[table[u]]] = u
        BY <3>4, <1>1 DEF TableInv, DataTypes
      <4> QED BY <4>1, <3>1, <3>2, <3>4, <2>2 DEF Two
    <3>5. CASE c # LoginChan[l] /\ ~(table[u] # NoObj /\ c = LoginChan[holds[table[u]]])
      <4>1. userData'[c] = userData[c]
        BY <3>2, <3>5
      <4>2. userData[c] = q \/ Two(sent, c)
        BY <3>1 DEF ReachInv
      <4> QED BY <4>1, <4>2, <3>1
    <3> QED BY <3>3, <3>4, <3>5
  <2> QED BY <2>1, <2>2
<1> QED BY <1>2, <1>4, <1>5, <1>6, <1>7, <1>8, <1>9

-----------------------------------------------------------------------------
(* removePlayerByChannel on the channel x.                                 *)

\* The player is in the table and leaves it.
LEMMA RemoveKeeps ==
    ASSUME DataInv(table, userData, holds, free, sent),
           NEW x \in Chans, userData[x] # NoObj,
           table[LoginUid[holds[userData[x]]]] = userData[x],
           free' \subseteq free \cup {userData[x]},
           table' = [table EXCEPT ![LoginUid[holds[userData[x]]]] = NoObj],
           userData' = [userData EXCEPT ![x] = NoObj]
    PROVE  /\ DataInv(table', userData', holds, free', sent)
           /\ holds[userData[x]] \in sent
           /\ \A w \in Uids : table'[w] # NoObj =>
                  table'[w] = table[w] /\ w # LoginUid[holds[userData[x]]]
<1> USE DEF DataInv
<1> DEFINE p == userData[x]
           v == LoginUid[holds[p]]
<1>1. /\ p \in Objs /\ holds[p] # NoLogin /\ holds[p] \in sent /\ v \in Uids
      /\ LoginChan[holds[p]] = x
  BY Held DEF DataTypes, UserDataInv
<1>2. \A w \in Uids : table'[w] # NoObj => table'[w] = table[w] /\ w # v /\ table[w] # p
  <2> SUFFICES ASSUME NEW w \in Uids, table'[w] # NoObj PROVE table'[w] = table[w] /\ w # v /\ table[w] # p
    OBVIOUS
  <2>1. w # v /\ table'[w] = table[w]
    BY <1>1 DEF DataTypes
  <2> QED BY <2>1, <1>1, OneEntry
<1>3. DataTypes(table', userData', holds, free', sent)
  <2>1. table' \in [Uids -> Objs \cup {NoObj}] /\ userData' \in [Chans -> Objs \cup {NoObj}]
    BY DEF DataTypes
  <2> QED BY <2>1, <1>1 DEF DataTypes
<1>4. TableInv(table', holds, free')
  BY <1>2 DEF TableInv
<1>5. FreeInv(holds, free')
  BY <1>1 DEF FreeInv
<1>6. UserDataInv(table', userData', holds)
  <2> SUFFICES ASSUME NEW c \in Chans, userData'[c] # NoObj
               PROVE  /\ holds[userData'[c]] # NoLogin
                      /\ table'[LoginUid[holds[userData'[c]]]] = userData'[c]
                      /\ LoginChan[holds[userData'[c]]] = c
    BY DEF UserDataInv
  <2>1. c # x /\ userData'[c] = userData[c] /\ userData[c] \in Objs
    BY DEF DataTypes
  <2>2. /\ holds[userData[c]] # NoLogin
        /\ table[LoginUid[holds[userData[c]]]] = userData[c]
        /\ LoginChan[holds[userData[c]]] = c
    BY <2>1 DEF UserDataInv
  <2>3. LoginUid[holds[userData[c]]] \in Uids
    BY <2>1, <2>2, OnlineAssumption DEF DataTypes
  <2>4. LoginUid[holds[userData[c]]] # v
    BY <2>1, <2>2, <1>1
  <2> QED BY <2>1, <2>2, <2>3, <2>4 DEF DataTypes
<1>7. ReachInv(table', userData', holds, sent)
  <2> SUFFICES ASSUME NEW w \in Uids, table'[w] # NoObj
               PROVE  \/ userData'[LoginChan[holds[table'[w]]]] = table'[w]
                      \/ Two(sent, LoginChan[holds[table'[w]]])
    BY DEF ReachInv
  <2> DEFINE q == table[w]
             c == LoginChan[holds[q]]
  <2>1. table'[w] = q /\ w # v /\ q # p /\ q \in Objs /\ q # NoObj
    BY <1>2 DEF DataTypes
  <2>2. holds[q] # NoLogin /\ LoginUid[holds[q]] = w
    BY <2>1 DEF TableInv
  <2>3. holds[q] \in sent /\ c \in Chans
    BY <2>1, <2>2, OnlineAssumption DEF DataTypes
  <2>4. CASE c = x
    BY <2>4, <2>1, <2>2, <2>3, <1>1 DEF Two
  <2>5. CASE c # x
    BY <2>5, <2>1, <2>3 DEF ReachInv, DataTypes
  <2> QED BY <2>4, <2>5
<1> QED BY <1>1, <1>2, <1>3, <1>4, <1>5, <1>6, <1>7

\* The channel has no player, or one that is not in the table.
LEMMA UnlinkKeeps ==
    ASSUME NEW t, NEW d, NEW h, NEW f, NEW s, DataInv(t, d, h, f, s),
           NEW x \in Chans, ~(d[x] # NoObj /\ t[LoginUid[h[d[x]]]] = d[x]),
           NEW d1, d1 = [d EXCEPT ![x] = NoObj]
    PROVE  d1 = d
BY DEF DataInv, DataTypes, UserDataInv

\* A login that is sent leaves the players alone.
LEMMA SentKeeps ==
    ASSUME NEW t, NEW d, NEW h, NEW f, NEW s, DataInv(t, d, h, f, s),
           NEW r, r \subseteq Logins, s \subseteq r
    PROVE  DataInv(t, d, h, f, r)
<1>1. DataTypes(t, d, h, f, r)
  BY DEF DataInv, DataTypes
<1>2. ReachInv(t, d, h, r)
  BY TwoGrows DEF DataInv, ReachInv
<1> QED BY <1>1, <1>2 DEF DataInv

-----------------------------------------------------------------------------
(* Each action keeps the invariant.                                        *)

LEMMA RequestKeeps ==
    ASSUME IInv, NEW l \in Logins, Request(l)
    PROVE  IInv'
<1> DEFINE x == LoginChan[l]
           s1 == sent \cup {l}
<1> USE DEF IInv
<1>1. /\ x \in Chans /\ sent \subseteq s1 /\ s1 \subseteq Logins
      /\ sent' = s1 /\ mailbox' = [mailbox EXCEPT ![x] = Append(mailbox[x], l)]
      /\ link[x] = "open"
      /\ UNCHANGED <<link, late, table, userData, holds, free, asking, leaving,
                     asked, told, answers, found, faults>>
  BY OnlineAssumption DEF Request, DataInv, DataTypes, online, inner
<1>2. DataInv(table, userData, holds, free, sent)'
  BY <1>1, SentKeeps
<1>3. MailInv(s1, mailbox')
  <2>1. \A c \in Chans : mailbox[c] \in Seq(s1)
    BY <1>1 DEF MailInv
  <2>2. /\ Append(mailbox[x], l) \in Seq(s1)
        /\ \A i \in 1 .. Len(Append(mailbox[x], l)) : LoginChan[Append(mailbox[x], l)[i]] = x
    BY <2>1, <1>1 DEF MailInv
  <2>3. \A c \in Chans : mailbox'[c] = IF c = x THEN Append(mailbox[x], l) ELSE mailbox[c]
    BY <1>1 DEF MailInv
  <2>4. mailbox' \in [Chans -> Seq(s1)]
    BY <2>1, <2>2, <1>1 DEF MailInv
  <2> QED BY <2>2, <2>3, <2>4 DEF MailInv
<1>4. Others'
  BY <1>1 DEF Others
<1>5. EndedInv(table, holds, s1, link, late)
  BY <1>1, TwoGrows DEF EndedInv
<1> QED BY <1>1, <1>2, <1>3, <1>4, <1>5

LEMMA ClosedKeeps ==
    ASSUME IInv, NEW x \in Chans, Closed(x)
    PROVE  IInv'
<1> USE DEF IInv
<1> DEFINE p == userData[x]
           v == LoginUid[holds[p]]
<1>1. /\ link' = [link EXCEPT ![x] = "closed"]
      /\ userData' = [userData EXCEPT ![x] = NoObj]
      /\ UNCHANGED <<sent, mailbox, late, holds, asking, asked, told, answers, found, faults>>
  BY DEF Closed, RemovePlayerByChannel, inner
<1>2. MailInv(sent, mailbox)'
  BY <1>1
<1>3. \A c \in Chans : c # x => link'[c] = link[c]
  BY <1>1 DEF Others
<1>4. CASE p # NoObj /\ table[v] = p
  <2>1. /\ table' = [table EXCEPT ![v] = NoObj]
        /\ free' = Recycle(free, p)
        /\ leaving' = [leaving EXCEPT ![x] = holds[p]]
    BY <1>4 DEF Closed, RemovePlayerByChannel, Pid
  <2>2. free' \subseteq free \cup {p}
    BY <2>1, RecycleWithin
  <2>3. /\ DataInv(table', userData', holds, free', sent)
        /\ holds[p] \in sent
        /\ \A w \in Uids : table'[w] # NoObj => table'[w] = table[w] /\ w # v
    BY <1>1, <1>4, <2>1, <2>2, RemoveKeeps
  <2>4. Others'
    BY <1>1, <2>1, <2>3 DEF Others
  <2>5. EndedInv(table', holds, sent, link', late)
    <3> SUFFICES ASSUME NEW w \in Uids, table'[w] # NoObj, link'[LoginChan[holds[table'[w]]]] # "open"
                 PROVE  holds[table'[w]] \in late \/ Two(sent, LoginChan[holds[table'[w]]])
      BY DEF EndedInv
    <3> DEFINE q == table[w]
               c == LoginChan[holds[q]]
    <3>1. table'[w] = q /\ w # v /\ q \in Objs /\ q # NoObj
      BY <2>3 DEF DataInv, DataTypes
    <3>2. holds[q] \in sent /\ LoginUid[holds[q]] = w /\ c \in Chans
      BY <3>1, Held DEF DataInv, TableInv
    <3>3. CASE c = x
      <4>1. LoginChan[holds[p]] = x
        BY <1>4 DEF DataInv, UserDataInv
      <4> QED BY <4>1, <2>3, <3>1, <3>2, <3>3 DEF Two
    <3>4. CASE c # x
      BY <3>1, <3>2, <3>4, <1>3 DEF EndedInv
    <3> QED BY <3>3, <3>4
  <2> QED BY <1>1, <1>2, <2>3, <2>4, <2>5
<1>5. CASE ~(p # NoObj /\ table[v] = p)
  <2>1. UNCHANGED <<table, free, leaving>>
    BY <1>5 DEF Closed, RemovePlayerByChannel, Pid
  <2>2. userData' = userData
    BY <1>1, <1>5, UnlinkKeeps
  <2>3. DataInv(table, userData, holds, free, sent)'
    BY <1>1, <2>1, <2>2
  <2>4. Others'
    BY <1>1, <2>1 DEF Others
  <2>5. EndedInv(table, holds, sent, link', late)
    <3> SUFFICES ASSUME NEW w \in Uids, table[w] # NoObj, link'[LoginChan[holds[table[w]]]] # "open"
                 PROVE  holds[table[w]] \in late \/ Two(sent, LoginChan[holds[table[w]]])
      BY DEF EndedInv
    <3> DEFINE q == table[w]
               c == LoginChan[holds[q]]
    <3>1. q \in Objs /\ holds[q] # NoLogin
      BY DEF DataInv, DataTypes, TableInv
    <3>2. c \in Chans /\ (userData[c] = q \/ Two(sent, c))
      BY <3>1, Held DEF DataInv, ReachInv
    <3>3. CASE c = x
      <4>1. userData[x] # q
        BY <1>5 DEF DataInv, UserDataInv
      <4> QED BY <4>1, <3>2, <3>3
    <3>4. CASE c # x
      BY <3>2, <3>4, <1>3 DEF EndedInv
    <3> QED BY <3>3, <3>4
  <2> QED BY <1>1, <1>2, <2>1, <2>3, <2>4, <2>5
<1> QED BY <1>4, <1>5

LEMMA LoginCreatesKeeps ==
    ASSUME IInv, NEW x \in Chans, LoginCreates(x)
    PROVE  IInv'
<1> USE DEF IInv
<1> DEFINE l == Head(mailbox[x])
           u == LoginUid[l]
           g == IF table[u] = NoObj THEN free ELSE Recycle(free, table[u])
<1>1. /\ mailbox[x] \in Seq(sent) /\ mailbox[x] # <<>>
      /\ \A i \in 1 .. Len(mailbox[x]) : LoginChan[mailbox[x][i]] = x
  BY DEF LoginCreates, MailInv
<1>2. l \in sent /\ LoginChan[l] = x
  BY <1>1
<1>3. l \in Logins /\ l # NoLogin /\ u \in Uids /\ table[u] \in Objs \cup {NoObj}
  BY <1>2, OnlineAssumption DEF DataInv, DataTypes
<1>4. /\ asking' = [asking EXCEPT ![x] = l]
      /\ late' = IF link[x] = "open" THEN late ELSE late \cup {l}
      /\ mailbox' = [mailbox EXCEPT ![x] = Tail(mailbox[x])]
      /\ UNCHANGED <<link, sent, leaving, asked, told, answers, found>>
      /\ CreatePlayer(l)
  BY DEF LoginCreates, inner
<1>5. PICK o \in Available(g) :
          /\ holds' = [holds EXCEPT ![o] = l]
          /\ free' = g \ {o}
          /\ userData' = [c \in Chans |->
                  IF c = LoginChan[l] THEN o
                  ELSE IF table[u] # NoObj /\ c = LoginChan[holds[table[u]]] THEN NoObj
                  ELSE userData[c]]
          /\ table' = [table EXCEPT ![u] = o]
  BY <1>4 DEF CreatePlayer, ChannelOf
<1>6. g \subseteq free \cup {table[u]} /\ g \subseteq Objs /\ NoObj \notin g
  BY <1>3, RecycleWithin, OnlineAssumption DEF DataInv, DataTypes
<1>7. o \in Objs /\ (o \in g \/ holds[o] = NoLogin)
  <2> HIDE DEF g
  <2> QED BY <1>5, <1>6 DEF Available
<1>8. /\ DataInv(table', userData', holds', free', sent)
      /\ \A v \in Uids : v # u /\ table[v] # NoObj =>
             table'[v] = table[v] /\ holds'[table'[v]] = holds[table[v]]
      /\ table'[u] = o /\ holds'[o] = l
  <2>1. /\ o \in free \/ o = table[u] \/ holds[o] = NoLogin
        /\ free' \subseteq free \cup {table[u]} /\ o \notin free' /\ NoObj \notin free'
    <3> HIDE DEF g, u
    <3> QED BY <1>5, <1>6, <1>7
  <2>2. DataInv(table, userData, holds, free, sent)
    OBVIOUS
  <2> HIDE DEF g, l, IInv
  <2> QED BY <2>1, <2>2, <1>2, <1>5, <1>7, CreateKeeps
<1>9. MailInv(sent, mailbox')
  <2>1. /\ Tail(mailbox[x]) \in Seq(sent)
        /\ \A i \in 1 .. Len(Tail(mailbox[x])) : LoginChan[Tail(mailbox[x])[i]] = x
    BY <1>1
  <2>2. \A c \in Chans : mailbox'[c] = IF c = x THEN Tail(mailbox[x]) ELSE mailbox[c]
    BY <1>4 DEF MailInv
  <2>3. mailbox' \in [Chans -> Seq(sent)]
    BY <2>1, <1>4 DEF MailInv
  <2> QED BY <2>1, <2>2, <2>3 DEF MailInv
<1>10. Others'
  <2>1. faults' \subseteq {"recycledPlayer", "freedChannel"}
    BY <1>4 DEF CreatePlayer, Others
  <2>2. asking' \in [Chans -> sent \cup {NoLogin}] /\ late' \subseteq sent
    BY <1>2, <1>4 DEF Others
  <2> QED BY <2>1, <2>2, <1>4 DEF Others
<1>11. EndedInv(table', holds', sent, link, late')
  <2> SUFFICES ASSUME NEW v \in Uids, table'[v] # NoObj, link[LoginChan[holds'[table'[v]]]] # "open"
               PROVE  \/ holds'[table'[v]] \in late'
                      \/ Two(sent, LoginChan[holds'[table'[v]]])
    BY DEF EndedInv
  <2>1. CASE v = u
    BY <2>1, <1>2, <1>4, <1>8
  <2>2. CASE v # u
    <3>1. table'[v] = table[v]
      BY <2>2, <1>3, <1>5 DEF DataInv, DataTypes
    <3>2. holds'[table'[v]] = holds[table[v]]
      BY <2>2, <3>1, <1>8
    <3> QED BY <3>1, <3>2, <1>4 DEF EndedInv
  <2> QED BY <2>1, <2>2
<1> QED BY <1>4, <1>8, <1>9, <1>10, <1>11

\* The steps that leave the table, the mailboxes and what has been sent alone.
LEMMA OthersKeep ==
    ASSUME IInv, UNCHANGED <<table, userData, holds, free, sent, mailbox, late>>, Others',
           \A c \in Chans : link'[c] = "open" \/ link[c] # "open"
    PROVE  IInv'
<1> USE DEF IInv
<1>1. \A v \in Uids : table[v] # NoObj => LoginChan[holds[table[v]]] \in Chans
  BY Held DEF DataInv, DataTypes, TableInv
<1>2. EndedInv(table, holds, sent, link', late)
  BY <1>1 DEF EndedInv
<1> QED BY <1>2

LEMMA NextIInv == IInv /\ [Next]_vars => IInv'
<1> SUFFICES ASSUME IInv, [Next]_vars PROVE IInv'
  OBVIOUS
<1>1. ASSUME NEW l \in Logins, Request(l) PROVE IInv'
  BY <1>1, RequestKeeps
<1>2. ASSUME NEW l \in Logins, GameAnswers(l) PROVE IInv'
  <2>1. Others'
    BY <1>2 DEF IInv, Others, GameAnswers, online
  <2> QED BY <1>2, <2>1, OthersKeep DEF GameAnswers, online
<1>3. ASSUME NEW l \in Logins, FindPlayer(l) PROVE IInv'
  <2> DEFINE u == LoginUid[l]
  <2>1. u \in Uids /\ table[u] \in Objs \cup {NoObj} /\ (table[u] # NoObj => holds[table[u]] \in sent)
    BY OnlineAssumption, Held DEF IInv, DataInv, DataTypes, TableInv
  <2>2. \/ table[u] = NoObj /\ found' = [found EXCEPT ![u] = Nobody]
        \/ table[u] # NoObj
           /\ found' = [found EXCEPT ![u] = [obj |-> table[u], login |-> holds[table[u]]]]
    BY <1>3 DEF FindPlayer
  <2>3. found' \in [Uids -> [obj : Objs \cup {NoObj}, login : sent \cup {NoLogin}]]
    BY <2>1, <2>2 DEF IInv, Others, Nobody
  <2>4. Others'
    BY <1>3, <2>3 DEF IInv, Others, FindPlayer, online
  <2> QED BY <1>3, <2>4, OthersKeep DEF FindPlayer, online
<1>4. ASSUME NEW c \in Chans, Closed(c) PROVE IInv'
  BY <1>4, ClosedKeeps
<1>5. ASSUME NEW c \in Chans, DisconnectSends(c) PROVE IInv'
  <2>1. Others'
    BY <1>5 DEF IInv, Others, DisconnectSends, online
  <2> QED BY <1>5, <2>1, OthersKeep DEF DisconnectSends, online
<1>6. ASSUME NEW c \in Chans, Freed(c) PROVE IInv'
  <2>1. Others'
    BY <1>6 DEF IInv, Others, Freed, online, inner
  <2>2. \A b \in Chans : link'[b] = "open" \/ link[b] # "open"
    BY <1>6 DEF IInv, Others, Freed
  <2> QED BY <1>6, <2>1, <2>2, OthersKeep DEF Freed, online
<1>7. ASSUME NEW c \in Chans, LoginCreates(c) PROVE IInv'
  BY <1>7, LoginCreatesKeeps
<1>8. ASSUME NEW c \in Chans, LoginSends(c) PROVE IInv'
  <2>1. Others'
    BY <1>8 DEF IInv, Others, LoginSends, online
  <2> QED BY <1>8, <2>1, OthersKeep DEF LoginSends, online
<1>9. ASSUME NEW u \in Uids, ReplyToClient(u) PROVE IInv'
  <2>1. found' \in [Uids -> [obj : Objs \cup {NoObj}, login : sent \cup {NoLogin}]]
    BY <1>9 DEF IInv, Others, ReplyToClient, Nobody
  <2>2. Others'
    BY <1>9, <2>1 DEF IInv, Others, ReplyToClient, online, inner
  <2> QED BY <1>9, <2>2, OthersKeep DEF ReplyToClient, online
<1>10. CASE UNCHANGED vars
  <2>1. Others'
    BY <1>10 DEF IInv, Others, vars, online, inner
  <2> QED BY <1>10, <2>1, OthersKeep DEF vars, online
<1> QED BY <1>1, <1>2, <1>3, <1>4, <1>5, <1>6, <1>7, <1>8, <1>9, <1>10 DEF Next

-----------------------------------------------------------------------------
(* The theorems.                                                           *)

\* The invariant holds in every state the gateway's online table reaches.
THEOREM Invariant == Spec => []IInv
<1>1. Init => IInv
  BY InitIInv
<1>2. IInv /\ [Next]_vars => IInv'
  BY NextIInv
<1> QED BY <1>1, <1>2, PTL DEF Spec

\* The table, userData, the pool and the mailboxes keep their types.
THEOREM TypeCorrect == Spec => []TypeOK
<1>1. IInv => TypeOK
  BY IInvImplies
<1> QED BY <1>1, Invariant, PTL

\* ObjectPool and the table: no Player object is in use and free, or the player
\* of two uids, however logins and disconnects interleave.
THEOREM PoolIsExclusive == Spec => []PoolExclusive
<1>1. IInv => PoolExclusive
  BY IInvImplies
<1> QED BY <1>1, Invariant, PTL

\* createPlayer and removePlayerByChannel: userData never points to a Player that
\* has left the table.
THEOREM UserDataIsFresh == Spec => []UserDataFresh
<1>1. IInv => UserDataFresh
  BY IInvImplies
<1> QED BY <1>1, Invariant, PTL

\* The disconnect of a channel reaches its session, but for a channel that asked
\* for two players.
THEOREM EntriesAreReachable == Spec => []EntryReachable
<1>1. IInv => EntryReachable
  BY IInvImplies
<1> QED BY <1>1, Invariant, PTL

\* onPlayerDisconnect: only a login that ran after on_closed, or a channel that
\* asked for two players, leaves a session of a closed channel in the table.
THEOREM SessionsEnd == Spec => []EndedSessionsLeave
<1>1. IInv => EndedSessionsLeave
  BY IInvImplies
<1> QED BY <1>1, Invariant, PTL
=============================================================================
