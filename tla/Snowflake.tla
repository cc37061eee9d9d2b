------------------------------ MODULE Snowflake ------------------------------
(***************************************************************************)
(* core::Snowflake: the ids a process gives to its sessions, from a clock  *)
(* of milliseconds that may be set back, and across restarts of the        *)
(* process, which forget the last time.  nextId holds a mutex, so one call *)
(* at a time is at work; an id is the time and the sequence in it, since   *)
(* the worker id only keeps two processes apart.                           *)
(***************************************************************************)
EXTENDS Naturals

CONSTANTS
    SequenceMask,  \* SEQUENCE_MASK
    Times,         \* bound: the clock shows 1 .. Times
    Setbacks,      \* bound: how often it is set back
    Restarts       \* bound: how often the process starts again

ASSUME SnowflakeAssumption == SequenceMask \in Nat

VARIABLES
    now,            \* the clock
    setbacks,       \* how often it was set back
    restarts,       \* how often the process was started again
    call,           \* where the call in progress is, or "none"
    lastTimestamp,  \* lastTimestamp_
    sequence,       \* sequence_
    issued,         \* history: the ids given out
    repeated,       \* history: those given out twice
    high            \* history: the last time any earlier run of the process used

clockVars == <<now, setbacks>>
idVars == <<clockVars, restarts, call, lastTimestamp, sequence, issued, repeated, high>>

Id == [time : Nat, seq : 0 .. SequenceMask]

IdTypeOK ==
    /\ now \in Nat \ {0}
    /\ setbacks \in Nat /\ restarts \in Nat
    /\ call \in {"none", "behind", "full"}
    /\ lastTimestamp \in Nat
    /\ sequence \in 0 .. SequenceMask
    /\ issued \subseteq Id
    /\ repeated \subseteq issued
    /\ high \in Nat

IdInit ==
    /\ now = 1
    /\ setbacks = 0 /\ restarts = 0
    /\ call = "none"
    /\ lastTimestamp = 0
    /\ sequence = 0
    /\ issued = {} /\ repeated = {}
    /\ high = 0

Tick ==
    /\ now < Times
    /\ now' = now + 1
    /\ UNCHANGED <<setbacks, restarts, call, lastTimestamp, sequence, issued, repeated, high>>

SetBack ==
    /\ setbacks < Setbacks
    /\ setbacks' = setbacks + 1
    /\ \E t \in 1 .. now - 1 : now' = t
    /\ UNCHANGED <<restarts, call, lastTimestamp, sequence, issued, repeated, high>>

Gives(time, seq) ==
    LET id == [time |-> time, seq |-> seq] IN
    /\ lastTimestamp' = time
    /\ sequence' = seq
    /\ issued' = issued \cup {id}
    /\ repeated' = repeated \cup ({id} \cap issued)
    /\ call' = "none"

NextSequence == (sequence + 1) % (SequenceMask + 1)

\* the second half of nextIdImp, with the time that was read
Continues ==
    \/ now = lastTimestamp /\ NextSequence # 0 /\ Gives(now, NextSequence)
    \/ /\ now = lastTimestamp /\ NextSequence = 0
       /\ sequence' = 0
       /\ call' = "full"
       /\ UNCHANGED <<lastTimestamp, issued, repeated>>
    \/ now # lastTimestamp /\ Gives(now, 0)

\* nextIdImp up to its first look at the clock, and on if that does not lie back
NextId ==
    /\ call = "none"
    /\ IF now < lastTimestamp
       THEN call' = "behind" /\ UNCHANGED <<lastTimestamp, sequence, issued, repeated>>
       ELSE Continues
    /\ UNCHANGED <<clockVars, restarts, high>>

\* the clock has caught up
CatchesUp ==
    /\ call = "behind" /\ now >= lastTimestamp
    /\ Continues
    /\ UNCHANGED <<clockVars, restarts, high>>

\* Mutant of NextMillisecond: the wait ends with the first look at the clock.
NextMillisecondNow == now >= lastTimestamp

NextMillisecond == now > lastTimestamp

\* the sequence was used up, and a new millisecond has begun
Renews ==
    /\ call = "full" /\ NextMillisecond
    /\ Gives(now, 0)
    /\ UNCHANGED <<clockVars, restarts, high>>

Restart ==
    /\ restarts < Restarts
    /\ restarts' = restarts + 1
    /\ high' = IF lastTimestamp > high THEN lastTimestamp ELSE high
    /\ lastTimestamp' = 0 /\ sequence' = 0
    /\ call' = "none"
    /\ UNCHANGED <<clockVars, issued, repeated>>

IdNext == Tick \/ SetBack \/ NextId \/ CatchesUp \/ Renews \/ Restart

IdSpec == IdInit /\ [][IdNext]_idVars

-----------------------------------------------------------------------------
(***************************************************************************)
(* No id is given out twice (Snowflake.h:38-39 and 68-94), however often   *)
(* the sequence of a millisecond is used up and the clock is set back,     *)
(* unless the process was started again and its clock shows a time that an *)
(* earlier run had used already.                                           *)
(***************************************************************************)
IdsUnique == \A id \in repeated : id.time <= high
=============================================================================
