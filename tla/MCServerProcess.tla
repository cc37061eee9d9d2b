--------------------------- MODULE MCServerProcess ---------------------------
(***************************************************************************)
(* Model checking of three parts of one server process that share nothing: *)
(* how it starts and stops, its id generator, and a byte ring of one of    *)
(* its connections.  A behaviour follows one of them.                      *)
(***************************************************************************)
EXTENDS RingByteBuf, ServerStartup, Snowflake

VARIABLE part

ProcessInit == Init /\ StartInit /\ IdInit /\ part \in {"ring", "start", "ids"}

ProcessNext ==
    /\ UNCHANGED part
    /\ \/ part = "ring" /\ Next /\ UNCHANGED <<startVars, idVars>>
       \/ part = "start" /\ StartNext /\ UNCHANGED <<vars, idVars>>
       \/ part = "ids" /\ IdNext /\ UNCHANGED <<vars, startVars>>

ProcessSpec ==
    /\ ProcessInit /\ [][ProcessNext]_<<vars, startVars, idVars, part>>
    /\ part = "start" => StartFairness

(***************************************************************************)
(* The state of each part is well typed.                                   *)
(***************************************************************************)
ProcessTypeOK == TypeOK /\ StartTypeOK /\ IdTypeOK

(***************************************************************************)
(* start and stop return (ServerStartup!StartAndStopEnd) in the behaviours *)
(* that follow them.                                                       *)
(***************************************************************************)
ServerStartAndStopEnd == part = "start" => StartAndStopEnd
=============================================================================
