----------------------------- MODULE MCEventLoop -----------------------------
(***************************************************************************)
(* EventLoop with the sets the runs use: a loop that adopts one connection  *)
(* and opens another, and two threads that may close, one of which sends    *)
(* and connects as well.                                                   *)
(***************************************************************************)
EXTENDS EventLoop

CONSTANTS c1, c2, t1, t2

OneConn    == {c1}
OtherConn  == {c2}
TwoThreads == {t1, t2}
OneThread  == {t1}
Nobody     == {}
=============================================================================
