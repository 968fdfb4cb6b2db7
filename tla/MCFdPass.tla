------------------------------ MODULE MCFdPass ------------------------------
(***************************************************************************)
(* Two connections, so that one can wait for the place the other has in    *)
(* the socket pair; two lines, so that both are passed, or one sends       *)
(* another line behind the one that passes it; a child that is stopped and *)
(* continued, or two that are stopped.                                     *)
(***************************************************************************)
EXTENDS FdPass
=============================================================================
