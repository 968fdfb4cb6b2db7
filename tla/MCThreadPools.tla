--------------------------- MODULE MCThreadPools ----------------------------
(***************************************************************************)
(* Limits as small as they can be and still differ from their neighbours:  *)
(* the client allows two threads of the four there are, so that counted    *)
(* out ones can outlive the start of others, the server one of two; one    *)
(* failed pthread_create in each program, which together use up the        *)
(* client's threads.                                                       *)
(***************************************************************************)
EXTENDS ThreadPools
=============================================================================
