----------------------------- MODULE MCSockBuf ------------------------------
(***************************************************************************)
(* A ring of three slots: with lines of two and three bytes the second     *)
(* refill starts inside the ring and wraps.                                *)
(***************************************************************************)
EXTENDS SockBuf
=============================================================================
