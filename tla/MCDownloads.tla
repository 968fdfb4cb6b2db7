---------------------------- MODULE MCDownloads ----------------------------
(***************************************************************************)
(* One client fetches a file from another server, whose response has one   *)
(* header field, and then one from httpserverc; a copying client wants that *)
(* too.  A packet can end at every position in line and head, and each     *)
(* array is as small as the responses allow, so that every copy can reach  *)
(* the end of its array.                                                   *)
(***************************************************************************)
EXTENDS Downloads

CONSTANTS c1, c2, httpserverc, other

MCUrls == c1 :> <<other, httpserverc>> @@ c2 :> <<httpserverc>>
Text(classes) == [i \in 1 .. Len(classes) |-> <<i, classes[i]>>]
Plain == Text(<<"st", "cr", "lf", "cr", "lf", "x">>)
WithField == Text(<<"st", "st", "st", "st", "cr", "lf", "field", "cr", "lf", "cr", "lf", "x", "y">>)
MCResponse ==
  httpserverc :> [c \in {c1, c2} |-> Plain] @@ other :> [c \in {c1, c2} |-> WithField]
MCBodyStart == httpserverc :> 6 @@ other :> 12
=============================================================================
