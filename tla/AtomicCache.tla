---------------------------- MODULE AtomicCache ----------------------------
(***************************************************************************)
(* What the disk cache of httpproxy.pl promises to a reader: for each URL  *)
(* either a miss, or one whole stored response.  An entry appears at once, *)
(* with its head and its body taken from the same response; it is never    *)
(* altered in place; it may disappear (it is about to be replaced, or the  *)
(* program stopped half way through replacing it).  A response without a   *)
(* body is answered with a dummy one.                                      *)
(***************************************************************************)
EXTENDS Naturals

CONSTANTS
  Urls,       \* the URLs a client may ask for
  Versions,   \* the responses a server may give for one URL
  Size,       \* Size[v]: the length of the body of version v
  Dummy,      \* the body that is sent for an empty one
  Miss        \* what a reader finds when nothing is stored

VARIABLE entry   \* entry[u]: what a request for u is answered with

Response == [url : Urls, ver : Versions, decl : BOOLEAN]
Content  == [url : Urls, ver : Versions, len : Nat]
Entry    == [head : Response, body : Content \cup {Dummy}]

(* A response that announces its length is stored whole or not at all. *)
Legitimate(u, e) ==
  /\ e \in Entry
  /\ e.head.url = u
  /\ e.body = Dummy => (e.head.decl => Size[e.head.ver] = 0)
  /\ e.body # Dummy =>
       /\ e.body.url = u /\ e.body.ver = e.head.ver
       /\ e.body.len \in 1 .. Size[e.head.ver]
       /\ e.head.decl => e.body.len = Size[e.head.ver]

Init == entry = [u \in Urls |-> Miss]

Publish(u) ==
  /\ entry[u] = Miss
  /\ \E r \in Response : \E n \in 0 .. Size[r.ver] :
       LET e == [head |-> r,
                 body |-> IF n = 0 THEN Dummy ELSE [url |-> u, ver |-> r.ver, len |-> n]]
       IN  /\ Legitimate(u, e)
           /\ entry' = [entry EXCEPT ![u] = e]

Withdraw(u) ==
  /\ entry[u] # Miss
  /\ entry' = [entry EXCEPT ![u] = Miss]

Next == \E u \in Urls : Publish(u) \/ Withdraw(u)

Spec == Init /\ [][Next]_entry
=============================================================================
