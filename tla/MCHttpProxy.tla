---------------------------- MODULE MCHttpProxy -----------------------------
(***************************************************************************)
(* Two instances of HttpProxy: a small protocol with two sessions for what *)
(* sessions do to each other, and one session with requests and responses  *)
(* of every kind for what a client and its servers see.                    *)
(***************************************************************************)
EXTENDS HttpProxy, TLC

Ask(kind, host, keep) == [kind |-> kind, host |-> host, keep |-> keep]
Answer(body, framed, ka) == [body |-> body, framed |-> framed, ka |-> ka]

CONSTANTS h1, h2

\* The shortest responses, and an answer from the cache, so that descriptors change hands as
\* often as possible.
LoopRequests == {Ask("fetch", h1, FALSE), Ask("fetch", h1, TRUE), Ask("local", h1, TRUE)}
LoopResponses == {Answer(0, TRUE, TRUE), Answer(0, FALSE, FALSE)}

\* Two hosts, a kept client connection or not, an answer from the cache, an error; bodies
\* that one read holds, that several reads bring, and whose length is not announced.
RelayRequests ==
  {Ask("fetch", h1, TRUE), Ask("fetch", h2, TRUE), Ask("fetch", h1, FALSE),
   Ask("local", h1, TRUE), Ask("bad", h1, FALSE)}
RelayResponses ==
  {Answer(2, TRUE, TRUE), Answer(0, TRUE, TRUE), Answer(1, TRUE, FALSE), Answer(1, FALSE, FALSE)}

LoopSymmetry == Permutations(Fds) \cup Permutations(Sess)
FdSymmetry == Permutations(Fds)
=============================================================================
