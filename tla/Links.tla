------------------------------- MODULE Links -------------------------------
(***************************************************************************)
(* htmlls2.c with the URL functions it calls: the values of Combine and    *)
(* NoUrl are CombineUrl and NoResult.                                      *)
(***************************************************************************)
EXTENDS Urls, LinkList

ASSUME LinksConstants ==
  \A x \in Inputs :
    /\ x.base \in Strings /\ DotsApart(x.base)
    /\ \A i \in DOMAIN x.page : Url(x.page[i]) \in Strings /\ DotsApart(Url(x.page[i]))

-----------------------------------------------------------------------------
(* Properties *)

\* url.h calls build_url the inverse of parse_url.  It is not: a port other than the
\* default one is written without a colon, as a part of the host (url.h:31, url.c:108-110).
BuildIsInverse ==
  LET u == ParseUrl(in.base)
  IN  u # NotParsed => ParseUrl(BuildUrl(u)) = u

\* What build_url makes of a URL with the default port, without a password if it is a mail
\* address, is parsed as that URL again, and what public_url makes of any but a mail address
\* is parsed as that URL without its password (url.h:31-33, url.c:54-131).
BuildInverts ==
  LET u == ParseUrl(in.base)
  IN  u # NotParsed =>
        /\ u.port = DefaultPort(u.proto) /\ (u.proto = <<"mailto">> => u.pass = << >>)
           => ParseUrl(BuildUrl(u)) = u
        /\ u.proto # <<"mailto">> => ParseUrl(PublicUrl(in.base)) = [u EXCEPT !.pass = << >>]

\* The reference for relative paths: how many names deep a path is behind its i-th piece ...
IsName(piece) == Name(piece) # <<"..">>
Depth(pieces, i) ==
  Cardinality({j \in 1 .. i : IsName(pieces[j])}) - Cardinality({j \in 1 .. i : ~IsName(pieces[j])})

\* ... and what it leads to: of the names at a depth it is the last one that counts.
Reduced(pieces) ==
  LET n         == Len(pieces)
      Names(d)  == {i \in 1 .. n : IsName(pieces[i]) /\ Depth(pieces, i) = d}
  IN  [d \in 1 .. Depth(pieces, n) |-> pieces[Max(Names(d))]]

Absolute(u, link) == IF link[1] = "/" THEN link ELSE Dirname(u.path) \o link

\* A path that does not say "." nor more ".." than there are names before them, and that
\* cleanpath has room for.
Plain(path) ==
  LET ps == Pieces(path)
  IN  \A i \in 1 .. Len(ps) :
        /\ Name(ps[i]) # <<".">> /\ Range(ps[i]) \cap LongWords = {}
        /\ Depth(ps, i) \in 1 .. MaxPieces

\* On a page with a path a relative link is resolved as one expects, on the server of the
\* page, if it has no "." in it, does not climb above the root and fits in the arrays
\* (htmlls2.c:5-33, common.c:11-86).
Resolves ==
  LET u == ParseUrl(in.base)
  IN  \A i \in 1 .. Len(in.page) :
        LET link == Url(in.page[i])
        IN  /\ u # NotParsed /\ u.path # << >>
            /\ link # << >> /\ ~IsUrl(link) /\ Plain(Absolute(u, link))
            =>
            CombineUrl(in.base, link) =
              BuildUrl([u EXCEPT !.path = FlattenSeq(Reduced(Pieces(Absolute(u, link))))])
=============================================================================
