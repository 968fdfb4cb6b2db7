------------------------------ MODULE MCLinks ------------------------------
(***************************************************************************)
(* Every page of up to five tags of two names, one of which may have a     *)
(* URL, for both programs; every relative link of up to five characters    *)
(* or words, and some that name a server or are too long, on pages of      *)
(* several URLs; and every URL of the forms below.                         *)
(***************************************************************************)
EXTENDS Links, TLC

Tags == {[kind |-> k, tag |-> t, attrs |-> << >>] : k \in {"start", "end"}, t \in {"A", "B"}}
        \cup {[kind |-> "start", tag |-> t, attrs |-> <<<<"SRC", <<"y">>>>, <<"HREF", <<"x">>>>>>]
                : t \in {"A", "B"}}
TextToken == [kind |-> "text", tag |-> "", attrs |-> << >>]
Home == <<"http", ":", "/", "/", "h", "/">>

MCPages == UNION {[1 .. n -> Tags] : n \in 1 .. 5}
PageInputs ==
  {[prog |-> g, page |-> Append(pg, TextToken), base |-> Home, refurl |-> r] :
     g \in {"htmlls", "htmlls2"}, pg \in MCPages, r \in {<< >>, Append(Home, "x")}}

Image(link) == [kind |-> "start", tag |-> "B", attrs |-> <<<<"SRC", link>>, <<"ALT", <<"z">>>>>>]
MCLinkSet == {s \in UNION {[1 .. n -> {"a", ".", "..", "/"}] : n \in 1 .. 5} : DotsApart(s)}
             \cup {<<"ftp", ":", "/", "/", "g">>, <<"a", ":", "b">>, <<"mailto", ":", "u", "@", "h">>,
                   <<"long", "/", "..", "/", "a">>, <<"/", "a", "/", "long">>}
MCBases ==
  {Home, <<"mailto", ":", "u", "@", "h">>, Home \o <<"d", "/", "e", "/", "f">>, <<"a", "/", "b">>}
LinkInputs ==
  {[prog |-> "htmlls2", page |-> <<Image(l)>>, base |-> b, refurl |-> << >>] :
     l \in MCLinkSet, b \in MCBases}
  \cup {[prog |-> "htmlls2", page |-> <<Image(Append(Home, "x")), Image(<<"a">>)>>,
         base |-> <<"a">>, refurl |-> r] : r \in {<< >>, Append(Home, "x")}}

MCUrlSet ==
  {proto \o <<":">> \o s \o u \o h \o port \o path :
     proto \in {<<"http">>, <<"FTP">>, <<"mailto">>, <<"gopher">>},
     s \in {<<"/", "/">>, << >>},
     u \in {<< >>, <<"u", "@">>, <<"u", ":", "p", "@">>, <<":", "p", "@">>, <<"u", "@", "v", "@">>},
     h \in {<<"h">>, <<"H", ".", "i">>},
     port \in {<< >>, <<":", "80">>, <<":", "21">>, <<":", "25">>, <<":", "8080">>, <<":", "x">>},
     path \in {<< >>, <<"/">>, <<"/", "a", ":", "b", "@", "c">>}}
UrlInputs == {[prog |-> "htmlls2", page |-> << >>, base |-> b, refurl |-> << >>] : b \in MCUrlSet}
WebInputs == {x \in UrlInputs : x.base[1] = "http"}

MCInputs == PageInputs \cup LinkInputs \cup UrlInputs
MCWords ==
  {"http", "FTP", "ftp", "mailto", "gopher", "anonymous", "u", "p", "v", "h", "H", "i", "80", "21",
   "25", "8080", ".", "..", "x", "y", "z", "g", "a", "b", "c", "d", "e", "f", "long"}
MCPorts == {21, 25, 80, 8080}
MCDigits == [n \in MCPorts |-> ToString(n)]
MCLongWords == {"long"}
MCLowerCase == [FTP |-> "ftp", H |-> "h"]
=============================================================================
