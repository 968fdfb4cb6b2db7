-------------------------------- MODULE Urls --------------------------------
(***************************************************************************)
(* url.c, the path functions of common.c and combine_url of htmlls2.c.     *)
(* A string is a sequence of delimiters (":", "/", "@") and of words       *)
(* between them; a word stands for one or more other characters, so that   *)
(* words side by side are one word of the program.  The strings fit in the *)
(* char arrays they are copied to, but for those of cleanpath.             *)
(***************************************************************************)
EXTENDS Integers, Sequences, SequencesExt

CONSTANTS
  Words,       \* the words that occur
  Ports,       \* the numbers that occur as ports
  Digits,      \* a function from ports to the words that printf writes for them
  LowerCase,   \* a function from words with upper-case letters to words without
  LongWords,   \* words that the arrays of cleanpath, of 256 bytes, have no room for
  MaxPieces    \* pieces of a path that cleanpath has room for

Delimiters == {":", "/", "@"}

ASSUME UrlConstants ==
  /\ {"http", "ftp", "mailto", "anonymous"} \subseteq Words /\ Words \cap Delimiters = {}
  /\ Ports \subseteq Nat \ {0} /\ {21, 25, 80} \subseteq Ports
  /\ \A m \in Ports : Digits[m] \in Words /\ \A n \in Ports : Digits[m] = Digits[n] => m = n
  /\ \A w \in DOMAIN LowerCase : LowerCase[w] \in Words \ DOMAIN LowerCase
  /\ MaxPieces \in Nat \ {0}

Strings == Seq(Words \cup Delimiters)

\* Dots side by side would be one word: a name that "." and "." make is "..".
DotsApart(s) == \A i \in 1 .. Len(s) - 1 : ~({s[i], s[i + 1]} \subseteq {".", ".."})

\* Positions as strchr and strrchr find them; 0 is NULL.
First(s, d) == SelectInSeq(s, LAMBDA x : x = d)
Final(s, d) == SelectLastInSeq(s, LAMBDA x : x = d)
Before(s, i) == SubSeq(s, 1, i - 1)
Behind(s, i) == SubSeq(s, i + 1, Len(s))

Lower(s) == [i \in DOMAIN s |-> IF s[i] \in DOMAIN LowerCase THEN LowerCase[s[i]] ELSE s[i]]

\* atoi; a string that does not begin with a number is 0.
Number(s) == IF s # << >> /\ \E n \in Ports : Digits[n] = s[1]
             THEN CHOOSE n \in Ports : Digits[n] = s[1] ELSE 0

NotParsed == [proto |-> << >>]   \* parse_url returns -1
NoResult == <<"none">>           \* combine_url returns -1

-----------------------------------------------------------------------------
(* url.c *)

ParseUserpass(s) ==
  LET i == First(s, ":")
  IN  IF i = 0 THEN [user |-> s, pass |-> << >>]
      ELSE [user |-> Before(s, i), pass |-> Behind(s, i)]

ParseHostport(s) ==
  LET i == First(s, ":")
  IN  IF i = 0 THEN [host |-> Lower(s), port |-> 0]
      ELSE [host |-> Lower(Before(s, i)), port |-> Number(Behind(s, i))]

Hostpart(login, place) ==
  [user |-> login.user, pass |-> login.pass, host |-> place.host, port |-> place.port]

ParseHostpart(s) ==
  LET i == Final(s, "@")
  IN  Hostpart(ParseUserpass(Before(s, i)), ParseHostport(Behind(s, i)))

DefaultPort(proto) == CASE proto = <<"http">> -> 80 [] proto = <<"ftp">> -> 21 [] OTHER -> 25

\* The parts of a URL; that of mailto has no path, and the caller's keeps what it was.
ParseUrl(s) ==
  LET colon  == First(s, ":")
      proto  == Lower(Before(s, colon))
      rest   == Behind(s, colon)
      atHost == SubSeq(rest, 3, Len(rest))
      slash  == First(atHost, "/")
      Parts(hostpart, path) ==
        LET h == ParseHostpart(hostpart)
        IN  [proto |-> proto, host |-> h.host, pass |-> h.pass, path |-> path,
             user |-> IF h.user = << >> /\ proto = <<"ftp">> THEN <<"anonymous">> ELSE h.user,
             port |-> IF h.port = 0 THEN DefaultPort(proto) ELSE h.port]
  IN  CASE colon = 0 -> NotParsed
        [] colon # 0 /\ proto \in {<<"http">>, <<"ftp">>} ->
             IF ~IsPrefix(<<"/", "/">>, rest) THEN NotParsed
             ELSE IF slash = 0 THEN Parts(atHost, <<"/">>)
             ELSE Parts(Before(atHost, slash), SubSeq(atHost, slash, Len(atHost)))
        [] colon # 0 /\ proto = <<"mailto">> -> Parts(rest, << >>)
        [] OTHER -> NotParsed

IsUrl(s) == ParseUrl(s) # NotParsed

\* Mutant: a user without a password is left out.
LoginByPassword(u) ==
  IF u.pass = << >> THEN << >> ELSE u.user \o <<":">> \o u.pass \o <<"@">>

Login(u) ==
  IF u.user \o u.pass = << >> THEN << >>
  ELSE u.user \o (IF u.pass = << >> THEN << >> ELSE <<":">> \o u.pass) \o <<"@">>

\* No colon is written before a port.  The branch for other protocols is never reached
\* with what parse_url returns.
BuildUrl(u) ==
  LET port == IF u.port \in {0, DefaultPort(u.proto)} THEN << >> ELSE <<Digits[u.port]>>
  IN  IF u.proto = <<"mailto">> THEN u.proto \o <<":">> \o u.user \o <<"@">> \o u.host
      ELSE u.proto \o <<":", "/", "/">> \o Login(u) \o u.host \o port \o u.path

PublicUrl(s) ==
  LET u == ParseUrl(s)
  IN  IF u = NotParsed THEN s
      ELSE u.proto \o <<":", "/", "/">> \o u.user \o <<"@">> \o u.host
           \o <<":", Digits[u.port]>> \o u.path

-----------------------------------------------------------------------------
(* common.c *)

\* Mutant: the slash is cut off with the name behind it.
DirnameWithoutSlash(path) == SubSeq(path, 1, Final(path, "/") - 1)

Dirname(path) == SubSeq(path, 1, Final(path, "/"))

Fnamecatslash(path) ==
  IF path # << >> /\ Last(path) \in {"/", "\\"} THEN path ELSE Append(path, "/")

Fnamecat(path, name) == Fnamecatslash(path) \o name

\* A path cut behind each of its slashes.
Cut(ps, x) ==
  IF ps = << >> \/ Last(Last(ps)) = "/" THEN Append(ps, <<x>>)
  ELSE [ps EXCEPT ![Len(ps)] = Append(@, x)]

Pieces(path) == FoldLeft(Cut, << >>, path)

Name(piece) == IF Last(piece) = "/" THEN Front(piece) ELSE piece

\* There are MaxPieces arrays for pieces, and no test of their number or their size.
Stored(stack, piece) == Len(stack) < MaxPieces /\ Range(piece) \cap LongWords = {}

\* The stack of cleanpath.  "." takes a piece from it, as ".." does, and takes the count
\* below zero when there is none; a piece is then stored outside the array.
Put(st, piece) ==
  CASE Name(piece) = <<".">> -> IF st.stack = << >> THEN [st EXCEPT !.below = @ + 1]
                                ELSE [st EXCEPT !.stack = Front(@)]
    [] Name(piece) = <<"..">> -> IF st.stack = << >> THEN st ELSE [st EXCEPT !.stack = Front(@)]
    [] OTHER -> IF st.below > 0 THEN [st EXCEPT !.below = @ - 1, !.outside = TRUE]
                ELSE [st EXCEPT !.stack = Append(@, piece),
                                !.outside = @ \/ ~Stored(st.stack, piece)]

Cleanpath(path) ==
  FoldLeft(Put, [stack |-> << >>, below |-> 0, outside |-> FALSE], Pieces(path))

-----------------------------------------------------------------------------
(* htmlls2.c *)

\* What is stored outside the array may end up anywhere, and mailto leaves a path that
\* nobody has written: it is copied whatever its length is, as a link's too.
Undefined == <<"undefined">>

CombineUrl(base, dest) ==
  LET b        == ParseUrl(base)
      d        == ParseUrl(dest)
      absolute == dest # << >> /\ dest[1] = "/"
      path     == Cleanpath(IF absolute THEN dest ELSE Fnamecat(Dirname(b.path), dest))
  IN  CASE d # NotParsed -> IF d.proto = <<"mailto">> THEN Undefined ELSE BuildUrl(d)
        [] d = NotParsed /\ b = NotParsed -> NoResult
        [] d = NotParsed /\ b # NotParsed ->
             IF path.outside \/ (~absolute /\ b.path = << >>) THEN Undefined
             ELSE BuildUrl([b EXCEPT !.path = FlattenSeq(path.stack)])
=============================================================================
