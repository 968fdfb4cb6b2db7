------------------------------ MODULE LinkList ------------------------------
(***************************************************************************)
(* htmlls.c and htmlls2.c: the links of an HTML page, with the text that   *)
(* each is on.  Both match end tags with start tags on a stack.            *)
(***************************************************************************)
EXTENDS Naturals, Sequences, SequencesExt

CONSTANTS
  Inputs,          \* records of a program, its page and its arguments
  Combine(_, _),   \* combine_url
  NoUrl,           \* what it returns when neither argument is a URL
  MaxStack,        \* start tags that are remembered
  MaxLinks         \* entries of htmlls's list

ASSUME LinkListConstants ==
  /\ MaxStack \in Nat /\ MaxLinks \in Nat
  /\ \A x \in Inputs : x.page \in Seq(Range(x.page))

\* A page is a sequence of tokens [kind, tag, attrs]; kind is "text" (and comments),
\* "start" or "end", and attrs a sequence of pairs of a key and a value.  The text behind
\* the end of the input, which is not terminated, is part of it.
VARIABLES
  in,          \* the input
  p,           \* the token to be looked at
  stack,       \* start tags: where they are, their names and URLs
  newurl,      \* combine_url's result, left from the last link if it has none
  list         \* the links printed (htmlls2) or stored (htmlls)

vars == <<in, p, stack, newurl, list>>

Init ==
  /\ in \in Inputs
  /\ p = 1 /\ stack = << >> /\ newurl = NoUrl /\ list = << >>

Token == in.page[p]

\* The last HREF or SRC counts.
Url(token) ==
  LET i == SelectLastInSeq(token.attrs, LAMBDA a : a[1] \in {"HREF", "SRC"})
  IN  IF i = 0 THEN << >> ELSE token.attrs[i][2]

\* A link whose URL cannot be resolved is shown with what newurl holds.
Emit(url, from) ==
  IF in.prog = "htmlls2"
  THEN /\ newurl' = IF Combine(in.base, url) = NoUrl THEN newurl ELSE Combine(in.base, url)
       /\ list' = IF in.refurl = << >> \/ in.refurl = newurl'
                  THEN Append(list, [tag |-> Token.tag, url |-> newurl', from |-> from, to |-> p])
                  ELSE list
  ELSE /\ list' = IF Len(list) < MaxLinks
                  THEN Append(list, [tag |-> Token.tag, url |-> url, from |-> from, to |-> p])
                  ELSE list
       /\ UNCHANGED newurl

NoLink == UNCHANGED <<newurl, list>>

AtToken(kind) == p <= Len(in.page) /\ Token.kind = kind /\ p' = p + 1 /\ UNCHANGED in

Text == AtToken("text") /\ UNCHANGED <<stack, newurl, list>>

\* A start tag for which there is no room is not remembered.
Start ==
  /\ AtToken("start")
  /\ stack' = IF Len(stack) < MaxStack
              THEN Append(stack, [at |-> p, tag |-> Token.tag, url |-> Url(Token)])
              ELSE stack
  /\ IF Url(Token) # << >> /\ Token.tag # "A" THEN Emit(Url(Token), p) ELSE NoLink

\* The innermost start tag of a name that is remembered; 0 if there is none.
Innermost(tag) ==
  LET Same == {i \in 1 .. Len(stack) : stack[i].tag = tag}
  IN  IF Same = {} THEN 0 ELSE Max(Same)

\* Mutant: the search leaves the stack empty when it finds nothing.
StrayEndClears ==
  /\ AtToken("end") /\ Innermost(Token.tag) = 0
  /\ stack' = << >> /\ NoLink

\* An end tag without a start tag changes nothing.
StrayEnd ==
  /\ AtToken("end") /\ Innermost(Token.tag) = 0
  /\ UNCHANGED stack /\ NoLink

\* Mutant: start tags inside that have not ended stay on the stack.
EndRemovesOne ==
  /\ AtToken("end")
  /\ LET i == Innermost(Token.tag)
     IN  /\ i > 0 /\ stack' = RemoveAt(stack, i)
         /\ IF stack[i].url # << >> THEN Emit(stack[i].url, stack[i].at) ELSE NoLink

\* An end tag ends its start tag and all that are inside of it.
End ==
  /\ AtToken("end")
  /\ LET i == Innermost(Token.tag)
     IN  /\ i > 0 /\ stack' = SubSeq(stack, 1, i - 1)
         /\ IF stack[i].url # << >> THEN Emit(stack[i].url, stack[i].at) ELSE NoLink

Next == Text \/ Start \/ StrayEnd \/ End

Spec == Init /\ [][Next]_vars

-----------------------------------------------------------------------------
(* Properties *)

\* The texts of two links lie side by side or one within the other, whatever tags are
\* missing, left over or too many (htmlls2.c:114-139, htmlls.c:93-116).
NoCrossing ==
  \A k, l \in 1 .. Len(list) :
    list[k].to < list[l].to => list[k].to <= list[l].from \/ list[l].from <= list[k].from

\* The start tags before j that no end tag before j ends or has within it, m being the
\* start tag that an end tag ends, 0 if there is none.
Open(m, j) ==
  {i \in 1 .. j - 1 :
     /\ in.page[i].kind = "start"
     /\ \A k \in i + 1 .. j - 1 : in.page[k].kind = "end" => m[k] = 0 \/ m[k] > i}

\* The start tag that the end tag at j ends, without a stack: the last one of its name
\* that is open.
StartOf(m, j) ==
  LET Same == {i \in Open(m, j) : in.page[i].tag = in.page[j].tag}
  IN  IF in.page[j].kind = "end" /\ Same # {} THEN Max(Same) ELSE 0

Matches == LET m[j \in 1 .. Len(in.page)] == StartOf(m, j) IN m

Starts == {i \in 1 .. Len(in.page) : in.page[i].kind = "start"}

\* The links of a page: start tags, but for A, and end tags that end a start tag.
Linked ==
  {<<j, j>> : j \in {i \in Starts : Url(in.page[i]) # << >> /\ in.page[i].tag # "A"}}
  \cup {<<Matches[j], j>> : j \in {k \in 1 .. Len(in.page) :
                                     Matches[k] > 0 /\ Url(in.page[Matches[k]]) # << >>}}

Found == {<<list[k].from, list[k].to>> : k \in 1 .. Len(list)}

\* The URL that htmlls2 prints for its k-th link when it prints them all: that of the link
\* before if this one's cannot be resolved.
Shown(k) ==
  LET new == Combine(in.base, Url(in.page[list[k].from]))
  IN  IF new # NoUrl THEN new ELSE IF k = 1 THEN NoUrl ELSE list[k - 1].url

\* On a page whose start tags fit on the stack exactly its links are listed, up to the room
\* there is, htmlls giving the URL of each as it is written and htmlls2 what combine_url
\* made of it, or of an earlier one (htmlls2.c:114-152, htmlls.c:93-127).
LinksMatch ==
  p > Len(in.page) /\ Len(in.page) > 0 /\ Cardinality(Starts) <= MaxStack =>
    /\ in.prog = "htmlls2" /\ in.refurl = << >> =>
         /\ Found = Linked /\ Len(list) = Cardinality(Linked)
         /\ \A k \in 1 .. Len(list) : list[k].url = Shown(k)
    /\ in.prog = "htmlls" =>
         /\ Found \subseteq Linked
         /\ Len(list) = IF Cardinality(Linked) < MaxLinks THEN Cardinality(Linked) ELSE MaxLinks
         /\ \A k \in 1 .. Len(list) : list[k].url = Url(in.page[list[k].from])
=============================================================================
