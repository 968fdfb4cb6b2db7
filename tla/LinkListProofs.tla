--------------------------- MODULE LinkListProofs ---------------------------
(***************************************************************************)
(* Proofs about the matching of tags, for every page and every stack size, *)
(* and about parse_url and what undoes it, for every string.               *)
(***************************************************************************)
EXTENDS Links, FiniteSetTheorems, SequenceTheorems, WellFoundedInduction, TLAPS

(* The start tags on the stack are in the order of the page.               *)
StackInOrder ==
  /\ \E S : stack \in Seq(S)
  /\ \A i \in 1 .. Len(stack) : stack[i].at \in Nat /\ stack[i].at < p
  /\ \A i, j \in 1 .. Len(stack) : i < j => stack[i].at < stack[j].at

(* The links listed are behind us.                                         *)
ListBehind ==
  /\ \E S : list \in Seq(S)
  /\ \A k \in 1 .. Len(list) :
       list[k].from \in Nat /\ list[k].to \in Nat /\ list[k].to < p

(* A start tag on the stack is not within a link that is listed: it stands *)
(* before or behind all of it.                                             *)
OpenOutside ==
  \A k \in 1 .. Len(list), i \in 1 .. Len(stack) :
    stack[i].at <= list[k].from \/ list[k].to <= stack[i].at

ListInv ==
  p \in Nat /\ p > 0 /\ StackInOrder /\ ListBehind /\ OpenOutside /\ NoCrossing

-----------------------------------------------------------------------------

(* A set of naturals with an upper bound has a greatest element.           *)
LEMMA MaxIs ==
  ASSUME NEW n \in Nat, NEW S \in SUBSET (1 .. n), S # {}
  PROVE  Max(S) \in S /\ \A y \in S : Max(S) >= y
<1> DEFINE D == {n - i : i \in S}
<1>1. D \subseteq Nat /\ D # {}
  <2>1. \A i \in S : i \in Nat /\ n - i \in Nat
    OBVIOUS
  <2>2. PICK i \in S : TRUE
    OBVIOUS
  <2>3. n - i \in D
    OBVIOUS
  <2> QED
    BY <2>1, <2>3
<1>2. PICK d \in D : \A y \in D : ~(<<y, d>> \in OpToRel(<, Nat))
  BY <1>1, NatLessThanWellFounded, WFMin
<1>3. PICK m \in S : d = n - m
  BY <1>2
<1>4. ASSUME NEW i \in S PROVE m >= i
  <2>1. n - i \in D /\ n - i \in Nat /\ d \in Nat
    BY <1>1
  <2>2. ~(n - i < d)
    BY <1>2, <2>1 DEF OpToRel
  <2> QED
    BY <1>3, <2>2
<1> QED
  BY <1>4 DEF Max

(* Sequences grow by one element whatever it is.                           *)
LEMMA Grows ==
  ASSUME NEW s, \E S : s \in Seq(S), NEW e
  PROVE  /\ \E S : Append(s, e) \in Seq(S)
         /\ Len(s) \in Nat /\ Len(Append(s, e)) = Len(s) + 1
         /\ \A i \in 1 .. Len(s) : Append(s, e)[i] = s[i]
         /\ Append(s, e)[Len(s) + 1] = e
<1>1. PICK S : s \in Seq(S)
  OBVIOUS
<1> DEFINE T == S \cup {e}
<1>2. s \in Seq(T)
  <2>1. Len(s) \in Nat /\ \A i \in 1 .. Len(s) : s[i] \in T
    BY <1>1, ElementOfSeq, LenProperties
  <2>2. s = [i \in 1 .. Len(s) |-> s[i]]
    BY <1>1
  <2> QED
    BY <2>1, <2>2
<1>3. e \in T
  OBVIOUS
<1> QED
  BY <1>2, <1>3, AppendProperties, LenProperties

(* What Emit and NoLink do to the list.                                    *)
LEMMA Emits ==
  ASSUME NEW url, NEW from, Emit(url, from) \/ NoLink
  PROVE  \/ list' = list
         \/ \E e : list' = Append(list, e) /\ e.from = from /\ e.to = p
  BY DEF Emit, NoLink

(* A link from a start tag that is on the stack, or from here to here, can *)
(* be added.                                                               *)
LEMMA AddsLink ==
  ASSUME ListInv, p' = p + 1, NEW from \in Nat, from <= p,
         \/ list' = list
         \/ \E e : list' = Append(list, e) /\ e.from = from /\ e.to = p,
         \A k \in 1 .. Len(list) : from <= list[k].from \/ list[k].to <= from,
         \A i \in 1 .. Len(stack') : stack'[i].at <= from,
         \A i \in 1 .. Len(stack'), k \in 1 .. Len(list) :
           stack'[i].at <= list[k].from \/ list[k].to <= stack'[i].at
  PROVE  ListBehind' /\ OpenOutside' /\ NoCrossing'
<1>1. CASE list' = list
  BY <1>1 DEF ListInv, ListBehind, OpenOutside, NoCrossing
<1>2. CASE \E e : list' = Append(list, e) /\ e.from = from /\ e.to = p
  <2>1. PICK e : list' = Append(list, e) /\ e.from = from /\ e.to = p
    BY <1>2
  <2> DEFINE n == Len(list)
  <2>2. /\ \E S : list' \in Seq(S)
        /\ n \in Nat /\ Len(list') = n + 1
        /\ \A k \in 1 .. n : list'[k] = list[k]
        /\ list'[n + 1].from = from /\ list'[n + 1].to = p
    <3>1. \E S : list \in Seq(S)
      BY DEF ListInv, ListBehind
    <3> QED
      BY <2>1, <3>1, Grows
  <2> HIDE DEF n
  <2>3. \A k \in 1 .. n + 1 : k = n + 1 \/ k \in 1 .. n
    BY <2>2
  <2>4. \A k \in 1 .. n : list[k].from \in Nat /\ list[k].to \in Nat /\ list[k].to < p
    BY DEF ListInv, ListBehind, n
  <2>5. p \in Nat
    BY DEF ListInv
  <2>6. ListBehind'
    <3>1. \A k \in 1 .. n + 1 :
            list'[k].from \in Nat /\ list'[k].to \in Nat /\ list'[k].to < p + 1
      <4> SUFFICES ASSUME NEW k \in 1 .. n + 1
                   PROVE  list'[k].from \in Nat /\ list'[k].to \in Nat /\ list'[k].to < p + 1
        OBVIOUS
      <4>1. CASE k = n + 1
        BY <2>2, <2>5, <4>1
      <4>2. CASE k \in 1 .. n
        BY <2>2, <2>4, <2>5, <4>2
      <4> QED
        BY <2>3, <4>1, <4>2
    <3> QED
      BY <2>2, <3>1 DEF ListBehind
  <2>7. OpenOutside'
    BY <2>2, <2>3 DEF OpenOutside, n
  <2>8. NoCrossing'
    <3>1. SUFFICES ASSUME NEW k \in 1 .. n + 1, NEW l \in 1 .. n + 1,
                          list'[k].to < list'[l].to
                   PROVE  list'[k].to <= list'[l].from \/ list'[l].from <= list'[k].from
      BY <2>2 DEF NoCrossing
    <3>2. CASE k = n + 1
      <4>1. list'[k].to = p /\ list'[l].to <= p /\ list'[l].to \in Nat
        BY <2>2, <2>3, <2>4, <2>5, <3>2
      <4> QED
        BY <2>5, <3>1, <4>1
    <3>3. CASE k \in 1 .. n /\ l = n + 1
      <4>1. from <= list[k].from \/ list[k].to <= from
        BY <3>3 DEF n
      <4>2. list'[k] = list[k] /\ list'[l].from = from
        BY <2>2, <3>3
      <4> QED
        BY <4>1, <4>2
    <3>4. CASE k \in 1 .. n /\ l \in 1 .. n
      <4>1. list'[k] = list[k] /\ list'[l] = list[l]
        BY <2>2, <3>4
      <4>2. list[k].to < list[l].to =>
              list[k].to <= list[l].from \/ list[l].from <= list[k].from
        BY <3>4 DEF ListInv, NoCrossing, n
      <4> QED
        BY <3>1, <4>1, <4>2
    <3> QED
      BY <2>3, <3>2, <3>3, <3>4
  <2> QED
    BY <2>6, <2>7, <2>8
<1> QED
  BY <1>1, <1>2

(* Every step keeps the order.                                             *)
LEMMA ListStep == ASSUME LinkListConstants, ListInv, [Next]_vars PROVE ListInv'
<1>0. p \in Nat /\ Len(stack) \in Nat
  BY LenProperties DEF ListInv, StackInOrder
<1>1. CASE Text
  BY <1>0, <1>1 DEF Text, AtToken, ListInv, StackInOrder, ListBehind, OpenOutside, NoCrossing
<1>2. CASE Start
  <2>1. p' = p + 1
    BY <1>2 DEF Start, AtToken
  <2>2. \/ list' = list
        \/ \E e : list' = Append(list, e) /\ e.from = p /\ e.to = p
    BY <1>2, Emits DEF Start
  <2>3. \A k \in 1 .. Len(list) : list[k].to <= p /\ list[k].to \in Nat /\ list[k].from \in Nat
    BY <1>0 DEF ListInv, ListBehind
  <2>4. CASE stack' = stack
    <3>1. StackInOrder'
      BY <1>0, <2>1, <2>4 DEF ListInv, StackInOrder
    <3>2. \A i \in 1 .. Len(stack') : stack'[i].at <= p
      BY <1>0, <2>4 DEF ListInv, StackInOrder
    <3>3. \A i \in 1 .. Len(stack'), k \in 1 .. Len(list) :
            stack'[i].at <= list[k].from \/ list[k].to <= stack'[i].at
      BY <2>4 DEF ListInv, OpenOutside
    <3>4. ListBehind' /\ OpenOutside' /\ NoCrossing'
      BY <1>0, <2>1, <2>2, <2>3, <3>2, <3>3, AddsLink
    <3> QED
      BY <1>0, <2>1, <3>1, <3>4 DEF ListInv
  <2>5. CASE stack' = Append(stack, [at |-> p, tag |-> Token.tag, url |-> Url(Token)])
    <3> DEFINE e == [at |-> p, tag |-> Token.tag, url |-> Url(Token)]
    <3>0. stack' = Append(stack, e)
      BY <2>5
    <3>2. e.at = p
      OBVIOUS
    <3> HIDE DEF e
    <3>1. /\ \E S : stack' \in Seq(S)
          /\ Len(stack') = Len(stack) + 1
          /\ \A i \in 1 .. Len(stack) : stack'[i] = stack[i]
          /\ stack'[Len(stack) + 1] = e
      <4>1. \E S : stack \in Seq(S)
        BY DEF ListInv, StackInOrder
      <4>2. /\ \E S : Append(stack, e) \in Seq(S)
            /\ Len(Append(stack, e)) = Len(stack) + 1
            /\ \A i \in 1 .. Len(stack) : Append(stack, e)[i] = stack[i]
            /\ Append(stack, e)[Len(stack) + 1] = e
        BY <4>1, Grows
      <4> QED
        BY <3>0, <4>2
    <3>3. \A i \in 1 .. Len(stack') : i = Len(stack) + 1 \/ i \in 1 .. Len(stack)
      BY <1>0, <3>1
    <3>4. StackInOrder'
      BY <1>0, <2>1, <3>1, <3>2, <3>3 DEF ListInv, StackInOrder
    <3>5. \A i \in 1 .. Len(stack') : stack'[i].at <= p
      BY <1>0, <3>1, <3>2, <3>3 DEF ListInv, StackInOrder
    <3>6. \A i \in 1 .. Len(stack'), k \in 1 .. Len(list) :
            stack'[i].at <= list[k].from \/ list[k].to <= stack'[i].at
      BY <1>0, <2>3, <3>1, <3>2, <3>3 DEF ListInv, OpenOutside
    <3>7. ListBehind' /\ OpenOutside' /\ NoCrossing'
      BY <1>0, <2>1, <2>2, <2>3, <3>5, <3>6, AddsLink
    <3> QED
      BY <1>0, <2>1, <3>4, <3>7 DEF ListInv
  <2> QED
    BY <1>2, <2>4, <2>5 DEF Start
<1>3. CASE StrayEnd
  BY <1>0, <1>3 DEF StrayEnd, NoLink, AtToken, ListInv, StackInOrder, ListBehind, OpenOutside,
                    NoCrossing
<1>4. CASE End
  <2> DEFINE i == Innermost(Token.tag)
  <2>1. /\ p' = p + 1 /\ i > 0 /\ stack' = SubSeq(stack, 1, i - 1)
        /\ Emit(stack[i].url, stack[i].at) \/ NoLink
    BY <1>4 DEF End, AtToken
  <2>2. i \in 1 .. Len(stack)
    <3> DEFINE Same == {j \in 1 .. Len(stack) : stack[j].tag = Token.tag}
    <3>1. CASE Same = {}
      BY <2>1, <3>1 DEF Innermost
    <3>2. CASE Same # {}
      BY <1>0, <3>2, MaxIs DEF Innermost
    <3> QED
      BY <3>1, <3>2
  <2> HIDE DEF i
  <2>3. /\ \E S : stack' \in Seq(S)
        /\ Len(stack') = i - 1
        /\ \A j \in 1 .. i - 1 : stack'[j] = stack[j]
    <3>1. PICK S : stack \in Seq(S)
      BY DEF ListInv, StackInOrder
    <3>2. i - 1 \in 0 .. Len(stack) /\ \A j \in 1 .. i - 1 : j \in 1 .. Len(stack)
      BY <1>0, <2>2
    <3>3. /\ SubSeq(stack, 1, i - 1) \in Seq(S)
          /\ Len(SubSeq(stack, 1, i - 1)) = IF 1 <= i - 1 THEN i - 1 - 1 + 1 ELSE 0
          /\ \A j \in 1 .. i - 1 - 1 + 1 : SubSeq(stack, 1, i - 1)[j] = stack[1 + j - 1]
      BY <1>0, <3>1, <3>2, SubSeqProperties
    <3>4. Len(SubSeq(stack, 1, i - 1)) = i - 1
      BY <2>2, <3>3
    <3>5. \A j \in 1 .. i - 1 : SubSeq(stack, 1, i - 1)[j] = stack[j]
      BY <2>2, <3>3
    <3> QED
      BY <2>1, <3>3, <3>4, <3>5
  <2>4. stack[i].at \in Nat /\ stack[i].at <= p
    BY <1>0, <2>2 DEF ListInv, StackInOrder
  <2>5. StackInOrder'
    <3>1. \A j \in 1 .. Len(stack') : j \in 1 .. Len(stack) /\ stack'[j] = stack[j]
      BY <1>0, <2>2, <2>3
    <3>2. p' = p + 1
      BY <2>1
    <3> QED
      BY <1>0, <2>3, <3>1, <3>2 DEF ListInv, StackInOrder
  <2>6. \A j \in 1 .. Len(stack') : stack'[j].at <= stack[i].at
    BY <1>0, <2>2, <2>3 DEF ListInv, StackInOrder
  <2>7. \A k \in 1 .. Len(list) : stack[i].at <= list[k].from \/ list[k].to <= stack[i].at
    BY <2>2 DEF ListInv, OpenOutside
  <2>8. \A j \in 1 .. Len(stack'), k \in 1 .. Len(list) :
          stack'[j].at <= list[k].from \/ list[k].to <= stack'[j].at
    BY <1>0, <2>2, <2>3 DEF ListInv, OpenOutside
  <2>9. \/ list' = list
        \/ \E e : list' = Append(list, e) /\ e.from = stack[i].at /\ e.to = p
    BY <2>1, Emits
  <2>10. ListBehind' /\ OpenOutside' /\ NoCrossing'
    BY <2>1, <2>4, <2>6, <2>7, <2>8, <2>9, AddsLink
  <2> QED
    BY <1>0, <2>1, <2>5, <2>10 DEF ListInv
<1>5. CASE UNCHANGED vars
  BY <1>5 DEF vars, ListInv, StackInOrder, ListBehind, OpenOutside, NoCrossing
<1> QED
  BY <1>1, <1>2, <1>3, <1>4, <1>5 DEF Next

(* NoCrossing: on every page the texts of two links lie side by side or    *)
(* one within the other (htmlls2.c:114-139, htmlls.c:93-116).              *)
THEOREM LinksNest == Spec => []NoCrossing
<1>1. Init => ListInv
  BY DEF Init, ListInv, StackInOrder, ListBehind, OpenOutside, NoCrossing
<1>2. ListInv /\ [Next]_vars => ListInv'
  BY LinkListConstants, ListStep
<1>3. ListInv => NoCrossing
  BY DEF ListInv
<1> QED
  BY <1>1, <1>2, <1>3, PTL DEF Spec

-----------------------------------------------------------------------------
(* What is listed *)

(* The start tag of an end tag depends on what is before it.               *)
LEMMA StartOfAgrees ==
  ASSUME NEW j \in Nat, NEW f, NEW g, \A k \in 1 .. j - 1 : f[k] = g[k]
  PROVE  StartOf(f, j) = StartOf(g, j)
<1>1. ASSUME NEW i \in 1 .. j - 1, NEW k \in i + 1 .. j - 1 PROVE f[k] = g[k]
  <2>1. k \in 1 .. j - 1
    OBVIOUS
  <2> QED
    BY <2>1
<1>2. Open(f, j) = Open(g, j)
  BY <1>1 DEF Open
<1> QED
  BY <1>2 DEF StartOf

(* The recursive definition of Matches has a solution.                     *)
LEMMA MatchesIs ==
  ASSUME Len(in.page) \in Nat
  PROVE  Matches = [j \in 1 .. Len(in.page) |-> StartOf(Matches, j)]
<1> DEFINE N      == Len(in.page)
           Has(n) == \E m : m = [j \in 1 .. n |-> StartOf(m, j)]
           Bad    == {n \in Nat : n <= N /\ ~Has(n)}
<1>1. Has(0)
  <2>1. [j \in 1 .. 0 |-> StartOf(<< >>, j)] = << >>
    OBVIOUS
  <2> QED
    BY <2>1
<1>2. ASSUME NEW n \in Nat, Has(n) PROVE Has(n + 1)
  <2>1. PICK m : m = [j \in 1 .. n |-> StartOf(m, j)]
    BY <1>2
  <2> DEFINE g == [j \in 1 .. n + 1 |-> StartOf(m, j)]
  <2>2. ASSUME NEW j \in 1 .. n + 1 PROVE StartOf(m, j) = StartOf(g, j)
    <3>1. \A k \in 1 .. j - 1 : m[k] = g[k]
      <4> SUFFICES ASSUME NEW k \in 1 .. j - 1 PROVE m[k] = g[k]
        OBVIOUS
      <4>1. k \in 1 .. n /\ k \in 1 .. n + 1
        OBVIOUS
      <4> QED
        BY <2>1, <4>1
    <3> HIDE DEF g
    <3> QED
      BY <3>1, StartOfAgrees
  <2>3. g = [j \in 1 .. n + 1 |-> StartOf(g, j)]
    BY <2>2
  <2> QED
    BY <2>3
<1> HIDE DEF Has
<1>3. Bad = {}
  <2> SUFFICES ASSUME Bad # {} PROVE FALSE
    OBVIOUS
  <2>1. PICK d \in Bad : \A y \in Bad : ~(<<y, d>> \in OpToRel(<, Nat))
    <3>1. Bad \subseteq Nat
      OBVIOUS
    <3> HIDE DEF Bad
    <3> QED
      BY <3>1, NatLessThanWellFounded, WFMin
  <2>2. d \in Nat /\ d <= N /\ ~Has(d) /\ d # 0
    BY <1>1
  <2>3. d - 1 \in Nat /\ d - 1 <= N /\ d - 1 < d /\ d - 1 + 1 = d
    BY <2>2
  <2>4. ~(d - 1 \in Bad)
    <3> DEFINE y == d - 1
    <3>1. y \in Nat /\ y < d
      BY <2>3
    <3> HIDE DEF y
    <3>2. <<y, d>> \in OpToRel(<, Nat)
      BY <2>2, <3>1 DEF OpToRel
    <3> QED
      BY <2>1, <3>2 DEF y
  <2>5. Has(d - 1)
    BY <2>3, <2>4
  <2>6. Has(d - 1 + 1)
    BY <1>2, <2>3, <2>5
  <2> QED
    BY <2>2, <2>3, <2>6
<1>4. Has(N)
  BY <1>3
<1> QED
  BY <1>4 DEF Has, Matches

(* What has been matched before a token.                                   *)
LinksBefore(j) == {x \in Linked : x[2] < j}

(* The start tags on the stack are those that are open, with what they     *)
(* are.                                                                    *)
StackIsOpen ==
  /\ \A i \in 1 .. Len(stack) :
       /\ stack[i].at \in Open(Matches, p)
       /\ stack[i].tag = in.page[stack[i].at].tag
       /\ stack[i].url = Url(in.page[stack[i].at])
  /\ \A a \in Open(Matches, p) : \E i \in 1 .. Len(stack) : stack[i].at = a

(* The links listed are those of the page up to here.                      *)
AllAre(S)    == \A k \in 1 .. Len(list) : <<list[k].from, list[k].to>> \in S
AllOf(S)     == \A x \in S : \E k \in 1 .. Len(list) : x = <<list[k].from, list[k].to>>
UrlsAre      == \A k \in 1 .. Len(list) : list[k].url = Url(in.page[list[k].from])
UrlsShown    ==
  /\ newurl = IF Len(list) = 0 THEN NoUrl ELSE list[Len(list)].url
  /\ \A k \in 1 .. Len(list) : list[k].url = Shown(k)
AsMany(n)    == Len(list) = IF n < MaxLinks THEN n ELSE MaxLinks

ListIsLinked ==
  /\ IsFiniteSet(LinksBefore(p)) /\ AllAre(LinksBefore(p))
  /\ in.prog = "htmlls2" /\ in.refurl = << >> =>
       AllOf(LinksBefore(p)) /\ Len(list) = Cardinality(LinksBefore(p)) /\ UrlsShown
  /\ in.prog = "htmlls" => AsMany(Cardinality(LinksBefore(p))) /\ UrlsAre

MatchInv ==
  /\ in \in Inputs /\ p \in 1 .. Len(in.page) + 1
  /\ Cardinality(Starts) <= MaxStack => StackIsOpen /\ ListIsLinked

-----------------------------------------------------------------------------

(* The start tags that are open behind a token.                            *)
LEMMA OpenNext ==
  ASSUME NEW m, NEW j \in Nat, j > 0
  PROVE  Open(m, j + 1) =
           {i \in Open(m, j) \cup {i \in {j} : in.page[i].kind = "start"} :
              in.page[j].kind = "end" => m[j] = 0 \/ m[j] > i}
<1> DEFINE Ends(i, k) == in.page[k].kind = "end" => m[k] = 0 \/ m[k] > i
           O  == Open(m, j)
           O1 == {i \in 1 .. j : in.page[i].kind = "start" /\ \A k \in i + 1 .. j : Ends(i, k)}
           R  == {i \in O \cup {i \in {j} : in.page[i].kind = "start"} : Ends(i, j)}
<1>1. Open(m, j + 1) = O1
  BY DEF Open
<1>2. \A i \in 1 .. j - 1 : (\A k \in i + 1 .. j : Ends(i, k)) <=>
                              (\A k \in i + 1 .. j - 1 : Ends(i, k)) /\ Ends(i, j)
  <2> SUFFICES ASSUME NEW i \in 1 .. j - 1
               PROVE  (\A k \in i + 1 .. j : Ends(i, k)) <=>
                        (\A k \in i + 1 .. j - 1 : Ends(i, k)) /\ Ends(i, j)
    OBVIOUS
  <2>1. \A k \in i + 1 .. j : k \in i + 1 .. j - 1 \/ k = j
    OBVIOUS
  <2>2. j \in i + 1 .. j /\ \A k \in i + 1 .. j - 1 : k \in i + 1 .. j
    OBVIOUS
  <2> HIDE DEF Ends
  <2> QED
    BY <2>1, <2>2
<1>3. \A i \in 1 .. j : i \in 1 .. j - 1 \/ i = j
  OBVIOUS
<1>4. \A i \in 1 .. j - 1 : i \in 1 .. j /\ i # j
  OBVIOUS
<1>5. \A k \in j + 1 .. j : FALSE
  OBVIOUS
<1>6. in.page[j].kind = "start" => Ends(j, j)
  OBVIOUS
<1>7. O = {i \in 1 .. j - 1 :
             in.page[i].kind = "start" /\ \A k \in i + 1 .. j - 1 : Ends(i, k)}
  BY DEF Open
<1> HIDE DEF Ends, O
<1>8. O1 = R
  BY <1>2, <1>3, <1>4, <1>5, <1>6, <1>7
<1> QED
  BY <1>1, <1>8 DEF Ends, O

(* A page has a length.                                                    *)
LEMMA PageIs == ASSUME LinkListConstants, in \in Inputs PROVE Len(in.page) \in Nat
BY LenProperties DEF LinkListConstants

(* The input, and with it what it says, stays.                             *)
LEMMA InputStays ==
  ASSUME in' = in
  PROVE  Matches' = Matches /\ Starts' = Starts /\ Linked' = Linked
<1>1. Starts' = Starts
  BY DEF Starts
<1>2. Matches' = Matches
  BY DEF Matches, StartOf, Open
<1>3. Linked' = Linked
  BY <1>1, <1>2 DEF Linked
<1> QED
  BY <1>1, <1>2, <1>3

(* The open start tags of the name of a token.                             *)
SameOpen(j) == {i \in Open(Matches, j) : in.page[i].tag = in.page[j].tag}

(* What a token is matched with: the last open one of its name, or none.   *)
LEMMA MatchedIs ==
  ASSUME Len(in.page) \in Nat, NEW j \in 1 .. Len(in.page)
  PROVE  IF in.page[j].kind = "end" /\ SameOpen(j) # {}
         THEN Matches[j] \in SameOpen(j) /\ \A y \in SameOpen(j) : Matches[j] >= y
         ELSE Matches[j] = 0
<1>1. Matches[j] = StartOf(Matches, j)
  <2> DEFINE m == Matches
  <2>1. m = [k \in 1 .. Len(in.page) |-> StartOf(m, k)]
    BY MatchesIs
  <2> HIDE DEF m
  <2>2. m[j] = StartOf(m, j)
    BY <2>1
  <2> QED
    BY <2>2 DEF m
<1>2. Matches[j] = IF in.page[j].kind = "end" /\ SameOpen(j) # {} THEN Max(SameOpen(j)) ELSE 0
  BY <1>1 DEF StartOf, SameOpen
<1>3. SameOpen(j) \subseteq 1 .. j - 1
  BY DEF SameOpen, Open
<1>4. j - 1 \in Nat
  OBVIOUS
<1> QED
  BY <1>2, <1>3, <1>4, MaxIs

(* The stack finds the start tag that an end tag ends.                     *)
LEMMA InnermostIs ==
  ASSUME Len(in.page) \in Nat, p \in 1 .. Len(in.page), StackInOrder, StackIsOpen,
         in.page[p].kind = "end"
  PROVE  IF Innermost(Token.tag) = 0 THEN Matches[p] = 0
         ELSE /\ Innermost(Token.tag) \in 1 .. Len(stack)
              /\ Matches[p] = stack[Innermost(Token.tag)].at
<1> DEFINE n    == Len(stack)
           Same == {i \in 1 .. n : stack[i].tag = in.page[p].tag}
<1>1. n \in Nat
  BY LenProperties DEF StackInOrder
<1>2. Innermost(Token.tag) = IF Same = {} THEN 0 ELSE Max(Same)
  BY DEF Innermost, Token
<1>3. \A i \in Same : stack[i].at \in SameOpen(p)
  BY DEF StackIsOpen, SameOpen
<1>4. \A a \in SameOpen(p) : \E i \in Same : stack[i].at = a
  BY DEF StackIsOpen, SameOpen
<1>5. CASE Same = {}
  BY <1>2, <1>4, <1>5, MatchedIs
<1>6. CASE Same # {}
  <2>1. Max(Same) \in Same /\ \A y \in Same : Max(Same) >= y
    <3>1. Same \in SUBSET (1 .. n)
      OBVIOUS
    <3> HIDE DEF Same
    <3> QED
      BY <1>1, <1>6, <3>1, MaxIs
  <2> DEFINE i == Max(Same)
  <2>2. i \in 1 .. n /\ i # 0 /\ Innermost(Token.tag) = i
    BY <1>1, <1>2, <1>6, <2>1
  <2>3. SameOpen(p) # {} /\ stack[i].at \in SameOpen(p)
    BY <1>3, <2>1
  <2>4. \A a \in SameOpen(p) : a \in Nat
    BY DEF SameOpen, Open
  <2>5. \A a \in SameOpen(p) : a <= stack[i].at
    <3> SUFFICES ASSUME NEW a \in SameOpen(p) PROVE a <= stack[i].at
      OBVIOUS
    <3>1. PICK k \in Same : stack[k].at = a
      BY <1>4
    <3>2. k \in 1 .. n /\ k <= i
      BY <2>1, <3>1
    <3>3. k < i => stack[k].at < stack[i].at
      BY <2>2, <3>2 DEF StackInOrder
    <3> QED
      BY <1>1, <2>2, <2>3, <2>4, <3>1, <3>2, <3>3
  <2>6. Matches[p] \in SameOpen(p) /\ \A y \in SameOpen(p) : Matches[p] >= y
    BY <2>3, MatchedIs
  <2>7. Matches[p] = stack[i].at
    <3> DEFINE a == Matches[p]
               b == stack[i].at
    <3>1. a \in Nat /\ b \in Nat /\ a <= b /\ a >= b
      BY <2>3, <2>4, <2>5, <2>6
    <3> HIDE DEF a, b
    <3>2. a = b
      BY <3>1
    <3> QED
      BY <3>2 DEF a, b
  <2> QED
    BY <2>2, <2>7
<1> QED
  BY <1>5, <1>6

(* The links that end at a token.                                          *)
LinksAt(j) == {x \in Linked : x[2] = j}

(* The links before the next token are those before a token and those at it. *)
LEMMA LinksBeforeNext ==
  ASSUME Len(in.page) \in Nat, NEW j \in Nat
  PROVE  LinksBefore(j + 1) = LinksBefore(j) \cup LinksAt(j)
<1>1. \A x \in Linked : x[2] \in Nat
  BY DEF Linked, Starts
<1>2. \A x \in Linked : x[2] < j + 1 <=> x[2] < j \/ x[2] = j
  BY <1>1
<1> QED
  BY <1>2 DEF LinksBefore, LinksAt

(* They are a start tag with itself, or an end tag with the one it matches. *)
LEMMA LinksAtIs ==
  ASSUME Len(in.page) \in Nat, NEW j \in 1 .. Len(in.page)
  PROVE  LinksAt(j) =
           IF in.page[j].kind = "start"
           THEN {x \in {<<j, j>>} : Url(in.page[j]) # << >> /\ in.page[j].tag # "A"}
           ELSE {x \in {<<Matches[j], j>>} :
                   Matches[j] > 0 /\ Url(in.page[Matches[j]]) # << >>}
<1>1. in.page[j].kind = "start" => Matches[j] = 0
  BY MatchedIs
<1>2. LinksAt(j) = {x \in {<<j, j>>} :
                       j \in Starts /\ Url(in.page[j]) # << >> /\ in.page[j].tag # "A"}
                   \cup {x \in {<<Matches[j], j>>} :
                           Matches[j] > 0 /\ Url(in.page[Matches[j]]) # << >>}
  BY DEF LinksAt, Linked, Starts
<1>3. j \in Starts <=> in.page[j].kind = "start"
  BY DEF Starts
<1>4. CASE in.page[j].kind = "start"
  <2>1. ~(Matches[j] > 0)
    BY <1>1, <1>4
  <2> QED
    BY <1>2, <1>3, <1>4, <2>1
<1>5. CASE in.page[j].kind # "start"
  BY <1>2, <1>3, <1>5
<1> QED
  BY <1>4, <1>5

(* Numbers of the stack are at most those of the start tags.               *)
LEMMA RoomOnStack ==
  ASSUME Len(in.page) \in Nat, p \in 1 .. Len(in.page), in.page[p].kind = "start",
         StackInOrder, StackIsOpen, Cardinality(Starts) <= MaxStack, MaxStack \in Nat
  PROVE  Len(stack) < MaxStack
<1> DEFINE n  == Len(stack)
           f  == [i \in 1 .. n |-> stack[i].at]
           T  == Starts \ {p}
<1>1. n \in Nat
  BY LenProperties DEF StackInOrder
<1>2. \A i \in 1 .. n : stack[i].at \in Starts /\ stack[i].at < p /\ stack[i].at \in Nat
  BY DEF StackIsOpen, Open, Starts, StackInOrder
<1>3. f \in Injection(1 .. n, T)
  <2>1. f \in [1 .. n -> T]
    BY <1>2
  <2>2. ASSUME NEW i \in 1 .. n, NEW j \in 1 .. n, i # j PROVE stack[i].at # stack[j].at
    <3>1. i < j \/ j < i
      BY <1>1, <2>2
    <3>2. (i < j => stack[i].at < stack[j].at) /\ (j < i => stack[j].at < stack[i].at)
      BY DEF StackInOrder
    <3> QED
      BY <1>2, <3>1, <3>2
  <2>3. \A i, j \in 1 .. n : f[i] = f[j] => i = j
    BY <2>2
  <2> QED
    BY <2>1, <2>3 DEF Injection, IsInjective
<1>4. IsFiniteSet(Starts)
  <2>1. IsFiniteSet(1 .. Len(in.page))
    BY FS_Interval
  <2> QED
    BY <2>1, FS_Subset DEF Starts
<1>5. p \in Starts
  BY DEF Starts
<1>6. IsFiniteSet(T) /\ Cardinality(T) = Cardinality(Starts) - 1
  BY <1>4, <1>5, FS_RemoveElement
<1>7. Cardinality(1 .. n) <= Cardinality(T)
  <2> HIDE DEF f, T
  <2> QED
    BY <1>3, <1>6, FS_Injection
<1>8. Cardinality(1 .. n) = n
  <2> HIDE DEF n
  <2>1. Cardinality(1 .. n) = IF 1 > n THEN 0 ELSE n - 1 + 1
    BY <1>1, FS_Interval
  <2> QED
    BY <1>1, <2>1
<1>9. Cardinality(Starts) \in Nat
  BY <1>4, FS_CardinalityType
<1> DEFINE c == Cardinality(Starts)
           d == Cardinality(T)
<1>10. n \in Nat /\ c \in Nat /\ d = c - 1 /\ n <= d /\ c <= MaxStack
  <2>1. d = c - 1 /\ Cardinality(1 .. n) <= d
    BY <1>6, <1>7
  <2>2. n <= d
    BY <1>8, <2>1
  <2> QED
    BY <1>1, <1>9, <2>1, <2>2 
<1>11. n < MaxStack
  <2> HIDE DEF n, c, d
  <2> QED
    BY <1>10
<1> QED
  BY <1>11

(* A token that has no link leaves the list as it is.                      *)
LEMMA NoLinkKeeps ==
  ASSUME Len(in.page) \in Nat, p \in 1 .. Len(in.page), in' = in, p' = p + 1,
         ListIsLinked, LinksAt(p) = {}, NoLink
  PROVE  ListIsLinked'
<1>1. LinksBefore(p)' = LinksBefore(p)
  <2>1. LinksBefore(p + 1) = LinksBefore(p) \cup LinksAt(p)
    <3>1. p \in Nat
      OBVIOUS
    <3> QED
      BY <3>1, LinksBeforeNext
  <2>2. Linked' = Linked
    BY InputStays
  <2>3. LinksBefore(p)' = LinksBefore(p + 1)
    BY <2>2 DEF LinksBefore
  <2> QED
    BY <2>1, <2>3
<1> QED
  BY <1>1 DEF ListIsLinked, AllAre, AllOf, UrlsAre, UrlsShown, Shown, AsMany, NoLink

(* What Emit does to the list.                                             *)
Entered(e, url, from) ==
  list' = Append(list, e) /\ e.url = url /\ e.from = from /\ e.to = p

(* It adds an entry; htmlls2 may leave one out, and htmlls has a last one. *)
LEMMA EmitsLink ==
  ASSUME NEW url, NEW from, Emit(url, from), in' = in
  PROVE  IF in.prog = "htmlls2"
         THEN /\ list' = list \/ \E e : Entered(e, newurl', from)
              /\ in.refurl = << >> => \E e : Entered(e, newurl', from)
              /\ newurl' = IF Combine(in.base, url) = NoUrl THEN newurl ELSE Combine(in.base, url)
         ELSE /\ Len(list) < MaxLinks => \E e : Entered(e, url, from)
              /\ ~(Len(list) < MaxLinks) => list' = list
<1>1. CASE in.prog = "htmlls2"
  <2> DEFINE e == [tag |-> Token.tag, url |-> newurl', from |-> from, to |-> p]
  <2>1. e.url = newurl' /\ e.from = from /\ e.to = p
    OBVIOUS
  <2>2. list' = IF in.refurl = << >> \/ in.refurl = newurl' THEN Append(list, e) ELSE list
    BY <1>1 DEF Emit
  <2>3. newurl' = IF Combine(in.base, url) = NoUrl THEN newurl ELSE Combine(in.base, url)
    BY <1>1 DEF Emit
  <2> HIDE DEF e
  <2> QED
    BY <1>1, <2>1, <2>2, <2>3 DEF Entered
<1>2. CASE in.prog # "htmlls2"
  <2> DEFINE e == [tag |-> Token.tag, url |-> url, from |-> from, to |-> p]
  <2>1. e.url = url /\ e.from = from /\ e.to = p
    OBVIOUS
  <2>2. list' = IF Len(list) < MaxLinks THEN Append(list, e) ELSE list
    BY <1>2 DEF Emit
  <2> HIDE DEF e
  <2> QED
    BY <1>2, <2>1, <2>2 DEF Entered
<1> QED
  BY <1>1, <1>2

(* A token that has a link enters it, if there is room.                    *)
LEMMA LinkEnters ==
  ASSUME Len(in.page) \in Nat, p \in 1 .. Len(in.page), in' = in, p' = p + 1, MaxLinks \in Nat,
         ListBehind, ListIsLinked,
         NEW from, LinksAt(p) = {<<from, p>>}, Emit(Url(in.page[from]), from)
  PROVE  ListIsLinked'
<1> DEFINE n  == Len(list)
           B  == LinksBefore(p)
           B1 == LinksBefore(p + 1)
           c  == Cardinality(B)
<1>1. LinksBefore(p)' = B1
  <2>1. Linked' = Linked
    BY InputStays
  <2> QED
    BY <2>1 DEF LinksBefore
<1>2. B1 = B \cup {<<from, p>>}
  <2>1. p \in Nat
    OBVIOUS
  <2> QED
    BY <2>1, LinksBeforeNext
<1>3. <<from, p>> \notin B
  BY DEF LinksBefore
<1>4. IsFiniteSet(B) /\ AllAre(B)
  BY DEF ListIsLinked
<1>5. IsFiniteSet(B1) /\ Cardinality(B1) = c + 1 /\ c \in Nat
  <2> HIDE DEF B, B1
  <2> QED
    BY <1>2, <1>3, <1>4, FS_AddElement, FS_CardinalityType
<1>6. n \in Nat
  BY LenProperties DEF ListBehind
<1>7. ASSUME NEW e, NEW u, Entered(e, u, from)
      PROVE  /\ Len(list') = n + 1
             /\ \A i \in 1 .. n : list'[i] = list[i]
             /\ list'[n + 1] = e
             /\ \A i \in 1 .. n + 1 : i \in 1 .. n \/ i = n + 1
  <2>1. list' = Append(list, e) /\ \E S : list \in Seq(S)
    BY <1>7 DEF ListBehind, Entered
  <2>2. Len(list') = n + 1 /\ (\A i \in 1 .. n : list'[i] = list[i]) /\ list'[n + 1] = e
    BY <2>1, Grows
  <2> QED
    BY <1>6, <2>2
<1> HIDE DEF n, B, B1, c
<1>8. IF in.prog = "htmlls2"
      THEN /\ list' = list \/ \E e : Entered(e, newurl', from)
           /\ in.refurl = << >> => \E e : Entered(e, newurl', from)
           /\ newurl' = IF Combine(in.base, Url(in.page[from])) = NoUrl THEN newurl
                        ELSE Combine(in.base, Url(in.page[from]))
      ELSE /\ n < MaxLinks => \E e : Entered(e, Url(in.page[from]), from)
           /\ ~(n < MaxLinks) => list' = list
  BY EmitsLink DEF n
<1>9. \A k \in 1 .. Len(list') : <<list'[k].from, list'[k].to>> \in B1
  <2>1. CASE list' = list
    BY <1>2, <1>4, <2>1 DEF AllAre
  <2>2. ASSUME NEW e, NEW u, Entered(e, u, from)
        PROVE  \A k \in 1 .. Len(list') : <<list'[k].from, list'[k].to>> \in B1
    <3>1. e.from = from /\ e.to = p
      BY <2>2 DEF Entered
    <3>2. \A k \in 1 .. n : <<list[k].from, list[k].to>> \in B1
      BY <1>2, <1>4 DEF AllAre, n
    <3>3. <<e.from, e.to>> \in B1
      BY <1>2, <3>1
    <3>4. \A k \in 1 .. n + 1 : <<list'[k].from, list'[k].to>> \in B1
      BY <1>7, <2>2, <3>2, <3>3
    <3>5. Len(list') = n + 1
      BY <1>7, <2>2
    <3> QED
      BY <3>4, <3>5
  <2> QED
    BY <1>8, <2>1, <2>2
<1>10. ASSUME in.prog = "htmlls2", in.refurl = << >>
       PROVE  /\ \A x \in B1 : \E k \in 1 .. Len(list') : x = <<list'[k].from, list'[k].to>>
              /\ Len(list') = Cardinality(B1)
              /\ UrlsShown'
  <2>1. PICK e : Entered(e, newurl', from)
    BY <1>8, <1>10
  <2>2. /\ Len(list') = n + 1
        /\ \A i \in 1 .. n : list'[i] = list[i]
        /\ list'[n + 1] = e
    BY <1>7, <2>1
  <2>3. e.from = from /\ e.to = p
    BY <2>1 DEF Entered
  <2>4. n = c /\ \A x \in B : \E k \in 1 .. n : x = <<list[k].from, list[k].to>>
    BY <1>10 DEF ListIsLinked, AllOf, n, B, c
  <2>5. n + 1 \in 1 .. n + 1 /\ \A k \in 1 .. n : k \in 1 .. n + 1
    BY <1>6
  <2>6. \A x \in B : \E k \in 1 .. n + 1 : x = <<list'[k].from, list'[k].to>>
    BY <2>2, <2>4, <2>5
  <2>7. <<from, p>> = <<list'[n + 1].from, list'[n + 1].to>>
    BY <2>2, <2>3
  <2>8. \A x \in B1 : \E k \in 1 .. n + 1 : x = <<list'[k].from, list'[k].to>>
    BY <1>2, <2>5, <2>6, <2>7
  <2>9. UrlsShown'
    <3>1. /\ newurl = IF n = 0 THEN NoUrl ELSE list[n].url
          /\ \A k \in 1 .. n : list[k].url = Shown(k)
      BY <1>10 DEF ListIsLinked, UrlsShown, n
    <3>2. newurl' = list'[n + 1].url /\ list'[n + 1].from = from
      BY <2>1, <2>2 DEF Entered
    <3>3. ASSUME NEW k \in 1 .. n PROVE list'[k].url = Shown(k)'
      <4>1. list'[k] = list[k] /\ (k # 1 => list'[k - 1] = list[k - 1])
        BY <1>6, <2>2
      <4> QED
        BY <3>1, <4>1 DEF Shown
    <3>4. ASSUME NEW k, k = n + 1 PROVE list'[k].url = Shown(k)'
      <4>1. n # 0 => list'[n] = list[n]
        BY <1>6, <2>2
      <4>2. newurl = IF k = 1 THEN NoUrl ELSE list'[k - 1].url
        BY <1>6, <3>1, <3>4, <4>1
      <4> QED
        BY <1>8, <1>10, <3>2, <3>4, <4>2 DEF Shown
    <3>5. \A k \in 1 .. n + 1 : k \in 1 .. n \/ k = n + 1
      BY <1>6
    <3>6. \A k \in 1 .. n + 1 : list'[k].url = Shown(k)'
      BY <3>3, <3>4, <3>5
    <3>7. n + 1 # 0
      BY <1>6
    <3> QED
      BY <2>2, <3>2, <3>6, <3>7 DEF UrlsShown
  <2> QED
    BY <1>5, <2>2, <2>4, <2>8, <2>9
<1>11. ASSUME in.prog = "htmlls"
       PROVE  /\ Len(list') = IF c + 1 < MaxLinks THEN c + 1 ELSE MaxLinks
              /\ \A k \in 1 .. Len(list') : list'[k].url = Url(in.page[list'[k].from])
  <2>1. /\ n = IF c < MaxLinks THEN c ELSE MaxLinks
        /\ \A k \in 1 .. n : list[k].url = Url(in.page[list[k].from])
    BY <1>11 DEF ListIsLinked, AsMany, UrlsAre, n, B, c
  <2>2. CASE n < MaxLinks
    <3>1. PICK e : Entered(e, Url(in.page[from]), from)
      BY <1>8, <1>11, <2>2
    <3>2. /\ Len(list') = n + 1
          /\ \A i \in 1 .. n : list'[i] = list[i]
          /\ list'[n + 1] = e
          /\ \A i \in 1 .. n + 1 : i \in 1 .. n \/ i = n + 1
      BY <1>7, <3>1
    <3>3. e.from = from /\ e.url = Url(in.page[from])
      BY <3>1 DEF Entered
    <3>4. Len(list') = IF c + 1 < MaxLinks THEN c + 1 ELSE MaxLinks
      BY <1>5, <1>6, <2>1, <2>2, <3>2
    <3>5. \A k \in 1 .. n + 1 : list'[k].url = Url(in.page[list'[k].from])
      BY <2>1, <3>2, <3>3
    <3> QED
      BY <3>2, <3>4, <3>5
  <2>3. CASE ~(n < MaxLinks)
    <3>1. list' = list
      BY <1>8, <1>11, <2>3
    <3>2. ~(c + 1 < MaxLinks) /\ n = MaxLinks
      BY <1>5, <2>1, <2>3
    <3> QED
      BY <2>1, <3>1, <3>2 DEF n
  <2> QED
    BY <2>2, <2>3
<1>12. /\ IsFiniteSet(B1) /\ Cardinality(B1) = c + 1
  BY <1>5
<1> HIDE DEF Entered
<1> QED
  BY <1>1, <1>9, <1>10, <1>11, <1>12 DEF ListIsLinked, AllAre, AllOf, AsMany, UrlsAre

(* Every token keeps what is open and what is listed.                      *)
LEMMA MatchStep ==
  ASSUME LinkListConstants, ListInv, MatchInv, [Next]_vars PROVE MatchInv'
<1> DEFINE N == Len(in.page)
<1>0. /\ p \in Nat /\ p > 0 /\ N \in Nat /\ in \in Inputs
      /\ MaxStack \in Nat /\ MaxLinks \in Nat
      /\ p \in 1 .. N + 1 /\ StackInOrder /\ ListBehind
  BY PageIs DEF ListInv, MatchInv, LinkListConstants
<1>1. CASE UNCHANGED vars
  <2>1. in' = in /\ p' = p /\ stack' = stack /\ newurl' = newurl /\ list' = list
    BY <1>1 DEF vars
  <2>2. Matches' = Matches /\ Starts' = Starts /\ Linked' = Linked
    BY <2>1, InputStays
  <2> QED
    BY <2>1, <2>2 DEF MatchInv, StackIsOpen, ListIsLinked, AllAre, AllOf, UrlsAre, UrlsShown,
                      Shown, AsMany, LinksBefore, Open
<1>2. ASSUME Next, Cardinality(Starts) <= MaxStack, StackIsOpen, ListIsLinked,
             in' = in, p' = p + 1, p \in 1 .. N
      PROVE  StackIsOpen' /\ ListIsLinked'
  <2>1. Matches' = Matches
    BY <1>2, InputStays
  <2>2. Open(Matches, p)' = Open(Matches, p + 1)
    BY <1>2, <2>1 DEF Open
  <2>3. Open(Matches, p + 1) =
          {i \in Open(Matches, p) \cup {i \in {p} : in.page[i].kind = "start"} :
             in.page[p].kind = "end" => Matches[p] = 0 \/ Matches[p] > i}
    BY <1>0, OpenNext
  <2>4. IF in.page[p].kind = "end" /\ SameOpen(p) # {}
        THEN Matches[p] \in SameOpen(p) ELSE Matches[p] = 0
    BY <1>0, <1>2, MatchedIs
  <2>5. LinksAt(p) =
          IF in.page[p].kind = "start"
          THEN {x \in {<<p, p>>} : Url(in.page[p]) # << >> /\ in.page[p].tag # "A"}
          ELSE {x \in {<<Matches[p], p>>} : Matches[p] > 0 /\ Url(in.page[Matches[p]]) # << >>}
    BY <1>0, <1>2, LinksAtIs
  <2>6. \E S : stack \in Seq(S)
    BY <1>0 DEF StackInOrder
  <2>7. Len(stack) \in Nat
    BY <2>6, LenProperties
  <2>8. ASSUME stack' = stack, Open(Matches, p + 1) = Open(Matches, p) PROVE StackIsOpen'
    BY <1>2, <2>1, <2>2, <2>8 DEF StackIsOpen
  <2>9. ASSUME LinksAt(p) = {}, NoLink PROVE ListIsLinked'
    BY <1>0, <1>2, <2>9, NoLinkKeeps
  <2>10. ASSUME NEW from, LinksAt(p) = {<<from, p>>}, Emit(Url(in.page[from]), from)
         PROVE  ListIsLinked'
    BY <1>0, <1>2, <2>10, LinkEnters
  <2>11. CASE Text
    <3>1. in.page[p].kind = "text" /\ stack' = stack /\ NoLink
      BY <2>11 DEF Text, AtToken, Token, NoLink
    <3>2. Matches[p] = 0
      BY <2>4, <3>1
    <3>3. LinksAt(p) = {}
      BY <2>5, <3>1, <3>2
    <3>4. Open(Matches, p + 1) = Open(Matches, p)
      BY <2>3, <3>1
    <3> QED
      BY <2>8, <2>9, <3>1, <3>3, <3>4
  <2>12. CASE Start
    <3>1. in.page[p].kind = "start"
      BY <2>12 DEF Start, AtToken, Token
    <3>2. Len(stack) < MaxStack
      BY <1>0, <1>2, <3>1, RoomOnStack
    <3> DEFINE e == [at |-> p, tag |-> in.page[p].tag, url |-> Url(in.page[p])]
               n == Len(stack)
    <3>3. stack' = Append(stack, e)
      BY <2>12, <3>2 DEF Start, Token
    <3>4. e.at = p /\ e.tag = in.page[p].tag /\ e.url = Url(in.page[p])
      OBVIOUS
    <3>5. /\ n \in Nat /\ Len(stack') = n + 1
          /\ \A i \in 1 .. n : stack'[i] = stack[i]
          /\ stack'[n + 1] = e
      <4> HIDE DEF e
      <4> QED
        BY <2>6, <3>3, Grows
    <3>6. Open(Matches, p + 1) = Open(Matches, p) \cup {p}
      BY <2>3, <3>1
    <3>7. StackIsOpen'
      <4>1. \A i \in 1 .. n : /\ stack[i].at \in Open(Matches, p)
                              /\ stack[i].tag = in.page[stack[i].at].tag
                              /\ stack[i].url = Url(in.page[stack[i].at])
        BY <1>2 DEF StackIsOpen
      <4>2. \A a \in Open(Matches, p) : \E i \in 1 .. n : stack[i].at = a
        BY <1>2 DEF StackIsOpen
      <4> HIDE DEF e, n
      <4>3. \A i \in 1 .. n + 1 : i \in 1 .. n \/ i = n + 1
        BY <3>5
      <4>4. n + 1 \in 1 .. n + 1 /\ \A i \in 1 .. n : i \in 1 .. n + 1
        BY <3>5
      <4>5. \A i \in 1 .. n + 1 : /\ stack'[i].at \in Open(Matches, p + 1)
                                  /\ stack'[i].tag = in.page[stack'[i].at].tag
                                  /\ stack'[i].url = Url(in.page[stack'[i].at])
        BY <3>4, <3>5, <3>6, <4>1, <4>3
      <4>6. \A a \in Open(Matches, p + 1) : \E i \in 1 .. n + 1 : stack'[i].at = a
        BY <3>4, <3>5, <3>6, <4>2, <4>4
      <4> QED
        BY <1>2, <2>2, <3>5, <4>5, <4>6 DEF StackIsOpen
    <3>8. ListIsLinked'
      <4>1. CASE Url(in.page[p]) # << >> /\ in.page[p].tag # "A"
        <5>1. LinksAt(p) = {<<p, p>>}
          BY <2>5, <3>1, <4>1
        <5>2. Emit(Url(in.page[p]), p)
          BY <2>12, <4>1 DEF Start, Token
        <5> QED
          BY <2>10, <5>1, <5>2
      <4>2. CASE ~(Url(in.page[p]) # << >> /\ in.page[p].tag # "A")
        <5>1. LinksAt(p) = {}
          BY <2>5, <3>1, <4>2
        <5>2. NoLink
          BY <2>12, <4>2 DEF Start, Token
        <5> QED
          BY <2>9, <5>1, <5>2
      <4> QED
        BY <4>1, <4>2
    <3> QED
      BY <3>7, <3>8
  <2>13. CASE StrayEnd
    <3>1. in.page[p].kind = "end" /\ stack' = stack /\ NoLink /\ Innermost(Token.tag) = 0
      BY <2>13 DEF StrayEnd, AtToken, Token
    <3>2. Matches[p] = 0
      BY <1>0, <1>2, <3>1, InnermostIs
    <3>3. LinksAt(p) = {}
      BY <2>5, <3>1, <3>2
    <3>4. Open(Matches, p + 1) = Open(Matches, p)
      BY <2>3, <3>1, <3>2
    <3> QED
      BY <2>8, <2>9, <3>1, <3>3, <3>4
  <2>14. CASE End
    <3> DEFINE i == Innermost(Token.tag)
    <3>1. /\ in.page[p].kind = "end" /\ i > 0 /\ stack' = SubSeq(stack, 1, i - 1)
          /\ IF stack[i].url # << >> THEN Emit(stack[i].url, stack[i].at) ELSE NoLink
      BY <2>14 DEF End, AtToken, Token
    <3>2. i \in 1 .. Len(stack) /\ Matches[p] = stack[i].at
      <4>1. i # 0
        BY <3>1
      <4> QED
        BY <1>0, <1>2, <3>1, <4>1, InnermostIs
    <3> HIDE DEF i
    <3> DEFINE a == stack[i].at
               n == Len(stack)
    <3>3. a \in Open(Matches, p) /\ a \in Nat /\ a > 0 /\ stack[i].url = Url(in.page[a])
      <4>1. a \in Open(Matches, p) /\ stack[i].url = Url(in.page[a])
        BY <1>2, <3>2 DEF StackIsOpen
      <4>2. \A b \in Open(Matches, p) : b \in Nat /\ b > 0
        BY <1>0 DEF Open
      <4> QED
        BY <4>1, <4>2
    <3>4. Open(Matches, p + 1) = {k \in Open(Matches, p) : a > k}
      <4>1. Matches[p] = a /\ a # 0
        BY <3>2, <3>3
      <4> QED
        BY <2>3, <3>1, <4>1
    <3>5. Len(stack') = i - 1 /\ \A j \in 1 .. i - 1 : j \in 1 .. n /\ stack'[j] = stack[j]
      <4>1. PICK S : stack \in Seq(S)
        BY <2>6
      <4>2. i - 1 \in 0 .. n /\ \A j \in 1 .. i - 1 : j \in 1 .. n
        BY <2>7, <3>2
      <4>3. /\ Len(SubSeq(stack, 1, i - 1)) = IF 1 <= i - 1 THEN i - 1 - 1 + 1 ELSE 0
            /\ \A j \in 1 .. i - 1 - 1 + 1 : SubSeq(stack, 1, i - 1)[j] = stack[1 + j - 1]
        BY <2>7, <4>1, <4>2, SubSeqProperties
      <4>4. Len(SubSeq(stack, 1, i - 1)) = i - 1
        BY <3>2, <4>3
      <4>5. \A j \in 1 .. i - 1 : SubSeq(stack, 1, i - 1)[j] = stack[j]
        BY <3>2, <4>3
      <4> QED
        BY <3>1, <4>2, <4>4, <4>5
    <3>6. \A j \in 1 .. n : stack[j].at < a <=> j \in 1 .. i - 1
      <4> SUFFICES ASSUME NEW j \in 1 .. n PROVE stack[j].at < a <=> j \in 1 .. i - 1
        OBVIOUS
      <4>1. j < i => stack[j].at < a
        BY <1>0, <3>2 DEF StackInOrder
      <4>2. i < j => a < stack[j].at
        BY <1>0, <3>2 DEF StackInOrder
      <4>3. j \in Nat /\ i \in Nat /\ stack[j].at \in Nat
        BY <1>0, <2>7, <3>2 DEF StackInOrder
      <4>4. i = j => stack[j].at = a
        OBVIOUS
      <4> HIDE DEF a
      <4> QED
        BY <3>3, <4>1, <4>2, <4>3, <4>4
    <3>7. StackIsOpen'
      <4>1. \A j \in 1 .. i - 1 : /\ stack'[j].at \in Open(Matches, p + 1)
                                  /\ stack'[j].tag = in.page[stack'[j].at].tag
                                  /\ stack'[j].url = Url(in.page[stack'[j].at])
        <5> SUFFICES ASSUME NEW j \in 1 .. i - 1
                     PROVE  /\ stack'[j].at \in Open(Matches, p + 1)
                            /\ stack'[j].tag = in.page[stack'[j].at].tag
                            /\ stack'[j].url = Url(in.page[stack'[j].at])
          OBVIOUS
        <5>1. j \in 1 .. n /\ stack'[j] = stack[j] /\ stack[j].at < a /\ stack[j].at \in Nat
          BY <1>0, <3>5, <3>6 DEF StackInOrder
        <5>2. a > stack[j].at
          BY <3>3, <5>1
        <5>3. /\ stack[j].at \in Open(Matches, p)
              /\ stack[j].tag = in.page[stack[j].at].tag
              /\ stack[j].url = Url(in.page[stack[j].at])
          BY <1>2, <5>1 DEF StackIsOpen
        <5> QED
          BY <3>4, <5>1, <5>2, <5>3
      <4>2. \A k \in Open(Matches, p + 1) : \E j \in 1 .. i - 1 : stack'[j].at = k
        <5> SUFFICES ASSUME NEW k \in Open(Matches, p + 1)
                     PROVE  \E j \in 1 .. i - 1 : stack'[j].at = k
          OBVIOUS
        <5>1. k \in Open(Matches, p) /\ a > k /\ k \in Nat
          BY <3>4 DEF Open
        <5>2. PICK j \in 1 .. n : stack[j].at = k
          BY <1>2, <5>1 DEF StackIsOpen
        <5>3. stack[j].at < a
          BY <3>3, <5>1, <5>2
        <5> QED
          BY <3>5, <3>6, <5>2, <5>3
      <4>3. in' = in
        BY <1>2
      <4> HIDE DEF a
      <4> QED
        BY <2>2, <3>5, <4>1, <4>2, <4>3 DEF StackIsOpen
    <3>8. ListIsLinked'
      <4>1. LinksAt(p) = {x \in {<<a, p>>} : Url(in.page[a]) # << >>}
        BY <2>5, <3>1, <3>2, <3>3
      <4>2. CASE Url(in.page[a]) # << >>
        <5>1. LinksAt(p) = {<<a, p>>} /\ Emit(Url(in.page[a]), a)
          BY <3>1, <3>3, <4>1, <4>2
        <5> QED
          BY <2>10, <5>1
      <4>3. CASE Url(in.page[a]) = << >>
        <5>1. LinksAt(p) = {} /\ NoLink
          BY <3>1, <3>3, <4>1, <4>3
        <5> QED
          BY <2>9, <5>1
      <4> QED
        BY <4>2, <4>3
    <3> QED
      BY <3>7, <3>8
  <2> QED
    BY <1>2, <2>11, <2>12, <2>13, <2>14 DEF Next
<1>3. CASE Next
  <2>1. in' = in /\ p' = p + 1 /\ p \in 1 .. N
    <3>1. in' = in /\ p' = p + 1 /\ p <= N
      BY <1>3 DEF Next, Text, Start, StrayEnd, End, AtToken
    <3> QED
      BY <1>0, <3>1
  <2>2. Starts' = Starts
    BY <2>1, InputStays
  <2>3. in' \in Inputs /\ p' \in 1 .. Len(in'.page) + 1
    <3> HIDE DEF N
    <3>1. p + 1 \in 1 .. N + 1
      BY <1>0, <2>1
    <3> QED
      BY <1>0, <2>1, <3>1 DEF N
  <2>4. Cardinality(Starts) <= MaxStack => StackIsOpen' /\ ListIsLinked'
    BY <1>2, <1>3, <2>1 DEF MatchInv
  <2> QED
    BY <2>2, <2>3, <2>4 DEF MatchInv
<1> QED
  BY <1>1, <1>3

(* LinksMatch: on a page whose start tags fit on the stack exactly its     *)
(* links are listed, up to the room there is, htmlls giving the URL of     *)
(* each as it is written and htmlls2 what combine_url made of it, or of an *)
(* earlier one (htmlls2.c:114-152, htmlls.c:93-127).                       *)
THEOREM LinksAreMatched == Spec => []LinksMatch
<1>1. Init => ListInv /\ MatchInv
  <2> SUFFICES ASSUME Init PROVE ListInv /\ MatchInv
    OBVIOUS
  <2>1. ListInv
    BY DEF Init, ListInv, StackInOrder, ListBehind, OpenOutside, NoCrossing
  <2>2. /\ in \in Inputs /\ p = 1 /\ stack = << >> /\ list = << >> /\ newurl = NoUrl
        /\ Len(in.page) \in Nat
    BY LinkListConstants, PageIs DEF Init
  <2>3. p \in 1 .. Len(in.page) + 1
    BY <2>2
  <2>4. Open(Matches, p) = {}
    BY <2>2 DEF Open
  <2>5. LinksBefore(p) = {}
    BY <2>2 DEF LinksBefore, Linked, Starts
  <2>6. StackIsOpen
    BY <2>2, <2>4 DEF StackIsOpen
  <2>7. IsFiniteSet({}) /\ Cardinality({}) = 0 /\ Len(list) = 0
    BY <2>2, FS_EmptySet
  <2>8. ListIsLinked
    <3>1. UrlsShown
      BY <2>2, <2>7 DEF UrlsShown
    <3> QED
      BY <2>5, <2>7, <3>1, LinkListConstants
      DEF ListIsLinked, AllAre, AllOf, UrlsAre, AsMany, LinkListConstants
  <2> QED
    BY <2>1, <2>2, <2>3, <2>6, <2>8 DEF MatchInv
<1>2. ListInv /\ MatchInv /\ [Next]_vars => (ListInv /\ MatchInv)'
  BY LinkListConstants, ListStep, MatchStep
<1>3. ListInv /\ MatchInv => LinksMatch
  <2> SUFFICES ASSUME MatchInv, p > Len(in.page), Cardinality(Starts) <= MaxStack
               PROVE  /\ in.prog = "htmlls2" /\ in.refurl = << >> =>
                           /\ Found = Linked /\ Len(list) = Cardinality(Linked)
                           /\ \A k \in 1 .. Len(list) : list[k].url = Shown(k)
                      /\ in.prog = "htmlls" =>
                           /\ Found \subseteq Linked
                           /\ AsMany(Cardinality(Linked))
                           /\ UrlsAre
    BY DEF LinksMatch, AsMany, UrlsAre
  <2>1. Len(in.page) \in Nat /\ ListIsLinked
    BY LinkListConstants, PageIs DEF MatchInv
  <2>2. LinksBefore(p) = Linked
    <3>1. \A x \in Linked : x[2] \in 1 .. Len(in.page)
      BY DEF Linked, Starts
    <3>2. p \in Nat
      BY <2>1 DEF MatchInv
    <3> QED
      BY <2>1, <3>1, <3>2 DEF LinksBefore
  <2> QED
    BY <2>1, <2>2 DEF ListIsLinked, AllAre, AllOf, Found, UrlsShown
<1> QED
  BY <1>1, <1>2, <1>3, PTL DEF Spec

-----------------------------------------------------------------------------
(* Strings, and the URL functions on them *)

(* The characters of the strings, words and delimiters.                    *)
Char == Words \cup Delimiters

(* The characters, and that words and delimiters are different ones.       *)
LEMMA Characters ==
  ASSUME UrlConstants
  PROVE  /\ Delimiters \subseteq Char /\ Words \subseteq Char
         /\ \A w \in Words, d \in Delimiters : w # d
         /\ ":" \in Char /\ "/" \in Char /\ "@" \in Char
         /\ "http" \in Char /\ "ftp" \in Char /\ "mailto" \in Char /\ "anonymous" \in Char
BY DEF UrlConstants, Char, Delimiters

(* A string in which a character does not occur.                           *)
Lacks(s, d) == \A i \in 1 .. Len(s) : s[i] # d

(* A set of naturals that is not empty has a least element.                *)
LEMMA MinIs ==
  ASSUME NEW n \in Nat, NEW S \in SUBSET (1 .. n), S # {}
  PROVE  Min(S) \in S /\ \A y \in S : Min(S) <= y
<1>1. S \subseteq Nat
  OBVIOUS
<1>2. PICK d \in S : \A y \in S : ~(<<y, d>> \in OpToRel(<, Nat))
  BY <1>1, NatLessThanWellFounded, WFMin
<1>3. ASSUME NEW y \in S PROVE d <= y
  <2>1. ~(y < d) /\ y \in Nat /\ d \in Nat
    BY <1>1, <1>2 DEF OpToRel
  <2> QED
    BY <2>1
<1> QED
  BY <1>3 DEF Min

(* What strchr and strrchr return.                                         *)
LEMMA FirstIs ==
  ASSUME NEW s \in Strings, NEW d
  PROVE  /\ First(s, d) \in 0 .. Len(s) /\ Len(s) \in Nat
         /\ First(s, d) = 0 <=> Lacks(s, d)
         /\ First(s, d) # 0 => s[First(s, d)] = d
         /\ First(s, d) # 0 => \A j \in 1 .. First(s, d) - 1 : s[j] # d
<1> DEFINE n == Len(s)
           I == {i \in 1 .. n : s[i] = d}
           f == First(s, d)
<1>1. n \in Nat
  BY LenProperties DEF Strings, Char
<1>2. f = IF I # {} THEN Min(I) ELSE 0
  BY DEF First, SelectInSeq
<1>3. CASE I = {}
  BY <1>1, <1>2, <1>3 DEF Lacks
<1>4. CASE I # {}
  <2>1. I \in SUBSET (1 .. n)
    OBVIOUS
  <2>2. f \in I /\ \A y \in I : f <= y
    <3> HIDE DEF I, f, n
    <3> QED
      BY <1>1, <1>2, <1>4, <2>1, MinIs
  <2>3. f \in 1 .. n /\ s[f] = d /\ ~Lacks(s, d)
    BY <2>2 DEF Lacks
  <2>4. ASSUME NEW j \in 1 .. f - 1 PROVE s[j] # d
    <3> HIDE DEF f
    <3>1. j \in 1 .. n /\ ~(f <= j)
      BY <1>1, <2>3
    <3> QED
      BY <2>2, <3>1
  <2>5. /\ f \in 0 .. n /\ f # 0 /\ s[f] = d
        /\ \A j \in 1 .. f - 1 : s[j] # d
    <3> HIDE DEF f
    <3> QED
      BY <1>1, <2>3, <2>4
  <2> QED
    BY <1>1, <2>3, <2>5
<1> QED
  BY <1>3, <1>4

(* What strrchr returns.                                                   *)
LEMMA FinalIs ==
  ASSUME NEW s \in Strings, NEW d
  PROVE  /\ Final(s, d) \in 0 .. Len(s) /\ Len(s) \in Nat
         /\ Final(s, d) = 0 <=> Lacks(s, d)
         /\ Final(s, d) # 0 => s[Final(s, d)] = d
         /\ Final(s, d) # 0 => \A j \in Final(s, d) + 1 .. Len(s) : s[j] # d
<1> DEFINE n == Len(s)
           I == {i \in 1 .. n : s[i] = d}
           f == Final(s, d)
<1>1. n \in Nat
  BY LenProperties DEF Strings, Char
<1>2. f = IF I # {} THEN Max(I) ELSE 0
  BY DEF Final, SelectLastInSeq
<1>3. CASE I = {}
  BY <1>1, <1>2, <1>3 DEF Lacks
<1>4. CASE I # {}
  <2>1. I \in SUBSET (1 .. n)
    OBVIOUS
  <2>2. f \in I /\ \A y \in I : f >= y
    <3> HIDE DEF I, f, n
    <3> QED
      BY <1>1, <1>2, <1>4, <2>1, MaxIs
  <2>3. f \in 1 .. n /\ s[f] = d /\ ~Lacks(s, d)
    BY <2>2 DEF Lacks
  <2>4. ASSUME NEW j \in f + 1 .. n PROVE s[j] # d
    <3> HIDE DEF f
    <3>1. j \in 1 .. n /\ ~(f >= j)
      BY <1>1, <2>3
    <3> QED
      BY <2>2, <3>1
  <2>5. /\ f \in 0 .. n /\ f # 0 /\ s[f] = d
        /\ \A j \in f + 1 .. n : s[j] # d
    <3> HIDE DEF f
    <3> QED
      BY <1>1, <2>3, <2>4
  <2> QED
    BY <1>1, <2>3, <2>5
<1> QED
  BY <1>3, <1>4

(* A string cut at a place.                                                *)
LEMMA CutAt ==
  ASSUME NEW s \in Strings, NEW i \in 0 .. Len(s)
  PROVE  /\ Before(s, i) \in Strings /\ Behind(s, i) \in Strings
         /\ Len(Before(s, i)) = IF i = 0 THEN 0 ELSE i - 1
         /\ Len(Behind(s, i)) = Len(s) - i
         /\ \A j \in 1 .. i - 1 : Before(s, i)[j] = s[j]
         /\ \A j \in 1 .. Len(s) - i : Behind(s, i)[j] = s[i + j]
<1> DEFINE n == Len(s)
<1>1. n \in Nat /\ \A j \in 1 .. n : s[j] \in Char
  BY LenProperties, ElementOfSeq DEF Strings, Char
<1>2. i \in 0 .. n
  OBVIOUS
<1> HIDE DEF n
<1>3. /\ SubSeq(s, 1, i - 1) \in Seq(Char)
      /\ Len(SubSeq(s, 1, i - 1)) = IF 1 <= i - 1 THEN i - 1 - 1 + 1 ELSE 0
      /\ \A j \in 1 .. i - 1 - 1 + 1 : SubSeq(s, 1, i - 1)[j] = s[1 + j - 1]
  <2>1. i - 1 \in Int /\ 1 \in Int /\ \A j \in 1 .. i - 1 : s[j] \in Char
    BY <1>1, <1>2
  <2> QED
    BY <2>1, SubSeqProperties
<1>4. /\ SubSeq(s, i + 1, n) \in Seq(Char)
      /\ Len(SubSeq(s, i + 1, n)) = IF i + 1 <= n THEN n - (i + 1) + 1 ELSE 0
      /\ \A j \in 1 .. n - (i + 1) + 1 : SubSeq(s, i + 1, n)[j] = s[i + 1 + j - 1]
  <2>1. i + 1 \in Int /\ n \in Int /\ \A j \in i + 1 .. n : s[j] \in Char
    BY <1>1, <1>2
  <2> QED
    BY <2>1, SubSeqProperties
<1>5. Before(s, i) = SubSeq(s, 1, i - 1) /\ Behind(s, i) = SubSeq(s, i + 1, n)
  BY DEF Before, Behind, n
<1>6. \A j \in 1 .. i - 1 : j \in 1 .. i - 1 - 1 + 1 /\ 1 + j - 1 = j
  BY <1>2
<1>7. \A j \in 1 .. n - i : j \in 1 .. n - (i + 1) + 1 /\ i + 1 + j - 1 = i + j
  BY <1>1, <1>2
<1>8. Len(Before(s, i)) = IF i = 0 THEN 0 ELSE i - 1
  <2>1. (IF 1 <= i - 1 THEN i - 1 - 1 + 1 ELSE 0) = IF i = 0 THEN 0 ELSE i - 1
    BY <1>2
  <2> QED
    BY <1>3, <1>5, <2>1
<1>9. Len(Behind(s, i)) = n - i
  <2>1. (IF i + 1 <= n THEN n - (i + 1) + 1 ELSE 0) = n - i
    BY <1>1, <1>2
  <2> QED
    BY <1>4, <1>5, <2>1
<1>10. \A j \in 1 .. i - 1 : Before(s, i)[j] = s[j]
  BY <1>3, <1>5, <1>6
<1>11. \A j \in 1 .. n - i : Behind(s, i)[j] = s[i + j]
  BY <1>4, <1>5, <1>7
<1> QED
  BY <1>3, <1>4, <1>5, <1>8, <1>9, <1>10, <1>11 DEF Strings, Char, n

(* What does not occur in a string does not occur in its parts.            *)
LEMMA CutLacks ==
  ASSUME NEW s \in Strings, NEW i \in 0 .. Len(s), NEW d, Lacks(s, d)
  PROVE  Lacks(Before(s, i), d) /\ Lacks(Behind(s, i), d)
<1> DEFINE n == Len(s)
<1>1. n \in Nat /\ i \in 0 .. n
  BY LenProperties DEF Strings, Char
<1>2. \A j \in 1 .. i - 1 : j \in 1 .. n
  BY <1>1
<1>3. \A j \in 1 .. n - i : i + j \in 1 .. n
  BY <1>1
<1>4. \A j \in 1 .. n : s[j] # d
  BY DEF Lacks
<1>5. Len(Before(s, i)) = (IF i = 0 THEN 0 ELSE i - 1) /\ Len(Behind(s, i)) = n - i
  BY CutAt
<1>6. (\A j \in 1 .. i - 1 : Before(s, i)[j] # d) /\ \A j \in 1 .. n - i : Behind(s, i)[j] # d
  <2>1. /\ \A j \in 1 .. i - 1 : Before(s, i)[j] = s[j]
        /\ \A j \in 1 .. n - i : Behind(s, i)[j] = s[i + j]
    BY CutAt
  <2> QED
    BY <1>2, <1>3, <1>4, <2>1
<1>7. \A j \in 1 .. (IF i = 0 THEN 0 ELSE i - 1) : j \in 1 .. i - 1
  BY <1>1
<1> QED
  BY <1>5, <1>6, <1>7 DEF Lacks

(* A character does not occur before its first occurrence ...              *)
LEMMA CutAtFirst ==
  ASSUME NEW s \in Strings, NEW d
  PROVE  Lacks(Before(s, First(s, d)), d)
<1> DEFINE i == First(s, d)
           n == Len(s)
<1>1. n \in Nat /\ i \in 0 .. n /\ (i # 0 => \A j \in 1 .. i - 1 : s[j] # d)
  BY FirstIs
<1> HIDE DEF i
<1>2. /\ Len(Before(s, i)) = (IF i = 0 THEN 0 ELSE i - 1)
      /\ \A j \in 1 .. i - 1 : Before(s, i)[j] = s[j]
  BY <1>1, CutAt
<1>3. \A j \in 1 .. (IF i = 0 THEN 0 ELSE i - 1) : j \in 1 .. i - 1 /\ i # 0
  BY <1>1
<1>4. Lacks(Before(s, i), d)
  BY <1>1, <1>2, <1>3 DEF Lacks
<1> QED
  BY <1>4 DEF i

(* ... nor behind its last one.                                            *)
LEMMA CutAtFinal ==
  ASSUME NEW s \in Strings, NEW d
  PROVE  Lacks(Behind(s, Final(s, d)), d)
<1> DEFINE i == Final(s, d)
           n == Len(s)
<1>1. /\ n \in Nat /\ i \in 0 .. n
      /\ i = 0 <=> Lacks(s, d)
      /\ i # 0 => \A j \in i + 1 .. n : s[j] # d
  BY FinalIs
<1> HIDE DEF i
<1>2. Len(Behind(s, i)) = n - i /\ \A j \in 1 .. n - i : Behind(s, i)[j] = s[i + j]
  BY <1>1, CutAt
<1>3. \A j \in 1 .. n - i : i + j \in i + 1 .. n /\ i + j \in 1 .. n
  BY <1>1
<1>4. \A j \in i + 1 .. n : s[j] # d
  <2>1. CASE i = 0
    BY <1>1, <2>1 DEF Lacks
  <2> QED
    BY <1>1, <2>1
<1>5. Lacks(Behind(s, i), d)
  BY <1>2, <1>3, <1>4 DEF Lacks
<1> QED
  BY <1>5 DEF i

(* Strings put together.                                                   *)
LEMMA Joined ==
  ASSUME NEW a \in Strings, NEW b \in Strings
  PROVE  /\ a \o b \in Strings
         /\ Len(a) \in Nat /\ Len(b) \in Nat /\ Len(a \o b) = Len(a) + Len(b)
         /\ \A i \in 1 .. Len(a) : (a \o b)[i] = a[i]
         /\ \A i \in 1 .. Len(b) : (a \o b)[Len(a) + i] = b[i]
<1>1. /\ a \o b \in Seq(Char)
      /\ Len(a \o b) = Len(a) + Len(b)
      /\ \A i \in 1 .. Len(a) + Len(b) :
            (a \o b)[i] = IF i <= Len(a) THEN a[i] ELSE b[i - Len(a)]
  BY ConcatProperties DEF Strings, Char
<1> DEFINE m == Len(a)
           n == Len(b)
<1>2. m \in Nat /\ n \in Nat
  BY LenProperties DEF Strings, Char
<1> HIDE DEF m, n
<1>3. \A i \in 1 .. m : i \in 1 .. m + n /\ i <= m
  BY <1>2
<1>4. \A i \in 1 .. n : m + i \in 1 .. m + n /\ ~(m + i <= m) /\ m + i - m = i
  BY <1>2
<1> QED
  BY <1>1, <1>2, <1>3, <1>4 DEF m, n, Strings, Char

(* What two strings lack, they lack together.                              *)
LEMMA JoinedLacks ==
  ASSUME NEW a \in Strings, NEW b \in Strings, NEW d
  PROVE  Lacks(a \o b, d) <=> Lacks(a, d) /\ Lacks(b, d)
<1> DEFINE m == Len(a)
           n == Len(b)
           c == a \o b
<1>1. /\ m \in Nat /\ n \in Nat /\ Len(c) = m + n
      /\ \A i \in 1 .. m : c[i] = a[i]
      /\ \A i \in 1 .. n : c[m + i] = b[i]
  BY Joined
<1> HIDE DEF c, m, n
<1>2. \A i \in 1 .. m : i \in 1 .. m + n
  BY <1>1
<1>3. \A i \in 1 .. n : m + i \in 1 .. m + n
  BY <1>1
<1>4. \A i \in 1 .. m + n : i \in 1 .. m \/ (i - m \in 1 .. n /\ i = m + (i - m))
  BY <1>1
<1>5. ASSUME Lacks(c, d) PROVE Lacks(a, d) /\ Lacks(b, d)
  BY <1>1, <1>2, <1>3, <1>5 DEF Lacks, m, n
<1>6. ASSUME Lacks(a, d), Lacks(b, d) PROVE Lacks(c, d)
  <2> SUFFICES ASSUME NEW i \in 1 .. m + n PROVE c[i] # d
    BY <1>1 DEF Lacks
  <2>1. CASE i \in 1 .. m
    BY <1>1, <1>6, <2>1 DEF Lacks, m
  <2>2. CASE i - m \in 1 .. n /\ i = m + (i - m)
    <3> DEFINE k == i - m
    <3>1. k \in 1 .. n /\ i = m + k
      BY <2>2
    <3> HIDE DEF k
    <3>2. c[m + k] = b[k] /\ b[k] # d
      BY <1>1, <1>6, <3>1 DEF Lacks, n
    <3> QED
      BY <3>1, <3>2
  <2> QED
    BY <1>4, <2>1, <2>2
<1> QED
  BY <1>5, <1>6 DEF c

(* A string of one character.                                              *)
LEMMA OneCharacter ==
  ASSUME NEW c \in Char
  PROVE  /\ <<c>> \in Strings /\ Len(<<c>>) = 1 /\ <<c>>[1] = c /\ <<c>> # << >>
         /\ \A d : Lacks(<<c>>, d) <=> c # d
<1>1. <<c>> \in Seq(Char) /\ Len(<<c>>) = 1 /\ <<c>>[1] = c /\ <<c>> # << >>
  <2>1. \A S, e : e \in S => <<e>> \in Seq(S)
    OBVIOUS
  <2>2. \A e : Len(<<e>>) = 1 /\ <<e>>[1] = e /\ <<e>> # << >>
    OBVIOUS
  <2> QED
    BY <2>1, <2>2
<1>2. \A i \in 1 .. 1 : i = 1
  OBVIOUS
<1>3. 1 \in 1 .. 1
  OBVIOUS
<1> DEFINE s == <<c>>
<1> HIDE DEF s
<1>4. \A d : Lacks(s, d) <=> c # d
  BY <1>1, <1>2, <1>3 DEF Lacks, s
<1> QED
  BY <1>1, <1>4 DEF Strings, Char, s

(* The parts of a string around a character.                               *)
Around(a, d, b) ==
  LET s == a \o <<d>> \o b
  IN  /\ s \in Strings
      /\ Lacks(a, d) => First(s, d) = Len(a) + 1
      /\ Lacks(b, d) => Final(s, d) = Len(a) + 1
      /\ Before(s, Len(a) + 1) = a /\ Behind(s, Len(a) + 1) = b

(* A string put together around a character is cut there.                  *)
LEMMA PartsAround ==
  ASSUME NEW a \in Strings, NEW b \in Strings, NEW d \in Char PROVE Around(a, d, b)
<1> DEFINE c == a \o <<d>>
           s == c \o b
           m == Len(a)
           n == Len(b)
<1>1. /\ c \in Strings /\ m \in Nat /\ Len(c) = m + 1
      /\ \A i \in 1 .. m : c[i] = a[i]
      /\ c[m + 1] = d
  <2>1. <<d>> \in Strings /\ Len(<<d>>) = 1 /\ <<d>>[1] = d
    BY OneCharacter
  <2>2. /\ c \in Strings /\ m \in Nat /\ Len(c) = m + Len(<<d>>)
        /\ \A i \in 1 .. m : c[i] = a[i]
        /\ \A i \in 1 .. Len(<<d>>) : c[m + i] = <<d>>[i]
    BY <2>1, Joined
  <2>3. 1 \in 1 .. Len(<<d>>)
    BY <2>1
  <2>4. c[m + 1] = d
    BY <2>1, <2>2, <2>3
  <2>5. Len(c) = m + 1
    BY <2>1, <2>2
  <2> HIDE DEF c, m
  <2> QED
    BY <2>2, <2>4, <2>5
<1>2. /\ s \in Strings /\ n \in Nat /\ Len(s) = m + 1 + n
      /\ \A i \in 1 .. m + 1 : s[i] = c[i]
      /\ \A i \in 1 .. n : s[m + 1 + i] = b[i]
  <2> HIDE DEF c
  <2>1. /\ s \in Strings /\ n \in Nat /\ Len(s) = Len(c) + n
        /\ \A i \in 1 .. Len(c) : s[i] = c[i]
        /\ \A i \in 1 .. n : s[Len(c) + i] = b[i]
    BY <1>1, Joined
  <2> QED
    BY <1>1, <2>1
<1> HIDE DEF c, s, m, n
<1>0. m \in Nat
  BY <1>1
<1>3. \A i \in 1 .. m : i \in 1 .. m + 1
  BY <1>0
<1>4. \A i \in 1 .. m : s[i] = a[i]
  BY <1>1, <1>2, <1>3
<1>5. s[m + 1] = d
  <2>1. m + 1 \in 1 .. m + 1
    BY <1>0
  <2> QED
    BY <1>1, <1>2, <2>1
<1>6. ASSUME Lacks(a, d) PROVE First(s, d) = m + 1
  <2> DEFINE f == First(s, d)
  <2>1. /\ f \in 0 .. m + 1 + n /\ (f = 0 <=> Lacks(s, d))
        /\ f # 0 => s[f] = d
        /\ f # 0 => \A j \in 1 .. f - 1 : s[j] # d
    BY <1>2, FirstIs
  <2> HIDE DEF f
  <2>2. m + 1 \in 1 .. m + 1 + n
    BY <1>1, <1>2
  <2>3. f # 0
    BY <1>2, <1>5, <2>1, <2>2 DEF Lacks
  <2>4. ~(m + 1 \in 1 .. f - 1)
    BY <1>5, <2>1, <2>3
  <2>5. ~(f \in 1 .. m)
    BY <1>4, <1>6, <2>1, <2>3 DEF Lacks, m
  <2>6. f = m + 1
    BY <1>1, <1>2, <2>1, <2>3, <2>4, <2>5
  <2> QED
    BY <2>6 DEF f
<1>7. ASSUME Lacks(b, d) PROVE Final(s, d) = m + 1
  <2> DEFINE f == Final(s, d)
  <2>1. /\ f \in 0 .. m + 1 + n /\ (f = 0 <=> Lacks(s, d))
        /\ f # 0 => s[f] = d
        /\ f # 0 => \A j \in f + 1 .. m + 1 + n : s[j] # d
    BY <1>2, FinalIs
  <2> HIDE DEF f
  <2>2. m + 1 \in 1 .. m + 1 + n
    BY <1>1, <1>2
  <2>3. f # 0
    BY <1>2, <1>5, <2>1, <2>2 DEF Lacks
  <2>4. ~(m + 1 \in f + 1 .. m + 1 + n)
    BY <1>5, <2>1, <2>3
  <2>5. ASSUME f > m + 1 PROVE FALSE
    <3> DEFINE k == f - (m + 1)
    <3>1. k \in 1 .. n /\ f = m + 1 + k
      BY <1>1, <1>2, <2>1, <2>5
    <3> HIDE DEF k
    <3>2. s[m + 1 + k] = b[k] /\ b[k] # d
      BY <1>2, <1>7, <3>1 DEF Lacks, n
    <3> QED
      BY <2>1, <2>3, <3>1, <3>2
  <2>6. f = m + 1
    BY <1>1, <1>2, <2>1, <2>3, <2>4, <2>5
  <2> QED
    BY <2>6 DEF f
<1>8. m + 1 \in 0 .. Len(s) /\ Len(s) - (m + 1) = n /\ m + 1 - 1 = m /\ m + 1 # 0
  BY <1>0, <1>2
<1>9. /\ Before(s, m + 1) \in Strings /\ Behind(s, m + 1) \in Strings
      /\ Len(Before(s, m + 1)) = m /\ Len(Behind(s, m + 1)) = n
      /\ \A j \in 1 .. m : Before(s, m + 1)[j] = s[j]
      /\ \A j \in 1 .. n : Behind(s, m + 1)[j] = s[m + 1 + j]
  <2> DEFINE k == m + 1
  <2>1. k \in 0 .. Len(s) /\ Len(s) - k = n /\ k - 1 = m /\ k # 0
    BY <1>0, <1>8
  <2> HIDE DEF k
  <2>2. /\ Before(s, k) \in Strings /\ Behind(s, k) \in Strings
        /\ Len(Before(s, k)) = m /\ Len(Behind(s, k)) = n
        /\ \A j \in 1 .. m : Before(s, k)[j] = s[j]
        /\ \A j \in 1 .. n : Behind(s, k)[j] = s[k + j]
    BY <1>2, <2>1, CutAt
  <2> QED
    BY <2>2 DEF k
<1>10. Before(s, m + 1) = a
  <2> DEFINE x == Before(s, m + 1)
  <2>1. /\ x \in Seq(Char) /\ a \in Seq(Char) /\ Len(x) = Len(a)
        /\ \A j \in 1 .. Len(x) : x[j] = a[j]
    BY <1>4, <1>9 DEF Strings, Char, m
  <2> HIDE DEF x
  <2>2. x = a
    BY <2>1, SeqEqual
  <2> QED
    BY <2>2 DEF x
<1>11. Behind(s, m + 1) = b
  <2> DEFINE x == Behind(s, m + 1)
  <2>1. /\ x \in Seq(Char) /\ b \in Seq(Char) /\ Len(x) = Len(b)
        /\ \A j \in 1 .. Len(x) : x[j] = b[j]
    BY <1>2, <1>9 DEF Strings, Char, n
  <2> HIDE DEF x
  <2>2. x = b
    BY <2>1, SeqEqual
  <2> QED
    BY <2>2 DEF x
<1> QED
  BY <1>2, <1>6, <1>7, <1>10, <1>11 DEF s, c, m, Around

(* Strings put together are taken apart.                                   *)
LEMMA TakenApart ==
  ASSUME NEW a \in Strings, NEW b \in Strings
  PROVE  /\ SubSeq(a \o b, 1, Len(a)) = a
         /\ SubSeq(a \o b, Len(a) + 1, Len(a \o b)) = b
<1> DEFINE s == a \o b
           m == Len(a)
           n == Len(b)
           x == SubSeq(s, 1, m)
           j == m + 1
           k == m + n
           y == SubSeq(s, j, k)
<1>1. /\ s \in Strings /\ m \in Nat /\ n \in Nat /\ Len(s) = m + n
      /\ \A i \in 1 .. m : s[i] = a[i]
      /\ \A i \in 1 .. n : s[m + i] = b[i]
  BY Joined
<1> HIDE DEF s, m, n, j, k
<1>2. \A i \in 1 .. m + n : s[i] \in Char
  BY <1>1, ElementOfSeq DEF Strings, Char
<1>0. m \in Nat /\ n \in Nat
  BY <1>1
<1>3. /\ x \in Seq(Char)
      /\ Len(x) = IF 1 <= m THEN m - 1 + 1 ELSE 0
      /\ \A i \in 1 .. m - 1 + 1 : x[i] = s[1 + i - 1]
  <2>1. 1 \in Int /\ m \in Int /\ \A i \in 1 .. m : s[i] \in Char
    BY <1>0, <1>2
  <2> QED
    BY <2>1, SubSeqProperties
<1>4. /\ y \in Seq(Char)
      /\ Len(y) = IF j <= k THEN k - j + 1 ELSE 0
      /\ \A i \in 1 .. k - j + 1 : y[i] = s[j + i - 1]
  <2>1. j \in Int /\ k \in Int /\ \A i \in j .. k : i \in 1 .. m + n
    BY <1>0 DEF j, k
  <2>2. \A i \in j .. k : s[i] \in Char
    BY <1>2, <2>1
  <2> QED
    BY <2>1, <2>2, SubSeqProperties
<1> HIDE DEF x, y
<1>5. Len(x) = m
  <2>1. (IF 1 <= m THEN m - 1 + 1 ELSE 0) = m
    BY <1>0
  <2> QED
    BY <1>3, <2>1
<1>6. Len(y) = n
  <2>1. (IF j <= k THEN k - j + 1 ELSE 0) = n
    BY <1>0 DEF j, k
  <2> QED
    BY <1>4, <2>1
<1>7. \A i \in 1 .. m : i \in 1 .. m - 1 + 1 /\ 1 + i - 1 = i
  BY <1>0
<1>8. \A i \in 1 .. n : i \in 1 .. k - j + 1 /\ j + i - 1 = m + i
  BY <1>0 DEF j, k
<1>9. x = a
  <2>1. \A i \in 1 .. Len(x) : x[i] = a[i]
    BY <1>1, <1>3, <1>5, <1>7
  <2>2. Len(x) = Len(a) /\ a \in Seq(Char)
    BY <1>5 DEF m, Strings, Char
  <2> QED
    BY <1>3, <2>1, <2>2, SeqEqual
<1>10. y = b
  <2>1. \A i \in 1 .. Len(y) : y[i] = b[i]
    BY <1>1, <1>4, <1>6, <1>8
  <2>2. Len(y) = Len(b) /\ b \in Seq(Char)
    BY <1>6 DEF n, Strings, Char
  <2> QED
    BY <1>4, <2>1, <2>2, SeqEqual
<1> QED
  BY <1>1, <1>9, <1>10 DEF s, m, n, x, y, j, k

(* The empty string.                                                       *)
LEMMA Nothing ==
  /\ << >> \in Strings /\ Len(<< >>) = 0 /\ \A d : Lacks(<< >>, d)
  /\ \A s \in Strings : s \o << >> = s /\ << >> \o s = s
<1>1. << >> \in Seq(Char) /\ Len(<< >>) = 0
  BY EmptySeq
<1>2. \A d : Lacks(<< >>, d)
  BY DEF Lacks
<1>3. \A s \in Strings : s \o << >> = s /\ << >> \o s = s
  BY ConcatEmptySeq DEF Strings, Char
<1> QED
  BY <1>1, <1>2, <1>3 DEF Strings, Char

(* A string of two characters is made of them.                             *)
LEMMA TwoCharacters ==
  ASSUME NEW c \in Char, NEW d \in Char
  PROVE  <<c, d>> = <<c>> \o <<d>> /\ <<c, d>> \in Strings
<1>1. \A S, x, y : x \in S /\ y \in S => <<x, y>> \in Seq(S)
  OBVIOUS
<1>2. \A x, y : Len(<<x, y>>) = 2 /\ <<x, y>>[1] = x /\ <<x, y>>[2] = y
  OBVIOUS
<1> DEFINE s == <<c, d>>
           t == <<c>> \o <<d>>
<1>3. s \in Strings /\ Len(s) = 2 /\ s[1] = c /\ s[2] = d
  BY <1>1, <1>2 DEF Strings, Char
<1>4. t \in Strings /\ Len(t) = 2 /\ t[1] = c /\ t[2] = d
  <2> DEFINE a == <<c>>
             b == <<d>>
  <2>1. /\ a \in Strings /\ Len(a) = 1 /\ a[1] = c
        /\ b \in Strings /\ Len(b) = 1 /\ b[1] = d
    BY OneCharacter
  <2> HIDE DEF a, b
  <2>2. /\ a \o b \in Strings /\ Len(a \o b) = Len(a) + Len(b)
        /\ \A i \in 1 .. Len(a) : (a \o b)[i] = a[i]
        /\ \A i \in 1 .. Len(b) : (a \o b)[Len(a) + i] = b[i]
    BY <2>1, Joined
  <2>3. 1 \in 1 .. 1 /\ 1 + 1 = 2
    OBVIOUS
  <2>4. Len(a \o b) = 2 /\ (a \o b)[1] = c /\ (a \o b)[2] = d
    BY <2>1, <2>2, <2>3
  <2> QED
    BY <2>2, <2>4 DEF a, b
<1> HIDE DEF s, t
<1>5. \A i \in 1 .. 2 : i = 1 \/ i = 2
  OBVIOUS
<1>6. s = t
  <2>1. Len(s) = Len(t) /\ \A i \in 1 .. Len(s) : s[i] = t[i]
    BY <1>3, <1>4, <1>5
  <2> QED
    BY <1>3, <1>4, <2>1, SeqEqual DEF Strings, Char
<1> QED
  BY <1>3, <1>6 DEF s, t

-----------------------------------------------------------------------------

(* A string in lower case stays as it is, and has no new delimiters.       *)
LEMMA LowerIs ==
  ASSUME UrlConstants, NEW s \in Strings
  PROVE  /\ Lower(s) \in Strings /\ Lower(Lower(s)) = Lower(s)
         /\ \A d \in {":", "/", "@"} : Lacks(s, d) => Lacks(Lower(s), d)
<1> DEFINE low(w) == IF w \in DOMAIN LowerCase THEN LowerCase[w] ELSE w
           n == Len(s)
           l == Lower(s)
<1>1. \A w \in Char : low(w) \in Char /\ low(low(w)) = low(w)
  BY DEF UrlConstants, Delimiters, Char
<1>2. \A w \in Char : \A d \in {":", "/", "@"} : low(w) = d => w = d
  BY DEF UrlConstants, Delimiters, Char
<1>3. n \in Nat /\ DOMAIN s = 1 .. n /\ \A i \in 1 .. n : s[i] \in Char
  BY LenProperties, ElementOfSeq DEF Strings, Char
<1>4. l = [i \in 1 .. n |-> low(s[i])]
  BY <1>3 DEF Lower
<1> HIDE DEF low, n, l
<1>5. l \in Seq(Char) /\ DOMAIN l = 1 .. n /\ Len(l) = n /\ \A i \in 1 .. n : l[i] = low(s[i])
  <2>1. \A i \in 1 .. n : low(s[i]) \in Char
    BY <1>1, <1>3
  <2>2. l \in [1 .. n -> Char]
    BY <1>4, <2>1
  <2>3. l \in Seq(Char)
    BY <1>3, <2>2, SeqDef
  <2>4. DOMAIN l = 1 .. Len(l) /\ Len(l) \in Nat
    BY <2>3, LenProperties
  <2>5. DOMAIN l = 1 .. n
    BY <2>2
  <2>6. Len(l) = n
    <3> DEFINE k == Len(l)
    <3>1. k \in Nat /\ 1 .. k = 1 .. n
      BY <2>4, <2>5
    <3> HIDE DEF k
    <3>2. (k \in 1 .. k => k \in 1 .. n) /\ (n \in 1 .. n => n \in 1 .. k)
      BY <3>1
    <3>3. k = n
      BY <1>3, <3>1, <3>2
    <3> QED
      BY <3>3 DEF k
  <2> QED
    BY <1>4, <2>3, <2>5, <2>6
<1>6. Lower(l) = l
  <2>1. Lower(l) = [i \in 1 .. n |-> low(l[i])]
    BY <1>5 DEF Lower, low
  <2>2. \A i \in 1 .. n : low(l[i]) = low(s[i])
    BY <1>1, <1>3, <1>5
  <2> QED
    BY <1>4, <2>1, <2>2
<1>7. ASSUME NEW d \in {":", "/", "@"}, Lacks(s, d) PROVE Lacks(l, d)
  <2> SUFFICES ASSUME NEW i \in 1 .. n PROVE l[i] # d
    BY <1>5 DEF Lacks
  <2>1. s[i] # d /\ s[i] \in Char /\ l[i] = low(s[i])
    BY <1>3, <1>5, <1>7 DEF Lacks, n
  <2> QED
    BY <1>2, <2>1
<1> QED
  BY <1>5, <1>6, <1>7 DEF Strings, Char, l

(* What atoi makes of the digits that printf writes.                       *)
LEMMA NumberIs ==
  ASSUME UrlConstants
  PROVE  /\ \A s : Number(s) \in Ports \cup {0}
         /\ \A n \in Ports : Number(<<Digits[n]>>) = n
<1>1. \A s : Number(s) \in Ports \cup {0}
  BY DEF Number
<1>2. ASSUME NEW n \in Ports PROVE Number(<<Digits[n]>>) = n
  <2> DEFINE s == <<Digits[n]>>
  <2>1. s # << >> /\ s[1] = Digits[n]
    OBVIOUS
  <2> HIDE DEF s
  <2>2. Number(s) = CHOOSE k \in Ports : Digits[k] = Digits[n]
    BY <2>1 DEF Number
  <2>3. \A k \in Ports : Digits[k] = Digits[n] => k = n
    BY DEF UrlConstants
  <2>4. (CHOOSE k \in Ports : Digits[k] = Digits[n]) = n
    BY <2>3
  <2> QED
    BY <2>2, <2>4 DEF s
<1> QED
  BY <1>1, <1>2

(* What parse_url makes of its protocol, the part up to the path, and the  *)
(* path.                                                                   *)
PartsOf(proto, hostpart, path) ==
  LET h == ParseHostpart(hostpart)
  IN  [proto |-> proto, host |-> h.host, pass |-> h.pass, path |-> path,
       user |-> IF h.user = << >> /\ proto = <<"ftp">> THEN <<"anonymous">> ELSE h.user,
       port |-> IF h.port = 0 THEN DefaultPort(proto) ELSE h.port]

(* The protocols that parse_url knows.                                     *)
Protos == {<<"http">>, <<"ftp">>, <<"mailto">>}

(* The strings that parse_url takes apart, and what it gets.               *)
Parses(s, proto, hostpart, path) ==
  /\ ParseUrl(s) = PartsOf(proto, hostpart, path)
  /\ proto \in Protos /\ Lower(proto) = proto /\ hostpart \in Strings /\ path \in Strings
  /\ proto = <<"mailto">> => path = << >>
  /\ proto # <<"mailto">> => Lacks(hostpart, "/") /\ path # << >> /\ path[1] = "/"

(* What a parsed URL is.                                                   *)
IsParsed(u) ==
  /\ u = [proto |-> u.proto, host |-> u.host, pass |-> u.pass, path |-> u.path,
          user |-> u.user, port |-> u.port]
  /\ u.proto \in Protos /\ Lower(u.proto) = u.proto
  /\ u.user \in Strings /\ u.pass \in Strings /\ u.host \in Strings /\ u.path \in Strings
  /\ Lacks(u.user, ":") /\ Lacks(u.host, ":") /\ Lacks(u.host, "@") /\ Lower(u.host) = u.host
  /\ u.port \in Ports
  /\ u.proto = <<"ftp">> => u.user # << >>
  /\ u.proto = <<"mailto">> => u.path = << >>
  /\ u.proto # <<"mailto">> => /\ u.path # << >> /\ u.path[1] = "/"
                               /\ Lacks(u.user, "/") /\ Lacks(u.pass, "/") /\ Lacks(u.host, "/")

(* What parse_url accepts, it takes apart.                                 *)
LEMMA ParsedString ==
  ASSUME UrlConstants, NEW s \in Strings, ParseUrl(s) # NotParsed
  PROVE  \E proto, hostpart, path : Parses(s, proto, hostpart, path)
<1> DEFINE colon  == First(s, ":")
           proto  == Lower(Before(s, colon))
           rest   == Behind(s, colon)
           atHost == SubSeq(rest, 3, Len(rest))
           slash  == First(atHost, "/")
<1>1. colon \in 0 .. Len(s)
  BY FirstIs
<1>2. rest \in Strings /\ Lower(proto) = proto
  <2> HIDE DEF colon
  <2>1. rest \in Strings /\ Before(s, colon) \in Strings
    BY <1>1, CutAt
  <2> QED
    BY <2>1, LowerIs
<1>3. \/ /\ proto \in {<<"http">>, <<"ftp">>}
         /\ ParseUrl(s) = IF slash = 0 THEN PartsOf(proto, atHost, <<"/">>)
                          ELSE PartsOf(proto, Before(atHost, slash), SubSeq(atHost, slash, Len(atHost)))
         /\ IsPrefix(<<"/", "/">>, rest)
      \/ proto = <<"mailto">> /\ ParseUrl(s) = PartsOf(proto, rest, << >>)
  BY DEF ParseUrl, PartsOf
<1> HIDE DEF colon, proto, rest
<1>4. CASE proto = <<"mailto">> /\ ParseUrl(s) = PartsOf(proto, rest, << >>)
  <2>1. Parses(s, proto, rest, << >>)
    BY <1>2, <1>4, Nothing DEF Parses, Protos
  <2> QED
    BY <2>1
<1>5. CASE /\ proto \in {<<"http">>, <<"ftp">>}
           /\ ParseUrl(s) = IF slash = 0 THEN PartsOf(proto, atHost, <<"/">>)
                            ELSE PartsOf(proto, Before(atHost, slash),
                                         SubSeq(atHost, slash, Len(atHost)))
           /\ IsPrefix(<<"/", "/">>, rest)
  <2>1. atHost \in Strings
    <3> DEFINE n == Len(rest)
    <3>1. n \in Nat /\ \A i \in 1 .. n : rest[i] \in Char
      BY <1>2, LenProperties, ElementOfSeq DEF Strings, Char
    <3> HIDE DEF n
    <3>2. 3 \in Int /\ n \in Int /\ \A i \in 3 .. n : rest[i] \in Char
      BY <3>1
    <3>3. SubSeq(rest, 3, n) \in Seq(Char)
      BY <3>2, SubSeqProperties
    <3> QED
      BY <3>3 DEF n, Strings, Char
  <2> HIDE DEF atHost
  <2>2. /\ slash \in 0 .. Len(atHost) /\ Len(atHost) \in Nat
        /\ slash = 0 <=> Lacks(atHost, "/")
        /\ slash # 0 => atHost[slash] = "/"
    BY <2>1, FirstIs
  <2>3. proto # <<"mailto">> /\ proto \in Protos /\ Lower(proto) = proto
    BY <1>2, <1>5 DEF Protos
  <2>4. CASE slash = 0
    <3>1. <<"/">> \in Strings /\ <<"/">>[1] = "/" /\ <<"/">> # << >>
      BY Characters, OneCharacter
    <3>2. Lacks(atHost, "/") /\ ParseUrl(s) = PartsOf(proto, atHost, <<"/">>)
      BY <1>5, <2>2, <2>4
    <3>3. Parses(s, proto, atHost, <<"/">>)
      BY <2>1, <2>3, <3>1, <3>2 DEF Parses
    <3> QED
      BY <3>3
  <2>5. CASE slash # 0
    <3> DEFINE n    == Len(atHost)
               path == SubSeq(atHost, slash, n)
               host == Before(atHost, slash)
    <3>1. Lacks(host, "/")
      BY <2>1, CutAtFirst
    <3>2. host \in Strings
      <4> HIDE DEF slash
      <4> QED
        BY <2>1, <2>2, CutAt
    <3>3. n \in Nat /\ \A i \in 1 .. n : atHost[i] \in Char
      BY <2>1, LenProperties, ElementOfSeq DEF Strings, Char
    <3>4. slash \in 1 .. n /\ atHost[slash] = "/"
      BY <2>2, <2>5
    <3> HIDE DEF n, slash, host
    <3>5. /\ path \in Seq(Char) /\ Len(path) = IF slash <= n THEN n - slash + 1 ELSE 0
          /\ \A i \in 1 .. n - slash + 1 : path[i] = atHost[slash + i - 1]
      <4>1. slash \in Int /\ n \in Int /\ \A i \in slash .. n : i \in 1 .. n
        BY <3>3, <3>4
      <4>2. \A i \in slash .. n : atHost[i] \in Char
        BY <3>3, <4>1
      <4> QED
        BY <4>1, <4>2, SubSeqProperties
    <3>6. path \in Strings /\ path # << >> /\ path[1] = "/"
      <4>1. 1 \in 1 .. n - slash + 1 /\ slash + 1 - 1 = slash
        BY <3>3, <3>4
      <4>2. path[1] = "/"
        BY <3>4, <3>5, <4>1
      <4>3. Len(path) # 0
        BY <3>3, <3>4, <3>5
      <4>4. path # << >>
        BY <4>3, Nothing
      <4> QED
        BY <3>5, <4>2, <4>4 DEF Strings, Char
    <3>7. ParseUrl(s) = PartsOf(proto, host, path)
      BY <1>5, <2>5 DEF n, host
    <3> HIDE DEF path
    <3>8. Parses(s, proto, host, path)
      BY <2>3, <3>1, <3>2, <3>6, <3>7 DEF Parses
    <3> QED
      BY <3>8
  <2> QED
    BY <2>4, <2>5
<1> QED
  BY <1>3, <1>4, <1>5 DEF proto, rest

(* What parse_userpass returns.                                            *)
LEMMA UserpassIs ==
  ASSUME NEW s \in Strings
  PROVE  /\ ParseUserpass(s).user \in Strings /\ ParseUserpass(s).pass \in Strings
         /\ Lacks(ParseUserpass(s).user, ":")
         /\ \A d : Lacks(s, d) =>
              Lacks(ParseUserpass(s).user, d) /\ Lacks(ParseUserpass(s).pass, d)
<1> DEFINE i == First(s, ":")
<1>1. i \in 0 .. Len(s) /\ (i = 0 <=> Lacks(s, ":")) /\ Lacks(Before(s, i), ":")
  BY FirstIs, CutAtFirst
<1>2. ParseUserpass(s) = IF i = 0 THEN [user |-> s, pass |-> << >>]
                         ELSE [user |-> Before(s, i), pass |-> Behind(s, i)]
  BY DEF ParseUserpass
<1> HIDE DEF i
<1>3. Before(s, i) \in Strings /\ Behind(s, i) \in Strings
  BY <1>1, CutAt
<1>4. \A d : Lacks(s, d) => Lacks(Before(s, i), d) /\ Lacks(Behind(s, i), d)
  BY <1>1, CutLacks
<1>5. CASE i = 0
  <2>1. ParseUserpass(s).user = s /\ ParseUserpass(s).pass = << >>
    BY <1>2, <1>5
  <2> QED
    BY <1>1, <1>5, <2>1, Nothing
<1>6. CASE i # 0
  <2>1. ParseUserpass(s).user = Before(s, i) /\ ParseUserpass(s).pass = Behind(s, i)
    BY <1>2, <1>6
  <2> QED
    BY <1>1, <1>3, <1>4, <2>1
<1> QED
  BY <1>5, <1>6

(* What parse_hostport returns: a host in lower case, and a port or none.  *)
LEMMA HostportIs ==
  ASSUME UrlConstants, NEW s \in Strings
  PROVE  /\ ParseHostport(s).host \in Strings /\ ParseHostport(s).port \in Ports \cup {0}
         /\ Lacks(ParseHostport(s).host, ":")
         /\ Lower(ParseHostport(s).host) = ParseHostport(s).host
         /\ \A d \in {":", "/", "@"} : Lacks(s, d) => Lacks(ParseHostport(s).host, d)
<1> DEFINE i == First(s, ":")
<1>1. i \in 0 .. Len(s) /\ (i = 0 <=> Lacks(s, ":")) /\ Lacks(Before(s, i), ":")
  BY FirstIs, CutAtFirst
<1>2. ParseHostport(s) = IF i = 0 THEN [host |-> Lower(s), port |-> 0]
                         ELSE [host |-> Lower(Before(s, i)), port |-> Number(Behind(s, i))]
  BY DEF ParseHostport
<1> HIDE DEF i
<1>3. Before(s, i) \in Strings /\ \A d : Lacks(s, d) => Lacks(Before(s, i), d)
  BY <1>1, CutAt, CutLacks
<1>4. CASE i = 0
  <2>1. ParseHostport(s).host = Lower(s) /\ ParseHostport(s).port = 0
    BY <1>2, <1>4
  <2> QED
    BY <1>1, <1>4, <2>1, LowerIs
<1>5. CASE i # 0
  <2> DEFINE t == Before(s, i)
  <2>1. ParseHostport(s).host = Lower(t) /\ ParseHostport(s).port \in Ports \cup {0}
    BY <1>2, <1>5, NumberIs
  <2>2. t \in Strings /\ Lacks(t, ":") /\ \A d : Lacks(s, d) => Lacks(t, d)
    BY <1>1, <1>3
  <2> HIDE DEF t
  <2> QED
    BY <2>1, <2>2, LowerIs
<1> QED
  BY <1>4, <1>5

(* What parse_hostpart returns: the last "@" is where the host begins.     *)
LEMMA HostpartIs ==
  ASSUME UrlConstants, NEW s \in Strings
  PROVE  LET h == ParseHostpart(s)
         IN  /\ h.user \in Strings /\ h.pass \in Strings /\ h.host \in Strings
             /\ h.port \in Ports \cup {0}
             /\ Lacks(h.user, ":") /\ Lacks(h.host, ":") /\ Lacks(h.host, "@")
             /\ Lower(h.host) = h.host
             /\ Lacks(s, "/") => Lacks(h.user, "/") /\ Lacks(h.pass, "/") /\ Lacks(h.host, "/")
<1> DEFINE i == Final(s, "@")
           a == Before(s, i)
           b == Behind(s, i)
           h == ParseHostpart(s)
<1>1. i \in 0 .. Len(s) /\ Lacks(b, "@")
  BY FinalIs, CutAtFinal
<1>2. /\ h.user = ParseUserpass(a).user /\ h.pass = ParseUserpass(a).pass
      /\ h.host = ParseHostport(b).host /\ h.port = ParseHostport(b).port
  BY DEF ParseHostpart, Hostpart
<1> HIDE DEF i, h
<1>3. a \in Strings /\ b \in Strings /\ (Lacks(s, "/") => Lacks(a, "/") /\ Lacks(b, "/"))
  BY <1>1, CutAt, CutLacks
<1> HIDE DEF a, b
<1>4. /\ h.user \in Strings /\ h.pass \in Strings /\ Lacks(h.user, ":")
      /\ Lacks(s, "/") => Lacks(h.user, "/") /\ Lacks(h.pass, "/")
  BY <1>2, <1>3, UserpassIs
<1>5. /\ h.host \in Strings /\ h.port \in Ports \cup {0} /\ Lower(h.host) = h.host
      /\ Lacks(h.host, ":") /\ Lacks(h.host, "@")
      /\ Lacks(s, "/") => Lacks(h.host, "/")
  BY <1>1, <1>2, <1>3, HostportIs
<1> QED
  BY <1>4, <1>5 DEF h

(* What parse_url returns is a parsed URL.                                 *)
LEMMA ParsedIs ==
  ASSUME UrlConstants, NEW s \in Strings, ParseUrl(s) # NotParsed
  PROVE  IsParsed(ParseUrl(s))
<1>1. PICK proto, hostpart, path : Parses(s, proto, hostpart, path)
  BY ParsedString
<1> DEFINE u == PartsOf(proto, hostpart, path)
           h == ParseHostpart(hostpart)
<1>2. /\ u = [proto |-> u.proto, host |-> u.host, pass |-> u.pass, path |-> u.path,
              user |-> u.user, port |-> u.port]
      /\ u.proto = proto /\ u.host = h.host /\ u.pass = h.pass /\ u.path = path
      /\ u.user = IF h.user = << >> /\ proto = <<"ftp">> THEN <<"anonymous">> ELSE h.user
      /\ u.port = IF h.port = 0 THEN DefaultPort(proto) ELSE h.port
  BY DEF PartsOf
<1>3. /\ proto \in Protos /\ Lower(proto) = proto /\ hostpart \in Strings /\ path \in Strings
      /\ proto = <<"mailto">> => path = << >>
      /\ proto # <<"mailto">> => Lacks(hostpart, "/") /\ path # << >> /\ path[1] = "/"
      /\ ParseUrl(s) = u
  BY <1>1 DEF Parses
<1>4. /\ h.user \in Strings /\ h.pass \in Strings /\ h.host \in Strings
      /\ h.port \in Ports \cup {0}
      /\ Lacks(h.user, ":") /\ Lacks(h.host, ":") /\ Lacks(h.host, "@")
      /\ Lower(h.host) = h.host
      /\ Lacks(hostpart, "/") => Lacks(h.user, "/") /\ Lacks(h.pass, "/") /\ Lacks(h.host, "/")
  BY <1>3, HostpartIs
<1> HIDE DEF u, h
<1>5. DefaultPort(proto) \in Ports
  BY DEF DefaultPort, UrlConstants
<1>6. u.port \in Ports
  BY <1>2, <1>4, <1>5
<1>7. <<"anonymous">> \in Strings /\ <<"anonymous">> # << >>
  BY Characters, OneCharacter
<1>8. Lacks(<<"anonymous">>, ":") /\ Lacks(<<"anonymous">>, "/")
  <2>1. \A d : Lacks(<<"anonymous">>, d) <=> "anonymous" # d
    BY Characters, OneCharacter
  <2>2. "anonymous" # ":" /\ "anonymous" # "/"
    OBVIOUS
  <2> QED
    BY <2>1, <2>2
<1> DEFINE anonymous == <<"anonymous">>
<1> HIDE DEF anonymous
<1>9. /\ u.user \in Strings /\ Lacks(u.user, ":")
      /\ proto = <<"ftp">> => u.user # << >>
      /\ Lacks(hostpart, "/") => Lacks(u.user, "/")
  <2>1. /\ anonymous \in Strings /\ anonymous # << >>
        /\ Lacks(anonymous, ":") /\ Lacks(anonymous, "/")
    BY <1>7, <1>8 DEF anonymous
  <2>2. u.user = IF h.user = << >> /\ proto = <<"ftp">> THEN anonymous ELSE h.user
    BY <1>2 DEF anonymous
  <2> QED
    BY <1>4, <2>1, <2>2
<1>10. IsParsed(u)
  BY <1>2, <1>3, <1>4, <1>6, <1>9 DEF IsParsed
<1> QED
  BY <1>3, <1>10

(* It does not matter in which order strings are put together.             *)
LEMMA Associates == \A x, y, z \in Strings : x \o y \o z = x \o (y \o z)
BY ConcatAssociative DEF Strings

(* The ways in which four strings may be put together.                     *)
Regroups(a, b, c, d) ==
  /\ a \o b \o c \o d = a \o (b \o (c \o d))
  /\ a \o b \o c \o d = a \o (b \o c \o d)

(* ... nor for four of them.                                               *)
LEMMA Regrouped ==
  ASSUME NEW a \in Strings, NEW b \in Strings, NEW c \in Strings, NEW d \in Strings
  PROVE  Regroups(a, b, c, d)
<1> DEFINE x == a \o b
           y == c \o d
<1>1. x \in Strings /\ y \in Strings
  BY Joined
<1>2. a \o b \o y = a \o (b \o y)
  <2> HIDE DEF y
  <2> QED
    BY <1>1, Associates
<1>3. x \o c \o d = x \o (c \o d)
  <2> HIDE DEF x
  <2> QED
    BY <1>1, Associates
<1>4. a \o b \o c \o d = a \o (b \o (c \o d))
  BY <1>2, <1>3
<1>5. b \o c \o d = b \o (c \o d)
  BY Associates
<1> QED
  BY <1>4, <1>5 DEF Regroups

(* The protocols and what stands behind them.                              *)
LEMMA ProtosAre ==
  ASSUME UrlConstants
  PROVE  \A proto \in Protos : proto \in Strings /\ Len(proto) = 1 /\ Lacks(proto, ":")
<1>1. \A w \in {"http", "ftp", "mailto"} : w \in Words /\ w \in Char /\ w # ":"
  BY DEF UrlConstants, Char, Delimiters
<1>2. \A w \in Char : <<w>> \in Strings /\ Len(<<w>>) = 1 /\ (Lacks(<<w>>, ":") <=> w # ":")
  BY OneCharacter
<1>3. \A w \in {"http", "ftp", "mailto"} :
        <<w>> \in Strings /\ Len(<<w>>) = 1 /\ Lacks(<<w>>, ":")
  BY <1>1, <1>2
<1>4. \A proto \in Protos : \E w \in {"http", "ftp", "mailto"} : proto = <<w>>
  BY DEF Protos
<1> QED
  BY <1>3, <1>4

(* What stands between a protocol and a host.                              *)
LEMMA ColonSlashes ==
  ASSUME UrlConstants
  PROVE  /\ <<":">> \in Strings /\ <<"/", "/">> \in Strings /\ Len(<<"/", "/">>) = 2
         /\ <<":", "/", "/">> = <<":">> \o <<"/", "/">> /\ <<":", "/", "/">> \in Strings
<1>1. <<":">> \in Strings /\ <<"/", "/">> \in Strings
  BY Characters, OneCharacter, TwoCharacters
<1>2. \A x, y, z : <<x, y, z>> = <<x>> \o <<y, z>>
  OBVIOUS
<1>3. \A x, y : Len(<<x, y>>) = 2
  OBVIOUS
<1>4. \A x, y \in Strings : x \o y \in Strings
  BY Joined
<1> QED
  BY <1>1, <1>2, <1>3, <1>4

(* A URL of http or ftp, with what parse_url finds in it.                  *)
WebUrl(s, proto, rest, atHost, slash) ==
  /\ First(s, ":") # 0
  /\ proto = Lower(Before(s, First(s, ":"))) /\ proto \in {<<"http">>, <<"ftp">>}
  /\ rest = Behind(s, First(s, ":")) /\ IsPrefix(<<"/", "/">>, rest)
  /\ atHost = SubSeq(rest, 3, Len(rest))
  /\ slash = First(atHost, "/") /\ slash # 0

(* What parse_url returns for one.                                         *)
LEMMA WebUrlIs ==
  ASSUME NEW s, NEW proto, NEW rest, NEW atHost, NEW slash,
         WebUrl(s, proto, rest, atHost, slash)
  PROVE  ParseUrl(s) =
           PartsOf(proto, Before(atHost, slash), SubSeq(atHost, slash, Len(atHost)))
BY DEF ParseUrl, PartsOf, WebUrl

(* parse_url undoes what puts a protocol, a host part and a path together. *)
LEMMA WebUrlParses ==
  ASSUME UrlConstants, NEW proto \in Protos, proto # <<"mailto">>, Lower(proto) = proto,
         NEW hostpart \in Strings, NEW path \in Strings,
         Lacks(hostpart, "/"), path # << >>, path[1] = "/"
  PROVE  ParseUrl(proto \o <<":", "/", "/">> \o hostpart \o path) =
           PartsOf(proto, hostpart, path)
<1> DEFINE colon   == <<":">>
           slashes == <<"/", "/">>
           X       == hostpart \o path
           R       == slashes \o X
           s       == proto \o colon \o R
           m       == Len(hostpart)
           n       == Len(path)
<1>1. proto \in Strings /\ Len(proto) = 1 /\ Lacks(proto, ":")
  BY ProtosAre
<1>2. /\ colon \in Strings /\ slashes \in Strings /\ Len(slashes) = 2
      /\ <<":", "/", "/">> = colon \o slashes
  BY ColonSlashes
<1> HIDE DEF slashes
<1>3. X \in Strings /\ R \in Strings
  <2>1. X \in Strings
    BY Joined
  <2> HIDE DEF X
  <2> QED
    BY <1>2, <2>1, Joined
<1>4. proto \o <<":", "/", "/">> \o hostpart \o path = s
  <2> DEFINE T == colon \o slashes
  <2>1. T \in Strings
    BY <1>2, Joined
  <2>2. colon \in Strings /\ T = colon \o slashes
    BY <1>2
  <2> HIDE DEF colon, T
  <2>3. proto \o T \o hostpart \o path = proto \o (T \o X)
    <3>1. Regroups(proto, T, hostpart, path)
      BY <1>1, <2>1, Regrouped
    <3> QED
      BY <3>1 DEF Regroups
  <2>4. T \o X = colon \o R
    <3>1. X \in Strings
      BY <1>3
    <3> HIDE DEF X
    <3>2. colon \o slashes \o X = colon \o (slashes \o X)
      BY <1>2, <2>2, <3>1, Associates
    <3> QED
      BY <2>2, <3>2
  <2>5. proto \o colon \o R = proto \o (colon \o R)
    <3>1. R \in Strings
      BY <1>3
    <3> HIDE DEF R
    <3> QED
      BY <1>1, <2>2, <3>1, Associates
  <2>6. <<":", "/", "/">> = T
    BY <1>2 DEF T
  <2> QED
    BY <2>3, <2>4, <2>5, <2>6
<1>5. s \in Strings /\ First(s, ":") = 2 /\ Before(s, 2) = proto /\ Behind(s, 2) = R
  <2>1. R \in Strings
    BY <1>3
  <2> HIDE DEF R
  <2>2. Around(proto, ":", R)
    BY <1>1, <2>1, Characters, PartsAround
  <2>3. 1 + 1 = 2
    OBVIOUS
  <2> QED
    BY <1>1, <2>2, <2>3 DEF Around
<1>6. SubSeq(R, 3, Len(R)) = X /\ IsPrefix(slashes, R)
  <2> HIDE DEF X
  <2>1. SubSeq(R, 1, Len(slashes)) = slashes /\ SubSeq(R, Len(slashes) + 1, Len(R)) = X
    BY <1>2, <1>3, TakenApart
  <2>2. SubSeq(slashes \o << >>, 1, Len(slashes)) = slashes /\ slashes \o << >> = slashes
    BY <1>2, TakenApart, Nothing
  <2>3. Len(slashes) <= Len(R)
    <3>1. Len(R) = 2 + Len(X) /\ Len(X) \in Nat
      BY <1>2, <1>3, Joined
    <3> QED
      BY <1>2, <3>1
  <2>4. 2 + 1 = 3
    OBVIOUS
  <2> QED
    BY <1>2, <2>1, <2>2, <2>3, <2>4 DEF IsPrefix
<1>7. First(X, "/") = m + 1 /\ m + 1 # 0
  <2> DEFINE f == First(X, "/")
  <2>1. /\ m \in Nat /\ n \in Nat /\ Len(X) = m + n
        /\ \A i \in 1 .. m : X[i] = hostpart[i]
        /\ \A i \in 1 .. n : X[m + i] = path[i]
    BY Joined
  <2>2. n # 0
    BY EmptySeq DEF Strings
  <2> HIDE DEF X
  <2>3. /\ f \in 0 .. Len(X) /\ (f = 0 <=> Lacks(X, "/"))
        /\ f # 0 => X[f] = "/"
        /\ f # 0 => \A j \in 1 .. f - 1 : X[j] # "/"
    BY <1>3, FirstIs
  <2> HIDE DEF f, m, n
  <2>0. m \in Nat /\ n \in Nat
    BY <2>1
  <2>4. 1 \in 1 .. n /\ m + 1 \in 1 .. m + n
    BY <2>0, <2>2
  <2>5. X[m + 1] = "/"
    BY <2>1, <2>4
  <2>6. f # 0
    BY <2>1, <2>3, <2>4, <2>5 DEF Lacks
  <2>7. ~(m + 1 \in 1 .. f - 1)
    BY <2>3, <2>5, <2>6
  <2>8. \A i \in 1 .. m : X[i] # "/"
    BY <2>1 DEF Lacks, m
  <2>9. ~(f \in 1 .. m)
    BY <2>3, <2>6, <2>8
  <2>10. f \in 0 .. m + n
    BY <2>1, <2>3
  <2>11. f = m + 1 /\ m + 1 # 0
    BY <2>0, <2>6, <2>7, <2>9, <2>10
  <2> QED
    BY <2>11 DEF f
<1>8. Before(X, m + 1) = hostpart /\ SubSeq(X, m + 1, Len(X)) = path
  <2>1. m \in Nat /\ SubSeq(X, 1, m) = hostpart /\ SubSeq(X, m + 1, Len(X)) = path
    BY Joined, TakenApart
  <2> HIDE DEF X, m
  <2>2. m + 1 - 1 = m
    BY <2>1
  <2> QED
    BY <2>1, <2>2 DEF Before
<1> HIDE DEF X, R, s, m
<1>9. ParseUrl(s) = PartsOf(proto, hostpart, path)
  <2>1. proto \in {<<"http">>, <<"ftp">>}
    BY DEF Protos
  <2>2. IsPrefix(<<"/", "/">>, R)
    BY <1>6 DEF slashes
  <2>3. WebUrl(s, proto, R, X, m + 1)
    BY <1>5, <1>6, <1>7, <2>1, <2>2 DEF WebUrl
  <2>4. ParseUrl(s) = PartsOf(proto, Before(X, m + 1), SubSeq(X, m + 1, Len(X)))
    BY <2>3, WebUrlIs
  <2> QED
    BY <1>8, <2>4
<1> QED
  BY <1>4, <1>9

(* ... and for an address of mailto.                                       *)
LEMMA MailUrlParses ==
  ASSUME UrlConstants, NEW proto, proto = <<"mailto">>, Lower(proto) = proto,
         NEW rest \in Strings
  PROVE  ParseUrl(proto \o <<":">> \o rest) = PartsOf(proto, rest, << >>)
<1> DEFINE s == proto \o <<":">> \o rest
<1>1. proto \in Strings /\ Len(proto) = 1 /\ Lacks(proto, ":")
  BY ProtosAre DEF Protos
<1>2. First(s, ":") = 2 /\ Before(s, 2) = proto /\ Behind(s, 2) = rest
  <2>1. Around(proto, ":", rest)
    BY <1>1, Characters, PartsAround
  <2>2. 1 + 1 = 2
    OBVIOUS
  <2> QED
    BY <1>1, <2>1, <2>2 DEF Around
<1> HIDE DEF s
<1>3. proto \notin {<<"http">>, <<"ftp">>}
  OBVIOUS
<1>4. ParseUrl(s) = PartsOf(proto, rest, << >>)
  BY <1>2, <1>3 DEF ParseUrl, PartsOf
<1> QED
  BY <1>4 DEF s

(* parse_userpass undoes what puts a user and a password together.         *)
LEMMA UserpassParses ==
  ASSUME UrlConstants, NEW a \in Strings, NEW b \in Strings, Lacks(a, ":")
  PROVE  /\ ParseUserpass(a) = [user |-> a, pass |-> << >>]
         /\ ParseUserpass(a \o <<":">> \o b) = [user |-> a, pass |-> b]
<1>1. First(a, ":") = 0
  BY FirstIs
<1> DEFINE s == a \o <<":">> \o b
           k == Len(a) + 1
<1>2. First(s, ":") = k /\ Before(s, k) = a /\ Behind(s, k) = b /\ k # 0
  <2>1. Around(a, ":", b)
    BY Characters, PartsAround
  <2>2. Len(a) \in Nat
    BY LenProperties DEF Strings
  <2> QED
    BY <2>1, <2>2 DEF Around
<1> HIDE DEF s, k
<1>3. ParseUserpass(s) = [user |-> a, pass |-> b]
  BY <1>2 DEF ParseUserpass
<1>4. ParseUserpass(a) = [user |-> a, pass |-> << >>]
  BY <1>1 DEF ParseUserpass
<1> QED
  BY <1>3, <1>4 DEF s

(* parse_hostport undoes what puts a host and a port together.             *)
LEMMA HostportParses ==
  ASSUME UrlConstants, NEW a \in Strings, NEW b \in Strings, Lacks(a, ":")
  PROVE  /\ ParseHostport(a) = [host |-> Lower(a), port |-> 0]
         /\ ParseHostport(a \o <<":">> \o b) = [host |-> Lower(a), port |-> Number(b)]
<1>1. First(a, ":") = 0
  BY FirstIs
<1> DEFINE s == a \o <<":">> \o b
           k == Len(a) + 1
<1>2. First(s, ":") = k /\ Before(s, k) = a /\ Behind(s, k) = b /\ k # 0
  <2>1. Around(a, ":", b)
    BY Characters, PartsAround
  <2>2. Len(a) \in Nat
    BY LenProperties DEF Strings
  <2> QED
    BY <2>1, <2>2 DEF Around
<1> HIDE DEF s, k
<1>3. ParseHostport(s) = [host |-> Lower(a), port |-> Number(b)]
  BY <1>2 DEF ParseHostport
<1>4. ParseHostport(a) = [host |-> Lower(a), port |-> 0]
  BY <1>1 DEF ParseHostport
<1> QED
  BY <1>3, <1>4 DEF s

(* A host part that consists of a login and a place.                       *)
HostpartIn(s, user, pass, t) ==
  ParseHostpart(s) = [user |-> user, pass |-> pass,
                      host |-> ParseHostport(t).host, port |-> ParseHostport(t).port]

(* parse_hostpart undoes what puts a login before a host.                  *)
LEMMA HostpartParses ==
  ASSUME UrlConstants, NEW t \in Strings, Lacks(t, "@")
  PROVE  /\ HostpartIn(t, << >>, << >>, t)
         /\ \A x \in Strings :
              HostpartIn(x \o <<"@">> \o t, ParseUserpass(x).user, ParseUserpass(x).pass, t)
<1>1. HostpartIn(t, << >>, << >>, t)
  <2>1. Final(t, "@") = 0
    BY FinalIs
  <2>2. Before(t, 0) = << >>
    <3>1. 0 \in 0 .. Len(t)
      BY LenProperties DEF Strings
    <3>2. Before(t, 0) \in Strings /\ Len(Before(t, 0)) = 0
      BY <3>1, CutAt
    <3> QED
      BY <3>2, EmptySeq DEF Strings
  <2>3. Behind(t, 0) = t
    <3>1. << >> \o t = t /\ << >> \in Strings /\ Len(<< >>) = 0
      BY Nothing
    <3>2. SubSeq(<< >> \o t, Len(<< >>) + 1, Len(<< >> \o t)) = t
      BY <3>1, TakenApart
    <3> QED
      BY <3>1, <3>2 DEF Behind
  <2>4. ParseUserpass(<< >>) = [user |-> << >>, pass |-> << >>]
    BY Nothing, UserpassParses
  <2> QED
    BY <2>1, <2>2, <2>3, <2>4 DEF ParseHostpart, Hostpart, HostpartIn
<1>2. ASSUME NEW x \in Strings
      PROVE  HostpartIn(x \o <<"@">> \o t, ParseUserpass(x).user, ParseUserpass(x).pass, t)
  <2> DEFINE s == x \o <<"@">> \o t
             k == Len(x) + 1
  <2>1. Around(x, "@", t)
    BY Characters, PartsAround
  <2>2. Final(s, "@") = k /\ Before(s, k) = x /\ Behind(s, k) = t
    BY <2>1 DEF Around
  <2> HIDE DEF s, k
  <2>3. HostpartIn(s, ParseUserpass(x).user, ParseUserpass(x).pass, t)
    BY <2>2 DEF ParseHostpart, Hostpart, HostpartIn
  <2> QED
    BY <2>3 DEF s
<1> QED
  BY <1>1, <1>2

(* What Login writes, before any place.                                    *)
LEMMA LoginParses ==
  ASSUME UrlConstants, NEW u, u.user \in Strings, u.pass \in Strings, Lacks(u.user, ":"),
         NEW t \in Strings, Lacks(t, "@")
  PROVE  /\ Login(u) \in Strings
         /\ Lacks(u.user, "/") /\ Lacks(u.pass, "/") => Lacks(Login(u), "/")
         /\ HostpartIn(Login(u) \o t, u.user, u.pass, t)
<1> DEFINE a  == u.user
           b  == u.pass
           at == <<"@">>
           co == <<":">>
<1>1. at \in Strings /\ co \in Strings /\ Lacks(at, "/") /\ Lacks(co, "/")
  <2>1. \A c \in Char : <<c>> \in Strings /\ (Lacks(<<c>>, "/") <=> c # "/")
    BY OneCharacter
  <2>2. "@" # "/" /\ ":" # "/"
    OBVIOUS
  <2> QED
    BY <2>1, <2>2, Characters
<1>2. Login(u) = IF a \o b = << >> THEN << >>
                 ELSE a \o (IF b = << >> THEN << >> ELSE co \o b) \o at
  BY DEF Login
<1>3. a \in Strings /\ b \in Strings
  OBVIOUS
<1>4. ParseUserpass(a) = [user |-> a, pass |-> << >>]
  BY <1>3, UserpassParses
<1>5. ParseUserpass(a \o co \o b) = [user |-> a, pass |-> b]
  BY <1>3, UserpassParses
<1> HIDE DEF a, b, at, co
<1>6. CASE a \o b = << >>
  <2>1. a = << >> /\ b = << >>
    BY <1>3, <1>6, ConcatEqualIffEmpty DEF Strings
  <2>2. Login(u) = << >> /\ << >> \o t = t
    BY <1>2, <1>6, Nothing
  <2>3. HostpartIn(t, << >>, << >>, t)
    BY HostpartParses
  <2>4. HostpartIn(Login(u) \o t, a, b, t)
    BY <2>1, <2>2, <2>3
  <2> QED
    BY <2>2, <2>4, Nothing DEF a, b
<1>7. CASE a \o b # << >> /\ b = << >>
  <2>1. Login(u) = a \o at
    <3>1. a \o << >> = a
      BY <1>3, Nothing
    <3> QED
      BY <1>2, <1>7, <3>1
  <2>2. HostpartIn(a \o at \o t, ParseUserpass(a).user, ParseUserpass(a).pass, t)
    BY <1>3, HostpartParses DEF at
  <2>3. HostpartIn(Login(u) \o t, a, b, t)
    BY <1>4, <1>7, <2>1, <2>2
  <2>4. Login(u) \in Strings
    BY <1>1, <1>3, <2>1, Joined
  <2>5. Lacks(a, "/") => Lacks(Login(u), "/")
    BY <1>1, <1>3, <2>1, JoinedLacks
  <2> QED
    BY <2>3, <2>4, <2>5 DEF a, b
<1>8. CASE a \o b # << >> /\ b # << >>
  <2> DEFINE x == a \o co \o b
  <2>1. co \o b \in Strings /\ a \o co \in Strings
    BY <1>1, <1>3, Joined
  <2>2. a \o (co \o b) = x
    <3>1. a \in Strings /\ co \in Strings /\ b \in Strings
      BY <1>1, <1>3
    <3>2. a \o co \o b = a \o (co \o b)
      BY <3>1, Associates
    <3> QED
      BY <3>2
  <2>3. x \in Strings
    BY <1>3, <2>1, Joined
  <2>4. Login(u) = x \o at
    BY <1>2, <1>8, <2>2
  <2>5. Lacks(a, "/") /\ Lacks(b, "/") => Lacks(x, "/")
    <3>1. Lacks(a \o co, "/") <=> Lacks(a, "/") /\ Lacks(co, "/")
      BY <1>1, <1>3, JoinedLacks
    <3> DEFINE y == a \o co
    <3> HIDE DEF y
    <3>2. Lacks(y \o b, "/") <=> Lacks(y, "/") /\ Lacks(b, "/")
      <4>1. y \in Strings
        BY <2>1 DEF y
      <4> QED
        BY <1>3, <4>1, JoinedLacks
    <3> QED
      BY <1>1, <3>1, <3>2 DEF y
  <2>6. ParseUserpass(x).user = a /\ ParseUserpass(x).pass = b
    BY <1>5
  <2> HIDE DEF x
  <2>7. HostpartIn(x \o at \o t, ParseUserpass(x).user, ParseUserpass(x).pass, t)
    BY <2>3, HostpartParses DEF at
  <2>8. HostpartIn(Login(u) \o t, a, b, t)
    BY <2>4, <2>6, <2>7
  <2>9. Login(u) \in Strings
    BY <1>1, <2>3, <2>4, Joined
  <2>10. Lacks(a, "/") /\ Lacks(b, "/") => Lacks(Login(u), "/")
    BY <1>1, <2>3, <2>4, <2>5, JoinedLacks
  <2> QED
    BY <2>8, <2>9, <2>10 DEF a, b
<1> QED
  BY <1>6, <1>7, <1>8

(* What parse_url gets back of what build_url wrote: all but a port that   *)
(* is not the protocol's, and the password of a mail address.              *)
LEMMA BuiltParses ==
  ASSUME UrlConstants, NEW u, IsParsed(u)
  PROVE  u.port = DefaultPort(u.proto) /\ (u.proto = <<"mailto">> => u.pass = << >>)
         => ParseUrl(BuildUrl(u)) = u
<1> DEFINE P  == u.proto
           H  == u.host
           at == <<"@">>
           co == <<":">>
           D  == DefaultPort(P)
<1>1. /\ P \in Protos /\ Lower(P) = P /\ P \in Strings
      /\ u.user \in Strings /\ u.pass \in Strings /\ H \in Strings /\ u.path \in Strings
      /\ Lacks(u.user, ":") /\ Lacks(H, ":") /\ Lacks(H, "@") /\ Lower(H) = H
      /\ u.port \in Ports /\ u.port # 0
  BY ProtosAre DEF IsParsed, UrlConstants
<1>2. at \in Strings /\ co \in Strings
  BY Characters, OneCharacter
<1>3. ASSUME NEW hostpart, NEW path,
             NEW h, h = ParseHostpart(hostpart), h.user = u.user, h.port = 0, path = u.path
      PROVE  /\ PartsOf(P, hostpart, path).port = D
             /\ h.pass = u.pass /\ h.host = H /\ u.port = D => PartsOf(P, hostpart, path) = u
             /\ h.pass # u.pass => PartsOf(P, hostpart, path) # u
  <2> DEFINE w == PartsOf(P, hostpart, path)
  <2>1. w = [proto |-> P, host |-> h.host, pass |-> h.pass, path |-> u.path,
             user |-> IF u.user = << >> /\ P = <<"ftp">> THEN <<"anonymous">> ELSE u.user,
             port |-> D]
    BY <1>3 DEF PartsOf
  <2>2. (IF u.user = << >> /\ P = <<"ftp">> THEN <<"anonymous">> ELSE u.user) = u.user
    BY DEF IsParsed
  <2>3. w = [proto |-> P, host |-> h.host, pass |-> h.pass, path |-> u.path,
             user |-> u.user, port |-> D]
    BY <2>1, <2>2
  <2>4. w.port = D /\ w.pass = h.pass
    BY <2>3
  <2>5. u = [proto |-> u.proto, host |-> u.host, pass |-> u.pass, path |-> u.path,
             user |-> u.user, port |-> u.port]
    BY DEF IsParsed
  <2> HIDE DEF w
  <2>6. ASSUME h.pass = u.pass, h.host = H, u.port = D PROVE w = u
    <3> HIDE DEF D
    <3> QED
      BY <2>3, <2>5, <2>6
  <2>7. h.pass # u.pass => w # u
    BY <2>4
  <2> QED
    BY <2>4, <2>6, <2>7 DEF w
<1>4. CASE P = <<"mailto">>
  <2> DEFINE rest == u.user \o at \o H
  <2>1. rest \in Strings
    <3>1. Around(u.user, "@", H)
      BY <1>1, Characters, PartsAround
    <3> QED
      BY <3>1 DEF Around
  <2>2. BuildUrl(u) = P \o co \o rest
    <3> DEFINE x == P \o co
    <3>1. x \in Strings
      BY <1>1, <1>2, Joined
    <3>2. BuildUrl(u) = x \o u.user \o at \o H
      BY <1>4 DEF BuildUrl
    <3> HIDE DEF x, at, H
    <3>3. Regroups(x, u.user, at, H)
      BY <1>1, <1>2, <3>1, Regrouped
    <3>4. x \o u.user \o at \o H = x \o (u.user \o at \o H)
      BY <3>3 DEF Regroups
    <3> QED
      BY <3>2, <3>4 DEF x
  <2>3. ParseUrl(P \o co \o rest) = PartsOf(P, rest, << >>)
    <3> HIDE DEF rest
    <3> QED
      BY <1>1, <1>4, <2>1, MailUrlParses
  <2>4. HostpartIn(rest, ParseUserpass(u.user).user, ParseUserpass(u.user).pass, H)
    BY <1>1, HostpartParses
  <2>5. ParseUserpass(u.user) = [user |-> u.user, pass |-> << >>]
    BY <1>1, UserpassParses
  <2>6. ParseHostport(H) = [host |-> Lower(H), port |-> 0]
    BY <1>1, HostportParses
  <2> DEFINE h == ParseHostpart(rest)
  <2>7. h.user = u.user /\ h.pass = << >> /\ h.host = H /\ h.port = 0
    BY <1>1, <2>4, <2>5, <2>6 DEF HostpartIn
  <2>8. u.path = << >>
    BY <1>4 DEF IsParsed
  <2> DEFINE w == PartsOf(P, rest, << >>)
  <2> HIDE DEF rest, h
  <2>9. /\ w.port = D
        /\ h.pass = u.pass /\ h.host = H /\ u.port = D => w = u
        /\ h.pass # u.pass => w # u
    BY <1>3, <2>7, <2>8 DEF h
  <2> HIDE DEF w
  <2>10. w = u <=> u.port = D /\ u.pass = << >>
    BY <2>7, <2>9
  <2> QED
    BY <1>4, <2>2, <2>3, <2>10 DEF w
<1>5. CASE P # <<"mailto">>
  <2> DEFINE L    == Login(u)
             port == IF u.port \in {0, D} THEN << >> ELSE <<Digits[u.port]>>
             t    == H \o port
             hp   == L \o t
  <2>1. port \in Strings /\ Lacks(port, ":") /\ Lacks(port, "/") /\ Lacks(port, "@")
    <3>1. \A w \in Words : <<w>> \in Strings /\ \A d \in {":", "/", "@"} : Lacks(<<w>>, d)
      BY Characters, OneCharacter DEF Delimiters
    <3>2. Digits[u.port] \in Words
      BY <1>1 DEF UrlConstants
    <3> QED
      BY <3>1, <3>2, Nothing
  <2>2. /\ u.path # << >> /\ u.path[1] = "/"
        /\ Lacks(u.user, "/") /\ Lacks(u.pass, "/") /\ Lacks(H, "/")
    BY <1>5 DEF IsParsed
  <2> HIDE DEF port
  <2>3. t \in Strings /\ Lacks(t, ":") /\ Lacks(t, "/") /\ Lacks(t, "@")
    BY <1>1, <2>1, <2>2, Joined, JoinedLacks
  <2>4. L \in Strings /\ Lacks(L, "/") /\ HostpartIn(hp, u.user, u.pass, t)
    <3> HIDE DEF t
    <3> QED
      BY <1>1, <2>2, <2>3, LoginParses
  <2>5. hp \in Strings /\ Lacks(hp, "/")
    <3> HIDE DEF t, L
    <3> QED
      BY <2>3, <2>4, Joined, JoinedLacks
  <2>6. BuildUrl(u) = P \o <<":", "/", "/">> \o hp \o u.path
    <3> DEFINE C == <<":", "/", "/">>
               x == P \o C
    <3>1. x \in Strings
      <4>1. C \in Strings
        BY ColonSlashes
      <4> QED
        BY <1>1, <4>1, Joined
    <3>2. BuildUrl(u) = x \o L \o H \o port \o u.path
      BY <1>5 DEF BuildUrl, port
    <3> HIDE DEF x, L, H
    <3>3. Regroups(x, L, H, port)
      BY <1>1, <2>1, <2>4, <3>1, Regrouped
    <3>4. x \o L \o H \o port = x \o (L \o (H \o port))
      BY <3>3 DEF Regroups
    <3> QED
      BY <3>2, <3>4 DEF x
  <2> HIDE DEF hp
  <2>7. ParseUrl(P \o <<":", "/", "/">> \o hp \o u.path) = PartsOf(P, hp, u.path)
    BY <1>1, <1>5, <2>2, <2>5, WebUrlParses
  <2>8. ParseHostport(t) = [host |-> Lower(t), port |-> 0]
    <3> HIDE DEF t
    <3> QED
      BY <2>3, HostportParses
  <2> DEFINE h == ParseHostpart(hp)
  <2>9. h.user = u.user /\ h.pass = u.pass /\ h.host = Lower(t) /\ h.port = 0
    BY <2>4, <2>8 DEF HostpartIn
  <2>10. u.port = D => t = H
    <3>1. u.port = D => port = << >>
      BY DEF port
    <3> QED
      BY <1>1, <3>1, Nothing
  <2> DEFINE w == PartsOf(P, hp, u.path)
  <2> HIDE DEF h, t
  <2>11. /\ w.port = D
         /\ h.pass = u.pass /\ h.host = H /\ u.port = D => w = u
    BY <1>3, <2>9 DEF h
  <2> HIDE DEF w
  <2>12. w = u <=> u.port = D
    <3>1. ASSUME u.port = D PROVE w = u
      BY <1>1, <2>9, <2>10, <2>11, <3>1
    <3>2. ASSUME w = u PROVE u.port = D
      BY <2>11, <3>2
    <3> QED
      BY <3>1, <3>2
  <2> QED
    BY <1>5, <2>6, <2>7, <2>12 DEF w
<1> QED
  BY <1>4, <1>5

(* What parse_url gets back of what public_url wrote: all but the password. *)
LEMMA PublicParses ==
  ASSUME UrlConstants, NEW s \in Strings, NEW u, u = ParseUrl(s), u # NotParsed, IsParsed(u),
         u.proto # <<"mailto">>
  PROVE  ParseUrl(PublicUrl(s)) = [u EXCEPT !.pass = << >>]
<1> DEFINE P  == u.proto
           H  == u.host
           at == <<"@">>
           co == <<":">>
           D  == <<Digits[u.port]>>
           cd == <<":", Digits[u.port]>>
           t  == H \o co \o D
           x  == u.user \o at
           hp == x \o t
<1>1. /\ P \in Protos /\ Lower(P) = P /\ P \in Strings
      /\ u.user \in Strings /\ H \in Strings /\ u.path \in Strings
      /\ Lacks(u.user, ":") /\ Lacks(H, ":") /\ Lacks(H, "@") /\ Lower(H) = H
      /\ u.port \in Ports /\ u.port # 0
      /\ u.path # << >> /\ u.path[1] = "/" /\ Lacks(u.user, "/") /\ Lacks(H, "/")
  BY ProtosAre DEF IsParsed, UrlConstants
<1>2. /\ at \in Strings /\ co \in Strings /\ D \in Strings /\ cd = co \o D /\ cd \in Strings
      /\ Lacks(at, "/") /\ Lacks(co, "/") /\ Lacks(co, "@") /\ Lacks(D, "/") /\ Lacks(D, "@")
  <2>1. Digits[u.port] \in Words
    BY <1>1 DEF UrlConstants
  <2>2. \A c \in Char : <<c>> \in Strings /\ \A d : Lacks(<<c>>, d) <=> c # d
    BY OneCharacter
  <2>3. "@" # "/" /\ ":" # "/" /\ ":" # "@"
    OBVIOUS
  <2>4. \A w \in Words : w # "/" /\ w # "@" /\ w \in Char
    BY Characters DEF Delimiters
  <2>5. cd = co \o D /\ cd \in Strings
    BY <2>1, <2>4, Characters, TwoCharacters
  <2> QED
    BY <2>1, <2>2, <2>3, <2>4, <2>5, Characters
<1>3. t \in Strings /\ Lacks(t, "/") /\ Lacks(t, "@")
  <2> DEFINE y == H \o co
  <2>1. y \in Strings /\ Lacks(y, "/") /\ Lacks(y, "@")
    BY <1>1, <1>2, Joined, JoinedLacks
  <2> HIDE DEF y
  <2>2. y \o D \in Strings /\ Lacks(y \o D, "/") /\ Lacks(y \o D, "@")
    BY <1>2, <2>1, Joined, JoinedLacks
  <2> QED
    BY <2>2 DEF y
<1>4. x \in Strings /\ Lacks(x, "/")
  BY <1>1, <1>2, Joined, JoinedLacks
<1>5. hp \in Strings /\ Lacks(hp, "/")
  <2> HIDE DEF x, t
  <2> QED
    BY <1>3, <1>4, Joined, JoinedLacks
<1>6. HostpartIn(hp, ParseUserpass(u.user).user, ParseUserpass(u.user).pass, t)
  <2> HIDE DEF t
  <2> QED
    BY <1>1, <1>3, HostpartParses
<1>7. ParseUserpass(u.user) = [user |-> u.user, pass |-> << >>]
  BY <1>1, UserpassParses
<1>8. ParseHostport(t) = [host |-> H, port |-> u.port]
  <2>1. ParseHostport(t) = [host |-> Lower(H), port |-> Number(D)]
    <3> HIDE DEF D, H
    <3> QED
      BY <1>1, <1>2, HostportParses
  <2>2. Number(D) = u.port
    BY <1>1, NumberIs
  <2> QED
    BY <1>1, <2>1, <2>2
<1>9. PublicUrl(s) = P \o <<":", "/", "/">> \o hp \o u.path
  <2> DEFINE C == <<":", "/", "/">>
             z == P \o C
             v == u.user \o at \o H
  <2>1. z \in Strings
    <3>1. C \in Strings
      BY ColonSlashes
    <3> QED
      BY <1>1, <3>1, Joined
  <2>2. PublicUrl(s) = z \o u.user \o at \o H \o cd \o u.path
    BY DEF PublicUrl
  <2>3. v \in Strings
    <3> HIDE DEF x
    <3>1. x \o H \in Strings
      BY <1>1, <1>4, Joined
    <3> QED
      BY <3>1 DEF x
  <2> HIDE DEF z, at, H, cd, co, D
  <2>4. z \o u.user \o at \o H = z \o v
    <3>1. Regroups(z, u.user, at, H)
      BY <1>1, <1>2, <2>1, Regrouped
    <3> QED
      BY <3>1 DEF Regroups
  <2>5. z \o v \o cd = z \o (v \o cd)
    <3> HIDE DEF v
    <3> QED
      BY <1>2, <2>1, <2>3, Associates
  <2>6. v \o cd = x \o (H \o cd)
    <3> HIDE DEF x
    <3>1. x \o H \o cd = x \o (H \o cd)
      <4>1. x \in Strings /\ H \in Strings /\ cd \in Strings
        BY <1>1, <1>2, <1>4
      <4> QED
        BY <4>1, Associates
    <3> QED
      BY <3>1 DEF x
  <2>7. H \o cd = t
    <3>1. H \o co \o D = H \o (co \o D)
      <4>1. H \in Strings /\ co \in Strings /\ D \in Strings
        BY <1>1, <1>2
      <4> QED
        BY <4>1, Associates
    <3> QED
      BY <1>2, <3>1
  <2>8. v \o cd = hp
    BY <2>6, <2>7
  <2> HIDE DEF v, hp
  <2>9. z \o u.user \o at \o H \o cd = z \o hp
    BY <2>4, <2>5, <2>8
  <2> QED
    BY <2>2, <2>9 DEF z
<1> HIDE DEF hp, t
<1>10. ParseUrl(P \o <<":", "/", "/">> \o hp \o u.path) = PartsOf(P, hp, u.path)
  BY <1>1, <1>5, WebUrlParses
<1> DEFINE h == ParseHostpart(hp)
<1>11. h.user = u.user /\ h.pass = << >> /\ h.host = H /\ h.port = u.port
  BY <1>6, <1>7, <1>8 DEF HostpartIn
<1>12. PartsOf(P, hp, u.path) = [proto |-> P, host |-> H, pass |-> << >>, path |-> u.path,
                                 user |-> u.user, port |-> u.port]
  <2>1. PartsOf(P, hp, u.path) =
          [proto |-> P, host |-> h.host, pass |-> h.pass, path |-> u.path,
           user |-> IF h.user = << >> /\ P = <<"ftp">> THEN <<"anonymous">> ELSE h.user,
           port |-> IF h.port = 0 THEN DefaultPort(P) ELSE h.port]
    BY DEF PartsOf
  <2> HIDE DEF h
  <2>2. (IF h.user = << >> /\ P = <<"ftp">> THEN <<"anonymous">> ELSE h.user) = u.user
    BY <1>11 DEF IsParsed
  <2>3. (IF h.port = 0 THEN DefaultPort(P) ELSE h.port) = u.port
    BY <1>1, <1>11
  <2> QED
    BY <1>11, <2>1, <2>2, <2>3
<1>13. [u EXCEPT !.pass = << >>] = [proto |-> P, host |-> H, pass |-> << >>, path |-> u.path,
                                    user |-> u.user, port |-> u.port]
  <2>1. u = [proto |-> u.proto, host |-> u.host, pass |-> u.pass, path |-> u.path,
             user |-> u.user, port |-> u.port]
    BY DEF IsParsed
  <2> QED
    BY <2>1
<1> QED
  BY <1>9, <1>10, <1>12, <1>13

(* BuildInverts: what build_url makes of a URL with the default port,      *)
(* without a password if it is a mail address, is parsed as that URL       *)
(* again, and what public_url makes of any but a mail address as that URL  *)
(* without its password (url.h:31-33, url.c:54-131).                       *)
THEOREM BuildingInverts == Spec => []BuildInverts
<1>1. Init => in \in Inputs
  BY DEF Init
<1>2. in \in Inputs /\ [Next]_vars => (in \in Inputs)'
  BY DEF Next, Text, Start, StrayEnd, End, AtToken, vars
<1>3. in \in Inputs => BuildInverts
  <2> SUFFICES ASSUME in \in Inputs, NEW u, u = ParseUrl(in.base), u # NotParsed
               PROVE  /\ /\ u.port = DefaultPort(u.proto)
                         /\ u.proto = <<"mailto">> => u.pass = << >>
                         => ParseUrl(BuildUrl(u)) = u
                      /\ u.proto # <<"mailto">> =>
                           ParseUrl(PublicUrl(in.base)) = [u EXCEPT !.pass = << >>]
    BY DEF BuildInverts
  <2>1. in.base \in Strings /\ UrlConstants
    BY LinksConstants, UrlConstants DEF LinksConstants
  <2>2. IsParsed(u)
    BY <2>1, ParsedIs
  <2> QED
    BY <2>1, <2>2, BuiltParses, PublicParses
<1> QED
  BY <1>1, <1>2, <1>3, PTL DEF Spec

-----------------------------------------------------------------------------
(* Folds: they are defined by recursion on the subsets of the positions *)

(* Induction up to a number, for what a set holds.                         *)
LEMMA UpTo ==
  ASSUME NEW n \in Nat, NEW S, 0 \in S, \A k \in 0 .. n - 1 : k \in S => k + 1 \in S
  PROVE  \A k \in 0 .. n : k \in S
<1> DEFINE B == {k \in 0 .. n : k \notin S}
<1> SUFFICES ASSUME B # {} PROVE FALSE
  OBVIOUS
<1>1. PICK d \in B : \A y \in B : ~(<<y, d>> \in OpToRel(<, Nat))
  <2>1. B \subseteq Nat
    OBVIOUS
  <2> HIDE DEF B
  <2> QED
    BY <2>1, NatLessThanWellFounded, WFMin
<1>2. d \in 0 .. n /\ d \notin S /\ d # 0
  OBVIOUS
<1> DEFINE y == d - 1
<1>3. y \in 0 .. n - 1 /\ y \in Nat /\ d \in Nat /\ y < d /\ y + 1 = d
  BY <1>2
<1> HIDE DEF y
<1>4. <<y, d>> \in OpToRel(<, Nat)
  BY <1>3 DEF OpToRel
<1>5. y \notin B
  BY <1>1, <1>4
<1>6. y \in S
  BY <1>3, <1>5
<1> QED
  BY <1>2, <1>3, <1>6

(* A function on the subsets of 1 .. m that folds op over the elements of  *)
(* s that they number, the last one at the end.                            *)
Folds(iter, op, base, s, m) ==
  iter = [S \in SUBSET (1 .. m) |->
            IF S = {} THEN base ELSE op[<<iter[S \ {Max(S)}], s[Max(S)]>>]]

LEMMA FoldExists ==
  ASSUME NEW V, NEW P, NEW op \in [V \X P -> V], NEW base \in V, NEW n \in Nat,
         NEW s, \A i \in 1 .. n : s[i] \in P
  PROVE  \E iter \in [SUBSET (1 .. n) -> V] : Folds(iter, op, base, s, n)
<1> DEFINE F == {m \in 0 .. n : \E iter \in [SUBSET (1 .. m) -> V] : Folds(iter, op, base, s, m)}
<1>1. 0 \in F
  <2> DEFINE iter == [S \in SUBSET (1 .. 0) |-> base]
  <2>1. \A S \in SUBSET (1 .. 0) : S = {}
    OBVIOUS
  <2>2. Folds(iter, op, base, s, 0)
    BY <2>1 DEF Folds
  <2>3. iter \in [SUBSET (1 .. 0) -> V]
    OBVIOUS
  <2> QED
    BY <2>2, <2>3
<1>2. ASSUME NEW m \in 0 .. n - 1, m \in F PROVE m + 1 \in F
  <2>1. PICK old \in [SUBSET (1 .. m) -> V] : Folds(old, op, base, s, m)
    BY <1>2
  <2> DEFINE T == SUBSET (1 .. m)
             U == SUBSET (1 .. m + 1)
             k == m + 1
             iter == [S \in U |-> IF k \in S THEN op[<<old[S \ {k}], s[k]>>] ELSE old[S]]
  <2>2. \A S \in U : (k \in S => S \ {k} \in T) /\ (k \notin S => S \in T)
    OBVIOUS
  <2>3. \A S \in U : k \in S => Max(S) = k
    <3> SUFFICES ASSUME NEW S \in U, k \in S PROVE Max(S) = k
      OBVIOUS
    <3>1. k \in Nat /\ S \in SUBSET (1 .. k) /\ S # {}
      OBVIOUS
    <3> HIDE DEF k, U
    <3>2. Max(S) \in S /\ Max(S) >= k
      BY <3>1, MaxIs
    <3>3. Max(S) \in 1 .. k
      BY <3>1, <3>2
    <3> QED
      BY <3>1, <3>2, <3>3
  <2>4. \A S \in T : S # {} => Max(S) \in S
    <3> SUFFICES ASSUME NEW S \in SUBSET (1 .. m), S # {} PROVE Max(S) \in S
      OBVIOUS
    <3>1. m \in Nat
      OBVIOUS
    <3> QED
      BY <3>1, MaxIs
  <2>5. T \subseteq U /\ \A S \in T : k \notin S
    OBVIOUS
  <2>6. s[k] \in P /\ k \in 0 .. n
    OBVIOUS
  <2> HIDE DEF T, U, k
  <2>7. \A S \in T : old[S] = IF S = {} THEN base ELSE op[<<old[S \ {Max(S)}], s[Max(S)]>>]
    BY <2>1 DEF Folds, T
  <2>8. iter \in [U -> V]
    <3>1. \A S \in T : old[S] \in V
      BY DEF T
    <3> QED
      BY <2>2, <2>6, <3>1
  <2>9. \A S \in T : iter[S] = old[S] /\ iter[S \ {Max(S)}] = old[S \ {Max(S)}]
    <3> SUFFICES ASSUME NEW S \in T PROVE iter[S] = old[S] /\ iter[S \ {Max(S)}] = old[S \ {Max(S)}]
      OBVIOUS
    <3>1. S \ {Max(S)} \in T
      BY DEF T
    <3> QED
      BY <2>5, <3>1
  <2>10. \A S \in U : iter[S] = IF S = {} THEN base ELSE op[<<iter[S \ {Max(S)}], s[Max(S)]>>]
    <3> SUFFICES ASSUME NEW S \in U
                 PROVE  iter[S] = IF S = {} THEN base ELSE op[<<iter[S \ {Max(S)}], s[Max(S)]>>]
      OBVIOUS
    <3>1. CASE k \in S
      <4>1. S \ {k} \in T /\ Max(S) = k /\ S # {}
        BY <2>2, <2>3, <3>1
      <4>2. iter[S] = op[<<old[S \ {k}], s[k]>>]
        BY <3>1
      <4>3. iter[S \ {k}] = old[S \ {k}]
        BY <2>9, <4>1
      <4> QED
        BY <4>1, <4>2, <4>3
    <3>2. CASE k \notin S
      BY <2>2, <2>7, <2>9, <3>2
    <3> QED
      BY <3>1, <3>2
  <2>11. Folds(iter, op, base, s, k)
    <3>1. iter = [S \in U |-> IF S = {} THEN base ELSE op[<<iter[S \ {Max(S)}], s[Max(S)]>>]]
      <4>1. iter = [S \in U |-> iter[S]]
        OBVIOUS
      <4> HIDE DEF iter
      <4> QED
        BY <2>10, <4>1
    <3> HIDE DEF iter
    <3> QED
      BY <3>1 DEF Folds, U, k
  <2>12. k \in 0 .. n /\ iter \in [SUBSET (1 .. k) -> V]
    BY <2>6, <2>8 DEF U, k
  <2> HIDE DEF iter
  <2> QED
    BY <2>11, <2>12 DEF k
<1>3. n \in F
  <2> HIDE DEF F
  <2> QED
    BY <1>1, <1>2, UpTo
<1> QED
  BY <1>3

(* The numbers up to k without the greatest are those up to k - 1.         *)
LEMMA Counted ==
  ASSUME NEW n \in Nat, NEW k \in 1 .. n
  PROVE  /\ 1 .. k \in SUBSET (1 .. n) /\ 1 .. k # {}
         /\ Max(1 .. k) = k /\ (1 .. k) \ {Max(1 .. k)} = 1 .. k - 1
<1> DEFINE S == 1 .. k
<1>1. k \in Nat /\ S \in SUBSET (1 .. k) /\ k \in S /\ S \in SUBSET (1 .. n) /\ S \ {k} = 1 .. k - 1
  OBVIOUS
<1>2. S # {}
  OBVIOUS
<1> HIDE DEF S
<1>3. Max(S) \in S /\ Max(S) >= k
  BY <1>1, <1>2, MaxIs
<1>4. Max(S) \in 1 .. k
  BY <1>1, <1>3
<1>5. Max(S) = k
  BY <1>3, <1>4
<1> QED
  BY <1>1, <1>2, <1>5 DEF S

-----------------------------------------------------------------------------
(* The pieces of a path *)

(* A character more leaves a list of pieces.                               *)
LEMMA CutIs ==
  ASSUME NEW ps \in Seq(Seq(Char)), NEW x \in Char
  PROVE  Cut(ps, x) \in Seq(Seq(Char))
<1> DEFINE P == Seq(Char)
<1>1. <<x>> \in P
  OBVIOUS
<1>2. \A q \in P : Append(q, x) \in P
  BY AppendProperties
<1> HIDE DEF P
<1>3. ps \in Seq(P)
  BY DEF P
<1>4. Append(ps, <<x>>) \in Seq(P)
  BY <1>1, <1>3, AppendProperties
<1>5. ps # << >> => [ps EXCEPT ![Len(ps)] = Append(@, x)] \in Seq(P)
  <2> SUFFICES ASSUME ps # << >> PROVE [ps EXCEPT ![Len(ps)] = Append(@, x)] \in Seq(P)
    OBVIOUS
  <2> DEFINE n == Len(ps)
             q == [ps EXCEPT ![n] = Append(@, x)]
  <2>1. n \in Nat /\ DOMAIN ps = 1 .. n /\ ps[n] \in P
    BY <1>3, ElementOfSeq, LenProperties, EmptySeq
  <2>2. Append(ps[n], x) \in P
    BY <1>2, <2>1
  <2>3. \A i \in 1 .. n : ps[i] \in P
    BY <1>3, ElementOfSeq
  <2> HIDE DEF n
  <2>4. q = [i \in 1 .. n |-> IF i = n THEN Append(ps[n], x) ELSE ps[i]]
    BY <2>1
  <2>5. \A i \in 1 .. n : (IF i = n THEN Append(ps[n], x) ELSE ps[i]) \in P
    BY <2>2, <2>3
  <2>6. q \in [1 .. n -> P]
    BY <2>4, <2>5
  <2>7. q \in Seq(P)
    BY <2>1, <2>6
  <2> QED
    BY <2>7 DEF n
<1> QED
  BY <1>4, <1>5 DEF Cut, P

(* The pieces of a string are a sequence.                                  *)
LEMMA PiecesAre == ASSUME NEW path \in Strings PROVE Pieces(path) \in Seq(Seq(Char))
<1> DEFINE n  == Len(path)
           V  == Seq(Seq(Char))
           Solves(iter) ==
             iter = [S \in SUBSET (1 .. n) |->
                       IF S = {} THEN << >> ELSE Cut(iter[S \ {Max(S)}], path[Max(S)])]
<1>1. n \in Nat /\ DOMAIN path = 1 .. n /\ \A i \in 1 .. n : path[i] \in Char
  BY ElementOfSeq, LenProperties DEF Strings, Char
<1> HIDE DEF n
<1>2. Pieces(path) = (CHOOSE iter : Solves(iter))[1 .. n]
  BY <1>1 DEF Pieces, FoldLeft, MapThenFoldSet
<1>3. \E iter : Solves(iter)
  <2> DEFINE op == [x \in V \X Char |-> Cut(x[1], x[2])]
  <2>1. op \in [V \X Char -> V]
    BY CutIs
  <2>2. \A ps \in V, x \in Char : op[<<ps, x>>] = Cut(ps, x)
    OBVIOUS
  <2>3. << >> \in V
    OBVIOUS
  <2> HIDE DEF op, V
  <2>4. PICK iter \in [SUBSET (1 .. n) -> V] : Folds(iter, op, << >>, path, n)
    <3>1. n \in Nat /\ \A i \in 1 .. n : path[i] \in Char
      BY <1>1
    <3> HIDE DEF Solves
    <3> QED
      BY <2>1, <2>3, <3>1, FoldExists
  <2>5. \A S \in SUBSET (1 .. n) :
          S # {} => op[<<iter[S \ {Max(S)}], path[Max(S)]>>] = Cut(iter[S \ {Max(S)}], path[Max(S)])
    <3> SUFFICES ASSUME NEW S \in SUBSET (1 .. n), S # {}
                 PROVE  op[<<iter[S \ {Max(S)}], path[Max(S)]>>]
                          = Cut(iter[S \ {Max(S)}], path[Max(S)])
      OBVIOUS
    <3>1. Max(S) \in 1 .. n
      <4>1. n \in Nat
        BY <1>1
      <4> QED
        BY <4>1, MaxIs
    <3>2. S \ {Max(S)} \in SUBSET (1 .. n)
      OBVIOUS
    <3> QED
      BY <1>1, <2>2, <3>1, <3>2
  <2>6. Solves(iter)
    BY <2>4, <2>5 DEF Folds
  <2> QED
    BY <2>6
<1>4. PICK iter : Solves(iter) /\ Pieces(path) = iter[1 .. n]
  <2> HIDE DEF Solves
  <2> QED
    BY <1>2, <1>3
<1>5. \A S \in SUBSET (1 .. n) :
        iter[S] = IF S = {} THEN << >> ELSE Cut(iter[S \ {Max(S)}], path[Max(S)])
  BY <1>4
<1> HIDE DEF V, Solves
<1> DEFINE Good == {k \in 0 .. n : iter[1 .. k] \in V}
<1>6. 0 \in Good
  <2>1. 1 .. 0 = {} /\ 0 \in 0 .. n
    BY <1>1
  <2>2. iter[{}] = << >>
    BY <1>5
  <2>3. iter[1 .. 0] = << >>
    BY <2>1, <2>2
  <2>4. << >> \in V
    BY DEF V
  <2> QED
    BY <2>1, <2>3, <2>4
<1>7. ASSUME NEW k \in 0 .. n - 1, k \in Good PROVE k + 1 \in Good
  <2> DEFINE S == 1 .. k + 1
  <2>1. k + 1 \in 1 .. n /\ k + 1 - 1 = k
    BY <1>1
  <2>2. S \in SUBSET (1 .. n) /\ S # {} /\ Max(S) = k + 1 /\ S \ {Max(S)} = 1 .. k
    BY <1>1, <2>1, Counted
  <2> HIDE DEF S
  <2>3. iter[S] = Cut(iter[1 .. k], path[k + 1])
    BY <1>5, <2>2
  <2>4. iter[S] \in V
    BY <1>1, <1>7, <2>1, <2>3, CutIs DEF V
  <2> QED
    BY <1>1, <2>1, <2>4 DEF S
<1>8. n \in Good
  <2>1. n \in Nat /\ n \in 0 .. n
    BY <1>1
  <2> HIDE DEF Good
  <2>2. \A k \in 0 .. n : k \in Good
    BY <1>6, <1>7, <2>1, UpTo
  <2> QED
    BY <2>1, <2>2
<1> QED
  BY <1>4, <1>8 DEF V

-----------------------------------------------------------------------------
(* The stack of cleanpath *)

(* A name leads one deeper, ".." one back.                                 *)
LEMMA DepthSteps ==
  ASSUME NEW ps, NEW k \in Nat
  PROVE  /\ Depth(ps, 0) = 0 /\ Depth(ps, k) \in Int
         /\ Depth(ps, k + 1) = Depth(ps, k) + (IF IsName(ps[k + 1]) THEN 1 ELSE -1)
<1> DEFINE N(i) == {j \in 1 .. i : IsName(ps[j])}
           U(i) == {j \in 1 .. i : ~IsName(ps[j])}
<1>1. \A i \in Nat : IsFiniteSet(N(i)) /\ IsFiniteSet(U(i))
  <2> SUFFICES ASSUME NEW i \in Nat PROVE IsFiniteSet(N(i)) /\ IsFiniteSet(U(i))
    OBVIOUS
  <2>1. IsFiniteSet(1 .. i)
    BY FS_Interval
  <2>2. N(i) \subseteq 1 .. i /\ U(i) \subseteq 1 .. i
    OBVIOUS
  <2> QED
    BY <2>1, <2>2, FS_Subset
<1>2. \A i \in Nat : Depth(ps, i) = Cardinality(N(i)) - Cardinality(U(i))
  BY DEF Depth
<1>3. N(0) = {} /\ U(0) = {}
  OBVIOUS
<1>4. IsName(ps[k + 1]) => N(k + 1) = N(k) \cup {k + 1} /\ U(k + 1) = U(k)
  OBVIOUS
<1>5. ~IsName(ps[k + 1]) => U(k + 1) = U(k) \cup {k + 1} /\ N(k + 1) = N(k)
  OBVIOUS
<1>6. k + 1 \notin N(k) /\ k + 1 \notin U(k)
  OBVIOUS
<1> HIDE DEF N, U
<1>7. Depth(ps, 0) = 0
  BY <1>2, <1>3, FS_EmptySet
<1>8. \A i \in Nat : Cardinality(N(i)) \in Nat /\ Cardinality(U(i)) \in Nat
  BY <1>1, FS_CardinalityType
<1>9. k + 1 \in Nat
  OBVIOUS
<1>10. CASE IsName(ps[k + 1])
  <2>1. Cardinality(N(k + 1)) = Cardinality(N(k)) + 1
    BY <1>1, <1>4, <1>6, <1>10, FS_AddElement
  <2> QED
    BY <1>2, <1>4, <1>7, <1>8, <1>9, <1>10, <2>1
<1>11. CASE ~IsName(ps[k + 1])
  <2>1. Cardinality(U(k + 1)) = Cardinality(U(k)) + 1
    BY <1>1, <1>5, <1>6, <1>11, FS_AddElement
  <2> QED
    BY <1>2, <1>5, <1>7, <1>8, <1>9, <1>11, <2>1
<1> QED
  BY <1>10, <1>11

(* The names at a depth behind the k-th piece.                             *)
NamesAt(ps, k, d) == {i \in 1 .. k : IsName(ps[i]) /\ Depth(ps, i) = d}

(* What the stack holds behind the k-th piece of a plain path: at each     *)
(* depth the last name of that depth.                                      *)
Holds(st, ps, k) ==
  /\ st.below = 0 /\ st.outside = FALSE /\ Len(st.stack) = Depth(ps, k)
  /\ \A d \in 1 .. Depth(ps, k) :
       NamesAt(ps, k, d) # {} /\ st.stack[d] = ps[Max(NamesAt(ps, k, d))]

Stacks == [stack : Seq(Seq(Char)), below : Nat, outside : BOOLEAN]

(* A piece more leaves a stack.                                            *)
LEMMA PutIs == ASSUME NEW st \in Stacks, NEW q \in Seq(Char) PROVE Put(st, q) \in Stacks
<1> DEFINE P == Seq(Char)
<1>1. st.stack \in Seq(P) /\ st.below \in Nat /\ st.outside \in BOOLEAN /\ q \in P
  BY DEF Stacks
<1> HIDE DEF P
<1>2. Append(st.stack, q) \in Seq(P)
  BY <1>1, AppendProperties
<1>3. st.stack # << >> => Front(st.stack) \in Seq(P)
  <2> SUFFICES ASSUME st.stack # << >> PROVE Front(st.stack) \in Seq(P)
    OBVIOUS
  <2> DEFINE n == Len(st.stack)
  <2>1. n \in Nat /\ n # 0
    BY <1>1, LenProperties, EmptySeq
  <2> HIDE DEF n
  <2>2. 1 \in 1 .. n + 1 /\ n - 1 \in 0 .. n
    BY <2>1
  <2>3. SubSeq(st.stack, 1, n - 1) \in Seq(P)
    BY <1>1, <2>2, SubSeqProperties DEF n
  <2> QED
    BY <2>3 DEF Front, n
<1>4. Stacks = [stack : Seq(P), below : Nat, outside : BOOLEAN]
  BY DEF Stacks, P
<1>5. st = [stack |-> st.stack, below |-> st.below, outside |-> st.outside]
  BY DEF Stacks
<1>6. CASE Name(q) = <<".">>
  <2>1. CASE st.stack = << >>
    <3>1. Put(st, q) = [st EXCEPT !.below = @ + 1]
      BY <1>6, <2>1 DEF Put
    <3> QED
      BY <3>1 DEF Stacks
  <2>2. CASE st.stack # << >>
    <3>1. Put(st, q) = [st EXCEPT !.stack = Front(@)]
      BY <1>6, <2>2 DEF Put
    <3> QED
      BY <1>3, <1>4, <2>2, <3>1
  <2> QED
    BY <2>1, <2>2
<1>7. CASE Name(q) # <<".">> /\ Name(q) = <<"..">>
  <2>1. Put(st, q) = IF st.stack = << >> THEN st ELSE [st EXCEPT !.stack = Front(@)]
    BY <1>7 DEF Put
  <2> QED
    BY <1>3, <1>4, <2>1
<1>8. CASE Name(q) # <<".">> /\ Name(q) # <<"..">>
  <2>1. CASE st.below > 0
    <3>1. Put(st, q) = [st EXCEPT !.below = @ - 1, !.outside = TRUE]
      BY <1>8, <2>1 DEF Put
    <3>2. st.below - 1 \in Nat /\ TRUE \in BOOLEAN
      BY <1>1, <2>1
    <3>3. Put(st, q) = [stack |-> st.stack, below |-> st.below - 1, outside |-> TRUE]
      BY <1>5, <3>1
    <3> QED
      BY <1>1, <1>4, <3>2, <3>3
  <2>2. CASE ~(st.below > 0)
    <3> DEFINE b == st.outside \/ ~Stored(st.stack, q)
    <3>1. Put(st, q) = [st EXCEPT !.stack = Append(@, q), !.outside = b]
      BY <1>8, <2>2 DEF Put
    <3>2. b \in BOOLEAN
      OBVIOUS
    <3> HIDE DEF b
    <3> QED
      BY <1>2, <1>4, <3>1, <3>2
  <2> QED
    BY <2>1, <2>2
<1> QED
  BY <1>6, <1>7, <1>8

(* A piece of a plain path keeps what the stack holds.                     *)
LEMMA PutHolds ==
  ASSUME NEW st \in Stacks, NEW ps, NEW k \in Nat, Holds(st, ps, k), Depth(ps, k) >= 0,
         Depth(ps, k + 1) \in 1 .. MaxPieces, MaxPieces \in Nat, Name(ps[k + 1]) # <<".">>,
         Range(ps[k + 1]) \cap LongWords = {}
  PROVE  Holds(Put(st, ps[k + 1]), ps, k + 1)
<1> DEFINE P == Seq(Char)
           s == st.stack
           q == ps[k + 1]
           n == Depth(ps, k)
           m == Depth(ps, k + 1)
<1>1. s \in Seq(P) /\ Len(s) = n /\ n \in Nat /\ m \in Nat /\ m > 0
  <2>1. Depth(ps, k) \in Int /\ Depth(ps, k + 1) \in Int
    BY DepthSteps
  <2> QED
    BY <2>1 DEF Stacks, Holds
<1>2. m = n + (IF IsName(q) THEN 1 ELSE -1)
  BY DepthSteps
<1>3. \A d : NamesAt(ps, k + 1, d) =
               NamesAt(ps, k, d) \cup (IF IsName(q) /\ m = d THEN {k + 1} ELSE {})
  BY DEF NamesAt
<1>4. \A d \in 1 .. n : NamesAt(ps, k, d) # {} /\ s[d] = ps[Max(NamesAt(ps, k, d))]
  BY DEF Holds
<1>5. st.below = 0 /\ st.outside = FALSE
  BY DEF Holds
<1>6. CASE IsName(q)
  <2>0. Stored(s, q)
    BY <1>1, <1>2, <1>6 DEF Stored
  <2>1. Put(st, q) = [st EXCEPT !.stack = Append(@, q), !.outside = FALSE]
    <3> DEFINE b == st.outside \/ ~Stored(st.stack, q)
    <3>1. Put(st, q) = [st EXCEPT !.stack = Append(@, q), !.outside = b]
      BY <1>5, <1>6 DEF Put, IsName
    <3>2. b = FALSE
      BY <1>5, <2>0
    <3> QED
      BY <3>1, <3>2
  <2>2. /\ Put(st, q).below = 0 /\ Put(st, q).outside = FALSE
        /\ Put(st, q).stack = Append(s, q)
    BY <1>5, <2>1 DEF Stacks
  <2>3. m = n + 1
    BY <1>1, <1>2, <1>6
  <2>4. /\ Len(Append(s, q)) = n + 1 /\ Append(s, q)[n + 1] = q
        /\ \A d \in 1 .. n : Append(s, q)[d] = s[d]
    <3>1. \E S : s \in Seq(S)
      BY <1>1
    <3> HIDE DEF s, q
    <3> QED
      BY <1>1, <3>1, Grows
  <2>5. ASSUME NEW d \in 1 .. m
        PROVE  NamesAt(ps, k + 1, d) # {} /\ Append(s, q)[d] = ps[Max(NamesAt(ps, k + 1, d))]
    <3>1. CASE d = m
      <4> DEFINE S == NamesAt(ps, k + 1, d)
                 j == k + 1
      <4>1. j \in S /\ j \in Nat /\ S \in SUBSET (1 .. j)
        BY <1>3, <1>6, <3>1 DEF NamesAt
      <4>2. Append(s, q)[d] = ps[j]
        BY <2>3, <2>4, <3>1
      <4> HIDE DEF S, j
      <4>3. Max(S) \in S /\ Max(S) >= j
        BY <4>1, MaxIs
      <4>4. Max(S) \in 1 .. j
        BY <4>1, <4>3
      <4>5. Max(S) = j
        BY <4>1, <4>3, <4>4
      <4> QED
        BY <4>1, <4>2, <4>5 DEF S
    <3>2. CASE d # m
      <4>1. d \in 1 .. n
        BY <1>1, <2>3, <3>2
      <4>2. NamesAt(ps, k + 1, d) = NamesAt(ps, k, d)
        BY <1>3, <3>2
      <4> QED
        BY <1>4, <2>4, <4>1, <4>2
    <3> QED
      BY <3>1, <3>2
  <2> HIDE DEF s, q, n
  <2> QED
    BY <2>2, <2>3, <2>4, <2>5 DEF Holds, q
<1>7. CASE ~IsName(q)
  <2>1. m = n - 1 /\ n # 0
    BY <1>1, <1>2, <1>7
  <2>2. s # << >>
    BY <1>1, <2>1, EmptySeq
  <2>3. Put(st, q) = [st EXCEPT !.stack = Front(@)]
    BY <1>7, <2>2 DEF Put, IsName
  <2>4. Put(st, q).below = 0 /\ Put(st, q).outside = FALSE /\ Put(st, q).stack = Front(s)
    BY <1>5, <2>3 DEF Stacks
  <2>5. Len(Front(s)) = m /\ \A d \in 1 .. m : Front(s)[d] = s[d]
    <3> HIDE DEF s, n, m, P
    <3>1. 1 \in 1 .. n + 1 /\ m \in 0 .. n /\ m - 1 + 1 = m /\ 1 <= m
      BY <1>1, <2>1
    <3>2. /\ Len(SubSeq(s, 1, m)) = IF 1 <= m THEN m - 1 + 1 ELSE 0
          /\ \A d \in 1 .. m - 1 + 1 : SubSeq(s, 1, m)[d] = s[1 + d - 1]
      BY <1>1, <3>1, SubSeqProperties
    <3>3. \A d \in 1 .. m : SubSeq(s, 1, m)[d] = s[d]
      BY <1>1, <3>1, <3>2
    <3>4. Front(s) = SubSeq(s, 1, m)
      BY <1>1, <2>1 DEF Front
    <3> QED
      BY <3>1, <3>2, <3>3, <3>4
  <2>6. ASSUME NEW d \in 1 .. m
        PROVE  NamesAt(ps, k + 1, d) # {} /\ Front(s)[d] = ps[Max(NamesAt(ps, k + 1, d))]
    <3>1. d \in 1 .. n
      BY <1>1, <2>1
    <3>2. NamesAt(ps, k + 1, d) = NamesAt(ps, k, d)
      BY <1>3, <1>7
    <3> QED
      BY <1>4, <2>5, <3>1, <3>2
  <2> HIDE DEF s, q, n
  <2> QED
    BY <2>4, <2>5, <2>6 DEF Holds, q
<1> QED
  BY <1>6, <1>7

(* What cleanpath makes of a plain path.                                   *)
LEMMA CleanpathIs ==
  ASSUME NEW path \in Strings, Plain(path)
  PROVE  ~Cleanpath(path).outside /\ Cleanpath(path).stack = Reduced(Pieces(path))
<1> DEFINE ps   == Pieces(path)
           P    == Seq(Char)
           n    == Len(ps)
           base == [stack |-> << >>, below |-> 0, outside |-> FALSE]
           Solves(iter) ==
             iter = [S \in SUBSET (1 .. n) |->
                       IF S = {} THEN base ELSE Put(iter[S \ {Max(S)}], ps[Max(S)])]
<1>1. n \in Nat /\ DOMAIN ps = 1 .. n /\ \A i \in 1 .. n : ps[i] \in P
  <2>1. ps \in Seq(P)
    BY PiecesAre
  <2> HIDE DEF ps, P
  <2> QED
    BY <2>1, ElementOfSeq, LenProperties
<1>2. \A i \in 1 .. n : /\ Name(ps[i]) # <<".">> /\ Range(ps[i]) \cap LongWords = {}
                       /\ Depth(ps, i) \in 1 .. MaxPieces
  BY DEF Plain
<1>3. Cleanpath(path) = (CHOOSE iter : Solves(iter))[1 .. n]
  BY <1>1 DEF Cleanpath, FoldLeft, MapThenFoldSet
<1>4. base \in Stacks /\ Holds(base, ps, 0)
  <2>1. Depth(ps, 0) = 0
    BY DepthSteps
  <2>2. << >> \in Seq(Seq(Char)) /\ Len(<< >>) = 0
    OBVIOUS
  <2> HIDE DEF ps
  <2> QED
    BY <2>1, <2>2 DEF Stacks, Holds
<1>5. Reduced(ps) = [d \in 1 .. Depth(ps, n) |-> ps[Max(NamesAt(ps, n, d))]]
  BY DEF Reduced, NamesAt
<1> HIDE DEF ps, n, P, base
<1>6. \E iter : Solves(iter)
  <2> DEFINE op == [x \in Stacks \X P |-> Put(x[1], x[2])]
  <2>1. op \in [Stacks \X P -> Stacks]
    BY PutIs DEF P
  <2>2. \A st \in Stacks, q \in P : op[<<st, q>>] = Put(st, q)
    OBVIOUS
  <2> HIDE DEF op
  <2>3. PICK iter \in [SUBSET (1 .. n) -> Stacks] : Folds(iter, op, base, ps, n)
    <3>1. n \in Nat /\ \A i \in 1 .. n : ps[i] \in P
      BY <1>1
    <3> HIDE DEF Solves
    <3> QED
      BY <1>4, <2>1, <3>1, FoldExists
  <2>4. \A S \in SUBSET (1 .. n) :
          S # {} => op[<<iter[S \ {Max(S)}], ps[Max(S)]>>] = Put(iter[S \ {Max(S)}], ps[Max(S)])
    <3> SUFFICES ASSUME NEW S \in SUBSET (1 .. n), S # {}
                 PROVE  op[<<iter[S \ {Max(S)}], ps[Max(S)]>>] = Put(iter[S \ {Max(S)}], ps[Max(S)])
      OBVIOUS
    <3>1. Max(S) \in 1 .. n
      <4>1. n \in Nat
        BY <1>1
      <4> QED
        BY <4>1, MaxIs
    <3>2. S \ {Max(S)} \in SUBSET (1 .. n)
      OBVIOUS
    <3> QED
      BY <1>1, <2>2, <3>1, <3>2
  <2>5. Solves(iter)
    BY <2>3, <2>4 DEF Folds
  <2> QED
    BY <2>5
<1>7. PICK iter : Solves(iter) /\ Cleanpath(path) = iter[1 .. n]
  <2> HIDE DEF Solves
  <2> QED
    BY <1>3, <1>6
<1>8. \A S \in SUBSET (1 .. n) :
        iter[S] = IF S = {} THEN base ELSE Put(iter[S \ {Max(S)}], ps[Max(S)])
  BY <1>7
<1> HIDE DEF Solves
<1> DEFINE Good == {k \in 0 .. n : iter[1 .. k] \in Stacks /\ Holds(iter[1 .. k], ps, k)}
<1>9. 0 \in Good
  <2>1. 1 .. 0 = {} /\ 0 \in 0 .. n
    BY <1>1
  <2>2. iter[{}] = base
    BY <1>8
  <2>3. iter[1 .. 0] = base
    BY <2>1, <2>2
  <2> QED
    BY <1>4, <2>1, <2>3
<1>10. ASSUME NEW k \in 0 .. n - 1, k \in Good PROVE k + 1 \in Good
  <2> DEFINE S  == 1 .. k + 1
             st == iter[1 .. k]
  <2>1. k \in Nat /\ k + 1 \in 1 .. n /\ k + 1 - 1 = k /\ k + 1 \in 0 .. n
    BY <1>1
  <2>2. S \in SUBSET (1 .. n) /\ S # {} /\ Max(S) = k + 1 /\ S \ {Max(S)} = 1 .. k
    BY <1>1, <2>1, Counted
  <2>3. st \in Stacks /\ Holds(st, ps, k)
    BY <1>10
  <2>4. Depth(ps, k) >= 0
    <3>1. CASE k = 0
      BY <3>1, DepthSteps
    <3>2. CASE k # 0
      <4>1. k \in 1 .. n
        BY <1>1, <3>2
      <4>2. Depth(ps, k) \in Int
        BY <2>1, DepthSteps
      <4> QED
        BY <1>2, <4>1, <4>2
    <3> QED
      BY <3>1, <3>2
  <2> HIDE DEF S, st
  <2>5. iter[S] = Put(st, ps[k + 1])
    BY <1>8, <2>2 DEF st
  <2>6. iter[S] \in Stacks
    <3>1. ps[k + 1] \in Seq(Char)
      BY <1>1, <2>1 DEF P
    <3> QED
      BY <2>3, <2>5, <3>1, PutIs
  <2>7. Holds(iter[S], ps, k + 1)
    <3>1. /\ Depth(ps, k + 1) \in 1 .. MaxPieces /\ Name(ps[k + 1]) # <<".">>
          /\ Range(ps[k + 1]) \cap LongWords = {} /\ MaxPieces \in Nat
      BY <1>2, <2>1, UrlConstants DEF UrlConstants
    <3> QED
      BY <2>1, <2>3, <2>4, <2>5, <3>1, PutHolds
  <2> QED
    BY <2>1, <2>6, <2>7 DEF S
<1>11. n \in Good
  <2>1. n \in Nat /\ n \in 0 .. n
    BY <1>1
  <2> HIDE DEF Good
  <2>2. \A k \in 0 .. n : k \in Good
    BY <1>9, <1>10, <2>1, UpTo
  <2> QED
    BY <2>1, <2>2
<1> DEFINE st == iter[1 .. n]
<1>12. st \in Stacks /\ Holds(st, ps, n)
  BY <1>11
<1> HIDE DEF st
<1>13. st.stack = Reduced(ps)
  <2>1. /\ st.stack \in Seq(Seq(Char)) /\ Len(st.stack) = Depth(ps, n)
        /\ \A d \in 1 .. Depth(ps, n) : st.stack[d] = ps[Max(NamesAt(ps, n, d))]
    BY <1>12 DEF Stacks, Holds
  <2>2. st.stack = [d \in 1 .. Len(st.stack) |-> st.stack[d]]
    BY <2>1
  <2> QED
    BY <1>5, <2>1, <2>2
<1> QED
  BY <1>7, <1>12, <1>13 DEF Holds, st, ps

(* The folder of a page, as dirname finds it, ends in a slash.             *)
LEMMA FolderIs ==
  ASSUME NEW s \in Strings, s # << >>, s[1] = "/"
  PROVE  Fnamecatslash(Dirname(s)) = Dirname(s) /\ Dirname(s) \in Strings
<1> DEFINE f == Final(s, "/")
           r == SubSeq(s, 1, f)
<1>1. f \in 0 .. Len(s) /\ Len(s) \in Nat /\ (f = 0 <=> Lacks(s, "/")) /\ (f # 0 => s[f] = "/")
  BY FinalIs
<1>2. f # 0
  <2>1. Len(s) # 0
    BY EmptySeq DEF Strings
  <2>2. 1 \in 1 .. Len(s)
    BY <1>1, <2>1
  <2>3. ~Lacks(s, "/")
    BY <2>2 DEF Lacks
  <2> QED
    BY <1>1, <2>3
<1>3. Dirname(s) = r
  BY DEF Dirname
<1> HIDE DEF f
<1>4. f \in Nat /\ 1 <= f /\ f \in 1 .. f
  BY <1>1, <1>2
<1>5. r \in Seq(Char) /\ Len(r) = f /\ r[f] = s[f]
  <2>1. s \in Seq(Char)
    BY DEF Strings, Char
  <2>2. 1 \in Int /\ f \in Int /\ \A j \in 1 .. f : s[j] \in Char
    BY <1>1, <2>1, ElementOfSeq
  <2>3. /\ r \in Seq(Char) /\ Len(r) = IF 1 <= f THEN f - 1 + 1 ELSE 0
        /\ \A j \in 1 .. f - 1 + 1 : r[j] = s[1 + j - 1]
    BY <2>2, SubSeqProperties
  <2>4. f - 1 + 1 = f /\ 1 + f - 1 = f
    BY <1>4
  <2> QED
    BY <1>4, <2>3, <2>4
<1> HIDE DEF r
<1>6. r # << >> /\ Last(r) = "/"
  BY <1>1, <1>2, <1>5, EmptySeq DEF Last
<1>7. Fnamecatslash(r) = r
  BY <1>6 DEF Fnamecatslash
<1>8. r \in Strings
  BY <1>5 DEF Strings, Char
<1> QED
  BY <1>3, <1>7, <1>8

(* Resolves: on a page with a path a relative link without "." that does   *)
(* not climb above the root and fits in the arrays leads, on the server of *)
(* the page, to the path whose name at each depth is the last one at that  *)
(* depth on the way (htmlls2.c:5-33, common.c:11-86).                      *)
THEOREM LinksAreResolved == Spec => []Resolves
<1>1. Init => in \in Inputs
  BY DEF Init
<1>2. in \in Inputs /\ [Next]_vars => (in \in Inputs)'
  BY DEF Next, Text, Start, StrayEnd, End, AtToken, vars
<1>3. in \in Inputs => Resolves
  <2> SUFFICES ASSUME in \in Inputs, NEW u, u = ParseUrl(in.base), u # NotParsed, u.path # << >>,
                      NEW i \in 1 .. Len(in.page), NEW link, link = Url(in.page[i]),
                      link # << >>, ~IsUrl(link), Plain(Absolute(u, link))
               PROVE  CombineUrl(in.base, link) =
                        BuildUrl([u EXCEPT !.path = FlattenSeq(Reduced(Pieces(Absolute(u, link))))])
    BY DEF Resolves
  <2>1. in.base \in Strings /\ link \in Strings /\ UrlConstants
    <3>1. in.page \in Seq(Range(in.page))
      BY LinkListConstants DEF LinkListConstants
    <3>2. i \in DOMAIN in.page
      BY <3>1, LenProperties
    <3> QED
      BY <3>2, LinksConstants, UrlConstants DEF LinksConstants
  <2>2. IsParsed(u)
    BY <2>1, ParsedIs
  <2> DEFINE path == IF link # << >> /\ link[1] = "/" THEN link ELSE Fnamecat(Dirname(u.path), link)
  <2>3. path = Absolute(u, link) /\ path \in Strings
    <3>1. CASE link[1] = "/"
      BY <2>1, <3>1 DEF Absolute
    <3>2. CASE link[1] # "/"
      <4>1. u.path \in Strings /\ u.path[1] = "/"
        BY <2>2 DEF IsParsed, Protos
      <4>2. Fnamecatslash(Dirname(u.path)) = Dirname(u.path) /\ Dirname(u.path) \in Strings
        BY <4>1, FolderIs
      <4>3. path = Dirname(u.path) \o link
        BY <3>2, <4>2 DEF Fnamecat
      <4>4. Dirname(u.path) \o link \in Strings
        BY <2>1, <4>2, Joined
      <4> QED
        BY <3>2, <4>3, <4>4 DEF Absolute
    <3> QED
      BY <3>1, <3>2
  <2>4. /\ ~Cleanpath(path).outside
        /\ Cleanpath(path).stack = Reduced(Pieces(Absolute(u, link)))
    BY <2>3, CleanpathIs
  <2>5. CombineUrl(in.base, link) =
          IF Cleanpath(path).outside THEN Undefined
          ELSE BuildUrl([u EXCEPT !.path = FlattenSeq(Cleanpath(path).stack)])
    <3>1. ParseUrl(link) = NotParsed
      BY DEF IsUrl
    <3> QED
      BY <3>1 DEF CombineUrl
  <2> HIDE DEF path
  <2> QED
    BY <2>4, <2>5
<1> QED
  BY <1>1, <1>2, <1>3, PTL DEF Spec

=============================================================================
