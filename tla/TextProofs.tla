---------------------------- MODULE TextProofs ----------------------------
(***************************************************************************)
(* replace_all, split_quoted and emplace, for all texts.  replace_all: its *)
(* position stays inside the subject, every turn leaves less to search     *)
(* through, and what it returns is the original with each of its           *)
(* occurrences replaced once.  split_quoted: it takes apart again what a   *)
(* peer wrote, and so do the functions of Strings that are given its       *)
(* result.  emplace: every place holds its text in the end.                *)
(*                                                                         *)
(* RestReplaced says by recursion what is left to replace, the writing of  *)
(* a list is a fold, and emplace reads a text by recursion, so many lemmas *)
(* are about these.                                                        *)
(***************************************************************************)
EXTENDS Replacing, SplitQuoted, Emplace, Induction, SequenceTheorems, TLAPS

(***************************************************************************)
(* replace_all: the position.                                              *)
(***************************************************************************)
(* The position never leaves the subject, which changes its length.        *)
Inside ==
    /\ subject \in Seq(Char) /\ search \in Seq(Char) /\ replace \in Seq(Char)
    /\ replacedTo \in 0..Len(subject)

(* Three texts written one behind the other. *)
LEMMA ThreeTexts ==
    ASSUME NEW a \in Seq(Char), NEW b \in Seq(Char), NEW c \in Seq(Char)
    PROVE  a \o b \o c \in Seq(Char) /\ Len(a \o b \o c) = Len(a) + Len(b) + Len(c)
  OBVIOUS

LEMMA Regroup ==
    ASSUME NEW a \in Seq(Char), NEW b \in Seq(Char), NEW c \in Seq(Char)
    PROVE  (a \o b) \o c = a \o (b \o c)
  BY ConcatAssociative

(* Replacing at p keeps the p characters before, and the rest behind what  *)
(* was found.                                                              *)
LEMMA ReplacedLength ==
    ASSUME NEW s \in Seq(Char), NEW sub \in Seq(Char), NEW r \in Seq(Char),
           NEW p \in Nat, p + Len(sub) <= Len(s)
    PROVE  /\ Replaced(s, sub, p, r) \in Seq(Char)
           /\ Len(Replaced(s, sub, p, r)) = Len(s) - Len(sub) + Len(r)
  <1> DEFINE front == SubSeq(s, 1, p)
             back == SubSeq(s, p + Len(sub) + 1, Len(s))
  <1>1. Len(s) \in Nat /\ Len(sub) \in Nat /\ Len(r) \in Nat
    OBVIOUS
  <1>2. front \in Seq(Char) /\ Len(front) = p
    BY <1>1
  <1>3. back \in Seq(Char) /\ Len(back) = Len(s) - p - Len(sub)
    BY <1>1
  <1>4. Replaced(s, sub, p, r) = front \o r \o back
    BY Zenon DEF Replaced
  <1> HIDE DEF front, back
  <1>5. /\ front \o r \o back \in Seq(Char)
        /\ Len(front \o r \o back) = Len(front) + Len(r) + Len(back)
    BY <1>2, <1>3, ThreeTexts, Zenon
  <1>6. QED BY <1>1, <1>2, <1>3, <1>4, <1>5

(* One turn: what is left to search is at most what was, less the string   *)
(* that was found.                                                         *)
LEMMA TurnInside ==
    ASSUME Inside, ReplaceOne
    PROVE  /\ Inside'
           /\ Len(subject') - replacedTo' <= Len(subject) - replacedTo - Len(search)
  <1>1. PICK p \in Found(subject, search, replacedTo) :
            /\ subject' = Replaced(subject, search, p, replace)
            /\ replacedTo' = p + Len(replace)
            /\ search' = search /\ replace' = replace
    BY DEF ReplaceOne, GoOnBehind
  <1>2. /\ Len(subject) \in Nat /\ Len(search) \in Nat /\ Len(replace) \in Nat
        /\ replacedTo \in Nat
    BY DEF Inside
  <1>3. p \in Nat /\ replacedTo <= p /\ p + Len(search) <= Len(subject)
    BY <1>1, <1>2 DEF Found, StartsBehind
  <1>4. /\ subject' \in Seq(Char)
        /\ Len(subject') = Len(subject) - Len(search) + Len(replace)
    BY <1>1, <1>3, ReplacedLength DEF Inside
  <1>5. replacedTo' \in 0..Len(subject')
    BY <1>1, <1>2, <1>3, <1>4
  <1>6. Inside'
    BY <1>1, <1>4, <1>5 DEF Inside
  <1>7. QED BY <1>1, <1>2, <1>3, <1>4, <1>6

LEMMA InitInside == ReplacingInit => Inside
  BY DEF ReplacingInit, Inside

LEMMA NextInside ==
    ASSUME Inside, [ReplacingNext]_replacingVars
    PROVE  Inside'
  <1>1. CASE CallReplaceAll
    <2>1. subject' \in Seq(Char) /\ search' \in Seq(Char) /\ replace' \in Seq(Char)
      BY <1>1, ReplacingAssumption DEF CallReplaceAll
    <2>2. replacedTo' = 0 BY <1>1 DEF CallReplaceAll
    <2>3. QED BY <2>1, <2>2 DEF Inside
  <1>2. CASE ReplaceOne
    BY <1>2, TurnInside
  <1>3. CASE AllReplaced
    BY <1>3 DEF AllReplaced, Inside
  <1>4. CASE UNCHANGED replacingVars
    BY <1>4 DEF replacingVars, Inside
  <1>5. QED BY <1>1, <1>2, <1>3, <1>4 DEF ReplacingNext

(* replace_all never searches from behind the end of its subject.          *)
THEOREM PositionInside == ReplacingSpec => []Inside
  BY InitInside, NextInside, PTL DEF ReplacingSpec

(* The loop of replace_all makes progress in every turn, whatever is       *)
(* searched for but the empty string, and whatever is put in its place:    *)
(* its next search has less of the subject before it.                      *)
THEOREM Progress == ReplacingSpec => LessToSearch
  <1> DEFINE Step == (replacing /\ replacing' /\ search # <<>>) =>
                         Len(subject') - replacedTo' < Len(subject) - replacedTo
  <1>1. ASSUME Inside, ReplacingNext PROVE Step
    <2>1. CASE CallReplaceAll BY <2>1 DEF CallReplaceAll
    <2>2. CASE AllReplaced BY <2>2 DEF AllReplaced
    <2>3. CASE ReplaceOne
      <3>1. Len(subject') - replacedTo' <= Len(subject) - replacedTo - Len(search)
        BY <1>1, <2>3, TurnInside
      <3>2. /\ Len(subject) \in Nat /\ Len(search) \in Nat /\ replacedTo \in Nat
            /\ Len(subject') \in Nat /\ replacedTo' \in Nat
        BY <1>1, <2>3, TurnInside DEF Inside
      <3>3. search # <<>> => Len(search) > 0
        BY <1>1 DEF Inside
      <3>4. QED BY <3>1, <3>2, <3>3
    <2>4. QED BY <1>1, <2>1, <2>2, <2>3 DEF ReplacingNext
  <1>2. Inside /\ [ReplacingNext]_replacingVars => [Step]_replacingVars
    BY <1>1
  <1>3. QED BY <1>2, PositionInside, PTL DEF LessToSearch, ReplacingSpec

(***************************************************************************)
(* The text with every occurrence replaced, RestReplaced: that its         *)
(* recursion defines a function, and what this function is.                *)
(***************************************************************************)
(* A search string that is found takes at least one character.             *)
LEMMA SearchFits ==
    ASSUME NEW s \in Seq(Char), NEW sub \in Seq(Char), sub # <<>>,
           NEW p \in 0..Len(s), StartsBehind(s, sub, p)
    PROVE  p < Len(s) /\ p + Len(sub) \in (p + 1)..Len(s)
  BY DEF StartsBehind

(* One turn of the recursion, with f for the rest of the text.             *)
RestFrom(f, s, sub, r, p) ==
    IF p = Len(s) THEN <<>>
    ELSE IF StartsBehind(s, sub, p) THEN r \o f[p + Len(sub)]
    ELSE <<s[p + 1]>> \o f[p + 1]

(* f and g are the same texts behind p characters of s. *)
SameBehind(f, g, s, p) == \A q \in (p + 1)..Len(s) : f[q] = g[q] /\ f[q] \in Seq(Char)

(* A turn needs nothing of f but what lies behind p.                       *)
LEMMA RestFromRest ==
    ASSUME NEW s \in Seq(Char), NEW sub \in Seq(Char), NEW r \in Seq(Char), sub # <<>>,
           NEW p \in 0..Len(s), NEW f, NEW g,
           SameBehind(f, g, s, p)
    PROVE  /\ RestFrom(f, s, sub, r, p) = RestFrom(g, s, sub, r, p)
           /\ RestFrom(f, s, sub, r, p) \in Seq(Char)
  <1>1. CASE p = Len(s)
    BY <1>1 DEF RestFrom
  <1>2. CASE p # Len(s) /\ StartsBehind(s, sub, p)
    <2>1. p + Len(sub) \in (p + 1)..Len(s)
      BY <1>2, SearchFits
    <2>2. /\ f[p + Len(sub)] = g[p + Len(sub)]
          /\ f[p + Len(sub)] \in Seq(Char)
      BY <2>1 DEF SameBehind
    <2>3. r \o f[p + Len(sub)] \in Seq(Char)
      BY <2>2, ConcatProperties, Zenon
    <2> QED
      BY <1>2, <2>2, <2>3, Zenon DEF RestFrom
  <1>3. CASE p # Len(s) /\ ~StartsBehind(s, sub, p)
    <2>1. p + 1 \in (p + 1)..Len(s) /\ s[p + 1] \in Char
      BY <1>3
    <2>2. f[p + 1] = g[p + 1] /\ f[p + 1] \in Seq(Char) /\ <<s[p + 1]>> \in Seq(Char)
      BY <2>1 DEF SameBehind
    <2>3. <<s[p + 1]>> \o f[p + 1] \in Seq(Char)
      BY <2>2, ConcatProperties, Zenon
    <2> QED
      BY <1>3, <2>2, <2>3, Zenon DEF RestFrom
  <1> QED
    BY <1>1, <1>2, <1>3

(* The rest of the text exists, from its end on.                           *)
LEMMA RestExists ==
    ASSUME NEW s \in Seq(Char), NEW sub \in Seq(Char), NEW r \in Seq(Char), sub # <<>>
    PROVE  \E f \in [0..Len(s) -> Seq(Char)] :
               \A p \in 0..Len(s) : f[p] = RestFrom(f, s, sub, r, p)
  <1> DEFINE N == Len(s)
             Good(f, n) == \A p \in 0..N : N - p <= n => f[p] = RestFrom(f, s, sub, r, p)
             S == {n \in Nat : \E f \in [0..N -> Seq(Char)] : Good(f, n)}
  <1>1. N \in Nat
    OBVIOUS
  <1> HIDE DEF N
  <1>2. ASSUME NEW n \in Nat, \A m \in Nat : m < n => m \in S
        PROVE  n \in S
    <2>1. CASE n = 0
      <3> DEFINE f == [p \in 0..N |-> <<>>]
      <3>1. f \in [0..N -> Seq(Char)]
        OBVIOUS
      <3>2. ASSUME NEW p \in 0..N, N - p <= n
            PROVE  f[p] = RestFrom(f, s, sub, r, p)
        <4>1. p = N BY <1>1, <2>1, <3>2
        <4> QED BY <4>1 DEF RestFrom, N
      <3>3. Good(f, n)
        BY <3>2
      <3> QED
        BY <3>1, <3>3
    <2>2. CASE n # 0 /\ n > N
      <3>1. PICK f \in [0..N -> Seq(Char)] : Good(f, n - 1)
        BY <1>2, <2>2
      <3>2. Good(f, n)
        BY <1>1, <2>2, <3>1
      <3> QED
        BY <3>1, <3>2
    <2>3. CASE n # 0 /\ n <= N
      <3>1. PICK f \in [0..N -> Seq(Char)] : Good(f, n - 1)
        BY <1>2, <2>3
      <3> DEFINE q == N - n
      <3>2. q \in 0..N /\ q \in Int
        BY <1>1, <2>3
      <3>3. RestFrom(f, s, sub, r, q) \in Seq(Char)
        <4>1. SameBehind(f, f, s, q)
          <5>1. \A k \in (q + 1)..N : f[k] \in Seq(Char)
            BY <1>1, <3>2
          <5> HIDE DEF q
          <5> QED BY <5>1, Zenon DEF SameBehind, N
        <4> HIDE DEF q
        <4> QED BY <3>2, <4>1, RestFromRest DEF N
      <3>4. PICK g \in [0..N -> Seq(Char)] :
                \A k \in 0..N : g[k] = IF k = q THEN RestFrom(f, s, sub, r, q) ELSE f[k]
        <4> DEFINE new == [f EXCEPT ![q] = RestFrom(f, s, sub, r, q)]
        <4>1. new \in [0..N -> Seq(Char)]
          BY <3>2, <3>3
        <4>2. \A k \in 0..N : new[k] = IF k = q THEN RestFrom(f, s, sub, r, q) ELSE f[k]
          BY <3>2
        <4> QED BY <4>1, <4>2
      <3>5. q \in Int /\ \A k \in 0..N : k # q => g[k] = f[k]
        BY <3>2, <3>4
      <3>6. ASSUME NEW p \in 0..N, N - p <= n
            PROVE  g[p] = RestFrom(g, s, sub, r, p)
        <4>1. p >= q
          BY <1>1, <3>6
        <4>2. SameBehind(f, g, s, p)
          BY <1>1, <3>1, <3>2, <3>5, <4>1 DEF SameBehind, N
        <4>3. RestFrom(f, s, sub, r, p) = RestFrom(g, s, sub, r, p)
          <5> HIDE DEF q
          <5> QED BY <4>2, RestFromRest DEF N
        <4>4. CASE p = q
          BY <3>4, <4>3, <4>4
        <4>5. CASE p # q
          <5>1. N - p <= n - 1
            BY <1>1, <4>1, <4>5
          <5>2. f[p] = RestFrom(f, s, sub, r, p)
            BY <3>1, <5>1
          <5> QED BY <3>5, <4>3, <4>5, <5>2
        <4> QED BY <4>4, <4>5
      <3>7. Good(g, n)
        BY <3>6
      <3> QED
        BY <3>4, <3>7
    <2>4. n = 0 \/ (n # 0 /\ n > N) \/ (n # 0 /\ n <= N)
      BY <1>1
    <2> QED
      BY <2>1, <2>2, <2>3, <2>4, Zenon
  <1>3. Nat \subseteq S
    <2> HIDE DEF S
    <2> QED BY <1>2, BelowInduction
  <1>4. PICK f \in [0..N -> Seq(Char)] : Good(f, N)
    BY <1>1, <1>3
  <1>5. \A p \in 0..N : f[p] = RestFrom(f, s, sub, r, p)
    BY <1>1, <1>4
  <1> QED
    BY <1>4, <1>5 DEF N

LEMMA RestIsReplaced ==
    ASSUME NEW s \in Seq(Char), NEW sub \in Seq(Char), NEW r \in Seq(Char), sub # <<>>
    PROVE  /\ RestReplaced(s, sub, r) \in [0..Len(s) -> Seq(Char)]
           /\ \A p \in 0..Len(s) :
                  RestReplaced(s, sub, r)[p] = RestFrom(RestReplaced(s, sub, r), s, sub, r, p)
  <1> DEFINE Turns(g) == [p \in 0..Len(s) |-> RestFrom(g, s, sub, r, p)]
  <1>1. RestReplaced(s, sub, r) = CHOOSE g : g = Turns(g)
    BY DEF RestReplaced, RestFrom
  <1>2. PICK f \in [0..Len(s) -> Seq(Char)] :
            \A p \in 0..Len(s) : f[p] = RestFrom(f, s, sub, r, p)
    BY RestExists, Zenon
  <1>3. f = Turns(f)
    BY <1>2
  <1>4. RestReplaced(s, sub, r) = Turns(RestReplaced(s, sub, r))
    <2> HIDE DEF Turns
    <2> QED BY <1>1, <1>3, Zenon
  <1> DEFINE g == RestReplaced(s, sub, r)
  <1>5. \A p \in 0..Len(s) : g[p] = RestFrom(g, s, sub, r, p)
    BY <1>4
  <1>6. g = [p \in 0..Len(s) |-> g[p]]
    BY <1>4
  <1> DEFINE S == {n \in Nat : \A p \in 0..Len(s) : Len(s) - p = n => g[p] \in Seq(Char)}
  <1> HIDE DEF g, Turns
  <1>7. ASSUME NEW n \in Nat, \A m \in Nat : m < n => m \in S
        PROVE  n \in S
    <2> SUFFICES ASSUME NEW p \in 0..Len(s), Len(s) - p = n
                 PROVE  g[p] \in Seq(Char)
      OBVIOUS
    <2>1. SameBehind(g, g, s, p)
      <3> SUFFICES ASSUME NEW q \in (p + 1)..Len(s) PROVE g[q] \in Seq(Char)
        BY DEF SameBehind
      <3>1. q \in 0..Len(s) /\ Len(s) - q \in Nat /\ Len(s) - q < n
        OBVIOUS
      <3>2. Len(s) - q \in S
        BY <1>7, <3>1
      <3> QED BY <3>1, <3>2
    <2>2. RestFrom(g, s, sub, r, p) \in Seq(Char)
      BY <2>1, RestFromRest, Zenon
    <2> QED
      BY <1>5, <2>2
  <1>8. Nat \subseteq S
    <2> HIDE DEF S
    <2> QED BY <1>7, BelowInduction
  <1>9. ASSUME NEW p \in 0..Len(s) PROVE g[p] \in Seq(Char)
    <2>1. Len(s) - p \in Nat
      OBVIOUS
    <2> QED BY <1>8, <2>1
  <1>10. g \in [0..Len(s) -> Seq(Char)]
    BY <1>6, <1>9
  <1> QED
    BY <1>5, <1>10 DEF g

(***************************************************************************)
(* What is replaced of a text depends on its rest only.                    *)
(***************************************************************************)
(* Behind i characters of s comes the same as behind j characters of t.    *)
SameFrom(s, i, t, j) ==
    /\ Len(s) - i = Len(t) - j
    /\ \A k \in 1..(Len(s) - i) : s[i + k] = t[j + k]

LEMMA SameFromLater ==
    ASSUME NEW s \in Seq(Char), NEW t \in Seq(Char), NEW i \in 0..Len(s), NEW j \in 0..Len(t),
           SameFrom(s, i, t, j), NEW n \in 0..(Len(s) - i)
    PROVE  /\ i + n \in 0..Len(s) /\ j + n \in 0..Len(t)
           /\ SameFrom(s, i + n, t, j + n)
  <1>1. /\ Len(s) \in Nat /\ Len(t) \in Nat /\ i \in Nat /\ j \in Nat /\ n \in Nat
        /\ Len(s) - i = Len(t) - j /\ n <= Len(s) - i
    BY DEF SameFrom
  <1>2. i + n \in 0..Len(s) /\ j + n \in 0..Len(t) /\ Len(s) - (i + n) = Len(t) - (j + n)
    BY <1>1
  <1>3. ASSUME NEW k \in 1..(Len(s) - (i + n))
        PROVE  s[(i + n) + k] = t[(j + n) + k]
    <2>1. n + k \in 1..(Len(s) - i) /\ (i + n) + k = i + (n + k) /\ (j + n) + k = j + (n + k)
      BY <1>1
    <2> QED BY <2>1 DEF SameFrom
  <1> QED BY <1>2, <1>3 DEF SameFrom

LEMMA SameFound ==
    ASSUME NEW s \in Seq(Char), NEW t \in Seq(Char), NEW i \in 0..Len(s), NEW j \in 0..Len(t),
           SameFrom(s, i, t, j), NEW sub \in Seq(Char)
    PROVE  StartsBehind(s, sub, i) <=> StartsBehind(t, sub, j)
  <1>1. /\ Len(s) \in Nat /\ Len(t) \in Nat /\ i \in Nat /\ j \in Nat /\ Len(sub) \in Nat
        /\ Len(s) - i = Len(t) - j
    BY DEF SameFrom
  <1>2. CASE i + Len(sub) <= Len(s)
    <2> DEFINE u == SubSeq(s, i + 1, i + Len(sub))
               v == SubSeq(t, j + 1, j + Len(sub))
    <2>1. j + Len(sub) <= Len(t)
      BY <1>1, <1>2
    <2>2. /\ u \in Seq(Char) /\ Len(u) = Len(sub)
          /\ \A k \in 1..Len(sub) : u[k] = s[i + k]
      BY <1>1, <1>2
    <2>3. /\ v \in Seq(Char) /\ Len(v) = Len(sub)
          /\ \A k \in 1..Len(sub) : v[k] = t[j + k]
      BY <1>1, <2>1
    <2>4. \A k \in 1..Len(sub) : s[i + k] = t[j + k]
      BY <1>1, <1>2 DEF SameFrom
    <2>5. u = v
      <3> HIDE DEF u, v
      <3> QED BY <2>2, <2>3, <2>4, SeqEqual
    <2> QED
      BY <1>2, <2>1, <2>5, Zenon DEF StartsBehind
  <1>3. CASE ~(i + Len(sub) <= Len(s))
    <2>1. ~(j + Len(sub) <= Len(t))
      BY <1>1, <1>3
    <2> QED
      BY <1>3, <2>1 DEF StartsBehind
  <1> QED BY <1>2, <1>3

LEMMA SameRest ==
    ASSUME NEW s \in Seq(Char), NEW t \in Seq(Char), NEW sub \in Seq(Char), NEW r \in Seq(Char),
           sub # <<>>, NEW a \in 0..Len(s), NEW b \in 0..Len(t), SameFrom(s, a, t, b)
    PROVE  RestReplaced(s, sub, r)[a] = RestReplaced(t, sub, r)[b]
  <1> DEFINE f == RestReplaced(s, sub, r)
             g == RestReplaced(t, sub, r)
             S == {n \in Nat : \A i \in 0..Len(s), j \in 0..Len(t) :
                       Len(s) - i = n /\ SameFrom(s, i, t, j) => f[i] = g[j]}
  <1>1. /\ \A p \in 0..Len(s) : f[p] = RestFrom(f, s, sub, r, p)
        /\ \A p \in 0..Len(t) : g[p] = RestFrom(g, t, sub, r, p)
    BY RestIsReplaced, Zenon
  <1> HIDE DEF f, g
  <1>2. Len(s) \in Nat /\ Len(t) \in Nat /\ Len(sub) \in Nat /\ Len(sub) > 0
    OBVIOUS
  <1>3. ASSUME NEW n \in Nat, \A m \in Nat : m < n => m \in S
        PROVE  n \in S
    <2> SUFFICES ASSUME NEW i \in 0..Len(s), NEW j \in 0..Len(t),
                        Len(s) - i = n, SameFrom(s, i, t, j)
                 PROVE  f[i] = g[j]
      OBVIOUS
    <2>1. Len(t) - j = n
      BY DEF SameFrom
    <2>2. ASSUME NEW k \in 1..n
          PROVE  f[i + k] = g[j + k]
      <3>1. k \in 0..(Len(s) - i) /\ Len(s) - (i + k) \in Nat /\ Len(s) - (i + k) < n
        BY <1>2
      <3>2. i + k \in 0..Len(s) /\ j + k \in 0..Len(t) /\ SameFrom(s, i + k, t, j + k)
        BY <3>1, SameFromLater
      <3>3. Len(s) - (i + k) \in S
        BY <1>3, <3>1
      <3> QED BY <3>2, <3>3
    <2>3. StartsBehind(s, sub, i) <=> StartsBehind(t, sub, j)
      BY SameFound
    <2>4. CASE n = 0
      <3>1. i = Len(s) /\ j = Len(t)
        BY <1>2, <2>1, <2>4
      <3> QED BY <1>1, <3>1 DEF RestFrom
    <2>5. CASE n # 0 /\ StartsBehind(s, sub, i)
      <3>1. i # Len(s) /\ j # Len(t)
        BY <1>2, <2>1, <2>5
      <3>2. Len(sub) \in 1..n
        BY <1>2, <2>5 DEF StartsBehind
      <3>3. f[i + Len(sub)] = g[j + Len(sub)]
        BY <2>2, <3>2
      <3>4. f[i] = r \o f[i + Len(sub)]
        BY <1>1, <2>5, <3>1, Zenon DEF RestFrom
      <3>5. g[j] = r \o g[j + Len(sub)]
        BY <1>1, <2>3, <2>5, <3>1, Zenon DEF RestFrom
      <3> QED BY <3>3, <3>4, <3>5, Zenon
    <2>6. CASE n # 0 /\ ~StartsBehind(s, sub, i)
      <3>1. i # Len(s) /\ j # Len(t)
        BY <1>2, <2>1, <2>6
      <3>2. 1 \in 1..n /\ 1 \in 1..(Len(s) - i)
        BY <2>6
      <3>3. f[i + 1] = g[j + 1] /\ s[i + 1] = t[j + 1]
        BY <2>2, <3>2 DEF SameFrom
      <3>4. f[i] = <<s[i + 1]>> \o f[i + 1]
        BY <1>1, <2>6, <3>1, Zenon DEF RestFrom
      <3>5. g[j] = <<t[j + 1]>> \o g[j + 1]
        BY <1>1, <2>3, <2>6, <3>1, Zenon DEF RestFrom
      <3> QED BY <3>3, <3>4, <3>5, Zenon
    <2> QED BY <2>4, <2>5, <2>6, Zenon
  <1>4. Nat \subseteq S
    <2> HIDE DEF S
    <2> QED BY <1>3, BelowInduction
  <1>5. Len(s) - a \in S
    <2>1. Len(s) - a \in Nat
      BY <1>2
    <2> HIDE DEF S
    <2> QED BY <1>4, <2>1
  <1>6. f[a] = g[b]
    BY <1>5
  <1> QED BY <1>6, Zenon DEF f, g

(* A text in which nothing is found up to p keeps what it has before p.    *)
LEMMA NoneFound ==
    ASSUME NEW s \in Seq(Char), NEW sub \in Seq(Char), NEW r \in Seq(Char), sub # <<>>,
           NEW i \in 0..Len(s), NEW p \in i..Len(s),
           \A q \in i..(p - 1) : ~StartsBehind(s, sub, q)
    PROVE  RestReplaced(s, sub, r)[i] = SubSeq(s, i + 1, p) \o RestReplaced(s, sub, r)[p]
  <1> DEFINE f == RestReplaced(s, sub, r)
             S == {n \in Nat : n <= p - i => f[p - n] = SubSeq(s, (p - n) + 1, p) \o f[p]}
  <1>1. /\ f \in [0..Len(s) -> Seq(Char)]
        /\ \A q \in 0..Len(s) : f[q] = RestFrom(f, s, sub, r, q)
    BY RestIsReplaced, Zenon
  <1> HIDE DEF f
  <1>2. Len(s) \in Nat /\ i \in Nat /\ p \in Nat /\ i <= p /\ p <= Len(s)
    OBVIOUS
  <1>3. f[p] \in Seq(Char)
    <2>1. p \in 0..Len(s)
      BY <1>2
    <2> QED BY <1>1, <2>1, Zenon
  <1>4. ASSUME NEW n \in Nat, \A m \in Nat : m < n => m \in S
        PROVE  n \in S
    <2> SUFFICES ASSUME n <= p - i
                 PROVE  f[p - n] = SubSeq(s, (p - n) + 1, p) \o f[p]
      OBVIOUS
    <2>1. CASE n = 0
      <3>1. p - n = p /\ (p - n) + 1 \in Int /\ p \in Int /\ p < (p - n) + 1
        BY <1>2, <2>1
      <3>2. SubSeq(s, (p - n) + 1, p) = <<>>
        BY <3>1, SubSeqEmpty
      <3> QED BY <1>3, <3>1, <3>2, ConcatEmptySeq
    <2>2. CASE n # 0
      <3> DEFINE q == p - n
      <3>1. /\ q \in 0..Len(s) /\ q \in i..(p - 1) /\ q # Len(s) /\ q \in Int
            /\ q + 1 \in 1..Len(s) /\ p \in (q + 1)..Len(s)
            /\ n - 1 \in Nat /\ n - 1 < n /\ n - 1 <= p - i /\ p - (n - 1) = q + 1
        BY <1>2, <2>2
      <3> HIDE DEF q
      <3>2. n - 1 \in S
        BY <1>4, <3>1
      <3>3. f[q + 1] = SubSeq(s, (q + 1) + 1, p) \o f[p]
        BY <3>1, <3>2
      <3>4. ~StartsBehind(s, sub, q)
        BY <3>1
      <3>5. f[q] = <<s[q + 1]>> \o f[q + 1]
        BY <1>1, <3>1, <3>4, Zenon DEF RestFrom
      <3>6. <<s[q + 1]>> \in Seq(Char) /\ SubSeq(s, (q + 1) + 1, p) \in Seq(Char)
        <4>1. s[q + 1] \in Char /\ (q + 1) + 1 \in Int /\ p \in Int
          BY <1>2, <3>1, ElementOfSeq
        <4>2. \A k \in ((q + 1) + 1)..p : s[k] \in Char
          BY <1>2, <3>1, ElementOfSeq
        <4>3. SubSeq(s, (q + 1) + 1, p) \in Seq(Char)
          BY <4>1, <4>2, SubSeqProperties
        <4> QED BY <4>1, <4>3
      <3>7. SubSeq(s, q + 1, p) = <<s[q + 1]>> \o SubSeq(s, (q + 1) + 1, p)
        BY <3>1, SubSeqRecursiveFirst
      <3>8. (<<s[q + 1]>> \o SubSeq(s, (q + 1) + 1, p)) \o f[p]
            = <<s[q + 1]>> \o (SubSeq(s, (q + 1) + 1, p) \o f[p])
        BY <1>3, <3>6, Regroup, Zenon
      <3>9. f[q] = SubSeq(s, q + 1, p) \o f[p]
        BY <3>3, <3>5, <3>7, <3>8, Zenon
      <3> QED BY <3>9, Zenon DEF q
    <2> QED BY <2>1, <2>2
  <1>5. Nat \subseteq S
    <2> HIDE DEF S
    <2> QED BY <1>4, BelowInduction
  <1>6. p - i \in S
    <2>1. p - i \in Nat
      BY <1>2
    <2> HIDE DEF S
    <2> QED BY <1>5, <2>1
  <1>7. p - (p - i) = i /\ p - i <= p - i
    BY <1>2
  <1>8. f[i] = SubSeq(s, i + 1, p) \o f[p]
    <2>1. f[p - (p - i)] = SubSeq(s, (p - (p - i)) + 1, p) \o f[p]
      BY <1>6, <1>7
    <2> QED BY <1>7, <2>1
  <1> QED BY <1>8, Zenon DEF f

(***************************************************************************)
(* The invariant: what is done, and the rest with everything replaced, are *)
(* the original with everything replaced.                                  *)
(***************************************************************************)
(* done characters of s are done. *)
DoneAndRest(s, done, sub, r) == SubSeq(s, 1, done) \o RestReplaced(s, sub, r)[done]

(* The rest of a text is replaced as a text of its own.                    *)
LEMMA RestOfRest ==
    ASSUME NEW s \in Seq(Char), NEW sub \in Seq(Char), NEW r \in Seq(Char), sub # <<>>,
           NEW i \in 0..Len(s)
    PROVE  AllReplacedIn(SubSeq(s, i + 1, Len(s)), sub, r) = RestReplaced(s, sub, r)[i]
  <1> DEFINE t == SubSeq(s, i + 1, Len(s))
  <1>1. /\ t \in Seq(Char) /\ Len(t) = Len(s) - i
        /\ \A k \in 1..(Len(s) - i) : t[k] = s[i + k]
    OBVIOUS
  <1> HIDE DEF t
  <1>2. 0 \in 0..Len(t) /\ SameFrom(t, 0, s, i)
    BY <1>1 DEF SameFrom
  <1>3. RestReplaced(t, sub, r)[0] = RestReplaced(s, sub, r)[i]
    BY <1>1, <1>2, SameRest
  <1> QED
    BY <1>3, Zenon DEF AllReplacedIn, t

(* One replacement, of the first occurrence behind what is done, puts one  *)
(* replacement behind what is done, and takes one occurrence from the rest.*)
LEMMA ReplacedOnceMore ==
    ASSUME NEW s \in Seq(Char), NEW sub \in Seq(Char), NEW r \in Seq(Char), sub # <<>>,
           NEW done \in 0..Len(s), NEW p \in done..Len(s), StartsBehind(s, sub, p),
           \A q \in done..(p - 1) : ~StartsBehind(s, sub, q)
    PROVE  DoneAndRest(Replaced(s, sub, p, r), p + Len(r), sub, r) = DoneAndRest(s, done, sub, r)
  <1> DEFINE f == RestReplaced(s, sub, r)
             t == Replaced(s, sub, p, r)
             next == p + Len(sub)
             front == SubSeq(s, 1, p)
             back == SubSeq(s, next + 1, Len(s))
             before == SubSeq(s, 1, done)
             between == SubSeq(s, done + 1, p)
  <1>1. /\ Len(s) \in Nat /\ Len(sub) \in Nat /\ Len(r) \in Nat /\ done \in Nat /\ p \in Nat
        /\ done <= p /\ p # Len(s) /\ next \in 0..Len(s)
    BY SearchFits
  <1>2. /\ f \in [0..Len(s) -> Seq(Char)]
        /\ f[p] = RestFrom(f, s, sub, r, p)
    BY <1>1, RestIsReplaced
  <1> HIDE DEF f
  <1>3. f[next] \in Seq(Char)
    BY <1>1, <1>2
  <1>4. f[p] = r \o f[next]
    BY <1>1, <1>2, Zenon DEF RestFrom
  <1>5. f[done] = between \o f[p]
    BY <1>1, NoneFound, Zenon DEF f
  <1>6. front \in Seq(Char) /\ Len(front) = p
    BY <1>1
  <1>7. /\ back \in Seq(Char) /\ Len(back) = Len(s) - next
        /\ \A k \in 1..(Len(s) - next) : back[k] = s[next + k]
    BY <1>1
  <1>8. before \in Seq(Char) /\ between \in Seq(Char)
    BY <1>1
  <1>9. before \o between = front
    <2>1. 1 \in 1..Len(s) + 1 /\ done \in (1 - 1)..Len(s) /\ p \in done..Len(s)
      BY <1>1
    <2> QED BY <2>1, ConcatAdjacentSubSeq
  <1>10. t = (front \o r) \o back
    BY Zenon DEF Replaced
  <1> HIDE DEF front, back, before, between, t, next
  <1>11. front \o r \in Seq(Char) /\ Len(front \o r) = p + Len(r)
    BY <1>6, ConcatProperties, Zenon
  <1>12. /\ t \in Seq(Char) /\ Len(t) = p + Len(r) + (Len(s) - next)
         /\ \A k \in 1..Len(t) : t[k] =
                IF k <= p + Len(r) THEN (front \o r)[k] ELSE back[k - (p + Len(r))]
    <2> DEFINE u == front \o r
    <2>1. u \in Seq(Char) /\ Len(u) = p + Len(r) /\ t = u \o back
      BY <1>10, <1>11
    <2> HIDE DEF u
    <2>2. /\ u \o back \in Seq(Char) /\ Len(u \o back) = Len(u) + Len(back)
          /\ \A k \in 1..Len(u) + Len(back) :
                 (u \o back)[k] = IF k <= Len(u) THEN u[k] ELSE back[k - Len(u)]
      BY <1>7, <2>1, ConcatProperties
    <2>3. /\ t \in Seq(Char) /\ Len(t) = Len(u) + Len(back)
          /\ \A k \in 1..Len(t) : t[k] = IF k <= Len(u) THEN u[k] ELSE back[k - Len(u)]
      BY <2>1, <2>2, Zenon
    <2>4. /\ t \in Seq(Char) /\ Len(t) = p + Len(r) + (Len(s) - next)
          /\ \A k \in 1..Len(t) : t[k] =
                 IF k <= p + Len(r) THEN u[k] ELSE back[k - (p + Len(r))]
      BY <1>7, <2>1, <2>3, Zenon
    <2> QED BY <2>4, Zenon DEF u
  <1>13. SubSeq(t, 1, p + Len(r)) = front \o r
    <2> DEFINE u == front \o r
               v == SubSeq(t, 1, p + Len(r))
    <2>1. /\ v \in Seq(Char) /\ Len(v) = p + Len(r)
          /\ \A k \in 1..(p + Len(r)) : v[k] = t[k]
      BY <1>1, <1>12
    <2>2. u \in Seq(Char) /\ Len(u) = p + Len(r)
      BY <1>11
    <2> HIDE DEF u, v
    <2>3. ASSUME NEW k \in 1..(p + Len(r)) PROVE t[k] = u[k]
      <3>1. k \in 1..Len(t) /\ k <= p + Len(r)
        BY <1>1, <1>12
      <3> QED BY <1>12, <3>1, Zenon DEF u
    <2>4. v = u
      BY <2>1, <2>2, <2>3, SeqEqual
    <2> QED BY <2>4, Zenon DEF u, v
  <1>14. p + Len(r) \in 0..Len(t) /\ SameFrom(t, p + Len(r), s, next)
    <2>1. Len(t) - (p + Len(r)) = Len(s) - next /\ p + Len(r) \in 0..Len(t)
      BY <1>1, <1>12
    <2>2. ASSUME NEW k \in 1..(Len(t) - (p + Len(r)))
          PROVE  t[(p + Len(r)) + k] = s[next + k]
      <3>1. /\ (p + Len(r)) + k \in 1..Len(t) /\ ~((p + Len(r)) + k <= p + Len(r))
            /\ ((p + Len(r)) + k) - (p + Len(r)) = k /\ k \in 1..(Len(s) - next)
        BY <1>1, <1>12, <2>1
      <3>2. t[(p + Len(r)) + k] = back[k]
        BY <1>12, <3>1
      <3> QED BY <1>7, <3>1, <3>2
    <2> QED BY <2>1, <2>2 DEF SameFrom
  <1>15. RestReplaced(t, sub, r)[p + Len(r)] = f[next]
    <2>1. t \in Seq(Char) /\ next \in 0..Len(s)
      BY <1>1, <1>12
    <2> QED BY <1>14, <2>1, SameRest DEF f
  <1>16. (front \o r) \o f[next] = front \o f[p]
    <2>1. (front \o r) \o f[next] = front \o (r \o f[next])
      BY <1>3, <1>6, Regroup
    <2> QED BY <1>4, <2>1, Zenon
  <1>17. f[p] \in Seq(Char)
    <2>1. p \in 0..Len(s)
      BY <1>1
    <2> QED BY <1>2, <2>1, Zenon
  <1>18. (before \o between) \o f[p] = before \o f[done]
    <2>1. (before \o between) \o f[p] = before \o (between \o f[p])
      BY <1>8, <1>17, Regroup
    <2> QED BY <1>5, <2>1, Zenon
  <1>19. SubSeq(t, 1, p + Len(r)) \o RestReplaced(t, sub, r)[p + Len(r)] = before \o f[done]
    BY <1>9, <1>13, <1>15, <1>16, <1>18, Zenon
  <1> QED
    BY <1>19, Zenon DEF DoneAndRest, t, before, f

(* When nothing more is found, the text is what was asked for.             *)
LEMMA NothingLeft ==
    ASSUME NEW s \in Seq(Char), NEW sub \in Seq(Char), NEW r \in Seq(Char), sub # <<>>,
           NEW done \in 0..Len(s), \A q \in done..Len(s) : ~StartsBehind(s, sub, q)
    PROVE  DoneAndRest(s, done, sub, r) = s
  <1> DEFINE f == RestReplaced(s, sub, r)
  <1>1. Len(s) \in Nat /\ done \in Nat /\ done <= Len(s)
    OBVIOUS
  <1>2. Len(s) \in done..Len(s) /\ \A q \in done..(Len(s) - 1) : ~StartsBehind(s, sub, q)
    BY <1>1
  <1>3. f[done] = SubSeq(s, done + 1, Len(s)) \o f[Len(s)]
    BY <1>2, NoneFound, Zenon
  <1>4. f[Len(s)] = <<>>
    <2>1. Len(s) \in 0..Len(s)
      BY <1>1
    <2>2. f[Len(s)] = RestFrom(f, s, sub, r, Len(s))
      BY <2>1, RestIsReplaced, Zenon
    <2> QED BY <2>2, Zenon DEF RestFrom
  <1> HIDE DEF f
  <1> DEFINE before == SubSeq(s, 1, done)
             rest == SubSeq(s, done + 1, Len(s))
  <1>5. rest \in Seq(Char)
    BY <1>1
  <1>6. before \o rest = SubSeq(s, 1, Len(s))
    <2>1. 1 \in 1..Len(s) + 1 /\ done \in (1 - 1)..Len(s) /\ Len(s) \in done..Len(s)
      BY <1>1
    <2> QED BY <2>1, ConcatAdjacentSubSeq
  <1>7. SubSeq(s, 1, Len(s)) = s
    BY SubSeqFull
  <1>8. rest \o <<>> = rest
    BY <1>5, ConcatEmptySeq
  <1>9. before \o f[done] = s
    BY <1>3, <1>4, <1>6, <1>7, <1>8, Zenon
  <1> QED
    BY <1>9, Zenon DEF DoneAndRest, f

(* The inductive invariant.                                                *)
ReplacingInv == Inside /\ original \in Seq(Char) /\ EachReplacedOnce

(* EachReplacedOnce, for a search string that is not empty, in the terms   *)
(* of the lemmas.                                                          *)
ByRest ==
    /\ DoneAndRest(subject, replacedTo, search, replace) = AllReplacedIn(original, search, replace)
    /\ ~replacing => subject = AllReplacedIn(original, search, replace)

SearchesForText == Inside /\ search # <<>>

LEMMA ReplacedOnceByRest == SearchesForText => (EachReplacedOnce <=> ByRest)
  <1> SUFFICES ASSUME Inside, search # <<>>
               PROVE  EachReplacedOnce <=> ByRest
    BY DEF SearchesForText
  <1>1. AllReplacedIn(SubSeq(subject, replacedTo + 1, Len(subject)), search, replace)
            = RestReplaced(subject, search, replace)[replacedTo]
    BY RestOfRest, Zenon DEF Inside
  <1> QED
    BY <1>1, Zenon DEF EachReplacedOnce, DoneAndRest, ByRest

LEMMA InitReplacingInv == ReplacingInit => ReplacingInv
  BY DEF ReplacingInit, ReplacingInv, Inside, EachReplacedOnce

LEMMA CallReplacedOnce ==
    ASSUME ReplacingInv, CallReplaceAll
    PROVE  ReplacingInv'
  <1>1. /\ Inside' /\ original' \in Seq(Char)
        /\ subject' = original' /\ replacedTo' = 0 /\ replacing' = TRUE
    BY NextInside, ReplacingAssumption DEF ReplacingInv, CallReplaceAll, ReplacingNext
  <1>2. CASE search' = <<>>
    BY <1>1, <1>2 DEF ReplacingInv, EachReplacedOnce
  <1>3. CASE search' # <<>>
    <2> DEFINE f == RestReplaced(original', search', replace')
    <2>1. f[0] \in Seq(Char)
      <3>1. 0 \in 0..Len(original') /\ search' \in Seq(Char) /\ replace' \in Seq(Char)
        BY <1>1 DEF Inside
      <3> QED BY <1>1, <1>3, <3>1, RestIsReplaced
    <2> HIDE DEF f
    <2>2. SubSeq(original', 1, 0) = <<>>
      OBVIOUS
    <2>3. <<>> \o f[0] = f[0]
      BY <2>1, ConcatEmptySeq
    <2>4. DoneAndRest(subject, replacedTo, search, replace)'
            = AllReplacedIn(original, search, replace)'
      BY <1>1, <2>2, <2>3, Zenon DEF DoneAndRest, AllReplacedIn, f
    <2>5. EachReplacedOnce'
      <3>1. ByRest'
        BY <1>1, <2>4, Zenon DEF ByRest
      <3>2. SearchesForText'
        BY <1>1, <1>3, Zenon DEF SearchesForText
      <3> QED BY <3>1, <3>2, ReplacedOnceByRest, PTL
    <2> QED BY <1>1, <2>5 DEF ReplacingInv
  <1> QED BY <1>2, <1>3

LEMMA TurnReplacedOnce ==
    ASSUME ReplacingInv, ReplaceOne
    PROVE  ReplacingInv'
  <1>1. Inside' /\ original' \in Seq(Char) /\ original' = original /\ replacing /\ replacing'
    BY TurnInside DEF ReplacingInv, ReplaceOne
  <1>2. CASE search = <<>>
    BY <1>1, <1>2 DEF ReplacingInv, EachReplacedOnce, ReplaceOne
  <1>3. CASE search # <<>>
    <2>1. PICK p \in Found(subject, search, replacedTo) :
              /\ \A q \in Found(subject, search, replacedTo) : p <= q
              /\ subject' = Replaced(subject, search, p, replace)
              /\ replacedTo' = p + Len(replace)
              /\ search' = search /\ replace' = replace
      BY DEF ReplaceOne, GoOnBehind
    <2>2. /\ subject \in Seq(Char) /\ search \in Seq(Char) /\ replace \in Seq(Char)
          /\ replacedTo \in 0..Len(subject) /\ replacedTo \in Nat /\ Len(subject) \in Nat
      BY DEF ReplacingInv, Inside
    <2>3. p \in replacedTo..Len(subject) /\ StartsBehind(subject, search, p)
      BY <2>1 DEF Found
    <2>4. ASSUME NEW q \in replacedTo..(p - 1)
          PROVE  ~StartsBehind(subject, search, q)
      <3>1. q \in replacedTo..Len(subject) /\ ~(p <= q)
        BY <2>2, <2>3
      <3> QED BY <2>1, <3>1 DEF Found
    <2>5. DoneAndRest(subject', replacedTo', search, replace)
            = DoneAndRest(subject, replacedTo, search, replace)
      BY <1>3, <2>1, <2>2, <2>3, <2>4, ReplacedOnceMore
    <2>6. DoneAndRest(subject, replacedTo, search, replace)
            = AllReplacedIn(original, search, replace)
      BY <1>3, ReplacedOnceByRest DEF ReplacingInv, ByRest, SearchesForText
    <2>7. DoneAndRest(subject, replacedTo, search, replace)'
            = AllReplacedIn(original, search, replace)'
      BY <1>1, <2>1, <2>5, <2>6, Zenon
    <2>8. search' # <<>>
      BY <1>3, <2>1
    <2>9. EachReplacedOnce'
      <3>1. ByRest'
        BY <1>1, <2>7, Zenon DEF ByRest
      <3>2. SearchesForText'
        BY <1>1, <2>8, Zenon DEF SearchesForText
      <3> QED BY <3>1, <3>2, ReplacedOnceByRest, PTL
    <2> QED BY <1>1, <2>9 DEF ReplacingInv
  <1> QED BY <1>2, <1>3

LEMMA EndReplacedOnce ==
    ASSUME ReplacingInv, AllReplaced
    PROVE  ReplacingInv'
  <1>1. /\ replacing /\ ~replacing' /\ Found(subject, search, replacedTo) = {}
        /\ UNCHANGED <<original, subject, search, replace, replacedTo>>
    BY DEF AllReplaced
  <1>2. Inside' /\ original' \in Seq(Char)
    BY <1>1 DEF ReplacingInv, Inside
  <1>3. /\ subject \in Seq(Char) /\ search \in Seq(Char) /\ replace \in Seq(Char)
        /\ replacedTo \in 0..Len(subject) /\ replacedTo \in Nat /\ Len(subject) \in Nat
    BY DEF ReplacingInv, Inside
  <1>4. \A q \in replacedTo..Len(subject) : ~StartsBehind(subject, search, q)
    BY <1>1 DEF Found
  <1>5. search # <<>>
    <2> SUFFICES ASSUME search = <<>> PROVE StartsBehind(subject, search, replacedTo)
      BY <1>3, <1>4
    <2>1. Len(search) = 0
      OBVIOUS
    <2>2. SubSeq(subject, replacedTo + 1, replacedTo + Len(search)) = <<>>
      BY <1>3, <2>1, SubSeqEmpty
    <2> QED BY <1>3, <2>1, <2>2 DEF StartsBehind
  <1>6. DoneAndRest(subject, replacedTo, search, replace) = subject
    BY <1>3, <1>4, <1>5, NothingLeft
  <1>7. DoneAndRest(subject, replacedTo, search, replace)
            = AllReplacedIn(original, search, replace)
    BY <1>5, ReplacedOnceByRest DEF ReplacingInv, ByRest, SearchesForText
  <1>8. /\ DoneAndRest(subject, replacedTo, search, replace)'
             = AllReplacedIn(original, search, replace)'
        /\ subject' = AllReplacedIn(original, search, replace)'
        /\ search' # <<>>
    BY <1>1, <1>5, <1>6, <1>7, Zenon
  <1>9. EachReplacedOnce'
    <2>1. ByRest'
      BY <1>8, Zenon DEF ByRest
    <2>2. SearchesForText'
      BY <1>2, <1>8, Zenon DEF SearchesForText
    <2> QED BY <2>1, <2>2, ReplacedOnceByRest, PTL
  <1> QED BY <1>2, <1>9 DEF ReplacingInv

LEMMA NextReplacingInv ==
    ASSUME ReplacingInv, [ReplacingNext]_replacingVars
    PROVE  ReplacingInv'
  <1>1. CASE UNCHANGED replacingVars
    BY <1>1 DEF replacingVars, ReplacingInv, Inside, EachReplacedOnce
  <1> QED
    BY <1>1, CallReplacedOnce, TurnReplacedOnce, EndReplacedOnce DEF ReplacingNext

(* Whatever is searched for, and whatever is put in its place - be it the  *)
(* search string itself, or one that makes a new occurrence with what is   *)
(* around it -, replace_all returns the original with each of its          *)
(* occurrences, from the left and without overlaps, replaced once.         *)
THEOREM ReplacedOnce == ReplacingSpec => []EachReplacedOnce
  <1>1. ReplacingInv => EachReplacedOnce
    BY DEF ReplacingInv
  <1> QED
    BY <1>1, InitReplacingInv, NextReplacingInv, PTL DEF ReplacingSpec

(***************************************************************************)
(* split_quoted: texts written one behind the other.                       *)
(***************************************************************************)
(* FlattenSeq takes one text more each turn.                               *)
LEMMA TextsAddUp ==
    ASSUME NEW S, NEW pieces \in Seq(Seq(S)), pieces # <<>>
    PROVE  \E g \in [1..Len(pieces) -> Seq(S)] :
               /\ \A k \in 1..Len(pieces) : g[k] = IF k = 1 THEN pieces[k] ELSE g[k - 1] \o pieces[k]
               /\ FlattenSeq(pieces) = g[Len(pieces)]
  <1> DEFINE n == Len(pieces)
             Turns(g) == [k \in 1..n |-> IF k = 1 THEN pieces[k] ELSE g[k - 1] \o pieces[k]]
             flat == CHOOSE g : g = Turns(g)
             Good(g, m) == \A k \in 1..n : k <= m =>
                               g[k] = IF k = 1 THEN pieces[k] ELSE g[k - 1] \o pieces[k]
             M == {m \in Nat : \E g \in [1..n -> Seq(S)] : Good(g, m)}
  <1>1. n \in Nat /\ n > 0 /\ \A k \in 1..n : pieces[k] \in Seq(S)
    OBVIOUS
  <1>2. FlattenSeq(pieces) = flat[n]
    BY <1>1 DEF FlattenSeq
  <1> HIDE DEF n, flat
  <1>3. ASSUME NEW m \in Nat, \A k \in Nat : k < m => k \in M
        PROVE  m \in M
    <2>1. CASE m = 0
      <3>1. pieces \in [1..n -> Seq(S)]
        BY DEF n
      <3>2. Good(pieces, m)
        BY <2>1
      <3> QED BY <3>1, <3>2
    <2>2. CASE m # 0
      <3>1. m - 1 \in Nat /\ m - 1 < m
        BY <2>2
      <3>2. m - 1 \in M
        <4> HIDE DEF M
        <4> QED BY <1>3, <3>1
      <3>3. PICK g \in [1..n -> Seq(S)] : Good(g, m - 1)
        BY <3>2
      <3> DEFINE y == IF m = 1 THEN pieces[m] ELSE g[m - 1] \o pieces[m]
      <3>4. CASE m > n
        <4>1. \A k \in 1..n : k <= m - 1
          BY <1>1, <3>4
        <4>2. Good(g, m)
          BY <3>3, <4>1
        <4> QED BY <4>2
      <3>5. CASE m <= n
        <4>1. y \in Seq(S)
          <5>1. CASE m = 1
            BY <1>1, <3>5, <5>1
          <5>2. CASE m # 1
            <6>1. m - 1 \in 1..n /\ m \in 1..n
              BY <1>1, <2>2, <3>5, <5>2
            <6>2. g[m - 1] \in Seq(S) /\ pieces[m] \in Seq(S)
              BY <1>1, <6>1
            <6> QED BY <5>2, <6>2, ConcatProperties
          <5> QED BY <5>1, <5>2
        <4>2. PICK h \in [1..n -> Seq(S)] : \A k \in 1..n : h[k] = IF k = m THEN y ELSE g[k]
          <5> HIDE DEF y
          <5>1. [k \in 1..n |-> IF k = m THEN y ELSE g[k]] \in [1..n -> Seq(S)]
            BY <4>1
          <5> QED BY <5>1
        <4>3. ASSUME NEW k \in 1..n, k <= m
              PROVE  h[k] = IF k = 1 THEN pieces[k] ELSE h[k - 1] \o pieces[k]
          <5>1. k # 1 => k - 1 \in 1..n /\ k - 1 # m
            BY <1>1, <4>3
          <5>2. k # 1 => h[k - 1] = g[k - 1]
            BY <4>2, <5>1
          <5>3. CASE k = m
            BY <4>2, <5>2, <5>3
          <5>4. CASE k # m
            <6>1. k <= m - 1
              BY <1>1, <4>3, <5>4
            <6>2. g[k] = IF k = 1 THEN pieces[k] ELSE g[k - 1] \o pieces[k]
              BY <3>3, <6>1
            <6> QED BY <4>2, <5>2, <5>4, <6>2
          <5> QED BY <5>3, <5>4
        <4>4. Good(h, m)
          BY <4>3
        <4> QED BY <4>4
      <3>6. m > n \/ m <= n
        BY <1>1
      <3> QED BY <3>4, <3>5, <3>6, Zenon
    <2> QED BY <2>1, <2>2
  <1>4. n \in M
    <2> HIDE DEF M
    <2> QED BY <1>1, <1>3, BelowInduction
  <1>5. PICK g \in [1..n -> Seq(S)] :
            \A k \in 1..n : g[k] = IF k = 1 THEN pieces[k] ELSE g[k - 1] \o pieces[k]
    <2>1. PICK g \in [1..n -> Seq(S)] : Good(g, n)
      BY <1>4
    <2>2. \A k \in 1..n : k <= n
      OBVIOUS
    <2>3. \A k \in 1..n : g[k] = IF k = 1 THEN pieces[k] ELSE g[k - 1] \o pieces[k]
      BY <2>1, <2>2
    <2> QED BY <2>3
  <1>6. g = Turns(g)
    BY <1>5
  <1>7. flat = Turns(flat)
    <2> HIDE DEF Turns
    <2> QED BY <1>6, Zenon DEF flat
  <1>8. \A k \in 1..n : flat[k] = IF k = 1 THEN pieces[k] ELSE flat[k - 1] \o pieces[k]
    BY <1>7
  <1> DEFINE Same == {k \in Nat : k \in 1..n => flat[k] = g[k]}
  <1>9. ASSUME NEW k \in Nat, \A m \in Nat : m < k => m \in Same
        PROVE  k \in Same
    <2> SUFFICES ASSUME k \in 1..n PROVE flat[k] = g[k]
      OBVIOUS
    <2>1. CASE k = 1
      BY <1>5, <1>8, <2>1
    <2>2. CASE k # 1
      <3>1. k - 1 \in Nat /\ k - 1 < k /\ k - 1 \in 1..n
        BY <1>1, <2>2
      <3>2. k - 1 \in Same
        <4> HIDE DEF Same
        <4> QED BY <1>9, <3>1
      <3>3. flat[k - 1] = g[k - 1]
        BY <3>1, <3>2
      <3> QED BY <1>5, <1>8, <2>2, <3>3
    <2> QED BY <2>1, <2>2
  <1>10. n \in Same
    <2> HIDE DEF Same
    <2> QED BY <1>1, <1>9, BelowInduction
  <1>11. flat[n] = g[n]
    BY <1>1, <1>10
  <1> QED BY <1>2, <1>5, <1>11, Zenon DEF n

LEMMA FlattenType ==
    ASSUME NEW S, NEW pieces \in Seq(Seq(S))
    PROVE  FlattenSeq(pieces) \in Seq(S)
  <1>1. CASE pieces = <<>>
    BY <1>1 DEF FlattenSeq
  <1>2. CASE pieces # <<>>
    <2>1. PICK g \in [1..Len(pieces) -> Seq(S)] : FlattenSeq(pieces) = g[Len(pieces)]
      BY <1>2, TextsAddUp
    <2>2. Len(pieces) \in 1..Len(pieces)
      BY <1>2
    <2> QED BY <2>1, <2>2
  <1> QED BY <1>1, <1>2

(* The first text comes first: FlattenSeq taken apart from the other end.  *)
LEMMA FlattenFirst ==
    ASSUME NEW S, NEW pieces \in Seq(Seq(S)), pieces # <<>>
    PROVE  FlattenSeq(pieces) = Head(pieces) \o FlattenSeq(Tail(pieces))
  <1> DEFINE n == Len(pieces)
             rest == Tail(pieces)
  <1>1. n \in Nat /\ n > 0 /\ Head(pieces) = pieces[1] /\ Head(pieces) \in Seq(S)
    OBVIOUS
  <1>2. /\ rest \in Seq(Seq(S)) /\ Len(rest) = n - 1
        /\ \A k \in 1..n - 1 : rest[k] = pieces[k + 1] /\ rest[k] \in Seq(S)
    BY <1>1, HeadTailProperties
  <1>3. PICK g \in [1..n -> Seq(S)] :
            /\ \A k \in 1..n : g[k] = IF k = 1 THEN pieces[k] ELSE g[k - 1] \o pieces[k]
            /\ FlattenSeq(pieces) = g[n]
    BY TextsAddUp
  <1> HIDE DEF n, rest
  <1>4. CASE n = 1
    <2>1. rest = <<>>
      BY <1>2, <1>4
    <2>2. FlattenSeq(rest) = <<>>
      BY <2>1 DEF FlattenSeq
    <2>3. g[n] = Head(pieces)
      BY <1>1, <1>3, <1>4
    <2>4. Head(pieces) \o <<>> = Head(pieces)
      BY <1>1, ConcatEmptySeq
    <2> QED BY <1>3, <2>2, <2>3, <2>4 DEF rest
  <1>5. CASE n # 1
    <2>1. rest # <<>>
      BY <1>1, <1>2, <1>5
    <2>2. PICK h \in [1..n - 1 -> Seq(S)] :
              /\ \A k \in 1..n - 1 : h[k] = IF k = 1 THEN rest[k] ELSE h[k - 1] \o rest[k]
              /\ FlattenSeq(rest) = h[n - 1]
      <3>1. \E h \in [1..Len(rest) -> Seq(S)] :
              /\ \A k \in 1..Len(rest) : h[k] = IF k = 1 THEN rest[k] ELSE h[k - 1] \o rest[k]
              /\ FlattenSeq(rest) = h[Len(rest)]
        BY <1>2, <2>1, TextsAddUp
      <3> QED BY <1>2, <3>1, Zenon
    <2> DEFINE M == {k \in Nat : k \in 1..n - 1 => g[k + 1] = Head(pieces) \o h[k]}
    <2>3. ASSUME NEW k \in Nat, \A m \in Nat : m < k => m \in M
          PROVE  k \in M
      <3> SUFFICES ASSUME k \in 1..n - 1 PROVE g[k + 1] = Head(pieces) \o h[k]
        OBVIOUS
      <3>1. k + 1 \in 1..n /\ k \in 1..n /\ k + 1 # 1 /\ (k + 1) - 1 = k
        BY <1>1
      <3>2. g[k + 1] = g[k] \o rest[k] /\ rest[k] \in Seq(S)
        BY <1>2, <1>3, <3>1
      <3>3. CASE k = 1
        BY <1>1, <1>3, <2>2, <3>1, <3>2, <3>3
      <3>4. CASE k # 1
        <4>1. k - 1 \in Nat /\ k - 1 < k /\ k - 1 \in 1..n - 1 /\ (k - 1) + 1 = k
          BY <1>1, <3>4
        <4>2. k - 1 \in M
          <5> HIDE DEF M
          <5> QED BY <2>3, <4>1
        <4>3. g[k] = Head(pieces) \o h[k - 1]
          BY <4>1, <4>2
        <4>4. h[k] = h[k - 1] \o rest[k] /\ h[k - 1] \in Seq(S)
          BY <2>2, <3>4, <4>1
        <4>5. (Head(pieces) \o h[k - 1]) \o rest[k] = Head(pieces) \o (h[k - 1] \o rest[k])
          <5>1. \A a, b, c \in Seq(S) : (a \o b) \o c = a \o (b \o c)
            BY ConcatAssociative
          <5> QED BY <1>1, <3>2, <4>4, <5>1, Zenon
        <4> QED BY <3>2, <4>3, <4>4, <4>5, Zenon
      <3> QED BY <3>3, <3>4
    <2>4. n - 1 \in Nat /\ n - 1 \in 1..n - 1 /\ (n - 1) + 1 = n
      BY <1>1, <1>5
    <2>5. n - 1 \in M
      <3> HIDE DEF M
      <3> QED BY <2>3, <2>4, BelowInduction
    <2>6. g[n] = Head(pieces) \o h[n - 1]
      BY <2>4, <2>5
    <2> QED BY <1>3, <2>2, <2>6, Zenon DEF rest
  <1> QED BY <1>4, <1>5

(***************************************************************************)
(* How a peer writes: what comes first, and what is behind it.             *)
(***************************************************************************)
Chars == Plain \cup {Delim, Quote, Escape}

WrittenAs(c) == IF c \in {Quote, Escape} THEN <<Escape, c>> ELSE <<c>>

LEMMA WrittenAsType ==
    ASSUME NEW c \in Chars
    PROVE  WrittenAs(c) \in Seq(Chars) /\ <<c>> \in Seq(Chars)
  <1>1. Escape \in Chars
    BY DEF Chars
  <1> HIDE DEF Chars
  <1>2. <<Escape, c>> \in Seq(Chars) /\ <<c>> \in Seq(Chars)
    BY <1>1
  <1> QED BY <1>2 DEF WrittenAs

LEMMA Joined ==
    ASSUME NEW a \in Seq(Chars), NEW b \in Seq(Chars)
    PROVE  a \o b \in Seq(Chars) /\ (a = <<>> => a \o b = b) /\ (b = <<>> => a \o b = a)
  BY ConcatProperties, ConcatEmptySeq

LEMMA Grouped ==
    ASSUME NEW a \in Seq(Chars), NEW b \in Seq(Chars), NEW c \in Seq(Chars)
    PROVE  (a \o b) \o c = a \o (b \o c)
  BY ConcatAssociative

LEMMA HeadFirst ==
    ASSUME NEW t \in Seq(Chars), t # <<>>
    PROVE  /\ Head(t) \in Chars /\ Tail(t) \in Seq(Chars)
           /\ t = <<Head(t)>> \o Tail(t)
           /\ Len(Tail(t)) = Len(t) - 1
           /\ \A k \in 1..Len(t) - 1 : Tail(t)[k] = t[k + 1]
  <1>1. Len(t) \in Nat /\ Len(t) > 0 /\ Head(t) = t[1]
    OBVIOUS
  <1>2. /\ Head(t) \in Chars /\ Tail(t) \in Seq(Chars) /\ Len(Tail(t)) = Len(t) - 1
        /\ \A k \in 1..Len(t) - 1 : Tail(t)[k] = t[k + 1]
    BY HeadTailProperties
  <1>3. Tail(t) = SubSeq(t, 2, Len(t))
    BY TailIsSubSeq
  <1>4. t = SubSeq(t, 1, Len(t))
    BY SubSeqFull
  <1>5. SubSeq(t, 1, Len(t)) = <<t[1]>> \o SubSeq(t, 1 + 1, Len(t))
    BY <1>1, SubSeqRecursiveFirst
  <1> QED BY <1>1, <1>2, <1>3, <1>4, <1>5

LEMMA EscapedType ==
    ASSUME NEW t \in Seq(Chars)
    PROVE  Escaped(t) \in Seq(Chars) /\ (t = <<>> => Escaped(t) = <<>>)
  <1> DEFINE parts == [i \in DOMAIN t |-> WrittenAs(t[i])]
  <1>1. Escaped(t) = FlattenSeq(parts)
    BY DEF Escaped, WrittenAs
  <1>2. \A c \in Chars : WrittenAs(c) \in Seq(Chars)
    BY WrittenAsType
  <1>3. parts \in Seq(Seq(Chars)) /\ Len(parts) = Len(t)
    <2>1. DOMAIN t = 1..Len(t) /\ Len(t) \in Nat /\ \A i \in DOMAIN t : t[i] \in Chars
      OBVIOUS
    <2> QED BY <1>2, <2>1
  <1> HIDE DEF parts
  <1>4. FlattenSeq(parts) \in Seq(Chars)
    BY <1>3, FlattenType
  <1>5. t = <<>> => FlattenSeq(parts) = <<>>
    BY <1>3 DEF FlattenSeq
  <1> QED BY <1>1, <1>4, <1>5

LEMMA EscapedFirst ==
    ASSUME NEW t \in Seq(Chars), t # <<>>
    PROVE  Escaped(t) = WrittenAs(Head(t)) \o Escaped(Tail(t))
  <1> DEFINE Parts(s) == [i \in DOMAIN s |-> WrittenAs(s[i])]
  <1>1. Escaped(t) = FlattenSeq(Parts(t)) /\ Escaped(Tail(t)) = FlattenSeq(Parts(Tail(t)))
    BY DEF Escaped, WrittenAs
  <1>2. \A c \in Chars : WrittenAs(c) \in Seq(Chars)
    BY WrittenAsType
  <1>3. ASSUME NEW s \in Seq(Chars)
        PROVE  /\ Parts(s) \in Seq(Seq(Chars)) /\ Len(Parts(s)) = Len(s)
               /\ \A i \in 1..Len(s) : Parts(s)[i] = WrittenAs(s[i])
    <2>1. DOMAIN s = 1..Len(s) /\ Len(s) \in Nat /\ \A i \in DOMAIN s : s[i] \in Chars
      OBVIOUS
    <2> QED BY <1>2, <2>1
  <1> HIDE DEF Parts
  <1>4. /\ Tail(t) \in Seq(Chars) /\ Len(Tail(t)) = Len(t) - 1
        /\ Len(t) \in Nat /\ Len(t) > 0 /\ Head(t) = t[1]
        /\ \A k \in 1..Len(t) - 1 : Tail(t)[k] = t[k + 1]
    BY HeadFirst
  <1>5. Parts(t) # <<>> /\ Head(Parts(t)) = WrittenAs(Head(t))
    <2>1. Parts(t) \in Seq(Seq(Chars)) /\ Len(Parts(t)) > 0 /\ Parts(t)[1] = WrittenAs(t[1])
      BY <1>3, <1>4
    <2> QED BY <1>4, <2>1
  <1>6. Tail(Parts(t)) = Parts(Tail(t))
    <2>1. /\ Tail(Parts(t)) \in Seq(Seq(Chars)) /\ Len(Tail(Parts(t))) = Len(t) - 1
          /\ \A k \in 1..Len(t) - 1 : Tail(Parts(t))[k] = Parts(t)[k + 1]
      BY <1>3, <1>5, HeadTailProperties
    <2>2. /\ Parts(Tail(t)) \in Seq(Seq(Chars)) /\ Len(Parts(Tail(t))) = Len(t) - 1
          /\ \A k \in 1..Len(t) - 1 : Parts(Tail(t))[k] = WrittenAs(Tail(t)[k])
      BY <1>3, <1>4
    <2>3. \A k \in 1..Len(t) - 1 : Tail(Parts(t))[k] = Parts(Tail(t))[k]
      <3> TAKE k \in 1..Len(t) - 1
      <3>1. k + 1 \in 1..Len(t)
        BY <1>4
      <3>2. Tail(Parts(t))[k] = WrittenAs(t[k + 1])
        BY <1>3, <2>1, <3>1
      <3> QED BY <1>4, <2>2, <3>2
    <2> QED BY <2>1, <2>2, <2>3, SeqEqual
  <1>7. FlattenSeq(Parts(t)) = Head(Parts(t)) \o FlattenSeq(Tail(Parts(t)))
    <2>1. Parts(t) \in Seq(Seq(Chars))
      BY <1>3
    <2> QED BY <1>5, <2>1, FlattenFirst
  <1> QED BY <1>1, <1>5, <1>6, <1>7

PlainUpTo(text, n) == \A j \in DOMAIN text : j <= n => text[j] \in Plain

(* A text of which n characters come before its opening quote.             *)
LEMMA QuotedAfterType ==
    ASSUME NEW t \in Seq(Chars), NEW n \in Nat
    PROVE  QuotedAfter(t, n) \in Seq(Chars)
  <1>1. CASE n > Len(t)
    BY <1>1 DEF QuotedAfter
  <1>2. CASE ~(n > Len(t))
    <2> DEFINE a == SubSeq(t, 1, n)
               b == Escaped(SubSeq(t, n + 1, Len(t)))
               q == <<Quote>>
    <2>1. SubSeq(t, n + 1, Len(t)) \in Seq(Chars)
      OBVIOUS
    <2>2. a \in Seq(Chars) /\ b \in Seq(Chars) /\ q \in Seq(Chars)
      <3>1. a \in Seq(Chars)
        BY <1>2
      <3>2. b \in Seq(Chars)
        BY <2>1, EscapedType
      <3>3. q \in Seq(Chars)
        BY WrittenAsType DEF Chars
      <3> QED BY <3>1, <3>2, <3>3
    <2>3. QuotedAfter(t, n) = a \o q \o b \o q
      BY <1>2 DEF QuotedAfter
    <2> HIDE DEF a, b, q
    <2> QED BY <2>2, <2>3, Joined
  <1> QED BY <1>1, <1>2

LEMMA QuoteNow ==
    ASSUME NEW t \in Seq(Chars)
    PROVE  QuotedAfter(t, 0) = <<Quote>> \o (Escaped(t) \o <<Quote>>)
  <1> DEFINE b == Escaped(t)
             q == <<Quote>>
  <1>1. b \in Seq(Chars) /\ q \in Seq(Chars) /\ <<>> \in Seq(Chars)
    BY EscapedType DEF Chars
  <1>2. SubSeq(t, 1, 0) = <<>> /\ SubSeq(t, 0 + 1, Len(t)) = t
    BY SubSeqEmpty, SubSeqFull
  <1>3. ~(0 > Len(t))
    OBVIOUS
  <1>4. QuotedAfter(t, 0) = <<>> \o q \o b \o q
    BY <1>2, <1>3 DEF QuotedAfter
  <1> HIDE DEF b, q
  <1>5. <<>> \o q = q
    BY <1>1, Joined
  <1>6. (q \o b) \o q = q \o (b \o q)
    BY <1>1, Grouped
  <1> QED BY <1>4, <1>5, <1>6 DEF b, q

LEMMA QuoteLater ==
    ASSUME NEW t \in Seq(Chars), t # <<>>, NEW n \in Nat, n # 0
    PROVE  QuotedAfter(t, n) = <<Head(t)>> \o QuotedAfter(Tail(t), n - 1)
  <1> DEFINE u == Tail(t)
  <1>1. /\ u \in Seq(Chars) /\ Len(u) = Len(t) - 1 /\ Len(t) \in Nat /\ Len(t) > 0
        /\ Head(t) \in Chars /\ t = <<Head(t)>> \o u /\ Head(t) = t[1]
        /\ \A k \in 1..Len(t) - 1 : u[k] = t[k + 1]
    BY HeadFirst
  <1> HIDE DEF u
  <1>2. CASE n > Len(t)
    <2>1. n - 1 > Len(u)
      BY <1>1, <1>2
    <2> QED BY <1>1, <1>2, <2>1 DEF QuotedAfter, u
  <1>3. CASE n <= Len(t)
    <2> DEFINE h == <<Head(t)>>
               a == SubSeq(u, 1, n - 1)
               b == Escaped(SubSeq(u, n, Len(u)))
               q == <<Quote>>
    <2>1. SubSeq(t, 1, n) = h \o a
      <3>1. SubSeq(t, 1, n) = <<t[1]>> \o SubSeq(t, 1 + 1, n)
        <4>1. 1 \in 1..Len(t) /\ n \in 1..Len(t)
          BY <1>1, <1>3
        <4> QED BY <4>1, SubSeqRecursiveFirst
      <3>2. SubSeq(t, 2, n) = a
        <4>1. /\ SubSeq(t, 2, n) \in Seq(Chars) /\ Len(SubSeq(t, 2, n)) = n - 1
              /\ \A k \in 1..n - 1 : SubSeq(t, 2, n)[k] = t[k + 1]
          BY <1>1, <1>3
        <4>2. /\ a \in Seq(Chars) /\ Len(a) = n - 1
              /\ \A k \in 1..n - 1 : a[k] = u[k]
          BY <1>1, <1>3
        <4>3. \A k \in 1..n - 1 : SubSeq(t, 2, n)[k] = a[k]
          BY <1>1, <1>3, <4>1, <4>2
        <4> HIDE DEF a
        <4> QED BY <4>1, <4>2, <4>3, SeqEqual
      <3> QED BY <1>1, <3>1, <3>2
    <2>2. SubSeq(t, n + 1, Len(t)) = SubSeq(u, n, Len(u))
      <3> DEFINE x == SubSeq(t, n + 1, Len(t))
                 y == SubSeq(u, n, Len(u))
      <3>1. /\ x \in Seq(Chars) /\ Len(x) = Len(t) - n
            /\ \A k \in 1..Len(t) - n : x[k] = t[n + k]
        BY <1>1, <1>3
      <3>2. /\ y \in Seq(Chars) /\ Len(y) = Len(t) - n
            /\ \A k \in 1..Len(t) - n : y[k] = u[n + k - 1]
        BY <1>1, <1>3
      <3>3. \A k \in 1..Len(t) - n : x[k] = y[k]
        <4> TAKE k \in 1..Len(t) - n
        <4>1. n + k - 1 \in 1..Len(t) - 1 /\ (n + k - 1) + 1 = n + k
          BY <1>1, <1>3
        <4>2. u[n + k - 1] = t[n + k]
          BY <1>1, <4>1
        <4> QED BY <3>1, <3>2, <4>2
      <3> HIDE DEF x, y
      <3>4. x = y
        BY <3>1, <3>2, <3>3, SeqEqual
      <3> QED BY <3>4 DEF x, y
    <2>3. QuotedAfter(t, n) = (h \o a) \o q \o b \o q
      <3>1. ~(n > Len(t))
        BY <1>1, <1>3
      <3> QED BY <2>1, <2>2, <3>1, Zenon DEF QuotedAfter
    <2>4. QuotedAfter(u, n - 1) = a \o q \o b \o q
      <3>1. ~(n - 1 > Len(u)) /\ (n - 1) + 1 = n
        BY <1>1, <1>3
      <3> QED BY <3>1, Zenon DEF QuotedAfter
    <2>5. h \in Seq(Chars) /\ a \in Seq(Chars) /\ b \in Seq(Chars) /\ q \in Seq(Chars)
      <3>1. SubSeq(u, n, Len(u)) \in Seq(Chars)
        BY <1>1, <1>3
      <3>2. b \in Seq(Chars)
        BY <3>1, EscapedType
      <3>3. h \in Seq(Chars) /\ a \in Seq(Chars) /\ q \in Seq(Chars)
        BY <1>1, <1>3 DEF Chars
      <3> QED BY <3>2, <3>3
    <2> HIDE DEF h, a, b, q
    <2>6. a \o q \in Seq(Chars) /\ (a \o q) \o b \in Seq(Chars)
      BY <2>5, Joined
    <2>7. (h \o a) \o q = h \o (a \o q)
      BY <2>5, Grouped
    <2>8. (h \o (a \o q)) \o b = h \o ((a \o q) \o b)
      BY <2>5, <2>6, Grouped
    <2>9. (h \o ((a \o q) \o b)) \o q = h \o (((a \o q) \o b) \o q)
      BY <2>5, <2>6, Grouped
    <2> QED BY <2>3, <2>4, <2>7, <2>8, <2>9, Zenon DEF h, u
  <1> QED BY <1>1, <1>2, <1>3

(***************************************************************************)
(* Where split_quoted is in a list: behind is what follows the entry, rest *)
(* what is still to come of it, unread all of the text.  It has read a     *)
(* part without quotes, or all of the entry; a part between quotes; or the *)
(* escape before a character.                                              *)
(***************************************************************************)
Position(unread, inside, behindEscape, rest, behind) ==
    \/ /\ ~inside /\ ~behindEscape
       /\ \E n \in Nat : PlainUpTo(rest, n) /\ unread = QuotedAfter(rest, n) \o behind
    \/ /\ inside /\ ~behindEscape
       /\ unread = Escaped(rest) \o (<<Quote>> \o behind)
    \/ /\ inside /\ behindEscape
       /\ rest # <<>> /\ Head(rest) \in {Quote, Escape}
       /\ unread = <<Head(rest)>> \o (Escaped(Tail(rest)) \o (<<Quote>> \o behind))

(* What reading one character, c, before unread does to a position.        *)
Reads(c, unread, inside, behindEscape, rest, behind) ==
    \/ /\ behindEscape /\ inside
       /\ rest # <<>> /\ c = Head(rest) /\ c \in {Quote, Escape}
       /\ Position(unread, TRUE, FALSE, Tail(rest), behind)
    \/ /\ ~behindEscape /\ c = Escape
       /\ Position(unread, inside, TRUE, rest, behind)
    \/ /\ ~behindEscape /\ c = Quote
       /\ Position(unread, ~inside, FALSE, rest, behind)
    \/ /\ ~behindEscape
       /\ (c = Delim /\ inside) \/ c \in Plain
       /\ rest # <<>> /\ c = Head(rest)
       /\ Position(unread, inside, FALSE, Tail(rest), behind)

LEMMA OneChar == \A c \in Chars : <<c>> \in Seq(Chars)
  BY WrittenAsType

LEMMA FromBare ==
    ASSUME NEW rest \in Seq(Chars), NEW behind \in Seq(Chars), NEW n \in Nat,
           PlainUpTo(rest, n)
    PROVE  \/ rest = <<>> /\ QuotedAfter(rest, n) \o behind = behind
           \/ \E c \in Chars, unread \in Seq(Chars) :
                /\ QuotedAfter(rest, n) \o behind = <<c>> \o unread
                /\ Reads(c, unread, FALSE, FALSE, rest, behind)
  <1> DEFINE q == <<Quote>>
  <1>1. q \in Seq(Chars) /\ Quote \in Chars
    BY OneChar DEF Chars
  <1>2. CASE n = 0
    <2> DEFINE e == Escaped(rest)
    <2>1. e \in Seq(Chars)
      BY EscapedType
    <2>2. QuotedAfter(rest, n) = q \o (e \o q)
      BY <1>2, QuoteNow
    <2> HIDE DEF q, e
    <2>3. e \o q \in Seq(Chars) /\ q \o behind \in Seq(Chars) /\ e \o (q \o behind) \in Seq(Chars)
      BY <1>1, <2>1, Joined
    <2>4. (q \o (e \o q)) \o behind = q \o ((e \o q) \o behind)
      BY <1>1, <2>3, Grouped
    <2>5. (e \o q) \o behind = e \o (q \o behind)
      BY <1>1, <2>1, Grouped
    <2>6. QuotedAfter(rest, n) \o behind = q \o (e \o (q \o behind))
      BY <2>2, <2>4, <2>5
    <2>7. Position(e \o (q \o behind), TRUE, FALSE, rest, behind)
      BY DEF Position, e, q
    <2>8. Reads(Quote, e \o (q \o behind), FALSE, FALSE, rest, behind)
      BY <2>7 DEF Reads
    <2> QED BY <1>1, <2>3, <2>6, <2>8 DEF q
  <1>3. CASE n # 0 /\ rest = <<>>
    <2>1. QuotedAfter(rest, n) = <<>>
      BY <1>3 DEF QuotedAfter
    <2> QED BY <1>3, <2>1, Joined
  <1>4. CASE n # 0 /\ rest # <<>>
    <2> DEFINE c == Head(rest)
               t == QuotedAfter(Tail(rest), n - 1)
    <2>1. /\ c \in Chars /\ Tail(rest) \in Seq(Chars) /\ c = rest[1]
          /\ Len(rest) \in Nat /\ Len(rest) > 0 /\ Len(Tail(rest)) = Len(rest) - 1
          /\ \A k \in 1..Len(rest) - 1 : Tail(rest)[k] = rest[k + 1]
      BY <1>4, HeadFirst
    <2>2. n - 1 \in Nat /\ 1 <= n
      BY <1>4
    <2>3. c \in Plain
      BY <2>1, <2>2 DEF PlainUpTo
    <2>4. PlainUpTo(Tail(rest), n - 1)
      <3> SUFFICES ASSUME NEW j \in 1..Len(rest) - 1, j <= n - 1
                   PROVE  Tail(rest)[j] \in Plain
        BY <2>1 DEF PlainUpTo
      <3>1. j + 1 \in DOMAIN rest /\ j + 1 <= n
        BY <2>1, <2>2
      <3>2. rest[j + 1] \in Plain
        BY <3>1 DEF PlainUpTo
      <3> QED BY <2>1, <3>2
    <2>5. QuotedAfter(rest, n) = <<c>> \o t
      BY <1>4, QuoteLater
    <2>6. t \in Seq(Chars) /\ <<c>> \in Seq(Chars)
      BY <2>1, <2>2, QuotedAfterType, OneChar
    <2>7. Position(t \o behind, FALSE, FALSE, Tail(rest), behind)
      BY <2>2, <2>4 DEF Position
    <2>8. Reads(c, t \o behind, FALSE, FALSE, rest, behind)
      BY <1>4, <2>3, <2>7 DEF Reads
    <2> HIDE DEF c, t
    <2>9. (<<c>> \o t) \o behind = <<c>> \o (t \o behind) /\ t \o behind \in Seq(Chars)
      BY <2>6, Grouped, Joined
    <2> QED BY <2>1, <2>5, <2>8, <2>9
  <1> QED BY <1>2, <1>3, <1>4

LEMMA FromInside ==
    ASSUME NEW rest \in Seq(Chars), NEW behind \in Seq(Chars)
    PROVE  \E c \in Chars, unread \in Seq(Chars) :
               /\ Escaped(rest) \o (<<Quote>> \o behind) = <<c>> \o unread
               /\ Reads(c, unread, TRUE, FALSE, rest, behind)
  <1> DEFINE closing == <<Quote>> \o behind
  <1>1. <<Quote>> \in Seq(Chars) /\ Quote \in Chars /\ Escape \in Chars
    BY OneChar DEF Chars
  <1>2. closing \in Seq(Chars)
    BY <1>1, Joined
  <1>3. CASE rest = <<>>
    <2>1. Escaped(rest) = <<>> /\ QuotedAfter(rest, 1) = <<>>
      <3>1. Escaped(rest) = <<>>
        BY <1>3, EscapedType
      <3>2. 1 > Len(rest)
        BY <1>3
      <3> QED BY <1>3, <3>1, <3>2 DEF QuotedAfter
    <2>2. Escaped(rest) \o closing = closing /\ QuotedAfter(rest, 1) \o behind = behind
      BY <1>2, <2>1, Joined
    <2>3. PlainUpTo(rest, 1)
      BY <1>3 DEF PlainUpTo
    <2>4. Position(behind, FALSE, FALSE, rest, behind)
      BY <2>2, <2>3 DEF Position
    <2>5. Reads(Quote, behind, TRUE, FALSE, rest, behind)
      BY <2>4 DEF Reads
    <2> QED BY <1>1, <2>2, <2>5
  <1>4. CASE rest # <<>>
    <2> DEFINE c == Head(rest)
               e == Escaped(Tail(rest))
    <2>1. c \in Chars /\ Tail(rest) \in Seq(Chars)
      BY <1>4, HeadFirst
    <2>2. e \in Seq(Chars) /\ Escaped(rest) = WrittenAs(c) \o e
      BY <1>4, <2>1, EscapedType, EscapedFirst
    <2>3. <<c>> \in Seq(Chars) /\ WrittenAs(c) \in Seq(Chars)
      BY <2>1, WrittenAsType
    <2> HIDE DEF closing
    <2>4. e \o closing \in Seq(Chars)
      BY <1>2, <2>2, Joined
    <2>5. Escaped(rest) \o closing = WrittenAs(c) \o (e \o closing)
      <3>1. (WrittenAs(c) \o e) \o closing = WrittenAs(c) \o (e \o closing)
        <4> HIDE DEF c, e
        <4> QED BY <1>2, <2>2, <2>3, Grouped
      <3> QED BY <2>2, <3>1
    <2>6. CASE c \in {Quote, Escape}
      <3> DEFINE u == <<c>> \o (e \o closing)
      <3>1. <<Escape>> \in Seq(Chars)
        BY <1>1, OneChar
      <3>2. u \in Seq(Chars)
        BY <2>3, <2>4, Joined
      <3>3. WrittenAs(c) = <<Escape>> \o <<c>>
        BY <2>6 DEF WrittenAs
      <3>4. (<<Escape>> \o <<c>>) \o (e \o closing) = <<Escape>> \o u
        BY <2>3, <2>4, <3>1, Grouped
      <3>5. Position(u, TRUE, TRUE, rest, behind)
        BY <1>4, <2>6 DEF Position, closing
      <3>6. Reads(Escape, u, TRUE, FALSE, rest, behind)
        BY <3>5 DEF Reads
      <3> HIDE DEF u, c, e
      <3> QED BY <1>1, <2>5, <3>2, <3>3, <3>4, <3>6 DEF closing
    <2>7. CASE c \notin {Quote, Escape}
      <3>1. WrittenAs(c) = <<c>>
        BY <2>7 DEF WrittenAs
      <3>2. c = Delim \/ c \in Plain
        BY <2>1, <2>7 DEF Chars
      <3>3. Position(e \o closing, TRUE, FALSE, Tail(rest), behind)
        BY DEF Position, closing
      <3>4. Reads(c, e \o closing, TRUE, FALSE, rest, behind)
        BY <1>4, <3>2, <3>3 DEF Reads
      <3> HIDE DEF c, e
      <3> QED BY <2>1, <2>4, <2>5, <3>1, <3>4 DEF closing
    <2> QED BY <2>6, <2>7
  <1> QED BY <1>3, <1>4

LEMMA FromEscape ==
    ASSUME NEW rest \in Seq(Chars), NEW behind \in Seq(Chars),
           rest # <<>>, Head(rest) \in {Quote, Escape}
    PROVE  \E unread \in Seq(Chars) :
               /\ <<Head(rest)>> \o (Escaped(Tail(rest)) \o (<<Quote>> \o behind))
                    = <<Head(rest)>> \o unread
               /\ Reads(Head(rest), unread, TRUE, TRUE, rest, behind)
  <1> DEFINE closing == <<Quote>> \o behind
             u == Escaped(Tail(rest)) \o closing
  <1>1. <<Quote>> \in Seq(Chars) /\ Tail(rest) \in Seq(Chars)
    BY OneChar, HeadFirst DEF Chars
  <1>2. closing \in Seq(Chars) /\ Escaped(Tail(rest)) \in Seq(Chars)
    BY <1>1, EscapedType, Joined
  <1>3. u \in Seq(Chars)
    <2> HIDE DEF closing
    <2> QED BY <1>2, Joined
  <1>4. Position(u, TRUE, FALSE, Tail(rest), behind)
    BY DEF Position
  <1>5. Reads(Head(rest), u, TRUE, TRUE, rest, behind)
    BY <1>4 DEF Reads
  <1> QED BY <1>3, <1>5

(* From any position, either the entry is read whole or there is a         *)
(* character to read.                                                      *)
LEMMA EndOrReads ==
    ASSUME NEW unread, NEW inside \in BOOLEAN, NEW esc \in BOOLEAN,
           NEW rest \in Seq(Chars), NEW behind \in Seq(Chars),
           Position(unread, inside, esc, rest, behind)
    PROVE  \/ rest = <<>> /\ ~inside /\ ~esc /\ unread = behind
           \/ \E c \in Chars, u \in Seq(Chars) :
                  unread = <<c>> \o u /\ Reads(c, u, inside, esc, rest, behind)
  <1>1. CASE /\ ~inside /\ ~esc
             /\ \E n \in Nat : PlainUpTo(rest, n) /\ unread = QuotedAfter(rest, n) \o behind
    <2>1. PICK n \in Nat : PlainUpTo(rest, n) /\ unread = QuotedAfter(rest, n) \o behind
      BY <1>1
    <2>2. \/ rest = <<>> /\ QuotedAfter(rest, n) \o behind = behind
          \/ \E c \in Chars, u \in Seq(Chars) :
                /\ QuotedAfter(rest, n) \o behind = <<c>> \o u
                /\ Reads(c, u, FALSE, FALSE, rest, behind)
      BY <2>1, FromBare
    <2>3. inside = FALSE /\ esc = FALSE
      BY <1>1
    <2> QED BY <1>1, <2>1, <2>2, <2>3
  <1>2. CASE inside /\ ~esc /\ unread = Escaped(rest) \o (<<Quote>> \o behind)
    <2>1. inside = TRUE /\ esc = FALSE
      BY <1>2
    <2> QED BY <1>2, <2>1, FromInside
  <1>3. CASE /\ inside /\ esc /\ rest # <<>> /\ Head(rest) \in {Quote, Escape}
             /\ unread = <<Head(rest)>> \o (Escaped(Tail(rest)) \o (<<Quote>> \o behind))
    <2>1. inside = TRUE /\ esc = TRUE /\ Head(rest) \in Chars
      BY <1>3 DEF Chars
    <2>2. PICK u \in Seq(Chars) :
              /\ <<Head(rest)>> \o (Escaped(Tail(rest)) \o (<<Quote>> \o behind))
                    = <<Head(rest)>> \o u
              /\ Reads(Head(rest), u, TRUE, TRUE, rest, behind)
      BY <1>3, FromEscape
    <2> QED BY <1>3, <2>1, <2>2
  <1> QED BY <1>1, <1>2, <1>3 DEF Position

(***************************************************************************)
(* The entries that are still to come.                                     *)
(***************************************************************************)
Parts(list, after) ==
    [i \in DOMAIN list |->
        (IF i = 1 THEN <<>> ELSE <<Delim>>) \o QuotedAfter(list[i], after[i])]

Ahead(list, after, i) == FlattenSeq(SubSeq(Parts(list, after), i, Len(list)))

LEMMA PartsType ==
    ASSUME NEW list \in Seq(Seq(Chars)), NEW after \in [DOMAIN list -> Nat]
    PROVE  /\ Parts(list, after) \in Seq(Seq(Chars)) /\ Len(Parts(list, after)) = Len(list)
           /\ \A i \in 1..Len(list) :
                /\ QuotedAfter(list[i], after[i]) \in Seq(Chars)
                /\ Parts(list, after)[i] =
                        (IF i = 1 THEN <<>> ELSE <<Delim>>) \o QuotedAfter(list[i], after[i])
  <1>1. Len(list) \in Nat /\ DOMAIN list = 1..Len(list)
    OBVIOUS
  <1>2. ASSUME NEW i \in 1..Len(list)
        PROVE  /\ QuotedAfter(list[i], after[i]) \in Seq(Chars)
               /\ (IF i = 1 THEN <<>> ELSE <<Delim>>) \o QuotedAfter(list[i], after[i]) \in Seq(Chars)
    <2>1. list[i] \in Seq(Chars) /\ after[i] \in Nat
      BY <1>1
    <2>2. QuotedAfter(list[i], after[i]) \in Seq(Chars)
      BY <2>1, QuotedAfterType
    <2>3. <<>> \in Seq(Chars) /\ <<Delim>> \in Seq(Chars)
      BY OneChar DEF Chars
    <2>4. <<>> \o QuotedAfter(list[i], after[i]) \in Seq(Chars)
      BY <2>2, <2>3, Joined
    <2>5. <<Delim>> \o QuotedAfter(list[i], after[i]) \in Seq(Chars)
      BY <2>2, <2>3, Joined
    <2> QED BY <2>2, <2>4, <2>5
  <1> QED BY <1>1, <1>2 DEF Parts

LEMMA OneBefore ==
    ASSUME NEW S, NEW x \in S, NEW t \in Seq(S)
    PROVE  <<x>> \o t # <<>> /\ Head(<<x>> \o t) = x /\ Tail(<<x>> \o t) = t
  OBVIOUS

LEMMA AheadNext ==
    ASSUME NEW list \in Seq(Seq(Chars)), NEW after \in [DOMAIN list -> Nat],
           NEW i \in 1..Len(list)
    PROVE  /\ Ahead(list, after, i) = Parts(list, after)[i] \o Ahead(list, after, i + 1)
           /\ Ahead(list, after, i + 1) \in Seq(Chars)
  <1> DEFINE p == Parts(list, after)
             s == SubSeq(p, i, Len(list))
             t == SubSeq(p, i + 1, Len(list))
  <1>1. p \in Seq(Seq(Chars)) /\ Len(p) = Len(list) /\ Len(list) \in Nat
    BY PartsType
  <1> HIDE DEF p
  <1>2. s \in Seq(Seq(Chars)) /\ t \in Seq(Seq(Chars))
    BY <1>1
  <1>3. s = <<p[i]>> \o t
    BY <1>1, SubSeqRecursiveFirst
  <1>4. p[i] \in Seq(Chars)
    BY <1>1
  <1> HIDE DEF s, t
  <1>5. s # <<>> /\ Head(s) = p[i] /\ Tail(s) = t
    BY <1>2, <1>3, <1>4, OneBefore
  <1>6. FlattenSeq(s) = p[i] \o FlattenSeq(t)
    BY <1>2, <1>5, FlattenFirst
  <1>7. FlattenSeq(t) \in Seq(Chars)
    BY <1>2, FlattenType
  <1> QED BY <1>6, <1>7 DEF Ahead, p, s, t

LEMMA AheadEnds ==
    ASSUME NEW list \in Seq(Seq(Chars)), NEW after \in [DOMAIN list -> Nat]
    PROVE  Ahead(list, after, Len(list) + 1) = <<>>
  <1> DEFINE p == Parts(list, after)
             t == SubSeq(p, Len(list) + 1, Len(list))
  <1>1. Len(list) \in Nat
    OBVIOUS
  <1>2. t = <<>>
    BY <1>1, SubSeqEmpty
  <1>3. FlattenSeq(t) = <<>>
    BY <1>2 DEF FlattenSeq
  <1> QED BY <1>3 DEF Ahead

LEMMA AheadDelimiter ==
    ASSUME NEW list \in Seq(Seq(Chars)), NEW after \in [DOMAIN list -> Nat],
           NEW k \in 1..Len(list), k # 1
    PROVE  LET u == QuotedAfter(list[k], after[k]) \o Ahead(list, after, k + 1)
           IN  Ahead(list, after, k) = <<Delim>> \o u /\ u \in Seq(Chars)
  <1> DEFINE q == QuotedAfter(list[k], after[k])
             a == Ahead(list, after, k + 1)
  <1>1. Ahead(list, after, k) = Parts(list, after)[k] \o a /\ a \in Seq(Chars)
    BY AheadNext
  <1>2. q \in Seq(Chars) /\ Parts(list, after)[k] = (IF k = 1 THEN <<>> ELSE <<Delim>>) \o q
    BY PartsType
  <1>3. <<Delim>> \in Seq(Chars)
    BY OneChar DEF Chars
  <1>4. Parts(list, after)[k] = <<Delim>> \o q
    BY <1>2
  <1> HIDE DEF q, a
  <1>5. (<<Delim>> \o q) \o a = <<Delim>> \o (q \o a) /\ q \o a \in Seq(Chars)
    BY <1>1, <1>2, <1>3, Grouped, Joined
  <1> QED BY <1>1, <1>4, <1>5 DEF q, a

LEMMA WrittenAhead ==
    ASSUME NEW list \in Seq(Seq(Chars)), NEW after \in [DOMAIN list -> Nat], list # <<>>
    PROVE  /\ Written(list, after) \in Seq(Chars)
           /\ Written(list, after) = QuotedAfter(list[1], after[1]) \o Ahead(list, after, 2)
  <1> DEFINE p == Parts(list, after)
             a == QuotedAfter(list[1], after[1])
             b == Ahead(list, after, 2)
  <1>1. p \in Seq(Seq(Chars)) /\ Len(p) = Len(list) /\ Len(list) \in Nat /\ 1 \in 1..Len(list)
    BY PartsType
  <1>2. Written(list, after) = FlattenSeq(p)
    BY DEF Written, Parts
  <1>3. SubSeq(p, 1, Len(list)) = p
    BY <1>1, SubSeqFull
  <1>4. p[1] = <<>> \o a /\ a \in Seq(Chars)
    BY <1>1, PartsType
  <1>5. Ahead(list, after, 1) = p[1] \o b /\ b \in Seq(Chars)
    <2>1. /\ Ahead(list, after, 1) = p[1] \o Ahead(list, after, 1 + 1)
          /\ Ahead(list, after, 1 + 1) \in Seq(Chars)
      BY <1>1, AheadNext
    <2>2. 1 + 1 = 2
      OBVIOUS
    <2> QED BY <2>1, <2>2
  <1>6. Ahead(list, after, 1) = FlattenSeq(p)
    BY <1>3 DEF Ahead
  <1> HIDE DEF p, a, b
  <1>7. <<>> \o a = a /\ a \o b \in Seq(Chars)
    BY <1>4, <1>5, Joined
  <1> QED BY <1>2, <1>4, <1>5, <1>6, <1>7 DEF a, b

(***************************************************************************)
(* The state of split_quoted in a list.                                    *)
(***************************************************************************)
Unread == SubSeq(str, pos + 1, Len(str))

(* Between the entries found and those to come there is one, of which oss  *)
(* is the part that has been read.                                         *)
InEntry(after, rest) ==
    /\ Len(result) < Len(entries)
    /\ result = SubSeq(entries, 1, Len(result))
    /\ entries[Len(result) + 1] = oss \o rest
    /\ Position(Unread, insideQuoted, escaped, rest, Ahead(entries, after, Len(result) + 2))

InList ==
    \E after \in [DOMAIN entries -> Nat] :
        /\ \A i \in DOMAIN entries : PlainUpTo(entries[i], after[i])
        /\ \E rest \in Seq(Chars) : InEntry(after, rest)

SplitTypeOK ==
    /\ entries \in Seq(Seq(Chars)) /\ result \in Seq(Seq(Chars)) /\ oss \in Seq(Chars)
    /\ str \in Seq(Chars) /\ pos \in 0..Len(str)
    /\ insideQuoted \in BOOLEAN /\ escaped \in BOOLEAN /\ returned \in BOOLEAN

SplitInv ==
    /\ SplitTypeOK
    /\ entries = <<>> => /\ str = <<>> /\ pos = 0 /\ oss = <<>> /\ result = <<>>
                         /\ ~insideQuoted /\ ~escaped
    /\ (entries # <<>> /\ ~returned) => InList
    /\ ListReadBack

LEMMA InitSplitInv == SplitInit => SplitInv
  <1> SUFFICES ASSUME SplitInit PROVE SplitInv
    OBVIOUS
  <1>1. SplitTypeOK
    <2>1. <<>> \in Seq(Seq(Chars)) /\ <<>> \in Seq(Chars) /\ 0 \in 0..Len(<<>>)
      OBVIOUS
    <2> QED BY <2>1, Zenon DEF SplitInit, SplitTypeOK
  <1> QED BY <1>1 DEF SplitInit, SplitInv, ListReadBack

(* A turn takes the first character of what is unread.                     *)
LEMMA TurnReadsFirst ==
    ASSUME SplitTypeOK, ~returned, pos < Len(str), pos' = pos + 1, str' = str,
           NEW c \in Chars, NEW u \in Seq(Chars), Unread = <<c>> \o u
    PROVE  Next1 = c /\ Unread' = u /\ pos' \in 0..Len(str')
  <1> DEFINE v == SubSeq(str, pos + 2, Len(str))
             d == str[pos + 1]
  <1>1. pos \in Nat /\ Len(str) \in Nat /\ pos + 1 \in 1..Len(str) /\ (pos + 1) + 1 = pos + 2
    BY DEF SplitTypeOK
  <1>2. d \in Chars /\ v \in Seq(Chars)
    BY <1>1 DEF SplitTypeOK
  <1>3. Unread = <<d>> \o v
    <2>1. SubSeq(str, pos + 1, Len(str)) = <<str[pos + 1]>> \o SubSeq(str, (pos + 1) + 1, Len(str))
      BY <1>1, SubSeqRecursiveFirst DEF SplitTypeOK
    <2> QED BY <1>1, <2>1 DEF Unread
  <1>4. Next1 = d
    BY DEF Next1
  <1>5. Unread' = v
    BY <1>1 DEF Unread
  <1> HIDE DEF d, v
  <1>6. <<c>> \o u = <<d>> \o v
    BY <1>3
  <1>7. Head(<<c>> \o u) = c /\ Tail(<<c>> \o u) = u
    BY OneBefore
  <1>8. Head(<<d>> \o v) = d /\ Tail(<<d>> \o v) = v
    BY <1>2, OneBefore
  <1>9. c = d /\ u = v
    BY <1>6, <1>7, <1>8
  <1> QED BY <1>1, <1>4, <1>5, <1>9

LEMMA Apart ==
    /\ Delim # Quote /\ Delim # Escape /\ Quote # Escape
    /\ Delim \notin Plain /\ Quote \notin Plain /\ Escape \notin Plain
    /\ Delim \in Chars /\ Quote \in Chars /\ Escape \in Chars
  BY SplitAssumption DEF Chars

LEMMA HeadMoves ==
    ASSUME NEW a \in Seq(Chars), NEW b \in Seq(Chars), b # <<>>
    PROVE  /\ (a \o <<Head(b)>>) \o Tail(b) = a \o b
           /\ Append(a, Head(b)) = a \o <<Head(b)>>
           /\ a \o <<Head(b)>> \in Seq(Chars)
  <1>1. Head(b) \in Chars /\ Tail(b) \in Seq(Chars) /\ b = <<Head(b)>> \o Tail(b)
    BY HeadFirst
  <1>2. <<Head(b)>> \in Seq(Chars)
    BY <1>1, OneChar
  <1>3. (a \o <<Head(b)>>) \o Tail(b) = a \o (<<Head(b)>> \o Tail(b))
    BY <1>1, <1>2, Grouped
  <1>4. Append(a, Head(b)) = a \o <<Head(b)>>
    BY <1>1
  <1>5. a \o <<Head(b)>> \in Seq(Chars)
    BY <1>2, Joined
  <1> QED BY <1>1, <1>3, <1>4, <1>5

(* A turn that ends no entry, by the position it leads to.                 *)
LEMMA StaysInEntry ==
    ASSUME SplitTypeOK, ~returned, entries # <<>>,
           UNCHANGED <<entries, returned, result, str>>, pos' \in 0..Len(str'),
           insideQuoted' \in BOOLEAN, escaped' \in BOOLEAN, oss' \in Seq(Chars),
           NEW after \in [DOMAIN entries -> Nat],
           \A i \in DOMAIN entries : PlainUpTo(entries[i], after[i]),
           NEW rest \in Seq(Chars), InEntry(after, rest),
           NEW r \in Seq(Chars), oss' \o r = oss \o rest,
           Position(Unread', insideQuoted', escaped', r, Ahead(entries, after, Len(result) + 2))
    PROVE  SplitInv'
  <1>1. SplitTypeOK'
    BY DEF SplitTypeOK
  <1>2. InEntry(after, r)'
    BY Zenon DEF InEntry
  <1>3. \A i \in DOMAIN entries : PlainUpTo(entries[i], after[i])'
    BY Zenon DEF PlainUpTo
  <1>4. InList'
    BY <1>2, Zenon DEF InList, PlainUpTo
  <1>5. ListReadBack'
    BY DEF ListReadBack
  <1> QED BY <1>1, <1>4, <1>5, Zenon DEF SplitInv

(* The six branches of the loop.                                           *)
Branch ==
    \/ EscapedCharacter \/ EscapeCharacter \/ DelimiterKept \/ EntryEnds
    \/ QuoteCharacter \/ OtherCharacter

(* A turn at the end of an entry, where only a delimiter can come.         *)
LEMMA EndsEntry ==
    ASSUME SplitTypeOK, ~returned, entries # <<>>, Branch,
           NEW after \in [DOMAIN entries -> Nat],
           \A i \in DOMAIN entries : PlainUpTo(entries[i], after[i]),
           InEntry(after, <<>>), ~insideQuoted, ~escaped,
           Unread = Ahead(entries, after, Len(result) + 2)
    PROVE  SplitInv'
  <1> DEFINE k == Len(result) + 2
             q == QuotedAfter(entries[k], after[k])
             u == q \o Ahead(entries, after, k + 1)
  <1>1. /\ ~returned /\ pos < Len(str) /\ pos' = pos + 1
        /\ UNCHANGED <<entries, str, returned>>
    BY DEF Branch, EscapedCharacter, EscapeCharacter, DelimiterKept, EntryEnds, QuoteCharacter,
           OtherCharacter, Turn
  <1>2. /\ Len(result) \in Nat /\ Len(entries) \in Nat /\ Len(str) \in Nat /\ pos \in Nat
        /\ entries \in Seq(Seq(Chars)) /\ str \in Seq(Chars) /\ oss \in Seq(Chars)
        /\ result \in Seq(Seq(Chars)) /\ DOMAIN entries = 1..Len(entries)
    BY DEF SplitTypeOK
  <1>3. Unread # <<>>
    <2>1. Len(Unread) = Len(str) - pos
      BY <1>1, <1>2 DEF Unread
    <2>2. Len(Unread) # 0
      BY <1>1, <1>2, <2>1
    <2>3. Len(<<>>) = 0
      OBVIOUS
    <2> QED BY <2>2, <2>3, Zenon
  <1>4. k <= Len(entries)
    <2>1. SUFFICES ASSUME k > Len(entries) PROVE FALSE
      BY <1>2
    <2>2. Len(result) < Len(entries)
      BY DEF InEntry
    <2>3. k = Len(entries) + 1
      BY <1>2, <2>1, <2>2
    <2>4. Ahead(entries, after, Len(entries) + 1) = <<>>
      BY <1>2, AheadEnds
    <2> QED BY <1>3, <2>3, <2>4
  <1>5. k \in 1..Len(entries) /\ k # 1
    BY <1>2, <1>4
  <1>6. Unread = <<Delim>> \o u /\ u \in Seq(Chars)
    BY <1>2, <1>5, AheadDelimiter
  <1> HIDE DEF u
  <1>8. Next1 = Delim /\ Unread' = u /\ pos' \in 0..Len(str')
    BY <1>1, <1>6, TurnReadsFirst, Apart
  <1>9. EntryEnds
    BY <1>8, Apart DEF Branch, EscapedCharacter, EscapeCharacter, DelimiterKept, QuoteCharacter,
                       OtherCharacter
  <1>10. /\ result' = Append(result, oss) /\ oss' = <<>>
         /\ insideQuoted' = insideQuoted /\ escaped' = escaped
    BY <1>9 DEF EntryEnds
  <1>11. entries[Len(result) + 1] = oss
    <2>1. entries[Len(result) + 1] = oss \o <<>>
      BY DEF InEntry
    <2>2. <<>> \in Seq(Chars)
      OBVIOUS
    <2> QED BY <1>2, <2>1, <2>2, Joined
  <1>12. Len(result') = Len(result) + 1 /\ result' \in Seq(Seq(Chars))
    BY <1>2, <1>10
  <1>13. result' = SubSeq(entries, 1, Len(result'))
    <2>1. Len(result) + 1 \in 1..Len(entries) /\ 1 \in 1..Len(entries)
      BY <1>2, <1>5
    <2>2. SubSeq(entries, 1, Len(result) + 1)
            = SubSeq(entries, 1, (Len(result) + 1) - 1) \o <<entries[Len(result) + 1]>>
      BY <1>2, <2>1, SubSeqRecursiveSecond
    <2>3. (Len(result) + 1) - 1 = Len(result)
      BY <1>2
    <2>4. result = SubSeq(entries, 1, Len(result))
      BY DEF InEntry
    <2>5. Append(result, oss) = result \o <<oss>>
      BY <1>2
    <2>6. SubSeq(entries, 1, Len(result) + 1) = result \o <<oss>>
      BY <1>11, <2>2, <2>3, <2>4, Zenon
    <2> QED BY <1>10, <1>12, <2>5, <2>6, Zenon
  <1>14. entries[k] \in Seq(Chars) /\ after[k] \in Nat
    BY <1>2, <1>5
  <1>15. Position(u, FALSE, FALSE, entries[k], Ahead(entries, after, k + 1))
    <2>1. PlainUpTo(entries[k], after[k])
      BY <1>2, <1>5
    <2> QED BY <1>14, <2>1 DEF Position, u
  <1>16. PICK next \in Seq(Chars) : next = entries[k]
    BY <1>14
  <1>17. Len(result') + 1 = k /\ Len(result') + 2 = k + 1 /\ Len(result') < Len(entries)
    BY <1>2, <1>5, <1>12
  <1>18. Position(Unread', insideQuoted', escaped', next,
                  Ahead(entries', after, Len(result') + 2))
    <2>1. insideQuoted' = FALSE /\ escaped' = FALSE
      BY <1>10 DEF SplitTypeOK
    <2> QED BY <1>1, <1>8, <1>15, <1>16, <1>17, <2>1
  <1>19. entries'[Len(result') + 1] = oss' \o next
    <2>1. <<>> \in Seq(Chars)
      OBVIOUS
    <2>2. <<>> \o next = next
      BY <2>1, Joined
    <2> QED BY <1>1, <1>10, <1>16, <1>17, <2>2
  <1>20. InEntry(after, next)'
    <2>1. result' = SubSeq(entries', 1, Len(result')) /\ Len(result') < Len(entries')
      BY <1>1, <1>13, <1>17
    <2> QED BY <1>18, <1>19, <2>1, Zenon DEF InEntry
  <1>21. InList'
    <2>1. after \in [DOMAIN entries' -> Nat]
          /\ \A i \in DOMAIN entries' : PlainUpTo(entries'[i], after[i])
      BY <1>1
    <2> QED BY <1>20, <2>1, Zenon DEF InList
  <1>22. SplitTypeOK'
    <2>1. <<>> \in Seq(Chars)
      OBVIOUS
    <2> QED BY <1>1, <1>8, <1>10, <1>12, <2>1 DEF SplitTypeOK
  <1>23. ListReadBack' /\ entries' # <<>>
    BY <1>1 DEF ListReadBack
  <1> QED BY <1>21, <1>22, <1>23, Zenon DEF SplitInv

(* Every other turn, by the character it reads.                            *)
LEMMA ReadsOn ==
    ASSUME Quote = DoubleQuote, SplitTypeOK, ~returned, entries # <<>>, Branch,
           NEW after \in [DOMAIN entries -> Nat],
           \A i \in DOMAIN entries : PlainUpTo(entries[i], after[i]),
           NEW rest \in Seq(Chars), InEntry(after, rest),
           NEW c \in Chars, NEW u \in Seq(Chars), Unread = <<c>> \o u,
           Reads(c, u, insideQuoted, escaped, rest, Ahead(entries, after, Len(result) + 2))
    PROVE  SplitInv'
  <1> DEFINE behind == Ahead(entries, after, Len(result) + 2)
  <1>1. /\ pos < Len(str) /\ pos' = pos + 1
        /\ UNCHANGED <<entries, str, returned>>
    BY DEF Branch, EscapedCharacter, EscapeCharacter, DelimiterKept, EntryEnds, QuoteCharacter,
           OtherCharacter, Turn
  <1>2. Next1 = c /\ Unread' = u /\ pos' \in 0..Len(str')
    BY <1>1, TurnReadsFirst
  <1>3. oss \in Seq(Chars) /\ insideQuoted \in BOOLEAN /\ escaped \in BOOLEAN
    BY DEF SplitTypeOK
  <1>4. CASE /\ escaped /\ insideQuoted
             /\ rest # <<>> /\ c = Head(rest) /\ c \in {Quote, Escape}
             /\ Position(u, TRUE, FALSE, Tail(rest), behind)
    <2>1. EscapedCharacter
      BY <1>4 DEF Branch, EscapeCharacter, DelimiterKept, EntryEnds, QuoteCharacter, OtherCharacter
    <2>2. Unescaped(c) = <<c>>
      BY <1>4 DEF Unescaped
    <2>3. /\ oss' = oss \o <<Head(rest)>> /\ escaped' = FALSE
          /\ insideQuoted' = TRUE /\ result' = result
      BY <1>2, <1>3, <1>4, <2>1, <2>2 DEF EscapedCharacter
    <2>4. /\ oss' \in Seq(Chars) /\ oss' \o Tail(rest) = oss \o rest /\ Tail(rest) \in Seq(Chars)
      BY <1>3, <1>4, <2>3, HeadMoves, HeadFirst
    <2>5. Position(Unread', insideQuoted', escaped', Tail(rest), behind)
      BY <1>2, <1>4, <2>3
    <2>6. UNCHANGED <<entries, returned, result, str>>
      BY <1>1, <2>3
    <2> QED BY <1>2, <2>3, <2>4, <2>5, <2>6, StaysInEntry
  <1>5. CASE ~escaped /\ c = Escape /\ Position(u, insideQuoted, TRUE, rest, behind)
    <2>1. EscapeCharacter
      BY <1>2, <1>5, Apart
         DEF Branch, EscapedCharacter, DelimiterKept, EntryEnds, QuoteCharacter, OtherCharacter
    <2>2. oss' = oss /\ escaped' = TRUE /\ insideQuoted' = insideQuoted /\ result' = result
      BY <2>1 DEF EscapeCharacter
    <2>3. Position(Unread', insideQuoted', escaped', rest, behind)
      BY <1>2, <1>5, <2>2
    <2>4. UNCHANGED <<entries, returned, result, str>>
      BY <1>1, <2>2
    <2> QED BY <1>2, <1>3, <2>2, <2>3, <2>4, StaysInEntry
  <1>6. CASE ~escaped /\ c = Quote /\ Position(u, ~insideQuoted, FALSE, rest, behind)
    <2>1. QuoteCharacter
      BY <1>2, <1>6, Apart
         DEF Branch, EscapedCharacter, EscapeCharacter, DelimiterKept, EntryEnds, OtherCharacter
    <2>2. oss' = oss /\ escaped' = escaped /\ insideQuoted' = ~insideQuoted /\ result' = result
      BY <2>1 DEF QuoteCharacter
    <2>3. Position(Unread', insideQuoted', escaped', rest, behind)
      BY <1>2, <1>3, <1>6, <2>2
    <2>4. UNCHANGED <<entries, returned, result, str>>
      BY <1>1, <2>2
    <2> QED BY <1>2, <1>3, <2>2, <2>3, <2>4, StaysInEntry
  <1>7. CASE /\ ~escaped
             /\ (c = Delim /\ insideQuoted) \/ c \in Plain
             /\ rest # <<>> /\ c = Head(rest)
             /\ Position(u, insideQuoted, FALSE, Tail(rest), behind)
    <2>1. DelimiterKept \/ OtherCharacter
      BY <1>2, <1>7, Apart
         DEF Branch, EscapedCharacter, EscapeCharacter, EntryEnds, QuoteCharacter
    <2>2. /\ oss' = Append(oss, Head(rest)) /\ escaped' = escaped
          /\ insideQuoted' = insideQuoted /\ result' = result
      BY <1>2, <1>7, <2>1 DEF DelimiterKept, OtherCharacter
    <2>3. /\ oss' \in Seq(Chars) /\ oss' \o Tail(rest) = oss \o rest /\ Tail(rest) \in Seq(Chars)
      <3>1. oss' = oss \o <<Head(rest)>>
        BY <1>3, <1>7, <2>2, HeadMoves
      <3> QED BY <1>3, <1>7, <3>1, HeadMoves, HeadFirst
    <2>4. Position(Unread', insideQuoted', escaped', Tail(rest), behind)
      BY <1>2, <1>3, <1>7, <2>2
    <2>5. UNCHANGED <<entries, returned, result, str>>
      BY <1>1, <2>2
    <2> QED BY <1>2, <1>3, <2>2, <2>3, <2>4, <2>5, StaysInEntry
  <1> QED BY <1>4, <1>5, <1>6, <1>7 DEF Reads

(***************************************************************************)
(* The end of the text, and what a call writes.                            *)
(***************************************************************************)
LEMMA NothingUnread ==
    ASSUME NEW inside \in BOOLEAN, NEW esc \in BOOLEAN,
           NEW rest \in Seq(Chars), NEW behind \in Seq(Chars),
           Position(<<>>, inside, esc, rest, behind)
    PROVE  rest = <<>> /\ ~esc /\ behind = <<>>
  <1>1. \A c \in Chars, u \in Seq(Chars) : <<c>> \o u # <<>>
    BY OneBefore
  <1>2. \/ rest = <<>> /\ ~inside /\ ~esc /\ <<>> = behind
        \/ \E c \in Chars, u \in Seq(Chars) :
               <<>> = <<c>> \o u /\ Reads(c, u, inside, esc, rest, behind)
    BY EndOrReads
  <1> QED BY <1>1, <1>2, Zenon

(* At the end of the text the last entry has been read.                    *)
LEMMA ReturnsList ==
    ASSUME SplitInv, Return
    PROVE  SplitInv'
  <1>1. /\ ~returned /\ pos = Len(str) /\ returned' = TRUE
        /\ UNCHANGED <<entries, str, pos, insideQuoted, escaped, oss>>
    BY DEF Return
  <1>2. /\ Len(result) \in Nat /\ Len(entries) \in Nat /\ Len(str) \in Nat
        /\ entries \in Seq(Seq(Chars)) /\ str \in Seq(Chars) /\ oss \in Seq(Chars)
        /\ result \in Seq(Seq(Chars)) /\ DOMAIN entries = 1..Len(entries)
        /\ insideQuoted \in BOOLEAN /\ escaped \in BOOLEAN
    BY DEF SplitInv, SplitTypeOK
  <1>3. ASSUME ~escaped
        PROVE  result' = IF oss # <<>> THEN Append(result, oss) ELSE result
    BY <1>3 DEF Return
  <1>4. CASE entries = <<>>
    <2>1. ~escaped /\ oss = <<>> /\ result = <<>> /\ str = <<>> /\ pos = 0 /\ ~insideQuoted
      BY <1>4 DEF SplitInv
    <2>2. result' = <<>>
      BY <1>3, <2>1
    <2>3. SplitTypeOK'
      BY <1>1, <2>1, <2>2 DEF SplitInv, SplitTypeOK
    <2>4. ListReadBack'
      BY <1>1, <1>4, <2>2 DEF ListReadBack
    <2> QED BY <1>1, <1>4, <2>1, <2>2, <2>3, <2>4, Zenon DEF SplitInv
  <1>5. CASE entries # <<>>
    <2>1. PICK after \in [DOMAIN entries -> Nat], rest \in Seq(Chars) : InEntry(after, rest)
      BY <1>1, <1>5 DEF SplitInv, InList
    <2>2. /\ Len(result) < Len(entries) /\ result = SubSeq(entries, 1, Len(result))
          /\ entries[Len(result) + 1] = oss \o rest
          /\ Position(Unread, insideQuoted, escaped, rest, Ahead(entries, after, Len(result) + 2))
      BY <2>1 DEF InEntry
    <2>3. Unread = <<>>
      BY <1>1, <1>2, SubSeqEmpty DEF Unread
    <2>4. PICK k \in Nat : k = Len(result) + 2
      BY <1>2
    <2>5. k = Len(entries) + 1 \/ (k \in 1..Len(entries) /\ k # 1)
      BY <1>2, <2>2, <2>4
    <2>6. Ahead(entries, after, k) \in Seq(Chars)
      <3>1. k - 1 \in 1..Len(entries) /\ (k - 1) + 1 = k
        BY <1>2, <2>2, <2>4
      <3>2. Ahead(entries, after, (k - 1) + 1) \in Seq(Chars)
        BY <1>2, <3>1, AheadNext
      <3> QED BY <3>1, <3>2
    <2>7. rest = <<>> /\ ~escaped /\ Ahead(entries, after, k) = <<>>
      <3>1. Position(<<>>, insideQuoted, escaped, rest, Ahead(entries, after, k))
        BY <2>2, <2>3, <2>4
      <3> QED BY <1>2, <2>6, <3>1, NothingUnread
    <2>8. CASE k \in 1..Len(entries) /\ k # 1
      <3> DEFINE u == QuotedAfter(entries[k], after[k]) \o Ahead(entries, after, k + 1)
      <3>1. Ahead(entries, after, k) = <<Delim>> \o u /\ u \in Seq(Chars)
        BY <1>2, <2>8, AheadDelimiter
      <3> HIDE DEF u
      <3> QED BY <2>7, <3>1, Apart, OneBefore
    <2>9. CASE k = Len(entries) + 1
      <3>3. Len(result) + 1 = Len(entries) /\ Len(entries) \in 1..Len(entries) /\ 1 \in 1..Len(entries)
            /\ Len(entries) - 1 = Len(result)
        <4>1. Len(result) \in Nat /\ Len(entries) \in Nat
          BY <1>2
        <4>2. Len(result) + 2 = Len(entries) + 1
          BY <2>4, <2>9
        <4> QED BY <4>1, <4>2
      <3>4. entries[Len(entries)] = oss
        BY <1>2, <2>2, <2>7, <3>3, Joined
      <3>5. result' = IF oss # <<>> THEN Append(result, oss) ELSE result
        BY <1>3, <2>7
      <3>6. Append(result, oss) = entries
        <4>1. SubSeq(entries, 1, Len(entries))
                = SubSeq(entries, 1, Len(entries) - 1) \o <<entries[Len(entries)]>>
          BY <1>2, <3>3, SubSeqRecursiveSecond
        <4>2. SubSeq(entries, 1, Len(entries)) = entries
          BY <1>2, SubSeqFull
        <4>3. Append(result, oss) = result \o <<oss>>
          BY <1>2
        <4> QED BY <2>2, <3>3, <3>4, <4>1, <4>2, <4>3, Zenon
      <3>7. Last(entries) = oss /\ Front(entries) = result
        BY <2>2, <3>3, <3>4, Zenon DEF Last, Front
      <3>8. ListReadBack'
        <4>1. result' = IF Last(entries) = <<>> THEN Front(entries) ELSE entries
          BY <3>5, <3>6, <3>7
        <4> QED BY <1>1, <1>5, <4>1, Zenon DEF ListReadBack
      <3>9. SplitTypeOK'
        <4>1. result' \in Seq(Seq(Chars))
          BY <1>2, <3>5
        <4> QED BY <1>1, <4>1 DEF SplitInv, SplitTypeOK
      <3> QED BY <1>1, <1>5, <3>8, <3>9, Zenon DEF SplitInv
    <2> QED BY <2>5, <2>8, <2>9
  <1> QED BY <1>4, <1>5

LEMMA CalledWithList ==
    ASSUME SplitInv, NEW ps, NEW list \in Seq(Seq(Chars)), NEW after \in [DOMAIN list -> Nat],
           \A i \in DOMAIN list : PlainUpTo(list[i], after[i]),
           CallWith(ps, list, after)
    PROVE  SplitInv'
  <1>1. /\ entries = <<>> /\ entries' = list /\ str' = Written(list, after) /\ returned' = FALSE
        /\ UNCHANGED <<pos, insideQuoted, escaped, oss, result>>
    BY DEF CallWith
  <1>2. /\ str = <<>> /\ pos = 0 /\ oss = <<>> /\ result = <<>> /\ ~insideQuoted /\ ~escaped
        /\ insideQuoted = FALSE /\ escaped = FALSE
    BY <1>1 DEF SplitInv, SplitTypeOK
  <1>3. Written(list, after) \in Seq(Chars)
        /\ (list = <<>> => Written(list, after) = <<>>)
    <2>1. Written(list, after) = FlattenSeq(Parts(list, after))
      BY DEF Written, Parts
    <2>2. Parts(list, after) \in Seq(Seq(Chars)) /\ Len(Parts(list, after)) = Len(list)
      BY PartsType
    <2>3. FlattenSeq(Parts(list, after)) \in Seq(Chars)
      BY <2>2, FlattenType
    <2>4. list = <<>> => FlattenSeq(Parts(list, after)) = <<>>
      BY <2>2 DEF FlattenSeq
    <2> QED BY <2>1, <2>3, <2>4
  <1>4. SplitTypeOK'
    <2>1. pos' \in 0..Len(str')
      BY <1>1, <1>2, <1>3
    <2>2. result' \in Seq(Seq(Chars)) /\ oss' \in Seq(Chars)
      BY <1>1 DEF SplitInv, SplitTypeOK
    <2> QED BY <1>1, <1>2, <1>3, <2>1, <2>2 DEF SplitTypeOK
  <1>5. ListReadBack'
    BY <1>1 DEF ListReadBack
  <1>6. CASE list = <<>>
    BY <1>1, <1>2, <1>3, <1>4, <1>5, <1>6, Zenon DEF SplitInv
  <1>7. CASE list # <<>>
    <2>1. PICK first \in Seq(Chars) : first = list[1]
      BY <1>7
    <2>2. after[1] \in Nat /\ 1 \in DOMAIN list /\ Len(list) \in Nat /\ Len(list) > 0
      BY <1>7
    <2>3. Written(list, after) = QuotedAfter(first, after[1]) \o Ahead(list, after, 2)
      BY <1>7, <2>1, WrittenAhead
    <2>4. Unread' = Written(list, after)
      <3>1. SubSeq(str', 1, Len(str')) = str'
        BY <1>1, <1>3, SubSeqFull
      <3>2. pos' + 1 = 1
        BY <1>1, <1>2
      <3> QED BY <1>1, <3>1, <3>2 DEF Unread
    <2>5. PlainUpTo(first, after[1])
      BY <2>1, <2>2
    <2>6. Position(Unread', insideQuoted', escaped', first, Ahead(entries', after, Len(result') + 2))
      <3>1. Position(Written(list, after), FALSE, FALSE, first, Ahead(list, after, 2))
        BY <2>2, <2>3, <2>5 DEF Position
      <3>2. Len(result') + 2 = 2
        BY <1>1, <1>2
      <3>3. insideQuoted' = FALSE /\ escaped' = FALSE
        BY <1>1, <1>2
      <3> QED BY <1>1, <2>4, <3>1, <3>2, <3>3, Zenon
    <2>7. InEntry(after, first)'
      <3>1. Len(result') < Len(entries') /\ Len(result') + 1 = 1 /\ Len(result') = 0
        BY <1>1, <1>2, <2>2
      <3>2. result' = SubSeq(entries', 1, Len(result'))
        BY <1>1, <1>2, <3>1, SubSeqEmpty
      <3>3. entries'[Len(result') + 1] = oss' \o first
        <4>1. <<>> \in Seq(Chars)
          OBVIOUS
        <4>2. <<>> \o first = first
          BY <4>1, Joined
        <4> QED BY <1>1, <1>2, <2>1, <3>1, <4>2
      <3> QED BY <2>6, <3>1, <3>2, <3>3, Zenon DEF InEntry
    <2>8. InList'
      <3>1. after \in [DOMAIN entries' -> Nat]
            /\ \A i \in DOMAIN entries' : PlainUpTo(entries'[i], after[i])
        BY <1>1
      <3> QED BY <2>7, <3>1, Zenon DEF InList
    <2> QED BY <1>1, <1>4, <1>5, <1>7, <2>8, Zenon DEF SplitInv
  <1> QED BY <1>6, <1>7

PairTexts(n, ps) == [i \in 1..n |-> ps[i][1] \o <<Assign>> \o ps[i][2]]

KeyLengths(n, ps) == [i \in 1..n |-> Len(ps[i][1]) + 1]

LEMMA CalledWithParameters ==
    ASSUME NEW n \in Nat, NEW ps \in [1..n -> Keys \X Values]
    PROVE  /\ PairTexts(n, ps) \in Seq(Seq(Chars))
           /\ KeyLengths(n, ps) \in [DOMAIN PairTexts(n, ps) -> Nat]
           /\ \A i \in DOMAIN PairTexts(n, ps) :
                  PlainUpTo(PairTexts(n, ps)[i], KeyLengths(n, ps)[i])
  <1>1. ASSUME NEW i \in 1..n
        PROVE  /\ ps[i][1] \o <<Assign>> \o ps[i][2] \in Seq(Chars)
               /\ Len(ps[i][1]) + 1 \in Nat
               /\ PlainUpTo(ps[i][1] \o <<Assign>> \o ps[i][2], Len(ps[i][1]) + 1)
    <2> DEFINE a == <<Assign>>
    <2>1. PICK k \in Keys, v \in Values : ps[i][1] = k /\ ps[i][2] = v
      <3>1. ps[i] \in Keys \X Values
        OBVIOUS
      <3> QED BY <3>1
    <2>2. k \in Seq(Plain) /\ v \in Seq(Chars) /\ Assign \in Plain
      BY SplitAssumption DEF Chars
    <2>3. k \in Seq(Chars) /\ Assign \in Chars
      BY <2>2 DEF Chars
    <2>4. a \in Seq(Chars)
      BY <2>3, OneChar
    <2>5. Len(a) = 1 /\ a[1] = Assign
      OBVIOUS
    <2> HIDE DEF a
    <2>6. /\ k \o a \in Seq(Chars) /\ Len(k \o a) = Len(k) + 1
          /\ \A j \in 1..Len(k) + 1 : (k \o a)[j] = IF j <= Len(k) THEN k[j] ELSE a[j - Len(k)]
      <3>1. /\ k \o a \in Seq(Chars) /\ Len(k \o a) = Len(k) + Len(a)
            /\ \A j \in 1..Len(k) + Len(a) :
                    (k \o a)[j] = IF j <= Len(k) THEN k[j] ELSE a[j - Len(k)]
        BY <2>3, <2>4, ConcatProperties
      <3> QED BY <2>5, <3>1
    <2>7. ASSUME NEW j \in 1..Len(k) + 1 PROVE (k \o a)[j] \in Plain
      <3>1. CASE j <= Len(k)
        BY <2>2, <2>6, <2>7, <3>1
      <3>2. CASE ~(j <= Len(k))
        <4>1. j - Len(k) = 1
          BY <2>2, <3>2
        <4> QED BY <2>2, <2>5, <2>6, <3>2, <4>1
      <3> QED BY <3>1, <3>2
    <2>8. /\ (k \o a) \o v \in Seq(Chars) /\ Len((k \o a) \o v) = Len(k) + 1 + Len(v)
          /\ \A j \in 1..Len(k) + 1 + Len(v) :
                 ((k \o a) \o v)[j] = IF j <= Len(k) + 1 THEN (k \o a)[j] ELSE v[j - (Len(k) + 1)]
      <3> DEFINE b == k \o a
      <3>1. b \in Seq(Chars) /\ Len(b) = Len(k) + 1
        BY <2>6
      <3> HIDE DEF b
      <3>2. /\ b \o v \in Seq(Chars) /\ Len(b \o v) = Len(b) + Len(v)
            /\ \A j \in 1..Len(b) + Len(v) :
                   (b \o v)[j] = IF j <= Len(b) THEN b[j] ELSE v[j - Len(b)]
        BY <2>2, <3>1, ConcatProperties
      <3> QED BY <3>1, <3>2 DEF b
    <2>9. PlainUpTo((k \o a) \o v, Len(k) + 1)
      <3> SUFFICES ASSUME NEW j \in 1..Len(k) + 1 + Len(v), j <= Len(k) + 1
                   PROVE  ((k \o a) \o v)[j] \in Plain
        BY <2>8 DEF PlainUpTo
      <3>1. j \in 1..Len(k) + 1
        BY <2>2
      <3> QED BY <2>7, <2>8, <3>1
    <2>10. Len(k) + 1 \in Nat
      BY <2>2
    <2> QED BY <2>1, <2>8, <2>9, <2>10 DEF a
  <1>2. PairTexts(n, ps) \in Seq(Seq(Chars)) /\ DOMAIN PairTexts(n, ps) = 1..n
    BY <1>1 DEF PairTexts
  <1>3. KeyLengths(n, ps) \in [1..n -> Nat]
    BY <1>1 DEF KeyLengths
  <1>4. \A i \in 1..n : PlainUpTo(PairTexts(n, ps)[i], KeyLengths(n, ps)[i])
    BY <1>1 DEF PairTexts, KeyLengths
  <1> QED BY <1>2, <1>3, <1>4

LEMMA CallsAreWritten ==
    ASSUME SplitInv, Call \/ CallWithParameters
    PROVE  SplitInv'
  <1>1. CASE Call
    <2>1. PICK list \in Lists : \E after \in [DOMAIN list -> {0, 1, 3}] :
              /\ \A i \in DOMAIN list : \A j \in DOMAIN list[i] : j <= after[i] => list[i][j] \in Plain
              /\ CallWith(<<>>, list, after)
      BY <1>1 DEF Call
    <2>2. PICK after \in [DOMAIN list -> {0, 1, 3}] :
              /\ \A i \in DOMAIN list : \A j \in DOMAIN list[i] : j <= after[i] => list[i][j] \in Plain
              /\ CallWith(<<>>, list, after)
      BY <2>1
    <2>3. list \in Seq(Seq(Chars))
      BY SplitAssumption DEF Chars
    <2>4. after \in [DOMAIN list -> Nat]
      BY <2>2
    <2>5. \A i \in DOMAIN list : PlainUpTo(list[i], after[i])
      BY <2>2 DEF PlainUpTo
    <2> QED BY <2>2, <2>3, <2>4, <2>5, CalledWithList
  <1>2. CASE CallWithParameters
    <2>1. PICK n \in 1..MaxParams : \E ps \in [1..n -> Keys \X Values] :
              CallWith(ps, PairTexts(n, ps), KeyLengths(n, ps))
      BY <1>2 DEF CallWithParameters, PairTexts, KeyLengths
    <2>2. PICK ps \in [1..n -> Keys \X Values] :
              CallWith(ps, PairTexts(n, ps), KeyLengths(n, ps))
      BY <2>1
    <2>3. n \in Nat
      BY SplitAssumption
    <2> QED BY <2>2, <2>3, CalledWithParameters, CalledWithList
  <1> QED BY <1>1, <1>2

LEMMA NextSplitInv ==
    ASSUME Quote = DoubleQuote, SplitInv, [SplitNext]_splitVars
    PROVE  SplitInv'
  <1>1. CASE Call \/ CallWithParameters
    BY <1>1, CallsAreWritten
  <1>2. CASE Return
    BY <1>2, ReturnsList
  <1>3. CASE Branch
    <2>1. ~returned /\ pos < Len(str)
      BY <1>3 DEF Branch, EscapedCharacter, EscapeCharacter, DelimiterKept, EntryEnds,
                  QuoteCharacter, OtherCharacter, Turn
    <2>2. SplitTypeOK /\ Len(str) \in Nat
      BY DEF SplitInv, SplitTypeOK
    <2>3. entries # <<>>
      <3>1. Len(<<>>) = 0
        OBVIOUS
      <3> QED BY <2>1, <2>2, <3>1 DEF SplitInv
    <2>4. PICK after \in [DOMAIN entries -> Nat], rest \in Seq(Chars) :
              /\ \A i \in DOMAIN entries : PlainUpTo(entries[i], after[i])
              /\ InEntry(after, rest)
      BY <2>1, <2>3 DEF SplitInv, InList
    <2>5. Ahead(entries, after, Len(result) + 2) \in Seq(Chars)
      <3>1. /\ Len(result) + 1 \in 1..Len(entries) /\ (Len(result) + 1) + 1 = Len(result) + 2
            /\ entries \in Seq(Seq(Chars))
        BY <2>2, <2>4 DEF InEntry, SplitTypeOK
      <3>2. Ahead(entries, after, (Len(result) + 1) + 1) \in Seq(Chars)
        BY <3>1, AheadNext
      <3> QED BY <3>1, <3>2
    <2>6. PICK behind \in Seq(Chars) : behind = Ahead(entries, after, Len(result) + 2)
      BY <2>5
    <2>7. /\ insideQuoted \in BOOLEAN /\ escaped \in BOOLEAN
          /\ Position(Unread, insideQuoted, escaped, rest, behind)
      BY <2>2, <2>4, <2>6 DEF InEntry, SplitTypeOK
    <2>8. \/ rest = <<>> /\ ~insideQuoted /\ ~escaped /\ Unread = behind
          \/ \E c \in Chars, u \in Seq(Chars) :
                 Unread = <<c>> \o u /\ Reads(c, u, insideQuoted, escaped, rest, behind)
      BY <2>7, EndOrReads
    <2>9. CASE rest = <<>> /\ ~insideQuoted /\ ~escaped /\ Unread = behind
      <3>1. InEntry(after, <<>>)
        BY <2>4, <2>9
      <3> QED BY <1>3, <2>1, <2>2, <2>3, <2>4, <2>6, <2>9, <3>1, EndsEntry
    <2>10. CASE \E c \in Chars, u \in Seq(Chars) :
                 Unread = <<c>> \o u /\ Reads(c, u, insideQuoted, escaped, rest, behind)
      <3>1. PICK c \in Chars, u \in Seq(Chars) :
                 Unread = <<c>> \o u /\ Reads(c, u, insideQuoted, escaped, rest, behind)
        BY <2>10
      <3>2. Reads(c, u, insideQuoted, escaped, rest, Ahead(entries, after, Len(result) + 2))
        BY <2>6, <3>1
      <3> QED BY <1>3, <2>1, <2>2, <2>3, <2>4, <3>1, <3>2, ReadsOn
    <2> QED BY <2>8, <2>9, <2>10
  <1>4. CASE UNCHANGED splitVars
    <2> USE <1>4 DEF splitVars
    <2>1. SplitTypeOK'
      BY DEF SplitInv, SplitTypeOK
    <2>2. InList' <=> InList
      BY Zenon DEF InList, InEntry, Unread
    <2>3. ListReadBack' <=> ListReadBack
      BY Zenon DEF ListReadBack
    <2> QED BY <2>1, <2>2, <2>3, Zenon DEF SplitInv
  <1> QED BY <1>1, <1>2, <1>3, <1>4 DEF SplitNext, Branch

LEMMA SplitInvFindsEntries == SplitInv => EntriesFound
  <1> SUFFICES ASSUME SplitInv, ~returned PROVE
               /\ IsPrefix(result, entries)
               /\ Len(result) < Len(entries) => IsPrefix(oss, entries[Len(result) + 1])
    BY DEF EntriesFound
  <1>1. /\ result \in Seq(Seq(Chars)) /\ entries \in Seq(Seq(Chars)) /\ oss \in Seq(Chars)
        /\ Len(result) \in Nat /\ Len(entries) \in Nat
    BY DEF SplitInv, SplitTypeOK
  <1>2. SubSeq(result, 1, Len(result)) = result
    BY <1>1, SubSeqFull
  <1>3. CASE entries = <<>>
    <2>1. result = entries
      BY <1>3 DEF SplitInv
    <2> QED BY <1>1, <2>1 DEF IsPrefix
  <1>4. CASE entries # <<>>
    <2>1. PICK after \in [DOMAIN entries -> Nat], rest \in Seq(Chars) : InEntry(after, rest)
      BY <1>4 DEF SplitInv, InList
    <2>2. /\ Len(result) < Len(entries) /\ result = SubSeq(entries, 1, Len(result))
          /\ entries[Len(result) + 1] = oss \o rest
      BY <2>1 DEF InEntry
    <2>3. IsPrefix(result, entries)
      BY <1>1, <1>2, <2>2 DEF IsPrefix
    <2>4. IsPrefix(oss, oss \o rest)
      <3> DEFINE w == oss \o rest
                 x == SubSeq(oss, 1, Len(oss))
                 y == SubSeq(w, 1, Len(oss))
      <3>1. /\ w \in Seq(Chars) /\ Len(w) = Len(oss) + Len(rest)
            /\ \A i \in 1..Len(oss) + Len(rest) :
                   w[i] = IF i <= Len(oss) THEN oss[i] ELSE rest[i - Len(oss)]
        BY <1>1, ConcatProperties
      <3>2. Len(oss) \in Nat /\ Len(rest) \in Nat
        BY <1>1
      <3> HIDE DEF w
      <3>3. /\ y \in Seq(Chars) /\ Len(y) = Len(oss) /\ \A i \in 1..Len(oss) : y[i] = w[i]
        BY <3>1, <3>2
      <3>4. x = oss
        BY <1>1, SubSeqFull
      <3>5. \A i \in 1..Len(oss) : y[i] = oss[i]
        BY <3>1, <3>2, <3>3
      <3> HIDE DEF x, y
      <3>6. x = y
        BY <1>1, <3>3, <3>4, <3>5, SeqEqual
      <3>7. Len(oss) <= Len(w)
        BY <3>1, <3>2
      <3> QED BY <3>6, <3>7 DEF IsPrefix, w, x, y
    <2> QED BY <2>2, <2>3, <2>4
  <1> QED BY <1>3, <1>4

(* split_quoted finds the entries of the list one after the other, with    *)
(* every delimiter, quote and escape that they hold, if the quote is the   *)
(* character '"' that it looks for behind an escape.                       *)
THEOREM EntriesKept ==
    ASSUME Quote = DoubleQuote
    PROVE  SplitSpec => []EntriesFound
  <1>1. SplitInit => SplitInv
    BY InitSplitInv
  <1>2. SplitInv /\ [SplitNext]_splitVars => SplitInv'
    BY NextSplitInv
  <1>3. SplitInv => EntriesFound
    BY SplitInvFindsEntries
  <1> QED BY <1>1, <1>2, <1>3, PTL DEF SplitSpec

(* What split_quoted returns is the list, but for an empty last entry.     *)
THEOREM ListKept ==
    ASSUME Quote = DoubleQuote
    PROVE  SplitSpec => []ListReadBack
  <1>1. SplitInit => SplitInv
    BY InitSplitInv
  <1>2. SplitInv /\ [SplitNext]_splitVars => SplitInv'
    BY NextSplitInv
  <1>3. SplitInv => ListReadBack
    BY DEF SplitInv
  <1> QED BY <1>1, <1>2, <1>3, PTL DEF SplitSpec

(***************************************************************************)
(* What the functions of Strings make of a list of parameters.             *)
(***************************************************************************)
LEMMA LeastOf ==
    ASSUME NEW I, I \subseteq Nat, NEW m \in I, \A y \in I : m <= y
    PROVE  Min(I) = m
  <1>1. \A x \in I : (\A y \in I : x <= y) => x = m
    OBVIOUS
  <1>2. \E x \in I : \A y \in I : x <= y
    OBVIOUS
  <1>3. Min(I) \in I /\ \A y \in I : Min(I) <= y
    BY <1>2, Zenon DEF Min
  <1> QED BY <1>1, <1>3

LEMMA LeastExists ==
    ASSUME NEW I, I \subseteq Nat, I # {}
    PROVE  Min(I) \in I /\ \A y \in I : Min(I) <= y
  <1> DEFINE S == Nat \ I
  <1>1. PICK m \in I : \A y \in I : m <= y
    <2>1. SUFFICES ASSUME \A m \in I : \E y \in I : ~(m <= y) PROVE FALSE
      OBVIOUS
    <2>2. ASSUME NEW n \in Nat, \A k \in Nat : k < n => k \in S
          PROVE  n \in S
      <3> SUFFICES ASSUME n \in I PROVE FALSE
        OBVIOUS
      <3>1. PICK y \in I : ~(n <= y)
        BY <2>1
      <3>2. y \in Nat /\ y < n
        BY <3>1
      <3> QED BY <2>2, <3>2
    <2>3. Nat \subseteq S
      <3> HIDE DEF S
      <3> QED BY <2>2, BelowInduction
    <2> QED BY <2>3
  <1> QED BY <1>1, LeastOf

(* A key, Assign, and anything: a key holds no Assign.                     *)
LEMMA KeyFirst ==
    ASSUME NEW k \in Keys, NEW t \in Seq(Chars)
    PROVE  LET s == (k \o <<Assign>>) \o t
           IN  /\ k \in Seq(Chars) /\ k \o <<Assign>> \in Seq(Chars) /\ s \in Seq(Chars)
               /\ Len(k \o <<Assign>>) = Len(k) + 1 /\ Len(s) = Len(k) + 1 + Len(t)
               /\ SubSeq(s, 1, Len(k)) = k /\ SubSeq(s, 1, Len(k) + 1) = k \o <<Assign>>
               /\ SubSeq(s, Len(k) + 2, Len(s)) = t
               /\ \A i \in 1..Len(t) : s[Len(k) + 1 + i] = t[i]
               /\ FirstOf(s, Assign) = Len(k) + 1
  <1> DEFINE a == <<Assign>>
             b == k \o a
             s == b \o t
  <1>1. k \in Seq(Plain \ {Assign}) /\ Assign \in Plain
    BY SplitAssumption
  <1>2. k \in Seq(Chars) /\ Assign \in Chars
    BY <1>1 DEF Chars
  <1>3. a \in Seq(Chars) /\ Len(a) = 1 /\ a[1] = Assign
    BY <1>2, OneChar
  <1>4. Len(k) \in Nat /\ Len(t) \in Nat
    BY <1>2
  <1> HIDE DEF a
  <1>5. /\ b \in Seq(Chars) /\ Len(b) = Len(k) + 1
        /\ \A i \in 1..Len(k) + 1 : b[i] = IF i <= Len(k) THEN k[i] ELSE a[i - Len(k)]
    BY <1>2, <1>3, ConcatProperties
  <1>6. \A i \in 1..Len(k) + 1 : b[i] = IF i <= Len(k) THEN k[i] ELSE Assign
    <2> TAKE i \in 1..Len(k) + 1
    <2>1. ~(i <= Len(k)) => i - Len(k) = 1
      BY <1>4
    <2> QED BY <1>3, <1>5, <2>1
  <1> HIDE DEF b
  <1>7. /\ s \in Seq(Chars) /\ Len(s) = Len(k) + 1 + Len(t)
        /\ \A i \in 1..Len(k) + 1 + Len(t) :
              s[i] = IF i <= Len(k) + 1 THEN b[i] ELSE t[i - (Len(k) + 1)]
    <2>1. /\ s \in Seq(Chars) /\ Len(s) = Len(b) + Len(t)
          /\ \A i \in 1..Len(b) + Len(t) : s[i] = IF i <= Len(b) THEN b[i] ELSE t[i - Len(b)]
      BY <1>5, ConcatProperties
    <2> QED BY <1>5, <2>1
  <1> HIDE DEF s
  <1>8. \A i \in 1..Len(t) : s[Len(k) + 1 + i] = t[i]
    <2> TAKE i \in 1..Len(t)
    <2>1. /\ Len(k) + 1 + i \in 1..Len(k) + 1 + Len(t) /\ ~(Len(k) + 1 + i <= Len(k) + 1)
          /\ (Len(k) + 1 + i) - (Len(k) + 1) = i
      BY <1>4
    <2> QED BY <1>7, <2>1
  <1>9. SubSeq(s, 1, Len(k)) = k
    <2> DEFINE x == SubSeq(s, 1, Len(k))
    <2>1. x \in Seq(Chars) /\ Len(x) = Len(k) /\ \A i \in 1..Len(k) : x[i] = s[i]
      BY <1>4, <1>7
    <2>2. \A i \in 1..Len(k) : x[i] = k[i]
      BY <1>4, <1>6, <1>7, <2>1
    <2> HIDE DEF x
    <2>3. x = k
      BY <1>2, <2>1, <2>2, SeqEqual
    <2> QED BY <2>3 DEF x
  <1>10. SubSeq(s, 1, Len(k) + 1) = b
    <2> DEFINE x == SubSeq(s, 1, Len(k) + 1)
    <2>1. x \in Seq(Chars) /\ Len(x) = Len(k) + 1 /\ \A i \in 1..Len(k) + 1 : x[i] = s[i]
      BY <1>4, <1>7
    <2>2. \A i \in 1..Len(k) + 1 : x[i] = b[i]
      BY <1>4, <1>7, <2>1
    <2> HIDE DEF x
    <2>3. x = b
      BY <1>5, <2>1, <2>2, SeqEqual
    <2> QED BY <2>3 DEF x
  <1>11. SubSeq(s, Len(k) + 2, Len(s)) = t
    <2> DEFINE x == SubSeq(s, Len(k) + 2, Len(s))
    <2>1. x \in Seq(Chars) /\ Len(x) = Len(t) /\ \A i \in 1..Len(t) : x[i] = s[Len(k) + 1 + i]
      BY <1>4, <1>7
    <2>2. \A i \in 1..Len(t) : x[i] = t[i]
      BY <1>8, <2>1
    <2> HIDE DEF x
    <2>3. x = t
      BY <2>1, <2>2, SeqEqual
    <2> QED BY <2>3 DEF x
  <1>12. FirstOf(s, Assign) = Len(k) + 1
    <2> DEFINE I == {i \in 1..Len(s) : s[i] = Assign}
    <2>1. Len(k) + 1 \in I
      BY <1>4, <1>6, <1>7
    <2>2. ASSUME NEW i \in I PROVE Len(k) + 1 <= i
      <3>1. SUFFICES ASSUME i <= Len(k) PROVE FALSE
        BY <1>4, <1>7
      <3>2. i \in 1..Len(k) /\ i \in 1..Len(k) + 1 /\ i \in 1..Len(k) + 1 + Len(t)
        BY <1>4, <1>7, <3>1
      <3>3. s[i] = k[i]
        BY <1>6, <1>7, <3>1, <3>2
      <3>4. k[i] # Assign
        BY <1>1, <3>2
      <3> QED BY <3>3, <3>4
    <2>3. I \subseteq Nat
      OBVIOUS
    <2>4. Min(I) = Len(k) + 1
      <3> HIDE DEF I
      <3> QED BY <2>1, <2>2, <2>3, LeastOf
    <2>5. FirstOf(s, Assign) = IF I # {} THEN Min(I) ELSE 0
      BY DEF FirstOf, SelectInSeq
    <2> QED BY <2>1, <2>4, <2>5
  <1> QED BY <1>2, <1>5, <1>7, <1>8, <1>9, <1>10, <1>11, <1>12 DEF a, b, s

LEMMA PairCut ==
    ASSUME NEW k \in Keys, NEW v \in Seq(Chars)
    PROVE  cut((k \o <<Assign>>) \o v, Assign) = <<k, v>>
  <1> DEFINE s == (k \o <<Assign>>) \o v
  <1>1. /\ FirstOf(s, Assign) = Len(k) + 1 /\ Len(k) \in Nat
        /\ SubSeq(s, 1, Len(k)) = k /\ SubSeq(s, Len(k) + 2, Len(s)) = v
    BY KeyFirst
  <1> HIDE DEF s
  <1>2. Len(k) + 1 # 0 /\ (Len(k) + 1) - 1 = Len(k) /\ (Len(k) + 1) + 1 = Len(k) + 2
    BY <1>1
  <1>3. cut(s, Assign) = <<SubSeq(s, 1, (Len(k) + 1) - 1), SubSeq(s, (Len(k) + 1) + 1, Len(s))>>
    BY <1>1, <1>2 DEF cut
  <1> QED BY <1>1, <1>2, <1>3 DEF s

(* to_map without quotes, on the parameters ps.                            *)
LEMMA MapOfPairs ==
    ASSUME NEW n \in Nat, NEW ps \in [1..n -> Keys \X Values]
    PROVE  LET map == to_map(PairTexts(n, ps), Assign, FALSE, FALSE, Quote, Escape)[1]
           IN  /\ DOMAIN map = {ps[i][1] : i \in 1..n}
               /\ \A i \in 1..n :
                     \/ map[ps[i][1]] = ps[i][2]
                     \/ \E j \in 1..i - 1 : ps[j][1] = ps[i][1]
  <1> DEFINE v == PairTexts(n, ps)
             map == to_map(v, Assign, FALSE, FALSE, Quote, Escape)
             part == [i \in 1..n |-> LET p == cut(v[i], Assign) IN <<<<p[1]>>, <<p[2]>>>>]
             pairs == [i \in 1..n |-> <<part[i][1][1], part[i][2][1]>>]
  <1>1. DOMAIN v = 1..n
    BY DEF PairTexts
  <1>2. ASSUME NEW i \in 1..n
        PROVE  ps[i] = <<ps[i][1], ps[i][2]>> /\ cut(v[i], Assign) = ps[i]
    <2>1. PICK k \in Keys, u \in Values : ps[i] = <<k, u>>
      <3>1. ps[i] \in Keys \X Values
        OBVIOUS
      <3> QED BY <3>1
    <2>2. v[i] = (k \o <<Assign>>) \o u
      <3>1. v[i] = ps[i][1] \o <<Assign>> \o ps[i][2]
        BY DEF PairTexts
      <3>2. ps[i][1] = k /\ ps[i][2] = u
        BY <2>1
      <3> QED BY <3>1, <3>2, Zenon
    <2>3. u \in Seq(Chars)
      BY SplitAssumption DEF Chars
    <2>4. cut(v[i], Assign) = <<k, u>>
      BY <2>2, <2>3, PairCut
    <2> QED BY <2>1, <2>4
  <1> HIDE DEF v
  <1>3. ASSUME NEW i \in 1..n
        PROVE  part[i] = <<<<ps[i][1]>>, <<ps[i][2]>>>> /\ <<>> \notin {part[i][1], part[i][2]}
    <2>1. part[i] = <<<<ps[i][1]>>, <<ps[i][2]>>>>
      BY <1>2
    <2>2. part[i][1] = <<ps[i][1]>> /\ part[i][2] = <<ps[i][2]>>
      BY <2>1
    <2> QED BY <2>1, <2>2
  <1>4. map = IF \E i \in DOMAIN v : <<>> \in {part[i][1], part[i][2]} THEN <<>>
              ELSE <<[k \in {p[1] : p \in ToSet(pairs)} |-> pairs[FirstOfKey(pairs, k)][2]]>>
    BY <1>1 DEF to_map
  <1>5. ASSUME NEW i \in 1..n PROVE pairs[i] = ps[i]
    <2>1. pairs[i] = <<part[i][1][1], part[i][2][1]>>
      OBVIOUS
    <2> HIDE DEF part
    <2> QED BY <1>2, <1>3, <2>1
  <1>6. pairs = ps
    <2>1. pairs \in [1..n -> {pairs[i] : i \in 1..n}] /\ DOMAIN ps = 1..n /\ DOMAIN pairs = 1..n
      OBVIOUS
    <2> HIDE DEF pairs
    <2> QED BY <1>5, <2>1
  <1>7. map = <<[k \in {p[1] : p \in ToSet(ps)} |-> ps[FirstOfKey(ps, k)][2]]>>
    <2> HIDE DEF map, part, pairs
    <2> QED BY <1>1, <1>3, <1>4, <1>6
  <1> HIDE DEF map
  <1>8. {p[1] : p \in ToSet(ps)} = {ps[i][1] : i \in 1..n}
    BY DEF ToSet
  <1>9. ASSUME NEW i \in 1..n
        PROVE  \/ ps[FirstOfKey(ps, ps[i][1])][2] = ps[i][2]
               \/ \E j \in 1..i - 1 : ps[j][1] = ps[i][1]
    <2> DEFINE I == {j \in 1..Len(ps) : ps[j][1] = ps[i][1]}
    <2>1. Len(ps) = n
      <3> DEFINE g == [j \in 1..n |-> ps[j]]
      <3>1. Len(g) = n
        OBVIOUS
      <3>2. g = ps
        OBVIOUS
      <3> HIDE DEF g
      <3> QED BY <3>1, <3>2
    <2>2. i \in I /\ I \subseteq Nat /\ I \subseteq 1..n
      BY <2>1
    <2>3. FirstOfKey(ps, ps[i][1]) = IF I # {} THEN Min(I) ELSE 0
      BY DEF FirstOfKey, SelectInSeq
    <2>4. \A j \in I : ps[j][1] = ps[i][1]
      OBVIOUS
    <2> HIDE DEF I
    <2>5. Min(I) \in I /\ Min(I) <= i
      BY <2>2, LeastExists
    <2>6. CASE Min(I) = i
      BY <2>2, <2>3, <2>6
    <2>7. CASE Min(I) # i
      <3>1. Min(I) \in 1..i - 1
        <4>1. Min(I) \in Nat /\ Min(I) \in 1..n /\ i \in Nat
          BY <2>2, <2>5
        <4> QED BY <2>5, <2>7, <4>1
      <3> QED BY <2>4, <2>5, <3>1
    <2> QED BY <2>6, <2>7
  <1>10. map[1] = [k \in {ps[i][1] : i \in 1..n} |-> ps[FirstOfKey(ps, k)][2]]
    BY <1>7, <1>8
  <1>11. ASSUME NEW i \in 1..n PROVE map[1][ps[i][1]] = ps[FirstOfKey(ps, ps[i][1])][2]
    BY <1>10
  <1> QED BY <1>9, <1>10, <1>11 DEF map, v

(* The parameters are those the list was made of.                          *)
ParamsInv ==
    params = <<>> \/ \E n \in Nat \ {0} :
        params \in [1..n -> Keys \X Values] /\ entries = PairTexts(n, params)

LEMMA InitParamsInv == SplitInit => ParamsInv
  BY DEF SplitInit, ParamsInv

LEMMA NextParamsInv ==
    ASSUME ParamsInv, [SplitNext]_splitVars
    PROVE  ParamsInv'
  <1>1. CASE Call
    BY <1>1 DEF Call, CallWith, ParamsInv
  <1>2. CASE CallWithParameters
    <2>1. PICK n \in 1..MaxParams : \E ps \in [1..n -> Keys \X Values] :
              CallWith(ps, PairTexts(n, ps), KeyLengths(n, ps))
      BY <1>2 DEF CallWithParameters, PairTexts, KeyLengths
    <2>2. PICK ps \in [1..n -> Keys \X Values] :
              CallWith(ps, PairTexts(n, ps), KeyLengths(n, ps))
      BY <2>1
    <2>3. n \in Nat \ {0} /\ params' = ps /\ entries' = PairTexts(n, ps)
      BY <2>2, SplitAssumption DEF CallWith
    <2> QED BY <2>3, Zenon DEF ParamsInv
  <1>3. CASE UNCHANGED <<params, entries>>
    BY <1>3 DEF ParamsInv
  <1>4. Branch \/ Return \/ UNCHANGED splitVars => UNCHANGED <<params, entries>>
    BY DEF Branch, EscapedCharacter, EscapeCharacter, DelimiterKept, EntryEnds,
           QuoteCharacter, OtherCharacter, Turn, Return, splitVars
  <1> QED BY <1>1, <1>2, <1>3, <1>4 DEF SplitNext, Branch

(* The last of n pairs, written out. *)
LEMMA PairTextAt ==
    ASSUME NEW n \in Nat \ {0}, NEW ps \in [1..n -> Keys \X Values]
    PROVE  /\ PairTexts(n, ps)[n] = ps[n][1] \o <<Assign>> \o ps[n][2]
           /\ Len(PairTexts(n, ps)) = n
  <1>1. n \in 1..n
    OBVIOUS
  <1>2. PairTexts(n, ps)[n] = ps[n][1] \o <<Assign>> \o ps[n][2]
    BY <1>1, Zenon DEF PairTexts
  <1>3. PairTexts(n, ps) \in Seq(Seq(Chars))
    BY CalledWithParameters
  <1>4. DOMAIN PairTexts(n, ps) = 1..n
    BY Zenon DEF PairTexts
  <1>5. Len(PairTexts(n, ps)) \in Nat /\ DOMAIN PairTexts(n, ps) = 1..Len(PairTexts(n, ps))
    BY <1>3
  <1>6. Len(PairTexts(n, ps)) = n
    <2> DEFINE l == Len(PairTexts(n, ps))
    <2>1. l \in Nat /\ 1..l = 1..n
      BY <1>4, <1>5
    <2> HIDE DEF l
    <2>2. l = n
      BY <2>1
    <2> QED BY <2>2 DEF l
  <1> QED BY <1>2, <1>6

(* Where no key is repeated, every parameter gets its value back, whatever *)
(* the value is made of.                                                   *)
THEOREM ParametersKept ==
    ASSUME Quote = DoubleQuote
    PROVE  SplitSpec => []ParametersReadBack
  <1>1. SplitInit => SplitInv /\ ParamsInv
    BY InitSplitInv, InitParamsInv
  <1>2. SplitInv /\ ParamsInv /\ [SplitNext]_splitVars => SplitInv' /\ ParamsInv'
    BY NextSplitInv, NextParamsInv
  <1>3. SplitInv /\ ParamsInv => ParametersReadBack
    <2> DEFINE map == to_map(result, Assign, FALSE, FALSE, Quote, Escape)[1]
    <2> SUFFICES ASSUME SplitInv, ParamsInv, returned, params # <<>>, KeysDiffer
                 PROVE  /\ DOMAIN map = {params[i][1] : i \in DOMAIN params}
                        /\ \A i \in DOMAIN params : map[params[i][1]] = params[i][2]
      BY DEF ParametersReadBack
    <2>1. PICK n \in Nat \ {0} :
              params \in [1..n -> Keys \X Values] /\ entries = PairTexts(n, params)
      BY DEF ParamsInv
    <2>2. PICK k \in Keys, v \in Values : params[n] = <<k, v>>
      <3>1. params[n] \in Keys \X Values
        BY <2>1
      <3> QED BY <3>1
    <2>3. /\ Len(entries) = n
          /\ entries[n] = (k \o <<Assign>>) \o v
      <3>1. entries[n] = params[n][1] \o <<Assign>> \o params[n][2] /\ Len(entries) = n
        BY <2>1, PairTextAt, Zenon
      <3>2. params[n][1] = k /\ params[n][2] = v
        BY <2>2
      <3> QED BY <3>1, <3>2, Zenon
    <2>4. Last(entries) # <<>>
      <3>1. v \in Seq(Chars)
        BY SplitAssumption DEF Chars
      <3>2. /\ Len(entries[n]) = Len(k) + 1 + Len(v) /\ k \in Seq(Chars)
        BY <2>3, <3>1, KeyFirst
      <3>3. Len(entries[n]) # 0 /\ Len(<<>>) = 0
        BY <3>1, <3>2
      <3> QED BY <2>3, <3>3, Zenon DEF Last
    <2>5. result = PairTexts(n, params)
      <3>1. result = IF entries # <<>> /\ Last(entries) = <<>> THEN Front(entries) ELSE entries
        BY Zenon DEF SplitInv, ListReadBack
      <3> QED BY <2>1, <2>4, <3>1, Zenon
    <2>6. DOMAIN params = 1..n
      BY <2>1
    <2>7. PICK ps \in [1..n -> Keys \X Values] : ps = params
      BY <2>1
    <2>8. /\ DOMAIN map = {params[i][1] : i \in DOMAIN params}
          /\ \A i \in DOMAIN params :
                \/ map[params[i][1]] = params[i][2]
                \/ \E j \in 1..i - 1 : params[j][1] = params[i][1]
      BY <2>5, <2>6, <2>7, MapOfPairs
    <2>9. ASSUME NEW i \in DOMAIN params, NEW j \in 1..i - 1, params[j][1] = params[i][1]
          PROVE  FALSE
      <3>1. i \in 1..n /\ j \in 1..n /\ j # i
        BY <2>1, <2>6
      <3> QED BY <2>6, <2>9, <3>1 DEF KeysDiffer
    <2> QED BY <2>8, <2>9
  <1> QED BY <1>1, <1>2, <1>3, PTL DEF SplitSpec

(* A parameter on its own, quoted by the peer, and a key without a value.  *)
LEMMA PairTakenApart ==
    ASSUME NEW k \in Keys, NEW v \in Values
    PROVE  LET key == k \o <<Assign>>
           IN  /\ splitStrQuoted(QuotedAfter(key \o v, Len(key)), Assign) = <<<<k, Escaped(v)>>>>
               /\ splitStrQuoted(key, Assign) = <<>>
  <1> DEFINE key == k \o <<Assign>>
             q == <<Quote>>
             e == Escaped(v)
             t == q \o (e \o q)
             s == key \o t
  <1>1. v \in Seq(Chars)
    BY SplitAssumption DEF Chars
  <1>2. e \in Seq(Chars) /\ q \in Seq(Chars) /\ Len(q) = 1
    BY <1>1, EscapedType, OneChar DEF Chars
  <1> HIDE DEF e, q
  <1>3. /\ t \in Seq(Chars) /\ Len(t) = Len(e) + 2
        /\ \A i \in 1..Len(e) : t[i + 1] = e[i]
    <2> DEFINE u == e \o q
    <2>1. /\ u \in Seq(Chars) /\ Len(u) = Len(e) + 1
          /\ \A i \in 1..Len(e) : u[i] = e[i]
      BY <1>2, ConcatProperties
    <2> HIDE DEF u
    <2>2. /\ q \o u \in Seq(Chars) /\ Len(q \o u) = 1 + Len(u)
          /\ \A i \in 1..1 + Len(u) : (q \o u)[i] = IF i <= 1 THEN q[i] ELSE u[i - 1]
      <3>1. Len(u) \in Nat
        BY <1>2, <2>1
      <3>2. /\ q \o u \in Seq(Chars) /\ Len(q \o u) = Len(q) + Len(u)
            /\ \A i \in 1..Len(q) + Len(u) : (q \o u)[i] = IF i <= Len(q) THEN q[i] ELSE u[i - Len(q)]
        BY <1>2, <2>1, ConcatProperties
      <3> QED BY <1>2, <3>2, Zenon
    <2>3. \A i \in 1..Len(e) : (q \o u)[i + 1] = e[i]
      <3> TAKE i \in 1..Len(e)
      <3>1. i + 1 \in 1..1 + Len(u) /\ ~(i + 1 <= 1) /\ (i + 1) - 1 = i
        BY <1>2, <2>1
      <3> QED BY <2>1, <2>2, <3>1
    <2>4. Len(q \o u) = Len(e) + 2
      BY <1>2, <2>1, <2>2
    <2> QED BY <2>2, <2>3, <2>4 DEF u
  <1> HIDE DEF t
  <1>4. /\ k \in Seq(Chars) /\ key \in Seq(Chars) /\ s \in Seq(Chars)
        /\ Len(key) = Len(k) + 1 /\ Len(s) = Len(k) + 1 + Len(t)
        /\ SubSeq(s, 1, Len(k)) = k
        /\ \A i \in 1..Len(t) : s[Len(k) + 1 + i] = t[i]
        /\ FirstOf(s, Assign) = Len(k) + 1
    BY <1>3, KeyFirst
  <1>5. Len(k) \in Nat /\ Len(e) \in Nat /\ Len(t) \in Nat
    BY <1>2, <1>3, <1>4
  <1>6. QuotedAfter(key \o v, Len(key)) = s
    <2> DEFINE w == key \o v
    <2>1. /\ w \in Seq(Chars) /\ Len(w) = Len(k) + 1 + Len(v) /\ Len(key) = Len(k) + 1
          /\ SubSeq(w, 1, Len(k) + 1) = key /\ SubSeq(w, Len(k) + 2, Len(w)) = v
      BY <1>1, KeyFirst
    <2> HIDE DEF w, key, s
    <2>2. ~(Len(key) > Len(w)) /\ Len(key) + 1 = Len(k) + 2
      BY <1>1, <1>5, <2>1
    <2>3. QuotedAfter(w, Len(key)) = key \o q \o e \o q
      BY <2>1, <2>2 DEF QuotedAfter, e, q
    <2>4. (key \o q) \o e = key \o (q \o e) /\ q \o e \in Seq(Chars)
      BY <1>2, <1>4, Grouped, Joined
    <2>5. (key \o (q \o e)) \o q = key \o ((q \o e) \o q)
      BY <1>2, <1>4, <2>4, Grouped
    <2>6. (q \o e) \o q = q \o (e \o q)
      BY <1>2, Grouped
    <2> QED BY <2>3, <2>4, <2>5, <2>6, Zenon DEF s, t, w
  <1>7. splitStrQuoted(s, Assign) = <<<<k, e>>>>
    <2> HIDE DEF s, key
    <2> DEFINE x == SubSeq(s, Len(k) + 3, Len(k) + 2 + Len(e))
               m == Len(s) - ((Len(k) + 1) - 1) - 3
    <2>1. x = e
      <3>1. /\ x \in Seq(Chars) /\ Len(x) = Len(e)
            /\ \A i \in 1..Len(e) : x[i] = s[Len(k) + 2 + i]
        BY <1>3, <1>4, <1>5
      <3>2. \A i \in 1..Len(e) : x[i] = e[i]
        <4> TAKE i \in 1..Len(e)
        <4>1. i + 1 \in 1..Len(t) /\ Len(k) + 1 + (i + 1) = Len(k) + 2 + i
          BY <1>3, <1>5
        <4> QED BY <1>3, <1>4, <3>1, <4>1
      <3> HIDE DEF x
      <3> QED BY <1>2, <3>1, <3>2, SeqEqual
    <2>2. m = Len(e)
      BY <1>3, <1>4, <1>5
    <2>3. Substr(s, (Len(k) + 1) + 1, Len(e)) = <<x>>
      <3>1. /\ ~((Len(k) + 1) + 1 > Len(s)) /\ ~(Len(e) < 0)
            /\ ~((Len(k) + 1) + 1 + Len(e) > Len(s))
            /\ (Len(k) + 1) + 1 + 1 = Len(k) + 3 /\ (Len(k) + 1) + 1 + Len(e) = Len(k) + 2 + Len(e)
        BY <1>3, <1>4, <1>5
      <3> QED BY <3>1, Zenon DEF Substr
    <2>4. Substr(s, (Len(k) + 1) + 1, m) = <<e>>
      BY <2>1, <2>2, <2>3
    <2> HIDE DEF m, x
    <2>5. Len(k) + 1 # 0 /\ <<e>> # <<>> /\ (Len(k) + 1) - 1 = Len(k)
      BY <1>5
    <2>6. splitStrQuoted(s, Assign) = <<<<SubSeq(s, 1, (Len(k) + 1) - 1), <<e>>[1]>>>>
      BY <1>4, <2>4, <2>5 DEF splitStrQuoted, m
    <2> QED BY <1>4, <2>5, <2>6
  <1>8. splitStrQuoted(key, Assign) = <<>>
    <2>1. /\ FirstOf(key \o <<>>, Assign) = Len(k) + 1
      <3>1. <<>> \in Seq(Chars)
        OBVIOUS
      <3> QED BY <3>1, KeyFirst
    <2>2. key \o <<>> = key
      BY <1>4, ConcatEmptySeq
    <2>3. FirstOf(key, Assign) = Len(k) + 1
      BY <2>1, <2>2
    <2> HIDE DEF key
    <2>4. Substr(key, (Len(k) + 1) + 1, Len(key) - ((Len(k) + 1) - 1) - 3) = <<>>
      <3>1. (Len(k) + 1) + 1 > Len(key)
        BY <1>4, <1>5
      <3> QED BY <3>1 DEF Substr
    <2>5. Len(k) + 1 # 0
      BY <1>5
    <2> QED BY <2>3, <2>4, <2>5, Zenon DEF splitStrQuoted
  <1> QED BY <1>6, <1>7, <1>8 DEF e

(* splitStrQuoted takes every quoted parameter apart, its escapes left in, *)
(* and throws on a key without a value, whatever the quote character.      *)
THEOREM QuotedPairsSplit == SplitSpec => []QuotedPairSplit
  <1>1. SplitInit => ParamsInv
    BY InitParamsInv
  <1>2. ParamsInv /\ [SplitNext]_splitVars => ParamsInv'
    BY NextParamsInv
  <1>3. ParamsInv => QuotedPairSplit
    <2> SUFFICES ASSUME ParamsInv, params # <<>>, NEW i \in DOMAIN params
                 PROVE  LET key == params[i][1] \o <<Assign>>
                        IN  /\ splitStrQuoted(QuotedAfter(key \o params[i][2], Len(key)), Assign) =
                                  <<<<params[i][1], Escaped(params[i][2])>>>>
                            /\ splitStrQuoted(key, Assign) = <<>>
      BY DEF QuotedPairSplit
    <2>1. PICK n \in Nat \ {0} : params \in [1..n -> Keys \X Values]
      BY DEF ParamsInv
    <2>2. params[i] \in Keys \X Values
      BY <2>1
    <2>3. params[i][1] \in Keys /\ params[i][2] \in Values
      BY <2>2
    <2> QED BY <2>3, PairTakenApart
  <1> QED BY <1>1, <1>2, <1>3, PTL DEF SplitSpec

(* An unordered container and a search from the front agree on a key.      *)
THEOREM SameLookup == SplitSpec => []LookupsAgree
  <1>1. SplitInit => ParamsInv
    BY InitParamsInv
  <1>2. ParamsInv /\ [SplitNext]_splitVars => ParamsInv'
    BY NextParamsInv
  <1>3. ParamsInv => LookupsAgree
    <2> SUFFICES ASSUME ParamsInv, NEW val \in Keys
                 PROVE  LET keys == [i \in DOMAIN params |-> params[i][1]]
                            hashed == {i \in DOMAIN keys :
                                /\ case_insensitive_hasher(keys[i]) = case_insensitive_hasher(val)
                                /\ case_insensitive_comparer_2(keys[i], val)}
                            found == find_case_insensitive(keys, val)
                        IN  IF hashed = {} THEN found = Len(keys) + 1 ELSE found = Min(hashed)
      BY DEF LookupsAgree
    <2> DEFINE keys == [i \in DOMAIN params |-> params[i][1]]
               hashed == {i \in DOMAIN keys :
                                /\ case_insensitive_hasher(keys[i]) = case_insensitive_hasher(val)
                                /\ case_insensitive_comparer_2(keys[i], val)}
               I == {i \in 1..Len(keys) : tolower(keys[i]) = tolower(val)}
    <2>1. PICK n \in Nat : DOMAIN params = 1..n
      <3>1. CASE params = <<>>
        BY <3>1
      <3>2. CASE params # <<>>
        BY <3>2 DEF ParamsInv
      <3> QED BY <3>1, <3>2
    <2>2. DOMAIN keys = 1..Len(keys) /\ Len(keys) \in Nat
      BY <2>1
    <2> HIDE DEF keys
    <2>3. hashed = I
      BY <2>2 DEF case_insensitive_hasher, case_insensitive_comparer_2
    <2>4. find_case_insensitive(keys, val) =
              IF (IF I # {} THEN Min(I) ELSE 0) = 0 THEN Len(keys) + 1
              ELSE IF I # {} THEN Min(I) ELSE 0
      BY DEF find_case_insensitive, SelectInSeq
    <2>5. I \subseteq Nat /\ 0 \notin I
      BY <2>2
    <2> HIDE DEF I, hashed
    <2>6. I # {} => Min(I) # 0
      BY <2>5, LeastExists
    <2>7. IF hashed = {} THEN find_case_insensitive(keys, val) = Len(keys) + 1
          ELSE find_case_insensitive(keys, val) = Min(hashed)
      BY <2>3, <2>4, <2>6
    <2> QED BY <2>7 DEF hashed, keys
  <1> QED BY <1>1, <1>2, <1>3, PTL DEF SplitSpec

(***************************************************************************)
(* split: what it has read, and what comes next.                           *)
(***************************************************************************)
NoToken == [tokens |-> <<>>, token |-> <<>>]

SplitTurn(r, c, delim) ==
    IF c = delim THEN [tokens |-> Append(r.tokens, r.token), token |-> <<>>]
    ELSE [tokens |-> r.tokens, token |-> Append(r.token, c)]

SplitState(s, delim) ==
    LET read[i \in 0..Len(s)] ==
            IF i = 0 THEN NoToken ELSE SplitTurn(read[i - 1], s[i], delim)
    IN  read[Len(s)]

SplitStates(S) == [tokens : Seq(Seq(S)), token : Seq(S)]

LEMMA SplitByState ==
    ASSUME NEW s, NEW delim
    PROVE  split(s, delim) =
               IF SplitState(s, delim).token = <<>> THEN SplitState(s, delim).tokens
               ELSE Append(SplitState(s, delim).tokens, SplitState(s, delim).token)
  BY Zenon DEF split, SplitState, SplitTurn, NoToken

LEMMA SplitTurnType ==
    ASSUME NEW S, NEW r \in SplitStates(S), NEW c \in S, NEW delim
    PROVE  SplitTurn(r, c, delim) \in SplitStates(S)
  <1>1. r.tokens \in Seq(Seq(S)) /\ r.token \in Seq(S)
    BY DEF SplitStates
  <1>2. Append(r.tokens, r.token) \in Seq(Seq(S)) /\ Append(r.token, c) \in Seq(S) /\ <<>> \in Seq(S)
    BY <1>1
  <1>3. [tokens |-> Append(r.tokens, r.token), token |-> <<>>] \in SplitStates(S)
    BY <1>2 DEF SplitStates
  <1>4. [tokens |-> r.tokens, token |-> Append(r.token, c)] \in SplitStates(S)
    BY <1>1, <1>2 DEF SplitStates
  <1> QED BY <1>3, <1>4, Zenon DEF SplitTurn

ReadsAll(g, s, delim, S) ==
    /\ g \in [0..Len(s) -> SplitStates(S)] /\ g[0] = NoToken
    /\ \A k \in 1..Len(s) : g[k] = SplitTurn(g[k - 1], s[k], delim)

LEMMA SplitSteps ==
    ASSUME NEW S, NEW s \in Seq(S), NEW delim
    PROVE  \E g : ReadsAll(g, s, delim, S) /\ SplitState(s, delim) = g[Len(s)]
  <1> DEFINE n == Len(s)
             Turns(g) == [k \in 0..n |-> IF k = 0 THEN NoToken ELSE SplitTurn(g[k - 1], s[k], delim)]
             read == CHOOSE g : g = Turns(g)
             R == SplitStates(S)
             step == [k \in 1..n |-> [x \in R |-> SplitTurn(x, s[k], delim)]]
  <1>1. SplitState(s, delim) = read[n]
    BY DEF SplitState
  <1>2. n \in Nat /\ \A k \in 1..n : s[k] \in S
    OBVIOUS
  <1> HIDE DEF n, R
  <1>3. ASSUME NEW k \in 1..n, NEW x \in R PROVE SplitTurn(x, s[k], delim) \in R
    BY <1>2, SplitTurnType DEF R
  <1>4. /\ step \in TurnsOn(n, R)
        /\ \A k \in 1..n, x \in R : step[k][x] = SplitTurn(x, s[k], delim)
    <2>1. \A k \in 1..n : [x \in R |-> SplitTurn(x, s[k], delim)] \in [R -> R]
      BY <1>3
    <2> QED BY <2>1 DEF TurnsOn
  <1> HIDE DEF step
  <1>5. NoToken \in R
    <2>1. <<>> \in Seq(Seq(S)) /\ <<>> \in Seq(S)
      OBVIOUS
    <2> QED BY <2>1 DEF R, NoToken, SplitStates
  <1>6. PICK v \in [0..n -> R] : v[0] = NoToken /\ \A k \in 1..n : v[k] = step[k][v[k - 1]]
    <2>1. \E f : Runs(f, n, R, NoToken, step)
      BY <1>2, <1>4, <1>5, Steps
    <2> QED BY <2>1 DEF Runs
  <1>7. \A k \in 1..n : v[k] = SplitTurn(v[k - 1], s[k], delim)
    <2>1. \A k \in 1..n : v[k - 1] \in R
      BY <1>2
    <2> QED BY <1>4, <1>6, <2>1
  <1>8. v = Turns(v)
    BY <1>6, <1>7
  <1>9. read = Turns(read)
    <2> HIDE DEF Turns
    <2> QED BY <1>8, Zenon
  <1> HIDE DEF read
  <1>10. read[0] = v[0] /\ \A k \in 1..n : read[k - 1] = v[k - 1] => read[k] = v[k]
    <2>1. read[0] = NoToken /\ \A k \in 1..n : read[k] = SplitTurn(read[k - 1], s[k], delim)
      BY <1>2, <1>9
    <2> QED BY <1>6, <1>7, <2>1
  <1>11. read[n] = v[n]
    BY <1>2, <1>10, SameSteps, n \in 0..n
  <1> QED BY <1>1, <1>6, <1>7, <1>11 DEF ReadsAll, n, R

LEMMA SplitStateEmpty ==
    ASSUME NEW delim
    PROVE  SplitState(<<>>, delim) = NoToken
  <1>1. <<>> \in Seq(Int) /\ Len(<<>>) = 0
    OBVIOUS
  <1>2. PICK g : ReadsAll(g, <<>>, delim, Int) /\ SplitState(<<>>, delim) = g[Len(<<>>)]
    BY <1>1, SplitSteps
  <1> QED BY <1>1, <1>2 DEF ReadsAll

LEMMA SplitStateType ==
    ASSUME NEW S, NEW s \in Seq(S), NEW delim
    PROVE  /\ SplitState(s, delim) \in SplitStates(S)
           /\ SplitState(s, delim).tokens \in Seq(Seq(S)) /\ SplitState(s, delim).token \in Seq(S)
           /\ SplitState(s, delim) = [tokens |-> SplitState(s, delim).tokens,
                                      token |-> SplitState(s, delim).token]
  <1>1. PICK g : ReadsAll(g, s, delim, S) /\ SplitState(s, delim) = g[Len(s)]
    BY SplitSteps
  <1>2. Len(s) \in 0..Len(s)
    OBVIOUS
  <1>3. SplitState(s, delim) \in SplitStates(S)
    BY <1>1, <1>2 DEF ReadsAll
  <1>4. \A r \in SplitStates(S) : r.tokens \in Seq(Seq(S)) /\ r.token \in Seq(S)
                                  /\ r = [tokens |-> r.tokens, token |-> r.token]
    BY DEF SplitStates
  <1> QED BY <1>3, <1>4

LEMMA SplitStateLast ==
    ASSUME NEW S, NEW s \in Seq(S), NEW c \in S, NEW delim
    PROVE  SplitState(Append(s, c), delim) = SplitTurn(SplitState(s, delim), c, delim)
  <1> DEFINE t == Append(s, c)
             n == Len(s)
  <1>1. /\ t \in Seq(S) /\ Len(t) = n + 1 /\ n \in Nat
        /\ t[n + 1] = c /\ \A k \in 1..n : t[k] = s[k]
    OBVIOUS
  <1> HIDE DEF t
  <1>2. PICK v : ReadsAll(v, s, delim, S) /\ SplitState(s, delim) = v[Len(s)]
    BY SplitSteps
  <1>3. PICK w : ReadsAll(w, t, delim, S) /\ SplitState(t, delim) = w[Len(t)]
    BY <1>1, SplitSteps
  <1> HIDE DEF n
  <1>4. v[0] = w[0] /\ \A k \in 1..n : v[k - 1] = w[k - 1] => v[k] = w[k]
    <2>1. \A k \in 1..n : k \in 1..n + 1
      BY <1>1
    <2> QED BY <1>1, <1>2, <1>3, <2>1 DEF ReadsAll, n
  <1>5. v[n] = w[n]
    <2>1. n \in Nat /\ n \in 0..n
      BY <1>1
    <2>2. \A k \in 0..n : v[k] = w[k]
      BY <1>4, <2>1, SameSteps
    <2> QED BY <2>1, <2>2
  <1>6. w[n + 1] = SplitTurn(w[n], c, delim)
    <2>1. n + 1 \in 1..n + 1 /\ (n + 1) - 1 = n
      BY <1>1
    <2> QED BY <1>1, <1>3, <2>1 DEF ReadsAll
  <1> QED BY <1>1, <1>2, <1>3, <1>5, <1>6 DEF t, n

(* One element, or one behind others. *)
LEMMA LastElement ==
    ASSUME NEW S, NEW u \in Seq(S), NEW n \in Nat, Len(u) = n + 1
    PROVE  \E f \in Seq(S), c \in S : u = Append(f, c) /\ Len(f) = n /\ u[n + 1] = c
                                      /\ \A i \in 1..n : u[i] = f[i]
  <1>1. /\ SubSeq(u, 1, n) \in Seq(S) /\ Len(SubSeq(u, 1, n)) = n
        /\ u[n + 1] \in S /\ u = Append(SubSeq(u, 1, n), u[n + 1])
        /\ \A i \in 1..n : u[i] = SubSeq(u, 1, n)[i]
    OBVIOUS
  <1> QED BY <1>1

LEMMA BehindAppend ==
    ASSUME NEW S, NEW s \in Seq(S), NEW f \in Seq(S), NEW c \in S
    PROVE  s \o Append(f, c) = Append(s \o f, c) /\ s \o f \in Seq(S)
  OBVIOUS

LEMMA EmptyBehind ==
    ASSUME NEW S, NEW s \in Seq(S), NEW u \in Seq(S), Len(u) = 0
    PROVE  s \o u = s
  OBVIOUS

(* What holds no delimiter goes to the token under way. *)
LEMMA SplitBehind ==
    ASSUME NEW S, NEW s \in Seq(S), NEW t \in Seq(S), NEW delim,
           \A i \in 1..Len(t) : t[i] # delim
    PROVE  SplitState(s \o t, delim) =
               [tokens |-> SplitState(s, delim).tokens, token |-> SplitState(s, delim).token \o t]
  <1> DEFINE r == SplitState(s, delim)
             Free(u) == \A i \in 1..Len(u) : u[i] # delim
             After(u) == SplitState(s \o u, delim) = [tokens |-> r.tokens, token |-> r.token \o u]
             M == {n \in Nat : \A u \in Seq(S) : Len(u) = n /\ Free(u) => After(u)}
  <1>0. /\ r.tokens \in Seq(Seq(S)) /\ r.token \in Seq(S)
        /\ r = [tokens |-> r.tokens, token |-> r.token]
    BY SplitStateType
  <1>1. 0 \in M
    <2> SUFFICES ASSUME NEW u \in Seq(S), Len(u) = 0 PROVE After(u)
      OBVIOUS
    <2>1. s \o u = s
      BY EmptyBehind
    <2>2. r.token \o u = r.token
      <3> HIDE DEF r
      <3> QED BY <1>0, EmptyBehind
    <2> QED BY <1>0, <2>1, <2>2, Zenon
  <1>2. ASSUME NEW n \in Nat, n \in M PROVE n + 1 \in M
    <2> SUFFICES ASSUME NEW u \in Seq(S), Len(u) = n + 1, Free(u) PROVE After(u)
      OBVIOUS
    <2>1. PICK f \in Seq(S), c \in S : u = Append(f, c) /\ Len(f) = n /\ u[n + 1] = c
                                      /\ \A i \in 1..n : u[i] = f[i]
      BY LastElement
    <2>2. Free(f) /\ c # delim
      <3>1. n + 1 \in 1..n + 1 /\ \A i \in 1..n : i \in 1..n + 1
        OBVIOUS
      <3> QED BY <2>1, <3>1
    <2> HIDE DEF r
    <2>3. SplitState(s \o f, delim) = [tokens |-> r.tokens, token |-> r.token \o f]
      BY <1>2, <2>1, <2>2
    <2>4. s \o u = Append(s \o f, c) /\ s \o f \in Seq(S)
      BY <2>1, BehindAppend
    <2>5. SplitState(s \o u, delim) = SplitTurn(SplitState(s \o f, delim), c, delim)
      BY <2>4, SplitStateLast
    <2>6. r.token \o u = Append(r.token \o f, c)
      BY <1>0, <2>1, BehindAppend
    <2>7. SplitTurn([tokens |-> r.tokens, token |-> r.token \o f], c, delim)
              = [tokens |-> r.tokens, token |-> Append(r.token \o f, c)]
      BY <2>2 DEF SplitTurn
    <2> QED BY <2>3, <2>5, <2>6, <2>7, Zenon
  <1>3. Nat \subseteq M
    <2> HIDE DEF M
    <2> QED BY <1>1, <1>2, NextInduction
  <1>4. Len(t) \in Nat
    OBVIOUS
  <1> QED BY <1>3, <1>4

LEMMA SplitAtDelimiter ==
    ASSUME NEW S, NEW s \in Seq(S), NEW delim \in S
    PROVE  SplitState(s \o <<delim>>, delim) =
               [tokens |-> Append(SplitState(s, delim).tokens, SplitState(s, delim).token),
                token |-> <<>>]
  <1>1. s \o <<delim>> = Append(s, delim)
    OBVIOUS
  <1>2. SplitState(Append(s, delim), delim) = SplitTurn(SplitState(s, delim), delim, delim)
    BY SplitStateLast
  <1> QED BY <1>1, <1>2, Zenon DEF SplitTurn

(* A token that has been found stays where it is. *)
TokenAt(r, i, t) == i \in 1..Len(r.tokens) /\ r.tokens[i] = t

LEMMA TokenStays ==
    ASSUME NEW S, NEW s \in Seq(S), NEW t \in Seq(S), NEW delim,
           NEW i, NEW x, TokenAt(SplitState(s, delim), i, x)
    PROVE  TokenAt(SplitState(s \o t, delim), i, x)
  <1> DEFINE M == {n \in Nat : \A u \in Seq(S) : Len(u) = n => TokenAt(SplitState(s \o u, delim), i, x)}
  <1>1. 0 \in M
    <2> SUFFICES ASSUME NEW u \in Seq(S), Len(u) = 0
                 PROVE  TokenAt(SplitState(s \o u, delim), i, x)
      OBVIOUS
    <2>1. s \o u = s
      BY EmptyBehind
    <2> QED BY <2>1
  <1>2. ASSUME NEW n \in Nat, n \in M PROVE n + 1 \in M
    <2> SUFFICES ASSUME NEW u \in Seq(S), Len(u) = n + 1
                 PROVE  TokenAt(SplitState(s \o u, delim), i, x)
      OBVIOUS
    <2>1. PICK f \in Seq(S), c \in S : u = Append(f, c) /\ Len(f) = n /\ u[n + 1] = c
                                      /\ \A k \in 1..n : u[k] = f[k]
      BY LastElement
    <2>2. s \o u = Append(s \o f, c) /\ s \o f \in Seq(S)
      BY <2>1, BehindAppend
    <2> DEFINE r == SplitState(s \o f, delim)
    <2>3. TokenAt(r, i, x)
      BY <1>2, <2>1
    <2>4. SplitState(s \o u, delim) = SplitTurn(r, c, delim)
      BY <2>2, SplitStateLast
    <2>5. r.tokens \in Seq(Seq(S)) /\ r.token \in Seq(S)
      BY <2>2, SplitStateType
    <2> HIDE DEF r
    <2>6. /\ i \in 1..Len(Append(r.tokens, r.token))
          /\ Append(r.tokens, r.token)[i] = x
      BY <2>3, <2>5 DEF TokenAt
    <2>7. TokenAt([tokens |-> Append(r.tokens, r.token), token |-> <<>>], i, x)
      BY <2>6 DEF TokenAt
    <2>8. TokenAt([tokens |-> r.tokens, token |-> Append(r.token, c)], i, x)
      BY <2>3 DEF TokenAt
    <2> QED BY <2>4, <2>7, <2>8, Zenon DEF SplitTurn
  <1>3. Nat \subseteq M
    <2> HIDE DEF M
    <2> QED BY <1>1, <1>2, NextInduction
  <1>4. Len(t) \in Nat
    OBVIOUS
  <1> QED BY <1>3, <1>4

(* ... and split returns it, as it does the last token. *)
LEMMA TokenReturned ==
    ASSUME NEW S, NEW s \in Seq(S), NEW delim, NEW i, NEW x, TokenAt(SplitState(s, delim), i, x)
    PROVE  i \in 1..Len(split(s, delim)) /\ split(s, delim)[i] = x
  <1> DEFINE r == SplitState(s, delim)
  <1>1. r.tokens \in Seq(Seq(S)) /\ r.token \in Seq(S)
    BY SplitStateType
  <1>2. split(s, delim) = IF r.token = <<>> THEN r.tokens ELSE Append(r.tokens, r.token)
    BY SplitByState
  <1> HIDE DEF r
  <1>3. i \in 1..Len(r.tokens) /\ r.tokens[i] = x
    BY DEF TokenAt, r
  <1> QED BY <1>1, <1>2, <1>3

LEMMA LastTokenReturned ==
    ASSUME NEW S, NEW s \in Seq(S), NEW delim, SplitState(s, delim).token # <<>>
    PROVE  LET r == SplitState(s, delim)
           IN  /\ split(s, delim) = Append(r.tokens, r.token)
               /\ Len(r.tokens) + 1 \in 1..Len(split(s, delim))
               /\ split(s, delim)[Len(r.tokens) + 1] = r.token
  <1> DEFINE r == SplitState(s, delim)
  <1>1. r.tokens \in Seq(Seq(S)) /\ r.token \in Seq(S)
    BY SplitStateType
  <1>2. split(s, delim) = Append(r.tokens, r.token)
    BY SplitByState
  <1> HIDE DEF r
  <1> QED BY <1>1, <1>2 DEF r

(***************************************************************************)
(* What stl_to_string joined with a delimiter and a space.                 *)
(***************************************************************************)
LEMMA OneMore ==
    ASSUME NEW T, NEW f \in Seq(T), NEW k \in 1..Len(f)
    PROVE  Append(SubSeq(f, 1, k - 1), f[k]) = SubSeq(f, 1, k)
  <1> DEFINE a == Append(SubSeq(f, 1, k - 1), f[k])
             b == SubSeq(f, 1, k)
  <1>1. /\ SubSeq(f, 1, k - 1) \in Seq(T) /\ Len(SubSeq(f, 1, k - 1)) = k - 1 /\ f[k] \in T
        /\ \A i \in 1..k - 1 : SubSeq(f, 1, k - 1)[i] = f[i]
    OBVIOUS
  <1>2. a \in Seq(T) /\ Len(a) = k /\ \A i \in 1..k : a[i] = f[i]
    BY <1>1
  <1>3. b \in Seq(T) /\ Len(b) = k /\ \A i \in 1..k : b[i] = f[i]
    OBVIOUS
  <1> HIDE DEF a, b
  <1>4. a = b
    BY <1>2, <1>3, SeqEqual
  <1> QED BY <1>4 DEF a, b

(* The separator is cut off again. *)
LEMMA CutOff ==
    ASSUME NEW S, NEW h \in Seq(S), NEW p \in Seq(S)
    PROVE  SubSeq(h \o p, 1, Len(h \o p) - Len(p)) = h /\ Len(h \o p) - Len(p) >= 0
  <1> DEFINE x == h \o p
             y == SubSeq(x, 1, Len(h))
  <1>1. /\ x \in Seq(S) /\ Len(x) = Len(h) + Len(p) /\ Len(h) \in Nat /\ Len(p) \in Nat
        /\ \A i \in 1..Len(h) : x[i] = h[i]
    BY ConcatProperties
  <1> HIDE DEF x
  <1>2. y \in Seq(S) /\ Len(y) = Len(h) /\ \A i \in 1..Len(h) : y[i] = h[i]
    BY <1>1
  <1> HIDE DEF y
  <1>3. y = h
    BY <1>2, SeqEqual
  <1>4. Len(x) - Len(p) = Len(h) /\ Len(h) >= 0
    BY <1>1
  <1> QED BY <1>3, <1>4 DEF x, y

(* The entries as split finds them, each but the first behind a space. *)
SpacedOut(list, sp) == [i \in 1..Len(list) |-> IF i = 1 THEN list[1] ELSE <<sp>> \o list[i]]

LEMMA SpacedOutType ==
    ASSUME NEW S, NEW list \in Seq(Seq(S)), NEW sp \in S
    PROVE  /\ SpacedOut(list, sp) \in Seq(Seq(S)) /\ Len(SpacedOut(list, sp)) = Len(list)
           /\ \A i \in 1..Len(list) :
                 SpacedOut(list, sp)[i] = IF i = 1 THEN list[1] ELSE <<sp>> \o list[i]
  <1>1. <<sp>> \in Seq(S)
    OBVIOUS
  <1>2. \A i \in 1..Len(list) : list[i] \in Seq(S)
    OBVIOUS
  <1>3. \A i \in 1..Len(list) : <<sp>> \o list[i] \in Seq(S)
    BY <1>1, <1>2, ConcatProperties
  <1>4. Len(list) \in Nat
    OBVIOUS
  <1> QED BY <1>2, <1>3, <1>4 DEF SpacedOut

LEMMA ThreeGrouped ==
    ASSUME NEW S, NEW a \in Seq(S), NEW b \in Seq(S), NEW c \in Seq(S)
    PROVE  (a \o b) \o c = a \o (b \o c) /\ a \o b \in Seq(S) /\ b \o c \in Seq(S)
  BY ConcatAssociative, ConcatProperties

LEMMA Fields ==
    ASSUME NEW r, NEW a, NEW b, r = [tokens |-> a, token |-> b]
    PROVE  r.tokens = a /\ r.token = b
  OBVIOUS

Without(list, delim) == \A i \in 1..Len(list) : \A j \in 1..Len(list[i]) : list[i][j] # delim

JoinedRead(h, list, delim, sp, n) ==
    /\ n = 1 => h = list[1]
    /\ SplitState(h, delim) = [tokens |-> SubSeq(SpacedOut(list, sp), 1, n - 1),
                               token |-> SpacedOut(list, sp)[n]]

LEMMA JoinedText ==
    ASSUME NEW S, NEW delim \in S, NEW sp \in S, delim # sp,
           NEW list \in Seq(Seq(S)), Len(list) >= 1, Without(list, delim)
    PROVE  \E h \in Seq(S) :
               /\ JoinedRead(h, list, delim, sp, Len(list))
               /\ FlattenSeq([i \in DOMAIN list |-> list[i] \o (<<delim>> \o <<sp>>)])
                      = h \o (<<delim>> \o <<sp>>)
  <1> DEFINE n == Len(list)
             one == <<delim>>
             blank == <<sp>>
             sep == one \o blank
             parts == [i \in DOMAIN list |-> list[i] \o sep]
             spaced == SpacedOut(list, sp)
             Read(h, k) == h \in Seq(S) /\ JoinedRead(h, list, delim, sp, k)
  <1>1. /\ n \in Nat /\ n >= 1 /\ DOMAIN list = 1..n /\ \A i \in 1..n : list[i] \in Seq(S)
        /\ one \in Seq(S) /\ blank \in Seq(S) /\ sep \in Seq(S)
    OBVIOUS
  <1>2. /\ spaced \in Seq(Seq(S)) /\ Len(spaced) = n
        /\ \A i \in 1..n : spaced[i] = IF i = 1 THEN list[1] ELSE blank \o list[i]
    BY SpacedOutType
  <1>3. blank # <<>> /\ Len(blank) = 1 /\ blank[1] # delim
    OBVIOUS
  <1> HIDE DEF sep
  <1>5. parts \in Seq(Seq(S)) /\ Len(parts) = n /\ \A i \in 1..n : parts[i] = list[i] \o sep
    <2>1. \A i \in 1..n : list[i] \o sep \in Seq(S)
      BY <1>1, ConcatProperties
    <2> QED BY <1>1, <2>1
  <1> HIDE DEF n, parts, spaced, blank, one
  <1>n. n \in Nat /\ n >= 1 /\ n - 1 \in Nat /\ (n - 1) + 1 = n /\ n <= n
    BY <1>1
  <1>6. PICK g :
            /\ \A k \in 1..n : g[k] = IF k = 1 THEN parts[k] ELSE g[k - 1] \o parts[k]
            /\ FlattenSeq(parts) = g[n]
    <2>1. parts # <<>>
      BY <1>1, <1>5
    <2>2. \E g \in [1..Len(parts) -> Seq(S)] :
            /\ \A k \in 1..Len(parts) : g[k] = IF k = 1 THEN parts[k] ELSE g[k - 1] \o parts[k]
            /\ FlattenSeq(parts) = g[Len(parts)]
      BY <1>5, <2>1, TextsAddUp
    <2>3. \E g \in [1..n -> Seq(S)] :
            /\ \A k \in 1..n : g[k] = IF k = 1 THEN parts[k] ELSE g[k - 1] \o parts[k]
            /\ FlattenSeq(parts) = g[n]
      BY <1>5, <2>2, Zenon
    <2> QED BY <2>3, Zenon
  <1> HIDE DEF Read
  <1> DEFINE E(k) == \E h : g[k] = h \o sep /\ Read(h, k)
             M == {k \in Nat : k + 1 <= n => E(k + 1)}
  <1>7. 0 + 1 <= n => E(0 + 1)
    <2>0. 1 \in 1..n
      BY <1>n
    <2>a. g[1] = parts[1]
      BY <1>6, <2>0
    <2>1. 1 \in 1..n /\ list[1] \in Seq(S) /\ g[1] = list[1] \o sep
      BY <1>1, <1>5, <2>0, <2>a, Zenon
    <2> DEFINE h == list[1]
    <2>2. SplitState(<<>> \o h, delim) =
              [tokens |-> SplitState(<<>>, delim).tokens, token |-> SplitState(<<>>, delim).token \o h]
      <3>1. <<>> \in Seq(S)
        OBVIOUS
      <3>2. \A j \in 1..Len(h) : h[j] # delim
        BY <2>1 DEF n, Without
      <3> HIDE DEF h
      <3> QED BY <2>1, <3>1, <3>2, SplitBehind DEF h
    <2>3. SplitState(<<>>, delim).tokens = <<>> /\ SplitState(<<>>, delim).token = <<>>
      BY SplitStateEmpty DEF NoToken
    <2>4. <<>> \o h = h
      BY <2>1, ConcatEmptySeq
    <2>5. SubSeq(spaced, 1, 1 - 1) = <<>> /\ spaced[1] = h
      BY <1>2, <2>1, SubSeqEmpty
    <2>6. SplitState(h, delim) = [tokens |-> <<>>, token |-> h]
      BY <2>2, <2>3, <2>4, Zenon
    <2>7. Read(h, 1)
      BY <2>1, <2>5, <2>6 DEF JoinedRead, spaced, Read
    <2>8. 0 + 1 = 1
      OBVIOUS
    <2> QED BY <2>1, <2>7, <2>8, Zenon
  <1>8. ASSUME NEW m \in Nat, m \in M PROVE m + 1 \in M
    <2> DEFINE k == m + 1
    <2> SUFFICES ASSUME k + 1 <= n PROVE E(k + 1)
      <3> HIDE DEF E
      <3> QED OBVIOUS
    <2>1. k \in Nat /\ k >= 1 /\ k \in 1..n /\ k + 1 \in 1..n /\ k + 1 # 1 /\ (k + 1) - 1 = k /\ k <= n
      BY <1>1
    <2>2. PICK h : g[k] = h \o sep /\ Read(h, k)
      <3>1. E(k)
        <4> HIDE DEF E
        <4> QED BY <1>8, <2>1
      <3> QED BY <3>1
    <2> HIDE DEF k, M
    <2> DEFINE e == list[k + 1]
               p == h \o one
               q == p \o blank
               b == q \o e
               old == SubSeq(spaced, 1, k)
    <2>3. /\ h \in Seq(S) /\ e \in Seq(S) /\ \A j \in 1..Len(e) : e[j] # delim
          /\ SplitState(h, delim) = [tokens |-> SubSeq(spaced, 1, k - 1), token |-> spaced[k]]
      <3>1. h \in Seq(S) /\ SplitState(h, delim) = [tokens |-> SubSeq(spaced, 1, k - 1), token |-> spaced[k]]
        BY <2>2, Zenon DEF JoinedRead, spaced, Read
      <3>2. e \in Seq(S)
        BY <1>1, <2>1
      <3>3. \A j \in 1..Len(e) : e[j] # delim
        BY <2>1 DEF n, Without
      <3> QED BY <3>1, <3>2, <3>3
    <2>4. g[k + 1] = (h \o sep) \o (e \o sep)
      BY <1>5, <1>6, <2>1, <2>2
    <2> HIDE DEF e
    <2>5. SplitState(p, delim) = [tokens |-> old, token |-> <<>>]
      <3> DEFINE r == SplitState(h, delim)
      <3>1. SplitState(p, delim) = [tokens |-> Append(r.tokens, r.token), token |-> <<>>]
        BY <2>3, SplitAtDelimiter DEF one
      <3>2. r.tokens = SubSeq(spaced, 1, k - 1) /\ r.token = spaced[k]
        BY <2>3, Fields, Zenon
      <3>3. Append(SubSeq(spaced, 1, k - 1), spaced[k]) = SubSeq(spaced, 1, k)
        BY <1>2, <2>1, OneMore
      <3> QED BY <3>1, <3>2, <3>3, Zenon
    <2>6. p \in Seq(S) /\ q \in Seq(S) /\ b \in Seq(S)
      BY <1>1, <2>3, ConcatProperties
    <2> HIDE DEF p
    <2>7. SplitState(q, delim) = [tokens |-> old, token |-> blank]
      <3> DEFINE r == SplitState(p, delim)
      <3>1. \A j \in 1..Len(blank) : blank[j] # delim
        BY <1>3
      <3>2. SplitState(q, delim) = [tokens |-> r.tokens, token |-> r.token \o blank]
        BY <1>1, <2>6, <3>1, SplitBehind
      <3>3. r.tokens = old /\ r.token = <<>>
        BY <2>5, Fields, Zenon
      <3>4. <<>> \o blank = blank
        BY <1>1, ConcatEmptySeq
      <3> QED BY <3>2, <3>3, <3>4, Zenon
    <2> HIDE DEF q
    <2>8. SplitState(b, delim) = [tokens |-> old, token |-> blank \o e]
      <3> DEFINE r == SplitState(q, delim)
      <3>1. SplitState(b, delim) = [tokens |-> r.tokens, token |-> r.token \o e]
        BY <2>3, <2>6, SplitBehind
      <3>2. r.tokens = old /\ r.token = blank
        BY <2>7, Fields, Zenon
      <3> QED BY <3>1, <3>2, Zenon
    <2>9. spaced[k + 1] = blank \o e
      BY <1>2, <2>1 DEF e
    <2>10. g[k + 1] = b \o sep
      <3>1. (h \o sep) \o (e \o sep) = ((h \o sep) \o e) \o sep
        <4>0. h \in Seq(S) /\ sep \in Seq(S)
          BY <1>1, <2>3
        <4>e. e \in Seq(S)
          BY <2>3
        <4>1. h \o sep \in Seq(S)
          BY <4>0, ConcatProperties
        <4>2. (h \o sep) \o (e \o sep) = ((h \o sep) \o e) \o sep
          <5> DEFINE a == h \o sep
          <5>1. a \in Seq(S) /\ e \in Seq(S) /\ sep \in Seq(S)
            BY <4>0, <4>1, <4>e
          <5> HIDE DEF a
          <5>2. (a \o e) \o sep = a \o (e \o sep)
            BY <5>1, ThreeGrouped
          <5> QED BY <5>2, Zenon DEF a
        <4> QED BY <4>2, Zenon
      <3>2. h \o sep = q
        <4>0. h \in Seq(S) /\ one \in Seq(S) /\ blank \in Seq(S)
          BY <1>1, <2>3
        <4>1. (h \o one) \o blank = h \o (one \o blank)
          BY <4>0, ThreeGrouped
        <4> QED BY <4>1 DEF q, p, sep
      <3> QED BY <2>4, <3>1, <3>2
    <2> HIDE DEF b
    <2>11. Read(b, k + 1)
      <3>1. (k + 1) - 1 = k /\ k + 1 # 1
        BY <2>1
      <3>2. SplitState(b, delim) = [tokens |-> SubSeq(spaced, 1, (k + 1) - 1), token |-> spaced[k + 1]]
        BY <2>8, <2>9, <3>1, Zenon
      <3> QED BY <2>6, <3>1, <3>2, Zenon DEF JoinedRead, spaced, Read
    <2> QED BY <2>10, <2>11
  <1>9. PICK h : g[n] = h \o sep /\ Read(h, n)
    <2>1. Nat \subseteq M
      <3> HIDE DEF E
      <3>1. 0 \in M
        BY <1>7
      <3> HIDE DEF M
      <3> QED BY <1>8, <3>1, NextInduction
    <2> DEFINE m == n - 1
    <2>3. m \in M
      BY <1>n, <2>1
    <2>4. m + 1 = n
      BY <1>n
    <2> HIDE DEF m
    <2>5. E(n)
      <3> HIDE DEF E
      <3> QED BY <1>n, <2>3, <2>4
    <2> QED BY <2>5
  <1>10. h \in Seq(S) /\ JoinedRead(h, list, delim, sp, n) /\ FlattenSeq(parts) = h \o sep
    BY <1>6, <1>9, Zenon DEF Read
  <1> QED BY <1>10, Zenon DEF n, parts, sep, one, blank

FirstJoined(list, delim, sp) == stl_to_string(list, <<delim>> \o <<sp>>)[1]

LEMMA JoinedSplit ==
    ASSUME NEW S, NEW delim \in S, NEW sp \in S, delim # sp,
           NEW list \in Seq(Seq(S)), Len(list) >= 1, Without(list, delim),
           NEW first, first = FirstJoined(list, delim, sp)
    PROVE  first # <<>> => split(first, delim) = SpacedOut(list, sp)
  <1> DEFINE n == Len(list)
             sep == <<delim>> \o <<sp>>
             spaced == SpacedOut(list, sp)
             parts == [i \in DOMAIN list |-> list[i] \o sep]
  <1>1. n \in Nat /\ n >= 1 /\ n \in 1..n /\ \A i \in 1..n : list[i] \in Seq(S)
    OBVIOUS
  <1>2. /\ spaced \in Seq(Seq(S)) /\ Len(spaced) = n
        /\ \A i \in 1..n : spaced[i] = IF i = 1 THEN list[1] ELSE <<sp>> \o list[i]
    BY SpacedOutType
  <1>3. PICK h \in Seq(S) : JoinedRead(h, list, delim, sp, n) /\ FlattenSeq(parts) = h \o sep
    BY JoinedText
  <1>4. (n = 1 => h = list[1]) /\ SplitState(h, delim).token = spaced[n]
        /\ SplitState(h, delim).tokens = SubSeq(spaced, 1, n - 1)
    <2>1. (n = 1 => h = list[1])
          /\ SplitState(h, delim) = [tokens |-> SubSeq(spaced, 1, n - 1), token |-> spaced[n]]
      BY <1>3, Zenon DEF JoinedRead
    <2>2. SplitState(h, delim).tokens = SubSeq(spaced, 1, n - 1) /\ SplitState(h, delim).token = spaced[n]
      <3> DEFINE r == SplitState(h, delim)
                 a == SubSeq(spaced, 1, n - 1)
                 b == spaced[n]
      <3>1. r = [tokens |-> a, token |-> b]
        BY <2>1
      <3> HIDE DEF r, a, b
      <3>2. r.tokens = a /\ r.token = b
        BY <3>1
      <3> QED BY <3>2 DEF r, a, b
    <2> QED BY <2>1, <2>2, Zenon
  <1>5. stl_to_string(list, sep) = <<h>>
    <2>s. sep \in Seq(S)
      OBVIOUS
    <2>0. stl_to_string(list, sep) =
            LET joined == FlattenSeq(parts)
                size == Len(joined) - Len(sep)
            IN  IF size < 0 THEN <<>> ELSE <<SubSeq(joined, 1, size)>>
      BY Zenon DEF stl_to_string
    <2> HIDE DEF sep, parts
    <2>1. SubSeq(h \o sep, 1, Len(h \o sep) - Len(sep)) = h /\ ~(Len(h \o sep) - Len(sep) < 0)
      BY <2>s, CutOff
    <2> QED BY <1>3, <2>0, <2>1, Zenon
  <1>6. first = h
    <2>1. <<h>>[1] = h
      OBVIOUS
    <2> QED BY <1>5, <2>1, Zenon DEF FirstJoined
  <1>7. first # <<>> => spaced[n] # <<>>
    <2>1. CASE n = 1
      BY <1>1, <1>2, <1>4, <1>6, <2>1
    <2>2. CASE n # 1
      <3>1. spaced[n] = <<sp>> \o list[n] /\ list[n] \in Seq(S)
        BY <1>1, <1>2, <2>2
      <3> DEFINE e == list[n]
      <3> HIDE DEF e, n
      <3>2. e \in Seq(S) => <<sp>> \o e # <<>>
        OBVIOUS
      <3> QED BY <3>1, <3>2 DEF e
    <2> QED BY <2>1, <2>2
  <1> HIDE DEF n, sep, spaced
  <1>8. first # <<>> => split(h, delim) = Append(SubSeq(spaced, 1, n - 1), spaced[n])
    BY <1>4, <1>7, SplitByState, Zenon
  <1>9. Append(SubSeq(spaced, 1, n - 1), spaced[n]) = SubSeq(spaced, 1, n)
    BY <1>1, <1>2, OneMore
  <1>10. SubSeq(spaced, 1, Len(spaced)) = spaced
    BY <1>2, SubSeqFull
  <1> QED BY <1>2, <1>6, <1>8, <1>9, <1>10, Zenon DEF sep, spaced

(***************************************************************************)
(* trim.                                                                   *)
(***************************************************************************)
LEMMA GreatestOf ==
    ASSUME NEW I, I \subseteq Nat, NEW m \in I, \A y \in I : m >= y
    PROVE  Max(I) = m
  <1>1. \A x \in I : (\A y \in I : x >= y) => x = m
    OBVIOUS
  <1>2. \E x \in I : \A y \in I : x >= y
    OBVIOUS
  <1>3. Max(I) \in I /\ \A y \in I : Max(I) >= y
    BY <1>2, Zenon DEF Max
  <1> QED BY <1>1, <1>3

LEMMA GreatestExists ==
    ASSUME NEW n \in Nat, NEW I, I \subseteq 0..n, I # {}
    PROVE  Max(I) \in I /\ \A y \in I : Max(I) >= y
  <1> DEFINE J == {k \in Nat : k <= n /\ n - k \in I}
  <1>1. J \subseteq Nat
    OBVIOUS
  <1>2. J # {}
    <2>1. PICK x \in I : TRUE
      OBVIOUS
    <2>2. x \in Nat /\ x <= n /\ n - x \in Nat /\ n - x <= n /\ n - (n - x) = x
      BY <2>1
    <2>3. n - x \in J
      BY <2>1, <2>2
    <2> QED BY <2>3
  <1>3. PICK m \in J : \A y \in J : m <= y
    <2> HIDE DEF J
    <2> QED BY <1>1, <1>2, LeastExists
  <1>4. n - m \in I /\ \A y \in I : n - m >= y
    <2>1. m \in Nat /\ m <= n /\ n - m \in I
      BY <1>3
    <2>2. ASSUME NEW y \in I PROVE n - m >= y
      <3>1. y \in Nat /\ y <= n
        BY <2>2
      <3>2. n - y \in Nat /\ n - y <= n /\ n - (n - y) = y
        BY <3>1
      <3>3. n - y \in J
        BY <3>2
      <3>4. m <= n - y
        BY <1>3, <3>3
      <3> QED BY <2>1, <3>1, <3>4
    <2> QED BY <2>1, <2>2
  <1>5. I \subseteq Nat
    OBVIOUS
  <1> QED BY <1>4, <1>5, GreatestOf

NoSpaceAt(s) == {i \in 1..Len(s) : s[i] \notin Space}

LEMMA TrimByEnds ==
    ASSUME NEW S, NEW s \in Seq(S)
    PROVE  LET I == NoSpaceAt(s)
           IN  /\ I = {} => trim(s) = <<>>
               /\ I # {} => /\ trim(s) = SubSeq(s, Min(I), Max(I))
                            /\ Min(I) \in I /\ Max(I) \in I
                            /\ \A y \in I : Min(I) <= y /\ y <= Max(I)
  <1> DEFINE I == NoSpaceAt(s)
             front == SelectInSeq(s, LAMBDA c : c \notin Space)
             back == SelectLastInSeq(s, LAMBDA c : c \notin Space)
  <1>1. Len(s) \in Nat /\ I \subseteq 1..Len(s)
    BY DEF NoSpaceAt
  <1>2. trim(s) = IF front = 0 THEN <<>> ELSE SubSeq(s, front, back)
    BY DEF trim
  <1>3. front = (IF I # {} THEN Min(I) ELSE 0) /\ back = (IF I # {} THEN Max(I) ELSE 0)
    BY DEF SelectInSeq, SelectLastInSeq, NoSpaceAt
  <1> HIDE DEF I, front, back
  <1>4. I # {} => Min(I) \in I /\ \A y \in I : Min(I) <= y
    <2>1. I \subseteq Nat
      BY <1>1
    <2> QED BY <2>1, LeastExists
  <1>5. I # {} => Max(I) \in I /\ \A y \in I : Max(I) >= y
    <2>1. I \subseteq 0..Len(s)
      BY <1>1
    <2> QED BY <1>1, <2>1, GreatestExists
  <1>6. I # {} => /\ Min(I) # 0 /\ \A y \in I : y <= Max(I)
    BY <1>1, <1>4, <1>5
  <1> QED BY <1>2, <1>3, <1>4, <1>5, <1>6 DEF I

LEMMA TrimmedEnds ==
    ASSUME NEW S, NEW s \in Seq(S), trim(s) = s, s # <<>>
    PROVE  1 \in NoSpaceAt(s) /\ Len(s) \in NoSpaceAt(s) /\ Len(s) >= 1
  <1> DEFINE I == NoSpaceAt(s)
  <1>1. Len(s) \in Nat /\ Len(s) >= 1
    OBVIOUS
  <1>2. I \subseteq 1..Len(s)
    BY DEF NoSpaceAt
  <1>3. I # {} /\ Min(I) \in I /\ Max(I) \in I /\ Min(I) <= Max(I)
    BY TrimByEnds
  <1>4. s = SubSeq(s, Min(I), Max(I))
    BY <1>3, TrimByEnds
  <1> DEFINE a == Min(I)
             b == Max(I)
  <1>5. a \in 1..Len(s) /\ b \in 1..Len(s) /\ a <= b
    BY <1>2, <1>3
  <1> HIDE DEF I, a, b
  <1>6. Len(SubSeq(s, a, b)) = b - a + 1
    BY <1>5, SubSeqProperties
  <1>7. Len(SubSeq(s, a, b)) = Len(s)
    BY <1>4, Zenon DEF a, b
  <1>8. a = 1 /\ b = Len(s)
    BY <1>1, <1>5, <1>6, <1>7
  <1> QED BY <1>1, <1>3, <1>8 DEF I, a, b

LEMMA TrimSpaced ==
    ASSUME NEW S, NEW sp \in S, sp \in Space, NEW s \in Seq(S), trim(s) = s
    PROVE  trim(<<sp>> \o s) = s
  <1> DEFINE t == <<sp>> \o s
             I == NoSpaceAt(s)
             J == NoSpaceAt(t)
             n == Len(s)
  <1>1. /\ t \in Seq(S) /\ Len(t) = n + 1 /\ n \in Nat /\ t[1] = sp
        /\ \A i \in 1..n : t[i + 1] = s[i]
        /\ SubSeq(t, 2, n + 1) = s
    <2>1. t \in Seq(S) /\ Len(t) = n + 1 /\ n \in Nat /\ t[1] = sp
          /\ \A i \in 1..n : t[i + 1] = s[i]
      OBVIOUS
    <2> HIDE DEF t, n
    <2> DEFINE u == SubSeq(t, 2, n + 1)
    <2>2. u \in Seq(S) /\ Len(u) = n /\ \A i \in 1..n : u[i] = t[i + 1]
      BY <2>1
    <2> HIDE DEF u
    <2>3. \A i \in 1..n : u[i] = s[i]
      BY <2>1, <2>2
    <2>4. u = s
      BY <2>2, <2>3, SeqEqual DEF n
    <2> QED BY <2>1, <2>4 DEF u
  <1> HIDE DEF t
  <1>2. 1 \notin J /\ J \subseteq 1..n + 1 /\ \A i \in 1..n : i + 1 \in J <=> i \in I
    <2> HIDE DEF n
    <2>1. J = {i \in 1..n + 1 : t[i] \notin Space}
      BY <1>1 DEF NoSpaceAt
    <2>2. I = {i \in 1..n : s[i] \notin Space}
      BY DEF NoSpaceAt, n
    <2> HIDE DEF I, J
    <2>3. 1 \notin J /\ J \subseteq 1..n + 1
      BY <1>1, <2>1
    <2>4. ASSUME NEW i \in 1..n PROVE i + 1 \in J <=> i \in I
      <3>1. t[i + 1] = s[i] /\ i + 1 \in 1..n + 1
        BY <1>1
      <3> QED BY <2>1, <2>2, <3>1
    <2> QED BY <2>3, <2>4
  <1>3. CASE s = <<>>
    <2>1. n = 0
      BY <1>3
    <2>2. J = {}
      <3> HIDE DEF J, n
      <3> QED BY <1>2, <2>1
    <2> QED BY <1>1, <1>3, <2>2, TrimByEnds DEF t
  <1>4. CASE s # <<>>
    <2>1. 1 \in I /\ n \in I /\ n >= 1
      BY <1>4, TrimmedEnds
    <2> HIDE DEF I, J, n
    <2>2. 2 \in J /\ n + 1 \in J
      <3>1. 1 \in 1..n /\ n \in 1..n /\ 1 + 1 = 2
        BY <1>1, <2>1
      <3> QED BY <1>2, <2>1, <3>1
    <2>3. \A y \in J : 2 <= y /\ y <= n + 1
      BY <1>1, <1>2
    <2>4. J \subseteq Nat
      BY <1>1, <1>2
    <2>5. Min(J) = 2 /\ Max(J) = n + 1
      <3>1. n + 1 >= 2 /\ \A y \in J : n + 1 >= y
        BY <1>1, <2>1, <2>3
      <3>2. Min(J) = 2
        BY <2>2, <2>3, <2>4, LeastOf
      <3>3. Max(J) = n + 1
        BY <2>2, <2>4, <3>1, GreatestOf
      <3> QED BY <3>2, <3>3
    <2>6. trim(t) = SubSeq(t, Min(J), Max(J))
      <3>1. J # {}
        BY <2>2
      <3> QED BY <1>1, <3>1, TrimByEnds DEF J
    <2> QED BY <1>1, <2>5, <2>6 DEF t
  <1> QED BY <1>3, <1>4

LEMMA NothingJoined ==
    ASSUME NEW a, NEW b
    PROVE  stl_to_string(<<>>, <<a>> \o <<b>>) = <<>>
  <1> DEFINE sep == <<a>> \o <<b>>
             parts == [i \in DOMAIN <<>> |-> <<>>[i] \o sep]
  <1>1. Len(sep) = 2
    OBVIOUS
  <1>2. stl_to_string(<<>>, sep) =
            LET joined == FlattenSeq(parts)
                size == Len(joined) - Len(sep)
            IN  IF size < 0 THEN <<>> ELSE <<SubSeq(joined, 1, size)>>
    BY Zenon DEF stl_to_string
  <1> HIDE DEF sep
  <1>3. parts = <<>>
    OBVIOUS
  <1>4. FlattenSeq(parts) = <<>>
    BY <1>3 DEF FlattenSeq
  <1>5. Len(FlattenSeq(parts)) = 0
    BY <1>4
  <1> HIDE DEF parts
  <1>6. Len(FlattenSeq(parts)) - Len(sep) < 0
    BY <1>1, <1>5
  <1> QED BY <1>2, <1>6, Zenon DEF sep

LEMMA SplitJoined ==
    ASSUME NEW sp \in Space, Delim # sp, NEW list \in Seq(Seq(Chars)), list # <<>>,
           NEW first, first = FirstJoined(list, Delim, sp), first # <<>>,
           \A i \in DOMAIN list : ~Contains(list[i], Delim) /\ trim(list[i]) = list[i]
    PROVE  LET again == split(first, Delim) IN [i \in DOMAIN again |-> trim(again[i])] = list
  <1> DEFINE S == Chars \cup {sp}
             again == split(first, Delim)
             back == [i \in DOMAIN again |-> trim(again[i])]
  <1>1. list \in Seq(Seq(S)) /\ Len(list) \in Nat /\ Len(list) >= 1 /\ Delim \in S /\ sp \in S
    BY DEF Chars
  <1>2. Without(list, Delim)
    BY DEF Without, Contains
  <1> HIDE DEF S
  <1>3. again = SpacedOut(list, sp)
    BY <1>1, <1>2, JoinedSplit
  <1>4. /\ SpacedOut(list, sp) \in Seq(Seq(S)) /\ Len(SpacedOut(list, sp)) = Len(list)
        /\ \A i \in 1..Len(list) :
               SpacedOut(list, sp)[i] = IF i = 1 THEN list[1] ELSE <<sp>> \o list[i]
    BY <1>1, SpacedOutType
  <1>5. DOMAIN again = 1..Len(list)
    BY <1>3, <1>4
  <1>6. ASSUME NEW i \in 1..Len(list) PROVE trim(again[i]) = list[i]
    <2>1. list[i] \in Seq(S) /\ trim(list[i]) = list[i]
      BY <1>1
    <2>2. CASE i = 1
      BY <1>3, <1>4, <2>1, <2>2
    <2>3. CASE i # 1
      <3>1. again[i] = <<sp>> \o list[i]
        BY <1>3, <1>4, <2>3
      <3> DEFINE e == list[i]
      <3>2. e \in Seq(S) /\ trim(e) = e
        BY <2>1
      <3> HIDE DEF e
      <3>3. trim(<<sp>> \o e) = e
        BY <1>1, <3>2, TrimSpaced
      <3> QED BY <3>1, <3>3, Zenon DEF e
    <2> QED BY <2>2, <2>3
  <1> HIDE DEF again
  <1>7. back = [i \in 1..Len(list) |-> list[i]]
    BY <1>5, <1>6
  <1>8. list = [i \in 1..Len(list) |-> list[i]]
    BY <1>1
  <1> QED BY <1>7, <1>8, Zenon DEF again

(***************************************************************************)
(* The types alone, whatever the quote.                                    *)
(***************************************************************************)
SplitTypes ==
    /\ result \in Seq(Seq(Chars)) /\ oss \in Seq(Chars)
    /\ str \in Seq(Chars) /\ pos \in Nat

LEMMA WrittenType ==
    ASSUME NEW list \in Seq(Seq(Chars)), NEW after \in [DOMAIN list -> Nat]
    PROVE  Written(list, after) \in Seq(Chars)
  <1>1. Written(list, after) = FlattenSeq(Parts(list, after))
    BY DEF Written, Parts
  <1>2. Parts(list, after) \in Seq(Seq(Chars))
    BY PartsType
  <1> QED BY <1>1, <1>2, FlattenType

LEMMA InitSplitTypes == SplitInit => SplitTypes
  BY DEF SplitInit, SplitTypes

LEMMA CallSplitTypes ==
    ASSUME SplitTypes, NEW ps, NEW list \in Seq(Seq(Chars)), NEW after \in [DOMAIN list -> Nat],
           CallWith(ps, list, after)
    PROVE  SplitTypes'
  <1>1. Written(list, after) \in Seq(Chars)
    BY WrittenType
  <1>2. str' = Written(list, after) /\ UNCHANGED <<result, oss, pos>>
    BY DEF CallWith
  <1> QED BY <1>1, <1>2 DEF SplitTypes

LEMMA TurnSplitTypes ==
    ASSUME SplitTypes, Branch
    PROVE  SplitTypes'
  <1>1. pos < Len(str) /\ pos' = pos + 1 /\ str' = str
    BY DEF Branch, EscapedCharacter, EscapeCharacter, DelimiterKept, EntryEnds,
           QuoteCharacter, OtherCharacter, Turn
  <1>2. result \in Seq(Seq(Chars)) /\ oss \in Seq(Chars) /\ str \in Seq(Chars) /\ pos \in Nat
    BY DEF SplitTypes
  <1>3. Next1 \in Chars /\ Delim \in Chars /\ Escape \in Chars
    BY <1>1, <1>2 DEF Next1, Chars
  <1>4. Unescaped(Next1) \in Seq(Chars)
    BY <1>3 DEF Unescaped
  <1>5. oss \o Unescaped(Next1) \in Seq(Chars)
    BY <1>2, <1>4, Joined
  <1>6. /\ Append(oss, Next1) \in Seq(Chars) /\ Append(oss, Delim) \in Seq(Chars)
        /\ Append(result, oss) \in Seq(Seq(Chars)) /\ <<>> \in Seq(Chars)
    BY <1>2, <1>3
  <1>7. result' \in {result, Append(result, oss)}
        /\ oss' \in {oss, oss \o Unescaped(Next1), Append(oss, Next1), Append(oss, Delim), <<>>}
    BY DEF Branch, EscapedCharacter, EscapeCharacter, DelimiterKept, EntryEnds,
           QuoteCharacter, OtherCharacter
  <1>8. oss' \in Seq(Chars)
    BY <1>2, <1>5, <1>6, <1>7
  <1>9. result' \in Seq(Seq(Chars))
    BY <1>2, <1>6, <1>7
  <1>10. str' \in Seq(Chars) /\ pos' \in Nat
    BY <1>1, <1>2
  <1> QED BY <1>8, <1>9, <1>10 DEF SplitTypes

LEMMA ReturnSplitTypes ==
    ASSUME SplitTypes, Return
    PROVE  SplitTypes'
  <1>1. result \in Seq(Seq(Chars)) /\ oss \in Seq(Chars) /\ Escape \in Chars
    BY DEF SplitTypes, Chars
  <1>2. oss \in Seq(Chars) /\ Append(oss, Escape) \in Seq(Chars)
    BY <1>1
  <1>3. result' \in {result, Append(result, oss), Append(result, Append(oss, Escape))}
    BY Zenon DEF Return
  <1>4. result' \in Seq(Seq(Chars))
    <2>1. Append(result, oss) \in Seq(Seq(Chars)) /\ Append(result, Append(oss, Escape)) \in Seq(Seq(Chars))
      BY <1>1, <1>2
    <2> QED BY <1>1, <1>3, <2>1
  <1>5. UNCHANGED <<str, pos, oss>>
    BY DEF Return
  <1> QED BY <1>4, <1>5 DEF SplitTypes

LEMMA NextSplitTypes ==
    ASSUME SplitTypes, [SplitNext]_splitVars
    PROVE  SplitTypes'
  <1>1. CASE Call
    <2>1. PICK list \in Lists : \E after \in [DOMAIN list -> {0, 1, 3}] : CallWith(<<>>, list, after)
      BY <1>1 DEF Call
    <2>2. PICK after \in [DOMAIN list -> {0, 1, 3}] : CallWith(<<>>, list, after)
      BY <2>1
    <2>3. list \in Seq(Seq(Chars))
      BY SplitAssumption DEF Chars
    <2>4. after \in [DOMAIN list -> Nat]
      BY <2>2
    <2> QED BY <2>2, <2>3, <2>4, CallSplitTypes
  <1>2. CASE CallWithParameters
    <2>1. PICK n \in 1..MaxParams : \E ps \in [1..n -> Keys \X Values] :
              CallWith(ps, PairTexts(n, ps), KeyLengths(n, ps))
      BY <1>2 DEF CallWithParameters, PairTexts, KeyLengths
    <2>2. PICK ps \in [1..n -> Keys \X Values] :
              CallWith(ps, PairTexts(n, ps), KeyLengths(n, ps))
      BY <2>1
    <2>3. n \in Nat
      BY SplitAssumption
    <2> QED BY <2>2, <2>3, CalledWithParameters, CallSplitTypes
  <1>3. CASE Branch
    BY <1>3, TurnSplitTypes
  <1>4. CASE Return
    BY <1>4, ReturnSplitTypes
  <1>5. CASE UNCHANGED splitVars
    BY <1>5 DEF SplitTypes, splitVars
  <1> QED BY <1>1, <1>2, <1>3, <1>4, <1>5 DEF SplitNext, Branch

(* A list that split_quoted returned and stl_to_string joins with the      *)
(* delimiter and a space is the one that split and trim find again, for    *)
(* every delimiter but the space; nothing joined makes it throw.           *)
THEOREM JoinedListsSplit ==
    ASSUME Delim # " "
    PROVE  SplitSpec => []JoinedListSplits
  <1>1. SplitInit => SplitTypes
    BY InitSplitTypes
  <1>2. SplitTypes /\ [SplitNext]_splitVars => SplitTypes'
    BY NextSplitTypes
  <1>3. SplitTypes => JoinedListSplits
    <2> SUFFICES ASSUME SplitTypes PROVE JoinedListSplits
      OBVIOUS
    <2>1. PICK sp : sp = " "
      BY Zenon
    <2>2. sp \in Space /\ Delim # sp
      BY <2>1, StringsAssumption, Zenon
    <2> DEFINE joined == stl_to_string(result, <<Delim>> \o <<sp>>)
               again == split(joined[1], Delim)
    <2>3. JoinedListSplits <=>
            IF result = <<>> THEN joined = <<>>
            ELSE (/\ joined[1] # <<>>
                  /\ \A i \in DOMAIN result :
                        ~Contains(result[i], Delim) /\ trim(result[i]) = result[i]) =>
                    [i \in DOMAIN again |-> trim(again[i])] = result
      BY <2>1, Zenon DEF JoinedListSplits
    <2> HIDE <2>1
    <2>4. result = <<>> => joined = <<>>
      BY NothingJoined, Zenon
    <2>5. result # <<>> =>
            ((/\ joined[1] # <<>>
              /\ \A i \in DOMAIN result :
                    ~Contains(result[i], Delim) /\ trim(result[i]) = result[i]) =>
                 [i \in DOMAIN again |-> trim(again[i])] = result)
      <3> DEFINE first == joined[1]
      <3>1. first = FirstJoined(result, Delim, sp)
        BY DEF FirstJoined
      <3>2. result \in Seq(Seq(Chars))
        BY DEF SplitTypes
      <3> HIDE DEF joined
      <3> QED BY <2>2, <3>1, <3>2, SplitJoined, Zenon
    <2> QED BY <2>3, <2>4, <2>5, Zenon
  <1> QED BY <1>1, <1>2, <1>3, PTL DEF SplitSpec

(***************************************************************************)
(* What a value is between its quotes.                                     *)
(***************************************************************************)
Lacks(t, c) == \A i \in 1..Len(t) : t[i] # c

LEMMA OneMoreEscaped ==
    ASSUME NEW t \in Seq(Chars), NEW n \in Nat, Len(t) = n + 1
    PROVE  \E c \in Chars, u \in Seq(Chars) :
               /\ t = <<c>> \o u /\ Len(u) = n
               /\ Escaped(t) = WrittenAs(c) \o Escaped(u)
  <1>1. t # <<>>
    OBVIOUS
  <1>2. /\ Head(t) \in Chars /\ Tail(t) \in Seq(Chars)
        /\ t = <<Head(t)>> \o Tail(t) /\ Len(Tail(t)) = Len(t) - 1
    BY <1>1, HeadFirst
  <1>3. Len(Tail(t)) = n
    BY <1>2
  <1>4. Escaped(t) = WrittenAs(Head(t)) \o Escaped(Tail(t))
    BY <1>1, EscapedFirst
  <1> QED BY <1>2, <1>3, <1>4, Zenon

(* One or two characters, and what comes behind them.                      *)
LEMMA WrittenThen ==
    ASSUME NEW c \in Chars, NEW b \in Seq(Chars)
    PROVE  LET e == WrittenAs(c) \o b
           IN  /\ e \in Seq(Chars)
               /\ c \in {Quote, Escape} => /\ Len(e) = Len(b) + 2 /\ e[1] = Escape /\ e[2] = c
                                           /\ \A j \in 1..Len(b) : e[j + 2] = b[j]
               /\ c \notin {Quote, Escape} => /\ Len(e) = Len(b) + 1 /\ e[1] = c
                                              /\ \A j \in 1..Len(b) : e[j + 1] = b[j]
  <1>1. Escape \in Chars
    BY DEF Chars
  <1> DEFINE two == <<Escape, c>> \o b
             one == <<c>> \o b
  <1>2. /\ two \in Seq(Chars) /\ Len(two) = Len(b) + 2 /\ two[1] = Escape /\ two[2] = c
        /\ \A j \in 1..Len(b) : two[j + 2] = b[j]
    <2> HIDE DEF Chars
    <2> QED BY <1>1
  <1>3. /\ one \in Seq(Chars) /\ Len(one) = Len(b) + 1 /\ one[1] = c
        /\ \A j \in 1..Len(b) : one[j + 1] = b[j]
    <2> HIDE DEF Chars
    <2> QED OBVIOUS
  <1>4. CASE c \in {Quote, Escape}
    <2>1. WrittenAs(c) \o b = two
      BY <1>4 DEF WrittenAs
    <2> HIDE DEF two
    <2> QED BY <1>2, <1>4, <2>1
  <1>5. CASE c \notin {Quote, Escape}
    <2>1. WrittenAs(c) \o b = one
      BY <1>5 DEF WrittenAs
    <2> HIDE DEF one
    <2> QED BY <1>3, <1>5, <2>1
  <1> QED BY <1>4, <1>5

LEMMA QuoteBehindEscape ==
    ASSUME NEW t \in Seq(Chars)
    PROVE  LET e == Escaped(t)
           IN  \A j \in 1..Len(e) : e[j] = Quote => j - 1 \in 1..Len(e) /\ e[j - 1] = Escape
  <1> DEFINE Guarded(e) == \A j \in 1..Len(e) : e[j] = Quote => j - 1 \in 1..Len(e) /\ e[j - 1] = Escape
             M == {n \in Nat : \A u \in Seq(Chars) : Len(u) = n => Guarded(Escaped(u))}
  <1>0. Quote # Escape
    BY SplitAssumption
  <1>1. 0 \in M
    <2> SUFFICES ASSUME NEW u \in Seq(Chars), Len(u) = 0 PROVE Guarded(Escaped(u))
      OBVIOUS
    <2>1. Escaped(u) = <<>>
      <3>1. u = <<>>
        OBVIOUS
      <3> QED BY <3>1, EscapedType
    <2> QED BY <2>1
  <1>2. ASSUME NEW n \in Nat, n \in M PROVE n + 1 \in M
    <2> SUFFICES ASSUME NEW u \in Seq(Chars), Len(u) = n + 1 PROVE Guarded(Escaped(u))
      OBVIOUS
    <2>1. PICK c \in Chars, f \in Seq(Chars) :
              Len(f) = n /\ Escaped(u) = WrittenAs(c) \o Escaped(f)
      BY OneMoreEscaped
    <2> DEFINE b == Escaped(f)
               e == WrittenAs(c) \o b
    <2>2. b \in Seq(Chars)
      BY EscapedType
    <2>3. Guarded(b)
      BY <1>2, <2>1
    <2> HIDE DEF b
    <2>4. /\ e \in Seq(Chars)
          /\ c \in {Quote, Escape} => /\ Len(e) = Len(b) + 2 /\ e[1] = Escape /\ e[2] = c
                                      /\ \A j \in 1..Len(b) : e[j + 2] = b[j]
          /\ c \notin {Quote, Escape} => /\ Len(e) = Len(b) + 1 /\ e[1] = c
                                         /\ \A j \in 1..Len(b) : e[j + 1] = b[j]
      BY <2>2, WrittenThen
    <2> HIDE DEF e
    <2>5. Len(b) \in Nat
      BY <2>2
    <2>6. ASSUME NEW j \in 1..Len(e), e[j] = Quote PROVE j - 1 \in 1..Len(e) /\ e[j - 1] = Escape
      <3>1. CASE c \in {Quote, Escape}
        <4>1. CASE j = 1
          BY <1>0, <2>4, <2>6, <3>1, <4>1
        <4>2. CASE j = 2
          BY <2>4, <2>5, <3>1, <4>2
        <4>3. CASE j # 1 /\ j # 2
          <5> DEFINE i == j - 2
          <5>1. i \in 1..Len(b) /\ i + 2 = j
            BY <2>4, <2>5, <3>1, <4>3
          <5>2. b[i] = Quote
            BY <2>4, <2>6, <3>1, <5>1
          <5>3. i - 1 \in 1..Len(b) /\ b[i - 1] = Escape
            BY <2>3, <5>1, <5>2
          <5>4. (i - 1) + 2 = j - 1 /\ j - 1 \in 1..Len(e)
            BY <2>4, <2>5, <3>1, <5>1, <5>3
          <5> HIDE DEF i
          <5>5. e[(i - 1) + 2] = b[i - 1]
            BY <2>4, <3>1, <5>3
          <5> QED BY <5>3, <5>4, <5>5
        <4> QED BY <4>1, <4>2, <4>3
      <3>2. CASE c \notin {Quote, Escape}
        <4>1. CASE j = 1
          BY <2>4, <2>6, <3>2, <4>1
        <4>2. CASE j # 1
          <5> DEFINE i == j - 1
          <5>1. i \in 1..Len(b) /\ i + 1 = j
            BY <2>4, <2>5, <3>2, <4>2
          <5>2. b[i] = Quote
            BY <2>4, <2>6, <3>2, <5>1
          <5>3. i - 1 \in 1..Len(b) /\ b[i - 1] = Escape
            BY <2>3, <5>1, <5>2
          <5>4. (i - 1) + 1 = j - 1 /\ j - 1 \in 1..Len(e)
            BY <2>4, <2>5, <3>2, <5>1, <5>3
          <5> HIDE DEF i
          <5>5. e[(i - 1) + 1] = b[i - 1]
            BY <2>4, <3>2, <5>3
          <5> QED BY <5>3, <5>4, <5>5
        <4> QED BY <4>1, <4>2
      <3> QED BY <3>1, <3>2
    <2>7. Guarded(e)
      BY <2>6
    <2> QED BY <2>1, <2>7 DEF e, b
  <1>3. Nat \subseteq M
    <2> HIDE DEF M
    <2> QED BY <1>1, <1>2, NextInduction
  <1>4. Len(t) \in Nat
    OBVIOUS
  <1> QED BY <1>3, <1>4

LEMMA EscapedLacks ==
    ASSUME NEW t \in Seq(Chars), Lacks(t, Delim)
    PROVE  Lacks(Escaped(t), Delim)
  <1> DEFINE M == {n \in Nat : \A u \in Seq(Chars) :
                      Len(u) = n /\ Lacks(u, Delim) => Lacks(Escaped(u), Delim)}
  <1>0. Delim # Quote /\ Delim # Escape
    BY SplitAssumption
  <1>1. 0 \in M
    <2> SUFFICES ASSUME NEW u \in Seq(Chars), Len(u) = 0 PROVE Lacks(Escaped(u), Delim)
      OBVIOUS
    <2>1. Escaped(u) = <<>>
      <3>1. u = <<>>
        OBVIOUS
      <3> QED BY <3>1, EscapedType
    <2> QED BY <2>1 DEF Lacks
  <1>2. ASSUME NEW n \in Nat, n \in M PROVE n + 1 \in M
    <2> SUFFICES ASSUME NEW u \in Seq(Chars), Len(u) = n + 1, Lacks(u, Delim)
                 PROVE  Lacks(Escaped(u), Delim)
      OBVIOUS
    <2>1. PICK c \in Chars, f \in Seq(Chars) :
              u = <<c>> \o f /\ Len(f) = n /\ Escaped(u) = WrittenAs(c) \o Escaped(f)
      BY OneMoreEscaped
    <2> DEFINE b == Escaped(f)
               e == WrittenAs(c) \o b
    <2>2. b \in Seq(Chars)
      BY EscapedType
    <2>3. c # Delim /\ Lacks(f, Delim)
      <3>1. u[1] = c /\ \A i \in 1..n : u[i + 1] = f[i]
        BY <2>1
      <3>2. 1 \in 1..n + 1 /\ \A i \in 1..n : i + 1 \in 1..n + 1
        OBVIOUS
      <3> QED BY <2>1, <3>1, <3>2 DEF Lacks
    <2>4. Lacks(b, Delim)
      BY <1>2, <2>1, <2>3
    <2> HIDE DEF b
    <2>5. /\ e \in Seq(Chars)
          /\ c \in {Quote, Escape} => /\ Len(e) = Len(b) + 2 /\ e[1] = Escape /\ e[2] = c
                                      /\ \A j \in 1..Len(b) : e[j + 2] = b[j]
          /\ c \notin {Quote, Escape} => /\ Len(e) = Len(b) + 1 /\ e[1] = c
                                         /\ \A j \in 1..Len(b) : e[j + 1] = b[j]
      BY <2>2, WrittenThen
    <2> HIDE DEF e
    <2>6. Len(b) \in Nat
      BY <2>2
    <2>7. ASSUME NEW j \in 1..Len(e) PROVE e[j] # Delim
      <3>1. CASE c \in {Quote, Escape}
        <4>1. CASE j = 1 \/ j = 2
          BY <1>0, <2>3, <2>5, <3>1, <4>1
        <4>2. CASE j # 1 /\ j # 2
          <5>1. j - 2 \in 1..Len(b) /\ (j - 2) + 2 = j
            BY <2>5, <2>6, <3>1, <4>2
          <5> QED BY <2>4, <2>5, <3>1, <5>1 DEF Lacks
        <4> QED BY <4>1, <4>2
      <3>2. CASE c \notin {Quote, Escape}
        <4>1. CASE j = 1
          BY <2>3, <2>5, <3>2, <4>1
        <4>2. CASE j # 1
          <5>1. j - 1 \in 1..Len(b) /\ (j - 1) + 1 = j
            BY <2>5, <2>6, <3>2, <4>2
          <5> QED BY <2>4, <2>5, <3>2, <5>1 DEF Lacks
        <4> QED BY <4>1, <4>2
      <3> QED BY <3>1, <3>2
    <2> QED BY <2>1, <2>7 DEF e, b, Lacks
  <1>3. Nat \subseteq M
    <2> HIDE DEF M
    <2> QED BY <1>1, <1>2, NextInduction
  <1>4. Len(t) \in Nat
    OBVIOUS
  <1> QED BY <1>3, <1>4

(* A value with delimiters, from its last one on.                          *)
AfterDelimiter(e) ==
    \E z \in Seq(Chars), u \in Seq(Chars) :
        Lacks(u, Delim) /\ e = (z \o <<Delim>>) \o Escaped(u)

LEMMA DelimiterLater ==
    ASSUME NEW w \in Seq(Chars), NEW x, AfterDelimiter(x)
    PROVE  AfterDelimiter(w \o x)
  <1>1. PICK z \in Seq(Chars), u \in Seq(Chars) :
            Lacks(u, Delim) /\ x = (z \o <<Delim>>) \o Escaped(u)
    BY DEF AfterDelimiter
  <1>2. PICK d \in Seq(Chars), e \in Seq(Chars) : d = <<Delim>> /\ e = Escaped(u)
    BY OneChar, EscapedType DEF Chars
  <1> HIDE <1>1
  <1>3. w \o ((z \o d) \o e) = ((w \o z) \o d) \o e
    <2>1. PICK y \in Seq(Chars) : y = z \o d
      BY Joined
    <2>2. (w \o y) \o e = w \o (y \o e)
      BY Grouped
    <2>3. (w \o z) \o d = w \o (z \o d)
      BY Grouped
    <2> QED BY <2>1, <2>2, <2>3, Zenon
  <1>4. w \o z \in Seq(Chars)
    BY Joined
  <1>5. w \o x = ((w \o z) \o <<Delim>>) \o Escaped(u)
    BY <1>1, <1>2, <1>3, Zenon
  <1> QED BY <1>1, <1>4, <1>5, Zenon DEF AfterDelimiter

LEMMA LastDelimiter ==
    ASSUME NEW t \in Seq(Chars), ~Lacks(t, Delim)
    PROVE  AfterDelimiter(Escaped(t))
  <1> DEFINE M == {n \in Nat : \A s \in Seq(Chars) :
                      Len(s) = n /\ ~Lacks(s, Delim) => AfterDelimiter(Escaped(s))}
  <1>0. Delim # Quote /\ Delim # Escape /\ <<Delim>> \in Seq(Chars)
    BY SplitAssumption, OneChar DEF Chars
  <1>1. 0 \in M
    <2> SUFFICES ASSUME NEW s \in Seq(Chars), Len(s) = 0 PROVE Lacks(s, Delim)
      OBVIOUS
    <2> QED BY DEF Lacks
  <1>2. ASSUME NEW n \in Nat, n \in M PROVE n + 1 \in M
    <2> SUFFICES ASSUME NEW s \in Seq(Chars), Len(s) = n + 1, ~Lacks(s, Delim)
                 PROVE  AfterDelimiter(Escaped(s))
      OBVIOUS
    <2>1. PICK c \in Chars, f \in Seq(Chars) :
              s = <<c>> \o f /\ Len(f) = n /\ Escaped(s) = WrittenAs(c) \o Escaped(f)
      BY OneMoreEscaped
    <2>2. CASE Lacks(f, Delim)
      <3>1. c = Delim
        <4>1. s[1] = c /\ \A i \in 1..n : s[i + 1] = f[i]
          BY <2>1
        <4>2. ASSUME c # Delim, NEW j \in 1..n + 1 PROVE s[j] # Delim
          <5>1. CASE j = 1
            BY <4>1, <4>2, <5>1
          <5>2. CASE j # 1
            <6>1. j - 1 \in 1..n /\ (j - 1) + 1 = j
              BY <5>2
            <6> QED BY <2>1, <2>2, <4>1, <6>1 DEF Lacks
          <5> QED BY <5>1, <5>2
        <4> QED BY <4>2 DEF Lacks
      <3>2. WrittenAs(c) = <<Delim>>
        BY <1>0, <3>1 DEF WrittenAs
      <3>3. <<>> \in Seq(Chars) /\ <<>> \o <<Delim>> = <<Delim>>
        <4>1. <<>> \in Seq(Chars)
          OBVIOUS
        <4> QED BY <1>0, <4>1, Joined
      <3>4. Escaped(s) = (<<>> \o <<Delim>>) \o Escaped(f)
        BY <2>1, <3>2, <3>3, Zenon
      <3> QED BY <2>2, <3>3, <3>4, Zenon DEF AfterDelimiter
    <2>3. CASE ~Lacks(f, Delim)
      <3>1. AfterDelimiter(Escaped(f))
        BY <1>2, <2>1, <2>3
      <3>2. WrittenAs(c) \in Seq(Chars)
        BY WrittenAsType
      <3>3. AfterDelimiter(WrittenAs(c) \o Escaped(f))
        BY <3>1, <3>2, DelimiterLater
      <3> QED BY <2>1, <3>3, Zenon
    <2> QED BY <2>2, <2>3
  <1>3. Nat \subseteq M
    <2> HIDE DEF M
    <2> QED BY <1>1, <1>2, NextInduction
  <1>4. Len(t) \in Nat
    OBVIOUS
  <1> QED BY <1>3, <1>4

(***************************************************************************)
(* unquote.                                                                *)
(***************************************************************************)
RestUnquoted(f, s, i) ==
    IF i > Len(s) THEN <<>>
    ELSE IF s[i] = Escape /\ i < Len(s) THEN <<s[i + 1]>> \o f[i + 2]
    ELSE <<s[i]>> \o f[i + 1]

Unquotes(f, s) == \A i \in 1..Len(s) + 1 : f[i] = RestUnquoted(f, s, i)

InQuotes(s) == ~(Len(s) < 2 \/ s[1] # Quote \/ s[Len(s)] # Quote)

LEMMA RestUnquotedType ==
    ASSUME NEW s \in Seq(Chars), NEW f \in [1..Len(s) + 1 -> Seq(Chars)], NEW i \in 1..Len(s) + 1
    PROVE  RestUnquoted(f, s, i) \in Seq(Chars)
  <1> DEFINE n == Len(s)
  <1>1. n \in Nat /\ \A k \in 1..n : s[k] \in Chars
    OBVIOUS
  <1>2. \A c \in Chars : <<c>> \in Seq(Chars)
    BY OneChar
  <1> HIDE DEF Chars
  <1>3. CASE i > n
    BY <1>3 DEF RestUnquoted
  <1>4. CASE ~(i > n) /\ s[i] = Escape /\ i < n
    <2>1. i + 1 \in 1..n /\ i + 2 \in 1..n + 1
      BY <1>1, <1>4
    <2>2. <<s[i + 1]>> \in Seq(Chars) /\ f[i + 2] \in Seq(Chars)
      BY <1>1, <1>2, <2>1
    <2>3. <<s[i + 1]>> \o f[i + 2] \in Seq(Chars)
      BY <2>2, Joined
    <2> QED BY <1>4, <2>3, Zenon DEF RestUnquoted
  <1>5. CASE ~(i > n) /\ ~(s[i] = Escape /\ i < n)
    <2>1. i \in 1..n /\ i + 1 \in 1..n + 1
      BY <1>1, <1>5
    <2>2. <<s[i]>> \in Seq(Chars) /\ f[i + 1] \in Seq(Chars)
      BY <1>1, <1>2, <2>1
    <2>3. <<s[i]>> \o f[i + 1] \in Seq(Chars)
      BY <2>2, Joined
    <2> QED BY <1>5, <2>3, Zenon DEF RestUnquoted
  <1> QED BY <1>3, <1>4, <1>5

LEMMA UnquoteSteps ==
    ASSUME NEW s \in Seq(Chars)
    PROVE  \E f : /\ Unquotes(f, s)
                  /\ unquote(s, Quote, Escape) = IF InQuotes(s) THEN <<f[1]>> ELSE <<>>
  <1> DEFINE n == Len(s)
             D == 1..n + 1
             R == Seq(Chars)
             Turns(g) == [i \in D |-> RestUnquoted(g, s, i)]
             rest == CHOOSE g : g = Turns(g)
             rank == [i \in D |-> (n + 1) - i]
             turn == [i \in D |-> [f \in [D -> R] |-> RestUnquoted(f, s, i)]]
  <1>1. n \in Nat
    OBVIOUS
  <1>2. unquote(s, Quote, Escape) = IF InQuotes(s) THEN <<rest[1]>> ELSE <<>>
    <2>1. unquote(s, Quote, Escape) =
              IF Len(s) < 2 \/ s[1] # Quote \/ s[Len(s)] # Quote THEN <<>> ELSE <<rest[1]>>
      BY Zenon DEF unquote, RestUnquoted
    <2> HIDE DEF rest
    <2> QED BY <2>1, Zenon DEF InQuotes
  <1>3. \A i \in D, f \in [D -> R] : RestUnquoted(f, s, i) \in R
    BY RestUnquotedType
  <1>4. \A i \in D : i > n \/ (i <= n /\ i + 1 \in D /\ (i < n => i + 2 \in D))
    BY <1>1
  <1>5. rank \in [D -> 0..n] /\ \A i \in D : rank[i] = (n + 1) - i
    BY <1>1
  <1>6. turn \in StepsOn(D, R) /\ \A i \in D, f \in [D -> R] : turn[i][f] = RestUnquoted(f, s, i)
    <2> HIDE DEF D, R
    <2>1. \A i \in D : [f \in [D -> R] |-> RestUnquoted(f, s, i)] \in [[D -> R] -> R]
      BY <1>3
    <2>2. turn \in [D -> [[D -> R] -> R]]
      BY <2>1
    <2>3. \A i \in D, f \in [D -> R] : turn[i][f] = RestUnquoted(f, s, i)
      BY Zenon
    <2> QED BY <2>2, <2>3 DEF StepsOn
  <1> HIDE DEF turn, rank
  <1>7. ASSUME NEW i \in D, NEW f \in [D -> R], NEW g \in [D -> R],
               \A j \in D : rank[j] < rank[i] => f[j] = g[j]
        PROVE  RestUnquoted(f, s, i) = RestUnquoted(g, s, i)
    <2>1. CASE i > n
      BY <2>1 DEF RestUnquoted
    <2>2. CASE i <= n
      <3>1. i + 1 \in D /\ rank[i + 1] < rank[i]
        BY <1>1, <1>5, <2>2
      <3>2. i < n => i + 2 \in D /\ rank[i + 2] < rank[i]
        BY <1>1, <1>5, <2>2
      <3>3. f[i + 1] = g[i + 1] /\ (i < n => f[i + 2] = g[i + 2])
        BY <1>7, <3>1, <3>2
      <3> QED BY <3>3, Zenon DEF RestUnquoted
    <2> QED BY <1>4, <2>1, <2>2
  <1>8. DependsBelow(turn, rank, D, R)
    <2> HIDE DEF D, R
    <2> QED BY <1>6, <1>7 DEF DependsBelow
  <1>9. <<>> \in R
    OBVIOUS
  <1>10. PICK v \in [D -> R] : \A i \in D : v[i] = turn[i][v]
    <2> HIDE DEF D, R
    <2>1. Solvable(turn, D, R)
      BY <1>1, <1>5, <1>6, <1>8, <1>9, Recursion
    <2> QED BY <2>1 DEF Solvable
  <1>11. v = Turns(v)
    <2> HIDE DEF D, R
    <2> QED BY <1>6, <1>10
  <1>12. rest = Turns(rest)
    <2> HIDE DEF Turns
    <2> QED BY <1>11, Zenon
  <1> HIDE DEF rest
  <1>13. \A i \in D : rest[i] = RestUnquoted(rest, s, i)
    <2> HIDE DEF D
    <2> QED BY <1>12, Zenon
  <1> QED BY <1>2, <1>13, Zenon DEF Unquotes

(* Where the escaped text t begins in s, behind h. *)
BeginsWith(s, h, e) == s = h \o (e \o <<Quote>>)

BeginsAt(s, h, t) == BeginsWith(s, h, Escaped(t))

Between(s, p, w, r) ==
    p \in Seq(Chars) /\ w \in Seq(Chars) /\ r \in Seq(Chars) /\ s = (p \o w) \o r

Grouping(a, b, c) == (a \o b) \o c = a \o (b \o c)

LEMMA GroupedBy ==
    ASSUME NEW a \in Seq(Chars), NEW b \in Seq(Chars), NEW c \in Seq(Chars)
    PROVE  Grouping(a, b, c)
  BY Grouped DEF Grouping

LEMMA BehindOne ==
    ASSUME NEW s, NEW p, NEW w, NEW r, Between(s, p, w, r), NEW c \in Chars, w = <<c>>
    PROVE  /\ Len(p \o w) = Len(p) + 1 /\ Len(s) = Len(p) + 1 + Len(r)
           /\ s[Len(p) + 1] = c
  <1>0. p \in Seq(Chars) /\ w \in Seq(Chars) /\ r \in Seq(Chars) /\ s = (p \o w) \o r
    BY DEF Between
  <1>1. Len(w) = 1 /\ w[1] = c
    OBVIOUS
  <1>2. PICK b \in Seq(Chars) : b = p \o w
    BY <1>0, Joined
  <1>3. Len(b) = Len(p) + 1 /\ b[Len(p) + 1] = c /\ Len(p) \in Nat
    BY <1>0, <1>1, <1>2
  <1>4. Len(b \o r) = Len(b) + Len(r) /\ (b \o r)[Len(p) + 1] = c
    <2>1. Len(b \o r) = Len(b) + Len(r) /\ \A i \in 1..Len(b) : (b \o r)[i] = b[i]
      BY <1>0, ConcatProperties
    <2>2. Len(p) + 1 \in 1..Len(b)
      BY <1>3
    <2> QED BY <1>3, <2>1, <2>2
  <1> QED BY <1>0, <1>2, <1>3, <1>4

LEMMA BehindTwo ==
    ASSUME NEW s, NEW p, NEW w, NEW r, Between(s, p, w, r),
           NEW a \in Chars, NEW c \in Chars, w = <<a, c>>
    PROVE  /\ Len(p \o w) = Len(p) + 2 /\ Len(s) = Len(p) + 2 + Len(r)
           /\ s[Len(p) + 1] = a /\ s[Len(p) + 2] = c
  <1>0. p \in Seq(Chars) /\ w \in Seq(Chars) /\ r \in Seq(Chars) /\ s = (p \o w) \o r
    BY DEF Between
  <1>1. Len(w) = 2 /\ w[1] = a /\ w[2] = c
    OBVIOUS
  <1>2. PICK b \in Seq(Chars) : b = p \o w
    BY <1>0, Joined
  <1>3. Len(b) = Len(p) + 2 /\ b[Len(p) + 1] = a /\ b[Len(p) + 2] = c /\ Len(p) \in Nat
    BY <1>0, <1>1, <1>2
  <1>4. Len(b \o r) = Len(b) + Len(r) /\ (b \o r)[Len(p) + 1] = a /\ (b \o r)[Len(p) + 2] = c
    <2>1. Len(b \o r) = Len(b) + Len(r) /\ \A i \in 1..Len(b) : (b \o r)[i] = b[i]
      BY <1>0, ConcatProperties
    <2>2. Len(p) + 1 \in 1..Len(b) /\ Len(p) + 2 \in 1..Len(b)
      BY <1>3
    <2> QED BY <1>3, <2>1, <2>2
  <1> QED BY <1>0, <1>2, <1>3, <1>4

(* The closing quote. *)
LEMMA BeginsAtEnd ==
    ASSUME NEW s \in Seq(Chars), NEW p \in Seq(Chars), BeginsAt(s, p, <<>>)
    PROVE  Len(s) = Len(p) + 1 /\ s[Len(p) + 1] = Quote
  <1>1. PICK q \in Seq(Chars) : q = <<Quote>>
    BY OneChar DEF Chars
  <1>2. Escaped(<<>>) = <<>> /\ <<>> \in Seq(Chars)
    <2>1. <<>> \in Seq(Chars)
      OBVIOUS
    <2> QED BY <2>1, EscapedType
  <1>3. <<>> \o q = q
    BY <1>2, Joined
  <1>4. s = p \o q
    BY <1>1, <1>2, <1>3, Zenon DEF BeginsAt, BeginsWith
  <1>5. Len(p \o q) = Len(p) + 1 /\ (p \o q)[Len(p) + 1] = Quote
    BY <1>1
  <1> QED BY <1>4, <1>5

(* One more character of it. *)
LEMMA BeginsLater ==
    ASSUME NEW s \in Seq(Chars), NEW p \in Seq(Chars), NEW c \in Chars, NEW k \in Seq(Chars),
           BeginsWith(s, p, WrittenAs(c) \o Escaped(k))
    PROVE  /\ BeginsAt(s, p \o WrittenAs(c), k) /\ p \o WrittenAs(c) \in Seq(Chars)
           /\ c \in {Quote, Escape} =>
                  /\ Len(p \o WrittenAs(c)) = Len(p) + 2 /\ Len(s) > Len(p) + 2
                  /\ s[Len(p) + 1] = Escape /\ s[Len(p) + 2] = c
           /\ c \notin {Quote, Escape} =>
                  /\ Len(p \o WrittenAs(c)) = Len(p) + 1 /\ Len(s) > Len(p) + 1
                  /\ s[Len(p) + 1] = c
  <1>1. PICK q \in Seq(Chars), e \in Seq(Chars), w \in Seq(Chars) :
            q = <<Quote>> /\ e = Escaped(k) /\ w = WrittenAs(c)
    BY OneChar, EscapedType, WrittenAsType DEF Chars
  <1>2. PICK r \in Seq(Chars) : r = e \o q
    BY Joined
  <1>3. Len(r) \in Nat /\ Len(r) > 0
    <2>1. Len(q) = 1 /\ Len(e) \in Nat
      BY <1>1
    <2>2. Len(e \o q) = Len(e) + Len(q)
      BY ConcatProperties
    <2> QED BY <1>2, <2>1, <2>2
  <1>4. s = (p \o w) \o r
    <2>1. (w \o e) \o q = w \o (e \o q)
      BY Grouped
    <2>2. Grouping(p, w, r)
      BY GroupedBy
    <2>3. (p \o w) \o r = p \o (w \o r)
      BY <2>2 DEF Grouping
    <2> QED BY <1>1, <1>2, <2>1, <2>3, Zenon DEF BeginsWith
  <1>5. p \o w \in Seq(Chars)
    BY Joined
  <1>6. BeginsAt(s, p \o w, k)
    BY <1>1, <1>2, <1>4, Zenon DEF BeginsAt, BeginsWith
  <1>a. Between(s, p, w, r)
    BY <1>4 DEF Between
  <1> HIDE <1>4
  <1>7. Len(p) \in Nat
    OBVIOUS
  <1>8. CASE c \in {Quote, Escape}
    <2>1. w = <<Escape, c>> /\ Escape \in Chars
      BY <1>1, <1>8 DEF WrittenAs, Chars
    <2>2. /\ Len(p \o w) = Len(p) + 2 /\ Len(s) = Len(p) + 2 + Len(r)
          /\ s[Len(p) + 1] = Escape /\ s[Len(p) + 2] = c
      BY <1>a, <2>1, BehindTwo
    <2>3. Len(s) > Len(p) + 2
      BY <1>3, <1>7, <2>2
    <2> QED BY <1>1, <1>5, <1>6, <1>8, <2>2, <2>3, Zenon
  <1>9. CASE c \notin {Quote, Escape}
    <2>1. w = <<c>>
      BY <1>1, <1>9 DEF WrittenAs
    <2>2. /\ Len(p \o w) = Len(p) + 1 /\ Len(s) = Len(p) + 1 + Len(r)
          /\ s[Len(p) + 1] = c
      BY <1>a, <2>1, BehindOne
    <2>3. Len(s) > Len(p) + 1
      BY <1>3, <1>7, <2>2
    <2> QED BY <1>1, <1>5, <1>6, <1>9, <2>2, <2>3, Zenon
  <1> QED BY <1>8, <1>9

(* The inverse of Escaped, up to the closing quote. *)
LEMMA RestOfEscaped ==
    ASSUME NEW s \in Seq(Chars), NEW f, Unquotes(f, s),
           NEW t \in Seq(Chars), NEW h \in Seq(Chars), BeginsAt(s, h, t)
    PROVE  f[Len(h) + 1] = t \o <<Quote>>
  <1> DEFINE Done(p, u) == f[Len(p) + 1] = u \o <<Quote>>
             M == {n \in Nat : \A u \in Seq(Chars), p \in Seq(Chars) :
                      Len(u) = n /\ BeginsAt(s, p, u) => Done(p, u)}
  <1>0. Quote # Escape /\ <<Quote>> \in Seq(Chars)
    BY SplitAssumption, OneChar DEF Chars
  <1>1. 0 \in M
    <2> SUFFICES ASSUME NEW u \in Seq(Chars), NEW p \in Seq(Chars), Len(u) = 0, BeginsAt(s, p, u)
                 PROVE  Done(p, u)
      <3> HIDE DEF Done
      <3> QED OBVIOUS
    <2>1. u = <<>>
      OBVIOUS
    <2>2. u \o <<Quote>> = <<Quote>> /\ <<Quote>> \o <<>> = <<Quote>>
      BY <1>0, <2>1, Joined
    <2>4. Len(s) = Len(p) + 1 /\ s[Len(p) + 1] = Quote /\ Len(p) \in Nat
      BY <2>1, BeginsAtEnd
    <2> DEFINE m == Len(p) + 1
    <2>5. m \in 1..Len(s) + 1 /\ m + 1 \in 1..Len(s) + 1 /\ ~(m > Len(s)) /\ m + 1 > Len(s)
      BY <2>4
    <2>6. s[m] # Escape /\ s[m] = Quote
      BY <1>0, <2>4
    <2>7. f[m] = RestUnquoted(f, s, m) /\ f[m + 1] = RestUnquoted(f, s, m + 1)
      BY <2>5 DEF Unquotes
    <2> HIDE DEF m
    <2>8. f[m] = <<s[m]>> \o f[m + 1]
      BY <2>5, <2>6, <2>7, Zenon DEF RestUnquoted
    <2>9. f[m + 1] = <<>>
      BY <2>5, <2>7, Zenon DEF RestUnquoted
    <2>10. f[m] = <<Quote>> \o <<>>
      BY <2>6, <2>8, <2>9, Zenon
    <2> QED BY <2>2, <2>10, Zenon DEF m
  <1>2. ASSUME NEW n \in Nat, n \in M PROVE n + 1 \in M
    <2> SUFFICES ASSUME NEW u \in Seq(Chars), NEW p \in Seq(Chars), Len(u) = n + 1, BeginsAt(s, p, u)
                 PROVE  Done(p, u)
      <3> HIDE DEF Done
      <3> QED OBVIOUS
    <2>1. PICK c \in Chars, k \in Seq(Chars) :
              u = <<c>> \o k /\ Len(k) = n /\ Escaped(u) = WrittenAs(c) \o Escaped(k)
      BY OneMoreEscaped
    <2> DEFINE w == WrittenAs(c)
    <2>2. BeginsWith(s, p, w \o Escaped(k))
      BY <2>1, Zenon DEF BeginsAt
    <2>3. /\ BeginsAt(s, p \o w, k) /\ p \o w \in Seq(Chars)
          /\ c \in {Quote, Escape} =>
                  /\ Len(p \o w) = Len(p) + 2 /\ Len(s) > Len(p) + 2
                  /\ s[Len(p) + 1] = Escape /\ s[Len(p) + 2] = c
          /\ c \notin {Quote, Escape} =>
                  /\ Len(p \o w) = Len(p) + 1 /\ Len(s) > Len(p) + 1
                  /\ s[Len(p) + 1] = c
      BY <2>2, BeginsLater
    <2> HIDE DEF w
    <2> HIDE <2>2
    <2>5. f[Len(p \o w) + 1] = k \o <<Quote>>
      <3>1. Done(p \o w, k)
        <4> HIDE DEF Done
        <4> QED BY <1>2, <2>1, <2>3
      <3> QED BY <3>1, Zenon
    <2> DEFINE m == Len(p) + 1
    <2>7. Len(p) \in Nat /\ Len(s) \in Nat
      OBVIOUS
    <2>8. f[m] = <<c>> \o f[Len(p \o w) + 1]
      <3>1. CASE c \in {Quote, Escape}
        <4>3. s[m] = Escape /\ s[m + 1] = c
          BY <2>3, <2>7, <3>1
        <4>4. m \in 1..Len(s) + 1 /\ ~(m > Len(s)) /\ m < Len(s) /\ Len(p \o w) + 1 = m + 2
          BY <2>3, <2>7, <3>1
        <4> HIDE DEF m
        <4>5. f[m] = <<s[m + 1]>> \o f[m + 2]
          BY <4>3, <4>4, Zenon DEF Unquotes, RestUnquoted
        <4> QED BY <4>3, <4>4, <4>5, Zenon
      <3>2. CASE c \notin {Quote, Escape}
        <4>3. s[m] = c /\ c # Escape
          BY <2>3, <3>2
        <4>4. m \in 1..Len(s) + 1 /\ ~(m > Len(s)) /\ Len(p \o w) + 1 = m + 1
          BY <2>3, <2>7, <3>2
        <4> HIDE DEF m
        <4>5. f[m] = <<s[m]>> \o f[m + 1]
          BY <4>3, <4>4, Zenon DEF Unquotes, RestUnquoted
        <4> QED BY <4>3, <4>4, <4>5, Zenon
      <3> QED BY <3>1, <3>2
    <2>9. <<c>> \o (k \o <<Quote>>) = (<<c>> \o k) \o <<Quote>>
      <3>1. PICK a \in Seq(Chars), q \in Seq(Chars) : a = <<c>> /\ q = <<Quote>>
        BY <1>0, OneChar
      <3>2. (a \o k) \o q = a \o (k \o q)
        BY Grouped
      <3> QED BY <3>1, <3>2, Zenon
    <2> QED BY <2>1, <2>5, <2>8, <2>9, Zenon
  <1>3. Nat \subseteq M
    <2> HIDE DEF M
    <2> QED BY <1>1, <1>2, NextInduction
  <1>4. Len(t) \in Nat
    OBVIOUS
  <1>5. Len(t) \in M
    <2> HIDE DEF M
    <2> QED BY <1>3, <1>4
  <1>6. Done(h, t)
    <2> HIDE DEF Done
    <2> QED BY <1>5
  <1> QED BY <1>6

(* The quotes stay, the escapes go. *)
LEMMA QuotesStay ==
    ASSUME NEW t \in Seq(Chars)
    PROVE  unquote(<<Quote>> \o (Escaped(t) \o <<Quote>>), Quote, Escape)
               = <<<<Quote>> \o (t \o <<Quote>>)>>
  <1> DEFINE s == <<Quote>> \o (Escaped(t) \o <<Quote>>)
  <1>0. Quote # Escape
    BY SplitAssumption
  <1>1. PICK q \in Seq(Chars), e \in Seq(Chars) :
            q = <<Quote>> /\ e = Escaped(t) /\ Len(q) = 1 /\ q[1] = Quote
    <2>1. <<Quote>> \in Seq(Chars) /\ Escaped(t) \in Seq(Chars)
      BY OneChar, EscapedType DEF Chars
    <2>2. Len(<<Quote>>) = 1 /\ <<Quote>>[1] = Quote
      OBVIOUS
    <2> QED BY <2>1, <2>2, Zenon
  <1>2. PICK b \in Seq(Chars) : b = e \o q
    BY Joined
  <1>3. s = q \o b
    BY <1>1, <1>2, Zenon
  <1>4. Len(b) = Len(e) + 1 /\ b[Len(b)] = Quote /\ Len(e) \in Nat
    <2>1. Len(e \o q) = Len(e) + 1 /\ (e \o q)[Len(e) + 1] = Quote /\ Len(e) \in Nat
      BY <1>1
    <2> QED BY <1>2, <2>1
  <1>5. s \in Seq(Chars) /\ Len(s) = Len(b) + 1 /\ s[1] = Quote /\ s[Len(b) + 1] = Quote
    <2>1. /\ q \o b \in Seq(Chars) /\ Len(q \o b) = Len(b) + 1 /\ (q \o b)[1] = Quote
          /\ (q \o b)[Len(b) + 1] = Quote
      BY <1>1, <1>4
    <2> HIDE DEF s
    <2> QED BY <1>3, <2>1
  <1> HIDE DEF s
  <1>6. InQuotes(s)
    BY <1>4, <1>5 DEF InQuotes
  <1>7. PICK f : Unquotes(f, s) /\ unquote(s, Quote, Escape) = <<f[1]>>
    BY <1>5, <1>6, UnquoteSteps
  <1>8. f[2] = t \o <<Quote>>
    <2>1. BeginsAt(s, q, t) /\ Len(q) + 1 = 2
      BY <1>1 DEF s, BeginsAt, BeginsWith
    <2>2. f[Len(q) + 1] = t \o <<Quote>>
      BY <1>5, <1>7, <2>1, RestOfEscaped
    <2> QED BY <2>1, <2>2
  <1>9. f[1] = <<Quote>> \o f[2]
    <2>1. 1 \in 1..Len(s) + 1 /\ ~(1 > Len(s)) /\ 1 + 1 = 2
      BY <1>4, <1>5
    <2>2. f[1] = RestUnquoted(f, s, 1) /\ s[1] # Escape
      BY <1>0, <1>5, <1>7, <2>1 DEF Unquotes
    <2>3. f[1] = <<s[1]>> \o f[1 + 1]
      BY <2>1, <2>2, Zenon DEF RestUnquoted
    <2> QED BY <1>5, <2>1, <2>3
  <1> QED BY <1>7, <1>8, <1>9, Zenon DEF s

(***************************************************************************)
(* What split finds of a list that was written.                            *)
(***************************************************************************)
Quoted(list, after) == [i \in 1..Len(list) |-> QuotedAfter(list[i], after[i])]

LEMMA QuotedType ==
    ASSUME NEW list \in Seq(Seq(Chars)), NEW after \in [DOMAIN list -> Nat]
    PROVE  /\ Quoted(list, after) \in Seq(Seq(Chars)) /\ Len(Quoted(list, after)) = Len(list)
           /\ \A i \in 1..Len(list) : /\ Quoted(list, after)[i] = QuotedAfter(list[i], after[i])
                                      /\ Quoted(list, after)[i] \in Seq(Chars)
  <1>1. \A i \in 1..Len(list) : QuotedAfter(list[i], after[i]) \in Seq(Chars)
    BY PartsType
  <1>2. Len(list) \in Nat
    OBVIOUS
  <1> QED BY <1>1, <1>2 DEF Quoted

(* The list up to its entry k, h, and how split reads it. *)
ReachesEntry(h, list, after, k) ==
    /\ h \in Seq(Chars)
    /\ Written(list, after) = h \o Ahead(list, after, k + 1)
    /\ \E p \in Seq(Chars) : h = p \o Quoted(list, after)[k]
    /\ Without(Quoted(list, after), Delim) =>
           SplitState(h, Delim) = [tokens |-> SubSeq(Quoted(list, after), 1, k - 1),
                                   token |-> Quoted(list, after)[k]]

LEMMA FirstReached ==
    ASSUME NEW list \in Seq(Seq(Chars)), NEW after \in [DOMAIN list -> Nat], list # <<>>
    PROVE  ReachesEntry(Quoted(list, after)[1], list, after, 1)
  <1>1. 1 \in 1..Len(list)
    OBVIOUS
  <1> DEFINE qs == Quoted(list, after)
             h == qs[1]
  <1>2. /\ h \in Seq(Chars) /\ Len(qs) = Len(list)
        /\ h = QuotedAfter(list[1], after[1]) /\ qs \in Seq(Seq(Chars))
    BY <1>1, QuotedType
  <1>3. Written(list, after) = h \o Ahead(list, after, 1 + 1)
    <2>1. 1 + 1 = 2
      OBVIOUS
    <2> QED BY <1>2, <2>1, WrittenAhead
  <1> HIDE DEF qs
  <1>4. <<>> \in Seq(Chars) /\ <<>> \o h = h /\ SubSeq(qs, 1, 1 - 1) = <<>>
    BY <1>2, ConcatEmptySeq, SubSeqEmpty
  <1>5. ASSUME Without(qs, Delim)
        PROVE  SplitState(h, Delim) = [tokens |-> SubSeq(qs, 1, 1 - 1), token |-> h]
    <2>1. \A j \in 1..Len(h) : h[j] # Delim
      BY <1>1, <1>2, <1>5 DEF Without
    <2> HIDE DEF h
    <2>2. SplitState(<<>> \o h, Delim) =
              [tokens |-> SplitState(<<>>, Delim).tokens, token |-> SplitState(<<>>, Delim).token \o h]
      BY <1>2, <1>4, <2>1, SplitBehind
    <2>3. SplitState(<<>>, Delim).tokens = <<>> /\ SplitState(<<>>, Delim).token = <<>>
      BY SplitStateEmpty DEF NoToken
    <2> QED BY <1>4, <2>2, <2>3, Zenon
  <1> QED BY <1>2, <1>3, <1>4, <1>5, Zenon DEF ReachesEntry, qs

LEMMA NextReached ==
    ASSUME NEW list \in Seq(Seq(Chars)), NEW after \in [DOMAIN list -> Nat],
           NEW k \in 1..Len(list), k + 1 \in 1..Len(list),
           NEW h, ReachesEntry(h, list, after, k)
    PROVE  ReachesEntry((h \o <<Delim>>) \o Quoted(list, after)[k + 1], list, after, k + 1)
  <1> DEFINE qs == Quoted(list, after)
  <1>1. PICK q \in Seq(Chars), d \in Seq(Chars), a \in Seq(Chars) :
            q = qs[k + 1] /\ d = <<Delim>> /\ a = Ahead(list, after, (k + 1) + 1)
    <2>1. qs[k + 1] \in Seq(Chars)
      BY QuotedType
    <2>2. <<Delim>> \in Seq(Chars)
      BY OneChar DEF Chars
    <2>3. Ahead(list, after, (k + 1) + 1) \in Seq(Chars)
      BY AheadNext
    <2> QED BY <2>1, <2>2, <2>3, Zenon
  <1>2. h \in Seq(Chars) /\ Written(list, after) = h \o Ahead(list, after, k + 1)
    BY DEF ReachesEntry
  <1>3. Ahead(list, after, k + 1) = d \o (q \o a)
    <2>1. k + 1 # 1
      OBVIOUS
    <2>2. Ahead(list, after, k + 1)
             = <<Delim>> \o (QuotedAfter(list[k + 1], after[k + 1]) \o Ahead(list, after, (k + 1) + 1))
      BY <2>1, AheadDelimiter
    <2>3. qs[k + 1] = QuotedAfter(list[k + 1], after[k + 1])
      BY QuotedType
    <2> QED BY <1>1, <2>2, <2>3, Zenon
  <1>4. h \o (d \o (q \o a)) = ((h \o d) \o q) \o a /\ h \o d \in Seq(Chars) /\ (h \o d) \o q \in Seq(Chars)
    <2>1. PICK x \in Seq(Chars), y \in Seq(Chars) : x = h \o d /\ y = q \o a
      BY <1>2, Joined
    <2>2. (h \o d) \o y = h \o (d \o y)
      BY <1>2, Grouped
    <2>3. x \o q \in Seq(Chars)
      BY Joined
    <2>4. Grouping(x, q, a)
      BY GroupedBy
    <2> QED BY <2>1, <2>2, <2>3, <2>4, Zenon DEF Grouping
  <1>5. Written(list, after) = ((h \o d) \o q) \o a
    BY <1>2, <1>3, <1>4, Zenon
  <1>6. ASSUME Without(qs, Delim)
        PROVE  SplitState((h \o d) \o q, Delim)
                   = [tokens |-> SubSeq(qs, 1, (k + 1) - 1), token |-> qs[k + 1]]
    <2> DEFINE r == SplitState(h, Delim)
               p == h \o d
               u == SplitState(p, Delim)
    <2>0. Delim \in Chars /\ p \in Seq(Chars) /\ (k + 1) - 1 = k
      BY <1>4 DEF Chars
    <2>1. r = [tokens |-> SubSeq(qs, 1, k - 1), token |-> qs[k]]
      BY <1>6, Zenon DEF ReachesEntry
    <2>2. u = [tokens |-> Append(r.tokens, r.token), token |-> <<>>]
      BY <1>1, <1>2, <2>0, SplitAtDelimiter
    <2>3. r.tokens = SubSeq(qs, 1, k - 1) /\ r.token = qs[k]
      BY <2>1, Fields, Zenon
    <2>4. Append(SubSeq(qs, 1, k - 1), qs[k]) = SubSeq(qs, 1, k)
      <3>1. qs \in Seq(Seq(Chars)) /\ Len(qs) = Len(list)
        BY QuotedType
      <3> HIDE DEF qs
      <3> QED BY <3>1, OneMore
    <2>5. \A j \in 1..Len(q) : q[j] # Delim
      <3>1. qs \in Seq(Seq(Chars)) /\ Len(qs) = Len(list)
        BY QuotedType
      <3> QED BY <1>1, <1>6, <3>1 DEF Without
    <2>6. u.tokens = SubSeq(qs, 1, k) /\ u.token = <<>>
      <3>1. u.tokens = Append(r.tokens, r.token) /\ u.token = <<>>
        <4> HIDE DEF u, r
        <4> QED BY <2>2
      <3> QED BY <2>3, <2>4, <3>1, Zenon
    <2> HIDE DEF p
    <2>7. SplitState(p \o q, Delim) = [tokens |-> u.tokens, token |-> u.token \o q]
      BY <2>0, <2>5, SplitBehind
    <2>8. <<>> \o q = q
      BY ConcatEmptySeq
    <2> QED BY <1>1, <2>0, <2>6, <2>7, <2>8, Zenon DEF p
  <1>7. \E p \in Seq(Chars) : (h \o d) \o q = p \o qs[k + 1]
    BY <1>1, <1>4, Zenon
  <1> QED BY <1>1, <1>4, <1>5, <1>6, <1>7, Zenon DEF ReachesEntry

LEMMA EachReached ==
    ASSUME NEW list \in Seq(Seq(Chars)), NEW after \in [DOMAIN list -> Nat],
           NEW k \in 1..Len(list)
    PROVE  \E h : ReachesEntry(h, list, after, k)
  <1> DEFINE E(i) == \E h : ReachesEntry(h, list, after, i)
             M == {m \in Nat : m + 1 \in 1..Len(list) => E(m + 1)}
  <1>0. Len(list) \in Nat /\ list # <<>>
    OBVIOUS
  <1>1. 0 \in M
    <2>1. E(1)
      BY <1>0, FirstReached
    <2>2. 0 + 1 = 1
      OBVIOUS
    <2> HIDE DEF E
    <2> QED BY <2>1, <2>2
  <1>2. ASSUME NEW m \in Nat, m \in M PROVE m + 1 \in M
    <2> SUFFICES ASSUME (m + 1) + 1 \in 1..Len(list) PROVE E((m + 1) + 1)
      <3> HIDE DEF E
      <3> QED OBVIOUS
    <2>1. m + 1 \in 1..Len(list)
      BY <1>0
    <2>2. E(m + 1)
      <3> HIDE DEF E
      <3> QED BY <1>2, <2>1
    <2>3. PICK h : ReachesEntry(h, list, after, m + 1)
      BY <2>2
    <2> DEFINE j == m + 1
    <2>4. j \in 1..Len(list) /\ j + 1 \in 1..Len(list) /\ ReachesEntry(h, list, after, j)
      BY <2>1, <2>3
    <2> HIDE DEF j
    <2>5. E(j + 1)
      BY <2>4, NextReached
    <2> HIDE DEF E
    <2> QED BY <2>5 DEF j
  <1>3. Nat \subseteq M
    <2> HIDE DEF M
    <2> QED BY <1>1, <1>2, NextInduction
  <1>4. k - 1 \in M /\ (k - 1) + 1 = k /\ k \in 1..Len(list)
    <2>1. k - 1 \in Nat /\ (k - 1) + 1 = k
      OBVIOUS
    <2> HIDE DEF M
    <2> QED BY <1>3, <2>1
  <1> HIDE DEF E
  <1>5. E(k)
    BY <1>4
  <1> QED BY <1>5 DEF E

(* Without delimiters inside the entries split finds the entries. *)
LEMMA WrittenSplit ==
    ASSUME NEW list \in Seq(Seq(Chars)), NEW after \in [DOMAIN list -> Nat], list # <<>>,
           Without(Quoted(list, after), Delim), Quoted(list, after)[Len(list)] # <<>>
    PROVE  split(Written(list, after), Delim) = Quoted(list, after)
  <1> DEFINE qs == Quoted(list, after)
             n == Len(list)
             s == Written(list, after)
  <1>1. n \in Nat /\ n \in 1..n
    OBVIOUS
  <1>2. qs \in Seq(Seq(Chars)) /\ Len(qs) = n
    BY QuotedType
  <1>3. PICK h : ReachesEntry(h, list, after, n)
    BY <1>1, EachReached
  <1>4. Ahead(list, after, n + 1) = <<>>
    BY AheadEnds
  <1>5. h \in Seq(Chars) /\ s = h \o <<>>
    BY <1>3, <1>4, Zenon DEF ReachesEntry
  <1>6. s = h
    BY <1>5, ConcatEmptySeq
  <1>7. SplitState(s, Delim) = [tokens |-> SubSeq(qs, 1, n - 1), token |-> qs[n]]
    BY <1>3, <1>6, Zenon DEF ReachesEntry
  <1> HIDE DEF qs, n, s
  <1>8. SplitState(s, Delim).tokens = SubSeq(qs, 1, n - 1) /\ SplitState(s, Delim).token = qs[n]
    BY <1>7, Fields, Zenon
  <1>9. qs[n] # <<>>
    BY DEF qs, n
  <1>10. split(s, Delim) = Append(SubSeq(qs, 1, n - 1), qs[n])
    BY <1>8, <1>9, SplitByState, Zenon
  <1>11. Append(SubSeq(qs, 1, n - 1), qs[n]) = SubSeq(qs, 1, n)
    BY <1>1, <1>2, OneMore
  <1>12. SubSeq(qs, 1, Len(qs)) = qs
    BY <1>2, SubSeqFull
  <1>13. split(s, Delim) = qs
    BY <1>2, <1>10, <1>11, <1>12, Zenon
  <1> QED BY <1>13 DEF s, qs

StopsAt(a, delim, S) == a = <<>> \/ \E u \in Seq(S) : a = <<delim>> \o u

(* The token under way is returned, before a delimiter and at the end. *)
LEMMA TokenFound ==
    ASSUME NEW S, NEW delim \in S, NEW b \in Seq(S), NEW x, x # <<>>,
           SplitState(b, delim).token = x,
           NEW a, StopsAt(a, delim, S)
    PROVE  \E i \in DOMAIN split(b \o a, delim) : split(b \o a, delim)[i] = x
  <1> DEFINE r == SplitState(b, delim)
  <1>1. r.tokens \in Seq(Seq(S)) /\ r.token \in Seq(S) /\ r.token = x
    BY SplitStateType
  <1> DEFINE i == Len(r.tokens) + 1
  <1>2. CASE a = <<>>
    <2>1. b \o a = b
      BY <1>2, ConcatEmptySeq
    <2>2. split(b, delim) = Append(r.tokens, r.token)
      BY LastTokenReturned
    <2> HIDE DEF r
    <2>3. i \in DOMAIN Append(r.tokens, r.token) /\ Append(r.tokens, r.token)[i] = x
      BY <1>1
    <2> HIDE DEF i
    <2> QED BY <2>1, <2>2, <2>3, Zenon
  <1>3. ASSUME NEW u \in Seq(S), a = <<delim>> \o u
        PROVE  \E j \in DOMAIN split(b \o a, delim) : split(b \o a, delim)[j] = x
    <2>1. PICK d \in Seq(S) : d = <<delim>>
      <3>1. <<delim>> \in Seq(S)
        OBVIOUS
      <3> QED BY <3>1
    <2>2. (b \o d) \o u = b \o (d \o u) /\ b \o d \in Seq(S)
      BY ThreeGrouped
    <2>3. b \o a = (b \o d) \o u
      BY <1>3, <2>1, <2>2, Zenon
    <2> DEFINE t == SplitState(b \o d, delim)
    <2>4. t = [tokens |-> Append(r.tokens, r.token), token |-> <<>>]
      BY <2>1, SplitAtDelimiter
    <2> HIDE DEF r
    <2>5. i \in 1..Len(Append(r.tokens, r.token)) /\ Append(r.tokens, r.token)[i] = x
      BY <1>1
    <2>6. t.tokens = Append(r.tokens, r.token)
      BY <2>4, Fields, Zenon
    <2> HIDE DEF i
    <2>7. TokenAt(t, i, x)
      BY <2>5, <2>6, Zenon DEF TokenAt
    <2>8. PICK p \in Seq(S) : p = b \o d
      BY <2>2
    <2>9. TokenAt(SplitState(p, delim), i, x)
      BY <2>7, <2>8
    <2>10. TokenAt(SplitState(p \o u, delim), i, x) /\ p \o u \in Seq(S)
      BY <2>9, TokenStays, ConcatProperties
    <2>11. i \in 1..Len(split(p \o u, delim)) /\ split(p \o u, delim)[i] = x
      BY <2>10, TokenReturned
    <2>12. i \in DOMAIN split(p \o u, delim)
      <3>1. split(p \o u, delim) \in Seq(Seq(S))
        <4> DEFINE y == SplitState(p \o u, delim)
        <4>1. y.tokens \in Seq(Seq(S)) /\ y.token \in Seq(S)
          BY <2>10, SplitStateType
        <4>2. split(p \o u, delim) = IF y.token = <<>> THEN y.tokens ELSE Append(y.tokens, y.token)
          BY SplitByState
        <4> HIDE DEF y
        <4> QED BY <4>1, <4>2
      <3> QED BY <2>11, <3>1
    <2> QED BY <2>3, <2>8, <2>11, <2>12, Zenon
  <1> QED BY <1>2, <1>3 DEF StopsAt

(***************************************************************************)
(* Parameters between quotes.                                              *)
(***************************************************************************)
QuotedPair(k, v) == (k \o <<Assign>>) \o (<<Quote>> \o (Escaped(v) \o <<Quote>>))

LEMMA PairQuoted ==
    ASSUME NEW k \in Keys, NEW v \in Values
    PROVE  /\ QuotedAfter((k \o <<Assign>>) \o v, Len(k \o <<Assign>>)) = QuotedPair(k, v)
           /\ Len(k \o <<Assign>>) = Len(k) + 1 /\ k \in Seq(Chars) /\ v \in Seq(Chars)
           /\ k \o <<Assign>> \in Seq(Chars) /\ <<Quote>> \o (Escaped(v) \o <<Quote>>) \in Seq(Chars)
  <1> DEFINE key == k \o <<Assign>>
             w == key \o v
  <1>1. v \in Seq(Chars)
    BY SplitAssumption DEF Chars
  <1>2. PICK e \in Seq(Chars), q \in Seq(Chars) : e = Escaped(v) /\ q = <<Quote>>
    BY <1>1, EscapedType, OneChar DEF Chars
  <1>3. /\ k \in Seq(Chars) /\ key \in Seq(Chars) /\ Len(key) = Len(k) + 1
        /\ w \in Seq(Chars) /\ Len(w) = Len(k) + 1 + Len(v)
        /\ SubSeq(w, 1, Len(k) + 1) = key /\ SubSeq(w, Len(k) + 2, Len(w)) = v
    BY <1>1, KeyFirst
  <1> HIDE DEF w, key
  <1>4. ~(Len(key) > Len(w)) /\ Len(key) + 1 = Len(k) + 2
    BY <1>1, <1>3
  <1>5. QuotedAfter(w, Len(key)) = key \o q \o e \o q
    BY <1>2, <1>3, <1>4 DEF QuotedAfter
  <1>6. q \o e \in Seq(Chars) /\ e \o q \in Seq(Chars)
    BY Joined
  <1>7. q \o (e \o q) \in Seq(Chars)
    BY <1>6, Joined
  <1>8. Grouping(key, q, e) /\ Grouping(q, e, q)
    BY <1>3, GroupedBy
  <1>9. Grouping(key, q \o e, q)
    BY <1>3, <1>6, GroupedBy
  <1>10. QuotedAfter(w, Len(key)) = key \o (q \o (e \o q))
    BY <1>5, <1>8, <1>9, Zenon DEF Grouping
  <1> QED BY <1>1, <1>2, <1>3, <1>7, <1>10, Zenon DEF QuotedPair, w, key

LEMMA LacksJoined ==
    ASSUME NEW a \in Seq(Chars), NEW b \in Seq(Chars), NEW c, Lacks(a, c), Lacks(b, c)
    PROVE  Lacks(a \o b, c)
  <1>1. ASSUME NEW i \in 1..Len(a \o b) PROVE (a \o b)[i] # c
    <2>1. Len(a) \in Nat /\ Len(b) \in Nat /\ Len(a \o b) = Len(a) + Len(b)
      BY ConcatProperties
    <2>2. (a \o b)[i] = IF i <= Len(a) THEN a[i] ELSE b[i - Len(a)]
      BY ConcatProperties
    <2>3. CASE i <= Len(a)
      <3>1. i \in 1..Len(a)
        BY <2>1, <2>3
      <3> QED BY <2>2, <2>3, <3>1 DEF Lacks
    <2>4. CASE ~(i <= Len(a))
      <3>1. i - Len(a) \in 1..Len(b)
        BY <2>1, <2>4
      <3> QED BY <2>2, <2>4, <3>1 DEF Lacks
    <2> QED BY <2>3, <2>4
  <1> QED BY <1>1 DEF Lacks

LEMMA PairLacks ==
    ASSUME NEW k \in Keys, NEW v \in Values, Lacks(v, Delim)
    PROVE  Lacks(QuotedPair(k, v), Delim)
  <1>1. k \in Seq(Plain) /\ v \in Seq(Chars) /\ Assign \in Plain /\ Delim \notin Plain /\ Delim # Quote
    <2>1. k \in Seq(Plain \ {Assign})
      BY SplitAssumption
    <2> QED BY <2>1, SplitAssumption DEF Chars
  <1>2. PICK a \in Seq(Chars), q \in Seq(Chars), e \in Seq(Chars) :
            a = <<Assign>> /\ q = <<Quote>> /\ e = Escaped(v)
    BY <1>1, EscapedType, OneChar DEF Chars
  <1>3. k \in Seq(Chars)
    BY <1>1 DEF Chars
  <1>4. Lacks(k, Delim) /\ Lacks(a, Delim) /\ Lacks(q, Delim)
    BY <1>1, <1>2 DEF Lacks
  <1>5. Lacks(e, Delim)
    BY <1>1, <1>2, EscapedLacks
  <1>6. k \o a \in Seq(Chars) /\ e \o q \in Seq(Chars)
    BY <1>3, Joined
  <1>7. q \o (e \o q) \in Seq(Chars)
    BY <1>6, Joined
  <1>8. Lacks(k \o a, Delim) /\ Lacks(e \o q, Delim)
    BY <1>3, <1>4, <1>5, LacksJoined
  <1>9. Lacks(q \o (e \o q), Delim)
    BY <1>4, <1>6, <1>8, LacksJoined
  <1>10. Lacks((k \o a) \o (q \o (e \o q)), Delim)
    BY <1>6, <1>7, <1>8, <1>9, LacksJoined
  <1> QED BY <1>2, <1>10, Zenon DEF QuotedPair

(* Behind a delimiter of the value no quote can follow an assignment. *)
LEMMA NoQuoteFollows ==
    ASSUME NEW u \in Seq(Chars)
    PROVE  unquote(cut(Escaped(u) \o <<Quote>>, Assign)[2], Quote, Escape) = <<>>
  <1>1. PICK e \in Seq(Chars), q \in Seq(Chars) : e = Escaped(u) /\ q = <<Quote>> /\ Len(q) = 1
    <2>1. Escaped(u) \in Seq(Chars) /\ <<Quote>> \in Seq(Chars)
      BY EscapedType, OneChar DEF Chars
    <2>2. Len(<<Quote>>) = 1
      OBVIOUS
    <2> QED BY <2>1, <2>2, Zenon
  <1>2. Assign # Escape
    BY SplitAssumption
  <1>3. \A j \in 1..Len(e) : e[j] = Quote => j - 1 \in 1..Len(e) /\ e[j - 1] = Escape
    BY <1>1, QuoteBehindEscape
  <1> DEFINE t == e \o q
             at == FirstOf(t, Assign)
             w == SubSeq(t, at + 1, Len(t))
  <1>4. t \in Seq(Chars) /\ Len(t) = Len(e) + 1 /\ \A j \in 1..Len(e) : t[j] = e[j]
    BY <1>1, ConcatProperties
  <1> HIDE DEF t
  <1>5. at = 0 \/ (at \in 1..Len(t) /\ t[at] = Assign)
    <2> DEFINE I == {i \in 1..Len(t) : t[i] = Assign}
    <2>1. at = IF I # {} THEN Min(I) ELSE 0
      BY DEF FirstOf, SelectInSeq
    <2>2. I \subseteq Nat /\ \A i \in I : i \in 1..Len(t) /\ t[i] = Assign
      OBVIOUS
    <2> HIDE DEF I, at
    <2>3. I # {} => Min(I) \in I
      BY <2>2, LeastExists
    <2> QED BY <2>1, <2>2, <2>3
  <1>6. \A s \in Seq(Chars) : ~InQuotes(s) => unquote(s, Quote, Escape) = <<>>
    BY UnquoteSteps, Zenon
  <1> HIDE DEF at
  <1>7. CASE at = 0
    <2>1. cut(t, Assign)[2] = <<>>
      BY <1>7 DEF cut, at
    <2>2. <<>> \in Seq(Chars) /\ ~InQuotes(<<>>)
      BY DEF InQuotes
    <2> QED BY <1>1, <1>6, <2>1, <2>2, Zenon DEF t
  <1>8. CASE at \in 1..Len(t) /\ t[at] = Assign
    <2>1. cut(t, Assign)[2] = w
      <3>1. at # 0
        BY <1>4, <1>8
      <3>2. cut(t, Assign) = <<SubSeq(t, 1, at - 1), w>>
        BY <3>1 DEF cut, at
      <3> HIDE DEF w
      <3> QED BY <3>2
    <2>2. w \in Seq(Chars) /\ Len(w) = Len(t) - at /\ (Len(w) >= 1 => w[1] = t[at + 1])
      BY <1>4, <1>8
    <2>3. ~InQuotes(w)
      <3> SUFFICES ASSUME Len(w) >= 2 PROVE w[1] # Quote
        BY <2>2 DEF InQuotes
      <3>1. Len(e) \in Nat
        OBVIOUS
      <3>2. at \in 1..Len(e) /\ at + 1 \in 1..Len(e) /\ (at + 1) - 1 = at
        BY <1>4, <1>8, <2>2, <3>1
      <3>3. e[at] = Assign /\ w[1] = e[at + 1]
        BY <1>4, <1>8, <2>2, <3>2
      <3>4. e[at + 1] = Quote => e[(at + 1) - 1] = Escape
        BY <1>3, <3>2
      <3> QED BY <1>2, <3>2, <3>3, <3>4
    <2> HIDE DEF w
    <2> QED BY <1>1, <1>6, <2>1, <2>2, <2>3, Zenon DEF t
  <1> QED BY <1>5, <1>7, <1>8

(***************************************************************************)
(* to_map, unquoting the values.                                           *)
(***************************************************************************)
LEMMA MapThrows ==
    ASSUME NEW v, NEW i \in DOMAIN v, unquote(cut(v[i], Assign)[2], Quote, Escape) = <<>>
    PROVE  to_map(v, Assign, FALSE, TRUE, Quote, Escape) = <<>>
  <1> DEFINE part == [j \in DOMAIN v |-> LET p == cut(v[j], Assign)
                                         IN  <<<<p[1]>>, unquote(p[2], Quote, Escape)>>]
             pairs == [j \in DOMAIN v |-> <<part[j][1][1], part[j][2][1]>>]
  <1>1. to_map(v, Assign, FALSE, TRUE, Quote, Escape) =
            IF \E j \in DOMAIN v : <<>> \in {part[j][1], part[j][2]} THEN <<>>
            ELSE <<[k \in {p[1] : p \in ToSet(pairs)} |-> pairs[FirstOfKey(pairs, k)][2]]>>
    BY DEF to_map
  <1>2. part[i][2] = <<>>
    <2> DEFINE x == unquote(cut(v[i], Assign)[2], Quote, Escape)
               y == <<cut(v[i], Assign)[1]>>
    <2>1. part[i] = <<y, x>> /\ x = <<>>
      OBVIOUS
    <2> HIDE DEF part, x, y
    <2> QED BY <2>1
  <1>3. <<>> \in {part[i][1], part[i][2]}
    BY <1>2
  <1> HIDE DEF part
  <1> QED BY <1>1, <1>3

KeepsQuotes(map, n, ps) ==
    /\ map # <<>>
    /\ \A k \in DOMAIN map[1] : \E i \in 1..n :
           ps[i][1] = k /\ map[1][k] = <<Quote>> \o ps[i][2] \o <<Quote>>

LEMMA MapOfQuotedPairs ==
    ASSUME NEW n \in Nat \ {0}, NEW ps \in [1..n -> Keys \X Values], NEW v, DOMAIN v = 1..n,
           \A i \in 1..n : v[i] = QuotedPair(ps[i][1], ps[i][2])
    PROVE  KeepsQuotes(to_map(v, Assign, FALSE, TRUE, Quote, Escape), n, ps)
  <1> DEFINE part == [j \in DOMAIN v |-> LET p == cut(v[j], Assign)
                                         IN  <<<<p[1]>>, unquote(p[2], Quote, Escape)>>]
             pairs == [j \in DOMAIN v |-> <<part[j][1][1], part[j][2][1]>>]
             map == to_map(v, Assign, FALSE, TRUE, Quote, Escape)
             Kept(i) == <<Quote>> \o ps[i][2] \o <<Quote>>
  <1>1. map = IF \E j \in DOMAIN v : <<>> \in {part[j][1], part[j][2]} THEN <<>>
              ELSE <<[k \in {p[1] : p \in ToSet(pairs)} |-> pairs[FirstOfKey(pairs, k)][2]]>>
    BY DEF to_map
  <1>2. ASSUME NEW i \in 1..n
        PROVE  part[i] = <<<<ps[i][1]>>, <<Kept(i)>>>>
    <2>1. PICK k \in Keys, u \in Values : ps[i] = <<k, u>>
      <3>1. ps[i] \in Keys \X Values
        OBVIOUS
      <3> QED BY <3>1
    <2>2. ps[i][1] = k /\ ps[i][2] = u
      BY <2>1
    <2>3. v[i] = QuotedPair(k, u)
      BY <2>2
    <2>4. /\ u \in Seq(Chars) /\ <<Quote>> \o (Escaped(u) \o <<Quote>>) \in Seq(Chars)
      BY PairQuoted
    <2>5. cut(v[i], Assign) = <<k, <<Quote>> \o (Escaped(u) \o <<Quote>>)>>
      BY <2>3, <2>4, PairCut DEF QuotedPair
    <2>6. unquote(<<Quote>> \o (Escaped(u) \o <<Quote>>), Quote, Escape)
              = <<<<Quote>> \o (u \o <<Quote>>)>>
      BY <2>4, QuotesStay
    <2>7. <<Quote>> \o (u \o <<Quote>>) = <<Quote>> \o u \o <<Quote>>
      <3>1. PICK q \in Seq(Chars) : q = <<Quote>>
        BY OneChar DEF Chars
      <3>2. (q \o u) \o q = q \o (u \o q)
        BY <2>4, Grouped
      <3> QED BY <3>1, <3>2, Zenon
    <2>8. part[i] = LET p == cut(v[i], Assign) IN <<<<p[1]>>, unquote(p[2], Quote, Escape)>>
      OBVIOUS
    <2> HIDE DEF part
    <2> DEFINE x == <<Quote>> \o (Escaped(u) \o <<Quote>>)
               c == cut(v[i], Assign)
    <2>9. c[1] = k /\ c[2] = x
      <3>1. c = <<k, x>>
        BY <2>5
      <3> HIDE DEF c, x
      <3> QED BY <3>1
    <2> QED BY <2>2, <2>6, <2>7, <2>8, <2>9, Zenon
  <1>3. ASSUME NEW i \in 1..n
        PROVE  /\ <<>> \notin {part[i][1], part[i][2]}
               /\ pairs[i] = <<ps[i][1], Kept(i)>>
    <2>1. part[i] = <<<<ps[i][1]>>, <<Kept(i)>>>>
      BY <1>2
    <2>2. pairs[i] = <<part[i][1][1], part[i][2][1]>>
      OBVIOUS
    <2> HIDE DEF part, pairs, Kept
    <2>3. part[i][1] = <<ps[i][1]>> /\ part[i][2] = <<Kept(i)>>
      BY <2>1
    <2> QED BY <2>2, <2>3
  <1>4. DOMAIN pairs = 1..n
    OBVIOUS
  <1> HIDE DEF part, pairs, Kept
  <1>5. map = <<[k \in {p[1] : p \in ToSet(pairs)} |-> pairs[FirstOfKey(pairs, k)][2]]>>
    BY <1>1, <1>3
  <1> HIDE DEF map
  <1>6. map # <<>> /\ map[1] = [k \in {p[1] : p \in ToSet(pairs)} |-> pairs[FirstOfKey(pairs, k)][2]]
    BY <1>5
  <1>7. ASSUME NEW k \in {p[1] : p \in ToSet(pairs)}
        PROVE  \E i \in 1..n : ps[i][1] = k /\ pairs[FirstOfKey(pairs, k)][2] = Kept(i)
    <2> DEFINE I == {j \in 1..Len(pairs) : pairs[j][1] = k}
    <2>1. Len(pairs) = n
      <3> DEFINE g == [j \in 1..n |-> pairs[j]]
      <3>1. Len(g) = n
        OBVIOUS
      <3>2. pairs \in [1..n -> {pairs[j] : j \in 1..n}]
        BY <1>3, <1>4 DEF pairs
      <3>3. g = pairs
        BY <3>2
      <3> HIDE DEF g
      <3> QED BY <3>1, <3>3
    <2>2. I \subseteq Nat /\ I \subseteq 1..n /\ I # {}
      <3>1. PICK j \in DOMAIN pairs : k = pairs[j][1]
        BY DEF ToSet
      <3> QED BY <1>4, <2>1, <3>1
    <2>3. FirstOfKey(pairs, k) = IF I # {} THEN Min(I) ELSE 0
      BY DEF FirstOfKey, SelectInSeq
    <2>4. \A j \in I : pairs[j][1] = k
      OBVIOUS
    <2> HIDE DEF I
    <2>5. Min(I) \in I
      BY <2>2, LeastExists
    <2>6. Min(I) \in 1..n /\ pairs[Min(I)][1] = k
      BY <2>2, <2>4, <2>5
    <2> DEFINE m == Min(I)
    <2> HIDE DEF m
    <2>7. m \in 1..n /\ pairs[m] = <<ps[m][1], Kept(m)>> /\ pairs[m][1] = k
      BY <1>3, <2>6 DEF m
    <2>8. ps[m][1] = k /\ pairs[m][2] = Kept(m)
      BY <2>7
    <2> QED BY <2>2, <2>3, <2>7, <2>8 DEF m
  <1>8. ASSUME NEW k \in DOMAIN map[1]
        PROVE  \E i \in 1..n : ps[i][1] = k /\ map[1][k] = Kept(i)
    <2>1. k \in {p[1] : p \in ToSet(pairs)}
      BY <1>6
    <2>2. map[1][k] = pairs[FirstOfKey(pairs, k)][2]
      BY <1>6, <2>1
    <2> QED BY <1>7, <2>1, <2>2
  <1> QED BY <1>6, <1>8, Zenon DEF KeepsQuotes, map, Kept

(***************************************************************************)
(* The plain split and to_map's own unquoting.                             *)
(***************************************************************************)
LEMMA PairsQuoted ==
    ASSUME NEW n \in Nat \ {0}, NEW ps \in [1..n -> Keys \X Values]
    PROVE  LET list == PairTexts(n, ps)
               after == KeyLengths(n, ps)
           IN  /\ list \in Seq(Seq(Chars)) /\ after \in [DOMAIN list -> Nat]
               /\ Len(list) = n /\ list # <<>>
               /\ \A i \in 1..n : ps[i][1] \in Keys /\ ps[i][2] \in Values
                       /\ Quoted(list, after)[i] = QuotedPair(ps[i][1], ps[i][2])
  <1> DEFINE list == PairTexts(n, ps)
             after == KeyLengths(n, ps)
  <1>1. list \in Seq(Seq(Chars)) /\ after \in [DOMAIN list -> Nat]
    BY CalledWithParameters
  <1>2. Len(list) = n
    BY PairTextAt
  <1>3. list # <<>>
    BY <1>2
  <1>4. ASSUME NEW i \in 1..n
        PROVE  /\ ps[i][1] \in Keys /\ ps[i][2] \in Values
               /\ Quoted(list, after)[i] = QuotedPair(ps[i][1], ps[i][2])
    <2>1. ps[i][1] \in Keys /\ ps[i][2] \in Values
      <3>1. ps[i] \in Keys \X Values
        OBVIOUS
      <3> QED BY <3>1
    <2>2. list[i] = (ps[i][1] \o <<Assign>>) \o ps[i][2] /\ after[i] = Len(ps[i][1]) + 1
      BY Zenon DEF PairTexts, KeyLengths
    <2>3. Quoted(list, after)[i] = QuotedAfter(list[i], after[i])
      BY <1>1, <1>2, QuotedType
    <2>4. /\ QuotedAfter((ps[i][1] \o <<Assign>>) \o ps[i][2], Len(ps[i][1] \o <<Assign>>))
                = QuotedPair(ps[i][1], ps[i][2])
          /\ Len(ps[i][1] \o <<Assign>>) = Len(ps[i][1]) + 1
      BY <2>1, PairQuoted
    <2> QED BY <2>1, <2>2, <2>3, <2>4, Zenon
  <1> QED BY <1>1, <1>2, <1>3, <1>4

(* No value holds a delimiter: every pair is found, and unquoted. *)
LEMMA MapWithQuotes ==
    ASSUME NEW n \in Nat \ {0}, NEW ps \in [1..n -> Keys \X Values],
           \A i \in 1..n : Lacks(ps[i][2], Delim)
    PROVE  KeepsQuotes(to_map(split(Written(PairTexts(n, ps), KeyLengths(n, ps)), Delim),
                              Assign, FALSE, TRUE, Quote, Escape), n, ps)
  <1> DEFINE list == PairTexts(n, ps)
             after == KeyLengths(n, ps)
             qs == Quoted(list, after)
  <1>1. /\ list \in Seq(Seq(Chars)) /\ after \in [DOMAIN list -> Nat]
        /\ Len(list) = n /\ list # <<>>
        /\ \A i \in 1..n : /\ ps[i][1] \in Keys /\ ps[i][2] \in Values
                           /\ qs[i] = QuotedPair(ps[i][1], ps[i][2])
    BY PairsQuoted
  <1> HIDE DEF list, after
  <1>2. qs \in Seq(Seq(Chars)) /\ Len(qs) = n
    BY <1>1, QuotedType
  <1> HIDE DEF qs
  <1>3. \A i \in 1..n : Lacks(qs[i], Delim)
    BY <1>1, PairLacks
  <1>4. Without(qs, Delim)
    BY <1>2, <1>3 DEF Without, Lacks
  <1>5. qs[n] # <<>>
    <2>1. PICK k \in Keys, v \in Values : qs[n] = QuotedPair(k, v)
      <3>1. n \in 1..n
        OBVIOUS
      <3> QED BY <1>1, <3>1
    <2>2. PICK t \in Seq(Chars) : t = <<Quote>> \o (Escaped(v) \o <<Quote>>)
      BY PairQuoted
    <2>3. qs[n] = (k \o <<Assign>>) \o t
      BY <2>1, <2>2, Zenon DEF QuotedPair
    <2>4. PICK x : x = qs[n]
      OBVIOUS
    <2>5. Len((k \o <<Assign>>) \o t) = Len(k) + 1 + Len(t) /\ k \in Seq(Chars)
      BY KeyFirst
    <2>6. Len(x) = Len(k) + 1 + Len(t)
      BY <2>3, <2>4, <2>5, Zenon
    <2> HIDE <2>3
    <2>7. Len(x) # 0
      BY <2>5, <2>6
    <2>8. x # <<>>
      BY <2>7
    <2> QED BY <2>4, <2>8
  <1>6. split(Written(list, after), Delim) = qs
    BY <1>1, <1>4, <1>5, WrittenSplit DEF qs
  <1>7. DOMAIN qs = 1..n
    BY <1>2
  <1>8. KeepsQuotes(to_map(qs, Assign, FALSE, TRUE, Quote, Escape), n, ps)
    BY <1>1, <1>7, MapOfQuotedPairs
  <1> QED BY <1>6, <1>8, Zenon DEF list, after

(* What lies behind the last delimiter of a value comes as a token of its own. *)
EndsInToken(s) ==
    /\ s \in Seq(Chars)
    /\ \E u \in Seq(Chars) : /\ SplitState(s, Delim).token = Escaped(u) \o <<Quote>>
                             /\ Escaped(u) \o <<Quote>> # <<>>

LEMMA DelimiterCuts ==
    ASSUME NEW b \in Seq(Chars), NEW k \in Keys, NEW v \in Values, ~Lacks(v, Delim)
    PROVE  EndsInToken(b \o QuotedPair(k, v))
  <1>1. /\ v \in Seq(Chars) /\ k \o <<Assign>> \in Seq(Chars)
    BY PairQuoted
  <1>2. AfterDelimiter(Escaped(v))
    BY <1>1, LastDelimiter
  <1>3. PICK z \in Seq(Chars), u \in Seq(Chars) :
            Lacks(u, Delim) /\ Escaped(v) = (z \o <<Delim>>) \o Escaped(u)
    BY <1>2 DEF AfterDelimiter
  <1>4. PICK d \in Seq(Chars), q \in Seq(Chars), e \in Seq(Chars), key \in Seq(Chars) :
            /\ d = <<Delim>> /\ q = <<Quote>> /\ e = Escaped(u) /\ key = k \o <<Assign>>
            /\ Lacks(q, Delim) /\ q # <<>>
    <2>1. <<Delim>> \in Seq(Chars) /\ <<Quote>> \in Seq(Chars) /\ Escaped(u) \in Seq(Chars)
      BY EscapedType, OneChar DEF Chars
    <2>2. Lacks(<<Quote>>, Delim) /\ <<Quote>> # <<>>
      BY SplitAssumption DEF Lacks
    <2> QED BY <1>1, <2>1, <2>2, Zenon
  <1>5. Lacks(e, Delim)
    BY <1>3, <1>4, EscapedLacks
  <1>6. PICK x \in Seq(Chars) : x = e \o q
    BY Joined
  <1>7. Lacks(x, Delim) /\ x # <<>>
    <2>1. Lacks(e \o q, Delim)
      BY <1>4, <1>5, LacksJoined
    <2>2. Len(e \o q) = Len(e) + Len(q) /\ Len(e) \in Nat /\ Len(q) \in Nat /\ Len(q) # 0
      BY <1>4, ConcatProperties
    <2>3. Len(x) # 0
      BY <1>6, <2>2
    <2>4. x # <<>>
      BY <2>3
    <2> QED BY <1>6, <2>1, <2>4
  <1>8. PICK y \in Seq(Chars) : y = q \o z
    BY Joined
  <1>9. PICK w \in Seq(Chars) : w = key \o y
    BY Joined
  <1>10. PICK h \in Seq(Chars) : h = b \o w
    BY Joined
  <1>11. QuotedPair(k, v) = (w \o d) \o x
    <2> DEFINE zd == z \o d
               yd == y \o d
    <2>0. zd \in Seq(Chars) /\ yd \in Seq(Chars)
      BY Joined
    <2> HIDE DEF zd, yd
    <2>1. Grouping(zd, e, q) /\ Grouping(q, zd, x) /\ Grouping(q, z, d)
      BY <2>0, GroupedBy
    <2>2. Grouping(key, yd, x) /\ Grouping(key, y, d)
      BY <2>0, GroupedBy
    <2>3. QuotedPair(k, v) = key \o (q \o ((zd \o e) \o q))
      BY <1>3, <1>4, Zenon DEF QuotedPair, zd
    <2>4. (zd \o e) \o q = zd \o x
      BY <1>6, <2>1, Zenon DEF Grouping
    <2>5. q \o (zd \o x) = (q \o zd) \o x
      BY <2>1, Zenon DEF Grouping
    <2>6. q \o zd = yd
      BY <1>8, <2>1, Zenon DEF Grouping, zd, yd
    <2>7. key \o (yd \o x) = (key \o yd) \o x
      BY <2>2, Zenon DEF Grouping
    <2>8. key \o yd = w \o d
      BY <1>9, <2>2, Zenon DEF Grouping, yd
    <2> QED BY <2>3, <2>4, <2>5, <2>6, <2>7, <2>8, Zenon
  <1>12. b \o QuotedPair(k, v) = (h \o d) \o x
    <2>1. PICK wd \in Seq(Chars) : wd = w \o d
      BY Joined
    <2>2. Grouping(b, wd, x) /\ Grouping(b, w, d)
      BY GroupedBy
    <2> QED BY <1>10, <1>11, <2>1, <2>2, Zenon DEF Grouping
  <1>13. PICK p \in Seq(Chars) : p = h \o d
    BY Joined
  <1>14. SplitState(p, Delim) = [tokens |-> Append(SplitState(h, Delim).tokens, SplitState(h, Delim).token),
                                 token |-> <<>>]
    <2>1. Delim \in Chars
      BY DEF Chars
    <2> QED BY <1>4, <1>13, <2>1, SplitAtDelimiter
  <1>15. SplitState(p, Delim).token = <<>>
    BY <1>14
  <1>16. SplitState(p \o x, Delim) = [tokens |-> SplitState(p, Delim).tokens,
                                      token |-> SplitState(p, Delim).token \o x]
    <2>1. \A j \in 1..Len(x) : x[j] # Delim
      BY <1>7 DEF Lacks
    <2> QED BY <2>1, SplitBehind
  <1>17. SplitState(p \o x, Delim).token = SplitState(p, Delim).token \o x
    <2> DEFINE r == SplitState(p \o x, Delim)
               b1 == SplitState(p, Delim).tokens
               b2 == SplitState(p, Delim).token \o x
    <2>1. r = [tokens |-> b1, token |-> b2]
      BY <1>16
    <2> HIDE DEF r, b1, b2
    <2>2. r.token = b2
      BY <2>1
    <2> QED BY <2>2 DEF r, b2
  <1>18. <<>> \o x = x /\ p \o x \in Seq(Chars)
    BY ConcatEmptySeq, Joined
  <1> QED BY <1>4, <1>6, <1>7, <1>12, <1>13, <1>15, <1>17, <1>18, Zenon DEF EndsInToken

(* A delimiter in a value: to_map throws. *)
LEMMA DelimiterThrows ==
    ASSUME NEW n \in Nat \ {0}, NEW ps \in [1..n -> Keys \X Values],
           NEW i \in 1..n, ~Lacks(ps[i][2], Delim)
    PROVE  to_map(split(Written(PairTexts(n, ps), KeyLengths(n, ps)), Delim),
                  Assign, FALSE, TRUE, Quote, Escape) = <<>>
  <1> DEFINE list == PairTexts(n, ps)
             after == KeyLengths(n, ps)
             qs == Quoted(list, after)
  <1>1. /\ list \in Seq(Seq(Chars)) /\ after \in [DOMAIN list -> Nat]
        /\ Len(list) = n /\ list # <<>>
        /\ ps[i][1] \in Keys /\ ps[i][2] \in Values
        /\ qs[i] = QuotedPair(ps[i][1], ps[i][2])
    BY PairsQuoted
  <1> HIDE DEF list, after
  <1>2. PICK h : ReachesEntry(h, list, after, i)
    BY <1>1, EachReached
  <1>3. PICK p \in Seq(Chars) : h = p \o QuotedPair(ps[i][1], ps[i][2])
    BY <1>1, <1>2 DEF ReachesEntry
  <1>4. h \in Seq(Chars) /\ Written(list, after) = h \o Ahead(list, after, i + 1)
    BY <1>2 DEF ReachesEntry
  <1>5. EndsInToken(h)
    BY <1>1, <1>3, DelimiterCuts
  <1>u. PICK u \in Seq(Chars) : /\ SplitState(h, Delim).token = Escaped(u) \o <<Quote>>
                                /\ Escaped(u) \o <<Quote>> # <<>>
    BY <1>5 DEF EndsInToken
  <1>x. PICK x : x = Escaped(u) \o <<Quote>>
    OBVIOUS
  <1> DEFINE a == Ahead(list, after, i + 1)
  <1>6. StopsAt(a, Delim, Chars)
    <2>1. CASE i = n
      BY <1>1, <2>1, AheadEnds DEF StopsAt
    <2>2. CASE i # n
      <3>1. i + 1 \in 1..Len(list) /\ i + 1 # 1
        BY <1>1, <2>2
      <3> DEFINE t == QuotedAfter(list[i + 1], after[i + 1]) \o Ahead(list, after, (i + 1) + 1)
      <3>2. a = <<Delim>> \o t /\ t \in Seq(Chars)
        BY <1>1, <3>1, AheadDelimiter
      <3> HIDE DEF a, t
      <3> QED BY <3>2, Zenon DEF StopsAt
    <2> QED BY <2>1, <2>2
  <1> DEFINE v == split(Written(list, after), Delim)
  <1>7. PICK j \in DOMAIN v : v[j] = x
    <2>1. Delim \in Chars
      BY DEF Chars
    <2> HIDE DEF a, Chars
    <2>2. x # <<>> /\ SplitState(h, Delim).token = x
      BY <1>u, <1>x, Zenon
    <2> HIDE <1>u, <1>x
    <2>3. \E j \in DOMAIN split(h \o a, Delim) : split(h \o a, Delim)[j] = x
      BY <1>4, <1>6, <2>1, <2>2, TokenFound
    <2> QED BY <1>4, <2>3, Zenon DEF a
  <1>8. unquote(cut(v[j], Assign)[2], Quote, Escape) = <<>>
    BY <1>x, <1>7, NoQuoteFollows, Zenon
  <1> HIDE DEF v
  <1>9. to_map(v, Assign, FALSE, TRUE, Quote, Escape) = <<>>
    BY <1>8, MapThrows
  <1> QED BY <1>9 DEF v, list, after

(* The list is the one written of the parameters. *)
ParamsWritten ==
    params = <<>> \/ \E n \in Nat \ {0} :
        params \in [1..n -> Keys \X Values]
            /\ str = Written(PairTexts(n, params), KeyLengths(n, params))

LEMMA InitParamsWritten == SplitInit => ParamsWritten
  BY DEF SplitInit, ParamsWritten

LEMMA NextParamsWritten ==
    ASSUME ParamsWritten, [SplitNext]_splitVars
    PROVE  ParamsWritten'
  <1>1. CASE Call
    BY <1>1 DEF Call, CallWith, ParamsWritten
  <1>2. CASE CallWithParameters
    <2>1. PICK n \in 1..MaxParams : \E ps \in [1..n -> Keys \X Values] :
              CallWith(ps, PairTexts(n, ps), KeyLengths(n, ps))
      BY <1>2 DEF CallWithParameters, PairTexts, KeyLengths
    <2>2. PICK ps \in [1..n -> Keys \X Values] :
              CallWith(ps, PairTexts(n, ps), KeyLengths(n, ps))
      BY <2>1
    <2>3. n \in Nat \ {0} /\ params' = ps /\ str' = Written(PairTexts(n, ps), KeyLengths(n, ps))
      BY <2>2, SplitAssumption DEF CallWith
    <2> QED BY <2>3, Zenon DEF ParamsWritten
  <1>3. CASE UNCHANGED <<params, str>>
    BY <1>3 DEF ParamsWritten
  <1>4. Branch \/ Return \/ UNCHANGED splitVars => UNCHANGED <<params, str>>
    BY DEF Branch, EscapedCharacter, EscapeCharacter, DelimiterKept, EntryEnds,
           QuoteCharacter, OtherCharacter, Turn, Return, splitVars
  <1> QED BY <1>1, <1>2, <1>3, <1>4 DEF SplitNext, Branch

(* Of parameters between quotes the plain split and to_map with its own    *)
(* unquoting make an exception when a value holds the delimiter, and keep  *)
(* the quotes around all the others, whatever the characters are.          *)
THEOREM QuotesKept == SplitSpec => []UnquotedKeepsTheQuotes
  <1>1. SplitInit => ParamsWritten
    BY InitParamsWritten
  <1>2. ParamsWritten /\ [SplitNext]_splitVars => ParamsWritten'
    BY NextParamsWritten
  <1>3. ParamsWritten => UnquotedKeepsTheQuotes
    <2> SUFFICES ASSUME ParamsWritten, params # <<>>
                 PROVE  UnquotedKeepsTheQuotes
      BY DEF UnquotedKeepsTheQuotes
    <2>1. PICK n \in Nat \ {0} :
              /\ params \in [1..n -> Keys \X Values]
              /\ str = Written(PairTexts(n, params), KeyLengths(n, params))
      BY DEF ParamsWritten
    <2>2. PICK ps \in [1..n -> Keys \X Values] : ps = params
      BY <2>1
    <2>3. DOMAIN params = 1..n
      BY <2>1
    <2>4. \A i \in 1..n : Contains(params[i][2], Delim) <=> ~Lacks(ps[i][2], Delim)
      BY <2>2 DEF Contains, Lacks
    <2> DEFINE map == to_map(split(str, Delim), Assign, FALSE, TRUE, Quote, Escape)
    <2>5. (\E i \in 1..n : ~Lacks(ps[i][2], Delim)) => map = <<>>
      BY <2>1, <2>2, DelimiterThrows
    <2>6. (\A i \in 1..n : Lacks(ps[i][2], Delim)) =>
             KeepsQuotes(map, n, ps)
      BY <2>1, <2>2, MapWithQuotes
    <2> HIDE DEF map
    <2>7. IF \E i \in DOMAIN params : Contains(params[i][2], Delim) THEN map = <<>>
          ELSE map # <<>> /\ \A k \in DOMAIN map[1] : \E i \in DOMAIN params :
                  params[i][1] = k /\ map[1][k] = <<Quote>> \o params[i][2] \o <<Quote>>
      <3>1. CASE \E i \in 1..n : ~Lacks(ps[i][2], Delim)
        BY <2>2, <2>3, <2>4, <2>5, <3>1, Zenon
      <3>2. CASE \A i \in 1..n : Lacks(ps[i][2], Delim)
        <4>1. ~\E i \in DOMAIN params : Contains(params[i][2], Delim)
          BY <2>3, <2>4, <3>2, Zenon
        <4>2. KeepsQuotes(map, n, params)
          BY <2>2, <2>6, <3>2, Zenon
        <4> QED BY <2>3, <4>1, <4>2, Zenon DEF KeepsQuotes
      <3> QED BY <3>1, <3>2, Zenon
    <2> QED BY <2>7, Zenon DEF map, UnquotedKeepsTheQuotes
  <1> QED BY <1>1, <1>2, <1>3, PTL DEF SplitSpec

(***************************************************************************)
(* emplace.  A text is read from the left: at every position something is  *)
(* put out, and the reading goes on one, two or three characters later.    *)
(***************************************************************************)
Letters == STRING \cup {Open, Close, Dollar, And} \cup ToSet(Names)

Scan(f, n, emit, skip) ==
    /\ f[n + 1] = <<>>
    /\ \A k \in 1..n : f[k] = emit[k] \o f[k + skip[k]]

Inward(n, skip) == \A k \in 1..n : skip[k] \in 1..3 /\ k + skip[k] <= n + 1

LEMMA ScanExists ==
    ASSUME NEW n \in Nat, NEW emit \in [1..n -> Seq(Letters)], NEW skip, Inward(n, skip)
    PROVE  \E f \in [1..n + 1 -> Seq(Letters)] : Scan(f, n, emit, skip)
  <1> DEFINE D == 1..n + 1
             R == Seq(Letters)
             Out(i, f) == IF i = n + 1 THEN <<>> ELSE emit[i] \o f[i + skip[i]]
             rank == [i \in D |-> (n + 1) - i]
             turn == [i \in D |-> [f \in [D -> R] |-> Out(i, f)]]
  <1>1. \A i \in D : i = n + 1 \/ (i \in 1..n /\ i # n + 1 /\ i + skip[i] \in D /\ i + skip[i] > i)
    <2> SUFFICES ASSUME NEW i \in D, i # n + 1
                 PROVE  i \in 1..n /\ i + skip[i] \in D /\ i + skip[i] > i
      OBVIOUS
    <2>1. i \in 1..n
      OBVIOUS
    <2>2. PICK e : e = skip[i]
      OBVIOUS
    <2>3. e \in 1..3 /\ i + e <= n + 1
      BY <2>1, <2>2 DEF Inward
    <2>4. i + e \in D /\ i + e > i
      BY <2>1, <2>3
    <2> QED BY <2>1, <2>2, <2>4
  <1>2. <<>> \in R
    OBVIOUS
  <1>3. ASSUME NEW i \in D, NEW f \in [D -> R] PROVE Out(i, f) \in R
    <2> HIDE DEF D
    <2>1. CASE i = n + 1
      BY <1>2, <2>1
    <2>2. CASE i # n + 1
      <3>1. emit[i] \in R /\ f[i + skip[i]] \in R
        BY <1>1, <2>2
      <3>2. emit[i] \o f[i + skip[i]] \in R
        BY <3>1, ConcatProperties
      <3> QED BY <2>2, <3>2
    <2> QED BY <2>1, <2>2
  <1>4. rank \in [D -> 0..n] /\ \A i \in D : rank[i] = (n + 1) - i
    OBVIOUS
  <1>5. turn \in StepsOn(D, R) /\ \A i \in D, f \in [D -> R] : turn[i][f] = Out(i, f)
    <2> HIDE DEF D, R
    <2>1. \A i \in D : [f \in [D -> R] |-> Out(i, f)] \in [[D -> R] -> R]
      <3> HIDE DEF Out
      <3> QED BY <1>3
    <2>2. turn \in [D -> [[D -> R] -> R]]
      BY <2>1
    <2>3. \A i \in D, f \in [D -> R] : turn[i][f] = Out(i, f)
      BY Zenon
    <2> QED BY <2>2, <2>3 DEF StepsOn
  <1> HIDE DEF turn, rank
  <1>6. ASSUME NEW i \in D, NEW f \in [D -> R], NEW g \in [D -> R],
               \A j \in D : rank[j] < rank[i] => f[j] = g[j]
        PROVE  Out(i, f) = Out(i, g)
    <2>1. CASE i = n + 1
      BY <2>1
    <2>2. CASE i # n + 1
      <3>1. i + skip[i] \in D /\ i + skip[i] > i /\ i \in Nat
        BY <1>1, <2>2
      <3>2. rank[i + skip[i]] < rank[i]
        <4>1. PICK j : j = i + skip[i]
          OBVIOUS
        <4>2. j \in D /\ j > i
          BY <3>1, <4>1
        <4>3. rank[j] = (n + 1) - j /\ rank[i] = (n + 1) - i
          BY <1>4, <4>2
        <4>4. rank[j] < rank[i]
          BY <4>2, <4>3
        <4> QED BY <4>1, <4>4
      <3>3. f[i + skip[i]] = g[i + skip[i]]
        BY <1>6, <3>1, <3>2
      <3> QED BY <2>2, <3>3
    <2> QED BY <2>1, <2>2
  <1>7. DependsBelow(turn, rank, D, R)
    <2> HIDE DEF D, R, Out
    <2> QED BY <1>5, <1>6 DEF DependsBelow
  <1>8. PICK v \in [D -> R] : \A i \in D : v[i] = turn[i][v]
    <2> HIDE DEF D, R
    <2>1. Solvable(turn, D, R)
      BY <1>2, <1>4, <1>5, <1>7, Recursion
    <2> QED BY <2>1 DEF Solvable
  <1>9. \A i \in D : v[i] = Out(i, v)
    <2> HIDE DEF D, R, Out
    <2> QED BY <1>5, <1>8
  <1>10. n + 1 \in D /\ \A i \in 1..n : i \in D /\ i # n + 1
    OBVIOUS
  <1>11. Scan(v, n, emit, skip)
    <2> HIDE DEF D
    <2> QED BY <1>9, <1>10, Zenon DEF Scan
  <1> QED BY <1>8, <1>11

SameReading(j, n, emit, skip, emitLater, skipLater) ==
    \A k \in 1..n : emit[j + k] = emitLater[k] /\ skip[j + k] = skipLater[k]

ReadsLater(f, l, emit, skip, j, g, n, emitLater, skipLater) ==
    /\ j \in Nat /\ n \in Nat /\ l = j + n
    /\ Scan(f, l, emit, skip) /\ Scan(g, n, emitLater, skipLater) /\ Inward(n, skipLater)
    /\ SameReading(j, n, emit, skip, emitLater, skipLater)

(* What is read of a text from position j + 1 on depends on nothing else. *)
LEMMA ScanLater ==
    ASSUME NEW f, NEW l, NEW emit, NEW skip, NEW j, NEW g, NEW n, NEW emitLater, NEW skipLater,
           ReadsLater(f, l, emit, skip, j, g, n, emitLater, skipLater)
    PROVE  f[j + 1] = g[1]
  <1>0. /\ j \in Nat /\ n \in Nat /\ l = j + n
        /\ Scan(f, l, emit, skip) /\ Scan(g, n, emitLater, skipLater) /\ Inward(n, skipLater)
        /\ SameReading(j, n, emit, skip, emitLater, skipLater)
    BY DEF ReadsLater
  <1> DEFINE M == {m \in Nat : \A k \in 1..n + 1 : k + m = n + 1 => f[j + k] = g[k]}
  <1>1. ASSUME NEW m \in Nat, \A i \in Nat : i < m => i \in M
        PROVE  m \in M
    <2> SUFFICES ASSUME NEW k \in 1..n + 1, k + m = n + 1 PROVE f[j + k] = g[k]
      OBVIOUS
    <2>1. CASE k = n + 1
      <3>1. f[(j + n) + 1] = <<>> /\ g[n + 1] = <<>>
        BY <1>0 DEF Scan
      <3>2. (j + n) + 1 = j + k
        BY <1>0, <2>1
      <3> QED BY <2>1, <3>1, <3>2
    <2>2. CASE k # n + 1
      <3>1. k \in 1..n /\ j + k \in 1..l
        BY <1>0, <2>2
      <3> DEFINE e == skipLater[k]
      <3>2. e \in 1..3 /\ k + e <= n + 1
        BY <1>0, <3>1 DEF Inward
      <3>3. f[j + k] = emit[j + k] \o f[(j + k) + skip[j + k]] /\ g[k] = emitLater[k] \o g[k + e]
        BY <1>0, <3>1, Zenon DEF Scan
      <3>4. emit[j + k] = emitLater[k] /\ skip[j + k] = e
        BY <1>0, <3>1 DEF SameReading
      <3> HIDE DEF e
      <3>5. k + e \in 1..n + 1 /\ m - e \in Nat /\ m - e < m /\ (k + e) + (m - e) = n + 1
        BY <1>0, <3>1, <3>2
      <3>6. m - e \in M
        <4> HIDE DEF M
        <4> QED BY <1>1, <3>5
      <3>7. f[j + (k + e)] = g[k + e]
        BY <3>5, <3>6
      <3>8. j + (k + e) = (j + k) + e
        BY <1>0, <3>1, <3>2
      <3> QED BY <3>3, <3>4, <3>7, <3>8, Zenon
    <2> QED BY <2>1, <2>2
  <1>2. n \in M
    <2> HIDE DEF M
    <2> QED BY <1>0, <1>1, BelowInduction
  <1>3. 1 \in 1..n + 1 /\ 1 + n = n + 1
    BY <1>0
  <1> QED BY <1>2, <1>3

LEMMA SameScan ==
    ASSUME NEW n \in Nat, NEW f, NEW g, NEW emit, NEW skip,
           Scan(f, n, emit, skip), Scan(g, n, emit, skip), Inward(n, skip)
    PROVE  f[1] = g[1]
  <1>1. PICK z : z = 0
    OBVIOUS
  <1>2. z \in Nat /\ n = z + n /\ z + 1 = 1 /\ \A k \in 1..n : z + k = k
    BY <1>1
  <1>3. SameReading(z, n, emit, skip, emit, skip)
    BY <1>2, Zenon DEF SameReading
  <1>4. ReadsLater(f, n, emit, skip, z, g, n, emit, skip)
    BY <1>2, <1>3, Zenon DEF ReadsLater
  <1>5. f[z + 1] = g[1]
    BY <1>4, ScanLater, Zenon
  <1> QED BY <1>2, <1>5, Zenon

(* The marks of a place are no names. *)
LEMMA Marks ==
    /\ Open \in Letters /\ Close \in Letters /\ Dollar \in Letters /\ And \in Letters
    /\ Open # Close /\ Open # Dollar /\ Open # And /\ Close # Dollar /\ Close # And /\ Dollar # And
    /\ \A n \in ToSet(Names) : /\ n \in Letters
                               /\ n # Open /\ n # Close /\ n # Dollar /\ n # And
  <1>1. Open # Close /\ Open # Dollar /\ Open # And /\ Close # Dollar /\ Close # And /\ Dollar # And
    <2> DEFINE marks == <<Open, Close, Dollar, And>>
    <2>1. /\ DOMAIN marks = 1..4
          /\ marks[1] = Open /\ marks[2] = Close /\ marks[3] = Dollar /\ marks[4] = And
      OBVIOUS
    <2>2. \A a, b \in 1..4 : marks[a] = marks[b] => a = b
      BY <2>1, EmplaceAssumption DEF IsInjective
    <2> HIDE DEF marks
    <2> QED BY <2>1, <2>2
  <1>2. {Open, Close, Dollar, And} \cap ToSet(Names) = {}
    BY EmplaceAssumption
  <1> QED BY <1>1, <1>2 DEF Letters

(* A place of one of the names P stands at k. *)
PlaceAt(s, k, P) == k + 2 <= Len(s) /\ s[k] = Open /\ s[k + 1] \in P /\ s[k + 2] = Close

LEMMA PlaceSeen ==
    ASSUME NEW s \in Seq(Letters), NEW k \in 1..Len(s), NEW P
    PROVE  PlaceAt(s, k, P) <=> k + 2 <= Len(s) /\ \E name \in P : SubSeq(s, k, k + 2) = Place(name)
  <1> SUFFICES ASSUME k + 2 <= Len(s)
               PROVE  (s[k] = Open /\ s[k + 1] \in P /\ s[k + 2] = Close)
                          <=> \E name \in P : SubSeq(s, k, k + 2) = Place(name)
    BY DEF PlaceAt
  <1> DEFINE w == SubSeq(s, k, k + 2)
  <1>1. w \in Seq(Letters) /\ Len(w) = 3 /\ w[1] = s[k] /\ w[2] = s[k + 1] /\ w[3] = s[k + 2]
    OBVIOUS
  <1> HIDE DEF w
  <1>2. \A name : w = Place(name) <=> s[k] = Open /\ s[k + 1] = name /\ s[k + 2] = Close
    <2> TAKE name
    <2> DEFINE p == Place(name)
    <2>1. p = <<Open, name, Close>>
      BY DEF Place
    <2>2. Len(p) = 3 /\ p[1] = Open /\ p[2] = name /\ p[3] = Close
      BY <2>1
    <2>3. w = <<w[1], w[2], w[3]>>
      BY <1>1
    <2> HIDE DEF p
    <2>4. w = p => s[k] = Open /\ s[k + 1] = name /\ s[k + 2] = Close
      BY <1>1, <2>2
    <2>5. s[k] = Open /\ s[k + 1] = name /\ s[k + 2] = Close => w = p
      BY <1>1, <2>1, <2>3, Zenon
    <2> QED BY <2>4, <2>5 DEF p
  <1> QED BY <1>2, Zenon DEF w

(* Substituted. *)
SubEmit(s, put) ==
    [k \in 1..Len(s) |-> IF PlaceAt(s, k, DOMAIN put) THEN put[s[k + 1]] ELSE <<s[k]>>]

SubSkip(s, put) == [k \in 1..Len(s) |-> IF PlaceAt(s, k, DOMAIN put) THEN 3 ELSE 1]

Puts(put) == put \in [DOMAIN put -> Seq(Letters)] /\ DOMAIN put \subseteq ToSet(Names)

RestSub(f, s, put, k) ==
    IF k > Len(s) THEN <<>>
    ELSE IF k + 2 <= Len(s) /\ \E name \in DOMAIN put : SubSeq(s, k, k + 2) = Place(name)
         THEN put[s[k + 1]] \o f[k + 3]
    ELSE <<s[k]>> \o f[k + 1]

LEMMA SubTypes ==
    ASSUME NEW s \in Seq(Letters), NEW put, Puts(put)
    PROVE  /\ SubEmit(s, put) \in [1..Len(s) -> Seq(Letters)]
           /\ Inward(Len(s), SubSkip(s, put))
  <1>1. Len(s) \in Nat /\ \A k \in 1..Len(s) : s[k] \in Letters
    OBVIOUS
  <1>2. \A c \in Letters : <<c>> \in Seq(Letters)
    OBVIOUS
  <1>3. \A n \in DOMAIN put : put[n] \in Seq(Letters)
    BY DEF Puts
  <1>4. ASSUME NEW k \in 1..Len(s)
        PROVE  (IF PlaceAt(s, k, DOMAIN put) THEN put[s[k + 1]] ELSE <<s[k]>>) \in Seq(Letters)
    BY <1>1, <1>2, <1>3 DEF PlaceAt
  <1>5. ASSUME NEW k \in 1..Len(s)
        PROVE  SubSkip(s, put)[k] \in 1..3 /\ k + SubSkip(s, put)[k] <= Len(s) + 1
    <2>1. SubSkip(s, put)[k] = IF PlaceAt(s, k, DOMAIN put) THEN 3 ELSE 1
      BY DEF SubSkip
    <2>2. PlaceAt(s, k, DOMAIN put) => k + 2 <= Len(s)
      BY DEF PlaceAt
    <2> QED BY <1>1, <2>1, <2>2
  <1> QED BY <1>4, <1>5 DEF SubEmit, Inward

LEMMA SubScan ==
    ASSUME NEW s \in Seq(Letters), NEW put, Puts(put)
    PROVE  \E f : /\ Scan(f, Len(s), SubEmit(s, put), SubSkip(s, put))
                  /\ Substituted(s, put) = f[1] /\ f[1] \in Seq(Letters)
  <1> DEFINE n == Len(s)
             D == 1..n + 1
             emit == SubEmit(s, put)
             skip == SubSkip(s, put)
             Turns(g) == [k \in D |-> RestSub(g, s, put, k)]
             out == CHOOSE g : g = Turns(g)
  <1>1. n \in Nat
    OBVIOUS
  <1>2. Substituted(s, put) = out[1]
    BY Zenon DEF Substituted, RestSub
  <1>3. ASSUME NEW f
        PROVE  /\ RestSub(f, s, put, n + 1) = <<>>
               /\ \A k \in 1..n : RestSub(f, s, put, k) = emit[k] \o f[k + skip[k]]
    <2>1. RestSub(f, s, put, n + 1) = <<>>
      <3>1. n + 1 > Len(s)
        BY <1>1
      <3> QED BY <3>1, Zenon DEF RestSub
    <2>2. ASSUME NEW k \in 1..n PROVE RestSub(f, s, put, k) = emit[k] \o f[k + skip[k]]
      <3>1. ~(k > Len(s)) /\ k \in 1..Len(s)
        BY <1>1
      <3>2. /\ emit[k] = IF PlaceAt(s, k, DOMAIN put) THEN put[s[k + 1]] ELSE <<s[k]>>
            /\ skip[k] = IF PlaceAt(s, k, DOMAIN put) THEN 3 ELSE 1
        BY <3>1, Zenon DEF SubEmit, SubSkip
      <3>3. PlaceAt(s, k, DOMAIN put) <=>
                k + 2 <= Len(s) /\ \E name \in DOMAIN put : SubSeq(s, k, k + 2) = Place(name)
        BY <3>1, PlaceSeen
      <3> HIDE DEF n, emit, skip
      <3>4. CASE PlaceAt(s, k, DOMAIN put)
        BY <3>1, <3>2, <3>3, <3>4, Zenon DEF RestSub
      <3>5. CASE ~PlaceAt(s, k, DOMAIN put)
        BY <3>1, <3>2, <3>3, <3>5, Zenon DEF RestSub
      <3> QED BY <3>4, <3>5
    <2> QED BY <2>1, <2>2
  <1>4. emit \in [1..n -> Seq(Letters)] /\ Inward(n, skip)
    BY SubTypes
  <1> HIDE DEF emit, skip
  <1>5. PICK v \in [D -> Seq(Letters)] : Scan(v, n, emit, skip)
    BY <1>1, <1>4, ScanExists
  <1>6. ASSUME NEW k \in D PROVE k = n + 1 \/ k \in 1..n
    BY <1>1
  <1>7. v = Turns(v)
    <2>1. \A k \in D : v[k] = RestSub(v, s, put, k)
      <3> HIDE DEF D, n
      <3> QED BY <1>3, <1>5, <1>6, Zenon DEF Scan
    <2> HIDE DEF D
    <2> QED BY <1>5, <2>1
  <1>8. out = Turns(out)
    <2> HIDE DEF Turns
    <2> QED BY <1>7, Zenon
  <1> HIDE DEF out
  <1>9. \A k \in D : out[k] = RestSub(out, s, put, k)
    <2> HIDE DEF D
    <2> QED BY <1>8, Zenon
  <1>10. Scan(out, n, emit, skip)
    <2>1. n + 1 \in D /\ \A k \in 1..n : k \in D
      BY <1>1
    <2> HIDE DEF D, n
    <2> QED BY <1>3, <1>9, <2>1, Zenon DEF Scan
  <1>11. out[1] = v[1]
    <2> HIDE DEF n
    <2> QED BY <1>1, <1>4, <1>5, <1>10, SameScan
  <1>12. 1 \in D
    BY <1>1
  <1>13. out[1] \in Seq(Letters)
    <2> HIDE DEF D
    <2> QED BY <1>5, <1>11, <1>12
  <1> QED BY <1>2, <1>10, <1>13 DEF n, emit, skip

LEMMA BehindFirst ==
    ASSUME NEW a \in Seq(Letters), NEW t \in Seq(Letters)
    PROVE  /\ a \o t \in Seq(Letters) /\ Len(a \o t) = Len(a) + Len(t)
           /\ Len(a) \in Nat /\ Len(t) \in Nat
           /\ \A k \in 1..Len(a) : (a \o t)[k] = a[k]
           /\ \A k \in 1..Len(t) : (a \o t)[Len(a) + k] = t[k]
  <1>1. /\ Len(a \o t) = Len(a) + Len(t) /\ a \o t \in Seq(Letters)
        /\ \A i \in 1..Len(a) + Len(t) : (a \o t)[i] = IF i <= Len(a) THEN a[i] ELSE t[i - Len(a)]
    BY ConcatProperties
  <1>2. Len(a) \in Nat /\ Len(t) \in Nat
    OBVIOUS
  <1>3. ASSUME NEW k \in 1..Len(t) PROVE (a \o t)[Len(a) + k] = t[k]
    <2>1. /\ Len(a) + k \in 1..Len(a) + Len(t) /\ ~(Len(a) + k <= Len(a))
          /\ (Len(a) + k) - Len(a) = k
      BY <1>2
    <2> QED BY <1>1, <2>1, Zenon
  <1>4. ASSUME NEW k \in 1..Len(a) PROVE (a \o t)[k] = a[k]
    <2>1. k \in 1..Len(a) + Len(t) /\ k <= Len(a)
      BY <1>2
    <2> QED BY <1>1, <2>1, Zenon
  <1> QED BY <1>1, <1>2, <1>3, <1>4

LEMMA PlaceBehind ==
    ASSUME NEW a \in Seq(Letters), NEW t \in Seq(Letters), NEW k \in 1..Len(t), NEW P
    PROVE  PlaceAt(a \o t, Len(a) + k, P) <=> PlaceAt(t, k, P)
  <1> DEFINE s == a \o t
  <1>1. /\ Len(s) = Len(a) + Len(t) /\ Len(a) \in Nat /\ Len(t) \in Nat
        /\ \A i \in 1..Len(t) : s[Len(a) + i] = t[i]
    BY BehindFirst
  <1> HIDE DEF s
  <1>2. (Len(a) + k) + 2 <= Len(s) <=> k + 2 <= Len(t)
    BY <1>1
  <1>3. ASSUME k + 2 <= Len(t)
        PROVE  /\ s[Len(a) + k] = t[k] /\ s[(Len(a) + k) + 1] = t[k + 1]
               /\ s[(Len(a) + k) + 2] = t[k + 2]
    <2>1. k \in 1..Len(t) /\ k + 1 \in 1..Len(t) /\ k + 2 \in 1..Len(t)
      BY <1>1, <1>3
    <2>2. (Len(a) + k) + 1 = Len(a) + (k + 1) /\ (Len(a) + k) + 2 = Len(a) + (k + 2)
      BY <1>1
    <2>3. s[Len(a) + k] = t[k]
      BY <1>1, <2>1
    <2>4. s[Len(a) + (k + 1)] = t[k + 1]
      BY <1>1, <2>1
    <2>5. s[Len(a) + (k + 2)] = t[k + 2]
      BY <1>1, <2>1
    <2> QED BY <2>2, <2>3, <2>4, <2>5
  <1>4. PICK i : i = Len(a) + k
    OBVIOUS
  <1>5. CASE k + 2 <= Len(t)
    <2>1. s[i] = t[k] /\ s[i + 1] = t[k + 1] /\ s[i + 2] = t[k + 2] /\ i + 2 <= Len(s)
      BY <1>2, <1>3, <1>4, <1>5, Zenon
    <2>2. PlaceAt(s, i, P) <=> t[k] = Open /\ t[k + 1] \in P /\ t[k + 2] = Close
      BY <2>1 DEF PlaceAt
    <2>3. PlaceAt(t, k, P) <=> t[k] = Open /\ t[k + 1] \in P /\ t[k + 2] = Close
      BY <1>5 DEF PlaceAt
    <2> QED BY <1>4, <2>2, <2>3, Zenon DEF s
  <1>6. CASE ~(k + 2 <= Len(t))
    <2>1. ~PlaceAt(t, k, P)
      BY <1>6 DEF PlaceAt
    <2>2. ~PlaceAt(s, i, P)
      BY <1>2, <1>4, <1>6, Zenon DEF PlaceAt
    <2> QED BY <1>4, <2>1, <2>2, Zenon DEF s
  <1> QED BY <1>5, <1>6, Zenon

LEMMA SubBehind ==
    ASSUME NEW a \in Seq(Letters), NEW t \in Seq(Letters), NEW put, Puts(put),
           NEW f, Scan(f, Len(a \o t), SubEmit(a \o t, put), SubSkip(a \o t, put))
    PROVE  f[Len(a) + 1] = Substituted(t, put)
  <1> DEFINE s == a \o t
             j == Len(a)
             n == Len(t)
             emit == SubEmit(s, put)
             skip == SubSkip(s, put)
             emitLater == SubEmit(t, put)
             skipLater == SubSkip(t, put)
  <1>1. /\ Len(s) = j + n /\ j \in Nat /\ n \in Nat
        /\ \A k \in 1..n : s[j + k] = t[k]
    BY BehindFirst
  <1>2. ASSUME NEW k \in 1..n PROVE PlaceAt(s, j + k, DOMAIN put) <=> PlaceAt(t, k, DOMAIN put)
    BY PlaceBehind
  <1>3. ASSUME NEW k \in 1..n PROVE emit[j + k] = emitLater[k] /\ skip[j + k] = skipLater[k]
    <2>1. j + k \in 1..Len(s) /\ (j + k) + 1 = j + (k + 1)
      BY <1>1
    <2> DEFINE i == j + k
    <2>2. /\ emit[i] = IF PlaceAt(s, i, DOMAIN put) THEN put[s[i + 1]] ELSE <<s[i]>>
          /\ skip[i] = IF PlaceAt(s, i, DOMAIN put) THEN 3 ELSE 1
      BY <2>1, Zenon DEF SubEmit, SubSkip
    <2>3. /\ emitLater[k] = IF PlaceAt(t, k, DOMAIN put) THEN put[t[k + 1]] ELSE <<t[k]>>
          /\ skipLater[k] = IF PlaceAt(t, k, DOMAIN put) THEN 3 ELSE 1
      BY Zenon DEF SubEmit, SubSkip
    <2> HIDE DEF s, emit, skip, emitLater, skipLater
    <2>4. s[i] = t[k]
      BY <1>1
    <2>5. CASE PlaceAt(t, k, DOMAIN put)
      <3>1. k + 1 \in 1..n
        BY <1>1, <2>5 DEF PlaceAt
      <3>2. s[i + 1] = t[k + 1]
        BY <1>1, <2>1, <3>1
      <3> HIDE DEF i
      <3>3. PlaceAt(s, i, DOMAIN put)
        BY <1>2, <2>5 DEF i
      <3> QED BY <2>2, <2>3, <2>5, <3>2, <3>3, Zenon DEF i
    <2>6. CASE ~PlaceAt(t, k, DOMAIN put)
      <3>1. ~PlaceAt(s, i, DOMAIN put)
        BY <1>2, <2>6
      <3> QED BY <2>2, <2>3, <2>4, <2>6, <3>1, Zenon
    <2> QED BY <2>5, <2>6
  <1>4. PICK g : /\ Scan(g, n, emitLater, skipLater) /\ Substituted(t, put) = g[1]
    BY SubScan
  <1>5. Inward(n, skipLater)
    BY SubTypes
  <1> HIDE DEF s, j, n, emit, skip, emitLater, skipLater
  <1>6. SameReading(j, n, emit, skip, emitLater, skipLater)
    BY <1>3 DEF SameReading
  <1>7. Scan(f, Len(s), emit, skip)
    BY DEF s, emit, skip
  <1>8. ReadsLater(f, Len(s), emit, skip, j, g, n, emitLater, skipLater)
    BY <1>1, <1>4, <1>5, <1>6, <1>7, Zenon DEF ReadsLater
  <1>9. f[j + 1] = g[1]
    BY <1>8, ScanLater, Zenon
  <1> QED BY <1>4, <1>9, Zenon DEF j

LEMMA SubNothing ==
    ASSUME NEW put, Puts(put)
    PROVE  Substituted(<<>>, put) = <<>>
  <1>1. <<>> \in Seq(Letters) /\ Len(<<>>) + 1 = 1
    OBVIOUS
  <1>2. PICK f : /\ Scan(f, Len(<<>>), SubEmit(<<>>, put), SubSkip(<<>>, put))
                 /\ Substituted(<<>>, put) = f[1]
    BY <1>1, SubScan
  <1>3. f[Len(<<>>) + 1] = <<>>
    BY <1>2, Zenon DEF Scan
  <1> QED BY <1>1, <1>2, <1>3

LEMMA PlaceType ==
    ASSUME NEW n \in ToSet(Names)
    PROVE  /\ Place(n) \in Seq(Letters) /\ Len(Place(n)) = 3
           /\ Place(n)[1] = Open /\ Place(n)[2] = n /\ Place(n)[3] = Close
  <1>1. Open \in Letters /\ Close \in Letters /\ n \in Letters
    BY Marks
  <1> QED BY <1>1 DEF Place

LEMMA SubPlace ==
    ASSUME NEW put, Puts(put), NEW n \in DOMAIN put, NEW t \in Seq(Letters)
    PROVE  Substituted(Place(n) \o t, put) = put[n] \o Substituted(t, put)
  <1>0. n \in ToSet(Names)
    BY DEF Puts
  <1>1. PICK a \in Seq(Letters) : a = Place(n) /\ Len(a) = 3 /\ a[1] = Open /\ a[2] = n /\ a[3] = Close
    BY <1>0, PlaceType
  <1> DEFINE s == a \o t
  <1>2. /\ s \in Seq(Letters) /\ Len(s) = 3 + Len(t) /\ Len(t) \in Nat
        /\ s[1] = Open /\ s[2] = n /\ s[3] = Close
    <2>1. /\ s \in Seq(Letters) /\ Len(s) = Len(a) + Len(t) /\ Len(t) \in Nat
          /\ \A k \in 1..Len(a) : s[k] = a[k]
      BY BehindFirst
    <2> HIDE DEF s
    <2> QED BY <1>1, <2>1
  <1>3. PICK f : /\ Scan(f, Len(s), SubEmit(s, put), SubSkip(s, put))
                 /\ Substituted(s, put) = f[1]
    BY <1>2, SubScan
  <1>4. f[Len(a) + 1] = Substituted(t, put)
    BY <1>3, SubBehind
  <1> HIDE DEF s
  <1>5. 1 \in 1..Len(s) /\ PlaceAt(s, 1, DOMAIN put) /\ 1 + 1 = 2 /\ 1 + 3 = Len(a) + 1
    BY <1>1, <1>2 DEF PlaceAt
  <1>6. SubEmit(s, put)[1] = put[s[1 + 1]] /\ SubSkip(s, put)[1] = 3
    BY <1>5, Zenon DEF SubEmit, SubSkip
  <1>7. f[1] = SubEmit(s, put)[1] \o f[1 + SubSkip(s, put)[1]]
    BY <1>3, <1>5, Zenon DEF Scan
  <1>8. f[1] = put[n] \o Substituted(t, put)
    BY <1>2, <1>4, <1>5, <1>6, <1>7, Zenon
  <1> QED BY <1>1, <1>3, <1>8, Zenon DEF s

LEMMA SubChar ==
    ASSUME NEW put, Puts(put), NEW c \in Letters, NEW t \in Seq(Letters),
           ~PlaceAt(<<c>> \o t, 1, DOMAIN put)
    PROVE  Substituted(<<c>> \o t, put) = <<c>> \o Substituted(t, put)
  <1>1. PICK a \in Seq(Letters) : a = <<c>> /\ Len(a) = 1 /\ a[1] = c
    <2>1. <<c>> \in Seq(Letters) /\ Len(<<c>>) = 1 /\ <<c>>[1] = c
      OBVIOUS
    <2> QED BY <2>1, Zenon
  <1> DEFINE s == a \o t
  <1>2. s \in Seq(Letters) /\ Len(s) = 1 + Len(t) /\ Len(t) \in Nat /\ s[1] = c
    <2>1. /\ s \in Seq(Letters) /\ Len(s) = Len(a) + Len(t) /\ Len(t) \in Nat
          /\ \A k \in 1..Len(a) : s[k] = a[k]
      BY BehindFirst
    <2> HIDE DEF s
    <2> QED BY <1>1, <2>1
  <1>3. PICK f : /\ Scan(f, Len(s), SubEmit(s, put), SubSkip(s, put))
                 /\ Substituted(s, put) = f[1]
    BY <1>2, SubScan
  <1>4. f[Len(a) + 1] = Substituted(t, put)
    BY <1>3, SubBehind
  <1>5. ~PlaceAt(s, 1, DOMAIN put)
    BY <1>1
  <1> HIDE DEF s
  <1>6. 1 \in 1..Len(s) /\ 1 + 1 = Len(a) + 1
    BY <1>1, <1>2
  <1>7. SubEmit(s, put)[1] = <<s[1]>> /\ SubSkip(s, put)[1] = 1
    BY <1>5, <1>6, Zenon DEF SubEmit, SubSkip
  <1>8. f[1] = SubEmit(s, put)[1] \o f[1 + SubSkip(s, put)[1]]
    BY <1>3, <1>6, Zenon DEF Scan
  <1>9. f[1] = <<c>> \o Substituted(t, put)
    BY <1>2, <1>4, <1>6, <1>7, <1>8, Zenon
  <1> QED BY <1>1, <1>3, <1>9, Zenon DEF s

LEMMA SubPlain ==
    ASSUME NEW put, Puts(put), NEW c \in Letters, c # Open, NEW t \in Seq(Letters)
    PROVE  Substituted(<<c>> \o t, put) = <<c>> \o Substituted(t, put)
  <1>1. (<<c>> \o t)[1] = c
    OBVIOUS
  <1>2. ~PlaceAt(<<c>> \o t, 1, DOMAIN put)
    BY <1>1 DEF PlaceAt
  <1> QED BY <1>2, SubChar

InThree(a, b, c) == (a \o b) \o c = a \o (b \o c)

LEMMA InThreeAlways ==
    ASSUME NEW a \in Seq(Letters), NEW b \in Seq(Letters), NEW c \in Seq(Letters)
    PROVE  InThree(a, b, c)
  BY ThreeGrouped DEF InThree

LEMMA PlaceParts ==
    ASSUME NEW n \in ToSet(Names), NEW t \in Seq(Letters)
    PROVE  Place(n) \o t = <<Open>> \o (<<n>> \o (<<Close>> \o t))
  <1>1. PICK o \in Seq(Letters), m \in Seq(Letters), c \in Seq(Letters) :
            o = <<Open>> /\ m = <<n>> /\ c = <<Close>> /\ Place(n) = (o \o m) \o c
    <2>1. Open \in Letters /\ Close \in Letters /\ n \in Letters
      BY Marks
    <2>2. Place(n) = (<<Open>> \o <<n>>) \o <<Close>>
      <3>1. PICK z : z = (<<Open>> \o <<n>>) \o <<Close>>
        OBVIOUS
      <3>2. z \in Seq(Letters) /\ Len(z) = 3 /\ z[1] = Open /\ z[2] = n /\ z[3] = Close
        BY <2>1, <3>1
      <3>3. z = <<z[1], z[2], z[3]>>
        BY <3>2
      <3>4. z = Place(n)
        BY <3>2, <3>3, Zenon DEF Place
      <3> QED BY <3>1, <3>4
    <2>3. <<Open>> \in Seq(Letters) /\ <<n>> \in Seq(Letters) /\ <<Close>> \in Seq(Letters)
      BY <2>1
    <2> QED BY <2>2, <2>3, Zenon
  <1>2. PICK x \in Seq(Letters), y \in Seq(Letters) : x = o \o m /\ y = c \o t
    BY ThreeGrouped
  <1>3. InThree(x, c, t) /\ InThree(o, m, y)
    BY InThreeAlways
  <1> QED BY <1>1, <1>2, <1>3, Zenon DEF InThree

LEMMA SubOther ==
    ASSUME NEW put, Puts(put), NEW n \in ToSet(Names), n \notin DOMAIN put, NEW t \in Seq(Letters)
    PROVE  Substituted(Place(n) \o t, put) = Place(n) \o Substituted(t, put)
  <1>1. Open \in Letters /\ Close \in Letters /\ n \in Letters /\ n # Open /\ Close # Open
    BY Marks
  <1>2. PICK y \in Seq(Letters) : y = <<Close>> \o t
    <2>1. <<Close>> \in Seq(Letters)
      BY <1>1
    <2> QED BY <2>1, ThreeGrouped
  <1>3. PICK x \in Seq(Letters) : x = <<n>> \o y
    <2>1. <<n>> \in Seq(Letters)
      BY <1>1
    <2> QED BY <2>1, ThreeGrouped
  <1>4. Place(n) \o t = <<Open>> \o x
    BY <1>2, <1>3, PlaceParts, Zenon
  <1>5. Substituted(y, put) = <<Close>> \o Substituted(t, put)
    BY <1>1, <1>2, SubPlain
  <1>6. Substituted(x, put) = <<n>> \o Substituted(y, put)
    BY <1>1, <1>3, SubPlain
  <1>7. ~PlaceAt(<<Open>> \o x, 1, DOMAIN put)
    <2>1. x[1] = n /\ Len(x) >= 1
      <3>1. (<<n>> \o y)[1] = n /\ Len(<<n>> \o y) >= 1
        BY <1>1
      <3> QED BY <1>3, <3>1
    <2>2. (<<Open>> \o x)[1 + 1] = n
      BY <1>1, <2>1
    <2> QED BY <2>2 DEF PlaceAt
  <1>8. Substituted(<<Open>> \o x, put) = <<Open>> \o Substituted(x, put)
    BY <1>1, <1>7, SubChar
  <1>9. Substituted(t, put) \in Seq(Letters)
    BY SubScan
  <1>10. Place(n) \o Substituted(t, put) = <<Open>> \o (<<n>> \o (<<Close>> \o Substituted(t, put)))
    BY <1>9, PlaceParts
  <1> QED BY <1>4, <1>5, <1>6, <1>8, <1>10, Zenon

(***************************************************************************)
(* Whole texts: made of places and of characters that are no braces.       *)
(***************************************************************************)
Pieces(N) ==
    {p \in Seq(Letters) : \/ \E n \in N : p = Place(n)
                          \/ \E c \in Letters : c # Open /\ c # Close /\ p = <<c>>}

ClosedUnder(M, N) == <<>> \in M /\ \A p \in Pieces(N), t \in M : p \o t \in M

WholeTexts(N) ==
    {s \in Seq(Letters) : \A M \in SUBSET Seq(Letters) : ClosedUnder(M, N) => s \in M}

LEMMA PieceType ==
    ASSUME NEW N, NEW p \in Pieces(N)
    PROVE  p \in Seq(Letters)
  BY DEF Pieces

LEMMA WholeClosed ==
    ASSUME NEW N
    PROVE  /\ WholeTexts(N) \subseteq Seq(Letters) /\ <<>> \in WholeTexts(N)
           /\ \A p \in Pieces(N), t \in WholeTexts(N) : p \o t \in WholeTexts(N)
  <1>1. WholeTexts(N) \subseteq Seq(Letters)
    BY DEF WholeTexts
  <1>2. <<>> \in WholeTexts(N)
    <2>1. <<>> \in Seq(Letters)
      OBVIOUS
    <2> QED BY <2>1, Zenon DEF WholeTexts, ClosedUnder
  <1>3. ASSUME NEW p \in Pieces(N), NEW t \in WholeTexts(N)
        PROVE  p \o t \in WholeTexts(N)
    <2>1. p \in Seq(Letters) /\ t \in Seq(Letters)
      BY <1>1, PieceType
    <2>2. p \o t \in Seq(Letters)
      BY <2>1, ConcatProperties
    <2>3. ASSUME NEW M \in SUBSET Seq(Letters), ClosedUnder(M, N) PROVE p \o t \in M
      <3>1. t \in M
        BY <2>3, Zenon DEF WholeTexts
      <3> QED BY <2>3, <3>1, Zenon DEF ClosedUnder
    <2> QED BY <2>2, <2>3, Zenon DEF WholeTexts
  <1> QED BY <1>1, <1>2, <1>3

(* What holds of nothing, and of a piece before each text of which it      *)
(* holds, holds of every whole text.                                       *)
LEMMA WholeInduction ==
    ASSUME NEW N, NEW M, <<>> \in M,
           \A p \in Pieces(N), t \in WholeTexts(N) : t \in M => p \o t \in M
    PROVE  WholeTexts(N) \subseteq M
  <1> DEFINE K == M \cap WholeTexts(N)
  <1>1. K \in SUBSET Seq(Letters)
    BY WholeClosed
  <1>2. ClosedUnder(K, N)
    <2>1. <<>> \in K
      BY WholeClosed
    <2>2. ASSUME NEW p \in Pieces(N), NEW t \in K PROVE p \o t \in K
      BY WholeClosed
    <2> QED BY <2>1, <2>2, Zenon DEF ClosedUnder
  <1>3. ASSUME NEW s \in WholeTexts(N) PROVE s \in K
    <2> HIDE DEF K
    <2> QED BY <1>1, <1>2, Zenon DEF WholeTexts
  <1> QED BY <1>3

LEMMA PieceWhole ==
    ASSUME NEW N, NEW p \in Pieces(N)
    PROVE  p \in WholeTexts(N)
  <1>1. p \o <<>> \in WholeTexts(N)
    BY WholeClosed
  <1>2. p \o <<>> = p
    BY PieceType, ConcatEmptySeq
  <1> QED BY <1>1, <1>2

LEMMA WholeJoined ==
    ASSUME NEW N, NEW a \in WholeTexts(N), NEW b \in WholeTexts(N)
    PROVE  a \o b \in WholeTexts(N)
  <1> DEFINE M == {s \in Seq(Letters) : s \o b \in WholeTexts(N)}
  <1>0. b \in Seq(Letters)
    BY WholeClosed
  <1>1. <<>> \in M
    <2>1. <<>> \o b = b /\ <<>> \in Seq(Letters)
      BY <1>0, ConcatEmptySeq
    <2> QED BY <2>1
  <1>2. ASSUME NEW p \in Pieces(N), NEW t \in WholeTexts(N), t \in M
        PROVE  p \o t \in M
    <2>1. p \in Seq(Letters) /\ t \in Seq(Letters)
      BY WholeClosed, PieceType
    <2>2. (p \o t) \o b = p \o (t \o b) /\ p \o t \in Seq(Letters)
      BY <1>0, <2>1, ThreeGrouped
    <2>3. p \o (t \o b) \in WholeTexts(N)
      BY <1>2, WholeClosed
    <2> QED BY <2>2, <2>3
  <1> HIDE DEF M
  <1>3. WholeTexts(N) \subseteq M
    BY <1>1, <1>2, WholeInduction
  <1> QED BY <1>3 DEF M

LEMMA SubType ==
    ASSUME NEW s \in Seq(Letters), NEW put, Puts(put)
    PROVE  Substituted(s, put) \in Seq(Letters)
  BY SubScan

(* A piece alone. *)
LEMMA SubOfPlace ==
    ASSUME NEW put, Puts(put), NEW n \in ToSet(Names)
    PROVE  Substituted(Place(n), put) = IF n \in DOMAIN put THEN put[n] ELSE Place(n)
  <1>1. Place(n) \in Seq(Letters) /\ <<>> \in Seq(Letters)
    BY PlaceType
  <1>2. Place(n) \o <<>> = Place(n)
    BY <1>1, ConcatEmptySeq
  <1>3. CASE n \in DOMAIN put
    <2>1. put[n] \in Seq(Letters)
      BY <1>3 DEF Puts
    <2>2. put[n] \o <<>> = put[n]
      BY <2>1, ConcatEmptySeq
    <2>3. Substituted(Place(n) \o <<>>, put) = put[n] \o Substituted(<<>>, put)
      BY <1>1, <1>3, SubPlace
    <2> QED BY <1>2, <1>3, <2>2, <2>3, SubNothing, Zenon
  <1>4. CASE n \notin DOMAIN put
    <2>1. Substituted(Place(n) \o <<>>, put) = Place(n) \o Substituted(<<>>, put)
      BY <1>1, <1>4, SubOther
    <2> QED BY <1>2, <1>4, <2>1, SubNothing, Zenon
  <1> QED BY <1>3, <1>4

LEMMA SubOfChar ==
    ASSUME NEW put, Puts(put), NEW c \in Letters, c # Open
    PROVE  Substituted(<<c>>, put) = <<c>>
  <1>1. <<c>> \in Seq(Letters) /\ <<>> \in Seq(Letters)
    OBVIOUS
  <1>2. <<c>> \o <<>> = <<c>>
    BY <1>1, ConcatEmptySeq
  <1>3. Substituted(<<c>> \o <<>>, put) = <<c>> \o Substituted(<<>>, put)
    BY <1>1, SubPlain
  <1> QED BY <1>2, <1>3, SubNothing, Zenon

LEMMA SubPiece ==
    ASSUME NEW N, N \subseteq ToSet(Names), NEW put, Puts(put),
           NEW p \in Pieces(N), NEW t \in Seq(Letters)
    PROVE  Substituted(p \o t, put) = Substituted(p, put) \o Substituted(t, put)
  <1>1. ASSUME NEW n \in N, p = Place(n)
        PROVE  Substituted(p \o t, put) = Substituted(p, put) \o Substituted(t, put)
    <2>1. n \in ToSet(Names)
      OBVIOUS
    <2>2. Substituted(p, put) = IF n \in DOMAIN put THEN put[n] ELSE Place(n)
      BY <1>1, <2>1, SubOfPlace
    <2>3. CASE n \in DOMAIN put
      <3>1. Substituted(Place(n) \o t, put) = put[n] \o Substituted(t, put)
        BY <2>3, SubPlace
      <3> QED BY <1>1, <2>2, <2>3, <3>1, Zenon
    <2>4. CASE n \notin DOMAIN put
      <3>1. Substituted(Place(n) \o t, put) = Place(n) \o Substituted(t, put)
        BY <2>1, <2>4, SubOther
      <3> QED BY <1>1, <2>2, <2>4, <3>1, Zenon
    <2> QED BY <2>3, <2>4
  <1>2. ASSUME NEW c \in Letters, c # Open, p = <<c>>
        PROVE  Substituted(p \o t, put) = Substituted(p, put) \o Substituted(t, put)
    <2>1. Substituted(<<c>>, put) = <<c>>
      BY <1>2, SubOfChar
    <2>2. Substituted(<<c>> \o t, put) = <<c>> \o Substituted(t, put)
      BY <1>2, SubPlain
    <2> QED BY <1>2, <2>1, <2>2, Zenon
  <1> QED BY <1>1, <1>2, Zenon DEF Pieces

(* A whole text is substituted for itself, whatever stands behind it. *)
LEMMA SubJoined ==
    ASSUME NEW N, N \subseteq ToSet(Names), NEW put, Puts(put),
           NEW a \in WholeTexts(N), NEW b \in Seq(Letters)
    PROVE  Substituted(a \o b, put) = Substituted(a, put) \o Substituted(b, put)
  <1> DEFINE S(s) == Substituted(s, put)
             M == {s \in Seq(Letters) : S(s \o b) = S(s) \o S(b)}
  <1>0. \A s \in Seq(Letters) : S(s) \in Seq(Letters)
    BY SubType
  <1>1. <<>> \in M
    <2>1. <<>> \o b = b /\ <<>> \o S(b) = S(b) /\ <<>> \in Seq(Letters)
      BY <1>0, ConcatEmptySeq
    <2>2. S(<<>>) = <<>>
      BY SubNothing
    <2> HIDE DEF S
    <2>3. S(<<>> \o b) = S(<<>>) \o S(b)
      BY <2>1, <2>2, Zenon
    <2> QED BY <2>1, <2>3
  <1>2. ASSUME NEW p \in Pieces(N), NEW t \in WholeTexts(N), t \in M
        PROVE  p \o t \in M
    <2>1. p \in Seq(Letters) /\ t \in Seq(Letters)
      BY WholeClosed, PieceType
    <2>2. InThree(p, t, b) /\ p \o t \in Seq(Letters) /\ t \o b \in Seq(Letters)
      BY <2>1, ThreeGrouped DEF InThree
    <2>3. S(p \o (t \o b)) = S(p) \o S(t \o b) /\ S(p \o t) = S(p) \o S(t)
      BY <2>1, <2>2, SubPiece
    <2>4. InThree(S(p), S(t), S(b))
      BY <1>0, <2>1, ThreeGrouped DEF InThree
    <2>5. S(t \o b) = S(t) \o S(b)
      BY <1>2
    <2> HIDE DEF S
    <2>6. S((p \o t) \o b) = S(p \o t) \o S(b)
      BY <2>2, <2>3, <2>4, <2>5, Zenon DEF InThree
    <2> QED BY <2>2, <2>6
  <1>3. WholeTexts(N) \subseteq M
    <2> HIDE DEF M
    <2> QED BY <1>1, <1>2, WholeInduction
  <1> QED BY <1>3

(* Whole texts put into a whole text leave a whole text. *)
LEMMA SubWhole ==
    ASSUME NEW N, N \subseteq ToSet(Names), NEW put, Puts(put),
           \A n \in DOMAIN put : put[n] \in WholeTexts(N), NEW a \in WholeTexts(N)
    PROVE  Substituted(a, put) \in WholeTexts(N)
  <1> DEFINE M == {s \in Seq(Letters) : Substituted(s, put) \in WholeTexts(N)}
  <1>1. <<>> \in M
    <2>1. <<>> \in Seq(Letters) /\ <<>> \in WholeTexts(N)
      BY WholeClosed
    <2> QED BY <2>1, SubNothing
  <1>2. ASSUME NEW p \in Pieces(N), NEW t \in WholeTexts(N), t \in M
        PROVE  p \o t \in M
    <2>1. p \in Seq(Letters) /\ t \in Seq(Letters)
      BY WholeClosed, PieceType
    <2>2. p \o t \in Seq(Letters)
      BY <2>1, ConcatProperties
    <2>3. Substituted(p, put) \in WholeTexts(N)
      <3>1. ASSUME NEW n \in N, p = Place(n) PROVE Substituted(p, put) \in WholeTexts(N)
        <4>1. Substituted(p, put) = IF n \in DOMAIN put THEN put[n] ELSE p
          BY <3>1, SubOfPlace
        <4> QED BY <4>1, PieceWhole
      <3>2. ASSUME NEW c \in Letters, c # Open, p = <<c>>
            PROVE  Substituted(p, put) \in WholeTexts(N)
        <4>1. Substituted(p, put) = p
          BY <3>2, SubOfChar
        <4> QED BY <4>1, PieceWhole
      <3> QED BY <3>1, <3>2, Zenon DEF Pieces
    <2>4. Substituted(p \o t, put) = Substituted(p, put) \o Substituted(t, put)
      BY <2>1, SubPiece
    <2>5. Substituted(t, put) \in WholeTexts(N)
      BY <1>2
    <2>6. Substituted(p \o t, put) \in WholeTexts(N)
      BY <2>3, <2>4, <2>5, WholeJoined
    <2> QED BY <2>2, <2>6
  <1>3. WholeTexts(N) \subseteq M
    <2> HIDE DEF M
    <2> QED BY <1>1, <1>2, WholeInduction
  <1> QED BY <1>3

LEMMA SubOfNone ==
    ASSUME NEW N, N \subseteq ToSet(Names), NEW put, Puts(put), DOMAIN put = {},
           NEW a \in WholeTexts(N)
    PROVE  Substituted(a, put) = a
  <1> DEFINE M == {s \in Seq(Letters) : Substituted(s, put) = s}
  <1>1. <<>> \in M
    <2>1. <<>> \in Seq(Letters)
      OBVIOUS
    <2> QED BY <2>1, SubNothing
  <1>2. ASSUME NEW p \in Pieces(N), NEW t \in WholeTexts(N), t \in M
        PROVE  p \o t \in M
    <2>1. p \in Seq(Letters) /\ t \in Seq(Letters)
      BY WholeClosed, PieceType
    <2>2. p \o t \in Seq(Letters)
      BY <2>1, ConcatProperties
    <2>3. Substituted(p, put) = p
      <3>1. ASSUME NEW n \in N, p = Place(n) PROVE Substituted(p, put) = p
        BY <3>1, SubOfPlace
      <3>2. ASSUME NEW c \in Letters, c # Open, p = <<c>> PROVE Substituted(p, put) = p
        BY <3>2, SubOfChar
      <3> QED BY <3>1, <3>2, Zenon DEF Pieces
    <2>4. Substituted(p \o t, put) = Substituted(p, put) \o Substituted(t, put)
      BY <2>1, SubPiece
    <2>5. Substituted(t, put) = t
      BY <1>2
    <2>6. Substituted(p \o t, put) = p \o t
      BY <2>3, <2>4, <2>5, Zenon
    <2> QED BY <2>2, <2>6
  <1>3. WholeTexts(N) \subseteq M
    <2> HIDE DEF M
    <2> QED BY <1>1, <1>2, WholeInduction
  <1> QED BY <1>3

(* What put makes of f, both makes of n; elsewhere they are the same.      *)
Fuses(N, n, f, one, put, both) ==
    /\ N \subseteq ToSet(Names) /\ n \in N /\ f \in WholeTexts(N)
    /\ one = [x \in {n} |-> f]
    /\ Puts(put) /\ \A x \in DOMAIN put : put[x] \in WholeTexts(N)
    /\ n \notin DOMAIN put
    /\ Puts(both) /\ DOMAIN both = DOMAIN put \cup {n}
    /\ both[n] = Substituted(f, put) /\ \A x \in DOMAIN put : both[x] = put[x]

(* Two passes in one: what the first puts in is searched by the second.    *)
LEMMA SubFused ==
    ASSUME NEW N, NEW n, NEW f, NEW one, NEW put, NEW both, Fuses(N, n, f, one, put, both),
           NEW a \in WholeTexts(N)
    PROVE  Substituted(Substituted(a, one), put) = Substituted(a, both)
  <1>a. /\ N \subseteq ToSet(Names) /\ n \in N /\ f \in WholeTexts(N)
        /\ one = [x \in {n} |-> f]
        /\ Puts(put) /\ \A x \in DOMAIN put : put[x] \in WholeTexts(N)
        /\ n \notin DOMAIN put
        /\ Puts(both) /\ DOMAIN both = DOMAIN put \cup {n}
        /\ both[n] = Substituted(f, put) /\ \A x \in DOMAIN put : both[x] = put[x]
    BY DEF Fuses
  <1> USE <1>a
  <1>0. f \in Seq(Letters) /\ n \in ToSet(Names)
    BY WholeClosed
  <1>1. Puts(one) /\ DOMAIN one = {n} /\ one[n] = f
    BY <1>0 DEF Puts
  <1>2. \A x \in DOMAIN one : one[x] \in WholeTexts(N)
    BY <1>1
  <1> DEFINE M == {s \in Seq(Letters) :
                     Substituted(Substituted(s, one), put) = Substituted(s, both)}
  <1>3. <<>> \in M
    <2>1. <<>> \in Seq(Letters)
      OBVIOUS
    <2>2. Substituted(<<>>, one) = <<>> /\ Substituted(<<>>, put) = <<>> /\ Substituted(<<>>, both) = <<>>
      BY <1>1, SubNothing
    <2> QED BY <2>1, <2>2
  <1>4. ASSUME NEW p \in Pieces(N), NEW t \in WholeTexts(N), t \in M
        PROVE  p \o t \in M
    <2>1. p \in Seq(Letters) /\ t \in Seq(Letters) /\ p \in WholeTexts(N)
      BY WholeClosed, PieceType, PieceWhole
    <2>2. p \o t \in Seq(Letters)
      BY <2>1, ConcatProperties
    <2>3. Substituted(Substituted(p, one), put) = Substituted(p, both)
      <3>1. ASSUME NEW m \in N, p = Place(m)
            PROVE  Substituted(Substituted(p, one), put) = Substituted(p, both)
        <4>0. m \in ToSet(Names)
          OBVIOUS
        <4>1. /\ Substituted(p, one) = IF m \in DOMAIN one THEN one[m] ELSE p
              /\ Substituted(p, both) = IF m \in DOMAIN both THEN both[m] ELSE p
              /\ Substituted(p, put) = IF m \in DOMAIN put THEN put[m] ELSE p
          BY <1>1, <3>1, <4>0, SubOfPlace
        <4>2. CASE m = n
          BY <1>1, <4>1, <4>2
        <4>3. CASE m # n
          BY <1>1, <4>1, <4>3
        <4> QED BY <4>2, <4>3
      <3>2. ASSUME NEW c \in Letters, c # Open, p = <<c>>
            PROVE  Substituted(Substituted(p, one), put) = Substituted(p, both)
        <4>1. Substituted(p, one) = p /\ Substituted(p, both) = p /\ Substituted(p, put) = p
          BY <1>1, <3>2, SubOfChar
        <4> QED BY <4>1
      <3> QED BY <3>1, <3>2, Zenon DEF Pieces
    <2>4. /\ Substituted(p \o t, one) = Substituted(p, one) \o Substituted(t, one)
          /\ Substituted(p \o t, both) = Substituted(p, both) \o Substituted(t, both)
      BY <1>1, <2>1, SubPiece
    <2>5. Substituted(p, one) \in WholeTexts(N) /\ Substituted(t, one) \in Seq(Letters)
      BY <1>1, <1>2, <2>1, SubWhole, SubType
    <2>6. Substituted(Substituted(p, one) \o Substituted(t, one), put)
              = Substituted(Substituted(p, one), put) \o Substituted(Substituted(t, one), put)
      BY <2>5, SubJoined
    <2>7. Substituted(Substituted(t, one), put) = Substituted(t, both)
      BY <1>4
    <2>8. Substituted(Substituted(p \o t, one), put) = Substituted(p \o t, both)
      BY <2>3, <2>4, <2>6, <2>7, Zenon
    <2> QED BY <2>2, <2>8
  <1>5. WholeTexts(N) \subseteq M
    <2> HIDE DEF M
    <2> QED BY <1>3, <1>4, WholeInduction
  <1> QED BY <1>5

(* What stands behind a place. *)
LEMMA BehindPlace ==
    ASSUME NEW t \in Seq(Letters), NEW n \in ToSet(Names),
           Len(t) >= 3, t[1] = Open, t[2] = n, t[3] = Close
    PROVE  \E u \in Seq(Letters) : t = Place(n) \o u /\ Len(u) < Len(t)
  <1> DEFINE u == SubSeq(t, 4, Len(t))
  <1>2. /\ u \in Seq(Letters) /\ Len(u) = Len(t) - 3
        /\ \A i \in 1..Len(t) - 3 : u[i] = t[i + 3]
    <2>1. Len(t) \in Nat /\ \A i \in 4..Len(t) : t[i] \in Letters
      OBVIOUS
    <2>2. /\ u \in Seq(Letters) /\ Len(u) = IF 4 <= Len(t) THEN Len(t) - 4 + 1 ELSE 0
          /\ \A i \in 1..Len(t) - 4 + 1 : u[i] = t[4 + i - 1]
      BY <2>1, SubSeqProperties
    <2> HIDE DEF u
    <2>3. PICK l \in Nat : l = Len(t) /\ l >= 3
      BY <2>1
    <2>4. l - 4 + 1 = l - 3 /\ (IF 4 <= l THEN l - 4 + 1 ELSE 0) = l - 3
      BY <2>3
    <2>5. Len(u) = l - 3
      BY <2>2, <2>3, <2>4, Zenon
    <2>6. ASSUME NEW i \in 1..l - 3 PROVE u[i] = t[i + 3]
      <3>1. 4 + i - 1 = i + 3
        OBVIOUS
      <3>2. i \in 1..Len(t) - 4 + 1
        BY <2>3, <2>4, Zenon
      <3>3. u[i] = t[4 + i - 1]
        BY <2>2, <3>2, Zenon
      <3> QED BY <3>1, <3>3, Zenon
    <2> QED BY <2>2, <2>3, <2>5, <2>6, Zenon
  <1> HIDE DEF u
  <1>3. PICK h \in Seq(Letters) : h = Place(n) /\ Len(h) = 3 /\ h[1] = Open /\ h[2] = n /\ h[3] = Close
    BY PlaceType
  <1>4. PICK w \in Seq(Letters) : w = h \o u
    BY <1>2, ConcatProperties
  <1>5. /\ Len(w) = Len(h) + Len(u)
        /\ \A i \in 1..Len(h) : w[i] = h[i]
        /\ \A i \in 1..Len(u) : w[Len(h) + i] = u[i]
    <2>1. u \in Seq(Letters)
      BY <1>2
    <2> QED BY <1>4, <2>1, BehindFirst
  <1>6. /\ Len(w) = 3 + Len(u)
        /\ \A i \in 1..3 : w[i] = h[i]
        /\ \A i \in 1..Len(u) : w[3 + i] = u[i]
    BY <1>3, <1>5, Zenon
  <1>7. ASSUME NEW i \in 1..Len(t) PROVE w[i] = t[i]
    <2>1. CASE i > 3
      <3>1. i - 3 \in 1..Len(u) /\ 3 + (i - 3) = i /\ (i - 3) + 3 = i
        BY <1>2, <2>1
      <3>2. w[3 + (i - 3)] = u[i - 3] /\ u[i - 3] = t[(i - 3) + 3]
        BY <1>2, <1>6, <3>1
      <3> QED BY <3>1, <3>2
    <2>2. CASE ~(i > 3)
      <3>1. i = 1 \/ i = 2 \/ i = 3
        BY <2>2
      <3> QED BY <1>3, <1>6, <3>1
    <2> QED BY <2>1, <2>2
  <1>8. w = t
    <2>1. Len(w) = Len(t)
      BY <1>2, <1>6
    <2> QED BY <1>7, <2>1, SeqEqual
  <1>9. Len(u) < Len(t)
    BY <1>2
  <1> QED BY <1>2, <1>3, <1>4, <1>8, <1>9, Zenon

(* A text is whole if its places taken out leave no brace. *)
LEMMA WholeFound ==
    ASSUME NEW N, N \subseteq ToSet(Names), NEW none, none = [n \in N |-> <<>>],
           NEW s \in Seq(Letters), {Open, Close} \cap ToSet(Substituted(s, none)) = {}
    PROVE  s \in WholeTexts(N)
  <1>1. Puts(none) /\ DOMAIN none = N /\ \A n \in N : none[n] = <<>>
    BY DEF Puts
  <1> DEFINE Bare(t) == {Open, Close} \cap ToSet(Substituted(t, none)) = {}
             M == {m \in Nat : \A t \in Seq(Letters) : Len(t) = m /\ Bare(t) => t \in WholeTexts(N)}
  <1>2. ASSUME NEW m \in Nat, \A k \in Nat : k < m => k \in M
        PROVE  m \in M
    <2> SUFFICES ASSUME NEW t \in Seq(Letters), Len(t) = m, Bare(t) PROVE t \in WholeTexts(N)
      OBVIOUS
    <2>1. CASE t = <<>>
      BY <2>1, WholeClosed
    <2>2. CASE t # <<>> /\ PlaceAt(t, 1, N)
      <3>1. PICK n \in N : n = t[2] /\ t[1] = Open /\ t[3] = Close /\ Len(t) >= 3
        BY <2>2 DEF PlaceAt
      <3>2. PICK u \in Seq(Letters) : t = Place(n) \o u /\ Len(u) < m
        BY <3>1, BehindPlace
      <3>3. Substituted(t, none) = <<>> \o Substituted(u, none)
        BY <1>1, <3>2, SubPlace
      <3>4. <<>> \o Substituted(u, none) = Substituted(u, none)
        BY <1>1, SubType, ConcatEmptySeq
      <3>5. Bare(u)
        BY <2>2, <3>3, <3>4
      <3>6. Len(u) \in Nat /\ Len(u) \in M
        <4>1. Len(u) \in Nat
          OBVIOUS
        <4> HIDE DEF M
        <4> QED BY <1>2, <3>2, <4>1
      <3>7. u \in WholeTexts(N)
        BY <3>5, <3>6
      <3>8. Place(n) \in Pieces(N)
        <4>1. Place(n) \in Seq(Letters)
          BY PlaceType
        <4> QED BY <4>1, Zenon DEF Pieces
      <3> QED BY <3>2, <3>7, <3>8, WholeClosed
    <2>3. CASE t # <<>> /\ ~PlaceAt(t, 1, N)
      <3>1. PICK c \in Letters, u \in Seq(Letters) : t = <<c>> \o u /\ Len(u) < m
        <4>1. Head(t) \in Letters /\ Tail(t) \in Seq(Letters) /\ Len(Tail(t)) = Len(t) - 1
          BY <2>3
        <4>2. t = <<Head(t)>> \o Tail(t)
          BY <2>3
        <4>3. Len(Tail(t)) < m
          BY <4>1
        <4> QED BY <4>1, <4>2, <4>3
      <3>2. Substituted(t, none) = <<c>> \o Substituted(u, none)
        BY <1>1, <2>3, <3>1, SubChar
      <3>3. PICK v \in Seq(Letters) : v = Substituted(u, none)
        BY <1>1, SubType
      <3>4. c \in ToSet(<<c>> \o v) /\ ToSet(v) \subseteq ToSet(<<c>> \o v)
        <4>1. PICK w : w = <<c>> \o v
          OBVIOUS
        <4>2. w \in Seq(Letters) /\ Len(w) = 1 + Len(v) /\ w[1] = c /\ \A i \in 1..Len(v) : w[1 + i] = v[i]
          BY <4>1
        <4>3. DOMAIN w = 1..Len(w) /\ DOMAIN v = 1..Len(v) /\ Len(v) \in Nat
          BY <4>2
        <4>4. c \in ToSet(w)
          BY <4>2, <4>3 DEF ToSet
        <4>5. ASSUME NEW i \in 1..Len(v) PROVE v[i] \in ToSet(w)
          <5>1. 1 + i \in DOMAIN w
            BY <4>2, <4>3
          <5> QED BY <4>2, <5>1 DEF ToSet
        <4>6. ToSet(v) \subseteq ToSet(w)
          BY <4>3, <4>5 DEF ToSet
        <4> QED BY <4>1, <4>4, <4>6
      <3>5. {Open, Close} \cap ToSet(<<c>> \o v) = {}
        BY <2>3, <3>2, <3>3
      <3>6. Bare(u) /\ c # Open /\ c # Close
        BY <3>3, <3>4, <3>5
      <3>7. Len(u) \in Nat /\ Len(u) \in M
        <4>1. Len(u) \in Nat
          OBVIOUS
        <4> HIDE DEF M
        <4> QED BY <1>2, <3>1, <4>1
      <3>8. u \in WholeTexts(N)
        BY <3>6, <3>7
      <3>9. <<c>> \in Pieces(N)
        <4>1. <<c>> \in Seq(Letters)
          OBVIOUS
        <4> QED BY <3>6, <4>1, Zenon DEF Pieces
      <3> QED BY <3>1, <3>8, <3>9, WholeClosed
    <2> QED BY <2>1, <2>2, <2>3
  <1>3. Len(s) \in Nat /\ Len(s) \in M
    <2>1. Len(s) \in Nat
      OBVIOUS
    <2> HIDE DEF M
    <2> QED BY <1>2, <2>1, BelowInduction
  <1> QED BY <1>3

(* Formatted. *)
MarkAt(s, k, c) == s[k] = Dollar /\ k < Len(s) /\ s[k + 1] = c

FormEmit(s, name) ==
    [k \in 1..Len(s) |-> IF MarkAt(s, k, And) THEN Place(name)
                         ELSE IF MarkAt(s, k, Dollar) THEN <<Dollar>> ELSE <<s[k]>>]

FormSkip(s) == [k \in 1..Len(s) |-> IF MarkAt(s, k, And) \/ MarkAt(s, k, Dollar) THEN 2 ELSE 1]

RestForm(f, t, name, k) ==
    IF k > Len(t) THEN <<>>
    ELSE IF t[k] = Dollar /\ k < Len(t) /\ t[k + 1] = And THEN Place(name) \o f[k + 2]
    ELSE IF t[k] = Dollar /\ k < Len(t) /\ t[k + 1] = Dollar THEN <<Dollar>> \o f[k + 2]
    ELSE <<t[k]>> \o f[k + 1]

LEMMA FormTypes ==
    ASSUME NEW s \in Seq(Letters), NEW name \in ToSet(Names)
    PROVE  /\ FormEmit(s, name) \in [1..Len(s) -> Seq(Letters)]
           /\ Inward(Len(s), FormSkip(s))
  <1>1. Len(s) \in Nat /\ \A k \in 1..Len(s) : s[k] \in Letters
    OBVIOUS
  <1>2. \A c \in Letters : <<c>> \in Seq(Letters)
    OBVIOUS
  <1>3. Place(name) \in Seq(Letters) /\ <<Dollar>> \in Seq(Letters)
    BY <1>2, PlaceType, Marks
  <1>4. ASSUME NEW k \in 1..Len(s)
        PROVE  (IF MarkAt(s, k, And) THEN Place(name)
                ELSE IF MarkAt(s, k, Dollar) THEN <<Dollar>> ELSE <<s[k]>>) \in Seq(Letters)
    BY <1>1, <1>2, <1>3, Zenon
  <1>5. ASSUME NEW k \in 1..Len(s)
        PROVE  FormSkip(s)[k] \in 1..3 /\ k + FormSkip(s)[k] <= Len(s) + 1
    <2>1. FormSkip(s)[k] = IF MarkAt(s, k, And) \/ MarkAt(s, k, Dollar) THEN 2 ELSE 1
      BY DEF FormSkip
    <2>2. MarkAt(s, k, And) \/ MarkAt(s, k, Dollar) => k < Len(s)
      BY DEF MarkAt
    <2> QED BY <1>1, <2>1, <2>2
  <1> QED BY <1>4, <1>5 DEF FormEmit, Inward

LEMMA FormScan ==
    ASSUME NEW s \in Seq(Letters), NEW name \in ToSet(Names)
    PROVE  \E f : /\ Scan(f, Len(s), FormEmit(s, name), FormSkip(s))
                  /\ Formatted(s, name) = f[1] /\ f[1] \in Seq(Letters)
  <1> DEFINE n == Len(s)
             D == 1..n + 1
             emit == FormEmit(s, name)
             skip == FormSkip(s)
             Turns(g) == [k \in D |-> RestForm(g, s, name, k)]
             out == CHOOSE g : g = Turns(g)
  <1>1. n \in Nat
    OBVIOUS
  <1>2. Formatted(s, name) = out[1]
    BY Zenon DEF Formatted, RestForm
  <1>3. ASSUME NEW f
        PROVE  /\ RestForm(f, s, name, n + 1) = <<>>
               /\ \A k \in 1..n : RestForm(f, s, name, k) = emit[k] \o f[k + skip[k]]
    <2>1. RestForm(f, s, name, n + 1) = <<>>
      <3>1. n + 1 > Len(s)
        BY <1>1
      <3> QED BY <3>1, Zenon DEF RestForm
    <2>2. ASSUME NEW k \in 1..n PROVE RestForm(f, s, name, k) = emit[k] \o f[k + skip[k]]
      <3>1. ~(k > Len(s)) /\ k \in 1..Len(s)
        BY <1>1
      <3>2. /\ emit[k] = IF MarkAt(s, k, And) THEN Place(name)
                         ELSE IF MarkAt(s, k, Dollar) THEN <<Dollar>> ELSE <<s[k]>>
            /\ skip[k] = IF MarkAt(s, k, And) \/ MarkAt(s, k, Dollar) THEN 2 ELSE 1
        BY <3>1, Zenon DEF FormEmit, FormSkip
      <3>3. RestForm(f, s, name, k) = IF MarkAt(s, k, And) THEN Place(name) \o f[k + 2]
                                      ELSE IF MarkAt(s, k, Dollar) THEN <<Dollar>> \o f[k + 2]
                                      ELSE <<s[k]>> \o f[k + 1]
        BY <3>1, Zenon DEF RestForm, MarkAt
      <3> HIDE DEF n, emit, skip
      <3>4. CASE MarkAt(s, k, And)
        BY <3>2, <3>3, <3>4, Zenon
      <3>5. CASE ~MarkAt(s, k, And) /\ MarkAt(s, k, Dollar)
        BY <3>2, <3>3, <3>5, Zenon
      <3>6. CASE ~MarkAt(s, k, And) /\ ~MarkAt(s, k, Dollar)
        BY <3>2, <3>3, <3>6, Zenon
      <3> QED BY <3>4, <3>5, <3>6, Zenon
    <2> QED BY <2>1, <2>2
  <1>4. emit \in [1..n -> Seq(Letters)] /\ Inward(n, skip)
    BY FormTypes
  <1> HIDE DEF emit, skip
  <1>5. PICK v \in [D -> Seq(Letters)] : Scan(v, n, emit, skip)
    BY <1>1, <1>4, ScanExists
  <1>6. ASSUME NEW k \in D PROVE k = n + 1 \/ k \in 1..n
    BY <1>1
  <1>7. v = Turns(v)
    <2>1. \A k \in D : v[k] = RestForm(v, s, name, k)
      <3> HIDE DEF D, n
      <3> QED BY <1>3, <1>5, <1>6, Zenon DEF Scan
    <2> HIDE DEF D
    <2> QED BY <1>5, <2>1
  <1>8. out = Turns(out)
    <2> HIDE DEF Turns
    <2> QED BY <1>7, Zenon
  <1> HIDE DEF out
  <1>9. \A k \in D : out[k] = RestForm(out, s, name, k)
    <2> HIDE DEF D
    <2> QED BY <1>8, Zenon
  <1>10. Scan(out, n, emit, skip)
    <2>1. n + 1 \in D /\ \A k \in 1..n : k \in D
      BY <1>1
    <2> HIDE DEF D, n
    <2> QED BY <1>3, <1>9, <2>1, Zenon DEF Scan
  <1>11. out[1] = v[1]
    <2> HIDE DEF n
    <2> QED BY <1>1, <1>4, <1>5, <1>10, SameScan
  <1>12. 1 \in D
    BY <1>1
  <1>13. out[1] \in Seq(Letters)
    <2> HIDE DEF D
    <2> QED BY <1>5, <1>11, <1>12
  <1> QED BY <1>2, <1>10, <1>13 DEF n, emit, skip

LEMMA MarkBehind ==
    ASSUME NEW a \in Seq(Letters), NEW t \in Seq(Letters), NEW k \in 1..Len(t), NEW c
    PROVE  MarkAt(a \o t, Len(a) + k, c) <=> MarkAt(t, k, c)
  <1> DEFINE s == a \o t
  <1>1. /\ Len(s) = Len(a) + Len(t) /\ Len(a) \in Nat /\ Len(t) \in Nat
        /\ \A i \in 1..Len(t) : s[Len(a) + i] = t[i]
    BY BehindFirst
  <1> HIDE DEF s
  <1>2. PICK i : i = Len(a) + k
    OBVIOUS
  <1>3. (i < Len(s) <=> k < Len(t)) /\ s[i] = t[k]
    BY <1>1, <1>2
  <1>4. CASE k < Len(t)
    <2>1. k + 1 \in 1..Len(t) /\ i + 1 = Len(a) + (k + 1)
      BY <1>1, <1>2, <1>4
    <2>2. s[i + 1] = t[k + 1]
      BY <1>1, <2>1
    <2> QED BY <1>2, <1>3, <2>2, Zenon DEF MarkAt, s
  <1>5. CASE ~(k < Len(t))
    BY <1>2, <1>3, <1>5, Zenon DEF MarkAt, s
  <1> QED BY <1>4, <1>5

LEMMA FormBehind ==
    ASSUME NEW a \in Seq(Letters), NEW t \in Seq(Letters), NEW name \in ToSet(Names),
           NEW f, Scan(f, Len(a \o t), FormEmit(a \o t, name), FormSkip(a \o t))
    PROVE  f[Len(a) + 1] = Formatted(t, name)
  <1> DEFINE s == a \o t
             j == Len(a)
             n == Len(t)
             emit == FormEmit(s, name)
             skip == FormSkip(s)
             emitLater == FormEmit(t, name)
             skipLater == FormSkip(t)
  <1>1. /\ Len(s) = j + n /\ j \in Nat /\ n \in Nat
        /\ \A k \in 1..n : s[j + k] = t[k]
    BY BehindFirst
  <1>2. ASSUME NEW k \in 1..n, NEW c PROVE MarkAt(s, j + k, c) <=> MarkAt(t, k, c)
    BY MarkBehind
  <1>3. ASSUME NEW k \in 1..n PROVE emit[j + k] = emitLater[k] /\ skip[j + k] = skipLater[k]
    <2>1. j + k \in 1..Len(s)
      BY <1>1
    <2> DEFINE i == j + k
    <2>2. /\ emit[i] = IF MarkAt(s, i, And) THEN Place(name)
                       ELSE IF MarkAt(s, i, Dollar) THEN <<Dollar>> ELSE <<s[i]>>
          /\ skip[i] = IF MarkAt(s, i, And) \/ MarkAt(s, i, Dollar) THEN 2 ELSE 1
      BY <2>1, Zenon DEF FormEmit, FormSkip
    <2>3. /\ emitLater[k] = IF MarkAt(t, k, And) THEN Place(name)
                            ELSE IF MarkAt(t, k, Dollar) THEN <<Dollar>> ELSE <<t[k]>>
          /\ skipLater[k] = IF MarkAt(t, k, And) \/ MarkAt(t, k, Dollar) THEN 2 ELSE 1
      BY Zenon DEF FormEmit, FormSkip
    <2> HIDE DEF s, emit, skip, emitLater, skipLater
    <2>4. s[i] = t[k]
      BY <1>1
    <2>5. (MarkAt(s, i, And) <=> MarkAt(t, k, And)) /\ (MarkAt(s, i, Dollar) <=> MarkAt(t, k, Dollar))
      BY <1>2, Zenon
    <2> HIDE DEF i
    <2>6. emit[i] = emitLater[k] /\ skip[i] = skipLater[k]
      BY <2>2, <2>3, <2>4, <2>5
    <2> QED BY <2>6 DEF i
  <1>4. PICK g : /\ Scan(g, n, emitLater, skipLater) /\ Formatted(t, name) = g[1]
    BY FormScan
  <1>5. Inward(n, skipLater)
    BY FormTypes
  <1> HIDE DEF s, j, n, emit, skip, emitLater, skipLater
  <1>6. SameReading(j, n, emit, skip, emitLater, skipLater)
    BY <1>3 DEF SameReading
  <1>7. Scan(f, Len(s), emit, skip)
    BY DEF s, emit, skip
  <1>8. ReadsLater(f, Len(s), emit, skip, j, g, n, emitLater, skipLater)
    BY <1>1, <1>4, <1>5, <1>6, <1>7, Zenon DEF ReadsLater
  <1>9. f[j + 1] = g[1]
    BY <1>8, ScanLater, Zenon
  <1> QED BY <1>4, <1>9, Zenon DEF j

LEMMA FormFirst ==
    ASSUME NEW a \in Seq(Letters), a # <<>>, NEW u \in Seq(Letters), NEW name \in ToSet(Names),
           FormSkip(a \o u)[1] = Len(a)
    PROVE  Formatted(a \o u, name) = FormEmit(a \o u, name)[1] \o Formatted(u, name)
  <1> DEFINE s == a \o u
  <1>1. s \in Seq(Letters) /\ Len(s) = Len(a) + Len(u) /\ Len(a) \in Nat /\ Len(u) \in Nat
    BY BehindFirst
  <1>2. PICK f : /\ Scan(f, Len(s), FormEmit(s, name), FormSkip(s))
                 /\ Formatted(s, name) = f[1]
    BY <1>1, FormScan
  <1>3. f[Len(a) + 1] = Formatted(u, name)
    BY <1>2, FormBehind
  <1> HIDE DEF s
  <1>4. 1 \in 1..Len(s) /\ 1 + Len(a) = Len(a) + 1
    BY <1>1
  <1>5. f[1] = FormEmit(s, name)[1] \o f[1 + FormSkip(s)[1]]
    BY <1>2, <1>4, Zenon DEF Scan
  <1> QED BY <1>2, <1>3, <1>4, <1>5, Zenon DEF s

LEMMA FormNothing ==
    ASSUME NEW name \in ToSet(Names)
    PROVE  Formatted(<<>>, name) = <<>>
  <1>1. <<>> \in Seq(Letters) /\ Len(<<>>) + 1 = 1
    OBVIOUS
  <1>2. PICK f : /\ Scan(f, Len(<<>>), FormEmit(<<>>, name), FormSkip(<<>>))
                 /\ Formatted(<<>>, name) = f[1]
    BY <1>1, FormScan
  <1>3. f[Len(<<>>) + 1] = <<>>
    BY <1>2, Zenon DEF Scan
  <1> QED BY <1>1, <1>2, <1>3

LEMMA FormChar ==
    ASSUME NEW c \in Letters, NEW u \in Seq(Letters), NEW name \in ToSet(Names),
           ~MarkAt(<<c>> \o u, 1, And), ~MarkAt(<<c>> \o u, 1, Dollar)
    PROVE  Formatted(<<c>> \o u, name) = <<c>> \o Formatted(u, name)
  <1>1. PICK a \in Seq(Letters) : a = <<c>> /\ a # <<>> /\ Len(a) = 1
    <2>1. <<c>> \in Seq(Letters) /\ <<c>> # <<>> /\ Len(<<c>>) = 1
      OBVIOUS
    <2> QED BY <2>1, Zenon
  <1>2. PICK s : s = a \o u
    OBVIOUS
  <1>3. s \in Seq(Letters) /\ Len(s) = 1 + Len(u) /\ Len(u) \in Nat /\ s[1] = c
    BY <1>1, <1>2
  <1>4. 1 \in 1..Len(s)
    BY <1>3
  <1>5. ~MarkAt(s, 1, And) /\ ~MarkAt(s, 1, Dollar)
    BY <1>1, <1>2
  <1>6. FormEmit(s, name)[1] = <<s[1]>> /\ FormSkip(s)[1] = 1
    BY <1>4, <1>5, Zenon DEF FormEmit, FormSkip
  <1>7. Formatted(s, name) = FormEmit(s, name)[1] \o Formatted(u, name)
    BY <1>1, <1>2, <1>6, FormFirst
  <1> QED BY <1>1, <1>2, <1>3, <1>6, <1>7, Zenon

(* "$&" and "$$". *)
LEMMA FormMark ==
    ASSUME NEW c \in {And, Dollar}, NEW u \in Seq(Letters), NEW name \in ToSet(Names)
    PROVE  Formatted(<<Dollar>> \o (<<c>> \o u), name)
               = (IF c = And THEN Place(name) ELSE <<Dollar>>) \o Formatted(u, name)
  <1>1. PICK o \in Seq(Letters), m \in Seq(Letters) :
            o = <<Dollar>> /\ m = <<c>> /\ Len(o) = 1 /\ Len(m) = 1 /\ o[1] = Dollar /\ m[1] = c
    <2>1. Dollar \in Letters /\ c \in Letters
      BY Marks
    <2>2. /\ <<Dollar>> \in Seq(Letters) /\ <<c>> \in Seq(Letters)
          /\ Len(<<Dollar>>) = 1 /\ Len(<<c>>) = 1 /\ <<Dollar>>[1] = Dollar /\ <<c>>[1] = c
      BY <2>1
    <2> QED BY <2>2, Zenon
  <1>2. PICK a \in Seq(Letters) : a = o \o m
    BY ConcatProperties
  <1>3. Len(a) = 2 /\ a # <<>> /\ a[1] = Dollar /\ a[2] = c
    BY <1>1, <1>2
  <1>4. PICK s \in Seq(Letters) : s = a \o u
    BY ConcatProperties
  <1>5. s = <<Dollar>> \o (<<c>> \o u)
    <2>1. InThree(o, m, u)
      BY InThreeAlways
    <2> QED BY <1>1, <1>2, <1>4, <2>1, Zenon DEF InThree
  <1>6. Len(s) = 2 + Len(u) /\ Len(u) \in Nat /\ s[1] = Dollar /\ s[1 + 1] = c
    <2>1. /\ Len(s) = Len(a) + Len(u) /\ Len(u) \in Nat
          /\ \A k \in 1..Len(a) : s[k] = a[k]
      BY <1>4, BehindFirst
    <2>2. 1 \in 1..Len(a) /\ 2 \in 1..Len(a) /\ 1 + 1 = 2
      BY <1>3
    <2> QED BY <1>3, <2>1, <2>2
  <1>7. 1 \in 1..Len(s) /\ 1 < Len(s)
    BY <1>6
  <1>8. MarkAt(s, 1, c) /\ (c = Dollar => ~MarkAt(s, 1, And))
    BY <1>6, <1>7, Marks DEF MarkAt
  <1>9. FormSkip(s)[1] = 2 /\ FormEmit(s, name)[1] = IF c = And THEN Place(name) ELSE <<Dollar>>
    <2>1. /\ FormEmit(s, name)[1] = IF MarkAt(s, 1, And) THEN Place(name)
                                    ELSE IF MarkAt(s, 1, Dollar) THEN <<Dollar>> ELSE <<s[1]>>
          /\ FormSkip(s)[1] = IF MarkAt(s, 1, And) \/ MarkAt(s, 1, Dollar) THEN 2 ELSE 1
      BY <1>7, Zenon DEF FormEmit, FormSkip
    <2>2. CASE c = And
      BY <1>8, <2>1, <2>2, Zenon
    <2>3. CASE c = Dollar
      BY <1>8, <2>1, <2>3, Marks, Zenon
    <2> QED BY <2>2, <2>3
  <1>10. Formatted(s, name) = FormEmit(s, name)[1] \o Formatted(u, name)
    <2>1. FormSkip(a \o u)[1] = Len(a) /\ a # <<>>
      BY <1>3, <1>4, <1>9, Zenon
    <2>2. Formatted(a \o u, name) = FormEmit(a \o u, name)[1] \o Formatted(u, name)
      BY <2>1, FormFirst
    <2> QED BY <1>4, <2>2, Zenon
  <1> QED BY <1>5, <1>9, <1>10, Zenon

LEMMA FormPlain ==
    ASSUME NEW c \in Letters, c # Dollar, NEW u \in Seq(Letters), NEW name \in ToSet(Names)
    PROVE  Formatted(<<c>> \o u, name) = <<c>> \o Formatted(u, name)
  <1>1. (<<c>> \o u)[1] = c
    OBVIOUS
  <1>2. ~MarkAt(<<c>> \o u, 1, And) /\ ~MarkAt(<<c>> \o u, 1, Dollar)
    BY <1>1 DEF MarkAt
  <1> QED BY <1>2, FormChar

(* A "$" without a meaning. *)
LEMMA FormLone ==
    ASSUME NEW u \in Seq(Letters), u = <<>> \/ (u[1] # And /\ u[1] # Dollar),
           NEW name \in ToSet(Names)
    PROVE  Formatted(<<Dollar>> \o u, name) = <<Dollar>> \o Formatted(u, name)
  <1>1. Dollar \in Letters
    BY Marks
  <1>2. PICK s : s = <<Dollar>> \o u
    OBVIOUS
  <1>3. ASSUME NEW c \in {And, Dollar} PROVE ~MarkAt(s, 1, c)
    <2>1. CASE u = <<>>
      <3>1. Len(s) = 1
        BY <1>1, <1>2, <2>1
      <3> QED BY <3>1 DEF MarkAt
    <2>2. CASE u # <<>>
      <3>1. s[1 + 1] = u[1]
        BY <1>1, <1>2, <2>2
      <3> QED BY <2>2, <3>1 DEF MarkAt
    <2> QED BY <2>1, <2>2
  <1>4. ~MarkAt(<<Dollar>> \o u, 1, And) /\ ~MarkAt(<<Dollar>> \o u, 1, Dollar)
    BY <1>2, <1>3
  <1> QED BY <1>1, <1>4, FormChar

LEMMA FormPlace ==
    ASSUME NEW m \in ToSet(Names), NEW t \in Seq(Letters), NEW name \in ToSet(Names)
    PROVE  Formatted(Place(m) \o t, name) = Place(m) \o Formatted(t, name)
  <1>1. /\ Open \in Letters /\ Close \in Letters /\ m \in Letters
        /\ m # Dollar /\ Close # Dollar /\ Open # Dollar
    BY Marks
  <1>2. PICK y \in Seq(Letters) : y = <<Close>> \o t
    <2>1. <<Close>> \in Seq(Letters)
      BY <1>1
    <2> QED BY <2>1, ThreeGrouped
  <1>3. PICK x \in Seq(Letters) : x = <<m>> \o y
    <2>1. <<m>> \in Seq(Letters)
      BY <1>1
    <2> QED BY <2>1, ThreeGrouped
  <1>4. Place(m) \o t = <<Open>> \o x
    BY <1>2, <1>3, PlaceParts, Zenon
  <1>5. Formatted(y, name) = <<Close>> \o Formatted(t, name)
    BY <1>1, <1>2, FormPlain
  <1>6. Formatted(x, name) = <<m>> \o Formatted(y, name)
    BY <1>1, <1>3, FormPlain
  <1>7. Formatted(<<Open>> \o x, name) = <<Open>> \o Formatted(x, name)
    BY <1>1, FormPlain
  <1>8. Formatted(t, name) \in Seq(Letters)
    BY FormScan
  <1>9. Place(m) \o Formatted(t, name) = <<Open>> \o (<<m>> \o (<<Close>> \o Formatted(t, name)))
    BY <1>8, PlaceParts
  <1> QED BY <1>4, <1>5, <1>6, <1>7, <1>9, Zenon

(* What is put in for a whole text is whole. *)
LEMMA FormWhole ==
    ASSUME NEW N, N \subseteq ToSet(Names), NEW name \in N, NEW a \in WholeTexts(N)
    PROVE  Formatted(a, name) \in WholeTexts(N)
  <1> DEFINE F(s) == Formatted(s, name)
             W == WholeTexts(N)
             M == {s \in Seq(Letters) : F(s) \in W /\ F(<<Dollar>> \o s) \in W}
  <1>0. /\ Dollar \in Letters /\ And \in Letters /\ Dollar # Open /\ Dollar # Close
        /\ And # Dollar /\ Open # And /\ Open # Dollar
    BY Marks
  <1>1. <<Dollar>> \in Pieces(N) /\ Place(name) \in Pieces(N)
    <2>1. <<Dollar>> \in Seq(Letters) /\ Place(name) \in Seq(Letters)
      BY <1>0, PlaceType
    <2> QED BY <1>0, <2>1, Zenon DEF Pieces
  <1>2. \A p \in Pieces(N), t \in W : p \o t \in W
    BY WholeClosed
  <1>3. <<>> \in M
    <2>1. <<>> \in Seq(Letters) /\ <<>> \in W
      BY WholeClosed
    <2>2. F(<<>>) = <<>>
      BY FormNothing
    <2>3. F(<<Dollar>> \o <<>>) = <<Dollar>> \o F(<<>>)
      BY <2>1, FormLone
    <2> HIDE DEF F, W
    <2>4. F(<<Dollar>> \o <<>>) \in W
      BY <1>1, <1>2, <2>1, <2>2, <2>3, Zenon
    <2> QED BY <2>1, <2>2, <2>4
  <1>4. ASSUME NEW p \in Pieces(N), NEW t \in WholeTexts(N), t \in M
        PROVE  p \o t \in M
    <2>1. t \in Seq(Letters) /\ p \in Seq(Letters)
      BY WholeClosed, PieceType
    <2>2. PICK s \in Seq(Letters) : s = p \o t
      BY <2>1, ConcatProperties
    <2>3. F(t) \in W /\ F(<<Dollar>> \o t) \in W
      BY <1>4
    <2>4. ASSUME NEW m \in N, p = Place(m) PROVE F(s) \in W /\ F(<<Dollar>> \o s) \in W
      <3>1. F(s) = p \o F(t)
        BY <2>1, <2>2, <2>4, FormPlace
      <3>2. F(s) \in W
        <4> HIDE DEF F, W
        <4> QED BY <1>2, <2>3, <3>1
      <3>3. s[1] = Open
        <4>1. Len(p) = 3 /\ p[1] = Open
          BY <2>4, PlaceType
        <4> QED BY <2>1, <2>2, <4>1, BehindFirst
      <3>4. F(<<Dollar>> \o s) = <<Dollar>> \o F(s)
        BY <1>0, <3>3, FormLone
      <3>5. F(<<Dollar>> \o s) \in W
        <4> HIDE DEF F, W
        <4> QED BY <1>1, <1>2, <3>2, <3>4
      <3> QED BY <3>2, <3>5
    <2>5. ASSUME NEW c \in Letters, c # Open, c # Close, p = <<c>>
          PROVE  F(s) \in W /\ F(<<Dollar>> \o s) \in W
      <3>1. F(s) \in W
        <4>1. CASE c = Dollar
          <5> HIDE DEF F, W
          <5> QED BY <2>2, <2>3, <2>5, <4>1, Zenon
        <4>2. CASE c # Dollar
          <5>1. F(<<c>> \o t) = <<c>> \o F(t)
            BY <2>1, <4>2, FormPlain
          <5> HIDE DEF F, W
          <5> QED BY <1>2, <2>2, <2>3, <2>5, <5>1, Zenon
        <4> QED BY <4>1, <4>2
      <3>2. CASE c \in {And, Dollar}
        <4>1. F(<<Dollar>> \o (<<c>> \o t)) = (IF c = And THEN Place(name) ELSE <<Dollar>>) \o F(t)
          BY <2>1, <3>2, FormMark
        <4>2. (IF c = And THEN Place(name) ELSE <<Dollar>>) \in Pieces(N)
          BY <1>1
        <4> HIDE DEF F, W
        <4>3. F(<<Dollar>> \o s) \in W
          BY <1>2, <2>2, <2>3, <2>5, <4>1, <4>2, Zenon
        <4> QED BY <3>1, <4>3
      <3>3. CASE c \notin {And, Dollar}
        <4>1. s[1] = c
          <5>1. Len(p) = 1 /\ p[1] = c
            BY <2>5
          <5> QED BY <2>1, <2>2, <5>1, BehindFirst
        <4>2. F(<<Dollar>> \o s) = <<Dollar>> \o F(s)
          BY <3>3, <4>1, FormLone
        <4> HIDE DEF F, W
        <4>3. F(<<Dollar>> \o s) \in W
          BY <1>1, <1>2, <3>1, <4>2, Zenon
        <4> QED BY <3>1, <4>3
      <3> QED BY <3>2, <3>3
    <2>6. F(s) \in W /\ F(<<Dollar>> \o s) \in W
      <3> HIDE DEF F, W
      <3> QED BY <2>4, <2>5, Zenon DEF Pieces
    <2> QED BY <2>2, <2>6
  <1>5. WholeTexts(N) \subseteq M
    <2> HIDE DEF M
    <2> QED BY <1>3, <1>4, WholeInduction
  <1> QED BY <1>5

(***************************************************************************)
(* The order of the passes.                                                *)
(***************************************************************************)
LaterIn(name, names) ==
    {Names[j] : j \in {j \in DOMAIN Names : /\ Names[j] \in names
                                          /\ \E i \in 1..j - 1 : Names[i] = name}}

FromAt(k, names) == {n \in names : \E j \in k..Len(Names) : Names[j] = n}

Behind(r, i) == {r[j] : j \in i + 1..Len(r)}

(* r holds the names from position k on, each before the later ones. *)
OrderedFrom(r, k, names) ==
    /\ r \in Seq(names)
    /\ FromAt(k, names) = Behind(r, 0)
    /\ \A i \in 1..Len(r) : LaterIn(r[i], names) = Behind(r, i)

LEMMA NamesAreOnce ==
    /\ Names \in Seq(STRING) /\ Len(Names) \in Nat /\ DOMAIN Names = 1..Len(Names)
    /\ \A i, j \in 1..Len(Names) : Names[i] = Names[j] => i = j
    /\ \A i \in 1..Len(Names) : Names[i] \in ToSet(Names)
  <1>1. /\ Names \in Seq(STRING) /\ Len(Names) \in Nat /\ DOMAIN Names = 1..Len(Names)
    BY EmplaceAssumption
  <1>2. IsInjective(Names)
    BY EmplaceAssumption
  <1> QED BY <1>1, <1>2 DEF IsInjective, ToSet

LEMMA LaterOfFirst ==
    ASSUME NEW names, NEW k \in 1..Len(Names)
    PROVE  LaterIn(Names[k], names) = FromAt(k + 1, names)
  <1>1. ASSUME NEW n \in LaterIn(Names[k], names) PROVE n \in FromAt(k + 1, names)
    <2>1. PICK j \in 1..Len(Names) : /\ n = Names[j] /\ Names[j] \in names
                                     /\ \E i \in 1..j - 1 : Names[i] = Names[k]
      BY NamesAreOnce DEF LaterIn
    <2>2. PICK i \in 1..j - 1 : Names[i] = Names[k]
      BY <2>1
    <2>3. i \in 1..Len(Names)
      BY NamesAreOnce
    <2>4. i = k
      BY <2>2, <2>3, NamesAreOnce
    <2>5. j \in k + 1..Len(Names)
      BY <2>4, NamesAreOnce
    <2> QED BY <2>1, <2>5 DEF FromAt
  <1>2. ASSUME NEW n \in FromAt(k + 1, names) PROVE n \in LaterIn(Names[k], names)
    <2>1. PICK j \in k + 1..Len(Names) : Names[j] = n
      BY DEF FromAt
    <2>2. n \in names
      BY DEF FromAt
    <2>3. j \in DOMAIN Names /\ k \in 1..j - 1
      BY NamesAreOnce
    <2> QED BY <2>1, <2>2, <2>3 DEF LaterIn
  <1> QED BY <1>1, <1>2

LEMMA NotLater ==
    ASSUME NEW names, NEW n
    PROVE  n \notin LaterIn(n, names)
  <1> SUFFICES ASSUME n \in LaterIn(n, names) PROVE FALSE
    OBVIOUS
  <1>1. PICK j \in 1..Len(Names) : n = Names[j] /\ \E i \in 1..j - 1 : Names[i] = n
    BY NamesAreOnce DEF LaterIn
  <1>2. PICK i \in 1..j - 1 : Names[i] = n
    BY <1>1
  <1>3. i \in 1..Len(Names) /\ i # j
    BY NamesAreOnce
  <1> QED BY <1>1, <1>2, <1>3, NamesAreOnce

LEMMA OrderStep ==
    ASSUME NEW names, NEW k \in 1..Len(Names), NEW later, OrderedFrom(later, k + 1, names),
           NEW r, r = (IF Names[k] \in names THEN <<Names[k]>> ELSE <<>>) \o later
    PROVE  OrderedFrom(r, k, names)
  <1>0. later \in Seq(names)
    BY DEF OrderedFrom
  <1>1. FromAt(k, names) = FromAt(k + 1, names) \cup {n \in names : n = Names[k]}
    <2>1. \A j \in k..Len(Names) : j = k \/ j \in k + 1..Len(Names)
      OBVIOUS
    <2>2. k \in k..Len(Names) /\ \A j \in k + 1..Len(Names) : j \in k..Len(Names)
      OBVIOUS
    <2> QED BY <2>1, <2>2 DEF FromAt
  <1>2. CASE Names[k] \notin names
    <2>1. r = later
      BY <1>0, <1>2, ConcatEmptySeq
    <2>2. FromAt(k, names) = FromAt(k + 1, names)
      BY <1>1, <1>2
    <2> QED BY <2>1, <2>2, Zenon DEF OrderedFrom
  <1>3. CASE Names[k] \in names
    <2>1. PICK n \in names : n = Names[k]
      BY <1>3
    <2>2. r = <<n>> \o later
      BY <1>3, <2>1
    <2>3. /\ r \in Seq(names) /\ Len(r) = 1 + Len(later) /\ Len(later) \in Nat /\ r[1] = n
          /\ \A i \in 1..Len(later) : r[i + 1] = later[i]
      BY <1>0, <2>2
    <2> HIDE <2>2
    <2>4. ASSUME NEW i \in 0..Len(later) PROVE Behind(r, i + 1) = Behind(later, i)
      <3>1. ASSUME NEW j \in i + 1..Len(later) PROVE j + 1 \in (i + 1) + 1..Len(r) /\ r[j + 1] = later[j]
        BY <2>3
      <3>2. ASSUME NEW j \in (i + 1) + 1..Len(r)
            PROVE  j - 1 \in i + 1..Len(later) /\ r[j] = later[j - 1]
        <4>1. j - 1 \in 1..Len(later) /\ j - 1 \in i + 1..Len(later) /\ (j - 1) + 1 = j
          BY <2>3
        <4> QED BY <2>3, <4>1
      <3>3. ASSUME NEW x \in Behind(r, i + 1) PROVE x \in Behind(later, i)
        <4>1. PICK j \in (i + 1) + 1..Len(r) : x = r[j]
          BY DEF Behind
        <4> QED BY <3>2, <4>1 DEF Behind
      <3>4. ASSUME NEW x \in Behind(later, i) PROVE x \in Behind(r, i + 1)
        <4>1. PICK j \in i + 1..Len(later) : x = later[j]
          BY DEF Behind
        <4> QED BY <3>1, <4>1 DEF Behind
      <3> QED BY <3>3, <3>4
    <2>5. Behind(r, 0) = {n} \cup Behind(later, 0)
      <3>1. Behind(r, 0 + 1) = Behind(later, 0)
        BY <2>3, <2>4
      <3>2. Behind(r, 0) = {r[1]} \cup Behind(r, 0 + 1)
        <4>1. \A j \in 0 + 1..Len(r) : j = 1 \/ j \in (0 + 1) + 1..Len(r)
          BY <2>3
        <4>2. 1 \in 0 + 1..Len(r) /\ \A j \in (0 + 1) + 1..Len(r) : j \in 0 + 1..Len(r)
          BY <2>3
        <4> QED BY <4>1, <4>2 DEF Behind
      <3> QED BY <2>3, <3>1, <3>2
    <2>6. FromAt(k, names) = Behind(r, 0)
      BY <1>1, <1>3, <2>1, <2>5 DEF OrderedFrom
    <2>7. ASSUME NEW i \in 1..Len(r) PROVE LaterIn(r[i], names) = Behind(r, i)
      <3>1. CASE i = 1
        <4>1. LaterIn(r[1], names) = Behind(later, 0)
          BY <2>1, <2>3, LaterOfFirst DEF OrderedFrom
        <4>2. Behind(r, 0 + 1) = Behind(later, 0)
          BY <2>3, <2>4
        <4> QED BY <3>1, <4>1, <4>2
      <3>2. CASE i # 1
        <4>1. PICK m \in 1..Len(later) : i = m + 1
          <5>1. i - 1 \in 1..Len(later) /\ i = (i - 1) + 1
            BY <2>3, <3>2
          <5> QED BY <5>1
        <4>2. LaterIn(later[m], names) = Behind(later, m)
          BY DEF OrderedFrom
        <4>3. Behind(r, m + 1) = Behind(later, m)
          <5>1. m \in 0..Len(later)
            BY <2>3
          <5> QED BY <2>4, <5>1
        <4> QED BY <2>3, <4>1, <4>2, <4>3
      <3> QED BY <3>1, <3>2
    <2> QED BY <2>3, <2>6, <2>7 DEF OrderedFrom
  <1> QED BY <1>2, <1>3

LEMMA NamesInOrder ==
    ASSUME NEW names, names \subseteq ToSet(Names)
    PROVE  OrderedFrom(InOrder(names), 1, names)
  <1> DEFINE l == Len(Names)
             piece == [i \in 1..l |-> IF Names[i] \in names THEN <<Names[i]>> ELSE <<>>]
             Texts(m) == [i \in 1..m |-> piece[(l - m) + i]]
             M == {m \in Nat : m <= l => OrderedFrom(FlattenSeq(Texts(m)), (l - m) + 1, names)}
  <1>1. l \in Nat /\ DOMAIN Names = 1..l
    BY NamesAreOnce
  <1>2. piece \in [1..l -> Seq(names)]
        /\ \A i \in 1..l : piece[i] = IF Names[i] \in names THEN <<Names[i]>> ELSE <<>>
    <2>1. \A i \in 1..l : (IF Names[i] \in names THEN <<Names[i]>> ELSE <<>>) \in Seq(names)
      OBVIOUS
    <2> QED BY <2>1
  <1> HIDE DEF l, piece
  <1>3. ASSUME NEW m \in Nat, m <= l PROVE Texts(m) \in Seq(Seq(names)) /\ Len(Texts(m)) = m
    <2>1. \A i \in 1..m : (l - m) + i \in 1..l
      BY <1>1, <1>3
    <2>2. \A i \in 1..m : piece[(l - m) + i] \in Seq(names)
      BY <1>2, <2>1
    <2> QED BY <2>2
  <1>4. 0 \in M
    <2>1. Texts(0) = <<>>
      BY <1>1
    <2>2. FlattenSeq(<<>>) = <<>>
      BY DEF FlattenSeq
    <2>3. OrderedFrom(<<>>, (l - 0) + 1, names)
      <3>1. <<>> \in Seq(names) /\ Len(<<>>) = 0
        OBVIOUS
      <3>2. FromAt((l - 0) + 1, names) = {}
        <4>1. (l - 0) + 1..l = {}
          BY <1>1
        <4> QED BY <4>1 DEF FromAt, l
      <3>3. Behind(<<>>, 0) = {}
        BY <3>1 DEF Behind
      <3> QED BY <3>1, <3>2, <3>3 DEF OrderedFrom
    <2> QED BY <2>1, <2>2, <2>3
  <1>5. ASSUME NEW m \in Nat, m \in M PROVE m + 1 \in M
    <2> SUFFICES ASSUME m + 1 <= l
                 PROVE  OrderedFrom(FlattenSeq(Texts(m + 1)), (l - (m + 1)) + 1, names)
      OBVIOUS
    <2>1. PICK k \in 1..l : k = l - m
      BY <1>1
    <2>2. (l - (m + 1)) + 1 = k /\ (l - m) + 1 = k + 1 /\ (l - (m + 1)) + 1 \in 1..l
      BY <1>1, <2>1
    <2>3. Texts(m) \in Seq(Seq(names)) /\ Len(Texts(m)) = m
      BY <1>1, <1>3
    <2>4. Texts(m + 1) \in Seq(Seq(names)) /\ Len(Texts(m + 1)) = m + 1
      BY <1>3
    <2>5. Head(Texts(m + 1)) = piece[k]
      <3>1. 1 \in 1..m + 1 /\ (l - (m + 1)) + 1 = k
        BY <2>2
      <3>2. Texts(m + 1)[1] = piece[k]
        BY <3>1
      <3> QED BY <2>4, <3>2
    <2>6. Tail(Texts(m + 1)) = Texts(m)
      <3> DEFINE t == Texts(m + 1)
                 u == Texts(m)
      <3>1. \A i \in 1..m : u[i] = piece[(l - m) + i]
        OBVIOUS
      <3>2. \A i \in 1..m : t[i + 1] = piece[(l - m) + i]
        <4>1. ASSUME NEW i \in 1..m PROVE i + 1 \in 1..m + 1 /\ (l - (m + 1)) + (i + 1) = (l - m) + i
          BY <1>1
        <4> QED BY <4>1
      <3> HIDE DEF t, u
      <3>3. t \in Seq(Seq(names)) /\ Len(t) = m + 1 /\ u \in Seq(Seq(names)) /\ Len(u) = m
        BY <2>3, <2>4 DEF t, u
      <3>4. PICK v : v = Tail(t)
        OBVIOUS
      <3>5. v \in Seq(Seq(names)) /\ Len(v) = m /\ \A i \in 1..m : v[i] = t[i + 1]
        BY <3>3, <3>4
      <3>6. v = u
        BY <3>1, <3>2, <3>3, <3>5, SeqEqual
      <3> QED BY <3>4, <3>6 DEF t, u
    <2> HIDE DEF Texts
    <2>7. Texts(m + 1) # <<>>
      BY <2>4
    <2>8. FlattenSeq(Texts(m + 1)) = piece[k] \o FlattenSeq(Texts(m))
      BY <2>4, <2>5, <2>6, <2>7, FlattenFirst
    <2>9. OrderedFrom(FlattenSeq(Texts(m)), k + 1, names)
      <3>1. m \in M /\ m <= l
        BY <1>1, <1>5
      <3> QED BY <2>2, <3>1
    <2>10. FlattenSeq(Texts(m + 1))
               = (IF Names[k] \in names THEN <<Names[k]>> ELSE <<>>) \o FlattenSeq(Texts(m))
      BY <1>2, <2>8
    <2>11. k \in 1..Len(Names)
      BY DEF l
    <2>12. OrderedFrom(FlattenSeq(Texts(m + 1)), k, names)
      BY <2>9, <2>10, <2>11, OrderStep
    <2> QED BY <2>2, <2>12
  <1>6. l \in M
    <2> HIDE DEF M
    <2> QED BY <1>1, <1>4, <1>5, NextInduction
  <1>7. Texts(l) = piece
    <2>1. \A i \in 1..l : (l - l) + i = i
      BY <1>1
    <2>2. \A i \in 1..l : Texts(l)[i] = piece[i]
      BY <2>1
    <2> QED BY <1>2, <2>2
  <1>8. InOrder(names) = FlattenSeq(piece)
    BY <1>1, Zenon DEF InOrder, piece
  <1>9. (l - l) + 1 = 1
    BY <1>1
  <1> QED BY <1>1, <1>6, <1>7, <1>8, <1>9

(***************************************************************************)
(* What each place holds in the end.                                       *)
(***************************************************************************)
Filled(f, given, name) ==
    Substituted(Formatted(given[name], name), [n \in LaterIn(name, DOMAIN given) |-> f[n]])

IsFull(f, given) == f = [name \in DOMAIN given |-> Filled(f, given, name)]

Full(given) == CHOOSE f : IsFull(f, given)

WholeGiven(given) ==
    /\ DOMAIN given \subseteq ToSet(Names)
    /\ given \in [DOMAIN given -> Seq(Letters)]
    /\ \A n \in DOMAIN given : given[n] \in WholeTexts(DOMAIN given)

LEMMA LaterType ==
    ASSUME NEW name, NEW names
    PROVE  LaterIn(name, names) \subseteq names
  BY DEF LaterIn

LEMMA PutsWhole ==
    ASSUME NEW N, N \subseteq ToSet(Names), NEW P, P \subseteq N,
           NEW f \in [N -> WholeTexts(N)], NEW put, put = [n \in P |-> f[n]]
    PROVE  /\ Puts(put) /\ DOMAIN put = P /\ \A n \in P : put[n] = f[n]
           /\ \A n \in DOMAIN put : put[n] \in WholeTexts(N)
  <1>1. DOMAIN put = P /\ \A n \in P : put[n] = f[n]
    OBVIOUS
  <1>2. \A n \in P : f[n] \in WholeTexts(N) /\ f[n] \in Seq(Letters)
    BY WholeClosed
  <1>3. put \in [P -> Seq(Letters)]
    BY <1>2
  <1> QED BY <1>1, <1>2, <1>3 DEF Puts

LEMMA FilledWhole ==
    ASSUME NEW given, WholeGiven(given), NEW name \in DOMAIN given,
           NEW f \in [DOMAIN given -> WholeTexts(DOMAIN given)]
    PROVE  Filled(f, given, name) \in WholeTexts(DOMAIN given)
  <1> DEFINE N == DOMAIN given
             put == [n \in LaterIn(name, N) |-> f[n]]
             s == Formatted(given[name], name)
  <1>1. N \subseteq ToSet(Names)
    BY DEF WholeGiven
  <1>2. s \in WholeTexts(N)
    <2>1. given[name] \in WholeTexts(N)
      BY DEF WholeGiven
    <2> QED BY <1>1, <2>1, FormWhole
  <1>3. LaterIn(name, N) \subseteq N
    BY LaterType
  <1>4. Puts(put) /\ \A n \in DOMAIN put : put[n] \in WholeTexts(N)
    <2>1. PICK p : p = put
      OBVIOUS
    <2>2. Puts(p) /\ \A n \in DOMAIN p : p[n] \in WholeTexts(N)
      BY <1>1, <1>3, <2>1, PutsWhole
    <2> QED BY <2>1, <2>2, Zenon
  <1> HIDE DEF put, s
  <1>5. Substituted(s, put) \in WholeTexts(N)
    BY <1>1, <1>2, <1>4, SubWhole
  <1> QED BY <1>5, Zenon DEF Filled, put, s

LEMMA FullExists ==
    ASSUME NEW given, WholeGiven(given)
    PROVE  /\ Full(given) \in [DOMAIN given -> WholeTexts(DOMAIN given)]
           /\ IsFull(Full(given), given)
  <1> DEFINE D == DOMAIN given
             R == WholeTexts(D)
             place == [x \in D |-> CHOOSE i \in 1..Len(Names) : Names[i] = x]
             rank == [x \in D |-> Len(Names) - place[x]]
             FillOne(x, f) == Filled(f, given, x)
             turn == [x \in D |-> [f \in [D -> R] |-> FillOne(x, f)]]
  <1>0. D \subseteq ToSet(Names)
    BY DEF WholeGiven
  <1>1. <<>> \in R
    BY WholeClosed
  <1>2. ASSUME NEW x \in D, NEW f \in [D -> R] PROVE FillOne(x, f) \in R
    BY FilledWhole
  <1>3. \A x \in D : place[x] \in 1..Len(Names) /\ Names[place[x]] = x
    <2>1. \A x \in D : \E i \in 1..Len(Names) : Names[i] = x
      BY <1>0, NamesAreOnce DEF ToSet
    <2> QED BY <2>1
  <1> HIDE DEF place
  <1>4. rank \in [D -> 0..Len(Names)] /\ \A x \in D : rank[x] = Len(Names) - place[x]
    <2>1. ASSUME NEW x \in D PROVE Len(Names) - place[x] \in 0..Len(Names)
      <3>1. place[x] \in 1..Len(Names) /\ Len(Names) \in Nat
        BY <1>3, NamesAreOnce
      <3> QED BY <3>1
    <2> HIDE DEF D
    <2> QED BY <2>1
  <1>5. turn \in StepsOn(D, R) /\ \A x \in D, f \in [D -> R] : turn[x][f] = FillOne(x, f)
    <2> HIDE DEF D, R
    <2>1. \A x \in D : [f \in [D -> R] |-> FillOne(x, f)] \in [[D -> R] -> R]
      <3> HIDE DEF FillOne
      <3> QED BY <1>2
    <2>2. turn \in [D -> [[D -> R] -> R]]
      BY <2>1
    <2>3. \A x \in D, f \in [D -> R] : turn[x][f] = FillOne(x, f)
      BY Zenon
    <2> QED BY <2>2, <2>3 DEF StepsOn
  <1> HIDE DEF turn, rank
  <1>6. ASSUME NEW x \in D, NEW f \in [D -> R], NEW g \in [D -> R],
               \A y \in D : rank[y] < rank[x] => f[y] = g[y]
        PROVE  FillOne(x, f) = FillOne(x, g)
    <2>1. ASSUME NEW y \in LaterIn(x, D) PROVE f[y] = g[y]
      <3>1. PICK j \in 1..Len(Names) : y = Names[j] /\ y \in D /\ \E i \in 1..j - 1 : Names[i] = x
        BY NamesAreOnce DEF LaterIn
      <3>2. PICK i \in 1..j - 1 : Names[i] = x
        BY <3>1
      <3>3. i \in 1..Len(Names) /\ i < j
        BY NamesAreOnce
      <3>4. place[x] = i /\ place[y] = j
        BY <1>3, <3>1, <3>2, <3>3, NamesAreOnce
      <3>5. rank[y] < rank[x]
        <4>1. rank[y] = Len(Names) - j /\ rank[x] = Len(Names) - i
          BY <1>4, <3>1, <3>4
        <4> QED BY <3>3, <4>1, NamesAreOnce
      <3> QED BY <1>6, <3>1, <3>5
    <2>2. [n \in LaterIn(x, D) |-> f[n]] = [n \in LaterIn(x, D) |-> g[n]]
      BY <2>1
    <2> QED BY <2>2, Zenon DEF Filled
  <1>7. DependsBelow(turn, rank, D, R)
    <2> HIDE DEF D, R, FillOne
    <2> QED BY <1>5, <1>6 DEF DependsBelow
  <1>8. PICK v \in [D -> R] : \A x \in D : v[x] = turn[x][v]
    <2> HIDE DEF D, R
    <2>1. Len(Names) \in Nat
      BY NamesAreOnce
    <2>2. Solvable(turn, D, R)
      BY <1>1, <1>4, <1>5, <1>7, <2>1, Recursion
    <2> QED BY <2>2 DEF Solvable
  <1>9. \A x \in D : v[x] = Filled(v, given, x)
    <2> HIDE DEF D, R
    <2> QED BY <1>5, <1>8
  <1>10. IsFull(v, given)
    <2>1. v = [x \in D |-> Filled(v, given, x)]
      <3> HIDE DEF D, R
      <3> QED BY <1>8, <1>9
    <2> QED BY <2>1, Zenon DEF IsFull
  <1>11. PICK u : u = Full(given)
    OBVIOUS
  <1>12. IsFull(u, given)
    BY <1>10, <1>11, Zenon DEF Full
  <1>13. DOMAIN u = D /\ u = [x \in D |-> u[x]] /\ \A x \in D : u[x] = Filled(u, given, x)
    <2>1. u = [x \in D |-> Filled(u, given, x)]
      BY <1>12, Zenon DEF IsFull
    <2> HIDE DEF D
    <2> QED BY <2>1
  <1> DEFINE Same == {m \in Nat : \A x \in D : rank[x] = m => u[x] = v[x]}
  <1>14. ASSUME NEW m \in Nat, \A k \in Nat : k < m => k \in Same
         PROVE  m \in Same
    <2> SUFFICES ASSUME NEW x \in D, rank[x] = m PROVE u[x] = v[x]
      OBVIOUS
    <2>1. ASSUME NEW y \in LaterIn(x, D) PROVE u[y] = v[y]
      <3>1. PICK j \in 1..Len(Names) : y = Names[j] /\ y \in D /\ \E i \in 1..j - 1 : Names[i] = x
        BY NamesAreOnce DEF LaterIn
      <3>2. PICK i \in 1..j - 1 : Names[i] = x
        BY <3>1
      <3>3. i \in 1..Len(Names) /\ i < j
        BY NamesAreOnce
      <3>4. place[x] = i /\ place[y] = j
        BY <1>3, <3>1, <3>2, <3>3, NamesAreOnce
      <3>5. rank[y] < rank[x] /\ rank[y] \in Nat
        <4>1. rank[y] = Len(Names) - j /\ rank[x] = Len(Names) - i
          BY <1>4, <3>1, <3>4
        <4> QED BY <3>3, <4>1, NamesAreOnce
      <3>6. rank[y] \in Same
        <4> HIDE DEF Same
        <4> QED BY <1>14, <3>5
      <3> QED BY <3>1, <3>6
    <2>2. [n \in LaterIn(x, D) |-> u[n]] = [n \in LaterIn(x, D) |-> v[n]]
      BY <2>1
    <2>3. Filled(u, given, x) = Filled(v, given, x)
      BY <2>2, Zenon DEF Filled
    <2> QED BY <1>9, <1>13, <2>3
  <1>15. Nat \subseteq Same
    <2> HIDE DEF Same
    <2> QED BY <1>14, BelowInduction
  <1>16. ASSUME NEW x \in D PROVE u[x] = v[x]
    <2>1. rank[x] \in Nat
      <3> HIDE DEF D
      <3>1. rank[x] \in 0..Len(Names)
        BY <1>4
      <3> QED BY <3>1
    <2> QED BY <1>15, <2>1
  <1>17. u \in [D -> R]
    <2> HIDE DEF D, R
    <2>1. \A x \in D : u[x] \in R
      BY <1>8, <1>16
    <2> QED BY <1>13, <2>1
  <1> QED BY <1>11, <1>12, <1>17

(***************************************************************************)
(* The passes.                                                             *)
(***************************************************************************)
WholeCall == WholeGiven(texts) /\ base \in WholeTexts(DOMAIN texts)

(* The passes still to come make of the text what there is to be in the
   end. *)
OnTheWay(text, names, before, full) ==
    /\ text \in WholeTexts(DOMAIN full)
    /\ Substituted(text, [n \in names |-> full[n]]) = Substituted(before, full)

EmplaceTypes ==
    /\ base \in Seq(Letters)
    /\ DOMAIN texts \subseteq ToSet(Names)
    /\ texts \in [DOMAIN texts -> Seq(Letters)]
    /\ emplacing \in {"uncalled", "running", "returned"}

EmplaceInv ==
    /\ EmplaceTypes
    /\ emplacing = "uncalled" => base = <<>>
    /\ emplacing = "running" =>
           parameters = InOrder(DOMAIN texts) /\ passed \in 0..Len(parameters)
    /\ emplacing = "running" /\ WholeCall =>
           OnTheWay(text_param_value, Behind(parameters, passed), base, Full(texts))
    /\ emplacing = "returned" /\ WholeCall =>
           text_param_value = Substituted(base, Full(texts))

LEMMA InitEmplaceInv == EmplaceInit => EmplaceInv
  <1> SUFFICES ASSUME EmplaceInit PROVE EmplaceInv
    OBVIOUS
  <1>1. base = <<>> /\ texts = <<>> /\ emplacing = "uncalled"
    BY DEF EmplaceInit
  <1>2. <<>> \in Seq(Letters) /\ DOMAIN <<>> = {} /\ <<>> \in [{} -> Seq(Letters)]
    OBVIOUS
  <1>3. EmplaceTypes
    BY <1>1, <1>2 DEF EmplaceTypes
  <1> QED BY <1>1, <1>3 DEF EmplaceInv

LEMMA FullPuts ==
    ASSUME NEW given, WholeGiven(given)
    PROVE  /\ Puts(Full(given)) /\ DOMAIN Full(given) = DOMAIN given
           /\ [n \in DOMAIN given |-> Full(given)[n]] = Full(given)
  <1> DEFINE f == Full(given)
             N == DOMAIN given
  <1>1. f \in [N -> WholeTexts(N)]
    BY FullExists
  <1>2. N \subseteq ToSet(Names) /\ WholeTexts(N) \subseteq Seq(Letters)
    BY WholeClosed DEF WholeGiven
  <1> HIDE DEF f, N
  <1>3. DOMAIN f = N /\ f \in [N -> Seq(Letters)] /\ [n \in N |-> f[n]] = f
    BY <1>1, <1>2
  <1> QED BY <1>2, <1>3 DEF Puts, f, N

LEMMA CallOnTheWay ==
    ASSUME NEW given, WholeGiven(given), NEW b \in WholeTexts(DOMAIN given)
    PROVE  OnTheWay(b, Behind(InOrder(DOMAIN given), 0), b, Full(given))
  <1> DEFINE N == DOMAIN given
  <1>1. N \subseteq ToSet(Names)
    BY DEF WholeGiven
  <1>2. OrderedFrom(InOrder(N), 1, N)
    BY <1>1, NamesInOrder
  <1>3. Behind(InOrder(N), 0) = FromAt(1, N)
    BY <1>2 DEF OrderedFrom
  <1>4. FromAt(1, N) = N
    <2>1. ASSUME NEW n \in N PROVE \E j \in 1..Len(Names) : Names[j] = n
      BY <1>1, NamesAreOnce DEF ToSet
    <2> HIDE DEF N
    <2> QED BY <2>1 DEF FromAt
  <1> QED BY <1>3, <1>4, FullPuts, Zenon DEF OnTheWay

LEMMA SeqOfMore ==
    ASSUME NEW S, NEW T, S \subseteq T
    PROVE  Seq(S) \subseteq Seq(T)
  OBVIOUS

LEMMA RunEmplaceInv ==
    ASSUME NEW b, NEW given, NEW names, Run(b, given, names), names \subseteq ToSet(Names),
           b \in Seq(STRING), given \in [names -> Seq(STRING)]
    PROVE  EmplaceInv'
  <1>1. /\ base' = b /\ text_param_value' = b /\ parameters' = InOrder(names) /\ texts' = given
        /\ passed' = 0 /\ emplacing' = "running" /\ DOMAIN given = names
    BY DEF Run
  <1>2. b \in Seq(Letters) /\ given \in [names -> Seq(Letters)]
    <2>1. STRING \subseteq Letters
      BY DEF Letters
    <2>2. PICK S : S = STRING
      OBVIOUS
    <2>3. Seq(S) \subseteq Seq(Letters)
      BY <2>1, <2>2, SeqOfMore
    <2>4. Seq(STRING) \subseteq Seq(Letters)
      BY <2>2, <2>3, Zenon
    <2> QED BY <2>4
  <1>3. EmplaceTypes'
    BY <1>1, <1>2 DEF EmplaceTypes
  <1>4. parameters' = InOrder(DOMAIN texts') /\ passed' \in 0..Len(parameters')
    <2>1. OrderedFrom(InOrder(names), 1, names)
      BY NamesInOrder
    <2>2. Len(InOrder(names)) \in Nat
      BY <2>1 DEF OrderedFrom
    <2> QED BY <1>1, <2>2
  <1>5. ASSUME WholeCall'
        PROVE  OnTheWay(text_param_value', Behind(parameters', passed'), base', Full(texts'))
    <2>1. WholeGiven(given) /\ b \in WholeTexts(DOMAIN given)
      BY <1>1, <1>5 DEF WholeCall
    <2>2. OnTheWay(b, Behind(InOrder(DOMAIN given), 0), b, Full(given))
      BY <2>1, CallOnTheWay
    <2> QED BY <1>1, <2>2
  <1> QED BY <1>1, <1>3, <1>4, <1>5 DEF EmplaceInv

LEMMA CallEmplaceInv ==
    ASSUME CallEmplace \/ CallI18nVector \/ CallI18nMap
    PROVE  EmplaceInv'
  <1>1. Bases \subseteq Seq(STRING) /\ ParamTexts \subseteq Seq(STRING)
    BY EmplaceAssumption
  <1>2. \A names : [names -> ParamTexts] \subseteq [names -> Seq(STRING)]
    BY <1>1
  <1>3. CASE CallEmplace
    <2>1. PICK b \in Bases, names \in SUBSET ToSet(Names) :
              \E given \in [names -> ParamTexts] : Run(b, given, names)
      BY <1>3 DEF CallEmplace
    <2>2. PICK given \in [names -> ParamTexts] : Run(b, given, names)
      BY <2>1
    <2> QED BY <1>1, <1>2, <2>2, RunEmplaceInv
  <1>4. CASE CallI18nVector
    <2>1. PICK b \in Bases, n \in 0..Len(Numbers) :
              \E i18n_data \in [ToSet(SubSeq(Numbers, 1, n)) -> ParamTexts] :
                  Run(b, i18n_data, ToSet(SubSeq(Numbers, 1, n)))
      BY <1>4 DEF CallI18nVector
    <2> DEFINE names == ToSet(SubSeq(Numbers, 1, n))
    <2>2. PICK i18n_data \in [names -> ParamTexts] : Run(b, i18n_data, names)
      BY <2>1
    <2>3. names \subseteq ToSet(Names)
      <3>1. IsPrefix(Numbers, Names)
        BY EmplaceAssumption
      <3>2. /\ Len(Numbers) <= Len(Names) /\ Len(Numbers) \in Nat
            /\ \A i \in 1..Len(Numbers) : Numbers[i] = Names[i]
        BY <3>1, NamesAreOnce DEF IsPrefix
      <3>3. ASSUME NEW i \in 1..n
            PROVE  SubSeq(Numbers, 1, n)[i] = Numbers[i] /\ i \in 1..Len(Numbers) /\ i \in 1..Len(Names)
        BY <3>2, NamesAreOnce
      <3>4. DOMAIN SubSeq(Numbers, 1, n) = 1..n
        BY <3>2
      <3> QED BY <3>2, <3>3, <3>4, NamesAreOnce DEF ToSet
    <2> HIDE DEF names
    <2> QED BY <1>1, <1>2, <2>2, <2>3, RunEmplaceInv
  <1>5. CASE CallI18nMap
    <2>1. PICK b \in Bases, names \in SUBSET (ToSet(Names) \ {Id}) :
              \E i18n_data \in [names -> ParamTexts] : Run(b, i18n_data, names)
      BY <1>5 DEF CallI18nMap
    <2>2. PICK i18n_data \in [names -> ParamTexts] : Run(b, i18n_data, names)
      BY <2>1
    <2> QED BY <1>1, <1>2, <2>2, RunEmplaceInv
  <1> QED BY <1>3, <1>4, <1>5

LEMMA WithoutBaseInv ==
    ASSUME EmplaceInv, CallWithoutBase
    PROVE  EmplaceInv'
  <1>1. /\ emplacing = "uncalled" /\ emplacing' = "returned" /\ text_param_value' = <<>>
        /\ base' = base /\ texts' = texts
    BY DEF CallWithoutBase
  <1>2. base = <<>> /\ EmplaceTypes'
    BY <1>1 DEF EmplaceInv, EmplaceTypes
  <1>3. ASSUME WholeCall PROVE Substituted(base, Full(texts)) = <<>>
    <2>1. Puts(Full(texts))
      BY <1>3, FullPuts DEF WholeCall
    <2> QED BY <1>2, <2>1, SubNothing
  <1>4. ASSUME WholeCall' PROVE text_param_value' = Substituted(base', Full(texts'))
    <2>1. WholeCall
      BY <1>1, <1>4 DEF WholeCall
    <2> QED BY <1>1, <1>3, <2>1
  <1> QED BY <1>1, <1>2, <1>4 DEF EmplaceInv

(* A pass is one of those that were still to come. *)
LEMMA PassOnTheWay ==
    ASSUME NEW given, WholeGiven(given), NEW b, NEW text,
           NEW ps, ps = InOrder(DOMAIN given), NEW k \in 0..Len(ps) - 1,
           OnTheWay(text, Behind(ps, k), b, Full(given))
    PROVE  /\ ps[k + 1] \in DOMAIN given
           /\ OnTheWay(regex_replace(text, ps[k + 1], given[ps[k + 1]]),
                       Behind(ps, k + 1), b, Full(given))
  <1> DEFINE N == DOMAIN given
             full == Full(given)
  <1>1. N \subseteq ToSet(Names)
    BY DEF WholeGiven
  <1>2. OrderedFrom(ps, 1, N)
    BY <1>1, NamesInOrder
  <1>3. full \in [N -> WholeTexts(N)] /\ DOMAIN full = N
    BY FullExists
  <1>4. ps \in Seq(N) /\ Len(ps) \in Nat /\ k + 1 \in 1..Len(ps)
    <2>1. ps \in Seq(N)
      BY <1>2 DEF OrderedFrom
    <2>2. Len(ps) \in Nat
      BY <2>1
    <2> QED BY <2>1, <2>2
  <1>5. PICK name \in N : name = ps[k + 1]
    BY <1>4
  <1>6. Behind(ps, k + 1) = LaterIn(name, N)
    BY <1>2, <1>4, <1>5 DEF OrderedFrom
  <1>7. Behind(ps, k) = LaterIn(name, N) \cup {name}
    <2>1. \A j \in k + 1..Len(ps) : j = k + 1 \/ j \in (k + 1) + 1..Len(ps)
      BY <1>4
    <2>2. k + 1 \in k + 1..Len(ps) /\ \A j \in (k + 1) + 1..Len(ps) : j \in k + 1..Len(ps)
      BY <1>4
    <2>3. Behind(ps, k) = Behind(ps, k + 1) \cup {name}
      BY <1>5, <2>1, <2>2 DEF Behind
    <2> QED BY <1>6, <2>3
  <1>8. PICK f : f = Formatted(given[name], name)
    OBVIOUS
  <1>9. f \in WholeTexts(N)
    <2>1. given[name] \in WholeTexts(N)
      BY DEF WholeGiven
    <2> QED BY <1>1, <1>8, <2>1, FormWhole
  <1>10. PICK put : put = [n \in LaterIn(name, N) |-> full[n]]
    OBVIOUS
  <1>11. PICK both : both = [n \in LaterIn(name, N) \cup {name} |-> full[n]]
    OBVIOUS
  <1>12. PICK one : one = [n \in {name} |-> f]
    OBVIOUS
  <1>13. LaterIn(name, N) \subseteq N /\ LaterIn(name, N) \cup {name} \subseteq N
         /\ name \notin LaterIn(name, N)
    BY LaterType, NotLater
  <1> HIDE DEF N, full
  <1>14. /\ Puts(put) /\ DOMAIN put = LaterIn(name, N)
         /\ \A n \in DOMAIN put : put[n] = full[n] /\ put[n] \in WholeTexts(N)
    BY <1>1, <1>3, <1>10, <1>13, PutsWhole
  <1>15. /\ Puts(both) /\ DOMAIN both = LaterIn(name, N) \cup {name}
         /\ \A n \in DOMAIN both : both[n] = full[n]
    BY <1>1, <1>3, <1>11, <1>13, PutsWhole
  <1>16. full[name] = Substituted(f, put)
    <2>1. IsFull(full, given)
      BY FullExists DEF full
    <2>2. full[name] = Filled(full, given, name)
      <3>1. full = [x \in N |-> Filled(full, given, x)]
        BY <2>1, Zenon DEF IsFull, N
      <3> QED BY <3>1
    <2> QED BY <1>8, <1>10, <2>2, Zenon DEF Filled, N
  <1>17. text \in WholeTexts(N) /\ Substituted(text, both) = Substituted(b, full)
    BY <1>3, <1>7, <1>11, Zenon DEF OnTheWay, full
  <1>18. /\ both[name] = Substituted(f, put)
         /\ \A n \in DOMAIN put : both[n] = put[n]
         /\ DOMAIN both = DOMAIN put \cup {name} /\ name \notin DOMAIN put
    BY <1>13, <1>14, <1>15, <1>16
  <1>19. Substituted(Substituted(text, one), put) = Substituted(text, both)
    <2>1. Fuses(N, name, f, one, put, both)
      BY <1>1, <1>9, <1>12, <1>14, <1>15, <1>18, Zenon DEF Fuses
    <2> QED BY <1>17, <2>1, SubFused
  <1>20. Substituted(text, one) \in WholeTexts(N)
    <2>1. f \in Seq(Letters)
      BY <1>9, WholeClosed
    <2>2. Puts(one) /\ \A n \in DOMAIN one : one[n] \in WholeTexts(N)
      <3>1. DOMAIN one = {name} /\ one[name] = f /\ one \in [{name} -> Seq(Letters)]
        BY <1>12, <2>1
      <3> QED BY <1>1, <1>9, <3>1 DEF Puts
    <2> QED BY <1>1, <1>17, <2>2, SubWhole
  <1>21. regex_replace(text, name, given[name]) = Substituted(text, one)
    BY <1>8, <1>12, Zenon DEF regex_replace
  <1>22. OnTheWay(Substituted(text, one), LaterIn(name, N), b, full)
    BY <1>3, <1>10, <1>17, <1>19, <1>20, Zenon DEF OnTheWay
  <1> QED BY <1>5, <1>6, <1>21, <1>22, Zenon DEF N, full

LEMMA OneEmplaceInv ==
    ASSUME EmplaceInv, EmplaceOne
    PROVE  EmplaceInv'
  <1>1. /\ emplacing = "running" /\ passed < Len(parameters) /\ passed' = passed + 1
        /\ text_param_value'
               = regex_replace(text_param_value, parameters[passed + 1], texts[parameters[passed + 1]])
        /\ base' = base /\ parameters' = parameters /\ texts' = texts /\ emplacing' = emplacing
    BY Zenon DEF EmplaceOne
  <1>2. EmplaceTypes' /\ parameters = InOrder(DOMAIN texts) /\ passed \in 0..Len(parameters)
    BY <1>1 DEF EmplaceInv, EmplaceTypes
  <1>3. Len(parameters) \in Nat
    <2>1. OrderedFrom(InOrder(DOMAIN texts), 1, DOMAIN texts)
      BY NamesInOrder DEF EmplaceInv, EmplaceTypes
    <2> QED BY <1>2, <2>1 DEF OrderedFrom
  <1>4. passed \in 0..Len(parameters) - 1 /\ passed + 1 \in 0..Len(parameters)
    BY <1>1, <1>2, <1>3
  <1>5. ASSUME WholeCall'
        PROVE  OnTheWay(text_param_value', Behind(parameters', passed'), base', Full(texts'))
    <2>1. WholeCall
      BY <1>1, <1>5 DEF WholeCall
    <2>2. OnTheWay(text_param_value, Behind(parameters, passed), base, Full(texts))
      BY <1>1, <2>1 DEF EmplaceInv
    <2>3. WholeGiven(texts)
      BY <2>1 DEF WholeCall
    <2>4. OnTheWay(regex_replace(text_param_value, parameters[passed + 1],
                                 texts[parameters[passed + 1]]),
                   Behind(parameters, passed + 1), base, Full(texts))
      BY <1>2, <1>4, <2>2, <2>3, PassOnTheWay
    <2> QED BY <1>1, <2>4, Zenon
  <1> QED BY <1>1, <1>2, <1>4, <1>5 DEF EmplaceInv

LEMMA AllEmplacedInv ==
    ASSUME EmplaceInv, AllEmplaced
    PROVE  EmplaceInv'
  <1>1. /\ emplacing = "running" /\ passed = Len(parameters) /\ emplacing' = "returned"
        /\ base' = base /\ texts' = texts /\ text_param_value' = text_param_value
    BY DEF AllEmplaced
  <1>2. EmplaceTypes' /\ passed \in 0..Len(parameters)
    BY <1>1 DEF EmplaceInv, EmplaceTypes
  <1>3. ASSUME WholeCall PROVE text_param_value = Substituted(base, Full(texts))
    <2> DEFINE full == Full(texts)
               rest == [n \in Behind(parameters, passed) |-> full[n]]
    <2>1. OnTheWay(text_param_value, Behind(parameters, passed), base, full)
      BY <1>1, <1>3 DEF EmplaceInv
    <2>2. Behind(parameters, passed) = {}
      <3>1. passed + 1..Len(parameters) = {}
        BY <1>1, <1>2
      <3> QED BY <3>1 DEF Behind
    <2>3. full \in [DOMAIN texts -> WholeTexts(DOMAIN texts)] /\ DOMAIN full = DOMAIN texts
      BY <1>3, FullExists DEF WholeCall
    <2>4. DOMAIN texts \subseteq ToSet(Names)
      BY <1>3 DEF WholeCall, WholeGiven
    <2>5. text_param_value \in WholeTexts(DOMAIN texts)
      BY <2>1, <2>3 DEF OnTheWay
    <2>6. Puts(rest) /\ DOMAIN rest = {}
      BY <2>2 DEF Puts
    <2>7. Substituted(text_param_value, rest) = text_param_value
      BY <2>4, <2>5, <2>6, SubOfNone
    <2> QED BY <2>1, <2>7, Zenon DEF OnTheWay
  <1>4. ASSUME WholeCall' PROVE text_param_value' = Substituted(base', Full(texts'))
    <2>1. WholeCall
      BY <1>1, <1>4 DEF WholeCall
    <2> QED BY <1>1, <1>3, <2>1
  <1> QED BY <1>1, <1>2, <1>4 DEF EmplaceInv

LEMMA NextEmplaceInv == EmplaceInv /\ [EmplaceNext]_emplaceVars => EmplaceInv'
  <1> SUFFICES ASSUME EmplaceInv, [EmplaceNext]_emplaceVars PROVE EmplaceInv'
    OBVIOUS
  <1>1. CASE CallEmplace \/ CallI18nVector \/ CallI18nMap
    BY <1>1, CallEmplaceInv
  <1>2. CASE CallWithoutBase
    BY <1>2, WithoutBaseInv
  <1>3. CASE EmplaceOne
    BY <1>3, OneEmplaceInv
  <1>4. CASE AllEmplaced
    BY <1>4, AllEmplacedInv
  <1>5. CASE UNCHANGED emplaceVars
    BY <1>5 DEF EmplaceInv, EmplaceTypes, WholeCall, emplaceVars
  <1> QED BY <1>1, <1>2, <1>3, <1>4, <1>5 DEF EmplaceNext

(* Whatever base, names and texts are, unless a brace stands outside a     *)
(* place: in the end every place of the base holds the text of its         *)
(* parameter, with the places of later parameters in it filled and those   *)
(* of earlier ones and its own left.                                       *)
THEOREM TextsInTheirPlaces == EmplaceSpec => []PlacesTakeTheirTexts
  <1>1. EmplaceInv => PlacesTakeTheirTexts
    <2> DEFINE names == DOMAIN texts
               Later(name) ==
                   {Names[j] : j \in {j \in DOMAIN Names : /\ Names[j] \in names
                                                         /\ \E i \in 1..j - 1 : Names[i] = name}}
               none == [n \in names |-> <<>>]
               Whole(s) == {Open, Close} \cap ToSet(Substituted(s, none)) = {}
               full == CHOOSE f : f = [name \in names |->
                           Substituted(Formatted(texts[name], name), [n \in Later(name) |-> f[n]])]
    <2> SUFFICES ASSUME EmplaceInv, emplacing = "returned",
                        Whole(base), \A name \in names : Whole(texts[name])
                 PROVE  text_param_value = Substituted(base, full)
      BY Zenon DEF PlacesTakeTheirTexts
    <2>1. full = Full(texts)
      BY Zenon DEF Full, IsFull, Filled, LaterIn
    <2>2. /\ base \in Seq(Letters) /\ names \subseteq ToSet(Names)
          /\ texts \in [names -> Seq(Letters)]
      BY DEF EmplaceInv, EmplaceTypes
    <2>3. ASSUME NEW s \in Seq(Letters), Whole(s) PROVE s \in WholeTexts(names)
      <3>1. PICK p : p = none
        OBVIOUS
      <3>2. p = [n \in names |-> <<>>] /\ {Open, Close} \cap ToSet(Substituted(s, p)) = {}
        BY <2>3, <3>1
      <3> QED BY <2>2, <3>2, WholeFound
    <2> HIDE DEF full, Whole
    <2>4. base \in WholeTexts(names) /\ \A n \in names : texts[n] \in WholeTexts(names)
      BY <2>2, <2>3
    <2>5. WholeCall
      BY <2>2, <2>4 DEF WholeCall, WholeGiven
    <2> QED BY <2>1, <2>5, Zenon DEF EmplaceInv
  <1> QED BY <1>1, InitEmplaceInv, NextEmplaceInv, PTL DEF EmplaceSpec
=============================================================================
