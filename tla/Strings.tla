------------------------------ MODULE Strings ------------------------------
(***************************************************************************)
(* The text functions of toolbox.cpp and toolbox.tcc that take no loop of  *)
(* their own to understand.  A string is a sequence of characters; a       *)
(* function that may throw returns <<>> for the exception and <<x>> for x. *)
(***************************************************************************)
EXTENDS Integers, Sequences, SequencesExt

CONSTANTS
    Space,      \* the characters std::isspace accepts
    Lower       \* ::tolower, a function on the characters it changes

ASSUME StringsAssumption ==
    /\ " " \in Space
    /\ \A c \in DOMAIN Lower : Lower[c] \notin DOMAIN Lower

(* std::string::find_first_of with one character; 0 is npos. *)
FirstOf(s, c) == SelectInSeq(s, LAMBDA x : x = c)

(***************************************************************************)
(* Cutting.                                                                *)
(***************************************************************************)
(* Mutant: at the last delimiter. *)
CutAtLast(s, delim) ==
    LET at == SelectLastInSeq(s, LAMBDA x : x = delim)
    IN  IF at = 0 THEN <<s, <<>>>> ELSE <<SubSeq(s, 1, at - 1), SubSeq(s, at + 1, Len(s))>>

cut(s, delim) ==
    LET at == FirstOf(s, delim)
    IN  IF at = 0 THEN <<s, <<>>>> ELSE <<SubSeq(s, 1, at - 1), SubSeq(s, at + 1, Len(s))>>

(* substr(pos, n) throws beyond the end, and takes the rest when n, an
   unsigned number, is beyond it: also when it comes from a subtraction
   below zero. *)
Substr(s, pos, n) ==
    IF pos > Len(s) THEN <<>>
    ELSE <<SubSeq(s, pos + 1, IF n < 0 \/ pos + n > Len(s) THEN Len(s) ELSE pos + n)>>

(* Mutant: the closing quote is left on. *)
OpeningQuoteOnly(s, delim) ==
    LET at == FirstOf(s, delim)
        value == Substr(s, at + 1, Len(s) - at - 1)
    IN  IF at = 0 THEN <<<<s, <<>>>>>>
        ELSE IF value = <<>> THEN <<>> ELSE <<<<SubSeq(s, 1, at - 1), value[1]>>>>

(* With quoted = true; with false it is cut. *)
splitStrQuoted(s, delim) ==
    LET at == FirstOf(s, delim)
        value == Substr(s, at + 1, Len(s) - (at - 1) - 3)
    IN  IF at = 0 THEN <<<<s, <<>>>>>>
        ELSE IF value = <<>> THEN <<>> ELSE <<<<SubSeq(s, 1, at - 1), value[1]>>>>

(* std::getline up to the end of the stream: what follows the last
   delimiter is a token only if there is something. *)
split(s, delim) ==
    LET read[i \in 0..Len(s)] ==
            IF i = 0 THEN [tokens |-> <<>>, token |-> <<>>]
            ELSE LET r == read[i - 1]
                 IN  IF s[i] = delim THEN [tokens |-> Append(r.tokens, r.token), token |-> <<>>]
                     ELSE [tokens |-> r.tokens, token |-> Append(r.token, s[i])]
        last == read[Len(s)]
    IN  IF last.token = <<>> THEN last.tokens ELSE Append(last.tokens, last.token)

trim(s) ==
    LET front == SelectInSeq(s, LAMBDA c : c \notin Space)
        back == SelectLastInSeq(s, LAMBDA c : c \notin Space)
    IN  IF front = 0 THEN <<>> ELSE SubSeq(s, front, back)

(***************************************************************************)
(* Joining.  The last delimiter is cut off by a subtraction of sizes that  *)
(* an empty list takes below zero: resize throws.                          *)
(***************************************************************************)
(* Mutant: the last delimiter is left on. *)
DelimiterLeftOn(elements, delim) ==
    <<FlattenSeq([i \in DOMAIN elements |-> elements[i] \o delim])>>

stl_to_string(elements, delim) ==
    LET joined == FlattenSeq([i \in DOMAIN elements |-> elements[i] \o delim])
        size == Len(joined) - Len(delim)
    IN  IF size < 0 THEN <<>> ELSE <<SubSeq(joined, 1, size)>>

(***************************************************************************)
(* Unquoting.  The iterators of unquote are copied before they are moved   *)
(* (begin()++, end()--): the loop goes over the quotes as well.            *)
(***************************************************************************)
unquote(s, delim, escape) ==
    LET rest[i \in 1..Len(s) + 1] ==
            IF i > Len(s) THEN <<>>
            ELSE IF s[i] = escape /\ i < Len(s) THEN <<s[i + 1]>> \o rest[i + 2]
            ELSE <<s[i]>> \o rest[i + 1]
    IN  IF Len(s) < 2 \/ s[1] # delim \/ s[Len(s)] # delim THEN <<>> ELSE <<rest[1]>>

(***************************************************************************)
(* Entries of the form key, delimiter, value.  insert leaves a key alone   *)
(* that is there already; one bad quote and the whole call throws.         *)
(***************************************************************************)
FirstOfKey(pairs, k) == SelectInSeq(pairs, LAMBDA p : p[1] = k)

to_map(v, delim, key_quoted, value_quoted, quote, escape) ==
    LET Bare(s, quoted) == IF quoted THEN unquote(s, quote, escape) ELSE <<s>>
        part == [i \in DOMAIN v |-> LET p == cut(v[i], delim)
                                   IN  <<Bare(p[1], key_quoted), Bare(p[2], value_quoted)>>]
    IN  IF \E i \in DOMAIN v : <<>> \in {part[i][1], part[i][2]} THEN <<>>
        ELSE LET pairs == [i \in DOMAIN v |-> <<part[i][1][1], part[i][2][1]>>]
             IN  <<[k \in {p[1] : p \in ToSet(pairs)} |-> pairs[FirstOfKey(pairs, k)][2]]>>

(***************************************************************************)
(* Ignoring case: the parts an unordered container is made with, and the   *)
(* search through any container.                                           *)
(***************************************************************************)
tolower(s) == [i \in DOMAIN s |-> IF s[i] \in DOMAIN Lower THEN Lower[s[i]] ELSE s[i]]

(* std::hash, external, is taken to tell all strings apart. *)
(* Mutant: the key is hashed as it is written. *)
HashAsWritten(key) == key

case_insensitive_hasher(key) == tolower(key)

case_insensitive_comparer_2(x, y) == tolower(x) = tolower(y)

(* The position found, or the one behind the last. *)
find_case_insensitive(keys, val) ==
    LET at == SelectInSeq(keys, LAMBDA key : tolower(key) = tolower(val))
    IN  IF at = 0 THEN Len(keys) + 1 ELSE at
=============================================================================
