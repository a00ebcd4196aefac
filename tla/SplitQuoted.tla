---------------------------- MODULE SplitQuoted ----------------------------
(***************************************************************************)
(* split_quoted of toolbox.cpp: a list with delimiters, quotes and escapes *)
(* is cut into its entries, one character after the other; and what the    *)
(* other text functions make of its result.                                *)
(*                                                                         *)
(* The list is one a peer made of entries: quoted in part or as a whole,   *)
(* with every quote and escape character escaped, or, where nothing is     *)
(* special, as it is.  It may be a list of parameters, key="value".        *)
(***************************************************************************)
EXTENDS Strings

CONSTANTS
    Plain,        \* characters without a meaning for split_quoted
    Delim, Quote, Escape,
    DoubleQuote,  \* the character '"'
    Assign,       \* what separates a key from its value
    Lists,        \* the lists of entries peers send
    Keys, Values, \* the keys and values of parameters
    MaxParams     \* bound: parameters of one list

ASSUME SplitAssumption ==
    /\ Delim # Quote /\ Delim # Escape /\ Quote # Escape
    /\ {Delim, Quote, Escape, DoubleQuote} \cap Plain = {}
    /\ Assign \in Plain
    /\ Keys \subseteq Seq(Plain \ {Assign})
    /\ Values \subseteq Seq(Plain \cup {Delim, Quote, Escape})
    /\ Lists \subseteq Seq(Seq(Plain \cup {Delim, Quote, Escape}))
    /\ MaxParams \in Nat

VARIABLES
    params,        \* the parameters the peer wrote, pairs, if that is what it wrote
    entries,       \* the entries it wrote
    str,           \* how it wrote it
    pos,           \* the characters read
    insideQuoted, escaped,
    oss,           \* the entry under way
    result,        \* the entries so far
    returned

splitVars == <<params, entries, str, pos, insideQuoted, escaped, oss, result, returned>>

(***************************************************************************)
(* The peer.                                                               *)
(***************************************************************************)
Escaped(text) ==
    FlattenSeq([i \in DOMAIN text |->
        IF text[i] \in {Quote, Escape} THEN <<Escape, text[i]>> ELSE <<text[i]>>])

(* The first n characters as they are, the rest between quotes. *)
QuotedAfter(entry, n) ==
    IF n > Len(entry) THEN entry
    ELSE SubSeq(entry, 1, n) \o <<Quote>> \o Escaped(SubSeq(entry, n + 1, Len(entry))) \o <<Quote>>

Written(list, after) ==
    FlattenSeq([i \in DOMAIN list |->
        (IF i = 1 THEN <<>> ELSE <<Delim>>) \o QuotedAfter(list[i], after[i])])

SplitInit ==
    /\ params = <<>> /\ entries = <<>> /\ str = <<>> /\ pos = 0
    /\ insideQuoted = FALSE /\ escaped = FALSE /\ oss = <<>> /\ result = <<>>
    /\ returned = TRUE

CallWith(ps, list, after) ==
    /\ entries = <<>>
    /\ params' = ps
    /\ entries' = list
    /\ str' = Written(list, after)
    /\ returned' = FALSE
    /\ UNCHANGED <<pos, insideQuoted, escaped, oss, result>>

Call == \E list \in Lists : \E after \in [DOMAIN list -> {0, 1, 3}] :
    /\ \A i \in DOMAIN list : \A j \in DOMAIN list[i] : j <= after[i] => list[i][j] \in Plain
    /\ CallWith(<<>>, list, after)

CallWithParameters == \E n \in 1..MaxParams : \E ps \in [1..n -> Keys \X Values] :
    CallWith(ps, [i \in 1..n |-> ps[i][1] \o <<Assign>> \o ps[i][2]],
             [i \in 1..n |-> Len(ps[i][1]) + 1])

(***************************************************************************)
(* One turn of the loop, by the branch it takes.                           *)
(***************************************************************************)
Next1 == str[pos + 1]

Turn ==
    /\ ~returned /\ pos < Len(str)
    /\ pos' = pos + 1
    /\ UNCHANGED <<params, entries, str, returned>>

(* Mutant: quotes lose their meaning by an escape, escapes do not. *)
OnlyQuotes(c) == IF c = DoubleQuote THEN <<c>> ELSE <<Escape, c>>

(* What an escape and c stand for. *)
Unescaped(c) ==
    IF c \in {DoubleQuote, Escape} \/ ~insideQuoted THEN <<c>> ELSE <<Escape, c>>

EscapedCharacter ==
    /\ Turn
    /\ escaped
    /\ oss' = oss \o Unescaped(Next1)
    /\ escaped' = FALSE
    /\ UNCHANGED <<insideQuoted, result>>

EscapeCharacter ==
    /\ Turn
    /\ ~escaped /\ Next1 = Escape
    /\ escaped' = TRUE
    /\ UNCHANGED <<insideQuoted, oss, result>>

DelimiterKept ==
    /\ Turn
    /\ ~escaped /\ Next1 = Delim /\ insideQuoted
    /\ oss' = Append(oss, Delim)
    /\ UNCHANGED <<insideQuoted, escaped, result>>

(* Mutant: the stream is not emptied. *)
EntryEndsUncleared ==
    /\ Turn
    /\ ~escaped /\ Next1 = Delim /\ ~insideQuoted
    /\ result' = Append(result, oss)
    /\ UNCHANGED <<insideQuoted, escaped, oss>>

EntryEnds ==
    /\ Turn
    /\ ~escaped /\ Next1 = Delim /\ ~insideQuoted
    /\ result' = Append(result, oss)
    /\ oss' = <<>>
    /\ UNCHANGED <<insideQuoted, escaped>>

QuoteCharacter ==
    /\ Turn
    /\ ~escaped /\ Next1 = Quote
    /\ insideQuoted' = ~insideQuoted
    /\ UNCHANGED <<escaped, oss, result>>

OtherCharacter ==
    /\ Turn
    /\ ~escaped /\ Next1 \notin {Escape, Delim, Quote}
    /\ oss' = Append(oss, Next1)
    /\ UNCHANGED <<insideQuoted, escaped, result>>

(* After the loop: an escape at the very end is kept, an empty last entry
   is dropped. *)
Return ==
    /\ ~returned /\ pos = Len(str)
    /\ LET last == IF escaped THEN Append(oss, Escape) ELSE oss
       IN  result' = IF last # <<>> THEN Append(result, last) ELSE result
    /\ returned' = TRUE
    /\ UNCHANGED <<params, entries, str, pos, insideQuoted, escaped, oss>>

SplitNext ==
    \/ Call \/ CallWithParameters
    \/ EscapedCharacter \/ EscapeCharacter \/ DelimiterKept \/ EntryEnds
    \/ QuoteCharacter \/ OtherCharacter \/ Return

SplitSpec == SplitInit /\ [][SplitNext]_splitVars

(***************************************************************************)
(* Properties.                                                             *)
(***************************************************************************)
(* Delimiters, quotes and escapes inside entries survive: at every moment  *)
(* the entries found are the first of the peer's list, and what is under   *)
(* way is the beginning of the next.                                       *)
EntriesFound ==
    ~returned =>
        /\ IsPrefix(result, entries)
        /\ Len(result) < Len(entries) => IsPrefix(oss, entries[Len(result) + 1])

(* At the end the whole list is there, but for an empty last entry.        *)
ListReadBack ==
    returned =>
        result = IF entries # <<>> /\ Last(entries) = <<>> THEN Front(entries) ELSE entries

(* A list of parameters, split and put into a map, gives every key its     *)
(* value, whatever the value is made of: delimiters, quotes, escapes and   *)
(* further assignment characters.  No key is repeated.                     *)
KeysDiffer == \A i, j \in DOMAIN params : params[i][1] = params[j][1] => i = j

ParametersReadBack ==
    (returned /\ params # <<>> /\ KeysDiffer) =>
        LET map == to_map(result, Assign, FALSE, FALSE, Quote, Escape)[1]
        IN  /\ DOMAIN map = {params[i][1] : i \in DOMAIN params}
            /\ \A i \in DOMAIN params : map[params[i][1]] = params[i][2]

(* The comment in to_map (toolbox.cpp:322) says of a key that is repeated: *)
(* "results in error if duplicated".                                       *)
DuplicateKeyIsError ==
    (returned /\ params # <<>> /\ ~KeysDiffer) =>
        to_map(result, Assign, FALSE, FALSE, Quote, Escape) = <<>>

(* With the plain split and to_map's own unquoting instead, values with a  *)
(* delimiter make it throw, and the others come without their escapes but  *)
(* still between quotes.                                                   *)
UnquotedKeepsTheQuotes ==
    (returned /\ params # <<>>) =>
        LET map == to_map(split(str, Delim), Assign, FALSE, TRUE, Quote, Escape)
        IN  IF \E i \in DOMAIN params : Contains(params[i][2], Delim) THEN map = <<>>
            ELSE map # <<>> /\ \A k \in DOMAIN map[1] : \E i \in DOMAIN params :
                    params[i][1] = k /\ map[1][k] = <<Quote>> \o params[i][2] \o <<Quote>>

(* splitStrQuoted counts quotes without looking at them: it takes a        *)
(* parameter written with quotes apart, its escapes left in, and throws on *)
(* a key without a value.                                                  *)
QuotedPairSplit ==
    (returned /\ params # <<>>) => \A i \in DOMAIN params :
        LET key == params[i][1] \o <<Assign>>
        IN  /\ splitStrQuoted(QuotedAfter(key \o params[i][2], Len(key)), Assign) =
                    <<<<params[i][1], Escaped(params[i][2])>>>>
            /\ splitStrQuoted(key, Assign) = <<>>

(* A list joined with ", " can be split and trimmed again, unless an entry *)
(* holds the delimiter or begins or ends with a space, or the list is one  *)
(* empty entry; joining nothing throws, for a size below zero.             *)
JoinedListSplits ==
    LET joined == stl_to_string(result, <<Delim>> \o <<" ">>)
        again == split(joined[1], Delim)
    IN  IF result = <<>> THEN joined = <<>>
        ELSE (/\ joined[1] # <<>>
              /\ \A i \in DOMAIN result :
                    ~Contains(result[i], Delim) /\ trim(result[i]) = result[i]) =>
                [i \in DOMAIN again |-> trim(again[i])] = result

(* A lookup that ignores case finds the same in an unordered container,    *)
(* which compares only keys of one hash, as in a search from the front.    *)
LookupsAgree ==
    \A val \in Keys :
        LET keys == [i \in DOMAIN params |-> params[i][1]]
            hashed == {i \in DOMAIN keys :
                          /\ case_insensitive_hasher(keys[i]) = case_insensitive_hasher(val)
                          /\ case_insensitive_comparer_2(keys[i], val)}
            found == find_case_insensitive(keys, val)
        IN  IF hashed = {} THEN found = Len(keys) + 1 ELSE found = Min(hashed)
=============================================================================
