------------------------------ MODULE Replacing ------------------------------
(***************************************************************************)
(* replace_all of toolbox.cpp: every occurrence of a string in a subject   *)
(* is replaced, one after the other, in the subject itself; the next one   *)
(* is looked for behind what was inserted.                                 *)
(***************************************************************************)
EXTENDS Integers, Sequences

CONSTANTS
    Char,           \* characters
    Subject,        \* texts to replace in
    Search, Replace,\* texts to look for, and to put in their place
    MaxSubject      \* bound: how far an endless replacement is followed

ASSUME ReplacingAssumption ==
    /\ Subject \subseteq Seq(Char) /\ Search \subseteq Seq(Char) /\ Replace \subseteq Seq(Char)
    /\ MaxSubject \in Nat

VARIABLES
    original,   \* the subject as it was given
    subject, search, replace,
    replacedTo, \* pos: characters of subject that are done
    replacing   \* replace_all runs

replacingVars == <<original, subject, search, replace, replacedTo, replacing>>

(* s.find(sub, from) may be p only if sub starts behind p characters. *)
StartsBehind(s, sub, p) == p + Len(sub) <= Len(s) /\ SubSeq(s, p + 1, p + Len(sub)) = sub

Found(s, sub, from) == {p \in from..Len(s) : StartsBehind(s, sub, p)}

ReplacingInit ==
    /\ original = <<>> /\ subject = <<>> /\ search = <<>> /\ replace = <<>>
    /\ replacedTo = 0 /\ replacing = FALSE

CallReplaceAll == \E given \in Subject, s \in Search, r \in Replace :
    /\ ~replacing /\ original = <<>>
    /\ original' = given /\ subject' = given /\ search' = s /\ replace' = r
    /\ replacedTo' = 0 /\ replacing' = TRUE

(* subject.replace and pos += replace.length(), at the first one found. *)
Replaced(s, sub, p, r) == SubSeq(s, 1, p) \o r \o SubSeq(s, p + Len(sub) + 1, Len(s))

(* Mutant: the search goes on inside what was inserted. *)
GoOnInside(p) == p

GoOnBehind(p) == p + Len(replace)

ReplaceOne == \E p \in Found(subject, search, replacedTo) :
    /\ replacing
    /\ \A q \in Found(subject, search, replacedTo) : p <= q
    /\ search = <<>> => Len(subject) < MaxSubject
    /\ subject' = Replaced(subject, search, p, replace)
    /\ replacedTo' = GoOnBehind(p)
    /\ UNCHANGED <<original, search, replace, replacing>>

(* npos ends the loop. *)
AllReplaced ==
    /\ replacing
    /\ Found(subject, search, replacedTo) = {}
    /\ replacing' = FALSE
    /\ UNCHANGED <<original, subject, search, replace, replacedTo>>

ReplacingNext == CallReplaceAll \/ ReplaceOne \/ AllReplaced

ReplacingSpec == ReplacingInit /\ [][ReplacingNext]_replacingVars

(***************************************************************************)
(* Properties.                                                             *)
(***************************************************************************)
(* The text with every occurrence, from the left and without overlaps,     *)
(* replaced, read off the text itself.                                     *)
RestReplaced(s, sub, r) ==
    LET rest[p \in 0..Len(s)] ==
            IF p = Len(s) THEN <<>>
            ELSE IF StartsBehind(s, sub, p) THEN r \o rest[p + Len(sub)]
            ELSE <<s[p + 1]>> \o rest[p + 1]
    IN  rest

AllReplacedIn(s, sub, r) == RestReplaced(s, sub, r)[0]

(* What is done is never touched again, and what is left is a rest of the  *)
(* original: in the end each occurrence of the original was replaced once, *)
(* though the replacement may hold the search string itself.  Only with an *)
(* empty search string does the function never return.                     *)
EachReplacedOnce ==
    IF search = <<>> THEN replacing \/ original = <<>>
    ELSE /\ SubSeq(subject, 1, replacedTo)
               \o AllReplacedIn(SubSeq(subject, replacedTo + 1, Len(subject)), search, replace)
            = AllReplacedIn(original, search, replace)
         /\ ~replacing => subject = AllReplacedIn(original, search, replace)

(* Every turn leaves less to search through, whatever it inserts: the loop *)
(* ends.  An empty search string is found at once, and takes nothing away. *)
LessToSearch ==
    [][(replacing /\ replacing' /\ search # <<>>) =>
            Len(subject') - replacedTo' < Len(subject) - replacedTo]_replacingVars

=============================================================================
