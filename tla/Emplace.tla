------------------------------- MODULE Emplace -------------------------------
(***************************************************************************)
(* emplace and i18n_to_string of toolbox.cpp: texts take the places of     *)
(* their names, {name}, in a base text.  Each parameter is one pass of     *)
(* std::regex_replace over all there is by then, what earlier passes put   *)
(* in included; in what it puts in "$&" stands for what was found and "$$" *)
(* for "$".  Names are free of characters with a meaning in a regex, texts *)
(* of the other forms a "$" may begin.                                     *)
(*                                                                         *)
(* emplace takes base and parameters as they are, i18n_to_string finds the  *)
(* base among its data: in front of a vector, whose other texts are named  *)
(* by their numbers, or under "id" in a map.                               *)
(***************************************************************************)
EXTENDS Integers, Sequences, SequencesExt

CONSTANTS
    Open, Close,    \* "{" and "}"
    Dollar, And,    \* "$" and "&"
    Id,             \* the name "id"
    Names,          \* the names of parameters in the order of std::map, each
                    \* a character; Id is one of them
    Numbers,        \* those that number the texts of a vector
    Bases,          \* base texts
    ParamTexts      \* texts to emplace

ASSUME EmplaceAssumption ==
    /\ IsInjective(<<Open, Close, Dollar, And>>)
    /\ {Open, Close, Dollar, And} \cap ToSet(Names) = {}
    /\ Names \in Seq(STRING) /\ IsInjective(Names)
    /\ Id \in ToSet(Names) /\ IsPrefix(Numbers, Names) /\ Id \notin ToSet(Numbers)
    /\ Bases \subseteq Seq(STRING) /\ ParamTexts \subseteq Seq(STRING)

VARIABLES
    base,
    parameters, \* the names to emplace, in order
    texts,      \* the text of each
    text_param_value,
    passed,     \* parameters done
    emplacing   \* "uncalled", "running" or "returned"

emplaceVars == <<base, parameters, texts, text_param_value, passed, emplacing>>

Place(name) == <<Open, name, Close>>

(* What regex_replace puts in for a match of name's place. *)
Formatted(t, name) ==
    LET out[k \in 1..Len(t) + 1] ==
            IF k > Len(t) THEN <<>>
            ELSE IF t[k] = Dollar /\ k < Len(t) /\ t[k + 1] = And THEN Place(name) \o out[k + 2]
            ELSE IF t[k] = Dollar /\ k < Len(t) /\ t[k + 1] = Dollar THEN <<Dollar>> \o out[k + 2]
            ELSE <<t[k]>> \o out[k + 1]
    IN  out[1]

(* Every place of a name in put's domain that stands in s, with what put
   has for it instead. *)
Substituted(s, put) ==
    LET out[k \in 1..Len(s) + 1] ==
            IF k > Len(s) THEN <<>>
            ELSE IF k + 2 <= Len(s) /\ \E name \in DOMAIN put : SubSeq(s, k, k + 2) = Place(name)
                 THEN put[s[k + 1]] \o out[k + 3]
            ELSE <<s[k]>> \o out[k + 1]
    IN  out[1]

regex_replace(s, name, t) == Substituted(s, [n \in {name} |-> Formatted(t, name)])

EmplaceInit ==
    /\ base = <<>> /\ parameters = <<>> /\ texts = <<>> /\ text_param_value = <<>>
    /\ passed = 0 /\ emplacing = "uncalled"

(* Mutant: the last parameter is left out. *)
AllButLast(names) ==
    FlattenSeq([i \in DOMAIN Names |->
        IF Names[i] \in names /\ \E j \in i + 1..Len(Names) : Names[j] \in names
        THEN <<Names[i]>> ELSE <<>>])

InOrder(names) ==
    FlattenSeq([i \in DOMAIN Names |-> IF Names[i] \in names THEN <<Names[i]>> ELSE <<>>])

Run(b, given, names) ==
    /\ emplacing = "uncalled" /\ emplacing' = "running"
    /\ base' = b /\ text_param_value' = b
    /\ parameters' = InOrder(names) /\ texts' = given
    /\ passed' = 0

CallEmplace == \E b \in Bases, names \in SUBSET ToSet(Names) :
    \E params \in [names -> ParamTexts] : Run(b, params, names)

CallI18nVector == \E b \in Bases, n \in 0..Len(Numbers) :
    LET names == ToSet(SubSeq(Numbers, 1, n))
    IN  \E i18n_data \in [names -> ParamTexts] : Run(b, i18n_data, names)

CallI18nMap == \E b \in Bases, names \in SUBSET (ToSet(Names) \ {Id}) :
    \E i18n_data \in [names -> ParamTexts] : Run(b, i18n_data, names)

(* An empty vector, or a map without "id". *)
CallWithoutBase ==
    /\ emplacing = "uncalled" /\ emplacing' = "returned"
    /\ text_param_value' = <<>>
    /\ UNCHANGED <<base, parameters, texts, passed>>

EmplaceOne ==
    /\ emplacing = "running"
    /\ passed < Len(parameters)
    /\ passed' = passed + 1
    /\ LET name == parameters[passed + 1]
       IN  text_param_value' = regex_replace(text_param_value, name, texts[name])
    /\ UNCHANGED <<base, parameters, texts, emplacing>>

AllEmplaced ==
    /\ emplacing = "running"
    /\ passed = Len(parameters)
    /\ emplacing' = "returned"
    /\ UNCHANGED <<base, parameters, texts, text_param_value, passed>>

EmplaceNext ==
    \/ CallEmplace \/ CallI18nVector \/ CallI18nMap \/ CallWithoutBase
    \/ EmplaceOne \/ AllEmplaced

EmplaceSpec == EmplaceInit /\ [][EmplaceNext]_emplaceVars

(***************************************************************************)
(* Properties.                                                             *)
(***************************************************************************)
(* Every place of the base holds the text of its parameter in the end, and *)
(* in that text the places of later parameters are filled as well, those   *)
(* of earlier ones and its own are not.  It is so unless a brace stands    *)
(* outside a place: what is put in may then complete a place nobody wrote. *)
PlacesTakeTheirTexts ==
    LET names == DOMAIN texts
        Later(name) ==
            {Names[j] : j \in {j \in DOMAIN Names : /\ Names[j] \in names
                                                  /\ \E i \in 1..j - 1 : Names[i] = name}}
        Whole(s) == {Open, Close} \cap ToSet(Substituted(s, [n \in names |-> <<>>])) = {}
        full[name \in names] ==
            Substituted(Formatted(texts[name], name), [n \in Later(name) |-> full[n]])
    IN  (emplacing = "returned" /\ Whole(base) /\ \A name \in names : Whole(texts[name])) =>
            text_param_value = Substituted(base, full)
=============================================================================
