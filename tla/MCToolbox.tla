----------------------------- MODULE MCToolbox -----------------------------
(***************************************************************************)
(* The parts that share nothing with any other, side by side: a behaviour  *)
(* picks one of them and leaves the others where they start.               *)
(***************************************************************************)
EXTENDS Calendar, Amount, SplitQuoted, Replacing, Emplace, Base64, CurlLogger,
        MCSigning

VARIABLE part

MCTimes ==
    {[hour |-> 0, min |-> 0, sec |-> 0], [hour |-> 11, min |-> 30, sec |-> 1],
     [hour |-> 23, min |-> 59, sec |-> 59]}

MCAmounts == (-12..25) \cup {-1001, -1000, -999, -120, 99, 100, 101, 999, 1000}

MCFraction == BoundedSeq({0, 1, 5}, 3)

MCQuote == "\""
MCEscape == "\\"

MCEntries == BoundedSeq({"a", ",", MCQuote, MCEscape}, 2)
MCLists == UNION {[1..n -> MCEntries] : n \in 1..2}
MCKeys == {<<"a">>, <<"A">>, <<"b">>}
MCValues ==
    BoundedSeq({"a", ",", "=", MCQuote, MCEscape}, 1) \cup {<<MCEscape, MCQuote>>, <<"=", ",">>}
MCLower == [c \in {"A"} |-> "a"]

MCSubjects == BoundedSeq({"a", "b"}, 4)
MCSearch == BoundedSeq({"a", "b"}, 2)

MCNumbers == <<"1", "2">>
MCNames == <<"1", "2", "id">>
MCBases ==
    LET one == <<"{", "1", "}">>
        two == <<"{", "2", "}">>
        id == <<"{", "id", "}">>
    IN  {one, id, one \o two, two \o one, one \o <<"x">> \o one, <<"{">> \o one \o <<"}">>}
MCParamTexts ==
    {<<>>, <<"x">>, <<"2">>, <<"{", "1", "}">>, <<"{", "2", "}", "{", "id", "}", "{", "1", "}">>,
     <<"$", "&">>, <<"$", "x", "$">>, <<"$", "$", "&">>}

Parts == {"calendar", "amount", "split", "replacing", "emplace", "base64", "logger", "signing"}

MCInit ==
    /\ part \in Parts
    /\ CalendarInit /\ AmountInit /\ SplitInit /\ ReplacingInit /\ EmplaceInit
    /\ Base64Init /\ LoggerInit /\ Init
    /\ part # "signing" => key = rsa

Rest(moving) ==
    /\ UNCHANGED part
    /\ moving # "calendar" => UNCHANGED calendarVars
    /\ moving # "amount" => UNCHANGED amountVars
    /\ moving # "split" => UNCHANGED splitVars
    /\ moving # "replacing" => UNCHANGED replacingVars
    /\ moving # "emplace" => UNCHANGED emplaceVars
    /\ moving # "base64" => UNCHANGED base64Vars
    /\ moving # "logger" => UNCHANGED loggerVars
    /\ moving # "signing" => UNCHANGED vars

MCNext ==
    \/ part = "calendar" /\ CalendarNext /\ Rest(part)
    \/ part = "amount" /\ AmountNext /\ Rest(part)
    \/ part = "split" /\ SplitNext /\ Rest(part)
    \/ part = "replacing" /\ ReplacingNext /\ Rest(part)
    \/ part = "emplace" /\ EmplaceNext /\ Rest(part)
    \/ part = "base64" /\ Base64Next /\ Rest(part)
    \/ part = "logger" /\ LoggerNext /\ Rest(part)
    \/ part = "signing" /\ Next /\ Rest(part)

MCSpec ==
    MCInit /\ [][MCNext]_<<part, calendarVars, amountVars, splitVars, replacingVars, emplaceVars,
                           base64Vars, loggerVars, vars>>
=============================================================================
