------------------------------- MODULE Amount -------------------------------
(***************************************************************************)
(* Amounts of money in toolbox.cpp: amount_to_string puts a decimal point  *)
(* into a number of minor units, amount_from_string takes one out.         *)
(*                                                                         *)
(* Texts are sequences of character codes: std::to_string, std::stoll and  *)
(* find are external.  An amount is an int64_t: MaxAmount is the largest,  *)
(* and stoll throws beyond it.                                             *)
(***************************************************************************)
EXTENDS Integers, Sequences, SequencesExt

CONSTANTS
    MaxAmount,  \* the largest amount; the smallest is -MaxAmount - 1
    Amounts,    \* amounts in minor units
    Decimals,   \* numbers of decimals
    Fraction    \* digits a peer writes after the point

ASSUME AmountAssumption ==
    /\ MaxAmount \in Nat /\ Amounts \subseteq -MaxAmount - 1..MaxAmount
    /\ Decimals \subseteq Nat /\ Fraction \subseteq Seq(0..9)

VARIABLES
    stage,      \* "start", "written" or "read"
    amount,     \* the amount, or the major units of a peer's text
    d,          \* the number of decimals
    fraction,   \* the digits a peer wrote after the point
    text,       \* the text
    back        \* what amount_from_string made of it, <<>> when it threw

amountVars == <<stage, amount, d, fraction, text, back>>

Point == 46
Minus == 45
Digit(n) == 48 + n
IsDigit(c) == c \in 48..57
Zeros(n) == [i \in 1..n |-> Digit(0)]

(* std::to_string *)
DigitsOf(n) ==
    LET digits[m \in 0..n] ==
            IF m < 10 THEN <<Digit(m)>> ELSE Append(digits[m \div 10], Digit(m % 10))
    IN  digits[n]
to_string(n) == IF n < 0 THEN <<Minus>> \o DigitsOf(-n) ELSE DigitsOf(n)

(* std::stoll: a sign, and digits up to the first other character; it throws
   when there are none, or when they make no int64_t. *)
Value(digits) ==
    LET read[i \in 0..Len(digits)] ==
            IF i = 0 THEN 0 ELSE 10 * read[i - 1] + digits[i] - Digit(0)
    IN  read[Len(digits)]
LeadingDigits(s) ==
    SubSeq(s, 1, CHOOSE k \in 0..Len(s) :
                    /\ \A i \in 1..k : IsDigit(s[i])
                    /\ k = Len(s) \/ ~IsDigit(s[k + 1]))
stoll(s) ==
    LET negative == s # <<>> /\ s[1] = Minus
        digits == LeadingDigits(IF negative THEN Tail(s) ELSE s)
        value == IF negative THEN -Value(digits) ELSE Value(digits)
    IN  IF digits = <<>> \/ value \notin -MaxAmount - 1..MaxAmount THEN <<>> ELSE <<value>>

(***************************************************************************)
(* The toolbox.                                                            *)
(***************************************************************************)
Inserted(s, at, part) == SubSeq(s, 1, at) \o part \o SubSeq(s, at + 1, Len(s))

(* Mutant: append for insert. *)
PaddedRight(s, n) == IF Len(s) < n THEN s \o Zeros(n - Len(s) + 1) ELSE s

Padded(s, n) == IF Len(s) < n THEN Zeros(n - Len(s) + 1) \o s ELSE s

amount_to_string(n, decimals) ==
    LET s == Padded(to_string(n), decimals)
    IN  IF decimals = 0 THEN to_string(n)
        ELSE Inserted(s, Len(s) - decimals, <<Point>>)

(* Mutant: what is cut off the fraction is not looked at. *)
AnyRest(minor, decimals) == TRUE

RestIsZero(minor, decimals) == \A i \in decimals + 1..Len(minor) : minor[i] = Digit(0)

amount_from_string(s, decimals) ==
    LET points == {i \in DOMAIN s : s[i] = Point}
        at == IF points = {} THEN Len(s) + 1 ELSE CHOOSE i \in points : \A j \in points : i <= j
        major == SubSeq(s, 1, at - 1)
        minor == SubSeq(s, at + 1, Len(s))
        filled == IF Len(minor) < decimals THEN minor \o Zeros(decimals - Len(minor)) ELSE minor
    IN  IF RestIsZero(filled, decimals) THEN stoll(major \o SubSeq(filled, 1, decimals))
        ELSE <<>>

(***************************************************************************)
(* An amount is written and read; or a peer writes one, and it is read.    *)
(***************************************************************************)
AmountInit ==
    /\ stage = "start"
    /\ amount = 0 /\ d = 0 /\ fraction = <<>> /\ text = <<>> /\ back = <<>>

Write == \E n \in Amounts, decimals \in Decimals :
    /\ stage = "start" /\ stage' = "written"
    /\ amount' = n /\ d' = decimals
    /\ text' = amount_to_string(n, decimals)
    /\ UNCHANGED <<fraction, back>>

Numerals(f) == [i \in DOMAIN f |-> Digit(f[i])]

PeerWrites == \E n \in Amounts \cap Nat, decimals \in Decimals, f \in Fraction :
    /\ stage = "start" /\ stage' = "written"
    /\ f # <<>>
    /\ amount' = n /\ d' = decimals /\ fraction' = f
    /\ text' = to_string(n) \o <<Point>> \o Numerals(f)
    /\ UNCHANGED back

Read ==
    /\ stage = "written" /\ stage' = "read"
    /\ back' = amount_from_string(text, d)
    /\ UNCHANGED <<amount, d, fraction, text>>

AmountNext == Write \/ PeerWrites \/ Read

AmountSpec == AmountInit /\ [][AmountNext]_amountVars

(***************************************************************************)
(* Properties.                                                             *)
(***************************************************************************)
(* An amount written with any number of decimals is read back as itself;   *)
(* a negative one only if its text, sign included, has as many characters  *)
(* as there are decimals: below that the zeros go before the sign.         *)
AmountReadBack ==
    (stage = "read" /\ fraction = <<>> /\ (amount >= 0 \/ Len(to_string(amount)) >= d)) =>
        back = <<amount>>

TenTo(n) ==
    LET power[k \in 0..n] == IF k = 0 THEN 1 ELSE 10 * power[k - 1]
    IN  power[n]

(* A peer's amount is taken exactly, whatever the number of digits after   *)
(* its point, or refused: no part of a minor unit is dropped, and what is  *)
(* too large for an amount does not wrap.                                  *)
PeerAmountExact ==
    (stage = "read" /\ fraction # <<>>) =>
        LET unit == TenTo(Len(fraction))
            scaled == (amount * unit + Value(Numerals(fraction))) * TenTo(d)
        IN  back = IF scaled % unit = 0 /\ scaled \div unit <= MaxAmount
                   THEN <<scaled \div unit>> ELSE <<>>
=============================================================================
