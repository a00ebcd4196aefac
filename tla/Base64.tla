------------------------------- MODULE Base64 -------------------------------
(***************************************************************************)
(* base64_encode and base64_decode (src/imp/crypto/base64.cpp), and a peer *)
(* between them that may cut the text short.  The coding itself is that of *)
(* OpenSSL's BIO_f_base64 without newlines, external: every three bytes    *)
(* make four characters, a character is the number of its place in the     *)
(* alphabet, and Pad is "=".                                               *)
(*                                                                         *)
(* base64_encode looks at no result of BIO_write and BIO_flush: the memory *)
(* they write to may be exhausted, and what is there by then is returned.  *)
(***************************************************************************)
EXTENDS Integers, Sequences, SequencesExt

CONSTANTS
    Bytes,      \* byte values in the data
    MaxBinary   \* bound: bytes of the data

ASSUME Base64Assumption == Bytes \subseteq 0..255 /\ MaxBinary \in Nat

VARIABLES
    coding,     \* "idle", "encoded" or "decoded"
    binary, encoded, decoded,
    cutShort    \* characters got lost on the way

base64Vars == <<coding, binary, encoded, decoded, cutShort>>

Pad == 64

(* Three bytes or fewer, as four characters. *)
EncodeGroup(g) ==
    LET b(k) == IF k <= Len(g) THEN g[k] ELSE 0
    IN  <<b(1) \div 4,
          (b(1) % 4) * 16 + b(2) \div 16,
          IF Len(g) > 1 THEN (b(2) % 16) * 4 + b(3) \div 64 ELSE Pad,
          IF Len(g) > 2 THEN b(3) % 64 ELSE Pad>>

Group(s, n, k) == SubSeq(s, n * (k - 1) + 1, IF n * k < Len(s) THEN n * k ELSE Len(s))

Groups(bin) == (Len(bin) + 2) \div 3

Encoded(bin) ==
    [j \in 1..4 * Groups(bin) |-> EncodeGroup(Group(bin, 3, (j + 3) \div 4))[((j - 1) % 4) + 1]]

(* Four characters, as three bytes; padding counts as nothing but zeros. *)
DecodeGroup(g) ==
    LET c(k) == IF g[k] = Pad THEN 0 ELSE g[k]
    IN  <<c(1) * 4 + c(2) \div 16, (c(2) % 16) * 16 + c(3) \div 4, (c(3) % 4) * 64 + c(4)>>

(* The bytes that the padding of a text of n whole groups stands for. *)
Padding(text, n) ==
    IF n = 0 THEN 0
    ELSE IF text[4 * n - 1] = Pad THEN 2 ELSE IF text[4 * n] = Pad THEN 1 ELSE 0

(* BIO_read: as many bytes as there is room for; a last group that is not
   whole gives none. *)
BIO_read(text, room) ==
    LET n == Len(text) \div 4
        whole == 3 * n - Padding(text, n)
    IN  [i \in 1..(IF room < whole THEN room ELSE whole) |->
            DecodeGroup(Group(text, 4, (i + 2) \div 3))[((i - 1) % 3) + 1]]

Base64Init ==
    /\ coding = "idle" /\ cutShort = FALSE
    /\ binary = <<>> /\ encoded = <<>> /\ decoded = <<>>

(* The memory takes all of the text or, exhausted, the first groups. *)
base64_encode == \E bin \in BoundedSeq(Bytes, MaxBinary) : \E groups \in 0..Groups(bin) :
    /\ coding = "idle"
    /\ binary' = bin
    /\ encoded' = SubSeq(Encoded(bin), 1, 4 * groups)
    /\ cutShort' = (4 * groups < Len(Encoded(bin)))
    /\ coding' = "encoded"
    /\ UNCHANGED decoded

PeerCuts == \E n \in 1..3 :
    /\ coding = "encoded" /\ n <= Len(encoded)
    /\ encoded' = SubSeq(encoded, 1, Len(encoded) - n)
    /\ cutShort' = TRUE
    /\ UNCHANGED <<coding, binary, decoded>>

(* Mutant: room as if every text ended in padding. *)
RoomWithPadding(text) == (Len(text) \div 4) * 3 - 2

maxlen(text) == (Len(text) \div 4) * 3 + 1

base64_decode ==
    /\ coding = "encoded"
    /\ decoded' = BIO_read(encoded, maxlen(encoded))
    /\ coding' = "decoded"
    /\ UNCHANGED <<binary, encoded, cutShort>>

Base64Next == base64_encode \/ PeerCuts \/ base64_decode

Base64Spec == Base64Init /\ [][Base64Next]_base64Vars

(***************************************************************************)
(* Properties.                                                             *)
(***************************************************************************)
(* What base64_encode made of any bytes, base64_decode gives back: the     *)
(* room it reserves is enough for every padding, and no byte is made up.   *)
DecodeUndoesEncode ==
    (coding = "decoded" /\ ~cutShort) => decoded = binary

(* Of a text that was cut short, or that memory did not suffice for, the   *)
(* bytes of its whole groups come back: a beginning of the data, without   *)
(* any sign that there was more.                                           *)
WholeGroupsComeBack ==
    coding = "decoded" =>
        LET whole == (Len(encoded) \div 4) * 3
        IN  /\ decoded = SubSeq(binary, 1, IF whole < Len(binary) THEN whole ELSE Len(binary))
            /\ cutShort => Len(decoded) < Len(binary)
=============================================================================
