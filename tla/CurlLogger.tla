----------------------------- MODULE CurlLogger -----------------------------
(***************************************************************************)
(* Log4cplus_logger::log (src/restclient/logger.cpp), which libcurl calls  *)
(* with each piece of what it says, sends and receives.  Newlines at the   *)
(* end of a piece are left out, by a loop that reads data[size - 1] before *)
(* it looks at size: with nothing left it reads the byte before the data,  *)
(* whatever that is.                                                       *)
(***************************************************************************)
EXTENDS Integers, Sequences, FiniteSets, SequencesExt

CONSTANTS
    Byte, Newline,
    Infotype,       \* curl_infotype
    Printed,        \* the cases of the switch
    MaxPiece,       \* bound: bytes of a piece
    MaxPieces,      \* bound: pieces logged
    SizeModulus     \* 2^w of size_t

ASSUME CurlLoggerAssumption ==
    /\ Newline \in Byte
    /\ Printed \subseteq Infotype
    /\ {MaxPiece, MaxPieces, SizeModulus} \subseteq Nat
    /\ MaxPiece < SizeModulus

VARIABLES
    pieces,     \* history: the calls, [type, data]
    before, after,  \* the bytes around the data
    size,
    logging,    \* log runs
    lines       \* what the log has

loggerVars == <<pieces, before, after, size, logging, lines>>

LoggerInit ==
    /\ pieces = <<>> /\ lines = <<>>
    /\ before = Newline /\ after = Newline /\ size = 0 /\ logging = FALSE

CurlCalls == \E type \in Infotype, data \in BoundedSeq(Byte, MaxPiece) :
    /\ ~logging /\ Len(pieces) < MaxPieces
    /\ pieces' = Append(pieces, [type |-> type, data |-> data])
    /\ before' \in Byte /\ after' \in Byte
    /\ size' = Len(data)
    /\ logging' = TRUE
    /\ UNCHANGED lines

Piece == Last(pieces)

(* data[k - 1], with k at most SizeModulus. *)
ByteAt(k) ==
    IF k = 0 THEN before ELSE IF k > Len(Piece.data) THEN after ELSE Piece.data[k]

(* Mutant: only the byte is looked at. *)
NewlineOnly == ByteAt(size) = Newline

EndsInNewline == ByteAt(size) = Newline /\ size > 0

TrimNewline ==
    /\ logging /\ Piece.type \in Printed
    /\ EndsInNewline
    /\ size' = (size - 1) % SizeModulus
    /\ UNCHANGED <<pieces, before, after, logging, lines>>

WriteLine ==
    /\ logging /\ Piece.type \in Printed
    /\ ~EndsInNewline
    /\ lines' = Append(lines, [k \in 1..size |-> ByteAt(k)])
    /\ logging' = FALSE
    /\ UNCHANGED <<pieces, before, after, size>>

(* default: TLS records and anything new are not for the log. *)
PassOver ==
    /\ logging /\ Piece.type \notin Printed
    /\ logging' = FALSE
    /\ UNCHANGED <<pieces, before, after, size, lines>>

LoggerNext == CurlCalls \/ TrimNewline \/ WriteLine \/ PassOver

LoggerSpec == LoggerInit /\ [][LoggerNext]_loggerVars

(***************************************************************************)
(* Properties.                                                             *)
(***************************************************************************)
(* How many pieces log is done with, and which of the first n it prints.   *)
Done == IF logging THEN Len(pieces) - 1 ELSE Len(pieces)

PrintedUpTo(n) == {k \in 1..n : pieces[k].type \in Printed}

(* line is data without the newlines at its end. *)
IsTrimmed(line, data) == \E n \in 0..Len(data) :
    /\ line = SubSeq(data, 1, n)
    /\ \A k \in (n + 1)..Len(data) : data[k] = Newline
    /\ n > 0 => data[n] # Newline

(* The log holds a line for every piece it prints, in order: the piece     *)
(* without the newlines at its end, be it empty or nothing but newlines    *)
(* and whatever lies before it in memory.                                  *)
LinesAreThePieces ==
    /\ Len(lines) = Cardinality(PrintedUpTo(Done))
    /\ \A k \in PrintedUpTo(Done) :
           IsTrimmed(lines[Cardinality(PrintedUpTo(k))], pieces[k].data)
=============================================================================
