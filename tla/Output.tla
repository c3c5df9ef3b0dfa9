------------------------------- MODULE Output -------------------------------
(***************************************************************************)
(* output.go: the head and the tail of what a command printed, with a      *)
(* separator in between.  append writes over the array of the output       *)
(* itself, which the tail still points into.                               *)
(*                                                                         *)
(* A text is a sequence of bytes.  The separator names the total in        *)
(* decimal; here it is one fixed sequence.                                 *)
(***************************************************************************)
EXTENDS Sequences, Integers

CONSTANTS
    Byte,               \* what a text is made of
    Separator,          \* the line between head and tail
    DefaultMaxBytes, DefaultHeadBytes, DefaultTailBytes

ASSUME OutputAssumption ==
    /\ Separator \in Seq(Byte)
    /\ DefaultMaxBytes \in Nat /\ DefaultHeadBytes \in Nat /\ DefaultTailBytes \in Nat

Smaller(a, b) == IF a <= b THEN a ELSE b

Budget(limit) == limit - Len(Separator)

HeadSize(limit) ==
    IF limit = DefaultMaxBytes THEN Smaller(DefaultHeadBytes, Budget(limit))
    ELSE (3 * Budget(limit)) \div 4

\* Mutant: the tail gets its share whatever the head took.
TailSizeUnbounded(limit) ==
    IF limit = DefaultMaxBytes THEN DefaultTailBytes ELSE Budget(limit) - HeadSize(limit)

TailSize(limit) ==
    IF limit = DefaultMaxBytes
    THEN Smaller(DefaultTailBytes, Budget(limit) - HeadSize(limit))
    ELSE Budget(limit) - HeadSize(limit)

\* The array of data after append(data[:head], Separator...): there is room,
\* so it is written in place.
Overwritten(data, head) ==
    [i \in 1..Len(data) |->
        IF head < i /\ i <= head + Len(Separator) THEN Separator[i - head] ELSE data[i]]

\* The first head + Len(Separator) bytes of the array, and then the tail, as
\* it is read from the same array.
Combined(data, head, tail) ==
    LET array == Overwritten(data, head)
        kept  == head + Len(Separator) IN
    [i \in 1..(kept + tail) |->
        IF i <= kept THEN array[i] ELSE array[Len(data) - tail + (i - kept)]]

truncateString(data, limit) ==
    IF Len(data) <= limit THEN data
    ELSE IF limit <= 0 THEN <<>>
    ELSE IF limit <= Len(Separator) THEN [i \in 1..limit |-> Separator[i]]
    ELSE Combined(data, HeadSize(limit), TailSize(limit))

Truncated(data, limit) == Len(data) > limit

\* What a truncated text must be: the head of the data, the whole separator
\* and the end of the data, within the limit.
HeadAndTailOf(text, data, limit) ==
    \E head, tail \in 0..limit :
        /\ head + Len(Separator) + tail <= limit
        /\ Len(text) = head + Len(Separator) + tail
        /\ \A i \in 1..head : text[i] = data[i]
        /\ \A i \in 1..Len(Separator) : text[head + i] = Separator[i]
        /\ \A i \in 1..tail :
             text[head + Len(Separator) + i] = data[Len(data) - tail + i]

\* A text that fits is kept; a longer one is cut to its head and tail, or to
\* the front of the separator when there is no room for more.
CutRight(text, data, limit) ==
    IF Len(data) <= limit THEN text = data
    ELSE IF limit <= Len(Separator)
         THEN /\ Len(text) = (IF limit <= 0 THEN 0 ELSE limit)
              /\ \A i \in 1..Len(text) : text[i] = Separator[i]
         ELSE HeadAndTailOf(text, data, limit)
=============================================================================
