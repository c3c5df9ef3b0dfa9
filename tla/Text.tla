-------------------------------- MODULE Text --------------------------------
(***************************************************************************)
(* The few operations of Go's strings package that the parsers, the        *)
(* validator and the reconstruction are built from.  A string is a         *)
(* sequence of characters, a character a string of length one.             *)
(***************************************************************************)
EXTENDS Loops, Sequences, Integers, FiniteSets

Char(s, i) == SubSeq(s, i, i)
From(s, i) == SubSeq(s, i, Len(s))
CharsOf(s) == {Char(s, i) : i \in 1..Len(s)}
HasPrefix(s, p) == Len(p) <= Len(s) /\ SubSeq(s, 1, Len(p)) = p
HasSuffix(s, p) == Len(p) <= Len(s) /\ SubSeq(s, Len(s) - Len(p) + 1, Len(s)) = p

Least(S) == CHOOSE i \in S : \A j \in S : i <= j

\* strings.Index, counted from 1; 0 when the character does not occur.
IndexOf(s, c) ==
    IF c \in CharsOf(s)
    THEN Least({i \in 1..Len(s) : Char(s, i) = c})
    ELSE 0

\* strings.ReplaceAll and strings.Join, from the last character, or text, on.
ReplaceAll(s, c, by) ==
    LET n == Len(s)
        last[k \in 0..n] ==
            IF k = 0 THEN ""
            ELSE LET d == Char(s, n - k + 1) IN (IF d = c THEN by ELSE d) \o last[k - 1]
    IN last[n]

Join(ss, sep) ==
    LET n == Len(ss)
        last[k \in 0..n] ==
            IF k = 0 THEN ""
            ELSE ss[n - k + 1] \o (IF k = 1 THEN "" ELSE sep \o last[k - 1])
    IN last[n]

UpperCase == "ABCDEFGHIJKLMNOPQRSTUVWXYZ"
LowerCase == "abcdefghijklmnopqrstuvwxyz"
Digits    == "0123456789"

Lower(c) == LET i == IndexOf(UpperCase, c) IN IF i = 0 THEN c ELSE Char(LowerCase, i)

EqualFold(a, b) ==
    Len(a) = Len(b) /\ \A i \in 1..Len(a) : Lower(Char(a, i)) = Lower(Char(b, i))

\* TLA+ strings have no backtick: a caret stands for it.
Backtick == "^"

Letters == CharsOf(LowerCase) \cup CharsOf(UpperCase)
Alnum   == Letters \cup CharsOf(Digits)
=============================================================================
