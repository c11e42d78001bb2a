------------------------------ MODULE Strings ------------------------------
(***************************************************************************)
(* The string functions of lib.c, and the copies of them that programs link *)
(* (ece391support.c).  A string is an array of character codes from index 0 *)
(* with a NUL; the functions that write return the array they wrote to.     *)
(***************************************************************************)
EXTENDS Integers, Sequences

NUL == 0

RECURSIVE LengthFrom(_, _)
LengthFrom(s, len) == IF s[len] = NUL THEN len ELSE LengthFrom(s, len + 1)
strlen(s) == LengthFrom(s, 0)

RECURSIVE CompareFrom(_, _, _, _)
CompareFrom(s1, s2, n, i) ==
    IF i >= n THEN 0
    ELSE IF s1[i] # s2[i] \/ s1[i] = NUL THEN s1[i] - s2[i]
    ELSE CompareFrom(s1, s2, n, i + 1)
ComparesOneMore(s1, s2, n) == CompareFrom(s1, s2, n + 1, 0)
strncmp(s1, s2, n) == CompareFrom(s1, s2, n, 0)

(* ece391_strcmp, and ece391_strncmp, which counts down.                    *)
RECURSIVE ece391_strcmpFrom(_, _, _)
ece391_strcmpFrom(s1, s2, i) ==
    IF s1[i] # s2[i] THEN s1[i] - s2[i]
    ELSE IF s1[i] = NUL THEN 0
    ELSE ece391_strcmpFrom(s1, s2, i + 1)
ece391_strcmp(s1, s2) == ece391_strcmpFrom(s1, s2, 0)

RECURSIVE CountsDown(_, _, _, _)
CountsDown(s1, s2, n, i) ==
    IF s1[i] # s2[i] THEN s1[i] - s2[i]
    ELSE IF s1[i] = NUL \/ n - 1 = 0 THEN 0
    ELSE CountsDown(s1, s2, n - 1, i + 1)
ece391_strncmp(s1, s2, n) == IF n = 0 THEN 0 ELSE CountsDown(s1, s2, n, 0)

RECURSIVE CopyFrom(_, _, _)
CopyFrom(dest, src, i) ==
    IF src[i] = NUL THEN [dest EXCEPT ![i] = NUL]
    ELSE CopyFrom([dest EXCEPT ![i] = src[i]], src, i + 1)
strcpy(dest, src) == CopyFrom(dest, src, 0)

(* The rest of the n bytes is filled with NUL; there is none if the string  *)
(* has n characters.                                                        *)
RECURSIVE FillFrom(_, _, _)
FillFrom(dest, n, i) == IF i >= n THEN dest ELSE FillFrom([dest EXCEPT ![i] = NUL], n, i + 1)

RECURSIVE CopyUpTo(_, _, _, _)
CopyUpTo(dest, src, n, i) ==
    IF src[i] # NUL /\ i < n THEN CopyUpTo([dest EXCEPT ![i] = src[i]], src, n, i + 1)
    ELSE FillFrom(dest, n, i)
strncpy(dest, src, n) == CopyUpTo(dest, src, n, 0)

(* Two ends walk towards each other.                                        *)
RECURSIVE SwapInward(_, _, _)
SwapInward(s, beg, end) ==
    IF beg >= end THEN s
    ELSE SwapInward([s EXCEPT ![beg] = s[end], ![end] = s[beg]], beg + 1, end - 1)
strrev(s) == SwapInward(s, 0, strlen(s) - 1)
ece391_strrev(s) == IF strlen(s) - 1 <= 0 THEN s ELSE SwapInward(s, 0, strlen(s) - 1)

(* Digits are written from the lowest, with a NUL, and reversed; a digit is *)
(* represented by its value plus Zero, the code of '0'.                     *)
Zero == 48
RECURSIVE PutDigits(_, _, _, _)
PutDigits(newval, buf, i, radix) ==
    IF newval = 0 THEN [buf EXCEPT ![i] = NUL]
    ELSE PutDigits(newval \div radix, [buf EXCEPT ![i] = Zero + (newval % radix)], i + 1, radix)

itoa(value, buf, radix) ==
    IF value = 0 THEN [buf EXCEPT ![0] = Zero, ![1] = NUL]
    ELSE strrev(PutDigits(value, buf, 0, radix))
ece391_itoa(value, buf, radix) ==
    IF value = 0 THEN [buf EXCEPT ![0] = Zero, ![1] = NUL]
    ELSE ece391_strrev(PutDigits(value, buf, 0, radix))

-----------------------------------------------------------------------------
(* The characters before the NUL, as a sequence: what a string means.       *)
Text(s) ==
    LET n == CHOOSE k \in DOMAIN s : s[k] = NUL /\ \A j \in DOMAIN s : s[j] = NUL => j >= k
    IN  [i \in 1 .. n |-> s[i - 1]]

(* An array of size n that holds a sequence and a NUL.                      *)
Array(seq, n) == [i \in 0 .. n - 1 |-> IF i < Len(seq) THEN seq[i + 1] ELSE NUL]

(* Sign of the comparison of two sequences, character by character, the     *)
(* shorter first.                                                           *)
Before(a, b) ==
    \E k \in 0 .. Len(b) - 1 :
        /\ k <= Len(a)
        /\ \A i \in 1 .. k : a[i] = b[i]
        /\ k = Len(a) \/ a[k + 1] < b[k + 1]
=============================================================================
