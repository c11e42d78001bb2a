------------------------------- MODULE Memory -------------------------------
(***************************************************************************)
(* The block operations of lib.c on a memory mem, a function from addresses *)
(* to bytes: memset, memset_word, memset_dword, memcpy and memmove, with    *)
(* the order in which the assembly stores bytes and double words.  A loop   *)
(* is a recursive operator.                                                 *)
(***************************************************************************)
EXTENDS Integers, Sequences

LOCAL Lesser(a, b) == IF a < b THEN a ELSE b

(* movb up, movsb with std, movsl: k moves from src to dest.                *)
RECURSIVE BytesUp(_, _, _, _)
BytesUp(mem, dest, src, k) ==
    IF k = 0 THEN mem
    ELSE BytesUp([mem EXCEPT ![dest] = mem[src]], dest + 1, src + 1, k - 1)

RECURSIVE BytesDown(_, _, _, _)
BytesDown(mem, dest, src, k) ==
    IF k = 0 THEN mem
    ELSE BytesDown([mem EXCEPT ![dest] = mem[src]], dest - 1, src - 1, k - 1)

RECURSIVE DwordsUp(_, _, _, _)
DwordsUp(mem, dest, src, k) ==
    IF k = 0 THEN mem
    ELSE DwordsUp([a \in DOMAIN mem |-> IF a \in dest .. dest + 3 THEN mem[src + a - dest]
                                                                  ELSE mem[a]],
                  dest + 4, src + 4, k - 1)

(* rep stosb, stosw or stosl: k times the bytes of unit.                    *)
RECURSIVE Stores(_, _, _, _)
Stores(mem, dest, unit, k) ==
    LET w == Len(unit)
    IN  IF k = 0 THEN mem
        ELSE Stores([a \in DOMAIN mem |-> IF a \in dest .. dest + w - 1 THEN unit[a - dest + 1]
                                                                        ELSE mem[a]],
                    dest + w, unit, k - 1)

(* The bytes of a word of w bytes, least significant first.                 *)
BytesOf(c, w) == [i \in 1 .. w |-> (c \div (256 ^ (i - 1))) % 256]

(* Single bytes until the destination is aligned or nothing is left, then   *)
(* double words, then the last bytes.                                       *)
Head4(dest, n) == Lesser(n, (4 - (dest % 4)) % 4)

memset(mem, s, c, n) ==
    LET h == Head4(s, n)
        k == (n - h) \div 4
        b == c % 256
        head == Stores(mem, s, <<b>>, h)
        middle == Stores(head, s + h, <<b, b, b, b>>, k)
    IN  Stores(middle, s + h + (4 * k), <<b>>, (n - h) % 4)

memset_word(mem, s, c, n) == Stores(mem, s, BytesOf(c, 2), n)
memset_dword(mem, s, c, n) == Stores(mem, s, BytesOf(c, 4), n)

memcpy(mem, dest, src, n) ==
    LET h == Head4(dest, n)
        k == (n - h) \div 4
        head == BytesUp(mem, dest, src, h)
        middle == DwordsUp(head, dest + h, src + h, k)
    IN  BytesUp(middle, dest + h + (4 * k), src + h + (4 * k), (n - h) % 4)

AlwaysUp(mem, dest, src, n) == BytesUp(mem, dest, src, n)
memmove(mem, dest, src, n) ==
    IF src >= dest THEN BytesUp(mem, dest, src, n)
    ELSE BytesDown(mem, dest + n - 1, src + n - 1, n)
=============================================================================
