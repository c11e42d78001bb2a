-------------------------------- MODULE Grep --------------------------------
(***************************************************************************)
(* do_one_file of ece391grep.c: a file is read into data, of BUFSIZE + 1    *)
(* bytes that nothing initialises, a chunk at a time; the unfinished line   *)
(* at the end of a chunk is carried to the front of the next one.           *)
(***************************************************************************)
EXTENDS Strings

CONSTANTS
    BUFSIZE   \* the code has 1024

LOCAL NL == 10
LOCAL Lower(a, b) == IF a < b THEN a ELSE b

(* ece391_read: what is left of the file, at most the room in data.         *)
Fetch(data, last, file, pos) ==
    LET cnt == Lower(BUFSIZE - last, Len(file) - pos)
    IN  [cnt |-> cnt,
         data |-> [i \in DOMAIN data |-> IF i \in last .. last + cnt - 1
                                           THEN file[pos + i - last + 1] ELSE data[i]]]

LineEnd(data, start, last) ==
    CHOOSE e \in start .. last :
        /\ e = last \/ data[e] = NL
        /\ \A i \in start .. e - 1 : data[i] # NL

(* The array from an address on, as strcpy and strncmp see it.              *)
From(data, start) == [i \in 0 .. BUFSIZE - start |-> data[start + i]]

ForgetsRest(data, start, last) == [data |-> data, last |-> 0]
Carried(data, start, last) ==
    [data |-> strcpy(data, From(data, start)), last |-> last - start]

(* A character at a time, from line_start to line_end.                      *)
Found(s, data, start, end) ==
    \E check \in start .. end - 1 :
        /\ s[0] = data[check]
        /\ ece391_strncmp(From(data, check), s, strlen(s)) = 0

(* The inner loop: the lines of one chunk.                                  *)
RECURSIVE Lines(_, _, _, _, _, _)
Lines(s, data, start, last, cnt, out) ==
    LET end == LineEnd(data, start, last)
        cut == [data EXCEPT ![end] = NUL]
        said == IF Found(s, cut, start, end) THEN Append(out, Text(From(cut, start))) ELSE out
        carried == Carried(cut, start, last)
    IN  IF data[end] # NL /\ cnt # 0 /\ start # 0
          THEN [data |-> carried.data, last |-> carried.last, out |-> out]
        ELSE IF end + 1 >= last THEN [data |-> cut, last |-> 0, out |-> said]
        ELSE Lines(s, cut, end + 1, last, cnt, said)

(* The outer loop ends after the read that returns nothing.                 *)
RECURSIVE Chunks(_, _, _, _, _, _)
Chunks(s, data, last, file, pos, out) ==
    LET r == Fetch(data, last, file, pos)
        l == Lines(s, r.data, 0, last + r.cnt, r.cnt, out)
    IN  IF r.cnt = 0 THEN l.out
        ELSE Chunks(s, l.data, l.last, file, pos + r.cnt, l.out)

do_one_file(s, file, data) == Chunks(s, data, 0, file, 0, << >>)
=============================================================================
