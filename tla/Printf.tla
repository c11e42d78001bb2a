------------------------------- MODULE Printf -------------------------------
(***************************************************************************)
(* printf and puts of lib.c: a format is a sequence of character codes, the *)
(* arguments are the words after it on the stack, the result is what reaches*)
(* putc.                                                                    *)
(***************************************************************************)
EXTENDS Strings

CONSTANTS
    DIGITS,   \* hexadecimal digits of a word; the code has 8
    Pointee   \* the string an argument points to when it is used as one

WORD == 16 ^ DIGITS
Codes == [percent |-> 37, hash |-> 35, minus |-> 45, x |-> 120, u |-> 117, d |-> 100,
          c |-> 99, s |-> 115]

PastEnd == [out |-> << >>, used |-> 0, ret |-> -1]   \* read beyond the NUL

Numeral(value, radix) == Text(itoa(value, Array(<< >>, 64), radix))

(* conv_buf + 8 holds the digits; zeros are stored from index strlen to 7   *)
(* and the output starts at index strlen.                                   *)
PadsToFirst(value) == <<Zero>> \o Numeral(value, 16)
Padded(value) ==
    LET digits == Numeral(value, 16)
    IN  [i \in 1 .. DIGITS - Len(digits) |-> Zero] \o digits

Conversion(c, alternate, arg) ==
    CASE c = Codes.percent -> <<c>>
      [] c = Codes.x -> IF alternate THEN Padded(arg) ELSE Numeral(arg, 16)
      [] c = Codes.u -> Numeral(arg, 10)
      [] c = Codes.d -> IF arg >= WORD \div 2
                          THEN <<Codes.minus>> \o Numeral(WORD - arg, 10)
                          ELSE Numeral(arg, 10)
      [] c = Codes.c -> <<arg % 256>>
      [] c = Codes.s -> Text(Pointee[arg])
      [] OTHER -> << >>

TakesArgument(c) == c \in {Codes.x, Codes.u, Codes.d, Codes.c, Codes.s}

(* After '%' any number of '#'.  At the end of the format the switch meets  *)
(* the NUL, prints nothing and steps over it.                               *)
RECURSIVE PrintFrom(_, _, _, _, _)
PrintFrom(format, i, args, esp, out) ==
    IF i > Len(format) + 1 THEN PastEnd
    ELSE IF i = Len(format) + 1 THEN [out |-> out, used |-> esp - 1, ret |-> Len(format)]
    ELSE IF format[i] # Codes.percent
      THEN PrintFrom(format, i + 1, args, esp, Append(out, format[i]))
    ELSE LET j == CHOOSE k \in i + 1 .. Len(format) + 1 :
                     /\ k = Len(format) + 1 \/ format[k] # Codes.hash
                     /\ \A h \in i + 1 .. k - 1 : format[h] = Codes.hash
             c == IF j <= Len(format) THEN format[j] ELSE NUL
             takes == TakesArgument(c)
             text == Conversion(c, j > i + 1, IF takes THEN args[esp] ELSE 0)
         IN  PrintFrom(format, j + 1, args, IF takes THEN esp + 1 ELSE esp, out \o text)

printf(format, args) == PrintFrom(format, 1, args, 1, << >>)
=============================================================================
