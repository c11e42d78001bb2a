--------------------------- MODULE TerminalProofs ---------------------------
(***************************************************************************)
(* What holds of the keyboard input for every number of terminals and every*)
(* size of kb_buf.                                                         *)
(***************************************************************************)
EXTENDS Terminal, TLAPS

(* A line without its newline.                                              *)
Open(s) == \A i \in 1 .. Len(s) : s[i] # NewLine

(* A line with the newline at its end and nowhere else.                     *)
Closed(s) ==
    /\ Len(s) >= 1
    /\ s[Len(s)] = NewLine
    /\ \A i \in 1 .. Len(s) - 1 : s[i] # NewLine

(* The life of the line of terminal t: open while Enter is awaited, closed  *)
(* from Enter to the copy of the read that waits for it, empty between two  *)
(* reads; a backspace in between can only make it shorter.                  *)
LineInv(t) ==
    /\ pc[t] = "copy" => line_buffer_flag[t]
    /\ race[t] = {} /\ ~line_buffer_flag[t] =>
         Len(buf[t]) <= BUF_LENGTH - 1 /\ Open(buf[t])
    /\ race[t] = {} /\ line_buffer_flag[t] /\ pc[t] = "user" => buf[t] = << >>
    /\ race[t] = {} /\ line_buffer_flag[t] /\ pc[t] # "user" =>
         Len(buf[t]) <= BUF_LENGTH /\ Closed(buf[t])
    /\ race[t] = {"erased"} =>
         line_buffer_flag[t] /\ pc[t] # "user" /\ Len(buf[t]) <= BUF_LENGTH

TerminalInv == TypeOK /\ AltNotStuck /\ \A t \in Terms : LineInv(t)

-----------------------------------------------------------------------------
(* There is a terminal 0 and every terminal has a successor.                *)
LEMMA TermFacts ==
    0 \in Terms /\ \A t \in Terms : NextTerm(t) \in Terms
BY TerminalAssumption DEF Terms, NextTerm

(* The characters of the keys, none of which is the newline of Enter.       *)
LEMMA CharFacts ==
    /\ NewLine \in Char
    /\ \A b \in BOOLEAN, key \in Letters \cup Symbols \cup {"F"} :
          [key |-> key, upper |-> b] \in Char /\ [key |-> key, upper |-> b] # NewLine
<1>1. "NEW_LINE" \notin Letters \cup Symbols
  BY KeysAssumption DEF SpecialKeys
<1>2. ASSUME NEW b \in BOOLEAN, NEW key \in Letters \cup Symbols \cup {"F"}
      PROVE  /\ [key |-> key, upper |-> b] \in Char
             /\ [key |-> key, upper |-> b] # NewLine
  <2>1. key # "NEW_LINE"
    BY <1>1
  <2>2. [key |-> key, upper |-> b].key = key
    OBVIOUS
  <2> QED
    BY <2>1, <2>2 DEF Char, NewLine
<1> QED
  BY <1>2 DEF Char, NewLine

(* A character other than the newline keeps a line open; the newline closes *)
(* it.                                                                      *)
LEMMA AppendLine ==
    ASSUME NEW s \in Seq(Char), NEW c \in Char, Open(s)
    PROVE  /\ Append(s, c) \in Seq(Char)
           /\ Len(Append(s, c)) = Len(s) + 1
           /\ c # NewLine => Open(Append(s, c))
           /\ c = NewLine => Closed(Append(s, c))
<1> DEFINE a == Append(s, c)
<1>1. a \in Seq(Char) /\ Len(a) = Len(s) + 1 /\ Len(s) \in Nat
  OBVIOUS
<1>2. a[Len(a)] = c
  BY <1>1
<1>3. \A i \in 1 .. Len(s) : a[i] = s[i]
  OBVIOUS
<1>4. \A i \in 1 .. Len(a) - 1 : a[i] # NewLine
  BY <1>1, <1>3 DEF Open
<1>5. c # NewLine => Open(a)
  <2> SUFFICES ASSUME c # NewLine, NEW i \in 1 .. Len(a) PROVE a[i] # NewLine
    BY DEF Open
  <2>1. CASE i = Len(a)
    BY <2>1, <1>2
  <2>2. CASE i # Len(a)
    BY <2>2, <1>1, <1>4
  <2> QED
    BY <2>1, <2>2
<1>6. c = NewLine => Closed(a)
  BY <1>1, <1>2, <1>4 DEF Closed
<1> QED
  BY <1>1, <1>5, <1>6

(* Removing the last character of a line.                                   *)
LEMMA ShorterLine ==
    ASSUME NEW s \in Seq(Char), Len(s) > 0
    PROVE  /\ SubSeq(s, 1, Len(s) - 1) \in Seq(Char)
           /\ Len(SubSeq(s, 1, Len(s) - 1)) = Len(s) - 1
           /\ Open(s) => Open(SubSeq(s, 1, Len(s) - 1))
<1> DEFINE b == SubSeq(s, 1, Len(s) - 1)
<1>n. PICK n \in Nat : n = Len(s) /\ n > 0
  OBVIOUS
<1>1. b \in Seq(Char) /\ Len(b) = n - 1
  BY <1>n
<1>2. \A i \in 1 .. Len(b) : b[i] = s[i]
  BY <1>1
<1>3. Open(s) => Open(b)
  BY <1>n, <1>1, <1>2 DEF Open
<1> QED
  BY <1>n, <1>1, <1>3

(* The empty line.                                                          *)
LEMMA EmptyLine == << >> \in Seq(Char) /\ Len(<< >>) = 0 /\ Open(<< >>)
BY DEF Open

(* A terminal whose line, read and history do not change.                   *)
LEMMA LineKept ==
    ASSUME NEW t \in Terms, LineInv(t), buf'[t] = buf[t],
           line_buffer_flag'[t] = line_buffer_flag[t], pc'[t] = pc[t], race'[t] = race[t]
    PROVE  LineInv(t)'
BY DEF LineInv, Open, Closed

(* init_shell.                                                              *)
LEMMA InvInit == Init => TerminalInv
<1> SUFFICES ASSUME Init PROVE TerminalInv
  OBVIOUS
<1>1. TypeOK
  BY TermFacts, EmptyLine DEF Init, TypeOK
<1>2. AltNotStuck
  BY TermFacts DEF Init, AltNotStuck
<1>3. ASSUME NEW t \in Terms PROVE LineInv(t)
  <2>1. pc[t] = "user" /\ ~line_buffer_flag[t] /\ buf[t] = << >> /\ race[t] = {}
    BY DEF Init
  <2> QED
    BY <2>1, EmptyLine, TerminalAssumption DEF LineInv
<1> QED
  BY <1>1, <1>2, <1>3 DEF TerminalInv

-----------------------------------------------------------------------------
(* print_scancode of a key that is not Enter.                               *)
LEMMA PrintKeeps ==
    ASSUME TerminalInv, NEW c \in Char, c # NewLine, print_scancode(c),
           UNCHANGED <<line_buffer_flag, pc, race>>
    PROVE  buf' \in [Terms -> Seq(Char)] /\ \A t \in Terms : LineInv(t)'
<1>d. PICK d \in Terms : d = cur_terminal
  BY DEF TerminalInv, TypeOK
<1>1. buf \in [Terms -> Seq(Char)] /\ buf[d] \in Seq(Char)
  BY DEF TerminalInv, TypeOK
<1>2. CASE Dropped(c, d)
  <2>1. buf' = buf
    BY <1>d, <1>2 DEF print_scancode
  <2> QED
    BY <1>1, <2>1, LineKept DEF TerminalInv
<1>3. CASE ~Dropped(c, d)
  <2>1. buf' = [buf EXCEPT ![d] = Append(buf[d], c)]
    BY <1>d, <1>3 DEF print_scancode
  <2>2. ~line_buffer_flag[d] /\ Len(buf[d]) < BUF_LENGTH - 1
    BY <1>3, <1>1, TerminalAssumption DEF Dropped, BufferFull
  <2>3. buf' \in [Terms -> Seq(Char)]
    BY <1>1, <2>1
  <2>4. LineInv(d)'
    <3>1. LineInv(d) /\ buf'[d] = Append(buf[d], c)
      BY <1>1, <2>1 DEF TerminalInv
    <3>2. race[d] = {} => Open(buf[d])
      BY <3>1, <2>2 DEF LineInv
    <3>3. race[d] = {} => Open(buf'[d])
      BY <3>1, <3>2, <1>1, AppendLine
    <3>4. Len(buf'[d]) <= BUF_LENGTH - 1
      BY <3>1, <1>1, <2>2, TerminalAssumption
    <3> QED
      BY <3>1, <3>3, <3>4, <2>2 DEF LineInv
  <2>5. ASSUME NEW t \in Terms, t # d PROVE LineInv(t)'
    <3>1. buf'[t] = buf[t]
      BY <2>1, <2>5, <1>1
    <3> QED
      BY <3>1, <2>5, LineKept DEF TerminalInv
  <2> QED
    BY <2>3, <2>4, <2>5
<1> QED
  BY <1>2, <1>3

(* Ordinary keys, and Fn without Alt.                                       *)
LEMMA CharStep ==
    ASSUME TerminalInv, NEW key \in Letters \cup Symbols, PressChar(key)
    PROVE  TerminalInv'
<1>1. UpperHalf(key) \in BOOLEAN
  BY DEF TerminalInv, TypeOK, UpperHalf
<1>2. buf' \in [Terms -> Seq(Char)] /\ \A t \in Terms : LineInv(t)'
  BY <1>1, CharFacts, PrintKeeps DEF PressChar
<1>3. TypeOK' /\ AltNotStuck'
  BY <1>2 DEF TerminalInv, TypeOK, AltNotStuck, PressChar, mods
<1> QED
  BY <1>2, <1>3 DEF TerminalInv

(* Fn: the display changes only with alt_pressed, hence with Alt down.      *)
LEMMA FStep ==
    ASSUME TerminalInv, NEW n \in Terms, PressF(n)
    PROVE  TerminalInv' /\ (cur_terminal' # cur_terminal => "ALT" \in held)
<1>1. CASE SwitchRequested
  <2>1. cur_terminal' = n /\ UNCHANGED <<buf, line_buffer_flag, mods, pc, race>>
        /\ UNCHANGED cur_sched_term
    BY <1>1 DEF PressF
  <2>2. "ALT" \in held
    BY <1>1 DEF SwitchRequested, TerminalInv, AltNotStuck
  <2>3. TypeOK'
    BY <2>1 DEF TerminalInv, TypeOK, mods
  <2>4. AltNotStuck'
    BY <2>1, <2>2 DEF AltNotStuck, mods
  <2>5. \A t \in Terms : LineInv(t)'
    BY <2>1, LineKept DEF TerminalInv
  <2> QED
    BY <2>2, <2>3, <2>4, <2>5 DEF TerminalInv
<1>2. CASE ~SwitchRequested
  <2>1. /\ print_scancode([key |-> "F", upper |-> UpperHalf("F")])
        /\ UNCHANGED <<cur_terminal, cur_sched_term, line_buffer_flag, mods, pc, race>>
    BY <1>2 DEF PressF
  <2>2. UpperHalf("F") \in BOOLEAN
    BY DEF TerminalInv, TypeOK, UpperHalf
  <2>3. buf' \in [Terms -> Seq(Char)] /\ \A t \in Terms : LineInv(t)'
    BY <2>1, <2>2, CharFacts, PrintKeeps
  <2>4. TypeOK' /\ AltNotStuck'
    BY <2>1, <2>3 DEF TerminalInv, TypeOK, AltNotStuck, mods
  <2> QED
    BY <2>1, <2>3, <2>4 DEF TerminalInv
<1> QED
  BY <1>1, <1>2

(* Enter closes the line of the displayed terminal.                         *)
LEMMA EnterStep ==
    ASSUME TerminalInv, PressEnter
    PROVE  TerminalInv'
<1>d. PICK d \in Terms : d = cur_terminal
  BY DEF TerminalInv, TypeOK
<1>1. /\ buf \in [Terms -> Seq(Char)] /\ buf[d] \in Seq(Char)
      /\ LineInv(d) /\ race \in [Terms -> SUBSET Races]
      /\ line_buffer_flag \in [Terms -> BOOLEAN]
  BY DEF TerminalInv, TypeOK
<1>2. /\ line_buffer_flag' = [line_buffer_flag EXCEPT ![d] = TRUE]
      /\ UNCHANGED <<cur_terminal, cur_sched_term, mods, pc>>
  BY <1>d DEF PressEnter
<1>3. CASE line_buffer_flag[d]
  <2>1. UNCHANGED <<buf, race>>
    BY <1>d, <1>3 DEF PressEnter, print_scancode, Dropped
  <2>2. \A t \in Terms : line_buffer_flag'[t] = line_buffer_flag[t]
    BY <1>1, <1>2, <1>3
  <2>3. \A t \in Terms : LineInv(t)'
    BY <1>2, <2>1, <2>2, LineKept DEF TerminalInv
  <2>4. TypeOK' /\ AltNotStuck'
    BY <1>1, <1>2, <2>1 DEF TerminalInv, TypeOK, AltNotStuck, mods
  <2> QED
    BY <2>3, <2>4 DEF TerminalInv
<1>4. CASE ~line_buffer_flag[d]
  <2>1. ~Dropped(NewLine, d)
    BY <1>4 DEF Dropped, BufferFull
  <2>2. buf' = [buf EXCEPT ![d] = Append(buf[d], NewLine)]
    BY <1>d, <2>1 DEF PressEnter, print_scancode
  <2>3. race' = IF pc[d] = "user" THEN [race EXCEPT ![d] = race[d] \cup {"ahead"}]
                                  ELSE race
    BY <1>d, <1>4 DEF PressEnter
  <2>4. TypeOK' /\ AltNotStuck'
    <3>1. buf' \in [Terms -> Seq(Char)]
      BY <1>1, <2>2, CharFacts
    <3>2. race' \in [Terms -> SUBSET Races]
      BY <1>1, <2>3 DEF Races
    <3> QED
      BY <1>1, <1>2, <3>1, <3>2 DEF TerminalInv, TypeOK, AltNotStuck, mods
  <2>5. LineInv(d)'
    <3>1. buf'[d] = Append(buf[d], NewLine) /\ line_buffer_flag'[d] /\ pc'[d] = pc[d]
      BY <1>1, <1>2, <2>2
    <3>2. CASE pc[d] = "user"
      <4>1. "ahead" \in race'[d]
        BY <1>1, <2>3, <3>2
      <4>2. race'[d] # {} /\ race'[d] # {"erased"}
        BY <4>1
      <4> QED
        BY <3>1, <4>2 DEF LineInv
    <3>3. CASE pc[d] # "user"
      <4>1. race'[d] = race[d]
        BY <2>3, <3>3
      <4>2. race[d] # {"erased"}
        BY <1>1, <1>4 DEF LineInv
      <4>3. race[d] = {} => Len(buf[d]) <= BUF_LENGTH - 1 /\ Open(buf[d])
        BY <1>1, <1>4 DEF LineInv
      <4>4. race[d] = {} => Closed(buf'[d]) /\ Len(buf'[d]) = Len(buf[d]) + 1
        BY <1>1, <3>1, <4>3, CharFacts, AppendLine
      <4>5. race[d] = {} => Len(buf'[d]) <= BUF_LENGTH
        BY <1>1, <4>3, <4>4, TerminalAssumption
      <4> QED
        BY <3>1, <3>3, <4>1, <4>2, <4>4, <4>5 DEF LineInv, Closed
    <3> QED
      BY <3>2, <3>3
  <2>6. ASSUME NEW t \in Terms, t # d PROVE LineInv(t)'
    <3>1. /\ buf'[t] = buf[t] /\ line_buffer_flag'[t] = line_buffer_flag[t]
          /\ pc'[t] = pc[t] /\ race'[t] = race[t]
      BY <1>1, <1>2, <2>2, <2>3, <2>6
    <3> QED
      BY <3>1, <2>6, LineKept DEF TerminalInv
  <2> QED
    BY <2>4, <2>5, <2>6 DEF TerminalInv
<1> QED
  BY <1>3, <1>4

(* Backspace shortens an open line, or is remembered as an erasure.         *)
LEMMA BackspaceStep ==
    ASSUME TerminalInv, PressBackspace
    PROVE  TerminalInv'
<1>d. PICK d \in Terms : d = cur_terminal
  BY DEF TerminalInv, TypeOK
<1>1. /\ buf \in [Terms -> Seq(Char)] /\ buf[d] \in Seq(Char)
      /\ LineInv(d) /\ race \in [Terms -> SUBSET Races]
  BY DEF TerminalInv, TypeOK
<1>2. /\ Len(buf[d]) > 0
      /\ buf' = [buf EXCEPT ![d] = SubSeq(buf[d], 1, Len(buf[d]) - 1)]
      /\ race' = IF line_buffer_flag[d] THEN [race EXCEPT ![d] = race[d] \cup {"erased"}]
                                        ELSE race
      /\ UNCHANGED <<cur_terminal, cur_sched_term, line_buffer_flag, mods, pc>>
  BY <1>d DEF PressBackspace
<1>3. buf'[d] = SubSeq(buf[d], 1, Len(buf[d]) - 1)
  BY <1>1, <1>2
<1>4. /\ buf'[d] \in Seq(Char) /\ Len(buf'[d]) = Len(buf[d]) - 1
      /\ Open(buf[d]) => Open(buf'[d])
  BY <1>1, <1>2, <1>3, ShorterLine
<1>5. TypeOK' /\ AltNotStuck'
  <2>1. buf' \in [Terms -> Seq(Char)]
    BY <1>1, <1>2, <1>3, <1>4
  <2>2. race' \in [Terms -> SUBSET Races]
    BY <1>1, <1>2 DEF Races
  <2> QED
    BY <1>2, <2>1, <2>2 DEF TerminalInv, TypeOK, AltNotStuck, mods
<1>6. LineInv(d)'
  <2>n. PICK n \in Nat : n = Len(buf[d]) /\ Len(buf'[d]) = n - 1
    BY <1>1, <1>4
  <2>1. CASE line_buffer_flag[d]
    <3>1. race'[d] = race[d] \cup {"erased"}
      BY <1>1, <1>2, <2>1
    <3>2. race'[d] = {"erased"} =>
             pc[d] # "user" /\ Len(buf[d]) <= BUF_LENGTH
      <4>1. race'[d] = {"erased"} => race[d] = {} \/ race[d] = {"erased"}
        BY <3>1
      <4>2. race[d] = {} /\ pc[d] = "user" => FALSE
        BY <1>1, <1>2, <2>1, EmptyLine DEF LineInv
      <4> QED
        BY <4>1, <4>2, <1>1, <2>1 DEF LineInv
    <3>3. race'[d] # {}
      BY <3>1
    <3> QED
      BY <3>2, <3>3, <2>n, <1>2, <2>1, TerminalAssumption DEF LineInv
  <2>2. CASE ~line_buffer_flag[d]
    <3>1. race'[d] = race[d] /\ race[d] # {"erased"}
      BY <1>1, <1>2, <2>2 DEF LineInv
    <3>2. race[d] = {} => Len(buf[d]) <= BUF_LENGTH - 1 /\ Open(buf'[d])
      BY <1>1, <1>4, <2>2 DEF LineInv
    <3>3. pc[d] # "copy"
      BY <1>1, <2>2 DEF LineInv
    <3> QED
      BY <3>1, <3>2, <3>3, <2>n, <1>2, <2>2, TerminalAssumption DEF LineInv, Open
  <2> QED
    BY <2>1, <2>2
<1>7. ASSUME NEW t \in Terms, t # d PROVE LineInv(t)'
  <2>1. /\ buf'[t] = buf[t] /\ line_buffer_flag'[t] = line_buffer_flag[t]
        /\ pc'[t] = pc[t] /\ race'[t] = race[t]
    BY <1>1, <1>2, <1>7
  <2> QED
    BY <2>1, <1>7, LineKept DEF TerminalInv
<1> QED
  BY <1>5, <1>6, <1>7 DEF TerminalInv

(* The modifiers: alt_pressed of the displayed terminal follows the key.    *)
LEMMA ModifierStep ==
    ASSUME TerminalInv,
           PressCaps \/ \E k \in Modifiers : PressModifier(k) \/ Release(k)
    PROVE  TerminalInv'
<1>1. UNCHANGED <<cur_terminal, cur_sched_term, line, pc, race>>
  BY DEF PressCaps, PressModifier, Release
<1>2. \A t \in Terms : LineInv(t)'
  BY <1>1, LineKept DEF TerminalInv, line
<1>3. cur_terminal \in Terms
  BY DEF TerminalInv, TypeOK
<1>4. CASE PressCaps
  <2>1. TypeOK'
    BY <1>1, <1>3, <1>4 DEF TerminalInv, TypeOK, PressCaps, Set, line
  <2>2. AltNotStuck'
    BY <1>1, <1>4 DEF TerminalInv, AltNotStuck, PressCaps
  <2> QED
    BY <1>2, <2>1, <2>2 DEF TerminalInv
<1>5. ASSUME NEW k \in Modifiers, PressModifier(k) PROVE TerminalInv'
  <2>1. TypeOK'
    BY <1>1, <1>3, <1>5 DEF TerminalInv, TypeOK, PressModifier, Set, line
  <2>2. AltNotStuck'
    BY <1>1, <1>3, <1>5 DEF TerminalInv, TypeOK, AltNotStuck, PressModifier, Set
  <2> QED
    BY <1>2, <2>1, <2>2 DEF TerminalInv
<1>6. ASSUME NEW k \in Modifiers, Release(k) PROVE TerminalInv'
  <2>1. TypeOK'
    BY <1>1, <1>3, <1>6 DEF TerminalInv, TypeOK, Release, after_release_exec, Set, line
  <2>2. AltNotStuck'
    BY <1>1, <1>3, <1>6
       DEF TerminalInv, TypeOK, AltNotStuck, Release, after_release_exec, Set
  <2> QED
    BY <1>2, <2>1, <2>2 DEF TerminalInv
<1> QED
  BY <1>4, <1>5, <1>6

(* terminal_read up to its copy: the flag is reset, Enter sets it again.    *)
LEMMA ReadStep ==
    ASSUME TerminalInv, NEW t \in Terms, ReadStart(t) \/ ReadWake(t)
    PROVE  TerminalInv'
<1>1. UNCHANGED <<cur_terminal, cur_sched_term, buf, mods, race>>
  BY DEF ReadStart, ReadWake, line
<1>2. LineInv(t) /\ buf[t] \in Seq(Char)
  BY DEF TerminalInv, TypeOK
<1>3. TypeOK' /\ AltNotStuck'
  BY <1>1 DEF TerminalInv, TypeOK, AltNotStuck, ReadStart, ReadWake, FlagOnRead, mods, line
<1>4. ASSUME ReadStart(t) PROVE LineInv(t)'
  <2>1. /\ pc[t] = "user" /\ pc'[t] = "wait" /\ ~line_buffer_flag'[t]
        /\ race'[t] = race[t] /\ buf'[t] = buf[t]
    BY <1>1, <1>4 DEF TerminalInv, TypeOK, ReadStart, FlagOnRead, Runs
  <2>2. race[t] # {"erased"}
    BY <1>2, <2>1 DEF LineInv
  <2>3. race[t] = {} => Len(buf[t]) <= BUF_LENGTH - 1 /\ Open(buf[t])
    BY <1>2, <2>1, EmptyLine, TerminalAssumption DEF LineInv
  <2> QED
    BY <2>1, <2>2, <2>3 DEF LineInv, Open
<1>5. ASSUME ReadWake(t) PROVE LineInv(t)'
  <2>1. /\ pc[t] = "wait" /\ pc'[t] = "copy" /\ line_buffer_flag[t]
        /\ line_buffer_flag'[t] /\ race'[t] = race[t] /\ buf'[t] = buf[t]
    BY <1>1, <1>5 DEF TerminalInv, TypeOK, ReadWake, LineDone, Runs, line
  <2> QED
    BY <1>2, <2>1 DEF LineInv, Closed
<1>6. ASSUME NEW u \in Terms, u # t PROVE LineInv(u)'
  <2>1. line_buffer_flag'[u] = line_buffer_flag[u] /\ pc'[u] = pc[u]
    BY <1>6 DEF TerminalInv, TypeOK, ReadStart, ReadWake, FlagOnRead, line
  <2> QED
    BY <1>1, <1>6, <2>1, LineKept DEF TerminalInv
<1> QED
  BY <1>3, <1>4, <1>5, <1>6 DEF TerminalInv

(* The copy of terminal_read, from the right buffer or from another one.    *)
LEMMA CopyStep ==
    ASSUME TerminalInv, NEW t \in Terms, ReadCopy(t)
    PROVE  TerminalInv'
<1>d. PICK d \in Terms : d = ReadBuffer
  BY DEF TerminalInv, TypeOK, ReadBuffer
<1>1. /\ buf' = [buf EXCEPT ![d] = << >>]
      /\ race' = IF d = t THEN [race EXCEPT ![t] = {}]
                 ELSE [u \in Terms |-> IF u \in {d, t} THEN race[u] \cup {"foreign"}
                                                       ELSE race[u]]
      /\ pc' = [pc EXCEPT ![t] = "user"]
      /\ pc[t] = "copy"
      /\ UNCHANGED <<cur_terminal, cur_sched_term, line_buffer_flag, mods>>
  BY <1>d DEF ReadCopy, Runs
<1>2. /\ buf \in [Terms -> Seq(Char)] /\ race \in [Terms -> SUBSET Races]
      /\ pc \in [Terms -> {"user", "wait", "copy"}]
  BY DEF TerminalInv, TypeOK
<1>3. TypeOK' /\ AltNotStuck'
  <2>1. buf' \in [Terms -> Seq(Char)]
    BY <1>1, <1>2, EmptyLine
  <2>2. race' \in [Terms -> SUBSET Races]
    BY <1>1, <1>2 DEF Races
  <2>3. pc' \in [Terms -> {"user", "wait", "copy"}]
    BY <1>1, <1>2
  <2> QED
    BY <1>1, <2>1, <2>2, <2>3 DEF TerminalInv, TypeOK, AltNotStuck, mods
<1>4. ASSUME NEW u \in Terms PROVE LineInv(u)'
  <2>1. CASE u # t /\ u # d
    <3>1. /\ buf'[u] = buf[u] /\ line_buffer_flag'[u] = line_buffer_flag[u]
          /\ pc'[u] = pc[u] /\ race'[u] = race[u]
      BY <1>1, <1>2, <2>1
    <3> QED
      BY <3>1, LineKept DEF TerminalInv
  <2>2. CASE u = t /\ d = t
    <3>1. buf'[u] = << >> /\ pc'[u] = "user" /\ race'[u] = {}
      BY <1>1, <1>2, <2>2
    <3>2. line_buffer_flag'[u]
      BY <1>1, <2>2 DEF TerminalInv, LineInv
    <3> QED
      BY <3>1, <3>2 DEF LineInv
  <2>3. CASE d # t /\ u \in {d, t}
    <3>1. "foreign" \in race'[u]
      BY <1>1, <1>2, <2>3
    <3>2. race'[u] # {} /\ race'[u] # {"erased"}
      BY <3>1
    <3>3. pc'[u] = "copy" => line_buffer_flag'[u]
      BY <1>1, <1>2 DEF TerminalInv, LineInv
    <3> QED
      BY <3>2, <3>3 DEF LineInv
  <2> QED
    BY <2>1, <2>2, <2>3
<1> QED
  BY <1>3, <1>4 DEF TerminalInv

(* open("stdin") empties the buffer of the displayed terminal.              *)
LEMMA OpenStep ==
    ASSUME TerminalInv, NEW t \in Terms, terminal_open(t)
    PROVE  TerminalInv'
<1>d. PICK d \in Terms : d = cur_terminal
  BY DEF TerminalInv, TypeOK
<1>1. /\ buf' = [buf EXCEPT ![d] = << >>]
      /\ race' = IF d = t THEN race ELSE [race EXCEPT ![d] = race[d] \cup {"foreign"}]
      /\ pc[t] = "user"
      /\ UNCHANGED <<cur_terminal, cur_sched_term, line_buffer_flag, mods, pc>>
  BY <1>d DEF terminal_open, Runs
<1>2. buf \in [Terms -> Seq(Char)] /\ race \in [Terms -> SUBSET Races]
  BY DEF TerminalInv, TypeOK
<1>3. TypeOK' /\ AltNotStuck'
  <2>1. buf' \in [Terms -> Seq(Char)]
    BY <1>1, <1>2, EmptyLine
  <2>2. race' \in [Terms -> SUBSET Races]
    BY <1>1, <1>2 DEF Races
  <2> QED
    BY <1>1, <2>1, <2>2 DEF TerminalInv, TypeOK, AltNotStuck, mods
<1>4. ASSUME NEW u \in Terms PROVE LineInv(u)'
  <2>1. CASE u # d
    <3>1. /\ buf'[u] = buf[u] /\ line_buffer_flag'[u] = line_buffer_flag[u]
          /\ pc'[u] = pc[u] /\ race'[u] = race[u]
      BY <1>1, <1>2, <2>1
    <3> QED
      BY <3>1, LineKept DEF TerminalInv
  <2>2. CASE u = d /\ d = t
    <3>1. buf'[u] = << >> /\ pc'[u] = "user" /\ race'[u] = race[u] /\ pc[u] = "user"
      BY <1>1, <1>2, <2>2
    <3>2. race[u] # {"erased"}
      BY <3>1 DEF TerminalInv, LineInv
    <3> QED
      BY <3>1, <3>2, EmptyLine, TerminalAssumption DEF LineInv, Open
  <2>3. CASE u = d /\ d # t
    <3>1. "foreign" \in race'[u]
      BY <1>1, <1>2, <2>3
    <3>2. race'[u] # {} /\ race'[u] # {"erased"}
      BY <3>1
    <3>3. pc'[u] = "copy" => line_buffer_flag'[u]
      BY <1>1 DEF TerminalInv, LineInv
    <3> QED
      BY <3>2, <3>3 DEF LineInv
  <2> QED
    BY <2>1, <2>2, <2>3
<1> QED
  BY <1>3, <1>4 DEF TerminalInv

(* The scheduler's tick touches no input.                                   *)
LEMMA TickStep ==
    ASSUME TerminalInv, Tick \/ UNCHANGED vars
    PROVE  TerminalInv'
<1>1. UNCHANGED <<cur_terminal, line, mods, pc, race>> /\ cur_sched_term' \in Terms
  BY TermFacts DEF TerminalInv, TypeOK, Tick, vars
<1>2. \A t \in Terms : LineInv(t)'
  BY <1>1, LineKept DEF TerminalInv, line
<1>3. TypeOK' /\ AltNotStuck'
  BY <1>1 DEF TerminalInv, TypeOK, AltNotStuck, line, mods
<1> QED
  BY <1>2, <1>3 DEF TerminalInv

(* TerminalInv is inductive, and only Fn with Alt changes the display.      *)
LEMMA InvStep ==
    ASSUME TerminalInv, [Next]_vars
    PROVE  TerminalInv' /\ (cur_terminal' # cur_terminal => "ALT" \in held)
<1>1. ASSUME NEW key \in Letters \cup Symbols, PressChar(key)
      PROVE  TerminalInv' /\ cur_terminal' = cur_terminal
  BY <1>1, CharStep DEF PressChar
<1>2. CASE PressEnter
  BY <1>2, EnterStep DEF PressEnter
<1>3. CASE PressBackspace
  BY <1>3, BackspaceStep DEF PressBackspace
<1>4. CASE PressCaps \/ \E k \in Modifiers : PressModifier(k) \/ Release(k)
  BY <1>4, ModifierStep DEF PressCaps, PressModifier, Release
<1>5. ASSUME NEW n \in Terms, PressF(n)
      PROVE  TerminalInv' /\ (cur_terminal' # cur_terminal => "ALT" \in held)
  BY <1>5, FStep
<1>6. ASSUME NEW t \in Terms, ReadStart(t) \/ ReadWake(t)
      PROVE  TerminalInv' /\ cur_terminal' = cur_terminal
  BY <1>6, ReadStep DEF ReadStart, ReadWake
<1>7. ASSUME NEW t \in Terms, ReadCopy(t)
      PROVE  TerminalInv' /\ cur_terminal' = cur_terminal
  BY <1>7, CopyStep DEF ReadCopy
<1>8. ASSUME NEW t \in Terms, terminal_open(t)
      PROVE  TerminalInv' /\ cur_terminal' = cur_terminal
  BY <1>8, OpenStep DEF terminal_open
<1>9. CASE Tick \/ UNCHANGED vars
  BY <1>9, TickStep DEF Tick, vars
<1> QED
  BY <1>1, <1>2, <1>3, <1>4, <1>5, <1>6, <1>7, <1>8, <1>9 DEF Next, Keyboard, Thread

-----------------------------------------------------------------------------
(* The inductive invariant holds in every reachable state.                  *)
THEOREM InputSafe == Spec => []TerminalInv
<1>1. TerminalInv /\ [Next]_vars => TerminalInv'
  BY InvStep
<1> QED
  BY InvInit, <1>1, PTL DEF Spec

(* What terminal_read hands over when nothing disturbed it is a prefix of   *)
(* exactly one line (kb.c terminal_read, print_scancode).                   *)
THEOREM ReadsOneLine == Spec => []OneLinePerRead
<1>1. TerminalInv => OneLinePerRead
  <2> SUFFICES ASSUME TerminalInv, NEW t \in Terms, NEW n \in 0 .. BUF_LENGTH,
                      Runs(t, "copy"), ReadBuffer = t, race[t] = {}
               PROVE  LET s == Delivered(n)
                      IN  /\ \A i \in 1 .. Len(s) - 1 : s[i] # NewLine
                          /\ Len(s) < n => s # << >> /\ s[Len(s)] = NewLine
    BY DEF OneLinePerRead
  <2> DEFINE b == buf[t]
             s == Delivered(n)
  <2>1. b \in Seq(Char) /\ Closed(b) /\ Len(b) \in Nat /\ n \in Nat
    <3>1. b \in Seq(Char)
      BY DEF TerminalInv, TypeOK
    <3>2. pc[t] = "copy" /\ line_buffer_flag[t]
      BY DEF TerminalInv, LineInv, Runs
    <3>3. Closed(b)
      BY <3>2 DEF TerminalInv, LineInv
    <3>4. n \in Nat
      BY TerminalAssumption
    <3> QED
      BY <3>1, <3>3, <3>4
  <2>2. CASE n < Len(b)
    <3>1. s = SubSeq(b, 1, n)
      BY <2>2 DEF Delivered, Prefix, SmallerOf
    <3>2. Len(s) = n /\ \A i \in 1 .. n : s[i] = b[i]
      BY <2>1, <2>2, <3>1
    <3> QED
      BY <2>1, <2>2, <3>2 DEF Closed
  <2>3. CASE ~(n < Len(b))
    <3>1. s = SubSeq(b, 1, Len(b))
      BY <2>3 DEF Delivered, Prefix, SmallerOf
    <3>2. s = b
      BY <2>1, <3>1
    <3>3. b # << >>
      BY <2>1, EmptyLine DEF Closed
    <3> QED
      BY <2>1, <3>2, <3>3 DEF Closed
  <2> QED
    BY <2>2, <2>3
<1> QED
  BY <1>1, InputSafe, PTL

(* A line that Enter has finished stays whole until its read takes it       *)
(* (kb.c print_scancode, recent_release_exec).                              *)
THEOREM LineStaysReady == Spec => []LineReady
<1>1. TerminalInv => LineReady
  <2> SUFFICES ASSUME TerminalInv, NEW t \in Terms,
                      race[t] = {}, pc[t] # "user", line_buffer_flag[t]
               PROVE  buf[t] # << >> /\ buf[t][Len(buf[t])] = NewLine
    BY DEF LineReady
  <2>1. Closed(buf[t])
    BY DEF TerminalInv, LineInv
  <2> QED
    BY <2>1, EmptyLine DEF Closed
<1> QED
  BY <1>1, InputSafe, PTL

(* buf_index never passes the end of kb_buf on an undisturbed terminal      *)
(* (kb.c print_scancode).                                                   *)
THEOREM BufferStaysBounded == Spec => []BufferKept
<1>1. TerminalInv => BufferKept
  <2> SUFFICES ASSUME TerminalInv, NEW t \in Terms, race[t] \subseteq {"erased"}
               PROVE  Len(buf[t]) <= BUF_LENGTH
    BY DEF BufferKept
  <2>1. race[t] = {} \/ race[t] = {"erased"}
    OBVIOUS
  <2>2. LineInv(t) /\ buf[t] \in Seq(Char) /\ Len(buf[t]) \in Nat
    BY DEF TerminalInv, TypeOK
  <2>3. line_buffer_flag[t] \in BOOLEAN
    BY DEF TerminalInv, TypeOK
  <2> QED
    BY <2>1, <2>2, <2>3, EmptyLine, TerminalAssumption DEF LineInv
<1> QED
  BY <1>1, InputSafe, PTL

(* The displayed terminal changes only while Alt is down, although every    *)
(* terminal has an alt_pressed of its own (kb.c recent_release_exec,        *)
(* after_release_exec, lib.c change_shell).                                 *)
THEOREM DisplayChangesWithAlt == Spec => SwitchNeedsAlt
<1>1. TerminalInv /\ [Next]_vars => [cur_terminal' # cur_terminal => "ALT" \in held]_vars
  BY InvStep
<1> QED
  BY <1>1, InputSafe, PTL DEF Spec, SwitchNeedsAlt

(* Which steps touch shift_pressed and the Shift keys.                      *)
LEMMA ShiftStep ==
    ASSUME TypeOK, [Next]_vars
    PROVE  \/ UNCHANGED <<shift_pressed, held>>
           \/ \E k \in Modifiers : PressModifier(k) \/ Release(k)
BY DEF Next, Keyboard, PressChar, PressEnter, PressBackspace, PressCaps, PressF, Tick, Thread,
   ReadStart, ReadWake, ReadCopy, terminal_open, vars, mods

(* shift_pressed is stuck on the displayed terminal, set with no Shift key  *)
(* down, only through a change of terminal: no press, and no release of one *)
(* of two Shift keys or of another modifier, does it (kb.c,                 *)
(* recent_release_exec and after_release_exec).                             *)
THEOREM ShiftSticksOnlyBySwitch == Spec => ShiftStuckOnlyBySwitch
<1>1. ASSUME TypeOK, [Next]_vars, ShiftStuck', cur_terminal' = cur_terminal PROVE ShiftStuck
  <2>1. PICK t : t = cur_terminal
    OBVIOUS
  <2>2. t \in Terms /\ shift_pressed \in [Terms -> BOOLEAN]
    BY <1>1, <2>1 DEF TypeOK
  <2>3. shift_pressed'[t] /\ held' \cap Shifts = {}
    BY <1>1, <2>1 DEF ShiftStuck
  <2>4. CASE UNCHANGED <<shift_pressed, held>>
    BY <2>1, <2>3, <2>4 DEF ShiftStuck
  <2>5. ASSUME NEW k \in Modifiers, PressModifier(k) PROVE ShiftStuck
    <3>1. k \notin Shifts
      BY <2>3, <2>5 DEF PressModifier
    <3>2. shift_pressed' = shift_pressed /\ held' = held \cup {k}
      BY <2>5, <3>1 DEF PressModifier
    <3> QED
      BY <2>1, <2>3, <3>2 DEF ShiftStuck
  <2>6. ASSUME NEW k \in Modifiers, Release(k) PROVE ShiftStuck
    <3>1. k \notin Shifts
      <4> SUFFICES ASSUME k \in Shifts PROVE FALSE
        OBVIOUS
      <4>1. shift_pressed' = [shift_pressed EXCEPT ![t] = FALSE]
        BY <2>1, <2>6 DEF Release, after_release_exec, Set
      <4>2. shift_pressed'[t] = FALSE
        BY <2>2, <4>1
      <4> QED
        BY <2>3, <4>2
    <3>2. shift_pressed' = shift_pressed /\ held' = held \ {k}
      BY <2>6, <3>1 DEF Release, after_release_exec
    <3> QED
      BY <2>1, <2>3, <3>1, <3>2 DEF ShiftStuck
  <2> QED
    BY <1>1, <2>4, <2>5, <2>6, ShiftStep
<1>2. TerminalInv /\ [Next]_vars
        => [ShiftStuck' /\ ~ShiftStuck => cur_terminal' # cur_terminal]_vars
  BY <1>1 DEF TerminalInv
<1> QED
  BY <1>2, InputSafe, PTL DEF Spec, ShiftStuckOnlyBySwitch
=============================================================================
