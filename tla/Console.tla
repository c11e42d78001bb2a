------------------------------ MODULE Console ------------------------------
(***************************************************************************)
(* The text of the terminals and the cursor: putc, new_line, scroll_up,     *)
(* back_space, clear, reset_screen, move_cursor and change_shell (lib.c),   *)
(* driven by the keys (kb.c), by terminal_write, terminal_read and the      *)
(* drawing of the programs, and by reset_screen at the end of boot          *)
(* (kernel.c), which a key may interrupt.  The line buffer is that of       *)
(* Terminal without the modifiers; here it matters for what it lets         *)
(* Backspace erase and Ctrl+L repaint.                                      *)
(*                                                                         *)
(* Each terminal has its own page: which one putc and the display use is in *)
(* Video.  Colours are left out.                                            *)
(***************************************************************************)
EXTENDS Integers, Sequences

CONSTANTS
    SHELL_NUM,            \* terminals; the code has 3
    NUM_ROWS, NUM_COLS,   \* 25 and 80
    BUF_LENGTH,           \* size of kb_buf; the code has 128
    Chars,                \* characters other than the newline and the space
    Keys,                 \* those that are typed, the others are printed
    Typists,              \* bound: terminals on which the user types
    Outputs,              \* bound: what the programs of each terminal print
    Drawings,             \* bound: the cells programs draw into, with what they draw
    Leftovers,            \* bound: what a page no one cleared may hold at boot
    BYTE                  \* values of a register of the display; 256

ASSUME ConsoleAssumption ==
    /\ SHELL_NUM \in Nat \ {0}
    /\ NUM_ROWS \in Nat \ {0} /\ NUM_COLS \in Nat \ {0} /\ BUF_LENGTH \in Nat \ {0}
    /\ BUF_LENGTH <= (NUM_ROWS - 1) * NUM_COLS
    /\ Keys \subseteq Chars /\ Typists \subseteq 0 .. SHELL_NUM - 1
    /\ "NEW_LINE" \notin Chars /\ "SPACE" \notin Chars
    /\ Outputs \in [0 .. SHELL_NUM - 1 -> SUBSET (Chars \cup {"NEW_LINE"})]
    /\ Drawings \subseteq (0 .. NUM_ROWS * NUM_COLS - 1) \X (Chars \cup {"SPACE"})
    /\ Leftovers \subseteq [0 .. NUM_ROWS * NUM_COLS - 1 -> Chars \cup {"SPACE"}]
    /\ BYTE \in Nat \ {0}

Terms == 0 .. SHELL_NUM - 1
Cells == 0 .. NUM_ROWS * NUM_COLS - 1
NewLine == "NEW_LINE"
Space == "SPACE"
BlankPage == [i \in Cells |-> Space]

VARIABLES
    cur_terminal,      \* the displayed terminal
    cur_sched_term,    \* the terminal that has the processor
    screen,            \* text and x, y of each terminal
    buf,               \* kb_buf and buf_index of each terminal
    line_buffer_flag,  \* set by Enter
    pc,                \* terminal_read of each terminal: "user" or "wait"
    cursor,            \* the display's cursor: its two registers, and the index
    repaint,           \* characters Ctrl+L has printed again, or IDLE
    boot,              \* where entry is in reset_screen, "done" after it
    args,              \* the x and y it has loaded to call move_cursor
    odd,               \* history: what spoiled the page or line of each terminal
    raced              \* history: a key moved the cursor inside that call

IDLE == -1
display == <<cursor, raced>>
startup == <<boot, args>>
vars == <<cur_terminal, cur_sched_term, screen, buf, line_buffer_flag, pc, display,
          repaint, startup, odd>>

Registers == {"low", "high"}
BootLabels == {"y", "x", "arg_y", "arg_x", "select", "low", "high", "done"}
Lasting == {"early", "dirty"}     \* what a new line does not undo

TypeOK ==
    /\ cur_terminal \in Terms /\ cur_sched_term \in Terms
    /\ screen \in [Terms -> [text : [Cells -> Chars \cup {Space}], x : Int, y : Int]]
    /\ buf \in [Terms -> Seq(Keys \cup {NewLine})]
    /\ line_buffer_flag \in [Terms -> BOOLEAN]
    /\ pc \in [Terms -> {"user", "wait"}]
    /\ cursor \in [reg : [Registers -> Int], index : Registers]
    /\ repaint \in Nat \cup {IDLE}
    /\ boot \in BootLabels /\ args \in [x : Int, y : Int]
    /\ odd \in [Terms -> SUBSET {"early", "dirty", "mixed", "joined"}]
    /\ raced \in BOOLEAN

-----------------------------------------------------------------------------
(* The functions of lib.c on one screen.                                    *)
At(s) == NUM_COLS * s.y + s.x

clear(s) == [s EXCEPT !.text = BlankPage]

KeepsLastRow(text) ==
    [i \in Cells |-> IF i + NUM_COLS \in Cells THEN text[i + NUM_COLS] ELSE text[i]]
scroll_up(text) ==
    [i \in Cells |-> IF i + NUM_COLS \in Cells THEN text[i + NUM_COLS] ELSE Space]

new_line(s) ==
    IF s.y = NUM_ROWS - 1
      THEN [s EXCEPT !.text = scroll_up(@), !.x = 0]
      ELSE [s EXCEPT !.y = @ + 1, !.x = 0]

(* The last statement of putc wraps a row that new_line has not.            *)
Wrap(s) == [s EXCEPT !.y = (@ + (s.x \div NUM_COLS)) % NUM_ROWS]

putc(s, c) ==
    IF c = NewLine THEN new_line(s)
    ELSE LET w == [s EXCEPT !.text = [@ EXCEPT ![At(s)] = c], !.x = @ + 1]
         IN  Wrap(IF w.x = NUM_COLS THEN new_line(w) ELSE w)

back_space(s) ==
    LET b == IF s.x = 0 THEN [s EXCEPT !.x = NUM_COLS - 1, !.y = @ - 1]
                        ELSE [s EXCEPT !.x = @ - 1]
    IN  [b EXCEPT !.text = [@ EXCEPT ![At(b)] = Space]]

reset_screen(s) == [s EXCEPT !.x = 0, !.y = 0]

OffPage == \E t \in Terms : At(screen[t]) \notin Cells
Overflow == \E t \in Terms : Len(buf[t]) > BUF_LENGTH

(* move_cursor: the low byte of the position, then the high byte, each      *)
(* after the index of its register.                                         *)
Bytes(p) == [r \in Registers |-> IF r = "low" THEN p % BYTE ELSE (p \div BYTE) % BYTE]

move_cursor(s) ==
    /\ cursor' = [reg |-> Bytes(At(s)), index |-> "high"]
    /\ raced' = (boot \in {"arg_x", "select", "low", "high"})

(* Terminal t is printed to, and the cursor goes to the place of the        *)
(* displayed terminal.                                                      *)
FollowsOutput(t, s) ==
    /\ screen' = [screen EXCEPT ![t] = s]
    /\ move_cursor(s)
Show(t, s) ==
    /\ screen' = [screen EXCEPT ![t] = s]
    /\ move_cursor(screen'[cur_terminal])

-----------------------------------------------------------------------------
(* init_shell and the clear before sti, which clears the displayed page.    *)
(* The printing of boot has left the cursor anywhere.                       *)
Init ==
    /\ cur_terminal = 0 /\ cur_sched_term = 0
    /\ \E page \in [Terms -> Leftovers \cup {BlankPage}] :
          /\ page[0] = BlankPage
          /\ screen = [t \in Terms |-> [text |-> page[t], x |-> 0, y |-> 0]]
          /\ odd = [t \in Terms |-> IF page[t] = BlankPage THEN {} ELSE {"dirty"}]
    /\ buf = [t \in Terms |-> << >>]
    /\ line_buffer_flag = [t \in Terms |-> FALSE]
    /\ pc = [t \in Terms |-> "user"]
    /\ cursor \in {[reg |-> Bytes(p), index |-> "high"] : p \in Cells}
    /\ repaint = IDLE
    /\ boot = "y" /\ args = [x |-> 0, y |-> 0]
    /\ raced = FALSE

Free == repaint = IDLE /\ ~OffPage /\ ~Overflow
Booted == boot = "done"

Spoil(t, why) == odd' = [odd EXCEPT ![t] = @ \cup why]

(* entry calls reset_screen after sti, so that keys come between its steps. *)
(* What was typed before it stays on the page and in the buffer.            *)
BootStep(from, to) ==
    /\ Free /\ boot = from
    /\ boot' = to
    /\ UNCHANGED <<cur_terminal, cur_sched_term, buf, line_buffer_flag, pc, repaint, raced>>

Home(t, s) ==
    /\ screen' = [screen EXCEPT ![t] = s]
    /\ IF s = screen[t] THEN UNCHANGED odd ELSE Spoil(t, {"early"})
    /\ UNCHANGED <<cursor, args>>
ResetY == BootStep("y", "x") /\ Home(cur_terminal, [screen[cur_terminal] EXCEPT !.y = 0])
ResetX == BootStep("x", "arg_y") /\ Home(cur_terminal, [screen[cur_terminal] EXCEPT !.x = 0])

LoadY ==
    /\ BootStep("arg_y", "arg_x")
    /\ args' = [args EXCEPT !.y = screen[cur_terminal].y]
    /\ UNCHANGED <<screen, cursor, odd>>
LoadX ==
    /\ BootStep("arg_x", "select")
    /\ args' = [args EXCEPT !.x = screen[cur_terminal].x]
    /\ UNCHANGED <<screen, cursor, odd>>

(* The four outb of move_cursor.  A handler in between leaves the index at  *)
(* the high byte; where the last two are apart makes no difference.         *)
SelectLow ==
    /\ BootStep("select", "low")
    /\ cursor' = [cursor EXCEPT !.index = "low"]
    /\ UNCHANGED <<screen, args, odd>>
WriteLow ==
    /\ BootStep("low", "high")
    /\ cursor' = [cursor EXCEPT !.reg = [@ EXCEPT ![cursor.index] = Bytes(At(args))["low"]]]
    /\ UNCHANGED <<screen, args, odd>>
WriteHigh ==
    /\ BootStep("high", "done")
    /\ cursor' = [cursor EXCEPT !.index = "high",
                                !.reg = [@ EXCEPT !["high"] = Bytes(At(args))["high"]]]
    /\ args' = [x |-> 0, y |-> 0]
    /\ UNCHANGED <<screen, odd>>

Boot == ResetY \/ ResetX \/ LoadY \/ LoadX \/ SelectLow \/ WriteLow \/ WriteHigh

(* print_scancode.                                                          *)
Dropped(c, t) ==
    \/ Len(buf[t]) >= BUF_LENGTH - 1 /\ c # NewLine
    \/ line_buffer_flag[t]

print_scancode(c) ==
    LET t == cur_terminal
    IN  IF Dropped(c, t) THEN UNCHANGED <<screen, display, buf>>
        ELSE /\ Show(t, putc(screen[t], c))
             /\ buf' = [buf EXCEPT ![t] = Append(@, c)]

PressChar(c) ==
    /\ Free
    /\ print_scancode(c)
    /\ UNCHANGED <<cur_terminal, cur_sched_term, line_buffer_flag, pc, repaint, startup, odd>>

PressEnter ==
    /\ Free
    /\ print_scancode(NewLine)
    /\ line_buffer_flag' = [line_buffer_flag EXCEPT ![cur_terminal] = TRUE]
    /\ UNCHANGED <<cur_terminal, cur_sched_term, pc, repaint, startup, odd>>

(* Backspace looks at the buffer, not at the page.  A newline it takes puts *)
(* the cursor at the end of the row above.                                  *)
AnyBackspace(t) == TRUE
MayErase(t) == Len(buf[t]) > 0

PressBackspace ==
    LET t == cur_terminal
        n == Len(buf[t])
    IN  /\ Free /\ MayErase(t)
        /\ buf' = [buf EXCEPT ![t] = SubSeq(@, 1, n - 1)]
        /\ Show(t, back_space(screen[t]))
        /\ odd' = [odd EXCEPT ![t] =
               IF n <= 1 THEN @ \cap Lasting
               ELSE IF buf[t][n] = NewLine THEN @ \cup {"joined"} ELSE @]
        /\ UNCHANGED <<cur_terminal, cur_sched_term, line_buffer_flag, pc, repaint, startup>>

(* Ctrl+L: clear, reset_screen, then every character of the buffer, with    *)
(* interrupts off throughout.                                               *)
PressCtrlL ==
    LET t == cur_terminal
    IN  /\ Free
        /\ Show(t, reset_screen(clear(screen[t])))
        /\ repaint' = 0
        /\ odd' = [odd EXCEPT ![t] = {}]
        /\ UNCHANGED <<cur_terminal, cur_sched_term, buf, line_buffer_flag, pc, startup>>

NotRepainted(t) == UNCHANGED <<screen, display>>
Repainted(t) == Show(t, putc(screen[t], buf[t][repaint + 1]))

Repaint ==
    LET t == cur_terminal
    IN  /\ repaint # IDLE
        /\ IF repaint < Len(buf[t]) THEN repaint' = repaint + 1 /\ Repainted(t)
                                    ELSE repaint' = IDLE /\ UNCHANGED <<screen, display>>
        /\ UNCHANGED <<cur_terminal, cur_sched_term, buf, line_buffer_flag, pc, startup, odd>>

(* Alt+Fn.                                                                  *)
change_shell(next) ==
    /\ Free
    /\ cur_terminal' = next
    /\ move_cursor(screen[next])
    /\ UNCHANGED <<cur_sched_term, screen, buf, line_buffer_flag, pc, repaint, startup, odd>>

-----------------------------------------------------------------------------
(* The programs.                                                            *)
Runs(t, label) == Free /\ Booted /\ cur_sched_term = t /\ pc[t] = label

terminal_write(t, c) ==
    /\ Runs(t, "user")
    /\ Show(t, putc(screen[t], c))
    /\ IF buf[t] = << >> THEN UNCHANGED odd ELSE Spoil(t, {"mixed"})
    /\ UNCHANGED <<cur_terminal, cur_sched_term, buf, line_buffer_flag, pc, repaint, startup>>

Drawn(s, i, c) == [s EXCEPT !.text = [@ EXCEPT ![i] = c]]

(* A program draws through the page of vidmap, which is that of its         *)
(* terminal or the displayed one.  The cursor does not move.                *)
Draw(t, page, i, c) ==
    /\ Runs(t, "user")
    /\ screen' = [screen EXCEPT ![page] = Drawn(screen[page], i, c)]
    /\ Spoil(page, IF buf[page] = << >> THEN {"dirty"} ELSE {"dirty", "mixed"})
    /\ UNCHANGED <<cur_terminal, cur_sched_term, buf, line_buffer_flag, pc, display, repaint, startup>>

ReadStart(t) ==
    /\ Runs(t, "user")
    /\ line_buffer_flag' = [line_buffer_flag EXCEPT ![t] = FALSE]
    /\ pc' = [pc EXCEPT ![t] = "wait"]
    /\ UNCHANGED <<cur_terminal, cur_sched_term, screen, buf, display, repaint, startup, odd>>

(* The buffer that is emptied is the one of the displayed terminal.         *)
ReadCopy(t) ==
    /\ Runs(t, "wait") /\ line_buffer_flag[t]
    /\ buf' = [buf EXCEPT ![cur_terminal] = << >>]
    /\ odd' = [odd EXCEPT ![cur_terminal] = @ \cap Lasting]
    /\ pc' = [pc EXCEPT ![t] = "user"]
    /\ UNCHANGED <<cur_terminal, cur_sched_term, screen, line_buffer_flag, display, repaint, startup>>

(* The PIT switches terminals once launch has run.                          *)
Tick ==
    /\ Free /\ Booted
    /\ cur_sched_term' = (cur_sched_term + 1) % SHELL_NUM
    /\ UNCHANGED <<cur_terminal, screen, buf, line_buffer_flag, pc, display, repaint, startup, odd>>

Keyboard ==
    \/ /\ cur_terminal \in Typists
       /\ (\E c \in Keys : PressChar(c)) \/ PressEnter \/ PressBackspace \/ PressCtrlL
    \/ Repaint
    \/ \E t \in Terms : change_shell(t)
Program(t) ==
    \/ \E c \in Outputs[t] : terminal_write(t, c)
    \/ \E page \in {t, cur_terminal}, d \in Drawings : Draw(t, page, d[1], d[2])
    \/ ReadStart(t) \/ ReadCopy(t)

Next == Boot \/ Keyboard \/ Tick \/ \E t \in Terms : Program(t)

Spec == Init /\ [][Next]_vars

-----------------------------------------------------------------------------
Repainting(t) == repaint # IDLE /\ t = cur_terminal

(* back_space has no bound on y, yet the cursor of a terminal never leaves  *)
(* its page, and there are always at least as many cells before it as there *)
(* are characters in kb_buf that Backspace can take: only a key typed before*)
(* the end of boot breaks this, until Ctrl+L.                               *)
OnPage ==
    \A t \in Terms : "early" \notin odd[t] =>
        /\ screen[t].x \in 0 .. NUM_COLS - 1
        /\ screen[t].y \in 0 .. NUM_ROWS - 1
        /\ ~Repainting(t) /\ Len(buf[t]) <= BUF_LENGTH => At(screen[t]) >= Len(buf[t])

(* The line being typed is on the page, right before the cursor, through    *)
(* wrapping, scrolling, Backspace, Ctrl+L, changes of terminal and output   *)
(* on the other terminals, unless a program printed or drew while it was    *)
(* typed or Backspace joined two lines.                                     *)
TypedShown ==
    \A t \in Terms :
        LET n == Len(buf[t])
            start == At(screen[t]) - n
        IN  /\ odd[t] \subseteq {"dirty"}
            /\ ~Repainting(t)
            /\ \A i \in 1 .. n : buf[t][i] # NewLine
            => start \in Cells /\ \A i \in 1 .. n : screen[t].text[start + i - 1] = buf[t][i]

(* Nothing is left of older text from the cursor on: output and echo never  *)
(* mix with characters that were scrolled, erased or cleared away.  Ctrl+L  *)
(* brings this about on a page that a program drew on or that nobody has    *)
(* cleared since boot.                                                      *)
BlankAfterCursor ==
    \A t \in Terms : odd[t] \cap Lasting = {} =>
        \A i \in Cells : i >= At(screen[t]) => screen[t].text[i] = Space

(* From the end of boot on the cursor of the display is where the displayed *)
(* terminal writes next, also while a program prints on another one.  Only  *)
(* a key that interrupts the last instructions of boot breaks this, until   *)
(* the cursor moves again.                                                  *)
CursorShown == Booted /\ ~raced => cursor.reg = Bytes(At(screen[cur_terminal]))
=============================================================================
