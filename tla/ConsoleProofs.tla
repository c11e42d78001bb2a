---------------------------- MODULE ConsoleProofs ----------------------------
(***************************************************************************)
(* Proofs about the text of the terminals and the cursor, for every size of *)
(* the page and of kb_buf that the assumption allows.                       *)
(***************************************************************************)
EXTENDS Console, TLAPS

Glyphs == Chars \cup {Space}
Screen == [text : [Cells -> Glyphs], x : Int, y : Int]

(* The cursor is on the page.                                               *)
Inside(s) == s.x \in 0 .. NUM_COLS - 1 /\ s.y \in 0 .. NUM_ROWS - 1

(* Nothing is printed from the cursor on.                                   *)
Blank(s) == \A i \in Cells : i >= At(s) => s.text[i] = Space

(* The n cells before the cursor show the first n characters of b.          *)
Shows(s, b, n) == \A i \in 1 .. n : s.text[At(s) - n + i - 1] = b[i]

(* What the assumption on the sizes means for integers.                     *)
LEMMA Sizes ==
    /\ NUM_ROWS \in Int /\ NUM_ROWS >= 1 /\ NUM_COLS \in Int /\ NUM_COLS >= 1
    /\ BUF_LENGTH \in Int /\ BUF_LENGTH >= 1
    /\ SHELL_NUM \in Int /\ SHELL_NUM >= 1
BY ConsoleAssumption

(* A product with a positive factor is monotonic.                           *)
LEMMA Times ==
    ASSUME NEW a \in Int, NEW b \in Int, NEW c \in Int, a <= b, c >= 1
    PROVE  c * a <= c * b
<1>1. PICK d \in Nat : b = a + d
  <2>1. b - a \in Nat /\ b = a + (b - a)
    OBVIOUS
  <2> QED
    BY <2>1
<1>2. c * b = c * a + c * d
  BY <1>1
<1>3. c * d >= 0
  BY <1>1
<1>4. c * a \in Int /\ c * b \in Int /\ c * d \in Int
  BY <1>1
<1> QED
  BY <1>2, <1>3, <1>4

(* Where the rows of the page begin.                                        *)
LEMMA Rows ==
    ASSUME NEW y \in 0 .. NUM_ROWS - 1
    PROVE  /\ NUM_COLS * y \in Int /\ NUM_ROWS * NUM_COLS \in Int
           /\ NUM_COLS * y >= 0 /\ NUM_COLS * y <= NUM_ROWS * NUM_COLS - NUM_COLS
           /\ NUM_COLS * (y + 1) = NUM_COLS * y + NUM_COLS
           /\ NUM_COLS * (y - 1) = NUM_COLS * y - NUM_COLS
           /\ NUM_COLS * (NUM_ROWS - 1) = NUM_ROWS * NUM_COLS - NUM_COLS
           /\ (NUM_ROWS - 1) * NUM_COLS = NUM_ROWS * NUM_COLS - NUM_COLS
           /\ NUM_COLS * 0 = 0
<1>0. y \in Int /\ 0 <= y /\ y <= NUM_ROWS - 1
  BY Sizes
<1>1. NUM_COLS * y \in Int /\ NUM_ROWS * NUM_COLS \in Int /\ NUM_COLS * 0 = 0
  BY Sizes, <1>0
<1>2. /\ NUM_COLS * (y + 1) = NUM_COLS * y + NUM_COLS
      /\ NUM_COLS * (y - 1) = NUM_COLS * y - NUM_COLS
  BY Sizes, <1>0
<1>3. /\ NUM_COLS * (NUM_ROWS - 1) = NUM_ROWS * NUM_COLS - NUM_COLS
      /\ (NUM_ROWS - 1) * NUM_COLS = NUM_ROWS * NUM_COLS - NUM_COLS
  BY Sizes
<1>4. NUM_COLS * 0 <= NUM_COLS * y
  BY Times, Sizes, <1>0
<1>5. NUM_COLS * y <= NUM_COLS * (NUM_ROWS - 1)
  BY Times, Sizes, <1>0
<1> QED
  BY <1>1, <1>2, <1>3, <1>4, <1>5

(* The divisions of putc and of the scheduler: a position on the page is
   left as it is, and the turn stays among the terminals.                   *)
LEMMA Wraps ==
    /\ \A x \in 0 .. NUM_COLS - 1 : x \div NUM_COLS = 0
    /\ \A y \in 0 .. NUM_ROWS - 1 : y % NUM_ROWS = y
    /\ \A x \in Int : x \div NUM_COLS \in Int
    /\ \A y \in Int : y % NUM_ROWS \in Int
    /\ \A t \in Terms : (t + 1) % SHELL_NUM \in Terms
<1>1. \A x \in 0 .. NUM_COLS - 1 : x \div NUM_COLS = 0
  BY Sizes
<1>2. \A y \in 0 .. NUM_ROWS - 1 : y % NUM_ROWS = y
  BY Sizes
<1>3. (\A x \in Int : x \div NUM_COLS \in Int) /\ (\A y \in Int : y % NUM_ROWS \in Int)
  BY Sizes
<1>4. \A t \in Terms : (t + 1) % SHELL_NUM \in Terms
  BY Sizes DEF Terms
<1> QED
  BY <1>1, <1>2, <1>3, <1>4

-----------------------------------------------------------------------------
(* The functions of lib.c on one screen.                                    *)

(* The types of the parts of a screen.                                      *)
LEMMA Fields ==
    ASSUME NEW s \in Screen
    PROVE  /\ s.text \in [Cells -> Glyphs] /\ s.x \in Int /\ s.y \in Int /\ At(s) \in Int
<1>1. s.text \in [Cells -> Glyphs] /\ s.x \in Int /\ s.y \in Int
  BY DEF Screen
<1> QED
  BY <1>1, Sizes DEF At

(* A cursor inside the page is on one of its cells.                         *)
LEMMA Place ==
    ASSUME NEW s \in Screen, Inside(s)
    PROVE  /\ At(s) \in Cells /\ At(s) = NUM_COLS * s.y + s.x
           /\ At(s) >= 0 /\ At(s) < NUM_ROWS * NUM_COLS
<1>1. s.x \in Int /\ 0 <= s.x /\ s.x <= NUM_COLS - 1 /\ s.y \in 0 .. NUM_ROWS - 1
  BY Fields, Sizes DEF Inside
<1>2. PICK r : r = NUM_COLS * s.y
  OBVIOUS
<1>3. PICK page : page = NUM_ROWS * NUM_COLS
  OBVIOUS
<1>4. r \in Int /\ page \in Int /\ r >= 0 /\ r <= page - NUM_COLS
  BY <1>1, <1>2, <1>3, Rows
<1>5. At(s) = r + s.x
  BY <1>2 DEF At
<1>6. At(s) \in Int /\ At(s) >= 0 /\ At(s) < page
  BY <1>1, <1>4, <1>5, Sizes
<1> QED
  BY <1>2, <1>3, <1>4, <1>5, <1>6 DEF Cells

(* scroll_up turns a page of characters into one.                           *)
LEMMA ScrollTyped ==
    ASSUME NEW text \in [Cells -> Glyphs]
    PROVE  scroll_up(text) \in [Cells -> Glyphs]
BY DEF scroll_up, Glyphs

(* The last row is blank after scroll_up, the others are one row higher.    *)
LEMMA Scrolled ==
    ASSUME NEW text, NEW i \in Cells
    PROVE  /\ i < NUM_ROWS * NUM_COLS - NUM_COLS => scroll_up(text)[i] = text[i + NUM_COLS]
           /\ i >= NUM_ROWS * NUM_COLS - NUM_COLS => scroll_up(text)[i] = Space
<1>1. PICK page : page = NUM_ROWS * NUM_COLS
  OBVIOUS
<1>2. page \in Int
  BY <1>1, Sizes
<1>3. i + NUM_COLS \in Cells <=> i < page - NUM_COLS
  BY <1>1, <1>2, Sizes DEF Cells
<1> QED
  BY <1>1, <1>2, <1>3, Sizes DEF scroll_up, Cells

(* A screen with other fields.                                              *)
LEMMA Placed ==
    ASSUME NEW s \in Screen, NEW x \in Int
    PROVE  /\ [s EXCEPT !.x = x] \in Screen
           /\ [s EXCEPT !.x = x].text = s.text /\ [s EXCEPT !.x = x].x = x
           /\ [s EXCEPT !.x = x].y = s.y
BY DEF Screen

(* A change of y alone.                                                     *)
LEMMA Lowered ==
    ASSUME NEW s \in Screen, NEW y \in Int
    PROVE  /\ [s EXCEPT !.y = y] \in Screen
           /\ [s EXCEPT !.y = y].text = s.text /\ [s EXCEPT !.y = y].x = s.x
           /\ [s EXCEPT !.y = y].y = y
BY DEF Screen

(* A change of the text alone.                                              *)
LEMMA Written ==
    ASSUME NEW s \in Screen, NEW text \in [Cells -> Glyphs]
    PROVE  /\ [s EXCEPT !.text = text] \in Screen
           /\ [s EXCEPT !.text = text].text = text /\ [s EXCEPT !.text = text].x = s.x
           /\ [s EXCEPT !.text = text].y = s.y
BY DEF Screen

(* new_line goes to the first column of the next row, and scrolls in the
   last.                                                                    *)
LEMMA NewLineTyped ==
    ASSUME NEW s \in Screen
    PROVE  /\ new_line(s) \in Screen
           /\ new_line(s).x = 0
           /\ new_line(s).text = IF s.y = NUM_ROWS - 1 THEN scroll_up(s.text) ELSE s.text
           /\ new_line(s).y = IF s.y = NUM_ROWS - 1 THEN s.y ELSE s.y + 1
<1>1. CASE s.y = NUM_ROWS - 1
  <2>1. PICK text : text = scroll_up(s.text)
    OBVIOUS
  <2>2. text \in [Cells -> Glyphs]
    BY <2>1, Fields, ScrollTyped
  <2>3. PICK w : w = [s EXCEPT !.text = text]
    OBVIOUS
  <2>4. w \in Screen /\ w.text = text /\ w.y = s.y
    BY <2>2, <2>3, Written
  <2>5. new_line(s) = [w EXCEPT !.x = 0]
    BY <1>1, <2>1, <2>3 DEF new_line
  <2> QED
    BY <1>1, <2>1, <2>4, <2>5, Placed
<1>2. CASE s.y # NUM_ROWS - 1
  <2>1. PICK y : y = s.y + 1
    OBVIOUS
  <2>2. y \in Int
    BY <2>1, Fields
  <2>3. PICK w : w = [s EXCEPT !.y = y]
    OBVIOUS
  <2>4. w \in Screen /\ w.text = s.text /\ w.y = y
    BY <2>2, <2>3, Lowered
  <2>5. new_line(s) = [w EXCEPT !.x = 0]
    BY <1>2, <2>1, <2>3 DEF new_line
  <2> QED
    BY <1>2, <2>1, <2>4, <2>5, Placed
<1> QED
  BY <1>1, <1>2

(* new_line goes to the row below, or scrolls the page under the cursor.    *)
LEMMA NewLineFacts ==
    ASSUME NEW s \in Screen, s.x \in Int, s.y \in 0 .. NUM_ROWS - 1
    PROVE  /\ Inside(new_line(s))
           /\ \/ /\ s.y = NUM_ROWS - 1 /\ new_line(s).text = scroll_up(s.text)
                 /\ At(new_line(s)) = NUM_ROWS * NUM_COLS - NUM_COLS
              \/ /\ s.y < NUM_ROWS - 1 /\ new_line(s).text = s.text
                 /\ At(new_line(s)) = NUM_COLS * s.y + NUM_COLS
<1>1. PICK p : p = new_line(s)
  OBVIOUS
<1>2. /\ p.x = 0 /\ p.text = IF s.y = NUM_ROWS - 1 THEN scroll_up(s.text) ELSE s.text
      /\ p.y = IF s.y = NUM_ROWS - 1 THEN s.y ELSE s.y + 1
  BY <1>1, NewLineTyped
<1>3. p.y \in 0 .. NUM_ROWS - 1
  BY <1>2, Sizes
<1>4. Inside(p)
  BY <1>2, <1>3, Sizes DEF Inside
<1>5. At(p) = NUM_COLS * p.y
  BY <1>2, <1>3, Rows DEF At
<1>6. CASE s.y = NUM_ROWS - 1
  BY <1>1, <1>2, <1>4, <1>5, <1>6, Rows
<1>7. CASE s.y # NUM_ROWS - 1
  <2>1. s.y < NUM_ROWS - 1
    BY <1>7, Sizes
  <2> QED
    BY <1>1, <1>2, <1>4, <1>5, <1>7, <2>1, Rows
<1> QED
  BY <1>6, <1>7

(* putc's correction of y does nothing inside the page.                     *)
LEMMA WrapTyped ==
    ASSUME NEW s \in Screen
    PROVE  Wrap(s) \in Screen /\ (Inside(s) => Wrap(s) = s)
<1>1. PICK y : y = (s.y + (s.x \div NUM_COLS)) % NUM_ROWS
  OBVIOUS
<1>2. s.x \in Int /\ s.y \in Int /\ s.x \div NUM_COLS \in Int
  BY Fields, Wraps
<1>3. y \in Int
  BY <1>1, <1>2, Wraps
<1>4. Wrap(s) = [s EXCEPT !.y = y]
  BY <1>1 DEF Wrap
<1>5. Inside(s) => y = s.y
  BY <1>1, <1>2, Wraps DEF Inside
<1>6. Wrap(s) \in Screen
  BY <1>3, <1>4, Lowered
<1>7. [s EXCEPT !.y = s.y] = s
  BY DEF Screen
<1> QED
  BY <1>4, <1>5, <1>6, <1>7

(* putc of a character: the cell of the cursor takes it and the cursor goes *)
(* one on, or the page scrolls.                                             *)
LEMMA PutTyped ==
    ASSUME NEW s \in Screen, NEW c \in Chars \cup {NewLine}
    PROVE  putc(s, c) \in Screen
<1>1. CASE c = NewLine
  BY <1>1, NewLineTyped DEF putc
<1>2. CASE c # NewLine
  <2>1. PICK text : text = [s.text EXCEPT ![At(s)] = c]
    OBVIOUS
  <2>2. text \in [Cells -> Glyphs]
    BY <1>2, <2>1, Fields DEF Glyphs
  <2>3. PICK x : x = s.x + 1
    OBVIOUS
  <2>4. x \in Int
    BY <2>3, Fields
  <2>5. PICK w : w = [s EXCEPT !.text = text, !.x = x]
    OBVIOUS
  <2>6. w \in Screen
    BY <2>2, <2>4, <2>5 DEF Screen
  <2>7. putc(s, c) = Wrap(IF w.x = NUM_COLS THEN new_line(w) ELSE w)
    BY <1>2, <2>1, <2>3, <2>5 DEF putc
  <2> QED
    BY <2>6, <2>7, NewLineTyped, WrapTyped
<1> QED
  BY <1>1, <1>2

(* putc of a character writes at the cursor and moves on by one cell; after
   the last cell it scrolls and goes to the beginning of the last row.      *)
LEMMA PutFacts ==
    ASSUME NEW s \in Screen, Inside(s), NEW c \in Chars
    PROVE  /\ Inside(putc(s, c))
           /\ \/ /\ putc(s, c).text = [s.text EXCEPT ![At(s)] = c]
                 /\ At(putc(s, c)) = At(s) + 1
              \/ /\ putc(s, c).text = scroll_up([s.text EXCEPT ![At(s)] = c])
                 /\ At(s) = NUM_ROWS * NUM_COLS - 1
                 /\ At(putc(s, c)) = NUM_ROWS * NUM_COLS - NUM_COLS
<1>0. c # NewLine
  BY ConsoleAssumption DEF NewLine
<1>1. PICK text : text = [s.text EXCEPT ![At(s)] = c]
  OBVIOUS
<1>2. text \in [Cells -> Glyphs]
  BY <1>1, Fields DEF Glyphs
<1>3. PICK x : x = s.x + 1
  OBVIOUS
<1>4. x \in Int /\ x \in 1 .. NUM_COLS /\ s.y \in 0 .. NUM_ROWS - 1
  BY <1>3, Fields, Sizes DEF Inside
<1>5. PICK w : w = [s EXCEPT !.text = text, !.x = x]
  OBVIOUS
<1>6. w \in Screen /\ w.text = text /\ w.x = x /\ w.y = s.y
  <2>1. PICK v : v = [s EXCEPT !.text = text]
    OBVIOUS
  <2>2. v \in Screen /\ v.text = text /\ v.y = s.y
    BY <1>2, <2>1, Written
  <2>3. w = [v EXCEPT !.x = x]
    BY <1>5, <2>1
  <2> QED
    BY <1>4, <2>2, <2>3, Placed
<1>7. putc(s, c) = Wrap(IF w.x = NUM_COLS THEN new_line(w) ELSE w)
  BY <1>0, <1>1, <1>3, <1>5 DEF putc
<1>8. PICK r : r = NUM_COLS * s.y
  OBVIOUS
<1>9. r \in Int /\ At(s) = r + s.x /\ s.x \in Int
  BY <1>4, <1>8, Rows, Fields DEF At
<1>10. CASE x < NUM_COLS
  <2>1. Inside(w)
    BY <1>4, <1>6, <1>10, Sizes DEF Inside
  <2>2. putc(s, c) = w
    BY <1>6, <1>7, <1>10, <2>1, Sizes, WrapTyped
  <2>3. At(w) = r + x
    BY <1>6, <1>8 DEF At
  <2>4. At(w) = At(s) + 1
    BY <1>3, <1>9, <2>3
  <2> QED
    BY <1>1, <1>6, <2>1, <2>2, <2>4
<1>11. CASE x = NUM_COLS
  <2>1. PICK p : p = new_line(w)
    OBVIOUS
  <2>2. p \in Screen /\ Inside(p)
    BY <1>4, <1>6, <2>1, NewLineTyped, NewLineFacts
  <2>3. putc(s, c) = p
    BY <1>6, <1>7, <1>11, <2>1, <2>2, WrapTyped
  <2>4. \/ /\ s.y = NUM_ROWS - 1 /\ p.text = scroll_up(text)
           /\ At(p) = NUM_ROWS * NUM_COLS - NUM_COLS
        \/ /\ s.y < NUM_ROWS - 1 /\ p.text = text /\ At(p) = r + NUM_COLS
    BY <1>4, <1>6, <1>8, <2>1, NewLineFacts
  <2>5. s.y = NUM_ROWS - 1 => r = NUM_ROWS * NUM_COLS - NUM_COLS
    BY <1>4, <1>8, Rows
  <2>6. At(s) = r + NUM_COLS - 1 /\ NUM_ROWS * NUM_COLS \in Int
    BY <1>3, <1>4, <1>9, <1>11, Sizes, Rows
  <2> QED
    BY <1>1, <1>9, <2>2, <2>3, <2>4, <2>5, <2>6, Sizes
<1> QED
  BY <1>4, <1>10, <1>11, Sizes

(* back_space goes one cell back and blanks it.                             *)
LEMMA BackTyped ==
    ASSUME NEW s \in Screen
    PROVE  /\ back_space(s) \in Screen
           /\ back_space(s).x = IF s.x = 0 THEN NUM_COLS - 1 ELSE s.x - 1
           /\ back_space(s).y = IF s.x = 0 THEN s.y - 1 ELSE s.y
           /\ back_space(s).text = [s.text EXCEPT ![At(back_space(s))] = Space]
<1>1. PICK b : b = IF s.x = 0 THEN [s EXCEPT !.x = NUM_COLS - 1, !.y = s.y - 1]
                              ELSE [s EXCEPT !.x = s.x - 1]
  OBVIOUS
<1>2. back_space(s) = [b EXCEPT !.text = [b.text EXCEPT ![At(b)] = Space]]
  BY <1>1 DEF back_space
<1>3. /\ b \in Screen /\ b.text = s.text
      /\ b.x = IF s.x = 0 THEN NUM_COLS - 1 ELSE s.x - 1
      /\ b.y = IF s.x = 0 THEN s.y - 1 ELSE s.y
  <2>1. CASE s.x = 0
    <3>1. NUM_COLS - 1 \in Int /\ s.y - 1 \in Int
      BY Sizes, Fields
    <3>2. PICK w : w = [s EXCEPT !.x = NUM_COLS - 1]
      OBVIOUS
    <3>3. b = [w EXCEPT !.y = s.y - 1]
      BY <1>1, <2>1, <3>2
    <3>4. w \in Screen /\ w.text = s.text /\ w.x = NUM_COLS - 1
      BY <3>1, <3>2, Placed
    <3> QED
      BY <2>1, <3>1, <3>3, <3>4, Lowered
  <2>2. CASE s.x # 0
    <3>1. s.x - 1 \in Int
      BY Fields
    <3> QED
      BY <1>1, <2>2, <3>1, Placed
  <2> QED
    BY <2>1, <2>2
<1>4. PICK text : text = [s.text EXCEPT ![At(b)] = Space]
  OBVIOUS
<1>5. text \in [Cells -> Glyphs]
  BY <1>4, Fields DEF Glyphs
<1>6. PICK p : p = back_space(s)
  OBVIOUS
<1>7. p \in Screen /\ p.text = text /\ p.x = b.x /\ p.y = b.y
  BY <1>2, <1>3, <1>4, <1>5, <1>6, Written
<1>8. At(p) = At(b)
  BY <1>7 DEF At
<1> QED
  BY <1>3, <1>4, <1>6, <1>7, <1>8

(* back_space goes back by one cell and blanks it, over the beginning of a
   row too.                                                                 *)
LEMMA BackFacts ==
    ASSUME NEW s \in Screen, Inside(s), At(s) >= 1
    PROVE  /\ Inside(back_space(s)) /\ At(back_space(s)) = At(s) - 1
           /\ back_space(s).text = [s.text EXCEPT ![At(s) - 1] = Space]
<1>1. PICK p : p = back_space(s)
  OBVIOUS
<1>2. /\ p \in Screen
      /\ p.x = IF s.x = 0 THEN NUM_COLS - 1 ELSE s.x - 1
      /\ p.y = IF s.x = 0 THEN s.y - 1 ELSE s.y
      /\ p.text = [s.text EXCEPT ![At(p)] = Space]
  BY <1>1, BackTyped
<1>3. s.x \in 0 .. NUM_COLS - 1 /\ s.y \in 0 .. NUM_ROWS - 1
  BY DEF Inside
<1>4. PICK r : r = NUM_COLS * s.y
  OBVIOUS
<1>5. r \in Int /\ At(s) = r + s.x
  BY <1>3, <1>4, Rows DEF At
<1>6. CASE s.x = 0
  <2>1. s.y # 0
    BY <1>3, <1>4, <1>5, <1>6, Rows
  <2>2. Inside(p)
    BY <1>2, <1>3, <1>6, <2>1, Sizes DEF Inside
  <2>3. NUM_COLS * (s.y - 1) = r - NUM_COLS
    BY <1>3, <1>4, Rows
  <2>4. At(p) = r - NUM_COLS + (NUM_COLS - 1)
    BY <1>2, <1>6, <2>3 DEF At
  <2>5. At(p) = At(s) - 1
    BY <1>5, <1>6, <2>4, Sizes
  <2> QED
    BY <1>1, <1>2, <2>2, <2>5
<1>7. CASE s.x # 0
  <2>1. Inside(p)
    BY <1>2, <1>3, <1>7, Sizes DEF Inside
  <2>2. At(p) = r + (s.x - 1)
    BY <1>2, <1>4, <1>7 DEF At
  <2>3. At(p) = At(s) - 1
    BY <1>3, <1>5, <2>2, Sizes
  <2> QED
    BY <1>1, <1>2, <2>1, <2>3
<1> QED
  BY <1>6, <1>7

(* reset_screen, alone and after clear.                                     *)
LEMMA ResetFacts ==
    ASSUME NEW s \in Screen
    PROVE  /\ reset_screen(s) \in Screen /\ Inside(reset_screen(s)) /\ At(reset_screen(s)) = 0
           /\ reset_screen(s).text = s.text
           /\ clear(s) \in Screen
           /\ \A i \in Cells : clear(s).text[i] = Space
<1>1. PICK w : w = [s EXCEPT !.x = 0]
  OBVIOUS
<1>2. w \in Screen /\ w.text = s.text /\ w.x = 0
  BY <1>1, Placed
<1>3. PICK p : p = reset_screen(s)
  OBVIOUS
<1>4. p = [w EXCEPT !.y = 0]
  BY <1>1, <1>3 DEF reset_screen
<1>5. p \in Screen /\ p.text = s.text /\ p.x = 0 /\ p.y = 0
  BY <1>2, <1>4, Lowered
<1>6. Inside(p) /\ At(p) = 0
  BY <1>5, Sizes DEF Inside, At
<1>7. PICK text : text = [i \in Cells |-> Space]
  OBVIOUS
<1>8. text \in [Cells -> Glyphs] /\ \A i \in Cells : text[i] = Space
  BY <1>7 DEF Glyphs
<1>9. clear(s) \in Screen /\ clear(s).text = text
  BY <1>7, <1>8, Written DEF clear, BlankPage
<1> QED
  BY <1>3, <1>5, <1>6, <1>8, <1>9

-----------------------------------------------------------------------------
(* What the functions keep.                                                 *)

(* putc goes on by a cell at least, or to a row after all that kb_buf can   *)
(* hold.  It leaves nothing behind the cursor if nothing was there: the row *)
(* it enters is blank, or it is the one that scroll_up has cleared.         *)
LEMMA PutBlank ==
    ASSUME NEW s \in Screen, Inside(s), NEW c \in Chars \cup {NewLine}
    PROVE  /\ Inside(putc(s, c)) /\ (Blank(s) => Blank(putc(s, c)))
           /\ At(putc(s, c)) >= At(s) + 1 \/ At(putc(s, c)) >= BUF_LENGTH
<1>1. PICK p : p = putc(s, c)
  OBVIOUS
<1>2. PICK page : page = NUM_ROWS * NUM_COLS
  OBVIOUS
<1>3. /\ page \in Int /\ At(s) \in Int /\ Cells = 0 .. page - 1
      /\ BUF_LENGTH <= page - NUM_COLS
  <2>1. BUF_LENGTH <= (NUM_ROWS - 1) * NUM_COLS
    BY ConsoleAssumption
  <2>2. 0 \in 0 .. NUM_ROWS - 1
    BY Sizes
  <2> QED
    BY <1>2, <2>1, <2>2, Fields, Rows DEF Cells
<1>4. ASSUME NEW text, p.text = scroll_up(text), At(p) = page - NUM_COLS
      PROVE  Blank(p) /\ At(p) >= BUF_LENGTH
  BY <1>2, <1>3, <1>4, Scrolled, Sizes DEF Blank
<1>5. CASE c = NewLine
  <2>1. p = new_line(s) /\ s.x \in Int /\ s.y \in 0 .. NUM_ROWS - 1
    BY <1>1, <1>5, Fields DEF putc, Inside
  <2>2. Inside(p)
    BY <2>1, NewLineFacts
  <2>3. CASE p.text = scroll_up(s.text) /\ At(p) = page - NUM_COLS
    BY <1>1, <1>4, <2>2, <2>3
  <2>4. CASE p.text = s.text /\ At(p) = NUM_COLS * s.y + NUM_COLS
    <3>1. PICK r : r = NUM_COLS * s.y
      OBVIOUS
    <3>2. r \in Int /\ At(s) = r + s.x /\ s.x \in Int /\ s.x < NUM_COLS
      BY <2>1, <3>1, Rows, Fields, Sizes DEF At, Inside
    <3>3. At(p) \in Int /\ At(p) >= At(s) + 1
      BY <2>4, <3>1, <3>2, Sizes
    <3>4. Blank(s) => Blank(p)
      BY <1>3, <2>4, <3>3 DEF Blank
    <3> QED
      BY <1>1, <2>2, <3>3, <3>4
  <2> QED
    BY <1>2, <2>1, <2>3, <2>4, NewLineFacts
<1>6. CASE c # NewLine
  <2>1. c \in Chars
    BY <1>6
  <2>2. /\ Inside(p)
        /\ \/ /\ p.text = [s.text EXCEPT ![At(s)] = c] /\ At(p) = At(s) + 1
           \/ /\ p.text = scroll_up([s.text EXCEPT ![At(s)] = c])
              /\ At(p) = page - NUM_COLS
    BY <1>1, <1>2, <2>1, PutFacts
  <2>3. CASE p.text = [s.text EXCEPT ![At(s)] = c] /\ At(p) = At(s) + 1
    <3>1. s.text \in [Cells -> Glyphs]
      BY Fields
    <3>2. Blank(s) => Blank(p)
      BY <1>3, <2>3, <3>1 DEF Blank
    <3> QED
      BY <1>1, <1>3, <2>2, <2>3, <3>2
  <2> QED
    BY <1>1, <1>4, <2>2, <2>3
<1> QED
  BY <1>5, <1>6

(* A character that is echoed stands right before the cursor, after those   *)
(* echoed before it, also when they have just scrolled.                     *)
LEMMA PutShows ==
    ASSUME NEW s \in Screen, Inside(s), NEW b, NEW n \in Nat, b[n + 1] \in Chars,
           n <= At(s), n + 1 <= BUF_LENGTH, Shows(s, b, n)
    PROVE  Shows(putc(s, b[n + 1]), b, n + 1)
<1>1. PICK c : c = b[n + 1]
  OBVIOUS
<1>2. PICK p : p = putc(s, c)
  OBVIOUS
<1>3. PICK page : page = NUM_ROWS * NUM_COLS
  OBVIOUS
<1>4. /\ page \in Int /\ At(s) \in Int /\ Cells = 0 .. page - 1 /\ At(s) \in Cells
      /\ BUF_LENGTH <= page - NUM_COLS
  <2>1. BUF_LENGTH <= (NUM_ROWS - 1) * NUM_COLS
    BY ConsoleAssumption
  <2>2. 0 \in 0 .. NUM_ROWS - 1
    BY Sizes
  <2> QED
    BY <1>3, <2>1, <2>2, Fields, Rows, Place DEF Cells
<1>5. PICK text : text = [s.text EXCEPT ![At(s)] = c]
  OBVIOUS
<1>6. PICK a : a = At(s)
  OBVIOUS
<1>7. \A i \in 1 .. n + 1 : text[a - n + i - 1] = b[i]
  <2> SUFFICES ASSUME NEW i \in 1 .. n + 1 PROVE text[a - n + i - 1] = b[i]
    OBVIOUS
  <2>1. s.text \in [Cells -> Glyphs]
    BY Fields
  <2>2. CASE i = n + 1
    BY <1>1, <1>4, <1>5, <1>6, <2>1, <2>2
  <2>3. CASE i \in 1 .. n
    <3>1. s.text[a - n + i - 1] = b[i]
      BY <1>6, <2>3 DEF Shows
    <3>2. a - n + i - 1 \in Cells /\ a - n + i - 1 # a
      BY <1>4, <1>6, <2>3
    <3> QED
      BY <1>5, <1>6, <2>1, <3>1, <3>2
  <2> QED
    BY <2>2, <2>3
<1>8. \/ p.text = text /\ At(p) = a + 1
      \/ p.text = scroll_up(text) /\ a = page - 1 /\ At(p) = page - NUM_COLS
  BY <1>1, <1>2, <1>3, <1>5, <1>6, PutFacts
<1>9. CASE p.text = text /\ At(p) = a + 1
  <2>1. ASSUME NEW i \in 1 .. n + 1 PROVE p.text[At(p) - (n + 1) + i - 1] = b[i]
    <3>1. At(p) - (n + 1) + i - 1 = a - n + i - 1
      BY <1>4, <1>6, <1>9
    <3> QED
      BY <1>7, <1>9, <3>1
  <2> QED
    BY <1>1, <1>2, <2>1 DEF Shows
<1>10. CASE p.text = scroll_up(text) /\ a = page - 1 /\ At(p) = page - NUM_COLS
  <2>1. ASSUME NEW i \in 1 .. n + 1 PROVE p.text[At(p) - (n + 1) + i - 1] = b[i]
    <3>1. PICK j : j = At(p) - (n + 1) + i - 1
      OBVIOUS
    <3>2. j \in Cells /\ j < page - NUM_COLS /\ j + NUM_COLS = a - n + i - 1
      BY <1>4, <1>10, <3>1, Sizes
    <3>3. scroll_up(text)[j] = text[j + NUM_COLS]
      BY <1>3, <3>2, Scrolled
    <3> QED
      BY <1>7, <1>10, <3>1, <3>2, <3>3
  <2> QED
    BY <1>1, <1>2, <2>1 DEF Shows
<1> QED
  BY <1>8, <1>9, <1>10

(* Backspace erases the last character and no other.                        *)
LEMMA BackKeeps ==
    ASSUME NEW s \in Screen, Inside(s), NEW b, NEW n \in Nat, n >= 1, n <= At(s)
    PROVE  /\ Blank(s) => Blank(back_space(s))
           /\ Shows(s, b, n) => Shows(back_space(s), b, n - 1)
<1>1. PICK p : p = back_space(s)
  OBVIOUS
<1>2. PICK a : a = At(s)
  OBVIOUS
<1>3. a \in Int /\ a \in Cells /\ a >= 1 /\ s.text \in [Cells -> Glyphs]
  BY <1>2, Fields, Place
<1>4. At(p) = a - 1 /\ p.text = [s.text EXCEPT ![a - 1] = Space]
  BY <1>1, <1>2, <1>3, BackFacts
<1>5. ASSUME Blank(s), NEW i \in Cells, i >= a - 1 PROVE p.text[i] = Space
  <2>1. i \in Int
    BY Sizes DEF Cells
  <2>2. i = a - 1 \/ i >= a
    BY <1>3, <1>5, <2>1
  <2> QED
    BY <1>2, <1>3, <1>4, <1>5, <2>2 DEF Blank
<1>6. ASSUME Shows(s, b, n), NEW i \in 1 .. n - 1
      PROVE  p.text[At(p) - (n - 1) + i - 1] = b[i]
  <2>1. PICK j : j = a - n + i - 1
    OBVIOUS
  <2>2. At(p) - (n - 1) + i - 1 = j /\ j # a - 1
    BY <1>3, <1>4, <2>1
  <2>3. s.text[j] = b[i]
    BY <1>2, <1>6, <2>1 DEF Shows
  <2>4. p.text[j] = s.text[j]
    <3>1. j \in Cells
      BY <1>2, <1>3, <2>1, Sizes DEF Cells
    <3> QED
      BY <1>3, <1>4, <2>2, <3>1
  <2> QED
    BY <2>2, <2>3, <2>4
<1> QED
  BY <1>1, <1>4, <1>5, <1>6 DEF Blank, Shows

-----------------------------------------------------------------------------
(* One terminal: its screen s, its buffer b, what spoiled it, o, and the    *)
(* number n of characters of the buffer that were printed since Ctrl+L.     *)
Plain(b) == \A i \in 1 .. Len(b) : b[i] # NewLine
Buffers == Seq(Keys \cup {NewLine})
Spoils == SUBSET {"early", "dirty", "mixed", "joined"}

Good(s, b, o, n) ==
    /\ s \in Screen
    /\ "early" \notin o => Inside(s) /\ (Len(b) <= BUF_LENGTH => At(s) >= n)
    /\ o \cap Lasting = {} => Blank(s)
    /\ Plain(b) => Len(b) <= BUF_LENGTH - 1
    /\ o \subseteq {"dirty"} /\ Plain(b) => Shows(s, b, n)

(* What a page is spared that nothing has spoiled for good, and what one is *)
(* that was only drawn on.                                                  *)
LEMMA SpoilFacts ==
    ASSUME NEW o
    PROVE  /\ o \cap Lasting = {} => "early" \notin o
           /\ o \subseteq {"dirty"} => "early" \notin o
BY DEF Lasting

(* What keys print is not a newline.                                        *)
LEMMA KeyFacts == Keys \cup {NewLine} \subseteq Chars \cup {NewLine} /\ NewLine \notin Chars
BY ConsoleAssumption DEF NewLine

(* The next character of the buffer is printed, by the key or by Ctrl+L.    *)
LEMMA GoodPut ==
    ASSUME NEW s, NEW b \in Buffers, NEW o, NEW n \in Nat, n < Len(b), Good(s, b, o, n)
    PROVE  Good(putc(s, b[n + 1]), b, o, n + 1)
<1>1. PICK c : c = b[n + 1]
  OBVIOUS
<1>2. PICK p : p = putc(s, c)
  OBVIOUS
<1>3. n + 1 \in 1 .. Len(b) /\ Len(b) \in Nat
  BY DEF Buffers
<1>4. c \in Keys \cup {NewLine} /\ c \in Chars \cup {NewLine}
  BY <1>1, <1>3, KeyFacts DEF Buffers
<1>5. s \in Screen /\ p \in Screen
  BY <1>2, <1>4, PutTyped DEF Good
<1>6. ASSUME "early" \notin o
      PROVE  /\ Inside(p) /\ (Blank(s) => Blank(p))
             /\ Len(b) <= BUF_LENGTH => At(p) >= n + 1
  <2>1. Inside(s)
    BY <1>6 DEF Good
  <2>2. /\ Inside(p) /\ (Blank(s) => Blank(p))
        /\ At(p) >= At(s) + 1 \/ At(p) >= BUF_LENGTH
    BY <1>2, <1>4, <1>5, <2>1, PutBlank
  <2>3. Len(b) <= BUF_LENGTH => At(s) >= n
    BY <1>6 DEF Good
  <2>4. At(s) \in Int /\ At(p) \in Int
    BY <1>5, Fields
  <2> QED
    BY <1>3, <2>2, <2>3, <2>4, Sizes
<1>7. ASSUME o \subseteq {"dirty"}, Plain(b) PROVE Shows(p, b, n + 1)
  <2>1. Inside(s) /\ (Len(b) <= BUF_LENGTH => At(s) >= n) /\ Shows(s, b, n)
    BY <1>7, SpoilFacts DEF Good
  <2>2. Len(b) <= BUF_LENGTH - 1
    BY <1>7 DEF Good
  <2>3. At(s) \in Int
    BY <1>5, Fields
  <2>4. n <= At(s) /\ n + 1 <= BUF_LENGTH
    BY <1>3, <2>1, <2>2, <2>3, Sizes
  <2>5. b[n + 1] \in Chars
    BY <1>1, <1>3, <1>4, <1>7 DEF Plain
  <2> QED
    BY <1>1, <1>2, <1>5, <2>1, <2>4, <2>5, PutShows
<1>8. o \cap Lasting = {} => Blank(p)
  BY <1>6, SpoilFacts DEF Good
<1> QED
  BY <1>1, <1>2, <1>5, <1>6, <1>7, <1>8 DEF Good

(* A key enters the buffer.                                                 *)
LEMMA GoodAppend ==
    ASSUME NEW s, NEW b \in Buffers, NEW o, NEW c \in Keys \cup {NewLine},
           c # NewLine => Len(b) < BUF_LENGTH - 1, Good(s, b, o, Len(b))
    PROVE  Good(s, Append(b, c), o, Len(b)) /\ Append(b, c)[Len(b) + 1] = c
           /\ Append(b, c) \in Buffers /\ Len(Append(b, c)) = Len(b) + 1
<1>1. PICK d : d = Append(b, c)
  OBVIOUS
<1>2. /\ d \in Buffers /\ Len(b) \in Nat /\ Len(d) = Len(b) + 1 /\ d[Len(b) + 1] = c
      /\ \A i \in 1 .. Len(b) : d[i] = b[i]
  BY <1>1 DEF Buffers
<1>3. Plain(d) => Plain(b) /\ c # NewLine
  BY <1>2 DEF Plain
<1>4. Plain(d) => Len(d) <= BUF_LENGTH - 1
  BY <1>2, <1>3, Sizes
<1>5. s \in Screen
  BY DEF Good
<1>6. "early" \notin o => Inside(s) /\ (Len(d) <= BUF_LENGTH => At(s) >= Len(b))
  BY <1>2, Sizes DEF Good
<1>7. ASSUME o \subseteq {"dirty"}, Plain(d) PROVE Shows(s, d, Len(b))
  BY <1>2, <1>3, <1>7 DEF Good, Shows
<1>8. Good(s, d, o, Len(b))
  BY <1>4, <1>5, <1>6, <1>7 DEF Good
<1> QED
  BY <1>1, <1>2, <1>8

(* The program prints: into the line only if that is recorded.              *)
LEMMA GoodWrite ==
    ASSUME NEW s, NEW b \in Buffers, NEW o, NEW q, NEW c \in Chars \cup {NewLine},
           Good(s, b, o, Len(b)), q \cap Lasting = o \cap Lasting,
           q \subseteq {"dirty"} => b = << >>
    PROVE  Good(putc(s, c), b, q, Len(b))
<1>1. PICK p : p = putc(s, c)
  OBVIOUS
<1>2. s \in Screen /\ p \in Screen /\ Len(b) \in Nat
  BY <1>1, PutTyped DEF Good, Buffers
<1>0. "early" \in q <=> "early" \in o
  BY DEF Lasting
<1>3. ASSUME "early" \notin q
      PROVE  /\ Inside(p) /\ (Blank(s) => Blank(p))
             /\ Len(b) <= BUF_LENGTH => At(p) >= Len(b)
  <2>1. Inside(s)
    BY <1>0, <1>3 DEF Good
  <2>2. /\ Inside(p) /\ (Blank(s) => Blank(p))
        /\ At(p) >= At(s) + 1 \/ At(p) >= BUF_LENGTH
    BY <1>1, <1>2, <2>1, PutBlank
  <2>3. Len(b) <= BUF_LENGTH => At(s) >= Len(b)
    BY <1>0, <1>3 DEF Good
  <2>4. At(s) \in Int /\ At(p) \in Int
    BY <1>2, Fields
  <2> QED
    BY <1>2, <2>2, <2>3, <2>4, Sizes
<1>4. ASSUME q \subseteq {"dirty"} PROVE Shows(p, b, Len(b))
  BY <1>4 DEF Shows
<1>5. Plain(b) => Len(b) <= BUF_LENGTH - 1
  BY DEF Good
<1>6. q \cap Lasting = {} => Blank(p)
  BY <1>3, SpoilFacts DEF Good
<1> QED
  BY <1>1, <1>2, <1>3, <1>4, <1>5, <1>6 DEF Good

(* A program draws: into the line only if that is recorded.                 *)
LEMMA GoodDraw ==
    ASSUME NEW s, NEW b \in Buffers, NEW o, NEW q, NEW i \in Cells, NEW c \in Glyphs,
           Good(s, b, o, Len(b)), "dirty" \in q, "early" \in q <=> "early" \in o,
           q \subseteq {"dirty"} => b = << >>
    PROVE  Good([s EXCEPT !.text = [s.text EXCEPT ![i] = c]], b, q, Len(b))
<1>1. PICK text : text = [s.text EXCEPT ![i] = c]
  OBVIOUS
<1>2. s \in Screen /\ text \in [Cells -> Glyphs]
  BY <1>1, Fields DEF Good
<1>3. PICK p : p = [s EXCEPT !.text = text]
  OBVIOUS
<1>4. p \in Screen /\ p.x = s.x /\ p.y = s.y
  BY <1>2, <1>3, Written
<1>5. At(p) = At(s) /\ (Inside(s) => Inside(p))
  BY <1>4 DEF At, Inside
<1>6. "early" \notin q => Inside(p) /\ (Len(b) <= BUF_LENGTH => At(p) >= Len(b))
  BY <1>5 DEF Good
<1>7. q \cap Lasting # {}
  BY DEF Lasting
<1>8. ASSUME q \subseteq {"dirty"} PROVE Shows(p, b, Len(b))
  BY <1>8 DEF Shows
<1>9. Plain(b) => Len(b) <= BUF_LENGTH - 1
  BY DEF Good
<1> QED
  BY <1>1, <1>3, <1>4, <1>6, <1>7, <1>8, <1>9 DEF Good

(* A Backspace takes the last character from the buffer and from the
   screen.                                                                  *)
LEMMA GoodBack ==
    ASSUME NEW s, NEW b \in Buffers, NEW o, NEW q, Good(s, b, o, Len(b)),
           Len(b) >= 1, Len(b) <= BUF_LENGTH, q \cap Lasting = o \cap Lasting,
           q \subseteq {"dirty"} => Len(b) = 1 \/ (o \subseteq {"dirty"} /\ b[Len(b)] # NewLine)
    PROVE  /\ SubSeq(b, 1, Len(b) - 1) \in Buffers
           /\ Good(back_space(s), SubSeq(b, 1, Len(b) - 1), q, Len(SubSeq(b, 1, Len(b) - 1)))
<1>1. PICK p : p = back_space(s)
  OBVIOUS
<1>2. PICK n : n = Len(b)
  OBVIOUS
<1>3. PICK d : d = SubSeq(b, 1, n - 1)
  OBVIOUS
<1>4. n \in Nat /\ n >= 1 /\ n <= BUF_LENGTH
  BY <1>2 DEF Buffers
<1>5. /\ d \in Buffers /\ Len(d) = n - 1 /\ \A i \in 1 .. n - 1 : d[i] = b[i]
  BY <1>2, <1>3, <1>4 DEF Buffers
<1>6. s \in Screen /\ p \in Screen
  BY <1>1, BackTyped DEF Good
<1>7. Plain(d) => Len(d) <= BUF_LENGTH - 1
  BY <1>4, <1>5, Sizes
<1>8. ASSUME "early" \notin q
      PROVE  /\ Inside(s) /\ n <= At(s)
             /\ Inside(p) /\ (Blank(s) => Blank(p)) /\ At(p) >= n - 1
  <2>0. "early" \notin o
    BY <1>8 DEF Lasting
  <2>1. Inside(s) /\ At(s) >= n /\ At(s) \in Int
    BY <1>2, <1>4, <1>6, <2>0, Fields DEF Good
  <2>2. At(s) >= 1
    BY <1>4, <2>1
  <2>3. Inside(p) /\ At(p) = At(s) - 1
    BY <1>1, <1>6, <2>1, <2>2, BackFacts
  <2>4. Blank(s) => Blank(p)
    BY <1>1, <1>4, <1>6, <2>1, BackKeeps
  <2> QED
    BY <1>4, <2>1, <2>3, <2>4
<1>9. ASSUME q \subseteq {"dirty"}, Plain(d) PROVE Shows(p, d, n - 1)
  <2>1. CASE n = 1
    BY <2>1 DEF Shows
  <2>2. CASE n # 1
    <3>1. o \subseteq {"dirty"} /\ b[n] # NewLine
      BY <1>2, <1>9, <2>2
    <3>2. Plain(b)
      BY <1>2, <1>4, <1>5, <1>9, <3>1 DEF Plain
    <3>3. Shows(s, b, n)
      BY <1>2, <3>1, <3>2 DEF Good
    <3>4. Inside(s) /\ n <= At(s)
      BY <1>8, <1>9, SpoilFacts
    <3>5. Shows(p, b, n - 1)
      BY <1>1, <1>4, <1>6, <3>3, <3>4, BackKeeps
    <3> QED
      BY <1>5, <3>5 DEF Shows
  <2> QED
    BY <2>1, <2>2
<1>10. q \cap Lasting = {} => Blank(p)
  BY <1>8, SpoilFacts DEF Good
<1>11. Good(p, d, q, n - 1)
  BY <1>5, <1>6, <1>7, <1>8, <1>9, <1>10 DEF Good
<1> QED
  BY <1>1, <1>2, <1>3, <1>5, <1>11

(* Ctrl+L: an empty page, and nothing of the buffer printed yet.            *)
LEMMA GoodClear ==
    ASSUME NEW s, NEW b \in Buffers, NEW o, NEW n, Good(s, b, o, n)
    PROVE  Good(reset_screen(clear(s)), b, {}, 0)
<1>1. PICK w : w = clear(s)
  OBVIOUS
<1>2. w \in Screen /\ \A i \in Cells : w.text[i] = Space
  BY <1>1, ResetFacts DEF Good
<1>3. PICK p : p = reset_screen(w)
  OBVIOUS
<1>4. p \in Screen /\ Inside(p) /\ At(p) = 0 /\ p.text = w.text
  BY <1>2, <1>3, ResetFacts
<1>5. Blank(p) /\ Shows(p, b, 0)
  BY <1>2, <1>4 DEF Blank, Shows
<1>6. Plain(b) => Len(b) <= BUF_LENGTH - 1
  BY DEF Good
<1> QED
  BY <1>1, <1>3, <1>4, <1>5, <1>6 DEF Good

(* terminal_read empties the buffer.                                        *)
LEMMA GoodEmpty ==
    ASSUME NEW s, NEW b, NEW o, NEW n, Good(s, b, o, n)
    PROVE  Good(s, << >>, o \cap Lasting, 0)
<1>1. s \in Screen
  BY DEF Good
<1>2. Shows(s, << >>, 0)
  BY DEF Shows
<1>3. "early" \notin o => Inside(s) /\ At(s) >= 0
  BY <1>1, Place DEF Good
<1>4. Len(<< >>) <= BUF_LENGTH - 1
  BY Sizes
<1>5. PICK q : q = o \cap Lasting
  OBVIOUS
<1>6. ("early" \in q <=> "early" \in o) /\ q \cap Lasting = o \cap Lasting
  BY <1>5 DEF Lasting
<1>7. q \cap Lasting = {} => Blank(s)
  BY <1>6 DEF Good
<1> QED
  BY <1>1, <1>2, <1>3, <1>4, <1>5, <1>6, <1>7 DEF Good

(* entry homes the cursor of a terminal that is not at home: recorded.      *)
LEMMA GoodReset ==
    ASSUME NEW s, NEW b, NEW o, NEW p \in Screen, Good(s, b, o, Len(b))
    PROVE  Good(p, b, o \cup {"early"}, Len(b))
<1>1. PICK q : q = o \cup {"early"}
  OBVIOUS
<1>2. "early" \in q /\ q \cap Lasting # {} /\ ~(q \subseteq {"dirty"})
  BY <1>1 DEF Lasting
<1>3. Plain(b) => Len(b) <= BUF_LENGTH - 1
  BY DEF Good
<1> QED
  BY <1>1, <1>2, <1>3 DEF Good

-----------------------------------------------------------------------------
(* The inductive invariant.                                                 *)
Control ==
    /\ cur_terminal \in Terms /\ cur_sched_term \in Terms
    /\ line_buffer_flag \in [Terms -> BOOLEAN]
    /\ pc \in [Terms -> {"user", "wait"}]
    /\ boot \in BootLabels

(* While Ctrl+L prints the line again, only the part printed so far counts. *)
Printed(t) == IF Repainting(t) THEN repaint ELSE Len(buf[t])

Contents ==
    /\ screen \in [Terms -> Screen]
    /\ buf \in [Terms -> Buffers]
    /\ odd \in [Terms -> Spoils]
    /\ repaint \in Nat \cup {IDLE}
    /\ repaint # IDLE => repaint <= Len(buf[cur_terminal])
    /\ \A t \in Terms : Good(screen[t], buf[t], odd[t], Printed(t))

(* What the steps of reset_screen have brought the display to, as long as no *)
(* key has moved the cursor since they read x and y.                        *)
Homed(s) ==
    /\ boot = "arg_x" => args.y = s.y
    /\ boot \in {"select", "low", "high"} => args.x = s.x /\ args.y = s.y
    /\ boot = "low" => cursor.index = "low"
    /\ boot = "high" => cursor.reg["low"] = Bytes(At(s))["low"]
    /\ boot = "done" => cursor.reg = Bytes(At(s))

Display ==
    /\ cursor \in [reg : [Registers -> Int], index : Registers]
    /\ args \in [x : Int, y : Int] /\ raced \in BOOLEAN
    /\ ~raced => Homed(screen[cur_terminal])

ConsoleInv == Control /\ Contents /\ Display

(* A position in the buffer is not the mark of an idle Ctrl+L.              *)
LEMMA NatIsNotIdle == \A n \in Nat : n # IDLE
BY DEF IDLE

(* Outside Ctrl+L the whole buffer of each terminal is printed.             *)
LEMMA FreeFacts ==
    ASSUME Contents, repaint = IDLE, NEW t \in Terms
    PROVE  /\ Good(screen[t], buf[t], odd[t], Len(buf[t]))
           /\ screen[t] \in Screen /\ buf[t] \in Buffers /\ odd[t] \in Spoils
BY DEF Contents, Printed, Repainting

(* A step outside Ctrl+L that changes the content of one terminal.          *)
LEMMA OneTerminal ==
    ASSUME Contents, NEW t \in Terms, NEW s, NEW b \in Buffers, NEW o \in Spoils,
           repaint = IDLE, repaint' = IDLE, Good(s, b, o, Len(b)),
           screen' = [screen EXCEPT ![t] = s], buf' = [buf EXCEPT ![t] = b],
           odd' = [odd EXCEPT ![t] = o]
    PROVE  Contents'
<1>1. s \in Screen
  BY DEF Good
<1>2. screen' \in [Terms -> Screen] /\ buf' \in [Terms -> Buffers] /\ odd' \in [Terms -> Spoils]
  BY <1>1 DEF Contents
<1>3. ASSUME NEW u \in Terms PROVE Good(screen'[u], buf'[u], odd'[u], Len(buf'[u]))
  <2>1. CASE u = t
    <3>1. screen'[u] = s /\ buf'[u] = b /\ odd'[u] = o
      BY <2>1 DEF Contents
    <3> QED
      BY <3>1
  <2>2. CASE u # t
    <3>1. screen'[u] = screen[u] /\ buf'[u] = buf[u] /\ odd'[u] = odd[u]
      BY <2>2 DEF Contents
    <3> QED
      BY <3>1, FreeFacts
  <2> QED
    BY <2>1, <2>2
<1>4. \A u \in Terms : Good(screen[u], buf[u], odd[u], Printed(u))'
  BY <1>3 DEF Printed, Repainting
<1> QED
  BY <1>2, <1>4 DEF Contents

(* Storing what is there changes nothing.                                   *)
LEMMA Same ==
    ASSUME NEW S, NEW f \in [Terms -> S], NEW t \in Terms
    PROVE  [f EXCEPT ![t] = f[t]] = f
OBVIOUS

(* A step outside Ctrl+L that changes no content.                           *)
LEMMA NoTerminal ==
    ASSUME Contents, repaint = IDLE, repaint' = IDLE, UNCHANGED <<screen, buf, odd>>
    PROVE  Contents'
<1>1. \A u \in Terms : Good(screen[u], buf[u], odd[u], Printed(u))'
  BY FreeFacts DEF Printed, Repainting
<1> QED
  BY <1>1 DEF Contents

-----------------------------------------------------------------------------
(* The actions.                                                             *)

(* The two assignments of reset_screen at the end of entry.                 *)
LEMMA HomeKeeps ==
    ASSUME ConsoleInv, NEW t \in Terms, NEW s \in Screen, repaint = IDLE, repaint' = IDLE,
           buf' = buf, Home(t, s)
    PROVE  Contents'
<1>1. Contents
  BY DEF ConsoleInv
<1>2. /\ Good(screen[t], buf[t], odd[t], Len(buf[t]))
      /\ buf[t] \in Buffers /\ odd[t] \in Spoils
  BY <1>1, FreeFacts
<1>3. screen' = [screen EXCEPT ![t] = s]
  BY DEF Home
<1>4. buf' = [buf EXCEPT ![t] = buf[t]]
  BY <1>1, Same DEF Contents
<1>5. CASE s = screen[t]
  <2>1. odd' = [odd EXCEPT ![t] = odd[t]]
    BY <1>1, <1>5, Same DEF Contents, Home
  <2>2. Good(s, buf[t], odd[t], Len(buf[t]))
    BY <1>2, <1>5
  <2> QED
    BY <1>1, <1>2, <1>3, <1>4, <2>1, <2>2, OneTerminal
<1>6. CASE s # screen[t]
  <2>1. PICK q : q = odd[t] \cup {"early"}
    OBVIOUS
  <2>2. odd' = [odd EXCEPT ![t] = q] /\ q \in Spoils
    BY <1>2, <1>6, <2>1 DEF Home, Spoil, Spoils
  <2>3. Good(s, buf[t], q, Len(buf[t]))
    BY <1>2, <2>1, GoodReset
  <2> QED
    BY <1>1, <1>2, <1>3, <1>4, <2>2, <2>3, OneTerminal
<1> QED
  BY <1>5, <1>6

(* The steps of reset_screen.                                               *)
LEMMA BootKeeps == ASSUME ConsoleInv, Boot PROVE Contents'
<1>1. PICK t : t = cur_terminal
  OBVIOUS
<1>2. t \in Terms /\ Contents /\ screen[t] \in Screen
  BY <1>1 DEF ConsoleInv, Control, Contents
<1>3. repaint = IDLE /\ repaint' = IDLE /\ buf' = buf
  BY DEF Boot, ResetY, ResetX, LoadY, LoadX, SelectLow, WriteLow, WriteHigh, BootStep, Free
<1>4. CASE ResetY
  <2>1. PICK s : s = [screen[t] EXCEPT !.y = 0]
    OBVIOUS
  <2>2. s \in Screen
    BY <1>2, <2>1, Lowered
  <2>3. Home(t, s)
    BY <1>1, <1>4, <2>1 DEF ResetY
  <2> QED
    BY <1>2, <1>3, <2>2, <2>3, HomeKeeps
<1>5. CASE ResetX
  <2>1. PICK s : s = [screen[t] EXCEPT !.x = 0]
    OBVIOUS
  <2>2. s \in Screen
    BY <1>2, <2>1, Placed
  <2>3. Home(t, s)
    BY <1>1, <1>5, <2>1 DEF ResetX
  <2> QED
    BY <1>2, <1>3, <2>2, <2>3, HomeKeeps
<1>6. CASE LoadY \/ LoadX \/ SelectLow \/ WriteLow \/ WriteHigh
  <2>1. UNCHANGED <<screen, buf, odd>>
    BY <1>3, <1>6 DEF LoadY, LoadX, SelectLow, WriteLow, WriteHigh
  <2> QED
    BY <1>2, <1>3, <2>1, NoTerminal
<1> QED
  BY <1>4, <1>5, <1>6 DEF Boot

(* A character or Enter.                                                    *)
LEMMA KeyKeeps ==
    ASSUME ConsoleInv, NEW c \in Keys \cup {NewLine}, repaint = IDLE, print_scancode(c),
           UNCHANGED <<repaint, odd>>
    PROVE  Contents'
<1>1. PICK t : t = cur_terminal
  OBVIOUS
<1>2. t \in Terms /\ Contents
  BY <1>1 DEF ConsoleInv, Control
<1>3. CASE Dropped(c, t)
  <2>1. UNCHANGED <<screen, buf>>
    BY <1>1, <1>3 DEF print_scancode
  <2> QED
    BY <1>2, <2>1, NoTerminal
<1>4. CASE ~Dropped(c, t)
  <2>1. PICK b : b = buf[t]
    OBVIOUS
  <2>2. PICK s : s = screen[t]
    OBVIOUS
  <2>3. Good(s, b, odd[t], Len(b)) /\ b \in Buffers /\ odd[t] \in Spoils
    BY <1>2, <2>1, <2>2, FreeFacts
  <2>4. PICK n : n = Len(b)
    OBVIOUS
  <2>5. n \in Nat
    BY <2>3, <2>4 DEF Buffers
  <2>6. c # NewLine => n < BUF_LENGTH - 1
    BY <1>4, <2>1, <2>4, <2>5, Sizes DEF Dropped
  <2>7. PICK d : d = Append(b, c)
    OBVIOUS
  <2>8. Good(s, d, odd[t], n) /\ d[n + 1] = c /\ d \in Buffers /\ Len(d) = n + 1
    BY <2>3, <2>4, <2>6, <2>7, GoodAppend
  <2>9. Good(putc(s, d[n + 1]), d, odd[t], n + 1)
    BY <2>5, <2>8, GoodPut
  <2>10. Good(putc(s, c), d, odd[t], Len(d))
    BY <2>8, <2>9
  <2>11. screen' = [screen EXCEPT ![t] = putc(s, c)] /\ buf' = [buf EXCEPT ![t] = d]
    BY <1>1, <1>4, <2>1, <2>2, <2>7 DEF print_scancode, Show
  <2>12. odd' = [odd EXCEPT ![t] = odd[t]]
    BY <1>2, Same DEF Contents
  <2> QED
    BY <1>2, <2>3, <2>8, <2>10, <2>11, <2>12, OneTerminal
<1> QED
  BY <1>3, <1>4

(* The branch of Backspace in the keyboard handler.                         *)
LEMMA BackspaceKeeps == ASSUME ConsoleInv, PressBackspace PROVE Contents'
<1>1. PICK t : t = cur_terminal
  OBVIOUS
<1>2. t \in Terms /\ Contents
  BY <1>1 DEF ConsoleInv, Control
<1>3. PICK b : b = buf[t]
  OBVIOUS
<1>4. PICK s : s = screen[t]
  OBVIOUS
<1>5. PICK o : o = odd[t]
  OBVIOUS
<1>6. repaint = IDLE /\ repaint' = IDLE
  BY DEF PressBackspace, Free
<1>7. Good(s, b, o, Len(b)) /\ b \in Buffers /\ o \in Spoils
  BY <1>2, <1>3, <1>4, <1>5, <1>6, FreeFacts
<1>8. Len(b) \in Nat /\ Len(b) >= 1 /\ Len(b) <= BUF_LENGTH
  <2>1. Len(b) > 0 /\ ~(Len(b) > BUF_LENGTH)
    BY <1>1, <1>2, <1>3 DEF PressBackspace, Free, Overflow, MayErase
  <2>2. Len(b) \in Nat
    BY <1>7 DEF Buffers
  <2> QED
    BY <2>1, <2>2, Sizes
<1>9. PICK d : d = SubSeq(b, 1, Len(b) - 1)
  OBVIOUS
<1>10. PICK q : q = IF Len(b) <= 1 THEN o \cap Lasting
                    ELSE IF b[Len(b)] = NewLine THEN o \cup {"joined"} ELSE o
  OBVIOUS
<1>11. screen' = [screen EXCEPT ![t] = back_space(s)] /\ buf' = [buf EXCEPT ![t] = d]
  BY <1>1, <1>3, <1>4, <1>9 DEF PressBackspace, Show
<1>12. odd' = [odd EXCEPT ![t] = q]
  BY <1>1, <1>3, <1>5, <1>10 DEF PressBackspace
<1>13. q \in Spoils /\ q \cap Lasting = o \cap Lasting
  BY <1>7, <1>10 DEF Spoils, Lasting
<1>14. q \subseteq {"dirty"} => Len(b) = 1 \/ (o \subseteq {"dirty"} /\ b[Len(b)] # NewLine)
  <2>1. CASE Len(b) <= 1
    BY <1>8, <2>1
  <2>2. CASE ~(Len(b) <= 1) /\ b[Len(b)] = NewLine
    <3>1. "joined" \in q
      BY <1>10, <2>2
    <3> QED
      BY <3>1
  <2>3. CASE ~(Len(b) <= 1) /\ b[Len(b)] # NewLine
    <3>1. q = o
      BY <1>10, <2>3
    <3> QED
      BY <2>3, <3>1
  <2> QED
    BY <2>1, <2>2, <2>3
<1>15. d \in Buffers /\ Good(back_space(s), d, q, Len(d))
  BY <1>7, <1>8, <1>9, <1>13, <1>14, GoodBack
<1> QED
  BY <1>2, <1>6, <1>11, <1>12, <1>13, <1>15, OneTerminal

(* Ctrl+L begins.                                                           *)
LEMMA CtrlLKeeps == ASSUME ConsoleInv, PressCtrlL PROVE Contents'
<1>1. PICK t : t = cur_terminal
  OBVIOUS
<1>2. t \in Terms /\ Contents
  BY <1>1 DEF ConsoleInv, Control
<1>3. repaint = IDLE /\ repaint' = 0 /\ buf' = buf /\ cur_terminal' = t
  BY <1>1 DEF PressCtrlL, Free
<1>4. Good(screen[t], buf[t], odd[t], Len(buf[t])) /\ buf[t] \in Buffers
  BY <1>2, <1>3, FreeFacts
<1>5. PICK p : p = reset_screen(clear(screen[t]))
  OBVIOUS
<1>6. Good(p, buf[t], {}, 0)
  BY <1>4, <1>5, GoodClear
<1>7. screen' = [screen EXCEPT ![t] = p] /\ odd' = [odd EXCEPT ![t] = {}]
  BY <1>1, <1>5 DEF PressCtrlL, Show
<1>8. p \in Screen /\ {} \in Spoils
  BY <1>6 DEF Good, Spoils
<1>9. screen' \in [Terms -> Screen] /\ buf' \in [Terms -> Buffers] /\ odd' \in [Terms -> Spoils]
  BY <1>2, <1>3, <1>7, <1>8 DEF Contents
<1>10. ASSUME NEW u \in Terms
       PROVE  Good(screen'[u], buf'[u], odd'[u], IF u = t THEN 0 ELSE Len(buf'[u]))
  <2>1. CASE u = t
    <3>1. screen'[u] = p /\ buf'[u] = buf[t] /\ odd'[u] = {}
      BY <1>2, <1>3, <1>7, <2>1 DEF Contents
    <3> QED
      BY <1>6, <2>1, <3>1
  <2>2. CASE u # t
    <3>1. screen'[u] = screen[u] /\ buf'[u] = buf[u] /\ odd'[u] = odd[u]
      BY <1>2, <1>3, <1>7, <2>2 DEF Contents
    <3> QED
      BY <1>2, <1>3, <2>2, <3>1, FreeFacts
  <2> QED
    BY <2>1, <2>2
<1>11. 0 # IDLE
  BY NatIsNotIdle
<1>12. \A u \in Terms : Good(screen[u], buf[u], odd[u], Printed(u))'
  BY <1>3, <1>10, <1>11 DEF Printed, Repainting
<1>13. 0 <= Len(buf[t])
  BY <1>4 DEF Buffers
<1> QED
  BY <1>3, <1>9, <1>12, <1>13 DEF Contents

(* Ctrl+L prints the next character, or is done.                            *)
LEMMA RepaintKeeps == ASSUME ConsoleInv, Repaint PROVE Contents'
<1>1. PICK t : t = cur_terminal
  OBVIOUS
<1>2. t \in Terms /\ Contents
  BY <1>1 DEF ConsoleInv, Control
<1>3. repaint # IDLE /\ UNCHANGED <<cur_terminal, buf, odd>>
  BY DEF Repaint
<1>4. PICK n : n = repaint
  OBVIOUS
<1>5. n \in Nat /\ n <= Len(buf[t]) /\ buf[t] \in Buffers /\ Len(buf[t]) \in Nat
  BY <1>1, <1>2, <1>3, <1>4 DEF Contents, Buffers
<1>6. Good(screen[t], buf[t], odd[t], n)
  BY <1>1, <1>2, <1>3, <1>4 DEF Contents, Printed, Repainting
<1>7. \A u \in Terms \ {t} : Good(screen[u], buf[u], odd[u], Len(buf[u]))
  BY <1>1, <1>2 DEF Contents, Printed, Repainting
<1>8. CASE n < Len(buf[t])
  <2>1. PICK p : p = putc(screen[t], buf[t][n + 1])
    OBVIOUS
  <2>2. repaint' = n + 1 /\ screen' = [screen EXCEPT ![t] = p]
    BY <1>1, <1>4, <1>8, <2>1 DEF Repaint, Repainted, Show
  <2>3. Good(p, buf[t], odd[t], n + 1)
    BY <1>5, <1>6, <1>8, <2>1, GoodPut
  <2>4. p \in Screen
    BY <2>3 DEF Good
  <2>5. screen' \in [Terms -> Screen]
    BY <1>2, <2>2, <2>4 DEF Contents
  <2>6. n + 1 \in Nat /\ n + 1 # IDLE /\ n + 1 <= Len(buf[t])
    BY <1>5, <1>8, NatIsNotIdle
  <2>7. ASSUME NEW u \in Terms
        PROVE  Good(screen'[u], buf'[u], odd'[u], IF u = t THEN n + 1 ELSE Len(buf'[u]))
    <3>1. screen'[u] = IF u = t THEN p ELSE screen[u]
      BY <1>2, <2>2 DEF Contents
    <3> QED
      BY <1>3, <1>7, <2>3, <3>1
  <2>8. \A u \in Terms : Good(screen[u], buf[u], odd[u], Printed(u))'
    BY <1>1, <1>3, <2>2, <2>6, <2>7 DEF Printed, Repainting
  <2> QED
    BY <1>1, <1>2, <1>3, <2>2, <2>5, <2>6, <2>8 DEF Contents
<1>9. CASE ~(n < Len(buf[t]))
  <2>1. repaint' = IDLE /\ screen' = screen
    BY <1>1, <1>4, <1>9 DEF Repaint
  <2>2. n = Len(buf[t])
    BY <1>5, <1>9
  <2>3. \A u \in Terms : Good(screen[u], buf[u], odd[u], Printed(u))'
    BY <1>3, <1>6, <1>7, <2>1, <2>2 DEF Printed, Repainting
  <2> QED
    BY <1>2, <1>3, <2>1, <2>3 DEF Contents
<1> QED
  BY <1>8, <1>9

(* A character written by a program.                                        *)
LEMMA WriteKeeps ==
    ASSUME ConsoleInv, NEW t \in Terms, NEW c \in Chars \cup {NewLine}, terminal_write(t, c)
    PROVE  Contents'
<1>1. Contents /\ repaint = IDLE /\ repaint' = IDLE /\ buf' = buf
  BY DEF ConsoleInv, terminal_write, Runs, Free
<1>2. /\ Good(screen[t], buf[t], odd[t], Len(buf[t]))
      /\ buf[t] \in Buffers /\ odd[t] \in Spoils
  BY <1>1, FreeFacts
<1>3. screen' = [screen EXCEPT ![t] = putc(screen[t], c)]
  BY DEF terminal_write, Show
<1>4. buf' = [buf EXCEPT ![t] = buf[t]] /\ odd = [odd EXCEPT ![t] = odd[t]]
  BY <1>1, Same DEF Contents
<1>5. PICK q : q = IF buf[t] = << >> THEN odd[t] ELSE odd[t] \cup {"mixed"}
  OBVIOUS
<1>6. odd' = [odd EXCEPT ![t] = q]
  BY <1>4, <1>5 DEF terminal_write, Spoil
<1>7. /\ q \in Spoils /\ q \cap Lasting = odd[t] \cap Lasting
      /\ q \subseteq {"dirty"} => buf[t] = << >>
  BY <1>2, <1>5 DEF Spoils, Lasting
<1>8. Good(putc(screen[t], c), buf[t], q, Len(buf[t]))
  BY <1>2, <1>7, GoodWrite
<1> QED
  BY <1>1, <1>2, <1>3, <1>4, <1>6, <1>7, <1>8, OneTerminal

(* A character drawn by a program.                                          *)
LEMMA DrawKeeps ==
    ASSUME ConsoleInv, NEW t, NEW u \in Terms, NEW i \in Cells, NEW c \in Glyphs,
           Draw(t, u, i, c)
    PROVE  Contents'
<1>1. Contents /\ repaint = IDLE /\ repaint' = IDLE /\ buf' = buf
  BY DEF ConsoleInv, Draw, Runs, Free
<1>2. PICK s : s = screen[u]
  OBVIOUS
<1>3. /\ Good(s, buf[u], odd[u], Len(buf[u]))
      /\ buf[u] \in Buffers /\ odd[u] \in Spoils
  BY <1>1, <1>2, FreeFacts
<1>4. screen' = [screen EXCEPT ![u] = [s EXCEPT !.text = [s.text EXCEPT ![i] = c]]]
  <2>1. screen' = [screen EXCEPT ![u] = Drawn(s, i, c)]
    BY <1>2 DEF Draw
  <2> QED
    BY <2>1 DEF Drawn
<1>5. buf' = [buf EXCEPT ![u] = buf[u]]
  BY <1>1, Same DEF Contents
<1>6. PICK q : q = odd[u] \cup (IF buf[u] = << >> THEN {"dirty"} ELSE {"dirty", "mixed"})
  OBVIOUS
<1>7. odd' = [odd EXCEPT ![u] = q]
  BY <1>6 DEF Draw, Spoil
<1>8. /\ q \in Spoils /\ "dirty" \in q /\ ("early" \in q <=> "early" \in odd[u])
      /\ q \subseteq {"dirty"} => buf[u] = << >>
  BY <1>3, <1>6 DEF Spoils
<1>9. Good([s EXCEPT !.text = [s.text EXCEPT ![i] = c]], buf[u], q, Len(buf[u]))
  BY <1>3, <1>8, GoodDraw
<1> QED
  BY <1>1, <1>3, <1>4, <1>5, <1>7, <1>8, <1>9, OneTerminal

(* A read that ends empties the buffer of the displayed terminal.           *)
LEMMA CopyKeeps == ASSUME ConsoleInv, NEW u \in Terms, ReadCopy(u) PROVE Contents'
<1>1. PICK t : t = cur_terminal
  OBVIOUS
<1>2. t \in Terms /\ Contents
  BY <1>1 DEF ConsoleInv, Control
<1>3. repaint = IDLE /\ repaint' = IDLE /\ screen' = screen
  BY DEF ReadCopy, Runs, Free
<1>4. Good(screen[t], buf[t], odd[t], Len(buf[t])) /\ odd[t] \in Spoils
  BY <1>2, <1>3, FreeFacts
<1>5. PICK q : q = odd[t] \cap Lasting
  OBVIOUS
<1>6. screen' = [screen EXCEPT ![t] = screen[t]]
  BY <1>2, <1>3, Same DEF Contents
<1>7. buf' = [buf EXCEPT ![t] = << >>] /\ odd' = [odd EXCEPT ![t] = q]
  BY <1>1, <1>5 DEF ReadCopy
<1>8. Good(screen[t], << >>, q, Len(<< >>))
  BY <1>4, <1>5, GoodEmpty
<1>9. q \in Spoils /\ << >> \in Buffers
  BY <1>4, <1>5 DEF Spoils, Buffers
<1> QED
  BY <1>2, <1>3, <1>6, <1>7, <1>8, <1>9, OneTerminal

(* A step that changes nothing.                                             *)
LEMMA StutterKeeps == ASSUME ConsoleInv, UNCHANGED vars PROVE ConsoleInv'
<1>1. UNCHANGED <<cur_terminal, cur_sched_term, screen, buf, line_buffer_flag, pc, cursor,
                  raced, repaint, boot, args, odd>>
  BY DEF vars, display, startup
<1>2. Control' /\ Display'
  BY <1>1 DEF ConsoleInv, Control, Display, Homed
<1>3. Contents'
  BY <1>1 DEF ConsoleInv, Contents, Printed, Repainting
<1> QED
  BY <1>2, <1>3 DEF ConsoleInv

(* The steps of entry leave the rest alone.                                 *)
LEMMA BootFacts ==
    ASSUME Boot
    PROVE  /\ UNCHANGED <<cur_terminal, cur_sched_term, buf, line_buffer_flag, pc, repaint, raced>>
           /\ boot' \in BootLabels
BY DEF Boot, ResetY, ResetX, LoadY, LoadX, SelectLow, WriteLow, WriteHigh, BootStep, BootLabels

(* What the programs print and draw.                                        *)
LEMMA OutputTyped ==
    /\ \A t \in Terms : Outputs[t] \subseteq Chars \cup {NewLine}
    /\ \A d \in Drawings : d[1] \in Cells /\ d[2] \in Glyphs
    /\ Leftovers \subseteq [Cells -> Glyphs]
BY ConsoleAssumption DEF Terms, NewLine, Cells, Glyphs, Space

(* Every step keeps the contents of the screens in order.                   *)
LEMMA ContentsInv == ASSUME ConsoleInv, Next PROVE Contents'
<1>0. Contents /\ Keys \subseteq Chars
  BY ConsoleAssumption DEF ConsoleInv
<1>1. CASE Boot
  BY <1>1, BootKeeps
<1>2. ASSUME NEW c \in Keys, PressChar(c) PROVE Contents'
  BY <1>2, KeyKeeps DEF PressChar, Free
<1>3. CASE PressEnter
  BY <1>3, KeyKeeps DEF PressEnter, Free
<1>4. CASE PressBackspace
  BY <1>4, BackspaceKeeps
<1>5. CASE PressCtrlL
  BY <1>5, CtrlLKeeps
<1>6. CASE Repaint
  BY <1>6, RepaintKeeps
<1>7. ASSUME NEW t \in Terms, change_shell(t) PROVE Contents'
  BY <1>0, <1>7, NoTerminal DEF change_shell, Free
<1>8. ASSUME NEW t \in Terms, NEW c \in Outputs[t], terminal_write(t, c) PROVE Contents'
  BY <1>8, WriteKeeps, OutputTyped
<1>9. ASSUME NEW t \in Terms, ReadStart(t) PROVE Contents'
  BY <1>0, <1>9, NoTerminal DEF ReadStart, Runs, Free
<1>10. ASSUME NEW t \in Terms, ReadCopy(t) PROVE Contents'
  BY <1>10, CopyKeeps
<1>11. CASE Tick
  BY <1>0, <1>11, NoTerminal DEF Tick, Free
<1>12. ASSUME NEW t \in Terms, NEW u \in {t, cur_terminal}, NEW d \in Drawings,
              Draw(t, u, d[1], d[2])
       PROVE  Contents'
  <2>1. u \in Terms /\ d[1] \in Cells /\ d[2] \in Glyphs
    BY <1>12, OutputTyped DEF ConsoleInv, Control
  <2> QED
    BY <1>12, <2>1, DrawKeeps
<1> QED
  BY <1>1, <1>2, <1>3, <1>4, <1>5, <1>6, <1>7, <1>8, <1>9, <1>10, <1>11, <1>12
     DEF Next, Keyboard, Program

(* Every step keeps the terminals and the repaint among their values.       *)
LEMMA ControlInv == ASSUME ConsoleInv, Next PROVE Control'
<1> USE DEF ConsoleInv, Control
<1>1. CASE Boot
  BY <1>1, BootFacts
<1>2. ASSUME NEW c \in Keys, PressChar(c) PROVE Control'
  BY <1>2 DEF PressChar, startup
<1>3. CASE PressEnter
  BY <1>3 DEF PressEnter, startup
<1>4. CASE PressBackspace
  BY <1>4 DEF PressBackspace, startup
<1>5. CASE PressCtrlL
  BY <1>5 DEF PressCtrlL, startup
<1>6. CASE Repaint
  BY <1>6 DEF Repaint, startup
<1>7. ASSUME NEW t \in Terms, change_shell(t) PROVE Control'
  BY <1>7 DEF change_shell, startup
<1>8. ASSUME NEW t \in Terms, NEW c, terminal_write(t, c) PROVE Control'
  BY <1>8 DEF terminal_write, startup
<1>9. ASSUME NEW t \in Terms, ReadStart(t) PROVE Control'
  BY <1>9 DEF ReadStart, startup
<1>10. ASSUME NEW t \in Terms, ReadCopy(t) PROVE Control'
  BY <1>10 DEF ReadCopy, startup
<1>11. CASE Tick
  BY <1>11, Wraps DEF Tick, startup
<1>12. ASSUME NEW t \in Terms, NEW u, NEW i, NEW c, Draw(t, u, i, c) PROVE Control'
  BY <1>12 DEF Draw, startup
<1> QED
  BY <1>1, <1>2, <1>3, <1>4, <1>5, <1>6, <1>7, <1>8, <1>9, <1>10, <1>11, <1>12
     DEF Next, Keyboard, Program

(* The registers of the display hold numbers.                               *)
LEMMA BytesTyped == \A p \in Int : Bytes(p) \in [Registers -> Int]
BY ConsoleAssumption DEF Bytes

(* The registers are the low byte and the high byte of one position.        *)
LEMMA TwoBytes ==
    ASSUME NEW f \in [Registers -> Int], NEW p \in Int,
           f["low"] = Bytes(p)["low"], f["high"] = Bytes(p)["high"]
    PROVE  f = Bytes(p)
<1>1. Bytes(p) \in [Registers -> Int]
  BY BytesTyped
<1>2. \A r \in Registers : f[r] = Bytes(p)[r]
  BY DEF Registers
<1> QED
  BY <1>1, <1>2

(* move_cursor puts the cursor in order once boot has ended, and otherwise  *)
(* it is recorded or entry has not read x and y yet.                        *)
LEMMA MoveShows ==
    ASSUME Control, args \in [x : Int, y : Int], NEW s \in Screen, move_cursor(s),
           UNCHANGED startup, screen'[cur_terminal'] = s
    PROVE  Display'
<1>1. At(s) \in Int
  BY Fields
<1>2. PICK f : f = Bytes(At(s))
  OBVIOUS
<1>3. f \in [Registers -> Int]
  BY <1>1, <1>2, BytesTyped
<1>4. cursor' = [reg |-> f, index |-> "high"] /\ boot' = boot /\ args' = args
  BY <1>2 DEF move_cursor, startup
<1>5. cursor' \in [reg : [Registers -> Int], index : Registers] /\ cursor'.reg = f
  BY <1>3, <1>4 DEF Registers
<1>6. /\ raced' \in BOOLEAN
      /\ boot \in {"arg_x", "select", "low", "high"} => raced'
  <2>1. raced' = (boot \in {"arg_x", "select", "low", "high"})
    BY DEF move_cursor
  <2>2. boot \in {"arg_x", "select", "low", "high"} => raced' = TRUE
    BY <2>1
  <2>3. (boot \in {"arg_x", "select", "low", "high"}) \in BOOLEAN
    OBVIOUS
  <2>4. raced' \in BOOLEAN
    BY <2>1, <2>3, Zenon
  <2> QED
    BY <2>2, <2>4
<1>7. ~raced' => Homed(screen[cur_terminal])'
  BY <1>2, <1>4, <1>5, <1>6 DEF Homed, Control, BootLabels
<1> QED
  BY <1>4, <1>5, <1>6, <1>7 DEF Display

(* A step that leaves the cursor, and x and y of the displayed terminal.    *)
LEMMA DisplaySame ==
    ASSUME Display, UNCHANGED <<display, startup>>,
           screen'[cur_terminal'].x = screen[cur_terminal].x,
           screen'[cur_terminal'].y = screen[cur_terminal].y
    PROVE  Display'
<1>1. UNCHANGED <<cursor, raced, boot, args>>
  BY DEF display, startup
<1>2. At(screen'[cur_terminal']) = At(screen[cur_terminal])
  BY DEF At
<1>3. Homed(screen[cur_terminal]) => Homed(screen[cur_terminal])'
  BY <1>1, <1>2 DEF Homed
<1> QED
  BY <1>1, <1>3 DEF Display

(* reset_screen leads the cursor to the place it has read, unless a key came *)
(* in between.                                                              *)
LEMMA BootShows == ASSUME ConsoleInv, Boot PROVE Display'
<1>1. PICK t : t = cur_terminal
  OBVIOUS
<1>2. PICK s : s = screen[t]
  OBVIOUS
<1>3. /\ t \in Terms /\ s \in Screen /\ screen \in [Terms -> Screen]
      /\ cursor \in [reg : [Registers -> Int], index : Registers]
      /\ args \in [x : Int, y : Int] /\ raced \in BOOLEAN /\ (~raced => Homed(s))
  BY <1>1, <1>2 DEF ConsoleInv, Control, Contents, Display
<1>4. cur_terminal' = t /\ raced' = raced
  BY <1>1, BootFacts
<1>5. s.x \in Int /\ s.y \in Int /\ At(s) \in Int
  BY <1>3, Fields
<1>6. args.x \in Int /\ args.y \in Int /\ At(args) \in Int
  <2>1. args.x \in Int /\ args.y \in Int
    BY <1>3
  <2> QED
    BY <2>1, Sizes DEF At
<1>7. Bytes(At(args)) \in [Registers -> Int] /\ "low" \in Registers /\ "high" \in Registers
  BY <1>6, BytesTyped DEF Registers
<1>8. CASE ResetY \/ ResetX
  <2>1. UNCHANGED <<cursor, args>> /\ boot' \in {"x", "arg_y"}
    BY <1>8 DEF ResetY, ResetX, BootStep, Home
  <2> QED
    BY <1>3, <1>4, <2>1 DEF Display, Homed
<1>9. CASE LoadY
  <2>1. /\ boot' = "arg_x" /\ args' = [args EXCEPT !.y = s.y]
        /\ UNCHANGED <<screen, cursor>>
    BY <1>1, <1>2, <1>9 DEF LoadY, BootStep
  <2>2. args' \in [x : Int, y : Int] /\ args'.y = s.y
    BY <1>3, <1>5, <2>1
  <2> QED
    BY <1>2, <1>3, <1>4, <2>1, <2>2 DEF Display, Homed
<1>10. CASE LoadX
  <2>1. /\ boot = "arg_x" /\ boot' = "select" /\ args' = [args EXCEPT !.x = s.x]
        /\ UNCHANGED <<screen, cursor>>
    BY <1>1, <1>2, <1>10 DEF LoadX, BootStep
  <2>2. args' \in [x : Int, y : Int] /\ args'.x = s.x /\ args'.y = args.y
    BY <1>3, <1>5, <2>1
  <2>3. ~raced => args.y = s.y
    BY <1>3, <2>1 DEF Homed
  <2> QED
    BY <1>2, <1>3, <1>4, <2>1, <2>2, <2>3 DEF Display, Homed
<1>11. CASE SelectLow
  <2>1. /\ boot = "select" /\ boot' = "low" /\ cursor' = [cursor EXCEPT !.index = "low"]
        /\ UNCHANGED <<screen, args>>
    BY <1>11 DEF SelectLow, BootStep
  <2>2. /\ cursor' \in [reg : [Registers -> Int], index : Registers]
        /\ cursor'.index = "low"
    BY <1>3, <1>7, <2>1
  <2>3. ~raced => args.x = s.x /\ args.y = s.y
    BY <1>3, <2>1 DEF Homed
  <2> QED
    BY <1>2, <1>3, <1>4, <2>1, <2>2, <2>3 DEF Display, Homed
<1>12. CASE WriteLow
  <2>1. PICK f : f = [cursor.reg EXCEPT ![cursor.index] = Bytes(At(args))["low"]]
    OBVIOUS
  <2>2. /\ boot = "low" /\ boot' = "high" /\ cursor' = [cursor EXCEPT !.reg = f]
        /\ UNCHANGED <<screen, args>>
    BY <1>12, <2>1 DEF WriteLow, BootStep
  <2>3. f \in [Registers -> Int] /\ (cursor.index = "low" => f["low"] = Bytes(At(args))["low"])
    BY <1>3, <1>7, <2>1
  <2>4. cursor' \in [reg : [Registers -> Int], index : Registers] /\ cursor'.reg = f
    BY <1>3, <2>2, <2>3
  <2>5. ~raced => args.x = s.x /\ args.y = s.y /\ cursor.index = "low"
    BY <1>3, <2>2 DEF Homed
  <2>6. ~raced => At(args) = At(s)
    BY <2>5 DEF At
  <2>7. ~raced => cursor'.reg["low"] = Bytes(At(s))["low"]
    BY <2>3, <2>4, <2>5, <2>6
  <2> QED
    BY <1>2, <1>3, <1>4, <2>2, <2>4, <2>5, <2>7 DEF Display, Homed
<1>13. CASE WriteHigh
  <2>1. PICK f : f = [cursor.reg EXCEPT !["high"] = Bytes(At(args))["high"]]
    OBVIOUS
  <2>2. /\ boot = "high" /\ boot' = "done" /\ screen' = screen
        /\ cursor' = [cursor EXCEPT !.index = "high", !.reg = f]
        /\ args' = [x |-> 0, y |-> 0]
    BY <1>13, <2>1 DEF WriteHigh, BootStep
  <2>3. /\ f \in [Registers -> Int] /\ f["high"] = Bytes(At(args))["high"]
        /\ f["low"] = cursor.reg["low"]
    BY <1>3, <1>7, <2>1
  <2>4. /\ cursor' \in [reg : [Registers -> Int], index : Registers] /\ cursor'.reg = f
        /\ args' \in [x : Int, y : Int]
    <3>1. PICK c : c = [cursor EXCEPT !.reg = f]
      OBVIOUS
    <3>2. c \in [reg : [Registers -> Int], index : Registers] /\ c.reg = f
      BY <1>3, <2>3, <3>1
    <3>3. cursor' = [c EXCEPT !.index = "high"]
      BY <1>3, <2>2, <3>1
    <3> QED
      BY <1>7, <2>2, <3>2, <3>3
  <2>5. ~raced => args.x = s.x /\ args.y = s.y /\ cursor.reg["low"] = Bytes(At(s))["low"]
    BY <1>3, <2>2 DEF Homed
  <2>6. ~raced => At(args) = At(s)
    BY <2>5 DEF At
  <2>7. ~raced => cursor'.reg = Bytes(At(s))
    BY <1>5, <2>3, <2>4, <2>5, <2>6, TwoBytes
  <2> QED
    BY <1>2, <1>3, <1>4, <2>2, <2>4, <2>7 DEF Display, Homed
<1> QED
  BY <1>8, <1>9, <1>10, <1>11, <1>12, <1>13 DEF Boot

(* Whoever prints, the cursor is put where the displayed terminal has it.   *)
LEMMA DisplayInv == ASSUME ConsoleInv, Next PROVE Display'
<1>0. /\ Control /\ Contents /\ Contents' /\ Display /\ args \in [x : Int, y : Int]
      /\ cur_terminal \in Terms /\ screen \in [Terms -> Screen] /\ screen' \in [Terms -> Screen]
  BY ContentsInv DEF ConsoleInv, Control, Contents, Display
<1>1. ASSUME NEW t, NEW s, Show(t, s), UNCHANGED <<cur_terminal, startup>> PROVE Display'
  <2>1. PICK p : p = screen'[cur_terminal]
    OBVIOUS
  <2>2. p \in Screen /\ move_cursor(p) /\ screen'[cur_terminal'] = p
    BY <1>0, <1>1, <2>1 DEF Show
  <2> QED
    BY <1>0, <1>1, <2>2, MoveShows
<1>2. ASSUME UNCHANGED <<screen, display, cur_terminal, startup>> PROVE Display'
  BY <1>0, <1>2, DisplaySame
<1>3. CASE Boot
  BY <1>3, BootShows
<1>4. ASSUME NEW c \in Keys, PressChar(c) PROVE Display'
  BY <1>1, <1>2, <1>4 DEF PressChar, print_scancode
<1>5. CASE PressEnter
  BY <1>1, <1>2, <1>5 DEF PressEnter, print_scancode
<1>6. CASE PressBackspace
  BY <1>1, <1>6 DEF PressBackspace
<1>7. CASE PressCtrlL
  BY <1>1, <1>7 DEF PressCtrlL
<1>8. CASE Repaint
  BY <1>1, <1>2, <1>8 DEF Repaint, Repainted
<1>9. ASSUME NEW t \in Terms, change_shell(t) PROVE Display'
  <2>1. PICK p : p = screen[t]
    OBVIOUS
  <2>2. p \in Screen /\ move_cursor(p) /\ screen'[cur_terminal'] = p /\ UNCHANGED startup
    BY <1>0, <1>9, <2>1 DEF change_shell
  <2> QED
    BY <1>0, <2>2, MoveShows
<1>10. ASSUME NEW t \in Terms, NEW c, terminal_write(t, c) PROVE Display'
  BY <1>1, <1>10 DEF terminal_write
<1>11. ASSUME NEW t \in Terms, ReadStart(t) PROVE Display'
  BY <1>2, <1>11 DEF ReadStart
<1>12. ASSUME NEW t \in Terms, ReadCopy(t) PROVE Display'
  BY <1>2, <1>12 DEF ReadCopy
<1>13. CASE Tick
  BY <1>2, <1>13 DEF Tick
<1>14. ASSUME NEW t \in Terms, NEW u \in {t, cur_terminal}, NEW d \in Drawings,
              Draw(t, u, d[1], d[2])
       PROVE  Display'
  <2>1. PICK s : s = screen[cur_terminal]
    OBVIOUS
  <2>2. PICK p : p = screen'[cur_terminal']
    OBVIOUS
  <2>3. UNCHANGED <<display, startup, cur_terminal>>
    BY <1>14 DEF Draw
  <2>4. p.x = s.x /\ p.y = s.y
    BY <1>0, <1>14, <2>1, <2>2, <2>3 DEF Draw, Drawn, Screen
  <2> QED
    BY <1>0, <2>1, <2>2, <2>3, <2>4, DisplaySame
<1> QED
  BY <1>3, <1>4, <1>5, <1>6, <1>7, <1>8, <1>9, <1>10, <1>11, <1>12, <1>13, <1>14
     DEF Next, Keyboard, Program

(* The first state: empty buffers, and pages that are blank or recorded.    *)
LEMMA ConsoleInit == Init => ConsoleInv
<1> SUFFICES ASSUME Init PROVE ConsoleInv
  OBVIOUS
<1>1. BlankPage \in [Cells -> Glyphs] /\ \A i \in Cells : BlankPage[i] = Space
  BY DEF BlankPage, Glyphs
<1>2. PICK page \in [Terms -> Leftovers \cup {BlankPage}] :
        /\ screen = [t \in Terms |-> [text |-> page[t], x |-> 0, y |-> 0]]
        /\ odd = [t \in Terms |-> IF page[t] = BlankPage THEN {} ELSE {"dirty"}]
  BY DEF Init
<1>3. 0 \in Terms
  BY Sizes DEF Terms
<1>4. ASSUME NEW t \in Terms
      PROVE  screen[t] \in Screen /\ odd[t] \in Spoils /\ Good(screen[t], << >>, odd[t], 0)
  <2>1. PICK s : s = [text |-> page[t], x |-> 0, y |-> 0]
    OBVIOUS
  <2>2. page[t] \in [Cells -> Glyphs]
    BY <1>1, <1>2, <1>4, OutputTyped
  <2>3. s \in Screen /\ s.text = page[t] /\ s.x = 0 /\ s.y = 0
    BY <2>1, <2>2 DEF Screen
  <2>4. Inside(s) /\ At(s) = 0
    BY <2>3, Sizes DEF Inside, At
  <2>5. PICK o : o = IF page[t] = BlankPage THEN {} ELSE {"dirty"}
    OBVIOUS
  <2>6. o \in Spoils /\ (o \cap Lasting = {} => page[t] = BlankPage)
    BY <2>5 DEF Spoils, Lasting
  <2>7. o \cap Lasting = {} => Blank(s)
    BY <1>1, <2>3, <2>6 DEF Blank
  <2>8. Shows(s, << >>, 0) /\ Len(<< >>) = 0
    BY DEF Shows
  <2>9. Good(s, << >>, o, 0)
    BY <2>3, <2>4, <2>7, <2>8, Sizes DEF Good
  <2>10. screen[t] = s /\ odd[t] = o
    BY <1>2, <1>4, <2>1, <2>5
  <2> QED
    BY <2>3, <2>6, <2>9, <2>10
<1>5. \A t \in Terms : buf[t] = << >> /\ Len(buf[t]) = 0
  BY DEF Init
<1>6. screen \in [Terms -> Screen] /\ odd \in [Terms -> Spoils]
  BY <1>2, <1>4
<1>7. buf \in [Terms -> Buffers] /\ repaint = IDLE
  BY DEF Init, Buffers
<1>8. Contents
  BY <1>4, <1>5, <1>6, <1>7 DEF Contents, Printed, Repainting
<1>9. Control
  BY <1>3 DEF Init, Control, BootLabels
<1>10. Display
  <2>1. PICK p \in Cells : cursor = [reg |-> Bytes(p), index |-> "high"]
    BY DEF Init
  <2>2. Bytes(p) \in [Registers -> Int]
    BY BytesTyped, Sizes DEF Cells
  <2>3. PICK f : f = Bytes(p)
    OBVIOUS
  <2>4. cursor \in [reg : [Registers -> Int], index : Registers]
    BY <2>1, <2>2, <2>3 DEF Registers
  <2>5. boot = "y" /\ args = [x |-> 0, y |-> 0]
    BY DEF Init
  <2>6. Homed(screen[cur_terminal])
    BY <2>5 DEF Homed
  <2>7. args \in [x : Int, y : Int]
    BY <2>5
  <2>8. raced \in BOOLEAN
    BY DEF Init
  <2> QED
    BY <2>4, <2>6, <2>7, <2>8 DEF Display
<1> QED
  BY <1>8, <1>9, <1>10 DEF ConsoleInv

-----------------------------------------------------------------------------
(* The text, the buffer and the cursor of every terminal agree in every     *)
(* state.                                                                   *)
THEOREM ConsoleSafe == Spec => []ConsoleInv
<1>1. ConsoleInv /\ [Next]_vars => ConsoleInv'
  <2> SUFFICES ASSUME ConsoleInv, [Next]_vars PROVE ConsoleInv'
    OBVIOUS
  <2>1. CASE Next
    BY <2>1, ContentsInv, ControlInv, DisplayInv DEF ConsoleInv
  <2>2. CASE UNCHANGED vars
    BY <2>2, StutterKeeps
  <2> QED
    BY <2>1, <2>2
<1> QED
  BY <1>1, ConsoleInit, PTL DEF Spec

(* putc, new_line and back_space (lib.c) keep x and y on the page, and      *)
(* Backspace never has more characters to take than cells to go back.       *)
THEOREM CursorOnPage == Spec => []OnPage
<1>1. ConsoleInv => OnPage
  <2> SUFFICES ASSUME ConsoleInv, NEW t \in Terms, "early" \notin odd[t]
               PROVE  /\ screen[t].x \in 0 .. NUM_COLS - 1
                      /\ screen[t].y \in 0 .. NUM_ROWS - 1
                      /\ ~Repainting(t) /\ Len(buf[t]) <= BUF_LENGTH
                           => At(screen[t]) >= Len(buf[t])
    BY DEF OnPage
  <2>1. Good(screen[t], buf[t], odd[t], Printed(t))
    BY DEF ConsoleInv, Contents
  <2> QED
    BY <2>1 DEF Good, Inside, Printed
<1> QED
  BY <1>1, ConsoleSafe, PTL

(* No character of an older text is left from the cursor on, except on a    *)
(* page that a program drew on or that no one has cleared since boot.       *)
THEOREM NothingBehindCursor == Spec => []BlankAfterCursor
<1>1. ConsoleInv => BlankAfterCursor
  BY DEF ConsoleInv, Contents, Good, Blank, BlankAfterCursor
<1> QED
  BY <1>1, ConsoleSafe, PTL

(* The line that is typed (kb_buf) stands before the cursor, through        *)
(* wrapping, scrolling, Backspace and the repaint of Ctrl+L.                *)
THEOREM LineIsShown == Spec => []TypedShown
<1>1. ConsoleInv => TypedShown
  <2> SUFFICES ASSUME ConsoleInv, NEW t \in Terms, odd[t] \subseteq {"dirty"}, ~Repainting(t),
                      \A i \in 1 .. Len(buf[t]) : buf[t][i] # NewLine
               PROVE  /\ At(screen[t]) - Len(buf[t]) \in Cells
                      /\ \A i \in 1 .. Len(buf[t]) :
                           screen[t].text[At(screen[t]) - Len(buf[t]) + i - 1] = buf[t][i]
    BY DEF TypedShown
  <2>1. PICK s : s = screen[t]
    OBVIOUS
  <2>2. PICK b : b = buf[t]
    OBVIOUS
  <2>3. PICK n : n = Len(b)
    OBVIOUS
  <2>4. Good(s, b, odd[t], n) /\ b \in Buffers
    BY <2>1, <2>2, <2>3 DEF ConsoleInv, Contents, Printed
  <2>5. n \in Nat
    BY <2>3, <2>4 DEF Buffers
  <2>6. Plain(b)
    BY <2>2 DEF Plain
  <2>7. s \in Screen /\ Inside(s) /\ (n <= BUF_LENGTH => At(s) >= n) /\ n <= BUF_LENGTH - 1
    BY <2>3, <2>4, <2>6, SpoilFacts DEF Good
  <2>8. Shows(s, b, n)
    BY <2>4, <2>6 DEF Good
  <2>9. At(s) \in Int /\ At(s) \in Cells /\ At(s) >= n
    BY <2>5, <2>7, Sizes, Fields, Place
  <2>10. At(s) - n \in Cells
    BY <2>5, <2>9, Sizes DEF Cells
  <2> QED
    BY <2>1, <2>2, <2>3, <2>8, <2>10 DEF Shows
<1> QED
  BY <1>1, ConsoleSafe, PTL

(* From the end of boot on move_cursor (lib.c) is called with the place of  *)
(* the displayed terminal; a key that interrupts its first call, at the end *)
(* of boot, is the one exception.                                           *)
THEOREM CursorFollowsDisplay == Spec => []CursorShown
<1>1. ConsoleInv => CursorShown
  BY DEF ConsoleInv, Display, Homed, CursorShown, Booted
<1> QED
  BY <1>1, ConsoleSafe, PTL

(* The pages, x and y, the buffers and the cursor (lib.c, kb.c) keep their  *)
(* types.                                                                   *)
THEOREM ConsoleTyped == Spec => []TypeOK
<1>1. ConsoleInv => TypeOK
  <2> SUFFICES ASSUME ConsoleInv PROVE TypeOK
    OBVIOUS
  <2>1. /\ screen \in [Terms -> Screen] /\ buf \in [Terms -> Buffers]
        /\ odd \in [Terms -> Spoils] /\ repaint \in Nat \cup {IDLE}
    BY DEF ConsoleInv, Contents
  <2>2. /\ cursor \in [reg : [Registers -> Int], index : Registers]
        /\ args \in [x : Int, y : Int] /\ raced \in BOOLEAN
    BY DEF ConsoleInv, Display
  <2> QED
    BY <2>1, <2>2 DEF TypeOK, ConsoleInv, Control, Screen, Glyphs, Buffers, Spoils
<1> QED
  BY <1>1, ConsoleSafe, PTL
=============================================================================
