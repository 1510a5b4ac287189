--------------------------- MODULE ConsoleProofs ---------------------------
(***************************************************************************)
(* Proofs about Console.tla, for every size of the buffer and of the       *)
(* screen and every set of characters, whatever is printed: the line the   *)
(* shell is handed is the line that was typed; the cursor leaves the grid  *)
(* by backspace only; the screen shows the line.                           *)
(*                                                                         *)
(* inputBuffer keeps what longer lines and erased characters have left in  *)
(* it.  What has to be known of it is its part up to input_length, which   *)
(* every key keeps equal to the line typed (LineInv); Enter then puts the  *)
(* terminator right behind it, and finds none before.                      *)
(*                                                                         *)
(* What is printed is a fold over a text.  A fold is a function on the     *)
(* lengths of the text's beginnings (PrintsExist), and what each character *)
(* keeps the text keeps: the least length at which it does not hold would  *)
(* contradict that (PrintingKeeps).                                        *)
(***************************************************************************)
EXTENDS Console, SequenceTheorems, WellFoundedInduction, TLAPS

\* What the proofs need of the constants.
LEMMA Sizes == BUFFER \in Nat \ {0} /\ NUL \notin Chars
<1>1. BUFFER \in Nat \ {0}
  BY ConsoleAssumption, Zenon
<1>2. Chars \cap {"", "\n"} = {}
  BY ConsoleAssumption, Zenon
<1>3. NUL \notin Chars
  BY <1>2, Zenon DEF NUL
<1> QED BY <1>1, <1>3

\* The buffer begins with the line typed, and the line fits.
LineInv ==
  /\ buffer \in [0 .. BUFFER - 1 -> Shown]
  /\ length \in 0 .. BUFFER
  /\ typed \in Seq(Chars) /\ Len(typed) = length
  /\ \A i \in 1 .. length : buffer[i - 1] = typed[i]

\* An empty line in an empty buffer.
LEMMA InitLineInv == Init => LineInv
  BY Sizes DEF Init, LineInv, Shown

\* The boot code leaves the line alone, wherever it is.
LEMMA BootKeepsLine ==
  ASSUME LineInv, BootStep
  PROVE  LineInv'
<1>1. UNCHANGED <<buffer, length, typed>>
  BY DEF BootStep, BootPrints, LoadCursor, StoreCell, LoadColumn, StoreRow,
         StoreColumn, TestColumn, TurnScrolls, TurnRow, LoadRow, StoreBelow,
         TestRow, ShellInit, BootDone, Boot, editor
<1> QED BY <1>1 DEF LineInv

\* A character goes to the end of both.
LEMMA CharKeepsLine ==
  ASSUME LineInv, NEW c \in Chars, KeyChar(c)
  PROVE  LineInv'
<1> USE DEF LineInv, KeyChar, PastBuffer, Shown
<1>1. length \in 0 .. BUFFER - 1
  BY Sizes
<1>2. buffer' \in [0 .. BUFFER - 1 -> Shown]
  OBVIOUS
<1>3. typed' \in Seq(Chars) /\ Len(typed') = length' /\ length' \in 0 .. BUFFER
  BY <1>1, Sizes
<1>4. ASSUME NEW i \in 1 .. length' PROVE buffer'[i - 1] = typed'[i]
  <2>1. CASE i <= length
    BY <2>1, <1>1
  <2>2. CASE i = length + 1
    BY <2>2, <1>1
  <2> QED BY <2>1, <2>2, <1>1
<1> QED BY <1>2, <1>3, <1>4

\* Backspace takes the last one from both; the blank it writes is behind them.
LEMMA EraseKeepsLine ==
  ASSUME LineInv, KeyErase
  PROVE  LineInv'
<1> USE DEF LineInv, KeyErase, PastBuffer, Shown
<1>1. length \in 1 .. BUFFER - 1
  BY Sizes
<1>2. buffer' \in [0 .. BUFFER - 1 -> Shown]
  OBVIOUS
<1>3. typed' \in Seq(Chars) /\ Len(typed') = length' /\ length' \in 0 .. BUFFER
  BY <1>1, Sizes
<1>4. ASSUME NEW i \in 1 .. length' PROVE buffer'[i - 1] = typed'[i]
  BY <1>1
<1> QED BY <1>2, <1>3, <1>4

\* Enter empties the line and leaves the buffer as it is, but for terminators.
LEMMA EnterKeepsLine ==
  ASSUME LineInv,
         KeyEnterEarly \/ \E output, known : KeyEnter(output, known)
  PROVE  LineInv'
<1>1. length' = 0 /\ typed' = <<>>
  BY DEF KeyEnterEarly, KeyEnter
<1>2. buffer' \in [0 .. BUFFER - 1 -> Shown]
  BY Sizes DEF LineInv, KeyEnterEarly, KeyEnter, Shown
<1> QED BY <1>1, <1>2, Sizes DEF LineInv

\* Every step of the machine keeps the line.
LEMMA NextLineInv == LineInv /\ [Next]_vars => LineInv'
<1> SUFFICES ASSUME LineInv, [Next]_vars PROVE LineInv'
  OBVIOUS
<1>1. CASE BootStep
  BY <1>1, BootKeepsLine
<1>2. CASE \E c \in Chars : KeyChar(c)
  BY <1>2, CharKeepsLine
<1>3. CASE KeyNothing
  BY <1>3 DEF KeyNothing, LineInv, editor
<1>4. CASE KeyErase
  BY <1>4, EraseKeepsLine
<1>5. CASE KeyEnterEarly \/ (\E output, known : KeyEnter(output, known))
  BY <1>5, EnterKeepsLine
<1>6. CASE KeyPastBuffer \/ Undefined \/ UNCHANGED vars
  BY <1>6 DEF KeyPastBuffer, Undefined, vars, editor, history, LineInv
<1> QED BY <1>1, <1>2, <1>3, <1>4, <1>5, <1>6 DEF Next, Key

\* The first terminator in the buffer is the one Enter writes.
LEMMA StringIsLine ==
  ASSUME LineInv, ~PastBuffer
  PROVE  CString([buffer EXCEPT ![length] = NUL]) = typed
<1> DEFINE b == [buffer EXCEPT ![length] = NUL]
           ends == {i \in DOMAIN b : b[i] = NUL}
<1>1. length \in 0 .. BUFFER - 1 /\ DOMAIN b = 0 .. BUFFER - 1
  BY Sizes DEF LineInv, PastBuffer
<1>2. \A i \in 0 .. BUFFER - 1 : b[i] = IF i = length THEN NUL ELSE buffer[i]
  BY <1>1 DEF LineInv
<1>3. ASSUME NEW i \in 0 .. length - 1 PROVE b[i] = typed[i + 1] /\ b[i] # NUL
  <2>1. i \in 0 .. BUFFER - 1 /\ i + 1 \in 1 .. length /\ i # length
    BY <1>1, Sizes
  <2>2. b[i] = typed[i + 1]
    BY <2>1, <1>2 DEF LineInv
  <2>3. typed[i + 1] \in Chars
    BY <2>1 DEF LineInv
  <2> QED BY <2>2, <2>3, Sizes
<1>4. length \in ends
  BY <1>1, <1>2
<1>5. \A j \in ends : length <= j
  <2> SUFFICES ASSUME NEW j \in ends, ~(length <= j) PROVE FALSE
    OBVIOUS
  <2>1. j \in 0 .. length - 1
    BY <1>1
  <2> QED BY <2>1, <1>3
<1>6. \A i \in ends : (\A j \in ends : i <= j) => i = length
  BY <1>1, <1>4, <1>5
<1> HIDE DEF ends
<1>7. (CHOOSE i \in ends : \A j \in ends : i <= j) = length
  BY <1>4, <1>5, <1>6
<1>8. CString(b) = [i \in 1 .. length |-> b[i - 1]]
  BY <1>4, <1>7 DEF CString, ends
<1>9. ASSUME NEW i \in 1 .. length PROVE b[i - 1] = typed[i]
  BY <1>1, <1>3
<1> HIDE DEF b
<1>10. typed = [i \in 1 .. length |-> typed[i]]
  BY DEF LineInv
<1> QED BY <1>8, <1>9, <1>10 DEF b

\* The buffer begins with the line typed at any moment of boot and after it,
\* whatever earlier lines have left in it.
THEOREM BufferHoldsLine == Spec => []LineInv
  BY InitLineInv, NextLineInv, PTL DEF Spec

\* Enter hands the shell the characters typed and not erased: for every buffer
\* and screen, every command output, and any interleaving with boot's printing.
THEOREM LineReaches == Spec => LineGiven
<1>1. LineInv /\ [Next]_vars =>
        [(\E output \in Outputs \cup {Clear}, known \in BOOLEAN : KeyEnter(output, known))
           => line' = typed]_vars
  <2> SUFFICES ASSUME LineInv, NEW output, NEW known, KeyEnter(output, known)
               PROVE  line' = typed
    OBVIOUS
  <2>1. line' = CString([buffer EXCEPT ![length] = NUL]) /\ ~PastBuffer
    BY DEF KeyEnter
  <2> QED BY <2>1, StringIsLine
<1> QED BY <1>1, BufferHoldsLine, PTL DEF Spec, LineGiven
-----------------------------------------------------------------------------
(* Strings are printed character by character. *)

\* A set of naturals that is not empty has a least element.
LEMMA Least ==
  ASSUME NEW S, S \subseteq Nat, S # {}
  PROVE  \E m \in S : \A k \in S : m <= k
<1> DEFINE R == {ss \in Nat \X Nat : ss[1] < ss[2]}
<1>1. IsWellFoundedOn(R, Nat)
  BY NatLessThanWellFounded DEF OpToRel
<1> HIDE DEF R
<1>2. PICK m \in S : \A k \in S : ~(<<k, m>> \in R)
  BY <1>1, WFMin, Zenon
<1>3. \A k \in S : ~(k < m)
  BY <1>2 DEF R
<1> QED BY <1>3

\* What FoldLeft(PutChar, s, chars) picks: the screen after each set of characters.
Prints(f, s, chars, n) ==
  f = [q \in SUBSET (1 .. n) |->
         IF q = {} THEN s ELSE PutChar(f[q \ {Max(q)}], chars[Max(q)])]

\* The last of a set of positions.
LEMMA LastOf ==
  ASSUME NEW n \in Nat, NEW q \in SUBSET (1 .. n)
  PROVE  /\ n \in q => Max(q) = n
         /\ q # {} => Max(q) \in q /\ \A k \in q : k <= Max(q)
<1> SUFFICES ASSUME q # {} PROVE (n \in q => Max(q) = n) /\ Max(q) \in q /\ \A k \in q : k <= Max(q)
  OBVIOUS
<1>1. \E m \in q : \A k \in q : m >= k
  <2> DEFINE S == {n - k : k \in q}
  <2>1. S \subseteq Nat /\ S # {}
    OBVIOUS
  <2>2. PICK m \in S : \A k \in S : m <= k
    <3> HIDE DEF S
    <3> QED BY <2>1, Least
  <2>3. PICK l \in q : m = n - l
    OBVIOUS
  <2>4. \A k \in q : n - l <= n - k
    BY <2>2, <2>3
  <2> QED BY <2>4
<1>2. Max(q) \in q /\ \A k \in q : Max(q) >= k
  BY <1>1 DEF Max
<1>3. n \in q => Max(q) = n
  <2>1. ASSUME n \in q PROVE Max(q) = n
    <3>1. Max(q) \in 1 .. n /\ Max(q) >= n
      BY <1>2, <2>1
    <3> QED BY <3>1
  <2> QED BY <2>1
<1>4. \A k \in q : k <= Max(q)
  <2>1. Max(q) \in 1 .. n /\ \A k \in q : k \in 1 .. n
    BY <1>2
  <2> QED BY <1>2, <2>1
<1> QED BY <1>2, <1>3, <1>4

\* There is such a function.
LEMMA PrintsExist ==
  ASSUME NEW s, NEW chars, NEW n \in Nat
  PROVE  \E f : Prints(f, s, chars, n)
<1> DEFINE Bad == {m \in Nat : ~ \E f : Prints(f, s, chars, m)}
<1>1. SUFFICES ASSUME Bad # {} PROVE FALSE
  OBVIOUS
<1>2. PICK m \in Bad : \A k \in Bad : m <= k
  <2>1. Bad \subseteq Nat
    OBVIOUS
  <2> HIDE DEF Bad
  <2> QED BY <1>1, <2>1, Least
<1>3. m \in Nat /\ ~ \E f : Prints(f, s, chars, m)
  OBVIOUS
<1>4. m # 0
  <2>1. Prints([q \in SUBSET (1 .. 0) |-> s], s, chars, 0)
    BY DEF Prints
  <2> QED BY <1>3, <2>1
<1>5. m - 1 \in Nat /\ ~(m <= m - 1)
  BY <1>3, <1>4
<1>6. PICK f : Prints(f, s, chars, m - 1)
  <2>1. m - 1 \notin Bad
    <3> HIDE DEF Bad
    <3> QED BY <1>2, <1>5
  <2> QED BY <1>5, <2>1
<1> DEFINE h == [q \in SUBSET (1 .. m) |->
                   IF m \in q THEN PutChar(f[q \ {m}], chars[m]) ELSE f[q]]
<1>7. ASSUME NEW q \in SUBSET (1 .. m), m \in q
      PROVE  q # {} /\ Max(q) = m /\ q \ {m} \in SUBSET (1 .. m) /\ m \notin q \ {m}
  BY <1>7, <1>3, LastOf
<1>8. ASSUME NEW q \in SUBSET (1 .. m), m \notin q, q # {}
      PROVE  /\ q \in SUBSET (1 .. m - 1) /\ q \ {Max(q)} \in SUBSET (1 .. m - 1)
             /\ q \ {Max(q)} \in SUBSET (1 .. m) /\ m \notin q \ {Max(q)}
  <2>1. \A k \in q : k \in 1 .. m - 1
    BY <1>3, <1>8
  <2> QED BY <2>1, <1>8
<1>9. ASSUME NEW q \in SUBSET (1 .. m)
      PROVE  h[q] = IF q = {} THEN s ELSE PutChar(h[q \ {Max(q)}], chars[Max(q)])
  <2>1. CASE m \in q
    BY <2>1, <1>7
  <2>2. CASE m \notin q /\ q # {}
    BY <2>2, <1>6, <1>8 DEF Prints
  <2>3. CASE q = {}
    BY <2>3, <1>6 DEF Prints
  <2> QED BY <2>1, <2>2, <2>3
<1>10. h = [q \in SUBSET (1 .. m) |-> h[q]]
  OBVIOUS
<1> HIDE DEF h
<1>11. Prints(h, s, chars, m)
  BY <1>9, <1>10, Zenon DEF Prints
<1> QED BY <1>3, <1>11

\* A string is printed character by character.
LEMMA PrintedOneByOne ==
  ASSUME NEW s, NEW chars \in Seq(STRING)
  PROVE  \E f : /\ f[0] = s /\ PutString(s, chars) = f[Len(chars)]
                /\ \A k \in 1 .. Len(chars) : f[k] = PutChar(f[k - 1], chars[k])
<1> DEFINE n == Len(chars)
           g == CHOOSE f : Prints(f, s, chars, n)
           f == [k \in 0 .. n |-> g[1 .. k]]
<1>1. n \in Nat /\ DOMAIN chars = 1 .. n
  OBVIOUS
<1>2. PutString(s, chars) = g[1 .. n]
  BY <1>1 DEF PutString, FoldLeft, MapThenFoldSet, Prints
<1>3. Prints(g, s, chars, n)
  <2> HIDE DEF n
  <2> QED BY <1>1, PrintsExist
<1> HIDE DEF g
<1>4. f[0] = s /\ f[n] = g[1 .. n]
  <2>1. 1 .. 0 = {} /\ {} \in SUBSET (1 .. n)
    BY <1>1
  <2>2. g[{}] = s
    BY <1>3, <2>1 DEF Prints
  <2> QED BY <2>1, <2>2, <1>1
<1>5. ASSUME NEW k \in 1 .. n PROVE f[k] = PutChar(f[k - 1], chars[k])
  <2>1. 1 .. k \in SUBSET (1 .. n) /\ k \in 1 .. k /\ 1 .. k \in SUBSET (1 .. k) /\ k \in Nat
    BY <1>1
  <2>2. Max(1 .. k) = k
    BY <2>1, LastOf
  <2>3. (1 .. k) \ {k} = 1 .. k - 1
    BY <2>1
  <2>4. g[1 .. k] = PutChar(g[(1 .. k) \ {Max(1 .. k)}], chars[Max(1 .. k)])
    BY <1>3, <2>1 DEF Prints
  <2>5. k \in 0 .. n /\ k - 1 \in 0 .. n
    BY <1>1
  <2> QED BY <2>2, <2>3, <2>4, <2>5
<1> QED BY <1>2, <1>4, <1>5

\* What every character keeps, a string keeps.
LEMMA PrintingKeeps ==
  ASSUME NEW S, NEW s \in S, NEW chars \in Seq(STRING),
         \A t \in S, c \in STRING : PutChar(t, c) \in S
  PROVE  PutString(s, chars) \in S
<1>1. PICK f : /\ f[0] = s /\ PutString(s, chars) = f[Len(chars)]
               /\ \A k \in 1 .. Len(chars) : f[k] = PutChar(f[k - 1], chars[k])
  BY PrintedOneByOne
<1> DEFINE Bad == {k \in 0 .. Len(chars) : f[k] \notin S}
<1>2. SUFFICES ASSUME Bad # {} PROVE FALSE
  BY <1>1
<1>3. PICK m \in Bad : \A k \in Bad : m <= k
  <2>1. Bad \subseteq Nat
    OBVIOUS
  <2> HIDE DEF Bad
  <2> QED BY <1>2, <2>1, Least
<1>4. m \in 1 .. Len(chars) /\ f[m] \notin S
  BY <1>1, <1>3
<1>5. m - 1 \in 0 .. Len(chars) /\ ~(m <= m - 1)
  BY <1>4
<1>6. f[m - 1] \in S
  BY <1>3, <1>5
<1>7. chars[m] \in STRING
  BY <1>4
<1> QED BY <1>1, <1>4, <1>6, <1>7

-----------------------------------------------------------------------------
(* The types of the screen. *)

\* Numbers of 16 bits.
LEMMA Wraps ==
  /\ WORD \in Nat /\ WORD > 1
  /\ \A n \in Int : U16(n) \in 0 .. WORD - 1 /\ (n \in 0 .. WORD - 1 => U16(n) = n)
<1>1. WORD \in Nat /\ WORD > 1
  BY SMT DEF WORD
<1>2. ASSUME NEW n \in Int, NEW w \in Nat, w > 1 PROVE n % w \in 0 .. w - 1
  BY <1>2, SMT
<1>3. ASSUME NEW w \in Nat, w > 1, NEW n \in 0 .. w - 1 PROVE n % w = n
  BY <1>3, SMT
<1> QED BY <1>1, <1>2, <1>3 DEF U16

\* What these proofs need of the constants.
LEMMA Grid ==
  /\ WIDTH \in Nat \ {0} /\ HEIGHT \in Nat \ {0} /\ MAX_COLUMN \in Nat
  /\ WIDTH < WORD /\ HEIGHT < WORD
  /\ Welcome \in Seq(STRING) /\ Prompt \in Seq(STRING) /\ Outputs \subseteq Seq(STRING)
<1>1. /\ WIDTH \in Nat \ {0} /\ HEIGHT \in Nat \ {0} /\ MAX_COLUMN \in Nat
      /\ BUFFER \in Nat \ {0}
      /\ WIDTH + BUFFER < WORD /\ HEIGHT + BUFFER < WORD
      /\ Welcome \in Seq(STRING) /\ Prompt \in Seq(STRING) /\ Outputs \subseteq Seq(STRING)
  BY ConsoleAssumption, Zenon
<1>2. WIDTH < WORD /\ HEIGHT < WORD
  BY <1>1, Wraps
<1> QED BY <1>1, <1>2

\* No line is long enough to lead from one end of 16 bits into the grid.
LEMMA Margins ==
  /\ BUFFER \in Nat \ {0} /\ WIDTH + BUFFER < WORD /\ HEIGHT + BUFFER < WORD
  BY ConsoleAssumption, Zenon

\* What is put on the screen.
Glyphs == STRING \cup {NUL, NL, Blank}

\* Characters.
LEMMA Characters ==
  /\ Chars \subseteq Glyphs /\ STRING \subseteq Glyphs /\ NL \notin Chars
  /\ NUL \in Glyphs /\ NL \in Glyphs /\ Blank \in Glyphs
<1>1. Chars \subseteq STRING /\ Chars \cap {"", "\n"} = {}
  BY ConsoleAssumption, Zenon
<1>2. NL \notin Chars
  BY <1>1, Zenon DEF NL
<1> QED BY <1>1, <1>2 DEF Glyphs

Screens == [x : 0 .. WORD - 1, y : 0 .. WORD - 1, cell : [Cells -> Glyphs], fault : BOOLEAN]

\* A character goes to one cell or to none.
LEMMA DrawTypes ==
  ASSUME NEW s \in Screens, NEW column, NEW row, NEW c \in Glyphs
  PROVE  /\ Draw(s, column, row, c) \in Screens
         /\ Draw(s, column, row, c).x = s.x /\ Draw(s, column, row, c).y = s.y
<1> DEFINE i == row * WIDTH + column
           drawn == IF i \in Cells THEN [s.cell EXCEPT ![i] = c] ELSE s.cell
<1>1. s.cell \in [Cells -> Glyphs]
  BY DEF Screens
<1>2. drawn \in [Cells -> Glyphs]
  BY <1>1
<1>3. (s.fault \/ i >= MAPPED) \in BOOLEAN
  OBVIOUS
<1>4. Draw(s, column, row, c) = [s EXCEPT !.cell = drawn, !.fault = (s.fault \/ i >= MAPPED)]
  BY DEF Draw
<1> HIDE DEF drawn, i
<1> QED BY <1>2, <1>3, <1>4 DEF Screens

\* scroll.
LEMMA ScrollTypes ==
  ASSUME NEW s \in Screens
  PROVE  /\ Scroll(s) \in Screens
         /\ Scroll(s).x = 0 /\ Scroll(s).y = HEIGHT - 1 /\ Scroll(s).fault = s.fault
<1> DEFINE up == [i \in Cells |-> IF i + WIDTH \in Cells THEN s.cell[i + WIDTH] ELSE Blank]
<1>1. up \in [Cells -> Glyphs]
  BY Characters DEF Screens
<1>2. Scroll(s) = [s EXCEPT !.x = 0, !.y = HEIGHT - 1, !.cell = up]
  BY DEF Scroll
<1> HIDE DEF up
<1>3. HEIGHT - 1 \in 0 .. WORD - 1 /\ 0 \in 0 .. WORD - 1
  BY Grid, Wraps
<1> QED BY <1>1, <1>2, <1>3 DEF Screens

\* putchar, its three parts.
LEMMA PutCharTypes ==
  ASSUME NEW s \in Screens, NEW c \in Glyphs
  PROVE  PutChar(s, c) \in Screens /\ Place(s, c) \in Screens
         /\ WrapLine(s) \in Screens /\ Bottom(s) \in Screens
<1>1. ASSUME NEW t \in Screens PROVE Bottom(t) \in Screens
  BY ScrollTypes DEF Bottom
<1>2. ASSUME NEW t \in Screens PROVE WrapLine(t) \in Screens
  <2>1. U16(t.y + 1) \in 0 .. WORD - 1 /\ 0 \in 0 .. WORD - 1
    BY Wraps DEF Screens
  <2>2. [t EXCEPT !.x = 0, !.y = U16(t.y + 1)] \in Screens
    BY <2>1 DEF Screens
  <2>3. WrapLine(t) \in {Scroll(t), [t EXCEPT !.x = 0, !.y = U16(t.y + 1)], t}
    BY Grid DEF WrapLine, Screens
  <2> QED BY <2>2, <2>3, ScrollTypes
<1>3. Place(s, c) \in Screens
  <2>1. U16(s.y + 1) \in 0 .. WORD - 1 /\ U16(s.x + 1) \in 0 .. WORD - 1 /\ 0 \in 0 .. WORD - 1
    BY Wraps DEF Screens
  <2>2. [s EXCEPT !.x = 0, !.y = U16(s.y + 1)] \in Screens
    BY <2>1 DEF Screens
  <2> DEFINE d == Draw(s, s.x, s.y, c)
  <2>3. d \in Screens /\ d.x = s.x
    BY DrawTypes
  <2>4. Place(s, c) = IF c = NL THEN [s EXCEPT !.x = 0, !.y = U16(s.y + 1)]
                      ELSE [d EXCEPT !.x = U16(s.x + 1)]
    BY <2>3 DEF Place
  <2> HIDE DEF d
  <2>5. [d EXCEPT !.x = U16(s.x + 1)] \in Screens
    BY <2>1, <2>3 DEF Screens
  <2> QED BY <2>2, <2>4, <2>5
<1> QED BY <1>1, <1>2, <1>3 DEF PutChar

\* What is printed stays a screen.
LEMMA PutStringTypes ==
  ASSUME NEW s \in Screens, NEW chars \in Seq(STRING)
  PROVE  PutString(s, chars) \in Screens
  BY PutCharTypes, PrintingKeeps, Characters

\* Backspace.
LEMMA EraseTypes ==
  ASSUME NEW s \in Screens
  PROVE  EraseLast(s) \in Screens
<1> DEFINE b == U16(s.x - 1)
           d == [Draw(s, b, s.y, Blank) EXCEPT !.x = b]
<1>1. b \in 0 .. WORD - 1 /\ U16(s.y - 1) \in 0 .. WORD - 1 /\ WIDTH \in 0 .. WORD - 1
  BY Wraps, Grid DEF Screens
<1>2. Draw(s, b, s.y, Blank) \in Screens /\ Draw(s, b, s.y, Blank).y = s.y
  BY DrawTypes, Characters
<1>3. d \in Screens /\ d.y = s.y
  BY <1>1, <1>2 DEF Screens
<1>4. EraseLast(s) = IF s.x = 0 /\ s.y = 0 THEN s
                     ELSE IF b = 0 THEN [d EXCEPT !.x = WIDTH, !.y = U16(s.y - 1)] ELSE d
  BY <1>3 DEF EraseLast
<1> HIDE DEF d, b
<1>5. [d EXCEPT !.x = WIDTH, !.y = U16(s.y - 1)] \in Screens
  BY <1>1, <1>3 DEF Screens
<1> QED BY <1>3, <1>4, <1>5

\* clear.
LEMMA CleanTypes ==
  ASSUME NEW s \in Screens
  PROVE  CleanScreen(s) \in Screens /\ CleanScreen(s).x = 0 /\ CleanScreen(s).y = 0
<1>1. [i \in Cells |-> Blank] \in [Cells -> Glyphs] /\ 0 \in 0 .. WORD - 1
  BY Characters, Wraps
<1> QED BY <1>1 DEF CleanScreen, Screens

\* A command and the prompt.
LEMMA ExecutedTypes ==
  ASSUME NEW s \in Screens, NEW output \in Outputs \cup {Clear}
  PROVE  Executed(s, output) \in Screens
<1>1. CASE output = Clear
  BY <1>1, CleanTypes, PutStringTypes, Grid DEF Executed
<1>2. CASE output # Clear
  BY <1>2, PutStringTypes, Grid DEF Executed
<1> QED BY <1>1, <1>2

\* Where the boot code can be.
Places ==
  {"quiet", "load", "cell", "row", "count", "column", "wrap", "turn", "down", "below",
   "bottom", "ready"}

\* What the screen, the boot code and the flags hold; inside putchar there is
\* a character.
ScreenInv ==
  /\ x \in 0 .. WORD - 1 /\ y \in 0 .. WORD - 1 /\ cell \in [Cells -> Glyphs]
  /\ seen \in [x : 0 .. WORD - 1, y : 0 .. WORD - 1]
  /\ text \in Seq(STRING) /\ at \in Places
  /\ at \notin {"quiet", "load", "ready"} => text # <<>>
  /\ shell \in BOOLEAN /\ wild \in BOOLEAN /\ echo \in BOOLEAN
  /\ Len(line) <= BUFFER

\* The screen as it is.
LEMMA ScreenTypes ==
  ASSUME ScreenInv
  PROVE  /\ Screen \in Screens /\ Screen.x = x /\ Screen.y = y
         /\ Screen.cell = cell /\ Screen.fault = FALSE
  BY DEF ScreenInv, Screen, Screens

\* The screen as it becomes.
LEMMA ShowTypes ==
  ASSUME NEW s \in Screens, Show(s)
  PROVE  /\ x' \in 0 .. WORD - 1 /\ y' \in 0 .. WORD - 1 /\ cell' \in [Cells -> Glyphs]
         /\ wild' \in BOOLEAN
  BY DEF Show, Screens

\* No line.
LEMMA NoLine == Len(<<>>) <= BUFFER
  BY Sizes

\* The machine is switched on.
LEMMA InitScreen == Init => ScreenInv
<1> SUFFICES ASSUME Init PROVE ScreenInv
  OBVIOUS
<1>1. cell \in [Cells -> Glyphs]
  BY Characters DEF Init
<1>2. x \in 0 .. WORD - 1 /\ y \in 0 .. WORD - 1 /\ seen \in [x : 0 .. WORD - 1, y : 0 .. WORD - 1]
  BY Wraps DEF Init, Origin
<1>3. text \in Seq(STRING) /\ at \in Places /\ at = "quiet"
  BY Grid DEF Init, Places
<1>4. shell \in BOOLEAN /\ wild \in BOOLEAN /\ echo \in BOOLEAN /\ line = <<>>
  BY DEF Init
<1> QED BY <1>1, <1>2, <1>3, <1>4, NoLine DEF ScreenInv

\* The boot code between characters.
LEMMA BootBetween ==
  ASSUME ScreenInv, BootPrints \/ LoadCursor \/ ShellInit \/ BootDone
  PROVE  ScreenInv'
<1>1. line' = <<>> /\ UNCHANGED <<x, y, cell, wild, echo>>
  BY DEF BootPrints, LoadCursor, ShellInit, BootDone, Boot, screen
<1>2. text' \in Seq(STRING) /\ at' \in Places /\ shell' \in BOOLEAN
  BY Grid DEF BootPrints, LoadCursor, ShellInit, BootDone, Boot, editor, ScreenInv, Places
<1>3. at' \notin {"quiet", "load", "ready"} => text' # <<>>
  BY DEF BootPrints, LoadCursor, ShellInit, BootDone, Boot, Printing
<1>4. seen' \in [x : 0 .. WORD - 1, y : 0 .. WORD - 1]
  BY DEF BootPrints, LoadCursor, ShellInit, BootDone, ScreenInv
<1> QED BY <1>1, <1>2, <1>3, <1>4, NoLine DEF ScreenInv

\* The boot code inside putchar.
LEMMA BootWithin ==
  ASSUME ScreenInv,
         \/ StoreCell \/ LoadColumn \/ StoreRow \/ StoreColumn \/ TestColumn
         \/ TurnRow \/ LoadRow \/ StoreBelow
  PROVE  ScreenInv'
<1>1. /\ line' = <<>> /\ UNCHANGED <<shell, echo, text>>
      /\ at' \in Places /\ text # <<>>
  BY DEF StoreCell, LoadColumn, StoreRow, StoreColumn, TestColumn, TurnRow, LoadRow, StoreBelow,
         Boot, editor, ScreenInv, Places
<1>2. /\ x' \in 0 .. WORD - 1 /\ y' \in 0 .. WORD - 1 /\ cell' \in [Cells -> Glyphs]
      /\ wild' \in BOOLEAN
  <2>1. CASE StoreCell
    <3>1. Head(text) \in Glyphs
      <4>1. text \in Seq(STRING) /\ text # <<>>
        BY <1>1, Zenon DEF ScreenInv
      <4>2. Head(text) \in STRING
        BY <4>1, HeadTailProperties
      <4> QED BY <4>2, Characters
    <3> QED BY <2>1, <3>1, ScreenTypes, DrawTypes, ShowTypes DEF StoreCell
  <2>2. CASE TestColumn
    <3>1. 0 \in 0 .. WORD - 1
      BY Wraps
    <3> QED BY <2>2, <3>1 DEF TestColumn, ScreenInv
  <2>3. CASE LoadColumn
    BY <2>3 DEF LoadColumn, screen, ScreenInv
  <2>4. CASE StoreRow
    <3>1. U16(seen.y + 1) \in 0 .. WORD - 1
      BY Wraps DEF ScreenInv
    <3> QED BY <2>4, <3>1 DEF StoreRow, ScreenInv
  <2>5. CASE StoreColumn
    <3>1. U16(seen.x + 1) \in 0 .. WORD - 1 /\ 0 \in 0 .. WORD - 1
      BY Wraps DEF ScreenInv
    <3> QED BY <2>5, <3>1 DEF StoreColumn, ScreenInv
  <2>6. CASE TurnRow \/ LoadRow
    BY <2>6 DEF TurnRow, LoadRow, screen, ScreenInv
  <2>7. CASE StoreBelow
    <3>1. U16(seen.y + 1) \in 0 .. WORD - 1
      BY Wraps DEF ScreenInv
    <3> QED BY <2>7, <3>1 DEF StoreBelow, ScreenInv
  <2> QED BY <2>1, <2>2, <2>3, <2>4, <2>5, <2>6, <2>7
<1>3. seen' \in [x : 0 .. WORD - 1, y : 0 .. WORD - 1]
  <2>1. seen' \in {seen, Origin, [Origin EXCEPT !.x = x], [Origin EXCEPT !.y = y]}
    BY DEF StoreCell, LoadColumn, StoreRow, StoreColumn, TestColumn, TurnRow, LoadRow, StoreBelow
  <2>2. 0 \in 0 .. WORD - 1 /\ x \in 0 .. WORD - 1 /\ y \in 0 .. WORD - 1
    BY Wraps DEF ScreenInv
  <2> QED BY <2>1, <2>2 DEF ScreenInv, Origin
<1> QED BY <1>1, <1>2, <1>3, NoLine DEF ScreenInv

\* The boot code ends putchar.
LEMMA BootEndsChar ==
  ASSUME ScreenInv, TestRow \/ TurnScrolls
  PROVE  ScreenInv'
<1>1. /\ line' = <<>> /\ UNCHANGED <<shell, echo, seen>> /\ at' = "load"
      /\ text' = Tail(text) /\ text # <<>>
  BY DEF TestRow, TurnScrolls, Boot, editor, ScreenInv
<1>2. Bottom(Screen) \in Screens /\ Scroll(Screen) \in Screens
  BY ScreenTypes, PutCharTypes, ScrollTypes, Characters
<1>3. text' \in Seq(STRING) /\ at' \in Places
  BY <1>1 DEF ScreenInv, Places
<1>4. /\ x' \in 0 .. WORD - 1 /\ y' \in 0 .. WORD - 1 /\ cell' \in [Cells -> Glyphs]
      /\ wild' \in BOOLEAN
  BY <1>2, ShowTypes DEF TestRow, TurnScrolls
<1> QED BY <1>1, <1>3, <1>4, NoLine DEF ScreenInv

\* Keys.
LEMMA KeyTypes ==
  ASSUME LineInv, ScreenInv, Key
  PROVE  ScreenInv'
<1>1. UNCHANGED boot
  BY DEF Key, KeyChar, KeyNothing, KeyErase, KeyEnter, KeyEnterEarly, KeyPastBuffer
<1>2. shell' = shell
  BY DEF Key, KeyChar, KeyNothing, KeyErase, KeyEnter, KeyEnterEarly, KeyPastBuffer, editor
<1>3. echo' \in BOOLEAN
  BY DEF Key, KeyChar, KeyNothing, KeyErase, KeyEnter, KeyEnterEarly, KeyPastBuffer, history,
         ScreenInv, OnGrid
<1>4. Len(line') <= BUFFER
  <2>1. CASE \E output, known : KeyEnter(output, known)
    <3>1. line' = CString([buffer EXCEPT ![length] = NUL]) /\ ~PastBuffer
      BY <2>1 DEF KeyEnter
    <3>2. line' = typed
      BY <3>1, StringIsLine
    <3> QED BY <3>2 DEF LineInv
  <2>2. CASE line' = <<>>
    BY <2>2, NoLine
  <2>3. CASE KeyPastBuffer
    BY <2>3 DEF KeyPastBuffer, history, ScreenInv
  <2> QED BY <2>1, <2>2, <2>3 DEF Key, KeyChar, KeyNothing, KeyErase, KeyEnterEarly
<1>5. KeyPastBuffer \/ \E s \in Screens : Show(s)
  <2> DEFINE nl == PutChar(Screen, NL)
  <2>1. nl \in Screens
    BY ScreenTypes, PutCharTypes, Characters
  <2>2. CASE \E c \in Chars : KeyChar(c)
    <3>1. PICK c \in Chars : Show(PutChar(Screen, c))
      BY <2>2 DEF KeyChar
    <3> QED BY <3>1, ScreenTypes, PutCharTypes, Characters
  <2>3. CASE KeyNothing
    BY <2>3, ScreenTypes, PutCharTypes, Characters DEF KeyNothing
  <2>4. CASE KeyErase
    BY <2>4, ScreenTypes, EraseTypes DEF KeyErase
  <2>5. CASE KeyEnterEarly
    BY <2>1, <2>5 DEF KeyEnterEarly
  <2>6. CASE \E output \in Outputs \cup {Clear}, known \in BOOLEAN : KeyEnter(output, known)
    <3>1. PICK output \in Outputs \cup {Clear} : Show(Executed(nl, output))
      BY <2>6 DEF KeyEnter
    <3> HIDE DEF nl
    <3>2. Executed(nl, output) \in Screens
      BY <2>1, ExecutedTypes
    <3> QED BY <3>1, <3>2
  <2> QED BY <2>2, <2>3, <2>4, <2>5, <2>6 DEF Key
<1>6. /\ x' \in 0 .. WORD - 1 /\ y' \in 0 .. WORD - 1 /\ cell' \in [Cells -> Glyphs]
      /\ wild' \in BOOLEAN
  <2>1. CASE KeyPastBuffer
    BY <2>1 DEF KeyPastBuffer, screen, ScreenInv
  <2> QED BY <1>5, <2>1, ShowTypes
<1> QED BY <1>1, <1>2, <1>3, <1>4, <1>6 DEF boot, ScreenInv

\* Every step keeps the types of the screen.
LEMMA NextScreen == LineInv /\ ScreenInv /\ [Next]_vars => ScreenInv'
<1> SUFFICES ASSUME LineInv, ScreenInv, [Next]_vars PROVE ScreenInv'
  OBVIOUS
<1>1. CASE BootStep
  BY <1>1, BootBetween, BootWithin, BootEndsChar DEF BootStep
<1>2. CASE Key
  BY <1>2, KeyTypes
<1>3. CASE UNCHANGED vars
  BY <1>3 DEF vars, screen, editor, boot, history, ScreenInv
<1> QED BY <1>1, <1>2, <1>3 DEF Next, Undefined

\* The cursor stays a pair of 16-bit numbers, the cells those of the grid and
\* the buffer in its bounds, for every screen, buffer, command output and
\* interleaving of keys with the boot code.
THEOREM ConsoleTypes == Spec => []TypeOK
<1>1. LineInv /\ ScreenInv => TypeOK
  BY DEF LineInv, ScreenInv, TypeOK, Places
<1>2. LineInv /\ ScreenInv /\ [Next]_vars => ScreenInv'
  BY NextScreen
<1> QED BY <1>1, <1>2, InitScreen, BufferHoldsLine, PTL DEF Spec

-----------------------------------------------------------------------------
(* Where the cursor goes. *)

\* The screens with the cursor in the grid.
InScreens == {s \in Screens : s.x < WIDTH /\ s.y < HEIGHT}

\* A character keeps the cursor in the grid, and scrolls where it has to.
LEMMA PutCharInside ==
  ASSUME NEW s \in InScreens, NEW c \in Glyphs
  PROVE  PutChar(s, c) \in InScreens
<1> DEFINE p == Place(s, c)
           w == WrapLine(p)
<1>1. s \in Screens /\ s.x \in Nat /\ s.y \in Nat /\ s.x < WIDTH /\ s.y < HEIGHT
  BY DEF InScreens, Screens
<1>2. p \in Screens /\ p.x <= WIDTH /\ p.y <= HEIGHT /\ (p.x = WIDTH => p.y < HEIGHT)
  <2>1. p \in Screens
    BY <1>1, PutCharTypes
  <2>2. CASE c = NL
    <3>1. p = [s EXCEPT !.x = 0, !.y = U16(s.y + 1)]
      BY <2>2 DEF Place
    <3>2. p.x = 0 /\ p.y = U16(s.y + 1)
      BY <1>1, <3>1 DEF Screens
    <3>3. s.y + 1 \in 0 .. WORD - 1
      BY <1>1, Grid, Wraps
    <3>4. p.y = s.y + 1
      BY <3>2, <3>3, Wraps
    <3> QED BY <2>1, <3>2, <3>4, <1>1, Grid
  <2>3. CASE c # NL
    <3> DEFINE d == Draw(s, s.x, s.y, c)
    <3>1. d \in Screens /\ d.x = s.x /\ d.y = s.y
      BY <1>1, DrawTypes
    <3>2. p = [d EXCEPT !.x = U16(d.x + 1)]
      BY <2>3 DEF Place
    <3> HIDE DEF d
    <3>3. p.x = U16(s.x + 1) /\ p.y = s.y
      BY <3>1, <3>2 DEF Screens
    <3>4. s.x + 1 \in 0 .. WORD - 1
      BY <1>1, Grid, Wraps
    <3>5. p.x = s.x + 1
      BY <3>3, <3>4, Wraps
    <3> QED BY <2>1, <3>3, <3>5, <1>1, Grid
  <2> QED BY <2>2, <2>3
<1> HIDE DEF p
<1>3. w \in Screens /\ w.x < WIDTH /\ w.y <= HEIGHT
  <2>1. CASE p.x = WIDTH
    <3>1. w = [p EXCEPT !.x = 0, !.y = U16(p.y + 1)]
      BY <1>2, <2>1 DEF WrapLine
    <3>2. w \in Screens /\ w.x = 0 /\ w.y = U16(p.y + 1)
      <4>1. w \in Screens
        BY <1>2, PutCharTypes, Characters
      <4> QED BY <1>2, <3>1, <4>1 DEF Screens
    <3>3. p.y + 1 \in 0 .. WORD - 1 /\ p.y + 1 <= HEIGHT
      BY <1>2, <2>1, Grid, Wraps DEF Screens
    <3>4. w.y = p.y + 1
      BY <3>2, <3>3, Wraps
    <3> QED BY <3>2, <3>3, <3>4, Grid
  <2>2. CASE p.x # WIDTH
    <3>1. w = p
      BY <2>2 DEF WrapLine
    <3>2. p.x \in Nat /\ p.x < WIDTH
      BY <1>2, <2>2, Grid DEF Screens
    <3> QED BY <1>2, <3>1, <3>2
  <2> QED BY <2>1, <2>2
<1> HIDE DEF w
<1>4. Bottom(w) \in InScreens
  <2>1. CASE w.y >= HEIGHT
    <3>1. Bottom(w) = Scroll(w)
      BY <2>1 DEF Bottom
    <3>2. 0 < WIDTH /\ HEIGHT - 1 < HEIGHT
      BY Grid
    <3> QED BY <1>3, <3>1, <3>2, ScrollTypes DEF InScreens
  <2>2. CASE ~(w.y >= HEIGHT)
    <3>1. Bottom(w) = w /\ w.y < HEIGHT
      BY <1>3, <2>2, Grid DEF Bottom, Screens
    <3> QED BY <1>3, <3>1 DEF InScreens
  <2> QED BY <2>1, <2>2
<1> QED BY <1>4 DEF PutChar, p, w

\* So does a string, and a command with the prompt behind it.
LEMMA ExecutedInside ==
  ASSUME NEW s \in InScreens, NEW output \in Outputs \cup {Clear}
  PROVE  Executed(s, output) \in InScreens
<1>1. ASSUME NEW t \in InScreens, NEW chars \in Seq(STRING)
      PROVE  PutString(t, chars) \in InScreens
  BY <1>1, PutCharInside, PrintingKeeps, Characters
<1>2. CASE output = Clear
  <2>1. CleanScreen(s) \in InScreens
    BY CleanTypes, Grid DEF InScreens
  <2>2. PutString(CleanScreen(s), Prompt) \in InScreens
    BY <1>1, <2>1, Grid
  <2> QED BY <1>2, <2>2 DEF Executed
<1>3. CASE output # Clear
  <2>1. PutString(s, output) \in InScreens
    BY <1>1, <1>3, Grid
  <2>2. PutString(PutString(s, output), Prompt) \in InScreens
    BY <1>1, <2>1, Grid
  <2> QED BY <1>3, <2>2 DEF Executed
<1> QED BY <1>2, <1>3

\* For every screen and everything that commands print: after boot, only
\* backspace takes the cursor out of the grid.
THEOREM OnlyEraseLeavesGridAlways == Spec => OnlyEraseLeavesGrid
<1>1. ScreenInv /\ [Next]_vars => [at = "ready" /\ InGrid => InGrid' \/ KeyErase]_vars
  <2> SUFFICES ASSUME ScreenInv, Next, at = "ready", InGrid PROVE InGrid' \/ KeyErase
    OBVIOUS
  <2>1. ~BootStep
    BY DEF BootStep, BootPrints, LoadCursor, StoreCell, LoadColumn, StoreRow,
           StoreColumn, TestColumn, TurnScrolls, TurnRow, LoadRow, StoreBelow,
         TestRow, ShellInit, BootDone, Boot
  <2>2. ASSUME NEW s \in InScreens, Show(s) PROVE InGrid'
    BY <2>2 DEF Show, InScreens, InGrid
  <2>3. Screen \in InScreens
    BY ScreenTypes DEF InGrid, InScreens
  <2>4. CASE \E c \in Chars : KeyChar(c)
    <3>1. PICK c \in Chars : Show(PutChar(Screen, c))
      BY <2>4 DEF KeyChar
    <3>2. PutChar(Screen, c) \in InScreens
      BY <2>3, PutCharInside, Characters
    <3> QED BY <3>1, <3>2, <2>2
  <2>5. CASE KeyNothing \/ KeyEnterEarly
    BY <2>2, <2>3, <2>5, PutCharInside, Characters DEF KeyNothing, KeyEnterEarly
  <2>6. CASE \E output \in Outputs \cup {Clear}, known \in BOOLEAN : KeyEnter(output, known)
    <3>1. PICK output \in Outputs \cup {Clear} : Show(Executed(PutChar(Screen, NL), output))
      BY <2>6 DEF KeyEnter
    <3>2. PutChar(Screen, NL) \in InScreens
      BY <2>3, PutCharInside, Characters
    <3>3. Executed(PutChar(Screen, NL), output) \in InScreens
      BY <3>2, ExecutedInside
    <3> QED BY <3>1, <3>3, <2>2
  <2>7. CASE KeyPastBuffer \/ Undefined
    BY <2>7 DEF KeyPastBuffer, Undefined, vars, screen, InGrid
  <2> QED BY <2>1, <2>4, <2>5, <2>6, <2>7 DEF Next, Key
<1>2. LineInv /\ ScreenInv /\ [Next]_vars => ScreenInv'
  BY NextScreen
<1> QED BY <1>1, <1>2, InitScreen, BufferHoldsLine, PTL DEF Spec, OnlyEraseLeavesGrid

-----------------------------------------------------------------------------
(* The line on the screen.  Taken as one row of cells, the screen holds the *)
(* line before the cursor, wherever it is broken and however far it has     *)
(* been scrolled out at the top (Matched).  Backspace at the left edge of   *)
(* the screen loses the cursor, and so few characters are left in the line  *)
(* then that it does not come back before Enter (Lost).                     *)

\* Where putchar writes.
Index(column, row) == row * WIDTH + column

Pos == Index(x, y)

Matched ==
  \A i \in 1 .. Len(typed) :
    Pos - Len(typed) + i - 1 \in Cells => cell[Pos - Len(typed) + i - 1] = typed[i]

Lost == Pos - Len(typed) >= HEIGHT * WIDTH \/ x - Len(typed) > WIDTH

EchoInv == ~wild /\ at = "ready" /\ echo /\ typed # <<>> => Matched \/ Lost

\* Products of numbers of cells.
LEMMA Rows ==
  ASSUME NEW a \in Nat, NEW b \in Nat
  PROVE  /\ a * b \in Nat /\ (a + 1) * b = a * b + b /\ a * b = b * a
         /\ a > 0 => (a - 1) * b = a * b - b
         /\ \A c \in Nat : a < c => a * b + b <= c * b
<1>1. a * b \in Nat /\ (a + 1) * b = a * b + b /\ a * b = b * a
  OBVIOUS
<1>2. a > 0 => (a - 1) * b = a * b - b
  OBVIOUS
<1>3. ASSUME NEW c \in Nat, a < c PROVE a * b + b <= c * b
  <2>1. PICK d \in Nat : c = a + 1 + d
    <3>1. c - a - 1 \in Nat /\ c = a + 1 + (c - a - 1)
      BY <1>3
    <3> QED BY <3>1
  <2>2. c * b = a * b + b + d * b /\ d * b \in Nat
    BY <2>1
  <2> QED BY <2>2, <1>1
<1> QED BY <1>1, <1>2, <1>3

\* A row of the grid is inside it.
LEMMA RowInside ==
  ASSUME NEW r \in Nat, r < HEIGHT
  PROVE  /\ r * WIDTH \in Nat /\ (r + 1) * WIDTH = r * WIDTH + WIDTH
         /\ r * WIDTH + WIDTH <= HEIGHT * WIDTH
         /\ HEIGHT * WIDTH \in Nat /\ Cells = 0 .. HEIGHT * WIDTH - 1
<1>1. WIDTH \in Nat /\ HEIGHT \in Nat
  BY Grid
<1>2. HEIGHT * WIDTH \in Nat /\ HEIGHT * WIDTH = WIDTH * HEIGHT
  BY <1>1, Rows
<1>3. r * WIDTH \in Nat /\ (r + 1) * WIDTH = r * WIDTH + WIDTH /\ r * WIDTH + WIDTH <= HEIGHT * WIDTH
  BY <1>1, Rows
<1>4. Cells = 0 .. HEIGHT * WIDTH - 1
  BY <1>2 DEF Cells
<1> QED BY <1>2, <1>3, <1>4

\* What a character leaves in a cell.
Drawn(cells, i, c) == IF i \in Cells THEN [cells EXCEPT ![i] = c] ELSE cells

\* A character goes to the cell of the cursor, and the cursor to the next, or
\* to the same after all have moved up a row.
LEMMA PutCharEchoes ==
  ASSUME NEW s \in Screens, s.x <= WIDTH, s.y < HEIGHT, ~s.fault,
         NEW c \in Glyphs, c # NL,
         NEW p, p = Index(s.x, s.y), NEW r, r = PutChar(s, c)
  PROVE  \/ /\ Index(r.x, r.y) = p + 1
            /\ r.cell = Drawn(s.cell, p, c)
         \/ /\ Index(r.x, r.y) = p + 1 - WIDTH /\ p \in Cells
            /\ \A i \in Cells : i + WIDTH \in Cells => r.cell[i] = Drawn(s.cell, p, c)[i + WIDTH]
<1> DEFINE d == Draw(s, s.x, s.y, c)
           q == Place(s, c)
<1>1. /\ s.x \in Nat /\ s.y \in Nat /\ s.x + 1 \in 0 .. WORD - 1 /\ s.y + 1 \in 0 .. WORD - 1
      /\ s.x < WORD /\ s.cell \in [Cells -> Glyphs]
  <2>1. WIDTH + 1 < WORD
    BY Margins, Grid, Wraps
  <2>2. s.x \in 0 .. WORD - 1 /\ s.y \in 0 .. WORD - 1 /\ s.cell \in [Cells -> Glyphs]
    BY DEF Screens
  <2> QED BY <2>1, <2>2, Grid, Wraps
<1>2. d \in Screens /\ d.x = s.x /\ d.y = s.y
  BY DrawTypes
<1>3. d.cell = Drawn(s.cell, p, c)
  BY DEF Draw, Drawn, Screens, Index
<1>4. q = [d EXCEPT !.x = U16(d.x + 1)]
  BY DEF Place
<1> HIDE DEF d
<1>5. q \in Screens
  BY PutCharTypes DEF q
<1>6. q.x = s.x + 1 /\ q.y = s.y /\ q.cell = Drawn(s.cell, p, c)
  <2>1. U16(d.x + 1) = s.x + 1
    BY <1>1, <1>2, Wraps
  <2> QED BY <1>2, <1>3, <1>4, <2>1 DEF Screens
<1>7. r = Bottom(WrapLine(q))
  BY DEF PutChar
<1> HIDE DEF q
<1> DEFINE w == WrapLine(q)
<1>8. CASE s.x + 1 # WIDTH
  <2>1. w = q
    BY <1>6, <1>8 DEF WrapLine
  <2>2. Bottom(q) = q
    BY <1>1, <1>6, Grid DEF Bottom
  <2>3. Index(r.x, r.y) = p + 1
    <3>1. r.y = s.y /\ r.x = s.x + 1
      BY <1>6, <1>7, <2>1, <2>2
    <3>2. s.y * WIDTH \in Nat
      BY <1>1, RowInside
    <3> QED BY <3>1, <3>2, <1>1 DEF Index
  <2> QED BY <1>6, <1>7, <2>1, <2>2, <2>3
<1>9. CASE s.x + 1 = WIDTH
  <2>1. w = [q EXCEPT !.x = 0, !.y = U16(q.y + 1)]
    BY <1>1, <1>6, <1>9, Grid DEF WrapLine
  <2>2. w \in Screens /\ w.x = 0 /\ w.y = s.y + 1 /\ w.cell = Drawn(s.cell, p, c)
    <3>1. w \in Screens
      BY <1>5, PutCharTypes, Characters
    <3>2. U16(q.y + 1) = s.y + 1
      BY <1>1, <1>6, Wraps
    <3> QED BY <1>5, <1>6, <2>1, <3>1, <3>2 DEF Screens
  <2> HIDE DEF w
  <2>3. p \in Cells /\ Index(0, s.y + 1) = p + 1 /\ Index(0, s.y) = p + 1 - WIDTH
    <3>1. /\ s.y * WIDTH \in Nat /\ (s.y + 1) * WIDTH = s.y * WIDTH + WIDTH
          /\ s.y * WIDTH + WIDTH <= HEIGHT * WIDTH
          /\ HEIGHT * WIDTH \in Nat /\ Cells = 0 .. HEIGHT * WIDTH - 1
      BY <1>1, RowInside
    <3>2. PICK row : row = s.y * WIDTH
      OBVIOUS
    <3>3. PICK all : all = HEIGHT * WIDTH
      OBVIOUS
    <3>4. row \in Nat /\ row + WIDTH <= all /\ p = row + s.x /\ all \in Nat
      BY <3>1, <3>2, <3>3 DEF Index
    <3> PICK column : column = s.x
      OBVIOUS
    <3>5. column \in Nat /\ column + 1 = WIDTH /\ p = row + column
      BY <3>4, <1>1, <1>9
    <3>6. p \in 0 .. all - 1 /\ p + 1 = row + WIDTH
      BY <3>4, <3>5
    <3>7. Index(0, s.y + 1) = p + 1
      BY <3>1, <3>2, <3>4, <3>6, Grid DEF Index
    <3>8. Index(0, s.y) = p + 1 - WIDTH
      BY <3>2, <3>4, <3>6, Grid DEF Index
    <3> QED BY <3>1, <3>3, <3>6, <3>7, <3>8
  <2>4. CASE s.y + 1 < HEIGHT
    <3>1. r = w
      BY <1>7, <2>2, <2>4, <1>1, Grid DEF Bottom, w
    <3>2. Index(r.x, r.y) = p + 1
      BY <3>1, <2>2, <2>3
    <3> QED BY <3>1, <3>2, <2>2
  <2>5. CASE ~(s.y + 1 < HEIGHT)
    <3>1. s.y + 1 = HEIGHT /\ w.y >= HEIGHT
      BY <2>2, <2>5, <1>1, Grid
    <3>2. r = Scroll(w)
      BY <1>7, <3>1 DEF Bottom, w
    <3>3. r.x = 0 /\ r.y = s.y
      BY <2>2, <3>1, <3>2, <1>1, ScrollTypes
    <3>4. Index(r.x, r.y) = p + 1 - WIDTH
      BY <3>3, <2>3
    <3>5. r.cell = [i \in Cells |-> IF i + WIDTH \in Cells THEN w.cell[i + WIDTH] ELSE Blank]
      BY <2>2, <3>2 DEF Scroll, Screens
    <3> QED BY <3>4, <3>5, <2>2, <2>3
  <2> QED BY <2>4, <2>5
<1> QED BY <1>8, <1>9

\* A typed character is seen where the line goes on.
LEMMA CharEchoes ==
  ASSUME LineInv, ScreenInv, EchoInv, NEW c \in Chars, KeyChar(c)
  PROVE  EchoInv'
<1> SUFFICES ASSUME echo', at' = "ready" PROVE Matched'
  BY DEF EchoInv
<1> DEFINE n == Len(typed)
<1>1. echo /\ at = "ready" /\ OnGrid /\ ~wild
  BY DEF KeyChar
<1>2. n \in Nat /\ typed \in Seq(Chars) /\ typed' = Append(typed, c)
  BY DEF LineInv, KeyChar
<1>3. x \in Nat /\ y \in Nat /\ x <= WIDTH /\ y < HEIGHT /\ WIDTH \in Nat \ {0}
  BY <1>1, Grid DEF ScreenInv, OnGrid
<1>4. /\ y * WIDTH \in Nat /\ y * WIDTH + WIDTH <= HEIGHT * WIDTH
      /\ HEIGHT * WIDTH \in Nat /\ Cells = 0 .. HEIGHT * WIDTH - 1
  BY <1>3, RowInside
<1>5. Matched
  <2>1. CASE typed = <<>>
    BY <2>1 DEF Matched
  <2>2. CASE typed # <<>>
    <3>1. n > 0
      BY <1>2, <2>2
    <3>2. ~Lost
      BY <1>2, <1>3, <1>4, <3>1 DEF Lost, Pos, Index
    <3> QED BY <1>1, <2>2, <3>2 DEF EchoInv
  <2> QED BY <2>1, <2>2
<1>6. PICK r : r = PutChar(Screen, c)
  OBVIOUS
<1>7. x' = r.x /\ y' = r.y /\ cell' = r.cell
  BY <1>6 DEF KeyChar, Show
<1>8. PICK p : p = Index(x, y)
  OBVIOUS
<1>9. PICK drawn : drawn = Drawn(cell, p, c)
  OBVIOUS
<1>10. \/ Index(r.x, r.y) = p + 1 /\ r.cell = drawn
       \/ /\ Index(r.x, r.y) = p + 1 - WIDTH /\ p \in Cells
          /\ \A i \in Cells : i + WIDTH \in Cells => r.cell[i] = drawn[i + WIDTH]
  <2>1. c \in Glyphs /\ c # NL
    BY Characters
  <2>2. /\ Screen \in Screens /\ Screen.x <= WIDTH /\ Screen.y < HEIGHT
        /\ ~Screen.fault /\ p = Index(Screen.x, Screen.y) /\ Screen.cell = cell
    BY <1>3, <1>8, ScreenTypes
  <2>3. PICK s : s = Screen
    OBVIOUS
  <2>4. /\ s \in Screens /\ s.x <= WIDTH /\ s.y < HEIGHT /\ ~s.fault
        /\ p = Index(s.x, s.y) /\ r = PutChar(s, c) /\ drawn = Drawn(s.cell, p, c)
    BY <1>6, <1>9, <2>2, <2>3
  <2>5. \/ /\ Index(r.x, r.y) = p + 1
           /\ r.cell = Drawn(s.cell, p, c)
        \/ /\ Index(r.x, r.y) = p + 1 - WIDTH /\ p \in Cells
           /\ \A i \in Cells : i + WIDTH \in Cells => r.cell[i] = Drawn(s.cell, p, c)[i + WIDTH]
    BY <2>1, <2>4, PutCharEchoes
  <2> QED BY <2>4, <2>5
<1>11. p \in Nat /\ p = Pos
  BY <1>3, <1>4, <1>8 DEF Pos, Index
<1>12. \A i \in 1 .. n + 1 : p - n + i - 1 \in Cells => drawn[p - n + i - 1] = typed'[i]
  <2> SUFFICES ASSUME NEW i \in 1 .. n + 1, p - n + i - 1 \in Cells
               PROVE  drawn[p - n + i - 1] = typed'[i]
    OBVIOUS
  <2>1. cell \in [Cells -> Glyphs]
    BY DEF ScreenInv
  <2>2. CASE i = n + 1
    <3>1. p - n + i - 1 = p /\ typed'[i] = c
      BY <1>2, <1>11, <2>2
    <3> QED BY <2>1, <3>1, <1>9 DEF Drawn
  <2>3. CASE i # n + 1
    <3>1. i \in 1 .. n /\ p - n + i - 1 # p
      BY <1>2, <1>11, <2>3
    <3>2. typed'[i] = typed[i]
      BY <1>2, <3>1
    <3>3. cell[p - n + i - 1] = typed[i]
      BY <1>5, <1>11, <3>1 DEF Matched
    <3> QED BY <2>1, <3>1, <3>2, <3>3, <1>9 DEF Drawn
  <2> QED BY <2>2, <2>3
<1>13. Len(typed') = n + 1
  BY <1>2
<1> HIDE DEF n
<1>14. CASE Index(r.x, r.y) = p + 1 /\ r.cell = drawn
  <2>1. Pos' = p + 1
    BY <1>7, <1>14 DEF Pos
  <2>2. \A i \in 1 .. n + 1 : Pos' - (n + 1) + i - 1 = p - n + i - 1
    BY <2>1, <1>2, <1>11
  <2> QED BY <1>7, <1>12, <1>13, <1>14, <2>2 DEF Matched
<1>15. CASE /\ Index(r.x, r.y) = p + 1 - WIDTH /\ p \in Cells
            /\ \A i \in Cells : i + WIDTH \in Cells => r.cell[i] = drawn[i + WIDTH]
  <2>1. Pos' = p + 1 - WIDTH
    BY <1>7, <1>15 DEF Pos
  <2> SUFFICES ASSUME NEW i \in 1 .. n + 1, Pos' - (n + 1) + i - 1 \in Cells
               PROVE  cell'[Pos' - (n + 1) + i - 1] = typed'[i]
    BY <1>13 DEF Matched
  <2>2. PICK j \in Cells : j = Pos' - (n + 1) + i - 1
    OBVIOUS
  <2>3. j + WIDTH = p - n + i - 1 /\ j + WIDTH \in Cells
    BY <1>2, <1>3, <1>4, <1>11, <1>15, <2>1, <2>2
  <2> QED BY <1>7, <1>12, <1>15, <2>2, <2>3
<1> QED BY <1>10, <1>14, <1>15

\* Backspace blanks the cell before the cursor and goes there; from the first
\* cell of a row it goes behind the last one of the row above, and from the
\* left of the first cell around the 16 bits.
LEMMA EraseEchoes ==
  ASSUME NEW s \in Screens, NEW r, r = EraseLast(s)
  PROVE  /\ s.x = 0 /\ s.y = 0 => r = s
         /\ s.x = 0 /\ s.y # 0 => r.x = WORD - 1
         /\ s.x > 1 => /\ r.x = s.x - 1 /\ r.y = s.y
                       /\ r.cell = Drawn(s.cell, Index(s.x - 1, s.y), Blank)
         /\ s.x = 1 => /\ r.x = WIDTH
                       /\ r.cell = Drawn(s.cell, Index(0, s.y), Blank)
                       /\ s.y = 0 => r.y = WORD - 1
                       /\ s.y # 0 => r.y = s.y - 1
<1> DEFINE b == U16(s.x - 1)
           d == Draw(s, b, s.y, Blank)
           e == [d EXCEPT !.x = b]
<1>1. s.x \in 0 .. WORD - 1 /\ s.y \in 0 .. WORD - 1 /\ WORD \in Nat /\ WORD > 1
  BY Wraps DEF Screens
<1>2. U16(-1) = WORD - 1
  <2>1. ASSUME NEW w \in Nat, w > 1 PROVE (-1) % w = w - 1
    BY <2>1, SMT
  <2> QED BY <1>1, <2>1 DEF U16
<1>3. (s.x = 0 => b = WORD - 1) /\ (s.x > 0 => b = s.x - 1)
  <2>1. ASSUME s.x = 0 PROVE b = WORD - 1
    <3>1. s.x - 1 = -1
      BY <2>1
    <3> QED BY <1>2, <3>1
  <2>2. ASSUME s.x > 0 PROVE b = s.x - 1
    <3>1. s.x - 1 \in 0 .. WORD - 1
      BY <1>1, <2>2
    <3> QED BY <3>1, Wraps
  <2> QED BY <2>1, <2>2
<1>4. (s.y = 0 => U16(s.y - 1) = WORD - 1) /\ (s.y # 0 => U16(s.y - 1) = s.y - 1)
  <2>1. ASSUME s.y = 0 PROVE U16(s.y - 1) = WORD - 1
    <3>1. s.y - 1 = -1
      BY <2>1
    <3> QED BY <1>2, <3>1
  <2>2. ASSUME s.y # 0 PROVE U16(s.y - 1) = s.y - 1
    <3>1. s.y - 1 \in 0 .. WORD - 1
      BY <1>1, <2>2
    <3> QED BY <3>1, Wraps
  <2> QED BY <2>1, <2>2
<1>5. d \in Screens /\ d.y = s.y /\ d.cell = Drawn(s.cell, Index(b, s.y), Blank)
  <2>1. d.cell = Drawn(s.cell, Index(b, s.y), Blank)
    BY DEF Draw, Drawn, Screens, Index
  <2> QED BY <2>1, DrawTypes, Characters
<1>6. r = IF s.x = 0 /\ s.y = 0 THEN s
          ELSE IF b = 0 THEN [e EXCEPT !.x = WIDTH, !.y = U16(e.y - 1)] ELSE e
  BY DEF EraseLast
<1> HIDE DEF d
<1>7. /\ e.x = b /\ e.y = s.y /\ e.cell = Drawn(s.cell, Index(b, s.y), Blank)
      /\ e \in [x : {b}, y : 0 .. WORD - 1, cell : {e.cell}, fault : BOOLEAN]
  BY <1>5 DEF Screens
<1> HIDE DEF e, b
<1>8. CASE s.x = 0
  BY <1>1, <1>3, <1>6, <1>7, <1>8
<1>9. CASE s.x = 1
  <2>1. b = 0
    BY <1>3, <1>9
  <2>2. r = [e EXCEPT !.x = WIDTH, !.y = U16(e.y - 1)]
    BY <1>6, <1>9, <2>1
  <2>3. r.x = WIDTH /\ r.y = U16(s.y - 1) /\ r.cell = e.cell
    BY <1>7, <2>2
  <2> QED BY <1>4, <1>7, <1>9, <2>1, <2>3
<1>10. CASE s.x > 1
  <2>1. b = s.x - 1 /\ b # 0
    BY <1>1, <1>3, <1>10
  <2>2. r = e
    BY <1>1, <1>6, <1>10, <2>1
  <2> QED BY <1>1, <1>7, <1>10, <2>1, <2>2
<1> QED BY <1>1, <1>8, <1>9, <1>10

\* What is erased from the line is erased from the screen, or the cursor is lost.
LEMMA EraseKeepsEcho ==
  ASSUME LineInv, ScreenInv, EchoInv, KeyErase
  PROVE  EchoInv'
<1> SUFFICES ASSUME echo', at' = "ready", typed' # <<>> PROVE (Matched \/ Lost)'
  BY DEF EchoInv
<1> PICK n : n = Len(typed)
  OBVIOUS
<1>1. Matched \/ Lost
  <2>1. echo /\ at = "ready" /\ ~wild
    BY DEF KeyErase, boot
  <2>2. typed # <<>>
    BY DEF LineInv, KeyErase
  <2> QED BY <2>1, <2>2 DEF EchoInv
<1>2. /\ n \in 1 .. BUFFER - 1 /\ Len(typed') = n - 1
      /\ \A i \in 1 .. n - 1 : typed'[i] = typed[i]
  <2>1. n = length /\ length \in 1 .. BUFFER - 1
    BY Margins DEF LineInv, KeyErase, PastBuffer
  <2>2. typed' = SubSeq(typed, 1, n - 1) /\ typed \in Seq(Chars)
    BY DEF LineInv, KeyErase
  <2> QED BY <2>1, <2>2
<1>3. x \in 0 .. WORD - 1 /\ y \in 0 .. WORD - 1 /\ cell \in [Cells -> Glyphs]
  BY DEF ScreenInv
<1>4. PICK r : r = EraseLast(Screen)
  OBVIOUS
<1>5. x' = r.x /\ y' = r.y /\ cell' = r.cell
  BY <1>4 DEF KeyErase, Show
<1>6. /\ x = 0 /\ y = 0 => x' = 0 /\ y' = 0
      /\ x = 0 /\ y # 0 => x' = WORD - 1
      /\ x > 1 => /\ x' = x - 1 /\ y' = y
                  /\ cell' = Drawn(cell, Index(x - 1, y), Blank)
      /\ x = 1 => /\ x' = WIDTH
                  /\ cell' = Drawn(cell, Index(0, y), Blank)
                  /\ y = 0 => y' = WORD - 1
                  /\ y # 0 => y' = y - 1
  <2>1. PICK s : s = Screen
    OBVIOUS
  <2>2. s \in Screens /\ s.x = x /\ s.y = y /\ s.cell = cell /\ r = EraseLast(s)
    BY <1>4, <2>1, ScreenTypes
  <2>3. /\ s.x = 0 /\ s.y = 0 => r = s
        /\ s.x = 0 /\ s.y # 0 => r.x = WORD - 1
        /\ s.x > 1 => /\ r.x = s.x - 1 /\ r.y = s.y
                      /\ r.cell = Drawn(s.cell, Index(s.x - 1, s.y), Blank)
        /\ s.x = 1 => /\ r.x = WIDTH
                      /\ r.cell = Drawn(s.cell, Index(0, s.y), Blank)
                      /\ s.y = 0 => r.y = WORD - 1
                      /\ s.y # 0 => r.y = s.y - 1
    BY <2>2, EraseEchoes
  <2> QED BY <1>5, <2>2, <2>3
<1>7. PICK p : p = Pos
  OBVIOUS
<1>8. WIDTH \in Nat \ {0} /\ HEIGHT \in Nat \ {0} /\ y * WIDTH \in Nat /\ p \in Nat
  <2>1. WIDTH \in Nat \ {0} /\ HEIGHT \in Nat \ {0} /\ y * WIDTH \in Nat
    BY <1>3, Grid, Rows
  <2> QED BY <1>3, <1>7, <2>1 DEF Pos, Index
<1>9. ASSUME Pos' = p - 1, cell' = Drawn(cell, p - 1, Blank), x' = x - 1 \/ x = 1
      PROVE  (Matched \/ Lost)'
  <2>1. CASE Matched
    <3> SUFFICES ASSUME NEW i \in 1 .. n - 1, Pos' - (n - 1) + i - 1 \in Cells
                 PROVE  cell'[Pos' - (n - 1) + i - 1] = typed'[i]
      BY <1>2 DEF Matched
    <3>1. PICK j \in Cells : j = Pos' - (n - 1) + i - 1
      OBVIOUS
    <3>2. j = p - n + i - 1 /\ j # p - 1 /\ i \in 1 .. n
      BY <3>1, <1>2, <1>8, <1>9
    <3>3. cell[j] = typed[i]
      BY <2>1, <3>2, <1>7 DEF Matched
    <3>4. cell'[j] = cell[j]
      BY <1>3, <1>9, <3>2 DEF Drawn
    <3> QED BY <1>2, <3>1, <3>3, <3>4
  <2>2. CASE Lost
    <3>1. PICK all : all = HEIGHT * WIDTH
      OBVIOUS
    <3>2. p - n >= all \/ x - n > WIDTH
      BY <1>7, <2>2, <3>1 DEF Lost
    <3>3. Pos' - (n - 1) >= all \/ x' - (n - 1) > WIDTH
      <4>1. CASE p - n >= all
        BY <4>1, <1>2, <1>8, <1>9
      <4>2. CASE x - n > WIDTH
        <5>1. x # 1
          BY <4>2, <1>2, <1>8
        <5> QED BY <4>2, <5>1, <1>2, <1>3, <1>8, <1>9
      <4> QED BY <3>2, <4>1, <4>2
    <3> QED BY <1>2, <3>1, <3>3 DEF Lost
  <2> QED BY <1>1, <2>1, <2>2
<1>10. CASE x = 0 /\ y = 0
  <2>1. Pos' = 0
    BY <1>6, <1>8, <1>10 DEF Pos, Index
  <2>2. Matched'
    <3> SUFFICES ASSUME NEW i \in 1 .. n - 1, Pos' - (n - 1) + i - 1 \in Cells
                 PROVE  FALSE
      BY <1>2 DEF Matched
    <3>1. PICK j \in Cells : j = Pos' - (n - 1) + i - 1
      OBVIOUS
    <3>2. j = 0 - (n - 1) + i - 1 /\ i <= n - 1 /\ i \in Nat
      BY <3>1, <2>1, <1>2
    <3>3. j >= 0
      BY DEF Cells
    <3> QED BY <3>2, <3>3, <1>2
  <2> QED BY <2>2
<1>11. CASE x = 0 /\ y # 0
  <2>1. x' = WORD - 1 /\ Len(typed') = n - 1
    BY <1>2, <1>6, <1>11
  <2>2. WORD - 1 - (n - 1) > WIDTH
    BY <1>2, <1>8, Margins, Wraps
  <2> QED BY <2>1, <2>2 DEF Lost
<1>12. CASE x > 1
  <2>1. /\ x' = x - 1 /\ y' = y /\ cell' = Drawn(cell, Index(x - 1, y), Blank)
    BY <1>6, <1>12
  <2>2. Index(x - 1, y) = p - 1
    BY <1>3, <1>7, <1>8 DEF Pos, Index
  <2>3. Pos' = p - 1
    BY <2>1, <2>2 DEF Pos
  <2> QED BY <1>9, <2>1, <2>2, <2>3
<1>13. CASE x = 1 /\ y # 0
  <2>1. /\ x' = WIDTH /\ y' = y - 1 /\ cell' = Drawn(cell, Index(0, y), Blank)
    BY <1>6, <1>13
  <2>2. Index(0, y) = p - 1
    BY <1>7, <1>8, <1>13 DEF Pos, Index
  <2>3. (y - 1) * WIDTH = y * WIDTH - WIDTH
    BY <1>3, <1>8, <1>13, Rows
  <2>4. Pos' = y * WIDTH - WIDTH + WIDTH
    BY <2>1, <2>3 DEF Pos, Index
  <2>5. Pos' = p - 1
    BY <2>2, <2>4, <1>8 DEF Index
  <2> QED BY <1>9, <1>13, <2>1, <2>2, <2>5
<1>14. CASE x = 1 /\ y = 0
  <2>1. x' = WIDTH /\ y' = WORD - 1
    BY <1>6, <1>14
  <2>2. Pos' = WORD * WIDTH
    <3>1. (WORD - 1) * WIDTH = WORD * WIDTH - WIDTH /\ WORD * WIDTH \in Nat
      BY <1>8, Wraps, Rows
    <3> QED BY <2>1, <3>1, <1>8 DEF Pos, Index
  <2>3. HEIGHT * WIDTH + BUFFER * WIDTH <= WORD * WIDTH
    <3>1. WORD \in Nat /\ BUFFER \in Nat /\ HEIGHT + BUFFER \in Nat /\ HEIGHT + BUFFER < WORD
      BY <1>8, Margins, Wraps
    <3>2. (HEIGHT + BUFFER) * WIDTH + WIDTH <= WORD * WIDTH
      BY <3>1, <1>8, Rows
    <3>3. (HEIGHT + BUFFER) * WIDTH = HEIGHT * WIDTH + BUFFER * WIDTH
      BY <3>1, <1>8
    <3> QED BY <3>1, <3>2, <3>3, <1>8, Rows
  <2>4. BUFFER * WIDTH >= BUFFER
    <3>1. BUFFER \in Nat /\ WIDTH - 1 \in Nat /\ BUFFER * WIDTH = BUFFER * (WIDTH - 1) + BUFFER
      BY <1>8, Margins
    <3>2. BUFFER * (WIDTH - 1) \in Nat
      BY <3>1, Rows
    <3> QED BY <3>1, <3>2
  <2>5. PICK a, h, v : a = BUFFER * WIDTH /\ h = HEIGHT * WIDTH /\ v = WORD * WIDTH
    OBVIOUS
  <2>6. h + a <= v /\ a >= BUFFER /\ a \in Nat /\ h \in Nat /\ v \in Nat
    BY <2>3, <2>4, <2>5, <1>8, Margins, Wraps, Rows
  <2>7. v - (n - 1) >= h
    BY <2>6, <1>2, Margins
  <2> QED BY <1>2, <2>2, <2>5, <2>7 DEF Lost
<1> QED BY <1>3, <1>10, <1>11, <1>12, <1>13, <1>14

\* Before boot is over, a line that still counts as typed after it is empty.
EarlyInv == at # "ready" /\ echo => typed = <<>>

\* It is empty at the start, and a character ends it.
LEMMA InitEarly == Init => EarlyInv
  BY DEF Init, EarlyInv

LEMMA NextEarly == LineInv /\ EarlyInv /\ [Next]_vars => EarlyInv'
<1> SUFFICES ASSUME LineInv, EarlyInv, [Next]_vars PROVE EarlyInv'
  OBVIOUS
<1>1. CASE BootStep
  BY <1>1 DEF BootStep, BootPrints, LoadCursor, StoreCell, LoadColumn, StoreRow, BootDone,
              StoreColumn, TestColumn, TurnScrolls, TurnRow, LoadRow, StoreBelow,
         TestRow, ShellInit, Boot, EarlyInv
<1>2. CASE \E c \in Chars : KeyChar(c)
  BY <1>2 DEF KeyChar, boot, EarlyInv
<1>3. CASE KeyNothing
  BY <1>3 DEF KeyNothing, EarlyInv
<1>4. CASE KeyErase
  <2>1. length # 0 /\ at' = at /\ echo' = echo
    BY <1>4 DEF KeyErase, boot
  <2>2. typed # <<>>
    BY <2>1 DEF LineInv
  <2> QED BY <2>1, <2>2 DEF EarlyInv
<1>5. CASE KeyEnterEarly \/ \E output, known : KeyEnter(output, known)
  BY <1>5 DEF KeyEnterEarly, KeyEnter, EarlyInv
<1>6. CASE KeyPastBuffer
  BY <1>6 DEF KeyPastBuffer, boot, history, EarlyInv
<1>7. CASE UNCHANGED vars
  BY <1>7 DEF vars, boot, history, EarlyInv
<1> QED BY <1>1, <1>2, <1>3, <1>4, <1>5, <1>6, <1>7 DEF Next, Key, Undefined

\* Every step keeps the line on the screen.
LEMMA NextEcho ==
  LineInv /\ ScreenInv /\ EarlyInv /\ EchoInv /\ [Next]_vars => EchoInv'
<1> SUFFICES ASSUME LineInv, ScreenInv, EarlyInv, EchoInv, [Next]_vars PROVE EchoInv'
  OBVIOUS
<1>1. CASE BootDone
  <2>1. UNCHANGED <<typed, echo>> /\ at = "load"
    BY <1>1 DEF BootDone, Boot
  <2> QED BY <2>1 DEF EarlyInv, EchoInv
<1>2. CASE BootStep /\ ~BootDone
  BY <1>2 DEF BootStep, BootPrints, LoadCursor, StoreCell, LoadColumn, StoreRow,
              StoreColumn, TestColumn, TurnScrolls, TurnRow, LoadRow, StoreBelow,
         TestRow, ShellInit, Boot, EchoInv
<1>3. CASE \E c \in Chars : KeyChar(c)
  BY <1>3, CharEchoes
<1>4. CASE KeyNothing
  BY <1>4 DEF KeyNothing, EchoInv
<1>5. CASE KeyErase
  BY <1>5, EraseKeepsEcho
<1>6. CASE KeyEnterEarly \/ \E output, known : KeyEnter(output, known)
  BY <1>6 DEF KeyEnterEarly, KeyEnter, EchoInv
<1>7. CASE KeyPastBuffer
  BY <1>7 DEF KeyPastBuffer, EchoInv
<1>8. CASE UNCHANGED vars
  BY <1>8 DEF vars, screen, editor, boot, history, EchoInv, Matched, Lost, Pos
<1> QED BY <1>1, <1>2, <1>3, <1>4, <1>5, <1>6, <1>7, <1>8 DEF Next, Key, Undefined

\* No character has been typed at the start.
LEMMA InitEcho == Init => EchoInv
  BY DEF Init, EchoInv

\* A line behind the cursor of the grid is not lost, and stands there whole.
LEMMA MatchedShows == LineInv /\ ScreenInv /\ EchoInv => EchoMatches
<1> SUFFICES ASSUME LineInv, ScreenInv, EchoInv,
                    ~wild, at = "ready", echo, Len(typed) <= x, OnGrid,
                    NEW i \in 1 .. Len(typed)
             PROVE  cell[y * WIDTH + x - Len(typed) + i - 1] = typed[i]
  BY DEF EchoMatches
<1>1. PICK n \in Nat : n = Len(typed)
  BY DEF LineInv
<1>2. n >= 1 /\ typed # <<>> /\ i \in 1 .. n
  BY <1>1
<1>3. x \in Nat /\ y \in Nat
  BY Wraps DEF ScreenInv, Screens, Screen
<1>4. WIDTH \in Nat \ {0} /\ HEIGHT \in Nat \ {0} /\ HEIGHT * WIDTH \in Nat /\ y * WIDTH \in Nat
  BY <1>3, Grid, Rows
<1>5. PICK all, row : all = HEIGHT * WIDTH /\ row = y * WIDTH
  OBVIOUS
<1>6. row + WIDTH <= all
  BY <1>3, <1>4, <1>5, Rows DEF OnGrid
<1>7. all \in Nat /\ row \in Nat /\ x <= WIDTH /\ n <= x /\ Pos = row + x
  BY <1>1, <1>4, <1>5 DEF OnGrid, Pos, Index
<1>8. ~(Pos - n >= all) /\ ~(x - n > WIDTH)
  BY <1>2, <1>3, <1>4, <1>6, <1>7
<1>9. ~Lost
  BY <1>1, <1>5, <1>8 DEF Lost
<1>10. Matched
  BY <1>2, <1>9 DEF EchoInv
<1>11. Pos - n + i - 1 \in 0 .. all - 1
  BY <1>2, <1>3, <1>4, <1>6, <1>7
<1>12. Cells = 0 .. all - 1
  BY <1>4, <1>5 DEF Cells
<1>13. cell[Pos - n + i - 1] = typed[i]
  BY <1>1, <1>2, <1>10, <1>11, <1>12 DEF Matched
<1>14. ASSUME NEW k, k = y * WIDTH + x - Len(typed) + i - 1
       PROVE  k = Pos - n + i - 1
  <2>1. k = row + x - n + i - 1
    <3>1. k = row + x - Len(typed) + i - 1
      <4>1. row = y * WIDTH
        BY <1>5
      <4> QED BY ONLY <4>1, <1>14, Zenon
    <3> QED BY ONLY <3>1, <1>1, Zenon
  <2>2. Pos = row + x /\ row \in Nat /\ x \in Nat /\ n \in Nat /\ i \in Int
    BY <1>2, <1>3, <1>7
  <2> QED BY ONLY <2>1, <2>2
<1> QED BY <1>13, <1>14, Zenon

\* The user sees what will be executed: the cells before the cursor hold the
\* line that Enter would hand over, as far as it stands in the cursor's row.
THEOREM EchoAlways == Spec => []EchoMatches
<1>1. Init => EarlyInv /\ EchoInv
  BY InitEarly, InitEcho
<1>2. LineInv /\ ScreenInv /\ EarlyInv /\ EchoInv /\ [Next]_vars => (EarlyInv /\ EchoInv)'
  BY NextEarly, NextEcho
<1>3. LineInv /\ ScreenInv /\ EarlyInv /\ EchoInv => EchoMatches
  BY MatchedShows
<1>4. LineInv /\ [Next]_vars => LineInv'
  BY NextLineInv
<1> QED BY <1>1, <1>2, <1>3, InitLineInv, <1>4, InitScreen, NextScreen, PTL DEF Spec
=============================================================================
