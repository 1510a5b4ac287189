------------------------------ MODULE Console ------------------------------
(***************************************************************************)
(* The console: the text screen (src/drivers/vga/vga.cpp), the line editor *)
(* in the keyboard interrupt (src/drivers/keyboard/keyboard.cpp) and the   *)
(* prompt (shell/shell.cpp).                                               *)
(*                                                                         *)
(* Two activities share the cursor.  The boot code prints its welcome and  *)
(* the first prompt with interrupts on; its putchar is taken statement by  *)
(* statement, an increment being a load and a store.  A key runs in the    *)
(* interrupt, with interrupts off, and is one step, the command that Enter *)
(* starts and all it prints included.                                      *)
(*                                                                         *)
(* Keys are taken through the keymaps: a key gives a character, or none.   *)
(***************************************************************************)
EXTENDS Integers, SequencesExt

CONSTANTS
  WIDTH, HEIGHT,  \* VGA_WIDTH and VGA_HEIGHT
  MAPPED,         \* how many cells from VGA on are in mapped memory
  BUFFER,         \* the size of inputBuffer
  Chars,          \* the characters keys give
  Welcome,        \* what kernel_main prints before the shell
  Prompt,         \* what printShell prints
  Outputs,        \* what commands print
  MAX_COLUMN      \* bound of the model: keys without a character stop here

WORD == 65536   \* how many values a uint16_t has

ASSUME ConsoleAssumption ==
  /\ WIDTH \in Nat \ {0} /\ HEIGHT \in Nat \ {0} /\ BUFFER \in Nat \ {0}
  /\ MAX_COLUMN \in Nat /\ MAPPED \in Nat /\ WIDTH * HEIGHT <= MAPPED
  \* the cursor is two uint16_t: no line is long enough to erase all around
  /\ WIDTH + BUFFER < WORD /\ HEIGHT + BUFFER < WORD
  \* readKey tests for the character 0, and for Enter before it looks into a keymap
  /\ Chars \subseteq STRING /\ Chars \cap {"", "\n"} = {}
  /\ Welcome \in Seq(STRING) /\ Prompt \in Seq(STRING) /\ Outputs \subseteq Seq(STRING)

VARIABLES
  x, y,      \* the cursor, two uint16_t
  cell,      \* the cells of the grid, by their index from VGA on
  buffer,    \* inputBuffer
  length,    \* input_length
  shell,     \* enterCallback is shell_execute
  at, text,  \* where the boot code is, and what it has still to print
  seen,      \* the cursor as the boot code has loaded it, while it needs that
  typed,     \* history: the characters typed in this line and not erased
  echo,      \* history: this line was begun and typed after boot, into the grid
             \* and with keys that have a character
  line,      \* history: the line this step has handed to shell_execute
  wild       \* history: a page fault, or a write past inputBuffer

screen == <<x, y, cell>>
editor == <<buffer, length, shell>>
boot == <<at, text, seen>>
history == <<typed, echo, line>>
vars == <<screen, editor, boot, history, wild>>

NL == "\n"
NUL == ""          \* the character 0
Blank == " "

Origin == [x |-> 0, y |-> 0]

U16(n) == n % WORD

Cells == 0 .. WIDTH * HEIGHT - 1

-----------------------------------------------------------------------------
(* vga.cpp, on a screen [x, y, cell, fault]. *)

Screen == [x |-> x, y |-> y, cell |-> cell, fault |-> FALSE]

\* Character c goes to where VGA[row * WIDTH + column] is: into the grid, into
\* memory behind it that nobody reads, or nowhere.
Draw(s, column, row, c) ==
  LET i == row * WIDTH + column
  IN  [s EXCEPT !.cell = IF i \in Cells THEN [@ EXCEPT ![i] = c] ELSE @,
                !.fault = @ \/ i >= MAPPED]

Scroll(s) ==
  [s EXCEPT !.x = 0, !.y = HEIGHT - 1,
            !.cell = [i \in Cells |-> IF i + WIDTH \in Cells THEN @[i + WIDTH] ELSE Blank]]

\* putchar, up to its tests.
Place(s, c) ==
  IF c = NL THEN [s EXCEPT !.x = 0, !.y = U16(@ + 1)]
  ELSE [Draw(s, s.x, s.y, c) EXCEPT !.x = U16(@ + 1)]

WrapLine(s) ==
  CASE s.x = WIDTH /\ s.y >= HEIGHT -> Scroll(s)
    [] s.x = WIDTH /\ s.y < HEIGHT  -> [s EXCEPT !.x = 0, !.y = U16(@ + 1)]
    [] OTHER                        -> s

\* Mutation: the last row is not the end.
BottomNever(s) == s

Bottom(s) == IF s.y >= HEIGHT THEN Scroll(s) ELSE s

PutChar(s, c) == IF s.fault THEN s ELSE Bottom(WrapLine(Place(s, c)))

PutString(s, chars) == FoldLeft(PutChar, s, chars)

CleanScreen(s) == [s EXCEPT !.x = 0, !.y = 0, !.cell = [i \in Cells |-> Blank]]

\* Mutation: the cursor goes to the end of its own row.
EraseLastSameRow(s) ==
  IF s.x = 0 /\ s.y = 0 THEN s
  ELSE LET b == U16(s.x - 1)
           d == [Draw(s, b, s.y, Blank) EXCEPT !.x = b]
       IN  IF b = 0 THEN [d EXCEPT !.x = WIDTH] ELSE d

EraseLast(s) ==
  IF s.x = 0 /\ s.y = 0 THEN s
  ELSE LET b == U16(s.x - 1)
           d == [Draw(s, b, s.y, Blank) EXCEPT !.x = b]
       IN  IF b = 0 THEN [d EXCEPT !.x = WIDTH, !.y = U16(@ - 1)] ELSE d

\* The screen becomes s; after a fault the machine has stopped.
Show(s) ==
  /\ x' = s.x /\ y' = s.y /\ cell' = s.cell
  /\ wild' = s.fault

-----------------------------------------------------------------------------
Init ==
  /\ x = 0 /\ y = 0 /\ cell = [i \in Cells |-> Blank]
  /\ buffer = [i \in 0 .. BUFFER - 1 |-> NUL] /\ length = 0 /\ shell = FALSE
  /\ at = "quiet" /\ text = Welcome /\ seen = Origin
  /\ typed = <<>> /\ echo = TRUE /\ line = <<>>
  /\ wild = FALSE

-----------------------------------------------------------------------------
(* The boot code.  It is quiet, with interrupts on, while it sets up the   *)
(* RAM filesystem and looks for a disk.                                    *)

Boot(from, to) == ~wild /\ at = from /\ at' = to /\ UNCHANGED <<editor, typed, echo>> /\ line' = <<>>

Printing == text # <<>>

BootPrints ==
  /\ Boot("quiet", "load")
  /\ UNCHANGED <<screen, text, seen, wild>>

LoadCursor ==
  /\ Printing /\ Boot("load", IF Head(text) = NL THEN "row" ELSE "cell")
  /\ seen' = [x |-> x, y |-> y]
  /\ UNCHANGED <<screen, text, wild>>

StoreCell ==
  /\ Boot("cell", "count")
  /\ Show(Draw(Screen, seen.x, seen.y, Head(text)))
  /\ UNCHANGED <<text, seen>>

LoadColumn ==
  /\ Boot("count", "column")
  /\ seen' = [Origin EXCEPT !.x = x]
  /\ UNCHANGED <<screen, text, wild>>

StoreRow ==
  /\ Boot("row", "column")
  /\ y' = U16(seen.y + 1)
  /\ seen' = Origin
  /\ UNCHANGED <<x, cell, text, wild>>

StoreColumn ==
  /\ Boot("column", "wrap")
  /\ x' = IF Head(text) = NL THEN 0 ELSE U16(seen.x + 1)
  /\ seen' = Origin
  /\ UNCHANGED <<y, cell, text, wild>>

\* Behind the last column the cursor goes to the next row, in steps of its own.
TestColumn ==
  /\ Boot("wrap", IF x = WIDTH THEN "turn" ELSE "bottom")
  /\ x' = IF x = WIDTH THEN 0 ELSE x
  /\ UNCHANGED <<y, cell, text, seen, wild>>

\* Below the last row the screen scrolls, and putchar returns.
TurnScrolls ==
  /\ y >= HEIGHT /\ Boot("turn", "load")
  /\ Show(Scroll(Screen))
  /\ text' = Tail(text)
  /\ UNCHANGED seen

TurnRow ==
  /\ y < HEIGHT /\ Boot("turn", "down")
  /\ UNCHANGED <<screen, text, seen, wild>>

LoadRow ==
  /\ Boot("down", "below")
  /\ seen' = [Origin EXCEPT !.y = y]
  /\ UNCHANGED <<screen, text, wild>>

StoreBelow ==
  /\ Boot("below", "bottom")
  /\ y' = U16(seen.y + 1)
  /\ seen' = Origin
  /\ UNCHANGED <<x, cell, text, wild>>

TestRow ==
  /\ Boot("bottom", "load")
  /\ Show(Bottom(Screen))
  /\ text' = Tail(text)
  /\ UNCHANGED seen

\* shell_init: the callback is set, then the prompt is printed.
ShellInit ==
  /\ ~Printing /\ ~shell /\ ~wild /\ at = "load"
  /\ shell' = TRUE /\ text' = Prompt /\ line' = <<>>
  /\ UNCHANGED <<screen, buffer, length, at, seen, typed, echo, wild>>

\* kernel_main's last loop.
BootDone ==
  /\ ~Printing /\ shell /\ Boot("load", "ready")
  /\ UNCHANGED <<screen, text, seen, wild>>

-----------------------------------------------------------------------------
(* readKey. *)

\* The cursor is in the grid, or behind the last cell of a row.
OnGrid == x <= WIDTH /\ y < HEIGHT

\* inputBuffer is written at length.
PastBuffer == length >= BUFFER

KeyChar(c) ==
  /\ ~wild /\ ~PastBuffer
  /\ buffer' = [buffer EXCEPT ![length] = c]
  /\ length' = length + 1
  /\ Show(PutChar(Screen, c))
  /\ typed' = Append(typed, c) /\ line' = <<>>
  /\ echo' = (echo /\ at = "ready" /\ OnGrid)
  /\ UNCHANGED <<shell, boot>>

\* A key the keymap has no character for: it is not put into the line, and is
\* put on the screen.
KeyNothing ==
  /\ ~wild /\ x < MAX_COLUMN
  /\ Show(PutChar(Screen, NUL))
  /\ echo' = FALSE /\ line' = <<>>
  /\ UNCHANGED <<editor, boot, typed>>

\* Mutation: an empty line is not looked for.
EraseAlways ==
  /\ ~wild
  /\ Show(EraseLast(Screen))
  /\ length' = length - 1
  /\ line' = <<>>
  /\ UNCHANGED <<buffer, shell, boot, typed, echo>>

KeyErase ==
  /\ ~wild /\ length # 0 /\ ~PastBuffer
  /\ Show(EraseLast(Screen))
  /\ buffer' = [buffer EXCEPT ![length] = Blank]
  /\ length' = length - 1
  /\ typed' = SubSeq(typed, 1, Len(typed) - 1) /\ line' = <<>>
  /\ UNCHANGED <<shell, boot, echo>>

\* The C string in buffer b.
CString(b) ==
  LET ends == {i \in DOMAIN b : b[i] = NUL}
      end == IF ends = {} THEN BUFFER ELSE CHOOSE i \in ends : \A j \in ends : i <= j
  IN  [i \in 1 .. end |-> b[i - 1]]

Clear == <<"clear">>

\* What shell_execute does to the screen: the command's output or that of
\* `clear`, then the prompt.
Executed(s, output) ==
  PutString(IF output = Clear THEN CleanScreen(s) ELSE PutString(s, output), Prompt)

\* Mutation: the line is not terminated.
EnterUnterminated(output, known) ==
  /\ ~wild /\ ~PastBuffer /\ shell
  /\ Show(Executed(PutChar(Screen, NL), output))
  /\ line' = CString(buffer)
  /\ buffer' = IF known THEN [buffer EXCEPT ![0] = NUL] ELSE buffer
  /\ length' = 0
  /\ typed' = <<>> /\ echo' = (at = "ready")
  /\ UNCHANGED <<shell, boot>>

\* Enter, with a command that is known or not.
KeyEnter(output, known) ==
  LET b == [buffer EXCEPT ![length] = NUL]
  IN  /\ ~wild /\ ~PastBuffer /\ shell
      /\ Show(Executed(PutChar(Screen, NL), output))
      /\ line' = CString(b)
      /\ buffer' = IF known THEN [b EXCEPT ![0] = NUL] ELSE b
      /\ length' = 0
      /\ typed' = <<>> /\ echo' = (at = "ready")
      /\ UNCHANGED <<shell, boot>>

\* Enter before the shell has set its callback.
KeyEnterEarly ==
  /\ ~wild /\ ~PastBuffer /\ ~shell
  /\ Show(PutChar(Screen, NL))
  /\ buffer' = [buffer EXCEPT ![length] = NUL]
  /\ length' = 0
  /\ typed' = <<>> /\ echo' = (at = "ready") /\ line' = <<>>
  /\ UNCHANGED <<shell, boot>>

\* Any key that writes to inputBuffer when it is full.
KeyPastBuffer ==
  /\ ~wild /\ PastBuffer
  /\ wild' = TRUE
  /\ UNCHANGED <<screen, editor, boot, history>>

-----------------------------------------------------------------------------
\* After a fault or a write past inputBuffer nothing is known of the machine.
Undefined == wild /\ UNCHANGED vars

BootStep ==
  \/ BootPrints \/ LoadCursor \/ StoreCell \/ LoadColumn \/ StoreRow
  \/ StoreColumn \/ TestColumn \/ TurnScrolls \/ TurnRow \/ LoadRow \/ StoreBelow
  \/ TestRow \/ ShellInit \/ BootDone

Key ==
  \/ \E c \in Chars : KeyChar(c)
  \/ KeyNothing \/ KeyErase
  \/ \E output \in Outputs, known \in BOOLEAN : KeyEnter(output, known)
  \/ KeyEnter(Clear, TRUE)
  \/ KeyEnterEarly \/ KeyPastBuffer

Next == BootStep \/ Key \/ Undefined

Spec == Init /\ [][Next]_vars

-----------------------------------------------------------------------------
(* Properties. *)
Shown == Chars \cup {NUL, Blank}

TypeOK ==
  /\ x \in 0 .. WORD - 1 /\ y \in 0 .. WORD - 1 /\ DOMAIN cell = Cells
  /\ buffer \in [0 .. BUFFER - 1 -> Shown] /\ length \in 0 .. BUFFER
  /\ shell \in BOOLEAN /\ wild \in BOOLEAN /\ echo \in BOOLEAN
  /\ at \in {"quiet", "load", "cell", "row", "count", "column", "wrap", "turn", "down",
             "below", "bottom", "ready"}
  /\ Len(typed) <= BUFFER /\ Len(line) <= BUFFER

\* The line Enter hands to shell_execute is what has been typed since the last
\* Enter and not erased, whatever longer lines and erased characters have left
\* in inputBuffer, and whatever boot was doing meanwhile.
LineGiven ==
  [][(\E output \in Outputs \cup {Clear}, known \in BOOLEAN : KeyEnter(output, known))
       => line' = typed]_vars

\* The user sees what will be executed: the cells before the cursor hold the
\* line, as long as it is in one row, was typed after boot and into the
\* grid, and no key without a character was pressed.
EchoMatches ==
  ~wild /\ at = "ready" /\ echo /\ Len(typed) <= x /\ OnGrid =>
    \A i \in 1 .. Len(typed) : cell[y * WIDTH + x - Len(typed) + i - 1] = typed[i]

InGrid == x < WIDTH /\ y < HEIGHT

\* Once boot is over the cursor leaves the grid only by backspace: no output,
\* however long and wherever it starts, ends outside of it.
OnlyEraseLeavesGrid ==
  [][at = "ready" /\ InGrid => InGrid' \/ KeyErase]_vars
=============================================================================
