------------------------------- MODULE Shell -------------------------------
(***************************************************************************)
(* From the line that Enter hands to shell_execute to the arguments of the *)
(* command: cmd_cutter and ParsedCommand::tokenize (shell/commands.cpp),   *)
(* one character per step; and intToString (src/string.cpp), by which the  *)
(* commands print their numbers, one digit per step.                       *)
(*                                                                         *)
(* All of it runs inside the keyboard interrupt: nothing interrupts it, so *)
(* a loop that does not end stops the machine for good.  The arrays of a   *)
(* ParsedCommand have a fixed size that the code tests in one place only,  *)
(* the length of an argument; a write past the others is left at `wild`.   *)
(* Which command is run is left out, but for the number it may print.      *)
(***************************************************************************)
EXTENDS Integers, SequencesExt

CONSTANTS
  MAX_CMD_LENGTH, MAX_ARGS_LENGTH, MAX_ARGS, MAX_ARG_LENGTH,
  INT_MAX,  \* the largest int
  BUFFER,   \* the size of intToString's buffer
  Lines,    \* the lines users type, as sequences of characters
  Numbers   \* the numbers commands print

INT_MIN == -INT_MAX - 1

Space == " "
Quote == "q"      \* '"'

NULL == "null"    \* what lies behind the last character

\* The number that digits tell, the first of them being the highest.
WithDigit(told, digit) == 10 * told + digit

Told(digits) == FoldLeft(WithDigit, 0, digits)

ASSUME ShellAssumption ==
  /\ {MAX_CMD_LENGTH, MAX_ARGS_LENGTH, MAX_ARGS, MAX_ARG_LENGTH} \subseteq Nat \ {0}
  \* a sign, the digits of an int and '\0' fit into the buffer
  /\ INT_MAX \in Nat \ {0} /\ BUFFER \in Nat
  /\ INT_MAX <= Told([k \in 1 .. BUFFER - 2 |-> 9])
  /\ \A l \in Lines : l \in Seq(STRING \ {NULL})
  /\ Numbers \subseteq INT_MIN .. INT_MAX

VARIABLES
  pc,         \* where the processor is
  args, argv, \* of the ParsedCommand; argc is the length of argv
  i,          \* the position in args, from 1
  token,      \* argv[argc], as far as it is written
  inQuotes,
  warned,     \* ERR_MISSING_QUOTE has been raised for this line
  value, buffer, neg,  \* of intToString; the buffer without its final '\0'
  number,     \* history: what intToString was called with
  wild        \* history: undefined behaviour has been met

parsing == <<args, argv, i, token, inQuotes, warned>>
printing == <<value, buffer, neg, number>>
vars == <<pc, parsing, printing, wild>>

-----------------------------------------------------------------------------
Init ==
  /\ pc = "idle"
  /\ args = <<>> /\ argv = <<>> /\ i = 1 /\ token = <<>>
  /\ inQuotes = FALSE /\ warned = FALSE
  /\ value = 0 /\ buffer = <<>> /\ neg = FALSE /\ number = 0
  /\ wild = FALSE

Strays == wild' = TRUE /\ pc' = "idle" /\ UNCHANGED <<parsing, printing>>

-----------------------------------------------------------------------------
(* cmd_cutter *)

\* The line begins with a command of n characters and k spaces behind it.
Splits(line, n, k) ==
  /\ n + k <= Len(line)
  /\ \A p \in 1 .. n : line[p] # Space
  /\ \A p \in n + 1 .. n + k : line[p] = Space
  /\ n + k < Len(line) => k > 0 /\ line[n + k + 1] # Space

\* The command is dispatched by its name; what is left of the line is args.
Cut(line) ==
  /\ pc = "idle" /\ ~wild
  /\ \E n, k \in 0 .. Len(line) :
       /\ Splits(line, n, k)
       /\ IF n >= MAX_CMD_LENGTH \/ Len(line) - n - k >= MAX_ARGS_LENGTH
          THEN Strays
          ELSE /\ args' = SubSeq(line, n + k + 1, Len(line))
               /\ argv' = <<>> /\ i' = 1 /\ token' = <<>>
               /\ inQuotes' = FALSE /\ warned' = FALSE
               /\ pc' = "tokens"
               /\ UNCHANGED <<printing, wild>>

-----------------------------------------------------------------------------
(* ParsedCommand::tokenize *)

Char == IF i \in DOMAIN args THEN args[i] ELSE NULL

Parse(state) == pc' = state /\ UNCHANGED <<args, argv, warned, printing, wild>>

SkipSpace ==
  /\ pc = "tokens" /\ Char = Space
  /\ i' = i + 1
  /\ Parse("tokens") /\ UNCHANGED <<token, inQuotes>>

AllRead ==
  /\ pc = "tokens" /\ Char = NULL
  /\ Parse("run") /\ UNCHANGED <<i, token, inQuotes>>

StartToken ==
  /\ pc = "tokens" /\ Char \notin {Space, NULL}
  /\ IF Len(argv) >= MAX_ARGS THEN Strays
     ELSE token' = <<>> /\ Parse("token") /\ UNCHANGED <<i, inQuotes>>

\* Mutation: a closing quote does not end the argument.
TakeQuoteOn ==
  /\ pc = "token" /\ Char = Quote
  /\ i' = i + 1 /\ inQuotes' = ~inQuotes
  /\ Parse("token") /\ UNCHANGED token

\* An opening quote goes on with the argument, a closing one ends it.
TakeQuote ==
  /\ pc = "token" /\ Char = Quote
  /\ i' = i + 1 /\ inQuotes' = ~inQuotes
  /\ Parse(IF inQuotes THEN "ended" ELSE "token") /\ UNCHANGED token

Separates == Char = NULL \/ (Char = Space /\ ~inQuotes)

ReachEnd ==
  /\ pc = "token" /\ Separates
  /\ Parse("ended") /\ UNCHANGED <<i, token, inQuotes>>

IsText == Char # Quote /\ ~Separates

\* Mutation: no place is left for the final '\0'.
TakeCharFull ==
  /\ pc = "token" /\ IsText /\ Len(token) < MAX_ARG_LENGTH
  /\ token' = Append(token, Char) /\ i' = i + 1
  /\ Parse("token") /\ UNCHANGED inQuotes

TakeChar ==
  /\ pc = "token" /\ IsText /\ Len(token) < MAX_ARG_LENGTH - 1
  /\ token' = Append(token, Char) /\ i' = i + 1
  /\ Parse("token") /\ UNCHANGED inQuotes

\* The argument is full.
TakeNoMore ==
  /\ pc = "token" /\ IsText /\ Len(token) >= MAX_ARG_LENGTH - 1
  /\ Parse("skip") /\ UNCHANGED <<i, token, inQuotes>>

SkipEnds ==
  /\ pc = "skip" /\ Separates
  /\ Parse("token") /\ UNCHANGED <<i, token, inQuotes>>

\* The closing quote ends the skipping, but here not the argument.
SkipQuote ==
  /\ pc = "skip" /\ Char = Quote /\ inQuotes
  /\ i' = i + 1 /\ inQuotes' = FALSE
  /\ Parse("token") /\ UNCHANGED token

\* Mutation: what does not fit is not passed over.
SkipCharStays ==
  /\ pc = "skip" /\ ~Separates /\ ~(Char = Quote /\ inQuotes)
  /\ Parse("skip") /\ UNCHANGED <<i, token, inQuotes>>

\* An opening quote is passed over like any other character.
SkipChar ==
  /\ pc = "skip" /\ ~Separates /\ ~(Char = Quote /\ inQuotes)
  /\ i' = i + 1
  /\ Parse("skip") /\ UNCHANGED <<token, inQuotes>>

\* Mutation: the argument is kept and nothing is said.
EndTokenSilent ==
  /\ pc = "ended"
  /\ inQuotes' = FALSE
  /\ argv' = Append(argv, token)
  /\ pc' = "tokens"
  /\ UNCHANGED <<args, i, token, warned, printing, wild>>

EndToken ==
  /\ pc = "ended"
  /\ warned' = (warned \/ inQuotes) /\ inQuotes' = FALSE
  /\ argv' = Append(argv, token)
  /\ pc' = "tokens"
  /\ UNCHANGED <<args, i, token, printing, wild>>

\* The command prints no number, and returns.
Run ==
  /\ pc = "run" /\ pc' = "idle"
  /\ args' = <<>> /\ argv' = <<>> /\ i' = 1 /\ token' = <<>>
  /\ UNCHANGED <<inQuotes, warned, printing, wild>>

-----------------------------------------------------------------------------
(* intToString *)

\* Of a negative number the absolute value is taken, which the least int has not.
StartNumber(n) ==
  /\ pc = "run"
  /\ IF n = INT_MIN THEN Strays
     ELSE /\ number' = n /\ neg' = (n < 0)
          /\ value' = IF n < 0 THEN -n ELSE n
          /\ buffer' = IF n = 0 THEN <<0>> ELSE <<>>
          /\ pc' = "digits"
          /\ args' = <<>> /\ argv' = <<>> /\ i' = 1 /\ token' = <<>>
          /\ UNCHANGED <<inQuotes, warned, wild>>

PutDigit ==
  /\ pc = "digits" /\ value > 0
  /\ buffer' = Append(buffer, value % 10) /\ value' = value \div 10
  /\ UNCHANGED <<pc, parsing, neg, number, wild>>

Minus == -1    \* '-', among the digits

\* Mutation: the digits are left in the order they were found in.
EndNumberUnturned ==
  /\ pc = "digits" /\ value = 0
  /\ buffer' = IF neg THEN Append(buffer, Minus) ELSE buffer
  /\ pc' = "printed"
  /\ UNCHANGED <<parsing, value, neg, number, wild>>

\* The sign is put behind the digits, and all of it is turned around.
EndNumber ==
  /\ pc = "digits" /\ value = 0
  /\ buffer' = Reverse(IF neg THEN Append(buffer, Minus) ELSE buffer)
  /\ pc' = "printed"
  /\ UNCHANGED <<parsing, value, neg, number, wild>>

Printed ==
  /\ pc = "printed" /\ pc' = "idle"
  /\ buffer' = <<>> /\ neg' = FALSE /\ number' = 0
  /\ UNCHANGED <<parsing, value, wild>>

-----------------------------------------------------------------------------
Turn ==
  \/ SkipSpace \/ AllRead \/ StartToken \/ TakeQuote \/ ReachEnd \/ TakeChar
  \/ TakeNoMore \/ SkipEnds \/ SkipQuote \/ SkipChar \/ EndToken
  \/ Run \/ (\E n \in Numbers : StartNumber(n)) \/ PutDigit \/ EndNumber \/ Printed

Next == (\E line \in Lines : Cut(line)) \/ Turn

Spec == Init /\ [][Next]_vars

\* The processor goes on; nothing can come between its steps.
FairSpec == Spec /\ WF_vars(Turn)

-----------------------------------------------------------------------------
(* Properties. *)

TypeOK ==
  /\ pc \in {"idle", "tokens", "token", "ended", "skip", "run", "digits", "printed"}
  /\ args \in Seq(STRING) /\ Len(args) < MAX_ARGS_LENGTH
  /\ argv \in Seq(Seq(STRING)) /\ Len(argv) <= MAX_ARGS
  /\ \A k \in DOMAIN argv : Len(argv[k]) < MAX_ARG_LENGTH
  /\ i \in 1 .. Len(args) + 1
  /\ token \in Seq(STRING) /\ Len(token) < MAX_ARG_LENGTH
  /\ inQuotes \in BOOLEAN /\ warned \in BOOLEAN /\ neg \in BOOLEAN /\ wild \in BOOLEAN
  /\ value \in 0 .. INT_MAX /\ number \in INT_MIN .. INT_MAX /\ buffer \in Seq(Int)

\* What the arguments `a` of a line mean: quotes pair off from the left, an
\* argument ends at a space outside quotes, at a closing quote, or with the line.
Quotes(a, p) == Cardinality({r \in DOMAIN a : r < p /\ a[r] = Quote})

Quoted(a, p) == Quotes(a, p) % 2 = 1

Ends(a, p) ==
  \/ p = Len(a) + 1
  \/ a[p] = Space /\ ~Quoted(a, p)
  \/ a[p] = Quote /\ Quoted(a, p)

\* The positions of the argument that ends at p, and those of its text.
Span(a, p) == {r \in DOMAIN a :
                 r <= p /\ (a[r] # Space \/ Quoted(a, r)) /\ \A s \in r .. p - 1 : ~Ends(a, s)}

Kept(a, p) == {r \in Span(a, p) : a[r] # Quote}

\* Where arguments end, and where those end that are too long for a row.
Arguments(a) == {p \in 1 .. Len(a) + 1 : Ends(a, p) /\ Span(a, p) # {}}

Long(a) == {p \in Arguments(a) : Cardinality(Kept(a, p)) >= MAX_ARG_LENGTH}

\* The how manieth of S p is.
Rank(S, p) == Cardinality({q \in S : q <= p})

\* The row holds the argument that ends at p, or as much of it as fits.
Spells(row, a, p) ==
  /\ Len(row) = IF p \in Long(a) THEN MAX_ARG_LENGTH - 1 ELSE Cardinality(Kept(a, p))
  /\ \A r \in Kept(a, p) :
       Rank(Kept(a, p), r) <= Len(row) => row[Rank(Kept(a, p), r)] = a[r]

\* The arguments a command is given are those its line means.  An argument too
\* long for its row is cut, and what comes after it may be split differently.
TokensAgree ==
  pc = "run" =>
    /\ \A p \in Arguments(args) :
         (\A l \in Long(args) : p <= l) =>
           LET k == Rank(Arguments(args), p)
           IN  k \in DOMAIN argv /\ Spells(argv[k], args, p)
    /\ Long(args) = {} => Len(argv) = Cardinality(Arguments(args))

\* A missing quote is reported if and only if the quotes of the line do not pair
\* off, where every argument fits its row.
MissingQuoteTold ==
  pc = "run" /\ Long(args) = {} => warned = Quoted(args, Len(args) + 1)

\* The digits and the sign that intToString leaves in its buffer are those of the
\* number it was called with, and they fit there.
DigitsTell ==
  pc = "printed" =>
    /\ Len(buffer) < BUFFER
    /\ number = IF buffer[1] = Minus THEN -Told(Tail(buffer)) ELSE Told(buffer)

\* Every line is parsed and its command returns: the loops of tokenize end on any
\* arrangement of quotes and spaces.
LineServed == (pc # "idle") ~> (pc = "idle")
=============================================================================
