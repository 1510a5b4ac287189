---------------------------- MODULE ShellProofs ----------------------------
(***************************************************************************)
(* Proofs about Shell.tla, for every line, every size of the arrays of a   *)
(* ParsedCommand and every width of an int: up to a write that the code    *)
(* does not test for, at which the model stops, no array overflows, and    *)
(* the position in the arguments never passes their end; the number that   *)
(* intToString leaves is the one it was given; the arguments and the       *)
(* missing quote are those the line means.                                 *)
(*                                                                         *)
(* That the position stays inside rests on the character 0 being neither a *)
(* space nor a quote nor text: no step goes on from it.                    *)
(***************************************************************************)
EXTENDS Shell, SequenceTheorems, FiniteSetTheorems, WellFoundedInduction, TLAPS

\* What the proofs need of the constants.
LEMMA Limits ==
  /\ MAX_CMD_LENGTH \in Nat \ {0} /\ MAX_ARGS_LENGTH \in Nat \ {0}
  /\ MAX_ARGS \in Nat \ {0} /\ MAX_ARG_LENGTH \in Nat \ {0}
  /\ \A l \in Lines : l \in Seq(STRING) /\ \A k \in DOMAIN l : l[k] # NULL
  /\ Numbers \subseteq INT_MIN .. INT_MAX
<1>1. /\ MAX_CMD_LENGTH \in Nat \ {0} /\ MAX_ARGS_LENGTH \in Nat \ {0}
      /\ MAX_ARGS \in Nat \ {0} /\ MAX_ARG_LENGTH \in Nat \ {0}
      /\ \A l \in Lines : l \in Seq(STRING \ {NULL})
      /\ Numbers \subseteq INT_MIN .. INT_MAX
  BY ShellAssumption, Zenon
<1>2. ASSUME NEW l \in Lines
      PROVE  l \in Seq(STRING) /\ \A k \in DOMAIN l : l[k] # NULL
  <2>1. l \in Seq(STRING \ {NULL})
    BY <1>1
  <2> HIDE DEF NULL
  <2> QED BY <2>1
<1> QED BY <1>1, <1>2

\* Nothing has been written yet.
LEMMA Empty ==
  /\ <<>> \in Seq(STRING) /\ <<>> \in Seq(Seq(STRING)) /\ <<>> \in Seq(Int)
  /\ Len(<<>>) = 0 /\ DOMAIN <<>> = {}
  OBVIOUS

\* At the end of the arguments there is no character.
LEMMA CharInside ==
  ASSUME TypeOK, Char # NULL
  PROVE  i \in 1 .. Len(args) /\ i + 1 \in 1 .. Len(args) + 1 /\ Char \in STRING
  BY DEF TypeOK, Char

\* The shell has no line at first.
LEMMA InitTypes == Init => TypeOK
<1> SUFFICES ASSUME Init PROVE TypeOK
  OBVIOUS
<1>1. /\ args = <<>> /\ argv = <<>> /\ token = <<>> /\ buffer = <<>>
      /\ i = 1 /\ value = 0 /\ number = 0 /\ pc = "idle"
      /\ inQuotes = FALSE /\ warned = FALSE /\ neg = FALSE /\ wild = FALSE
  BY DEF Init
<1>2. INT_MAX \in Nat
  BY ShellAssumption
<1>3. inQuotes \in BOOLEAN /\ warned \in BOOLEAN /\ neg \in BOOLEAN /\ wild \in BOOLEAN
  BY <1>1
<1>4. /\ args \in Seq(STRING) /\ Len(args) < MAX_ARGS_LENGTH
      /\ argv \in Seq(Seq(STRING)) /\ Len(argv) <= MAX_ARGS
      /\ \A k \in DOMAIN argv : Len(argv[k]) < MAX_ARG_LENGTH
      /\ i \in 1 .. Len(args) + 1
      /\ token \in Seq(STRING) /\ Len(token) < MAX_ARG_LENGTH
      /\ buffer \in Seq(Int)
  BY <1>1, Empty, Limits
<1>5. value \in 0 .. INT_MAX /\ number \in INT_MIN .. INT_MAX
  BY <1>1, <1>2 DEF INT_MIN
<1> QED BY <1>1, <1>3, <1>4, <1>5 DEF TypeOK

\* What a write outside an array leaves.
LEMMA StraysTypes == ASSUME TypeOK, Strays PROVE TypeOK'
  BY DEF TypeOK, Strays, parsing, printing

\* cmd_cutter leaves the arguments, if they fit.
LEMMA CutTypes == ASSUME TypeOK, NEW line \in Lines, Cut(line) PROVE TypeOK'
<1>1. PICK n \in 0 .. Len(line), k \in 0 .. Len(line) :
        /\ n + k <= Len(line)
        /\ IF n >= MAX_CMD_LENGTH \/ Len(line) - n - k >= MAX_ARGS_LENGTH
           THEN Strays
           ELSE /\ args' = SubSeq(line, n + k + 1, Len(line))
                /\ argv' = <<>> /\ i' = 1 /\ token' = <<>>
                /\ inQuotes' = FALSE /\ warned' = FALSE
                /\ pc' = "tokens"
                /\ UNCHANGED <<printing, wild>>
  BY DEF Cut, Splits
<1>2. CASE n >= MAX_CMD_LENGTH \/ Len(line) - n - k >= MAX_ARGS_LENGTH
  BY <1>1, <1>2, StraysTypes
<1>3. CASE ~(n >= MAX_CMD_LENGTH \/ Len(line) - n - k >= MAX_ARGS_LENGTH)
  <2>1. line \in Seq(STRING)
    BY Limits
  <2>2. /\ args' = SubSeq(line, n + k + 1, Len(line))
        /\ argv' = <<>> /\ i' = 1 /\ token' = <<>>
        /\ inQuotes' = FALSE /\ warned' = FALSE /\ pc' = "tokens"
        /\ UNCHANGED <<value, buffer, neg, number, wild>>
    BY <1>1, <1>3 DEF printing
  <2>3. args' \in Seq(STRING) /\ Len(args') = Len(line) - n - k
    <3>1. n + k + 1 \in 1 .. Len(line) + 1 /\ Len(line) \in n + k .. Len(line)
      BY <1>1, <2>1
    <3> QED BY <2>1, <2>2, <3>1, SubSeqProperties
  <2>4. Len(line) - n - k < MAX_ARGS_LENGTH /\ Len(args') + 1 >= 1
    BY <1>3, <2>1, <2>3, Limits
  <2>5. inQuotes' \in BOOLEAN /\ warned' \in BOOLEAN
    BY <2>2
  <2>6. /\ argv' \in Seq(Seq(STRING)) /\ Len(argv') <= MAX_ARGS
        /\ \A r \in DOMAIN argv' : Len(argv'[r]) < MAX_ARG_LENGTH
        /\ token' \in Seq(STRING) /\ Len(token') < MAX_ARG_LENGTH
    BY <2>2, Empty, Limits
  <2>7. i' \in 1 .. Len(args') + 1
    BY <2>2, <2>3, <2>4
  <2> QED BY <2>2, <2>3, <2>4, <2>5, <2>6, <2>7 DEF TypeOK
<1> QED BY <1>2, <1>3

\* tokenize, between two arguments.
LEMMA BetweenTypes == ASSUME TypeOK, SkipSpace \/ AllRead \/ StartToken PROVE TypeOK'
<1>1. CASE SkipSpace
  BY <1>1, CharInside DEF SkipSpace, Parse, Space, NULL, TypeOK, printing
<1>2. CASE AllRead
  BY <1>2 DEF AllRead, Parse, TypeOK, printing
<1>3. CASE StartToken
  <2>1. CASE Len(argv) >= MAX_ARGS
    BY <1>3, <2>1, StraysTypes DEF StartToken
  <2>2. CASE ~(Len(argv) >= MAX_ARGS)
    BY <1>3, <2>2, Limits DEF StartToken, Parse, TypeOK, printing
  <2> QED BY <2>1, <2>2
<1> QED BY <1>1, <1>2, <1>3

\* tokenize, within an argument: its row is never written past its end.
LEMMA WithinTypes ==
  ASSUME TypeOK, TakeQuote \/ ReachEnd \/ TakeChar \/ TakeNoMore
  PROVE  TypeOK'
<1>1. CASE TakeQuote
  BY <1>1, CharInside DEF TakeQuote, Parse, Quote, NULL, TypeOK, printing
<1>2. CASE ReachEnd
  BY <1>2 DEF ReachEnd, Parse, TypeOK, printing
<1>3. CASE TakeNoMore
  BY <1>3 DEF TakeNoMore, Parse, TypeOK, printing
<1>4. CASE TakeChar
  <2>1. Char # NULL /\ i' = i + 1 /\ token' = Append(token, Char)
        /\ Len(token) < MAX_ARG_LENGTH - 1
    BY <1>4 DEF TakeChar, IsText, Separates
  <2>2. i' \in 1 .. Len(args) + 1 /\ Char \in STRING
    BY <2>1, CharInside
  <2>3. token' \in Seq(STRING) /\ Len(token') < MAX_ARG_LENGTH
    BY <2>1, <2>2, Limits DEF TypeOK
  <2> QED BY <1>4, <2>2, <2>3 DEF TakeChar, Parse, TypeOK, printing
<1> QED BY <1>1, <1>2, <1>3, <1>4

\* tokenize, past what fits of an argument.
LEMMA SkipTypes == ASSUME TypeOK, SkipEnds \/ SkipQuote \/ SkipChar PROVE TypeOK'
<1>1. CASE SkipEnds
  BY <1>1 DEF SkipEnds, Parse, TypeOK, printing
<1>2. CASE SkipQuote
  BY <1>2, CharInside DEF SkipQuote, Parse, Quote, NULL, TypeOK, printing
<1>3. CASE SkipChar
  <2>1. Char # NULL /\ i' = i + 1
    BY <1>3 DEF SkipChar, Separates
  <2> QED BY <1>3, <2>1, CharInside DEF SkipChar, Parse, TypeOK, printing
<1> QED BY <1>1, <1>2, <1>3

\* An argument becomes a row, of which there is one left, and the command runs.
LEMMA EndTypes ==
  ASSUME TypeOK, Len(argv) < MAX_ARGS, EndToken
  PROVE  TypeOK'
<1>1. argv' = Append(argv, token)
  BY DEF EndToken
<1>2. argv' \in Seq(Seq(STRING)) /\ Len(argv') = Len(argv) + 1
  BY <1>1 DEF TypeOK
<1>3. ASSUME NEW r \in DOMAIN argv' PROVE Len(argv'[r]) < MAX_ARG_LENGTH
  <2>1. CASE r <= Len(argv)
    BY <1>1, <2>1 DEF TypeOK
  <2>2. CASE r = Len(argv) + 1
    BY <1>1, <2>2 DEF TypeOK
  <2> QED BY <1>2, <2>1, <2>2 DEF TypeOK
<1>4. warned' \in BOOLEAN /\ inQuotes' \in BOOLEAN
  BY Zenon DEF EndToken, TypeOK
<1>5. Len(argv') <= MAX_ARGS
  BY <1>2, Limits DEF TypeOK
<1> QED BY <1>2, <1>3, <1>4, <1>5 DEF EndToken, TypeOK, printing

\* The command is over.
LEMMA RunTypes == ASSUME TypeOK, Run PROVE TypeOK'
  BY Empty, Limits DEF Run, TypeOK, printing

\* The absolute value of a number is an int, but for the least one.
LEMMA NumberTypes == ASSUME TypeOK, NEW n \in Numbers, StartNumber(n) PROVE TypeOK'
<1>1. CASE n = INT_MIN
  BY <1>1, StraysTypes DEF StartNumber
<1>2. CASE n # INT_MIN
  <2>1. n \in INT_MIN .. INT_MAX /\ INT_MAX \in Nat
    BY Limits, ShellAssumption
  <2>2. (IF n < 0 THEN -n ELSE n) \in 0 .. INT_MAX
    BY <1>2, <2>1 DEF INT_MIN
  <2>3. /\ number' = n /\ value' = (IF n < 0 THEN -n ELSE n) /\ neg' = (n < 0)
        /\ buffer' = (IF n = 0 THEN <<0>> ELSE <<>>)
        /\ pc' = "digits" /\ args' = <<>> /\ argv' = <<>> /\ i' = 1 /\ token' = <<>>
        /\ UNCHANGED <<inQuotes, warned, wild>>
    BY <1>2 DEF StartNumber
  <2>4. buffer' \in Seq(Int) /\ neg' \in BOOLEAN
    BY <2>3
  <2>5. value' \in 0 .. INT_MAX /\ number' \in INT_MIN .. INT_MAX
    BY <2>1, <2>2, <2>3
  <2> QED BY <2>3, <2>4, <2>5, Empty, Limits DEF TypeOK
<1> QED BY <1>1, <1>2

\* Digits are numbers, and what is left of the value gets smaller.
LEMMA DigitTypes == ASSUME TypeOK, PutDigit \/ EndNumber \/ Printed PROVE TypeOK'
<1>1. CASE PutDigit
  <2>1. value \div 10 \in 0 .. INT_MAX /\ value % 10 \in Int
    BY ShellAssumption DEF TypeOK
  <2> QED BY <1>1, <2>1 DEF PutDigit, TypeOK, parsing
<1>2. CASE EndNumber
  <2> DEFINE digits == IF neg THEN Append(buffer, Minus) ELSE buffer
  <2>1. digits \in Seq(Int)
    BY DEF TypeOK, Minus
  <2>2. buffer' = Reverse(digits)
    BY <1>2 DEF EndNumber
  <2> HIDE DEF digits
  <2>3. Reverse(digits) \in Seq(Int)
    BY <2>1 DEF Reverse
  <2> QED BY <1>2, <2>2, <2>3 DEF EndNumber, TypeOK, parsing
<1>3. CASE Printed
  <2>1. buffer' \in Seq(Int) /\ number' \in INT_MIN .. INT_MAX /\ neg' \in BOOLEAN
    <3>1. buffer' = <<>> /\ neg' = FALSE /\ number' = 0 /\ INT_MAX \in Nat
      BY <1>3, ShellAssumption DEF Printed
    <3>2. buffer' \in Seq(Int)
      BY <3>1, Empty, Zenon
    <3>3. number' \in INT_MIN .. INT_MAX
      BY <3>1 DEF INT_MIN
    <3>4. neg' \in BOOLEAN
      BY <3>1
    <3> QED BY <3>2, <3>3, <3>4
  <2> QED BY <1>3, <2>1 DEF Printed, TypeOK, parsing
<1> QED BY <1>1, <1>2, <1>3

-----------------------------------------------------------------------------
\* While an argument is taken there is a row for it.
RowInv == pc \in {"token", "skip", "ended"} => Len(argv) < MAX_ARGS

SInv == TypeOK /\ RowInv

\* The row is tested for when the argument begins, and kept until it ends.
LEMMA NextSInv == SInv /\ [Next]_vars => SInv'
<1> SUFFICES ASSUME TypeOK, RowInv, [Next]_vars PROVE TypeOK' /\ RowInv'
  BY DEF SInv
<1>1. CASE \E line \in Lines : Cut(line)
  BY <1>1, CutTypes DEF Cut, Strays, RowInv
<1>2. CASE SkipSpace \/ AllRead \/ StartToken
  <2>1. RowInv'
    BY <1>2, Limits DEF SkipSpace, AllRead, StartToken, Parse, Strays, parsing, RowInv, TypeOK
  <2> QED BY <1>2, <2>1, BetweenTypes
<1>3. CASE TakeQuote \/ ReachEnd \/ TakeChar \/ TakeNoMore
  BY <1>3, WithinTypes DEF TakeQuote, ReachEnd, TakeChar, TakeNoMore, Parse, RowInv
<1>4. CASE SkipEnds \/ SkipQuote \/ SkipChar
  BY <1>4, SkipTypes DEF SkipEnds, SkipQuote, SkipChar, Parse, RowInv
<1>5. CASE EndToken
  BY <1>5, EndTypes DEF EndToken, RowInv
<1>6. CASE Run \/ PutDigit \/ EndNumber \/ Printed
  BY <1>6, RunTypes, DigitTypes DEF Run, PutDigit, EndNumber, Printed, parsing, RowInv
<1>7. CASE \E n \in Numbers : StartNumber(n)
  BY <1>7, NumberTypes DEF StartNumber, Strays, RowInv
<1>8. CASE UNCHANGED vars
  BY <1>8 DEF vars, parsing, printing, TypeOK, RowInv
<1> QED BY <1>1, <1>2, <1>3, <1>4, <1>5, <1>6, <1>7, <1>8 DEF Next, Turn

\* The shell's invariant holds in every reachable state.
THEOREM ShellInductive == Spec => []SInv
<1>1. Init => SInv
  BY InitTypes DEF Init, SInv, RowInv
<1> QED BY <1>1, NextSInv, PTL DEF Spec

\* For every line: the arguments fit their rows and the rows their array, and
\* tokenize never looks behind the end of args.
THEOREM ArgumentsFit == Spec => []TypeOK
<1>1. SInv => TypeOK
  BY DEF SInv
<1> QED BY <1>1, ShellInductive, PTL
-----------------------------------------------------------------------------
(* The number printed.  intToString divides it by ten until nothing is     *)
(* left, the digits coming in the wrong order; Told multiplies by ten.     *)
(* What is left after each digit is what the digits turned around tell.    *)

\* A set of naturals that is not empty has a least element.
LEMMA Least ==
  ASSUME NEW S, S \subseteq Nat, S # {}
  PROVE  \E m \in S : \A k \in S : m <= k
<1> DEFINE R == {ss \in Nat \X Nat : ss[1] < ss[2]}
<1>1. IsWellFoundedOn(R, Nat)
  BY NatLessThanWellFounded DEF OpToRel
<1> HIDE DEF R
<1>2. PICK m \in S : \A k \in S : ~(<<k, m>> \in R)
  BY <1>1, WFMin, Zenon
<1>3. \A k \in S : ~(k < m)
  BY <1>2 DEF R
<1> QED BY <1>3

\* What FoldLeft(WithDigit, 0, digits) picks: the number after each set of digits.
Tells(f, digits, n) ==
  f = [q \in SUBSET (1 .. n) |->
         IF q = {} THEN 0 ELSE WithDigit(f[q \ {Max(q)}], digits[Max(q)])]

\* The last of a set of positions.
LEMMA LastOf ==
  ASSUME NEW n \in Nat, NEW q \in SUBSET (1 .. n)
  PROVE  /\ n \in q => Max(q) = n
         /\ q # {} => Max(q) \in q /\ \A k \in q : k <= Max(q)
<1> SUFFICES ASSUME q # {} PROVE (n \in q => Max(q) = n) /\ Max(q) \in q /\ \A k \in q : k <= Max(q)
  OBVIOUS
<1>1. \E m \in q : \A k \in q : m >= k
  <2> DEFINE S == {n - k : k \in q}
  <2>1. S \subseteq Nat /\ S # {}
    OBVIOUS
  <2>2. PICK m \in S : \A k \in S : m <= k
    <3> HIDE DEF S
    <3> QED BY <2>1, Least
  <2>3. PICK l \in q : m = n - l
    OBVIOUS
  <2>4. \A k \in q : n - l <= n - k
    BY <2>2, <2>3
  <2> QED BY <2>4
<1>2. Max(q) \in q /\ \A k \in q : Max(q) >= k
  BY <1>1 DEF Max
<1>3. n \in q => Max(q) = n
  <2>1. ASSUME n \in q PROVE Max(q) = n
    <3>1. Max(q) \in 1 .. n /\ Max(q) >= n
      BY <1>2, <2>1
    <3> QED BY <3>1
  <2> QED BY <2>1
<1>4. \A k \in q : k <= Max(q)
  <2>1. Max(q) \in 1 .. n /\ \A k \in q : k \in 1 .. n
    BY <1>2
  <2> QED BY <1>2, <2>1
<1> QED BY <1>2, <1>3, <1>4

\* There is such a function.
LEMMA TellsExist ==
  ASSUME NEW digits, NEW n \in Nat
  PROVE  \E f : Tells(f, digits, n)
<1> DEFINE Bad == {m \in Nat : ~ \E f : Tells(f, digits, m)}
<1>1. SUFFICES ASSUME Bad # {} PROVE FALSE
  OBVIOUS
<1>2. PICK m \in Bad : \A k \in Bad : m <= k
  <2>1. Bad \subseteq Nat
    OBVIOUS
  <2> HIDE DEF Bad
  <2> QED BY <1>1, <2>1, Least
<1>3. m \in Nat /\ ~ \E f : Tells(f, digits, m)
  OBVIOUS
<1>4. m # 0
  <2>1. Tells([q \in SUBSET (1 .. 0) |-> 0], digits, 0)
    BY DEF Tells
  <2> QED BY <1>3, <2>1
<1>5. m - 1 \in Nat /\ ~(m <= m - 1)
  BY <1>3, <1>4
<1>6. PICK f : Tells(f, digits, m - 1)
  <2>1. m - 1 \notin Bad
    <3> HIDE DEF Bad
    <3> QED BY <1>2, <1>5
  <2> QED BY <1>5, <2>1
<1> DEFINE h == [q \in SUBSET (1 .. m) |->
                   IF m \in q THEN WithDigit(f[q \ {m}], digits[m]) ELSE f[q]]
<1>7. ASSUME NEW q \in SUBSET (1 .. m), m \in q
      PROVE  q # {} /\ Max(q) = m /\ q \ {m} \in SUBSET (1 .. m) /\ m \notin q \ {m}
  BY <1>7, <1>3, LastOf
<1>8. ASSUME NEW q \in SUBSET (1 .. m), m \notin q, q # {}
      PROVE  /\ q \in SUBSET (1 .. m - 1) /\ q \ {Max(q)} \in SUBSET (1 .. m - 1)
             /\ q \ {Max(q)} \in SUBSET (1 .. m) /\ m \notin q \ {Max(q)}
  <2>1. \A k \in q : k \in 1 .. m - 1
    BY <1>3, <1>8
  <2> QED BY <2>1, <1>8
<1>9. ASSUME NEW q \in SUBSET (1 .. m)
      PROVE  h[q] = IF q = {} THEN 0 ELSE WithDigit(h[q \ {Max(q)}], digits[Max(q)])
  <2>1. CASE m \in q
    BY <2>1, <1>7
  <2>2. CASE m \notin q /\ q # {}
    BY <2>2, <1>6, <1>8 DEF Tells
  <2>3. CASE q = {}
    BY <2>3, <1>6 DEF Tells
  <2> QED BY <2>1, <2>2, <2>3
<1>10. h = [q \in SUBSET (1 .. m) |-> h[q]]
  OBVIOUS
<1> HIDE DEF h
<1>11. Tells(h, digits, m)
  BY <1>9, <1>10, Zenon DEF Tells
<1> QED BY <1>3, <1>11

\* Digits tell their number one by one.
LEMMA ToldOneByOne ==
  ASSUME NEW digits \in Seq(Int)
  PROVE  \E f : /\ f[0] = 0 /\ Told(digits) = f[Len(digits)]
                /\ \A k \in 1 .. Len(digits) : f[k] = WithDigit(f[k - 1], digits[k])
<1> DEFINE n == Len(digits)
           g == CHOOSE f : Tells(f, digits, n)
           f == [k \in 0 .. n |-> g[1 .. k]]
<1>1. n \in Nat /\ DOMAIN digits = 1 .. n
  OBVIOUS
<1>2. Told(digits) = g[1 .. n]
  BY <1>1 DEF Told, FoldLeft, MapThenFoldSet, Tells
<1>3. Tells(g, digits, n)
  <2> HIDE DEF n
  <2> QED BY <1>1, TellsExist
<1> HIDE DEF g
<1>4. f[0] = 0 /\ f[n] = g[1 .. n]
  <2>1. 1 .. 0 = {} /\ {} \in SUBSET (1 .. n)
    BY <1>1
  <2>2. g[{}] = 0
    BY <1>3, <2>1 DEF Tells
  <2> QED BY <2>1, <2>2, <1>1
<1>5. ASSUME NEW k \in 1 .. n PROVE f[k] = WithDigit(f[k - 1], digits[k])
  <2>1. 1 .. k \in SUBSET (1 .. n) /\ k \in 1 .. k /\ 1 .. k \in SUBSET (1 .. k) /\ k \in Nat
    BY <1>1
  <2>2. Max(1 .. k) = k
    BY <2>1, LastOf
  <2>3. (1 .. k) \ {k} = 1 .. k - 1
    BY <2>1
  <2>4. g[1 .. k] = WithDigit(g[(1 .. k) \ {Max(1 .. k)}], digits[Max(1 .. k)])
    BY <1>3, <2>1 DEF Tells
  <2>5. k \in 0 .. n /\ k - 1 \in 0 .. n
    BY <1>1
  <2> QED BY <2>2, <2>3, <2>4, <2>5
<1> QED BY <1>2, <1>4, <1>5

\* The n digits are those in b turned around, and v is what divisions leave.
Turns(digits, b, v, n) ==
  /\ v \in [0 .. n -> Nat] /\ v[n] = 0
  /\ \A k \in 0 .. n - 1 : v[k] = WithDigit(v[k + 1], b[k + 1])
  /\ Len(digits) = n /\ \A k \in 1 .. n : digits[k] = b[n - k + 1]

\* What is left before the first division is what is told after the last digit.
LEMMA TurnedTell ==
  ASSUME NEW n \in Nat, NEW b, NEW v, NEW digits \in Seq(Int), Turns(digits, b, v, n)
  PROVE  Told(digits) = v[0]
<1> USE DEF Turns
<1>1. PICK f : /\ f[0] = 0 /\ Told(digits) = f[Len(digits)]
               /\ \A k \in 1 .. Len(digits) : f[k] = WithDigit(f[k - 1], digits[k])
  BY ToldOneByOne
<1> DEFINE Bad == {k \in 0 .. n : f[k] # v[n - k]}
<1>2. SUFFICES ASSUME Bad # {} PROVE FALSE
  <2>1. f[n] = v[n - n]
    BY <1>2
  <2> QED BY <1>1, <2>1
<1>3. PICK m \in Bad : \A k \in Bad : m <= k
  <2>1. Bad \subseteq Nat
    OBVIOUS
  <2> HIDE DEF Bad
  <2> QED BY <1>2, <2>1, Least
<1>4. m \in 1 .. n /\ f[m] # v[n - m]
  BY <1>1, <1>3
<1>5. m - 1 \in 0 .. n /\ ~(m <= m - 1)
  BY <1>4
<1>6. f[m - 1] = v[n - (m - 1)]
  BY <1>3, <1>5
<1>7. n - m \in 0 .. n - 1 /\ n - (m - 1) = (n - m) + 1 /\ n - m + 1 = (n - m) + 1
  BY <1>4
<1>8. v[n - m] = WithDigit(v[(n - m) + 1], b[(n - m) + 1])
  BY <1>7
<1>9. f[m] = WithDigit(f[m - 1], b[n - m + 1])
  <2>1. digits[m] = b[n - m + 1] /\ m \in 1 .. Len(digits)
    BY <1>4, Zenon
  <2>2. f[m] = WithDigit(f[m - 1], digits[m])
    BY <1>1, <2>1, Zenon
  <2> QED BY <2>1, <2>2, Zenon
<1> QED BY <1>4, <1>6, <1>7, <1>8, <1>9

\* The number of n nines.
Nines(n) == Told([k \in 1 .. n |-> 9])

\* It is less than any other number with a digit more.
LEMMA NinesGrow ==
  /\ Nines(0) = 0
  /\ \A n \in Nat : Nines(n) \in Nat /\ Nines(n + 1) = 10 * Nines(n) + 9
<1> DEFINE nines(n) == [k \in 1 .. n |-> 9]
           One(f, n) == f[0] = 0 /\ \A k \in 1 .. n : f[k] = WithDigit(f[k - 1], 9)
<1>1. ASSUME NEW n \in Nat
      PROVE  \E f : One(f, n) /\ Nines(n) = f[n]
  <2>1. nines(n) \in Seq(Int) /\ Len(nines(n)) = n /\ \A k \in 1 .. n : nines(n)[k] = 9
    BY <1>1
  <2>2. PICK f : /\ f[0] = 0 /\ Told(nines(n)) = f[Len(nines(n))]
                 /\ \A k \in 1 .. Len(nines(n)) : f[k] = WithDigit(f[k - 1], nines(n)[k])
    <3> HIDE DEF nines
    <3> QED BY <2>1, ToldOneByOne
  <2> QED BY <2>1, <2>2 DEF Nines
<1>2. ASSUME NEW n \in Nat, NEW f, NEW g, One(f, n), One(g, n + 1)
      PROVE  \A k \in 0 .. n : f[k] = g[k] /\ f[k] \in Nat
  <2> DEFINE Bad == {k \in 0 .. n : ~(f[k] = g[k] /\ f[k] \in Nat)}
  <2>1. SUFFICES ASSUME Bad # {} PROVE FALSE
    OBVIOUS
  <2>2. PICK m \in Bad : \A k \in Bad : m <= k
    <3>1. Bad \subseteq Nat
      OBVIOUS
    <3> HIDE DEF Bad
    <3> QED BY <2>1, <3>1, Least
  <2>3. m \in 1 .. n /\ ~(f[m] = g[m] /\ f[m] \in Nat)
    BY <1>2, <2>2
  <2>4. m - 1 \in 0 .. n /\ ~(m <= m - 1)
    BY <2>3
  <2>5. f[m - 1] = g[m - 1] /\ f[m - 1] \in Nat
    BY <2>2, <2>4
  <2>6. f[m] = WithDigit(f[m - 1], 9) /\ g[m] = WithDigit(g[m - 1], 9)
    BY <1>2, <2>3
  <2> QED BY <2>3, <2>5, <2>6 DEF WithDigit
<1>3. Nines(0) = 0
  BY <1>1
<1>4. ASSUME NEW n \in Nat PROVE Nines(n) \in Nat /\ Nines(n + 1) = 10 * Nines(n) + 9
  <2>1. PICK f : One(f, n) /\ Nines(n) = f[n]
    BY <1>1
  <2>2. PICK g : One(g, n + 1) /\ Nines(n + 1) = g[n + 1]
    BY <1>1
  <2>3. f[n] = g[n] /\ f[n] \in Nat
    <3>1. n \in 0 .. n
      BY <1>4
    <3> HIDE DEF One
    <3> QED BY <1>2, <1>4, <2>1, <2>2, <3>1, Zenon
  <2>4. g[n + 1] = WithDigit(g[n], 9)
    BY <2>2
  <2> QED BY <2>1, <2>2, <2>3, <2>4 DEF WithDigit
<1> QED BY <1>3, <1>4

-----------------------------------------------------------------------------
\* The digits that fit beside a sign and '\0'.
DIGITS == BUFFER - 2

Absolute(n) == IF n < 0 THEN -n ELSE n

\* The value was number before the first digit was taken from it, and each
\* digit is the rest of a division.
Divided(v, n) ==
  /\ v \in [0 .. n -> Nat]
  /\ v[0] = Absolute(number) /\ v[n] = value
  /\ \A k \in 0 .. n - 1 : v[k] = WithDigit(v[k + 1], buffer[k + 1])

DividedInv == \E v : Divided(v, Len(buffer))

\* A value that is not zero can be divided once more before it has more digits
\* than fit.
RoomInv ==
  \/ number = 0 /\ Len(buffer) = 1
  \/ Len(buffer) <= DIGITS /\ value <= Nines(DIGITS - Len(buffer))

NumberInv ==
  /\ pc = "digits" =>
       /\ neg = (number < 0)
       /\ buffer \in Seq(0 .. 9) /\ (Len(buffer) = 0 => value > 0)
       /\ DividedInv /\ RoomInv
  /\ DigitsTell

\* The buffer holds a digit, a sign and '\0'.
LEMMA Room == BUFFER \in Nat /\ DIGITS \in Nat \ {0} /\ INT_MAX \in Nat /\ INT_MAX <= Nines(DIGITS)
<1>1. BUFFER \in Nat /\ INT_MAX \in Nat \ {0} /\ INT_MAX <= Nines(DIGITS)
  BY ShellAssumption DEF Nines, DIGITS
<1>2. DIGITS \in Int
  BY <1>1 DEF DIGITS
<1>3. ASSUME DIGITS <= 0 PROVE FALSE
  <2>1. [k \in 1 .. DIGITS |-> 9] = [k \in 1 .. 0 |-> 9]
    <3>1. 1 .. DIGITS = 1 .. 0
      BY <1>2, <1>3
    <3> QED BY <3>1, Zenon
  <2>2. Nines(DIGITS) = 0
    BY <2>1, NinesGrow, Zenon DEF Nines
  <2> QED BY <1>1, <2>2
<1> QED BY <1>1, <1>2, <1>3

\* Nothing is left of 0, and all is left of another number.
LEMMA StartKeepsNumber ==
  ASSUME NEW n \in Numbers, StartNumber(n)
  PROVE  NumberInv'
<1>1. CASE n = INT_MIN
  BY <1>1 DEF StartNumber, Strays, NumberInv, DigitsTell
<1>2. CASE n # INT_MIN
  <2>1. n \in Int /\ Absolute(n) \in 0 .. INT_MAX
    <3>1. n \in INT_MIN .. INT_MAX /\ INT_MAX \in Nat
      BY Limits, Room
    <3> QED BY <1>2, <3>1 DEF INT_MIN, Absolute
  <2>2. /\ number' = n /\ value' = Absolute(n) /\ neg' = (n < 0)
        /\ buffer' = (IF n = 0 THEN <<0>> ELSE <<>>) /\ pc' = "digits"
    BY <1>2 DEF StartNumber, Absolute
  <2>3. DigitsTell'
    BY <2>2 DEF DigitsTell
  <2>4. CASE n = 0
    <3>1. buffer' = <<0>> /\ Len(buffer') = 1 /\ buffer'[1] = 0 /\ value' = 0 /\ number' = 0
      BY <2>2, <2>4 DEF Absolute
    <3>2. DividedInv'
      <4>1. PICK v : v = [k \in 0 .. 1 |-> 0]
        OBVIOUS
      <4>2. v \in [0 .. 1 -> Nat] /\ v[0] = 0 /\ v[1] = 0
        BY <4>1
      <4>3. ASSUME NEW k \in 0 .. 1 - 1 PROVE v[k] = WithDigit(v[k + 1], buffer'[k + 1])
        <5>1. k = 0 /\ k + 1 = 1
          BY <4>3
        <5> QED BY <3>1, <4>2, <5>1 DEF WithDigit
      <4>4. Divided(v, 1)'
        BY <3>1, <4>2, <4>3 DEF Divided, Absolute
      <4> QED BY <3>1, <4>4, Zenon DEF DividedInv
    <3>3. buffer' \in Seq(0 .. 9) /\ RoomInv'
      BY <3>1 DEF RoomInv
    <3> QED BY <2>2, <2>3, <3>1, <3>2, <3>3 DEF NumberInv
  <2>5. CASE n # 0
    <3>1. buffer' = <<>> /\ Len(buffer') = 0 /\ value' = Absolute(n) /\ number' = n /\ value' > 0
      BY <2>1, <2>2, <2>5 DEF Absolute
    <3>2. DividedInv'
      <4>1. PICK v : v = [k \in 0 .. 0 |-> Absolute(n)]
        OBVIOUS
      <4>2. v \in [0 .. 0 -> Nat] /\ v[0] = Absolute(n)
        BY <2>1, <4>1, Room
      <4>3. 0 .. 0 - 1 = {}
        OBVIOUS
      <4>4. Absolute(number)' = Absolute(n)
        BY <3>1 DEF Absolute
      <4>5. Divided(v, 0)'
        BY <3>1, <4>2, <4>3, <4>4, Zenon DEF Divided
      <4> QED BY <3>1, <4>5, Zenon DEF DividedInv
    <3>3. buffer' \in Seq(0 .. 9) /\ RoomInv'
      <4>1. DIGITS' = DIGITS /\ Nines(DIGITS)' = Nines(DIGITS)
        OBVIOUS
      <4>2. 0 <= DIGITS /\ DIGITS - 0 = DIGITS /\ Absolute(n) <= Nines(DIGITS)
        <5>1. Nines(DIGITS) \in Nat
          BY Room, NinesGrow
        <5> QED BY <2>1, <5>1, Room
      <4> QED BY <3>1, <4>2 DEF RoomInv
    <3> QED BY <2>2, <2>3, <3>1, <3>2, <3>3 DEF NumberInv
  <2> QED BY <2>4, <2>5
<1> QED BY <1>1, <1>2

\* Division by ten, for all naturals.
LEMMA Division ==
  \A n \in Nat : /\ n % 10 \in 0 .. 9 /\ n \div 10 \in Nat
                 /\ n = WithDigit(n \div 10, n % 10)
                 /\ \A m \in Nat : n <= 10 * m + 9 => n \div 10 <= m
  BY DEF WithDigit

\* A digit more.
LEMMA DigitKeepsNumber ==
  ASSUME TypeOK, NumberInv, PutDigit
  PROVE  NumberInv'
<1>1. /\ neg = (number < 0) /\ buffer \in Seq(0 .. 9) /\ DividedInv /\ RoomInv
      /\ value \in Nat /\ value > 0
  BY DEF PutDigit, NumberInv, TypeOK
<1>2. PICK n \in Nat : n = Len(buffer)
  BY <1>1
<1>3. /\ value % 10 \in 0 .. 9 /\ value \div 10 \in Nat
      /\ value = WithDigit(value \div 10, value % 10)
  BY <1>1, Division
<1>4. /\ buffer' = Append(buffer, value % 10) /\ value' = value \div 10
      /\ number' = number /\ neg' = neg /\ pc' = "digits"
  BY DEF PutDigit
<1>5. /\ buffer' \in Seq(0 .. 9) /\ Len(buffer') = n + 1
      /\ \A k \in 1 .. n : buffer'[k] = buffer[k]
      /\ buffer'[n + 1] = value % 10
  <2>1. PICK d \in 0 .. 9 : d = value % 10
    BY <1>3
  <2> QED BY <1>1, <1>2, <1>4, <2>1
<1>6. DividedInv'
  <2>1. PICK v :
          /\ v \in [0 .. n -> Nat]
          /\ v[0] = Absolute(number) /\ v[n] = value
          /\ \A k \in 0 .. n - 1 : v[k] = WithDigit(v[k + 1], buffer[k + 1])
    BY <1>1, <1>2, Zenon DEF DividedInv, Divided
  <2>6. PICK w : w = [k \in 0 .. n + 1 |-> IF k = n + 1 THEN value \div 10 ELSE v[k]]
    OBVIOUS
  <2>2. w \in [0 .. n + 1 -> Nat] /\ w[0] = v[0] /\ w[n + 1] = value \div 10
        /\ \A k \in 0 .. n : w[k] = v[k]
    BY <1>2, <1>3, <2>1, <2>6
  <2>3. ASSUME NEW k \in 0 .. n PROVE w[k] = WithDigit(w[k + 1], buffer'[k + 1])
    <3>1. CASE k = n
      BY <1>3, <1>5, <2>1, <2>2, <3>1
    <3>2. CASE k \in 0 .. n - 1
      <4>1. k + 1 \in 1 .. n /\ w[k] = v[k] /\ w[k + 1] = v[k + 1]
        BY <2>2, <3>2
      <4> QED BY <1>5, <2>1, <3>2, <4>1
    <3> QED BY <2>3, <3>1, <3>2
  <2>4. (n + 1) - 1 = n /\ Absolute(number)' = Absolute(number)
    BY <1>4 DEF Absolute
  <2>5. Divided(w, n + 1)'
    BY <1>4, <2>1, <2>2, <2>3, <2>4, Zenon DEF Divided
  <2> QED BY <1>5, <2>5, Zenon DEF DividedInv
<1>7. RoomInv'
  <2>1. number # 0
    <3>1. ASSUME number = 0 PROVE FALSE
      <4>1. PICK v :
              /\ v \in [0 .. n -> Nat]
              /\ v[0] = 0 /\ v[n] = value
              /\ \A k \in 0 .. n - 1 : v[k] = WithDigit(v[k + 1], buffer[k + 1])
        <5>1. Absolute(number) = 0
          BY <3>1 DEF Absolute
        <5> QED BY <1>1, <1>2, <5>1, Zenon DEF DividedInv, Divided
      <4> DEFINE Bad == {k \in 0 .. n : v[k] # 0}
      <4>2. n \in Bad
        BY <1>1, <4>1
      <4>3. PICK m \in Bad : \A k \in Bad : m <= k
        <5>1. Bad \subseteq Nat
          OBVIOUS
        <5> HIDE DEF Bad
        <5> QED BY <4>2, <5>1, Least
      <4>4. m \in 1 .. n /\ v[m] # 0 /\ v[m] \in Nat
        BY <4>1, <4>3
      <4>5. m - 1 \in 0 .. n - 1 /\ ~(m <= m - 1) /\ (m - 1) + 1 = m
        BY <4>4
      <4>6. v[m - 1] = 0
        BY <4>3, <4>5
      <4>7. v[m - 1] = WithDigit(v[m], buffer[m])
        BY <4>1, <4>5
      <4>8. buffer[m] \in 0 .. 9
        BY <1>1, <1>2, <4>4
      <4>9. PICK a, d \in Nat : a = v[m] /\ d = buffer[m]
        BY <4>4, <4>8
      <4>10. a # 0 /\ 0 = 10 * a + d
        BY <4>4, <4>6, <4>7, <4>9 DEF WithDigit
      <4> QED BY ONLY <4>10, a \in Nat, d \in Nat
    <3> QED BY <3>1
  <2>2. n <= DIGITS /\ value <= Nines(DIGITS - n)
    BY <1>1, <1>2, <2>1 DEF RoomInv
  <2>3. DIGITS - n # 0
    BY <1>1, <2>2, NinesGrow
  <2>4. PICK m \in Nat : m = DIGITS - (n + 1) /\ DIGITS - n = m + 1
    BY <2>2, <2>3, Room
  <2>5. Nines(m) \in Nat /\ value <= 10 * Nines(m) + 9
    BY <2>2, <2>4, NinesGrow
  <2>6. value \div 10 <= Nines(m)
    BY <1>1, <2>5, Division
  <2>7. n + 1 <= DIGITS
    BY <2>4, Room
  <2> QED BY <1>4, <1>5, <2>4, <2>6, <2>7 DEF RoomInv
<1>8. DigitsTell' /\ neg' = (number' < 0) /\ Len(buffer') # 0
  BY <1>1, <1>4, <1>5 DEF DigitsTell
<1> QED BY <1>4, <1>5, <1>6, <1>7, <1>8 DEF NumberInv

\* What Reverse does.
LEMMA Turned ==
  ASSUME NEW S, NEW s \in Seq(S)
  PROVE  /\ Reverse(s) \in Seq(S) /\ Len(Reverse(s)) = Len(s)
         /\ \A k \in 1 .. Len(s) : Reverse(s)[k] = s[Len(s) - k + 1]
<1>1. PICK n \in Nat : n = Len(s)
  OBVIOUS
<1>2. PICK b : b = Reverse(s)
  OBVIOUS
<1>3. b = [k \in 1 .. n |-> s[(n - k) + 1]]
  BY <1>1, <1>2 DEF Reverse
<1>4. ASSUME NEW k \in 1 .. n PROVE s[n - k + 1] \in S /\ n - k + 1 = (n - k) + 1
  <2>1. n - k + 1 \in 1 .. n /\ n - k + 1 = (n - k) + 1
    BY <1>4
  <2> QED BY <1>1, <2>1
<1>5. b \in Seq(S) /\ Len(b) = n /\ \A k \in 1 .. n : b[k] = s[n - k + 1]
  BY <1>3, <1>4
<1> QED BY <1>1, <1>2, <1>5

\* All digits have been taken: turned around, with the sign before them, they
\* tell the number.
LEMMA EndKeepsNumber ==
  ASSUME TypeOK, NumberInv, EndNumber
  PROVE  NumberInv'
<1>1. /\ neg = (number < 0) /\ buffer \in Seq(0 .. 9) /\ DividedInv /\ RoomInv
      /\ value = 0 /\ number \in Int /\ Len(buffer) # 0
  <2>1. pc = "digits" /\ value = 0
    BY DEF EndNumber
  <2>2. number \in Int
    BY Room DEF TypeOK, INT_MIN
  <2> QED BY <2>1, <2>2 DEF NumberInv
<1>2. PICK n \in Nat : n = Len(buffer)
  BY <1>1
<1>3. n # 0
  BY <1>1, <1>2
<1>4. PICK v :
        /\ v \in [0 .. n -> Nat]
        /\ v[0] = Absolute(number) /\ v[n] = 0
        /\ \A k \in 0 .. n - 1 : v[k] = WithDigit(v[k + 1], buffer[k + 1])
  BY <1>1, <1>2, Zenon DEF DividedInv, Divided
<1>5. ASSUME NEW digits \in Seq(Int), Len(digits) = n,
             \A k \in 1 .. n : digits[k] = buffer[n - k + 1]
      PROVE  Told(digits) = Absolute(number)
  <2>1. Told(digits) = v[0]
    <3>1. Turns(digits, buffer, v, n)
      BY <1>4, <1>5, Zenon DEF Turns
    <3> QED BY <3>1, TurnedTell, Zenon
  <2> QED BY <1>4, <2>1, Zenon
<1>6. n + 1 < BUFFER
  <2>1. n <= DIGITS
    <3>1. n = 1 \/ n <= DIGITS
      BY <1>1, <1>2, Zenon DEF RoomInv
    <3> QED BY <3>1, Room
  <2> QED BY <2>1, Room DEF DIGITS
<1>7. CASE neg
  <2>1. PICK s : s = Append(buffer, Minus)
    OBVIOUS
  <2>2. /\ s \in Seq(Int) /\ Len(s) = n + 1 /\ s[n + 1] = -1
        /\ \A k \in 1 .. n : s[k] = buffer[k]
    BY <1>1, <1>2, <2>1 DEF Minus
  <2>3. buffer' = Reverse(s)
    BY <1>7, <2>1 DEF EndNumber
  <2>4. PICK b : b = Reverse(s)
    OBVIOUS
  <2>5. /\ b \in Seq(Int) /\ Len(b) = n + 1
        /\ \A k \in 1 .. n + 1 : b[k] = s[n + 1 - k + 1]
    <3>1. /\ b \in Seq(Int) /\ Len(b) = Len(s)
          /\ \A k \in 1 .. Len(s) : b[k] = s[Len(s) - k + 1]
      BY <2>2, <2>4, Turned, Zenon
    <3>2. ASSUME NEW k \in 1 .. n + 1 PROVE b[k] = s[n + 1 - k + 1]
      <4>1. Len(s) - k + 1 = n + 1 - k + 1
        BY <2>2
      <4> QED BY <2>2, <3>1, <4>1, Zenon
    <3> QED BY <2>2, <3>1, <3>2
  <2>6. /\ b \in Seq(Int) /\ Len(b) = n + 1 /\ b[1] = -1 /\ b # <<>>
        /\ \A k \in 1 .. n : b[k + 1] = s[n - k + 1]
    <3>1. 1 \in 1 .. n + 1 /\ n + 1 - 1 + 1 = n + 1
      OBVIOUS
    <3>2. b[1] = -1
      BY <2>2, <2>5, <3>1, Zenon
    <3>3. ASSUME NEW k \in 1 .. n PROVE b[k + 1] = s[n - k + 1]
      <4>1. k + 1 \in 1 .. n + 1 /\ n + 1 - (k + 1) + 1 = n - k + 1
        BY <3>3
      <4>2. b[k + 1] = s[n + 1 - (k + 1) + 1]
        BY <2>5, <4>1, Zenon
      <4> QED BY <4>1, <4>2, Zenon
    <3> QED BY <2>5, <3>2, <3>3
  <2>7. PICK t : t = Tail(b)
    OBVIOUS
  <2>8. t \in Seq(Int) /\ Len(t) = n /\ \A k \in 1 .. n : t[k] = b[k + 1]
    <3>1. Len(b) - 1 = n
      BY <2>6
    <3> QED BY <2>6, <2>7, <3>1, HeadTailProperties
  <2>9. ASSUME NEW k \in 1 .. n PROVE t[k] = buffer[n - k + 1]
    <3>1. n - k + 1 \in 1 .. n
      BY <2>9
    <3> QED BY <2>2, <2>6, <2>8, <3>1, Zenon
  <2>10. Told(t) = -number /\ number \in Int
    BY <1>1, <1>5, <1>7, <2>8, <2>9 DEF Absolute
  <2>11. number = -Told(t)
    BY <2>10
  <2>12. buffer' = b /\ number' = number /\ pc' = "printed"
    BY <2>3, <2>4 DEF EndNumber
  <2>13. DigitsTell'
    <3>1. buffer'[1] = Minus /\ Len(buffer') < BUFFER /\ Tail(buffer') = t
      BY <1>6, <2>6, <2>7, <2>12 DEF Minus
    <3> QED BY <2>11, <2>12, <3>1, Zenon DEF DigitsTell
  <2> QED BY <2>12, <2>13 DEF NumberInv
<1>8. CASE ~neg
  <2>1. buffer' = Reverse(buffer)
    BY <1>8 DEF EndNumber
  <2>2. PICK b : b = Reverse(buffer)
    OBVIOUS
  <2>3. b \in Seq(0 .. 9) /\ Len(b) = n /\ \A k \in 1 .. n : b[k] = buffer[n - k + 1]
    BY <1>1, <1>2, <2>2, Turned
  <2>4. b \in Seq(Int) /\ b[1] # Minus
    <3>1. 1 \in 1 .. n
      BY <1>3
    <3>2. b[1] \in 0 .. 9
      BY <2>3, <3>1
    <3>3. b[1] # -1
      BY <3>2
    <3>4. b \in Seq(Int)
      BY <2>3
    <3> QED BY <3>3, <3>4 DEF Minus
  <2>5. Told(b) = number /\ number \in Int
    BY <1>1, <1>5, <1>8, <2>3, <2>4 DEF Absolute
  <2>7. buffer' = b /\ number' = number /\ pc' = "printed"
    BY <2>1, <2>2 DEF EndNumber
  <2>8. DigitsTell'
    <3>1. buffer'[1] # Minus /\ Len(buffer') < BUFFER
      BY <1>6, <2>3, <2>4, <2>7, Room
    <3> QED BY <2>5, <2>7, <3>1, Zenon DEF DigitsTell
  <2> QED BY <2>7, <2>8 DEF NumberInv
<1> QED BY <1>7, <1>8

\* Nothing else runs while a number is printed.
LEMMA NextNumber == TypeOK /\ NumberInv /\ [Next]_vars => NumberInv'
<1> SUFFICES ASSUME TypeOK, NumberInv, [Next]_vars PROVE NumberInv'
  OBVIOUS
<1>1. CASE \E line \in Lines : Cut(line)
  BY <1>1 DEF Cut, Strays, NumberInv, DigitsTell
<1>2. CASE SkipSpace \/ AllRead \/ StartToken
  BY <1>2 DEF SkipSpace, AllRead, StartToken, Parse, Strays, NumberInv, DigitsTell
<1>3. CASE TakeQuote \/ ReachEnd \/ TakeChar \/ TakeNoMore
  <2>1. pc' \in {"token", "ended", "skip"}
    BY <1>3 DEF TakeQuote, ReachEnd, TakeChar, TakeNoMore, Parse
  <2> QED BY <2>1 DEF NumberInv, DigitsTell
<1>4. CASE SkipEnds \/ SkipQuote \/ SkipChar
  BY <1>4 DEF SkipEnds, SkipQuote, SkipChar, Parse, NumberInv, DigitsTell
<1>5. CASE EndToken \/ Run \/ Printed
  BY <1>5 DEF EndToken, Run, Printed, NumberInv, DigitsTell
<1>6. CASE \E n \in Numbers : StartNumber(n)
  BY <1>6, StartKeepsNumber
<1>7. CASE PutDigit
  BY <1>7, DigitKeepsNumber
<1>8. CASE EndNumber
  BY <1>8, EndKeepsNumber
<1>9. CASE UNCHANGED vars
  BY <1>9 DEF vars, printing, NumberInv, DigitsTell, DividedInv, Divided, RoomInv, Absolute
<1> QED BY <1>1, <1>2, <1>3, <1>4, <1>5, <1>6, <1>7, <1>8, <1>9 DEF Next, Turn

\* For every int but the least: intToString leaves its digits and its sign in
\* the buffer, where they fit with the final '\0'.
THEOREM DigitsTellAlways == Spec => []DigitsTell
<1>1. Init => NumberInv
  BY DEF Init, NumberInv, DigitsTell
<1>2. NumberInv => DigitsTell
  BY DEF NumberInv
<1> QED BY <1>1, <1>2, NextNumber, ArgumentsFit, PTL DEF Spec

-----------------------------------------------------------------------------
(* The arguments.  Up to the first argument that is too long tokenize and  *)
(* the meaning of the line agree at every character (Synced): the row of   *)
(* the token holds what has been read of the argument, the rows before it  *)
(* the arguments that have ended.  An argument that is too long has filled *)
(* its row, and nothing that follows changes that row (Overrun).           *)

\* Counting the positions up to one of them.
LEMMA Ranks ==
  ASSUME NEW S \in SUBSET Nat, IsFiniteSet(S), NEW p \in S
  PROVE  /\ Cardinality({q \in S : q < p}) \in Nat
         /\ Rank(S, p) = Cardinality({q \in S : q < p}) + 1
         /\ Rank(S, p) \in 1 .. Cardinality(S)
<1> DEFINE L == {q \in S : q < p}
<1>1. IsFiniteSet(L) /\ p \notin L
  BY FS_Subset
<1>2. {q \in S : q <= p} = L \cup {p}
  <2>1. \A q \in S : q <= p <=> q < p \/ q = p
    OBVIOUS
  <2> QED BY <2>1
<1>3. Cardinality(L \cup {p}) = Cardinality(L) + 1
  <2> HIDE DEF L
  <2> QED BY <1>1, FS_AddElement
<1>4. Cardinality(L) \in Nat
  BY <1>1, FS_CardinalityType
<1>5. Cardinality(L \cup {p}) <= Cardinality(S) /\ Cardinality(S) \in Nat
  <2>1. L \cup {p} \in SUBSET S
    OBVIOUS
  <2> HIDE DEF L
  <2> QED BY <2>1, FS_Subset, FS_CardinalityType
<1>6. Rank(S, p) = Cardinality(L \cup {p})
  BY <1>2 DEF Rank
<1> HIDE DEF L
<1>7. Rank(S, p) = Cardinality(L) + 1 /\ Rank(S, p) \in 1 .. Cardinality(S)
  BY <1>3, <1>4, <1>5, <1>6
<1> QED BY <1>4, <1>7 DEF L

\* A further position comes last and leaves the others' ranks.
LEMMA RankGrows ==
  ASSUME NEW S \in SUBSET Nat, IsFiniteSet(S), NEW x \in Nat, \A q \in S : q < x
  PROVE  /\ IsFiniteSet(S \cup {x})
         /\ Cardinality(S \cup {x}) = Cardinality(S) + 1
         /\ Rank(S \cup {x}, x) = Cardinality(S) + 1
         /\ \A q \in S : Rank(S \cup {x}, q) = Rank(S, q)
<1>1. x \notin S
  OBVIOUS
<1>2. IsFiniteSet(S \cup {x}) /\ Cardinality(S \cup {x}) = Cardinality(S) + 1
  BY <1>1, FS_AddElement
<1>3. {q \in S \cup {x} : q <= x} = S \cup {x}
  <2>1. \A q \in S \cup {x} : q <= x
    OBVIOUS
  <2> QED BY <2>1
<1>4. ASSUME NEW p \in S PROVE Rank(S \cup {x}, p) = Rank(S, p)
  <2>1. {q \in S \cup {x} : q <= p} = {q \in S : q <= p}
    <3>1. ~(x <= p)
      OBVIOUS
    <3> QED BY <3>1
  <2> QED BY <2>1 DEF Rank
<1> QED BY <1>2, <1>3, <1>4 DEF Rank

\* The ranks of the positions before n are those among them alone; the others
\* are higher.
LEMMA RankPrefix ==
  ASSUME NEW S \in SUBSET Nat, IsFiniteSet(S), NEW n \in Nat,
         NEW T, T = {q \in S : q < n}
  PROVE  /\ T \in SUBSET Nat /\ IsFiniteSet(T)
         /\ \A p \in T : Rank(S, p) = Rank(T, p)
         /\ \A p \in S \ T : Rank(S, p) > Cardinality(T)
<1>1. T \in SUBSET Nat /\ IsFiniteSet(T)
  BY FS_Subset
<1>2. ASSUME NEW p \in T PROVE Rank(S, p) = Rank(T, p)
  <2>1. {q \in S : q <= p} = {q \in T : q <= p}
    <3>1. \A q \in S : q <= p => q < n
      OBVIOUS
    <3> QED BY <3>1
  <2> QED BY <2>1 DEF Rank
<1>3. ASSUME NEW p \in S \ T PROVE Rank(S, p) > Cardinality(T)
  <2>1. T \in SUBSET {q \in S : q < p}
    <3>1. \A q \in S : q < n => q < p
      OBVIOUS
    <3> QED BY <3>1
  <2>2. IsFiniteSet({q \in S : q < p})
    BY FS_Subset
  <2>3. Cardinality(T) <= Cardinality({q \in S : q < p}) /\ Cardinality(T) \in Nat
    BY <1>1, <2>1, <2>2, FS_Subset, FS_CardinalityType
  <2>4. /\ Cardinality({q \in S : q < p}) \in Nat
        /\ Rank(S, p) = Cardinality({q \in S : q < p}) + 1
    BY Ranks
  <2> QED BY <2>3, <2>4
<1> QED BY <1>1, <1>2, <1>3

-----------------------------------------------------------------------------
\* The letters with a meaning differ.
LEMMA Letters == Space # Quote /\ Space # NULL /\ Quote # NULL
  BY DEF Space, Quote, NULL

\* One more natural is odd if the one before is not.
LEMMA Parity == \A n \in Nat : ((n + 1) % 2 = 1) <=> ~(n % 2 = 1)
  OBVIOUS

\* A quote opens or closes, another character does neither.
LEMMA QuotedStep ==
  ASSUME NEW a \in Seq(STRING)
  PROVE  /\ ~Quoted(a, 1)
         /\ \A p \in 1 .. Len(a) :
              /\ a[p] = Quote => (Quoted(a, p + 1) <=> ~Quoted(a, p))
              /\ a[p] # Quote => (Quoted(a, p + 1) <=> Quoted(a, p))
<1> DEFINE Q(p) == {r \in DOMAIN a : r < p /\ a[r] = Quote}
<1>1. DOMAIN a = 1 .. Len(a) /\ Len(a) \in Nat
  OBVIOUS
<1>2. IsFiniteSet(DOMAIN a)
  BY <1>1, FS_Interval
<1>3. Q(1) = {}
  BY <1>1
<1>4. ~Quoted(a, 1)
  <2>1. Quotes(a, 1) = 0
    BY <1>3, FS_EmptySet DEF Quotes
  <2> QED BY <2>1 DEF Quoted
<1>5. ASSUME NEW p \in 1 .. Len(a)
      PROVE  /\ a[p] = Quote => (Quoted(a, p + 1) <=> ~Quoted(a, p))
             /\ a[p] # Quote => (Quoted(a, p + 1) <=> Quoted(a, p))
  <2>1. IsFiniteSet(Q(p)) /\ p \notin Q(p) /\ Quotes(a, p) = Cardinality(Q(p))
    BY <1>2, FS_Subset DEF Quotes
  <2>2. CASE a[p] = Quote
    <3>1. Q(p + 1) = Q(p) \cup {p}
      <4>1. \A r \in 1 .. Len(a) : r < p + 1 <=> r < p \/ r = p
        OBVIOUS
      <4> QED BY <1>1, <2>2, <4>1
    <3>2. Quotes(a, p + 1) = Cardinality(Q(p + 1))
      BY DEF Quotes
    <3> HIDE DEF Q
    <3>3. Quotes(a, p + 1) = Quotes(a, p) + 1 /\ Quotes(a, p) \in Nat
      BY <2>1, <3>1, <3>2, FS_AddElement, FS_CardinalityType
    <3> QED BY <2>2, <3>3, Parity DEF Quoted
  <2>3. CASE a[p] # Quote
    <3>1. Q(p + 1) = Q(p)
      <4>1. \A r \in 1 .. Len(a) : r < p + 1 <=> r < p \/ r = p
        OBVIOUS
      <4> QED BY <1>1, <2>3, <4>1
    <3> QED BY <2>3, <3>1 DEF Quoted, Quotes
  <2> QED BY <2>2, <2>3
<1> QED BY <1>4, <1>5

\* The positions before p of an argument that has not ended before p.
Pending(a, p) ==
  {r \in 1 .. p - 1 : (a[r] # Space \/ Quoted(a, r)) /\ \A s \in r .. p - 1 : ~Ends(a, s)}

PendingText(a, p) == {r \in Pending(a, p) : a[r] # Quote}

\* Nothing is pending behind an end; a character that does not end an argument
\* belongs to it; an argument ends with what is pending, and perhaps a quote.
LEMMA PendingStep ==
  ASSUME NEW a \in Seq(STRING), NEW p \in 1 .. Len(a) + 1
  PROVE  /\ p = 1 \/ Ends(a, p - 1) => Pending(a, p) = {}
         /\ p <= Len(a) /\ ~Ends(a, p) => Pending(a, p + 1) = Pending(a, p) \cup {p}
         /\ Pending(a, p) \subseteq Span(a, p)
         /\ Ends(a, p) => Kept(a, p) = PendingText(a, p)
         /\ ~(p <= Len(a) /\ a[p] = Quote) /\ Ends(a, p) => Span(a, p) = Pending(a, p)
         /\ p <= Len(a) /\ a[p] = Quote => p \in Span(a, p)
<1>1. DOMAIN a = 1 .. Len(a) /\ Len(a) \in Nat
  OBVIOUS
<1>2. ASSUME p = 1 \/ Ends(a, p - 1) PROVE Pending(a, p) = {}
  <2>1. ASSUME NEW r \in 1 .. p - 1, \A s \in r .. p - 1 : ~Ends(a, s) PROVE FALSE
    <3>1. p - 1 \in r .. p - 1 /\ p # 1
      BY <2>1
    <3> QED BY <1>2, <2>1, <3>1
  <2> QED BY <2>1 DEF Pending
<1>3. ASSUME p <= Len(a), ~Ends(a, p) PROVE Pending(a, p + 1) = Pending(a, p) \cup {p}
  <2>1. a[p] # Space \/ Quoted(a, p)
    BY <1>3 DEF Ends
  <2>2. (p + 1) - 1 = p
    OBVIOUS
  <2>3. ASSUME NEW r \in 1 .. p
        PROVE  (\A s \in r .. p : ~Ends(a, s)) <=> r = p \/ \A s \in r .. p - 1 : ~Ends(a, s)
    <3>1. \A s \in r .. p : s = p \/ s \in r .. p - 1
      BY <2>3
    <3>2. \A s \in r .. p - 1 : s \in r .. p
      BY <2>3
    <3>3. r = p => \A s \in r .. p : s = p
      OBVIOUS
    <3> QED BY <1>3, <3>1, <3>2, <3>3
  <2>4. \A r : r \in 1 .. p <=> r \in 1 .. p - 1 \/ r = p
    OBVIOUS
  <2>5. Pending(a, p + 1) =
          {r \in 1 .. p : (a[r] # Space \/ Quoted(a, r)) /\ \A s \in r .. p : ~Ends(a, s)}
    BY <2>2 DEF Pending
  <2>6. ASSUME NEW r PROVE r \in Pending(a, p + 1) <=> r \in Pending(a, p) \cup {p}
    <3>1. CASE r = p
      BY <2>1, <2>3, <2>4, <2>5, <3>1
    <3>2. CASE r # p
      BY <2>3, <2>4, <2>5, <3>2, Zenon DEF Pending
    <3> QED BY <3>1, <3>2
  <2> QED BY <2>6
<1>4. \A r : r \in 1 .. p - 1 => r \in DOMAIN a /\ r <= p
  BY <1>1
<1>5. Pending(a, p) \subseteq Span(a, p)
  BY <1>4 DEF Pending, Span
<1>6. ASSUME NEW r \in Span(a, p), r # p PROVE r \in Pending(a, p)
  <2>1. r \in DOMAIN a /\ r <= p
    BY DEF Span
  <2>2. r \in 1 .. p - 1
    BY <1>1, <1>6, <2>1
  <2> QED BY <2>2 DEF Pending, Span
<1>7. ASSUME Ends(a, p), p \in Span(a, p) PROVE p <= Len(a) /\ a[p] = Quote
  <2>1. p \in DOMAIN a /\ (a[p] # Space \/ Quoted(a, p))
    BY <1>7 DEF Span
  <2> QED BY <1>1, <1>7, <2>1 DEF Ends
<1>8. ASSUME p <= Len(a), a[p] = Quote PROVE p \in Span(a, p)
  <2>1. p \in DOMAIN a /\ p .. p - 1 = {} /\ p <= p
    BY <1>1, <1>8
  <2> QED BY <1>8, <2>1, Letters, Zenon DEF Span
<1>9. ASSUME Ends(a, p) PROVE Kept(a, p) = PendingText(a, p)
  BY <1>5, <1>6, <1>7, <1>9 DEF Kept, PendingText
<1>10. ASSUME ~(p <= Len(a) /\ a[p] = Quote), Ends(a, p) PROVE Span(a, p) = Pending(a, p)
  BY <1>5, <1>6, <1>7, <1>10
<1> QED BY <1>2, <1>3, <1>5, <1>8, <1>9, <1>10

\* Sets of positions are finite.
LEMMA Positions ==
  ASSUME NEW a \in Seq(STRING), NEW p
  PROVE  /\ Len(a) \in Nat /\ DOMAIN a = 1 .. Len(a)
         /\ Arguments(a) \in SUBSET (1 .. Len(a) + 1)
         /\ Arguments(a) \in SUBSET Nat /\ IsFiniteSet(Arguments(a))
         /\ Kept(a, p) \in SUBSET Nat /\ IsFiniteSet(Kept(a, p))
<1>1. Len(a) \in Nat /\ DOMAIN a = 1 .. Len(a)
  OBVIOUS
<1>2. IsFiniteSet(1 .. Len(a) + 1) /\ IsFiniteSet(1 .. Len(a))
  BY <1>1, FS_Interval
<1>3. Arguments(a) \in SUBSET (1 .. Len(a) + 1)
  BY DEF Arguments
<1>4. Kept(a, p) \in SUBSET (1 .. Len(a))
  BY <1>1 DEF Kept, Span
<1>5. 1 .. Len(a) \subseteq Nat /\ 1 .. Len(a) + 1 \subseteq Nat
  BY <1>1
<1> QED BY <1>1, <1>2, <1>3, <1>4, <1>5, FS_Subset

\* What is pending is finite, and before p.
LEMMA PendingBefore ==
  ASSUME NEW a \in Seq(STRING), NEW p \in 1 .. Len(a) + 1
  PROVE  /\ PendingText(a, p) \in SUBSET Nat /\ IsFiniteSet(PendingText(a, p))
         /\ \A r \in PendingText(a, p) : r < p /\ r \in 1 .. Len(a)
<1>1. p \in Nat /\ Len(a) \in Nat /\ p <= Len(a) + 1
  OBVIOUS
<1>2. \A r \in 1 .. p - 1 : r < p /\ r \in 1 .. Len(a) /\ r \in Nat
  BY <1>1
<1>3. PendingText(a, p) \in SUBSET (1 .. p - 1)
  BY DEF PendingText, Pending
<1>4. IsFiniteSet(1 .. p - 1)
  BY <1>1, FS_Interval
<1> QED BY <1>2, <1>3, <1>4, FS_Subset

\* The row holds what is pending before p.
Reads(row, a, p) ==
  /\ Len(row) = Cardinality(PendingText(a, p))
  /\ \A r \in PendingText(a, p) : row[Rank(PendingText(a, p), r)] = a[r]

\* The rows are the arguments that end before p, and all of them fit.
Done(a, rows, p) ==
  /\ Len(rows) = Cardinality({q \in Arguments(a) : q < p})
  /\ \A q \in Arguments(a) :
       q < p => q \notin Long(a) /\ Spells(rows[Rank(Arguments(a), q)], a, q)

\* No argument ends behind another's end, and none at a space behind a space.
LEMMA NoArgument ==
  ASSUME NEW a \in Seq(STRING), NEW p \in 1 .. Len(a) + 1,
         p = 1 \/ Ends(a, p - 1), ~Quoted(a, p)
  PROVE  p \notin Arguments(a)
<1> SUFFICES ASSUME p \in Arguments(a) PROVE FALSE
  OBVIOUS
<1>1. Ends(a, p) /\ Span(a, p) # {}
  BY DEF Arguments
<1>2. ~(p <= Len(a) /\ a[p] = Quote)
  <2>1. ASSUME p <= Len(a), a[p] = Quote PROVE FALSE
    <3>1. p # Len(a) + 1
      BY <2>1
    <3> QED BY <1>1, <2>1, <3>1, Letters DEF Ends
  <2> QED BY <2>1
<1>3. Span(a, p) = Pending(a, p) /\ Pending(a, p) = {}
  BY <1>1, <1>2, PendingStep
<1> QED BY <1>1, <1>3

\* Where no argument ends, as many have ended before as behind.
LEMMA DoneStays ==
  ASSUME NEW a \in Seq(STRING), NEW rows, NEW p \in Nat, p \notin Arguments(a)
  PROVE  Done(a, rows, p) <=> Done(a, rows, p + 1)
<1>1. \A q \in Arguments(a) : q < p <=> q < p + 1
  <2>1. \A q \in Arguments(a) : q \in Nat /\ q # p
    BY Positions
  <2> QED BY <2>1
<1>2. {q \in Arguments(a) : q < p} = {q \in Arguments(a) : q < p + 1}
  BY <1>1
<1> QED BY <1>1, <1>2 DEF Done

\* The ranks of the arguments done are rows.
LEMMA DoneRows ==
  ASSUME NEW a \in Seq(STRING), NEW rows, NEW p \in Nat, Done(a, rows, p)
  PROVE  /\ Len(rows) \in Nat
         /\ \A q \in Arguments(a) : q < p => Rank(Arguments(a), q) \in 1 .. Len(rows)
<1>1. Arguments(a) \in SUBSET Nat /\ IsFiniteSet(Arguments(a))
  BY Positions
<1>2. PICK T : T = {q \in Arguments(a) : q < p}
  OBVIOUS
<1>3. /\ T \in SUBSET Nat /\ IsFiniteSet(T)
      /\ \A q \in T : Rank(Arguments(a), q) = Rank(T, q)
  BY <1>1, <1>2, RankPrefix
<1>4. \A q \in T : Rank(T, q) \in 1 .. Cardinality(T)
  BY <1>3, Ranks
<1>5. Cardinality(T) = Len(rows) /\ Cardinality(T) \in Nat
  BY <1>2, <1>3, FS_CardinalityType DEF Done
<1> QED BY <1>2, <1>3, <1>4, <1>5

\* A row more, for the argument that ends at p.
LEMMA DoneGrows ==
  ASSUME NEW a \in Seq(STRING), NEW rows \in Seq(Seq(STRING)), NEW row \in Seq(STRING),
         NEW p \in Arguments(a), p \notin Long(a), Done(a, rows, p), Spells(row, a, p)
  PROVE  Done(a, Append(rows, row), p + 1)
<1> DEFINE E == Arguments(a)
           D(n) == {q \in E : q < n}
<1>1. E \in SUBSET Nat /\ IsFiniteSet(E) /\ p \in Nat
  BY Positions
<1>2. PICK more : more = Append(rows, row)
  OBVIOUS
<1>3. /\ Len(more) = Len(rows) + 1 /\ more[Len(rows) + 1] = row
      /\ \A k \in 1 .. Len(rows) : more[k] = rows[k]
  BY <1>2
<1>4. Cardinality(D(p)) = Len(rows) /\ Len(rows) \in Nat
  BY DEF Done
<1>5. Rank(E, p) = Len(rows) + 1
  BY <1>1, <1>4, Ranks
<1>6. D(p + 1) = {q \in E : q <= p}
  BY <1>1
<1>7. Cardinality(D(p + 1)) = Len(rows) + 1
  BY <1>5, <1>6 DEF Rank
<1>8. ASSUME NEW q \in E, q < p + 1
      PROVE  q \notin Long(a) /\ Spells(more[Rank(E, q)], a, q)
  <2>1. CASE q = p
    BY <1>3, <1>5, <2>1
  <2>2. CASE q < p
    <3>2. Rank(E, q) \in 1 .. Len(rows)
      BY <1>1, <2>2, DoneRows
    <3>3. q \notin Long(a) /\ Spells(rows[Rank(E, q)], a, q)
      BY <2>2 DEF Done
    <3>4. more[Rank(E, q)] = rows[Rank(E, q)]
      BY <1>3, <3>2
    <3> QED BY <3>3, <3>4
  <2>3. q \in Nat
    BY <1>1
  <2> QED BY <1>1, <1>8, <2>1, <2>2, <2>3
<1>9. Done(a, more, p + 1)
  BY <1>3, <1>7, <1>8 DEF Done
<1> QED BY <1>2, <1>9

\* A character more is read, or an opening quote.
LEMMA ReadsMore ==
  ASSUME NEW a \in Seq(STRING), NEW p \in 1 .. Len(a), NEW row \in Seq(STRING),
         Reads(row, a, p), ~Ends(a, p)
  PROVE  /\ a[p] = Quote => Reads(row, a, p + 1)
         /\ a[p] # Quote => Reads(Append(row, a[p]), a, p + 1)
<1>1. p \in 1 .. Len(a) + 1 /\ p \in Nat /\ p <= Len(a)
  OBVIOUS
<1>2. Pending(a, p + 1) = Pending(a, p) \cup {p}
  BY <1>1, PendingStep
<1>3. CASE a[p] = Quote
  <2>1. PendingText(a, p + 1) = PendingText(a, p)
    BY <1>2, <1>3 DEF PendingText
  <2> QED BY <1>3, <2>1 DEF Reads
<1>4. CASE a[p] # Quote
  <2>1. PICK K : K = PendingText(a, p)
    OBVIOUS
  <2>2. PendingText(a, p + 1) = K \cup {p}
    BY <1>2, <1>4, <2>1 DEF PendingText
  <2>3. K \in SUBSET Nat /\ IsFiniteSet(K) /\ \A r \in K : r < p
    BY <1>1, <2>1, PendingBefore
  <2>4. /\ Cardinality(K \cup {p}) = Cardinality(K) + 1
        /\ Rank(K \cup {p}, p) = Cardinality(K) + 1
        /\ \A r \in K : Rank(K \cup {p}, r) = Rank(K, r)
    BY <1>1, <2>3, RankGrows
  <2>5. Len(row) = Cardinality(K) /\ \A r \in K : row[Rank(K, r)] = a[r]
    BY <2>1 DEF Reads
  <2>6. PICK more : more = Append(row, a[p])
    OBVIOUS
  <2>7. /\ Len(more) = Len(row) + 1 /\ more[Len(row) + 1] = a[p]
        /\ \A k \in 1 .. Len(row) : more[k] = row[k]
    BY <2>6
  <2>8. ASSUME NEW r \in K \cup {p} PROVE more[Rank(K \cup {p}, r)] = a[r]
    <3>1. CASE r = p
      BY <2>4, <2>5, <2>7, <3>1
    <3>2. CASE r \in K
      <4>1. Rank(K, r) \in 1 .. Len(row)
        BY <2>3, <2>5, <3>2, Ranks
      <4> QED BY <2>4, <2>5, <2>7, <3>2, <4>1
    <3> QED BY <3>1, <3>2
  <2>9. Reads(more, a, p + 1)
    BY <2>2, <2>4, <2>5, <2>7, <2>8 DEF Reads
  <2> QED BY <1>4, <2>6, <2>9
<1> QED BY <1>3, <1>4

\* An argument that fits has been read when it ends.
LEMMA ReadsAll ==
  ASSUME NEW a \in Seq(STRING), NEW p \in 1 .. Len(a) + 1, NEW row,
         Reads(row, a, p), Ends(a, p), Len(row) < MAX_ARG_LENGTH
  PROVE  p \notin Long(a) /\ Spells(row, a, p)
<1>1. Kept(a, p) = PendingText(a, p)
  BY PendingStep
<1>2. Cardinality(Kept(a, p)) = Len(row) /\ Cardinality(Kept(a, p)) \in Nat
  BY <1>1, Positions, FS_CardinalityType DEF Reads
<1>3. p \notin Long(a)
  BY <1>2, Limits DEF Long
<1> QED BY <1>1, <1>2, <1>3, Zenon DEF Reads, Spells

-----------------------------------------------------------------------------
\* The arguments before the first that is too long are in their rows.
Over(a, rows, l) ==
  /\ l \in Long(a) /\ \A q \in Long(a) : l <= q
  /\ \A q \in Arguments(a) :
       q < l => /\ Rank(Arguments(a), q) \in 1 .. Len(rows)
                /\ Spells(rows[Rank(Arguments(a), q)], a, q)

\* A character that finds its row full belongs to the first argument that is too
\* long, and the row holds what fits of it.
LEMMA FullRow ==
  ASSUME NEW a \in Seq(STRING), NEW p \in 1 .. Len(a), NEW row, NEW rows,
         Reads(row, a, p), Len(row) = MAX_ARG_LENGTH - 1, Done(a, rows, p),
         ~Ends(a, p), a[p] # Quote
  PROVE  \E l : /\ Over(a, rows, l) /\ Rank(Arguments(a), l) = Len(rows) + 1
                /\ Spells(row, a, l)
<1>1. Len(a) \in Nat /\ p \in Nat /\ p <= Len(a) /\ p \in 1 .. Len(a) + 1 /\ DOMAIN a = 1 .. Len(a)
  BY Positions
<1>2. PICK l \in p .. Len(a) + 1 : Ends(a, l) /\ \A q \in p .. Len(a) + 1 : Ends(a, q) => l <= q
  <2> DEFINE S == {q \in p .. Len(a) + 1 : Ends(a, q)}
  <2>1. S \subseteq Nat /\ Len(a) + 1 \in S
    BY <1>1 DEF Ends
  <2>2. PICK l \in S : \A q \in S : l <= q
    <3> HIDE DEF S
    <3> QED BY <2>1, Least
  <2> QED BY <2>2
<1>3. l \in Nat /\ p < l /\ l \in 1 .. Len(a) + 1
  <2>1. l # p
    BY <1>2
  <2> QED BY <1>1, <1>2, <2>1
<1>4. \A s \in p .. l - 1 : ~Ends(a, s)
  BY <1>1, <1>2, <1>3
<1>5. PICK K : K = PendingText(a, p)
  OBVIOUS
<1>6. PICK S : S = Kept(a, l)
  OBVIOUS
<1>7. K \in SUBSET Nat /\ IsFiniteSet(K) /\ (\A r \in K : r < p /\ r \in 1 .. Len(a))
      /\ S \in SUBSET Nat /\ IsFiniteSet(S)
  BY <1>1, <1>5, <1>6, PendingBefore, Positions
<1>8. p \in S
  <2>1. p \in Span(a, l)
    <3>1. a[p] # Space \/ Quoted(a, p)
      BY DEF Ends
    <3> QED BY <1>1, <1>3, <1>4, <3>1 DEF Span
  <2> QED BY <1>6, <2>1 DEF Kept
<1>9. K = {q \in S : q < p}
  <2>1. ASSUME NEW r \in K PROVE r \in S
    <3>1. r \in Pending(a, p) /\ a[r] # Quote
      BY <1>5 DEF PendingText
    <3>2. (a[r] # Space \/ Quoted(a, r)) /\ \A s \in r .. p - 1 : ~Ends(a, s)
      BY <3>1 DEF Pending
    <3>3. \A s \in r .. l - 1 : s \in r .. p - 1 \/ s \in p .. l - 1
      BY <1>1, <1>3, <1>7
    <3>4. r \in DOMAIN a /\ r <= l
      BY <1>1, <1>3, <1>7
    <3> QED BY <1>4, <1>6, <3>1, <3>2, <3>3, <3>4 DEF Kept, Span
  <2>2. ASSUME NEW r \in S, r < p PROVE r \in K
    <3>1. /\ r \in DOMAIN a /\ a[r] # Quote /\ (a[r] # Space \/ Quoted(a, r))
          /\ \A s \in r .. l - 1 : ~Ends(a, s)
      BY <1>6 DEF Kept, Span
    <3>2. r \in 1 .. p - 1 /\ \A s \in r .. p - 1 : s \in r .. l - 1
      BY <1>1, <1>3, <2>2, <3>1
    <3> QED BY <1>5, <3>1, <3>2 DEF PendingText, Pending
  <2> QED BY <1>7, <2>1, <2>2
<1>10. Cardinality(K) = MAX_ARG_LENGTH - 1 /\ \A r \in K : row[Rank(K, r)] = a[r]
  BY <1>5 DEF Reads
<1>11. Cardinality(S) >= MAX_ARG_LENGTH
  <2>1. Rank(S, p) = Cardinality({q \in S : q < p}) + 1 /\ Rank(S, p) \in 1 .. Cardinality(S)
    BY <1>7, <1>8, Ranks
  <2>2. Cardinality(S) \in Nat
    BY <1>7, FS_CardinalityType
  <2> QED BY <1>9, <1>10, <2>1, <2>2, Limits
<1>12. l \in Arguments(a) /\ l \in Long(a)
  <2>1. Span(a, l) # {}
    BY <1>6, <1>8 DEF Kept
  <2> QED BY <1>2, <1>3, <1>6, <1>11, <2>1 DEF Arguments, Long
<1>13. \A q \in Arguments(a) : q < l => q < p
  <2>1. ASSUME NEW q \in Arguments(a), q < l PROVE q < p
    <3>1. q \in 1 .. Len(a) + 1 /\ Ends(a, q)
      BY DEF Arguments
    <3> QED BY <1>1, <1>3, <1>4, <2>1, <3>1
  <2> QED BY <2>1
<1>14. \A q \in Long(a) : l <= q
  <2>1. ASSUME NEW q \in Long(a) PROVE l <= q
    <3>1. q \in Arguments(a) /\ q \in Nat
      BY Positions DEF Long
    <3>2. ~(q < p)
      BY <3>1 DEF Done
    <3> QED BY <1>3, <1>13, <3>1, <3>2
  <2> QED BY <2>1
<1>15. Over(a, rows, l)
  BY <1>1, <1>12, <1>13, <1>14, DoneRows DEF Over, Done
<1>16. Rank(Arguments(a), l) = Len(rows) + 1
  <2>1. {q \in Arguments(a) : q < l} = {q \in Arguments(a) : q < p}
    <3>1. \A q \in Arguments(a) : q \in Nat
      BY Positions
    <3> QED BY <1>1, <1>3, <1>13, <3>1
  <2>2. Rank(Arguments(a), l) = Cardinality({q \in Arguments(a) : q < l}) + 1
    BY <1>12, Positions, Ranks
  <2> QED BY <2>1, <2>2 DEF Done
<1>17. Spells(row, a, l)
  <2>1. ASSUME NEW r \in S, Rank(S, r) <= Len(row) PROVE row[Rank(S, r)] = a[r]
    <3>1. r \in K
      <4>1. ASSUME r \notin K PROVE FALSE
        <5>1. Rank(S, r) > Cardinality(K)
          BY <1>1, <1>7, <1>9, <4>1, RankPrefix
        <5>2. Rank(S, r) \in Nat
          <6>1. Rank(S, r) \in 1 .. Cardinality(S)
            BY <1>7, <2>1, Ranks
          <6> QED BY <6>1
        <5> QED BY <1>10, <2>1, <5>1, <5>2, Limits
      <4> QED BY <4>1
    <3>2. Rank(S, r) = Rank(K, r)
      BY <1>1, <1>7, <1>9, <3>1, RankPrefix
    <3> QED BY <1>10, <3>1, <3>2
  <2> QED BY <1>6, <1>12, <2>1 DEF Spells
<1> QED BY <1>15, <1>16, <1>17

-----------------------------------------------------------------------------
\* Between two arguments, at position p: the argument that ends there, if any,
\* has its row already, and the next has not begun.
Between(a, rows, p) ==
  /\ Done(a, rows, p + 1)
  /\ p = 1 \/ Ends(a, p - 1) \/ p \in Arguments(a)
  /\ Quoted(a, p) => p = Len(a) + 1

\* Within an argument, of which the row holds what is before p.
Within(a, rows, row, p) ==
  /\ Done(a, rows, p) /\ Reads(row, a, p)
  /\ Pending(a, p) # {} \/ (p <= Len(a) /\ a[p] # Space)

\* Behind an argument, that has ended at p or with the quote before p.
Behind(a, rows, row, p) ==
  /\ \E q \in {p - 1, p} :
       /\ q \in Arguments(a) /\ q \notin Long(a)
       /\ Done(a, rows, q) /\ Spells(row, a, q)
       /\ q # p => ~Quoted(a, p)
  /\ Quoted(a, p) => p = Len(a) + 1

Synced ==
  \/ /\ pc \in {"tokens", "run"} /\ Between(args, argv, i)
     /\ ~inQuotes /\ (warned <=> Quoted(args, i))
     /\ pc = "run" => i = Len(args) + 1
  \/ /\ pc = "token" /\ Within(args, argv, token, i)
     /\ (inQuotes <=> Quoted(args, i)) /\ ~warned
  \/ /\ pc = "ended" /\ Behind(args, argv, token, i)
     /\ (inQuotes <=> Quoted(args, i)) /\ ~warned

\* The first argument that is too long has its row, or will have the token.
Overrun ==
  \E l : /\ Over(args, argv, l)
         /\ \/ /\ Rank(Arguments(args), l) \in 1 .. Len(argv)
               /\ Spells(argv[Rank(Arguments(args), l)], args, l)
            \/ /\ pc \in {"token", "skip", "ended"}
               /\ Rank(Arguments(args), l) = Len(argv) + 1
               /\ Spells(token, args, l)

ParseInv ==
  /\ \A k \in DOMAIN args : args[k] # NULL
  /\ pc \in {"tokens", "token", "ended", "skip", "run"} => Synced \/ Overrun

\* Between arguments: a space is passed over.
LEMMA BetweenSpace ==
  ASSUME NEW a \in Seq(STRING), NEW rows, NEW p \in 1 .. Len(a), a[p] = Space,
         Between(a, rows, p)
  PROVE  Between(a, rows, p + 1) /\ ~Quoted(a, p + 1) /\ ~Quoted(a, p)
<1>1. ~Quoted(a, p) /\ Len(a) \in Nat
  <2>1. p # Len(a) + 1
    OBVIOUS
  <2> QED BY <2>1 DEF Between
<1>2. ~Quoted(a, p + 1)
  BY <1>1, QuotedStep, Letters
<1>3. Ends(a, p) /\ (p + 1) - 1 = p /\ p + 1 \in 1 .. Len(a) + 1 /\ p + 1 \in Nat
  BY <1>1 DEF Ends
<1>4. p + 1 \notin Arguments(a)
  BY <1>2, <1>3, NoArgument
<1>5. Done(a, rows, (p + 1) + 1)
  BY <1>3, <1>4, DoneStays DEF Between
<1> QED BY <1>1, <1>2, <1>3, <1>5 DEF Between

\* Between arguments: another character begins one.
LEMMA BetweenStarts ==
  ASSUME NEW a \in Seq(STRING), NEW rows, NEW p \in 1 .. Len(a), a[p] # Space,
         Between(a, rows, p)
  PROVE  Within(a, rows, <<>>, p) /\ ~Quoted(a, p)
<1>1. ~Quoted(a, p) /\ p # Len(a) + 1 /\ p \in 1 .. Len(a) + 1 /\ p \in Nat /\ p <= Len(a)
  BY DEF Between
<1>2. ~Ends(a, p)
  BY <1>1 DEF Ends
<1>3. p \notin Arguments(a)
  BY <1>2 DEF Arguments
<1>4. Done(a, rows, p)
  BY <1>1, <1>3, DoneStays DEF Between
<1>5. Pending(a, p) = {}
  BY <1>1, <1>3, PendingStep DEF Between
<1>6. Reads(<<>>, a, p)
  <2>1. PendingText(a, p) = {}
    BY <1>5 DEF PendingText
  <2> QED BY <2>1, FS_EmptySet DEF Reads
<1> QED BY <1>1, <1>4, <1>6 DEF Within

\* Within an argument: a character that does not end it.
LEMMA WithinGoesOn ==
  ASSUME NEW a \in Seq(STRING), NEW rows, NEW row \in Seq(STRING), NEW p \in 1 .. Len(a),
         Within(a, rows, row, p), ~Ends(a, p)
  PROVE  /\ a[p] = Quote => Within(a, rows, row, p + 1)
         /\ a[p] # Quote => Within(a, rows, Append(row, a[p]), p + 1)
<1>1. p \in 1 .. Len(a) + 1 /\ p \in Nat /\ p <= Len(a)
  OBVIOUS
<1>2. Pending(a, p + 1) # {}
  <2>1. Pending(a, p + 1) = Pending(a, p) \cup {p}
    BY <1>1, PendingStep
  <2> QED BY <2>1
<1>3. Done(a, rows, p + 1)
  BY <1>1, DoneStays DEF Within, Arguments
<1> QED BY <1>2, <1>3, ReadsMore DEF Within

\* Within an argument: a quote that closes ends it.
LEMMA WithinCloses ==
  ASSUME NEW a \in Seq(STRING), NEW rows, NEW row \in Seq(STRING), NEW p \in 1 .. Len(a),
         Within(a, rows, row, p), a[p] = Quote, Quoted(a, p), Len(row) < MAX_ARG_LENGTH
  PROVE  Behind(a, rows, row, p + 1) /\ ~Quoted(a, p + 1)
<1>1. p \in 1 .. Len(a) + 1 /\ (p + 1) - 1 = p /\ p <= Len(a) /\ Ends(a, p)
  BY DEF Ends
<1>2. ~Quoted(a, p + 1)
  BY QuotedStep
<1>3. p \in Arguments(a)
  BY <1>1, PendingStep DEF Arguments
<1>4. p \notin Long(a) /\ Spells(row, a, p)
  BY <1>1, ReadsAll DEF Within
<1> QED BY <1>1, <1>2, <1>3, <1>4 DEF Behind, Within

\* Within an argument: the line or a space ends it.
LEMMA WithinEnds ==
  ASSUME NEW a \in Seq(STRING), NEW rows, NEW row \in Seq(STRING), NEW p \in 1 .. Len(a) + 1,
         Within(a, rows, row, p), Len(row) < MAX_ARG_LENGTH,
         p = Len(a) + 1 \/ (a[p] = Space /\ ~Quoted(a, p))
  PROVE  Behind(a, rows, row, p)
<1>1. Ends(a, p) /\ Len(a) \in Nat /\ (Quoted(a, p) => p = Len(a) + 1)
  BY DEF Ends
<1>2. ~(p <= Len(a) /\ a[p] = Quote)
  <2>1. CASE p = Len(a) + 1
    BY <1>1, <2>1
  <2>2. CASE a[p] = Space
    BY <2>2, Letters
  <2> QED BY <2>1, <2>2
<1>3. Pending(a, p) # {}
  <2>1. ~(p <= Len(a) /\ a[p] # Space)
    <3>1. CASE p = Len(a) + 1
      BY <1>1, <3>1
    <3>2. CASE a[p] = Space
      BY <3>2
    <3> QED BY <3>1, <3>2
  <2> QED BY <2>1 DEF Within
<1>4. p \in Arguments(a)
  BY <1>1, <1>2, <1>3, PendingStep DEF Arguments
<1>5. p \notin Long(a) /\ Spells(row, a, p)
  BY <1>1, ReadsAll DEF Within
<1> QED BY <1>1, <1>4, <1>5 DEF Behind, Within

\* Behind an argument: it gets its row.
LEMMA BehindEnds ==
  ASSUME NEW a \in Seq(STRING), NEW rows \in Seq(Seq(STRING)), NEW row \in Seq(STRING),
         NEW p \in 1 .. Len(a) + 1, Behind(a, rows, row, p)
  PROVE  Between(a, Append(rows, row), p)
<1>1. PICK q \in {p - 1, p} :
        /\ q \in Arguments(a) /\ q \notin Long(a)
        /\ Done(a, rows, q) /\ Spells(row, a, q)
        /\ q # p => ~Quoted(a, p)
  BY DEF Behind
<1>2. PICK more : more = Append(rows, row)
  OBVIOUS
<1>3. Done(a, more, q + 1)
  BY <1>1, <1>2, DoneGrows
<1>4. CASE q = p
  BY <1>1, <1>2, <1>3, <1>4 DEF Between, Behind
<1>5. CASE q # p
  <2>1. q = p - 1 /\ q + 1 = p /\ p \in Nat
    BY <1>1, <1>5
  <2>2. Ends(a, p - 1)
    BY <1>1, <2>1 DEF Arguments
  <2>3. p \notin Arguments(a)
    BY <1>1, <1>5, <2>2, NoArgument
  <2>4. Done(a, more, p + 1)
    BY <1>3, <2>1, <2>3, DoneStays
  <2> QED BY <1>2, <2>2, <2>4 DEF Between, Behind
<1> QED BY <1>4, <1>5

-----------------------------------------------------------------------------
\* Where a line has no character 0, that character is behind its end.
LEMMA CharMeans ==
  ASSUME TypeOK, ParseInv
  PROVE  /\ args \in Seq(STRING) /\ Len(args) \in Nat /\ i \in 1 .. Len(args) + 1 /\ i \in Nat
         /\ (Char = NULL) <=> (i = Len(args) + 1)
         /\ (Char # NULL) <=> (i \in 1 .. Len(args))
         /\ (Char # NULL) => (Char = args[i])
         /\ token \in Seq(STRING) /\ Len(token) < MAX_ARG_LENGTH
         /\ argv \in Seq(Seq(STRING)) /\ Len(argv) \in Nat
<1>1. args \in Seq(STRING) /\ Len(args) \in Nat /\ i \in 1 .. Len(args) + 1
      /\ token \in Seq(STRING) /\ Len(token) < MAX_ARG_LENGTH
      /\ argv \in Seq(Seq(STRING)) /\ DOMAIN args = 1 .. Len(args)
  BY DEF TypeOK
<1>2. i = Len(args) + 1 <=> i \notin 1 .. Len(args)
  BY <1>1
<1>3. ASSUME i \in 1 .. Len(args) PROVE Char = args[i] /\ Char # NULL
  BY <1>1, <1>3 DEF Char, ParseInv
<1>4. ASSUME i \notin 1 .. Len(args) PROVE Char = NULL
  BY <1>1, <1>4 DEF Char
<1>5. i \in Nat /\ Len(argv) \in Nat
  BY <1>1
<1>6. /\ (Char = NULL) <=> (i = Len(args) + 1)
      /\ (Char # NULL) <=> (i \in 1 .. Len(args))
      /\ (Char # NULL) => (Char = args[i])
  BY <1>2, <1>3, <1>4
<1> QED BY <1>1, <1>5, <1>6

\* Between arguments, parsing and meaning stay together.
LEMMA BetweenSynced ==
  ASSUME TypeOK, ParseInv, Synced, SkipSpace \/ AllRead \/ StartToken, pc' # "idle"
  PROVE  Synced'
<1>1. /\ pc = "tokens" /\ Between(args, argv, i) /\ ~inQuotes
      /\ (warned <=> Quoted(args, i))
      /\ args' = args /\ argv' = argv /\ warned' = warned
  BY DEF Synced, SkipSpace, AllRead, StartToken, Parse, Strays
<1>2. CASE SkipSpace
  <2>1. i \in 1 .. Len(args) /\ args[i] = Space
    BY <1>2, CharMeans, Letters DEF SkipSpace
  <2>2. Between(args, argv, i + 1) /\ ~Quoted(args, i + 1) /\ ~Quoted(args, i)
    BY <1>1, <2>1, CharMeans, BetweenSpace
  <2>3. pc' = "tokens" /\ i' = i + 1 /\ inQuotes' = inQuotes
    BY <1>2 DEF SkipSpace, Parse
  <2>4. Between(args, argv, i)' /\ (warned <=> Quoted(args, i))'
    BY <1>1, <2>2, <2>3
  <2> QED BY <1>1, <2>3, <2>4 DEF Synced
<1>3. CASE AllRead
  <2>1. i = Len(args) + 1 /\ pc' = "run" /\ i' = i /\ inQuotes' = inQuotes
    BY <1>3, CharMeans DEF AllRead, Parse
  <2>2. Between(args, argv, i)' /\ (warned <=> Quoted(args, i))' /\ i' = Len(args') + 1
    BY <1>1, <2>1
  <2> QED BY <1>1, <2>1, <2>2 DEF Synced
<1>4. CASE StartToken
  <2>1. /\ Char \notin {Space, NULL} /\ pc' = "token" /\ i' = i /\ inQuotes' = inQuotes
        /\ token' = <<>>
    BY <1>4 DEF StartToken, Parse, Strays
  <2>2. i \in 1 .. Len(args) /\ args[i] # Space
    BY <2>1, CharMeans
  <2>3. Within(args, argv, <<>>, i) /\ ~Quoted(args, i)
    BY <1>1, <2>2, CharMeans, BetweenStarts
  <2>4. Within(args, argv, token, i)' /\ (inQuotes <=> Quoted(args, i))' /\ ~warned'
    BY <1>1, <2>1, <2>3
  <2> QED BY <1>1, <2>1, <2>4 DEF Synced
<1> QED BY <1>2, <1>3, <1>4

\* Within an argument too, until its row is full.
LEMMA WithinSynced ==
  ASSUME TypeOK, ParseInv, Synced, TakeQuote \/ ReachEnd \/ TakeChar
  PROVE  Synced'
<1>1. /\ pc = "token" /\ Within(args, argv, token, i) /\ ~warned
      /\ (inQuotes <=> Quoted(args, i))
      /\ args' = args /\ argv' = argv /\ warned' = warned
  BY DEF Synced, TakeQuote, ReachEnd, TakeChar, Parse
<1>2. inQuotes \in BOOLEAN /\ warned \in BOOLEAN
  BY DEF TypeOK
<1>3. CASE TakeQuote
  <2>1. i \in 1 .. Len(args) /\ args[i] = Quote
    BY <1>3, CharMeans, Letters DEF TakeQuote
  <2>2. /\ i' = i + 1 /\ inQuotes' = ~inQuotes /\ token' = token
        /\ pc' = IF inQuotes THEN "ended" ELSE "token"
    BY <1>3 DEF TakeQuote, Parse
  <2>3. CASE inQuotes
    <3>1. Behind(args, argv, token, i + 1) /\ ~Quoted(args, i + 1)
      BY <1>1, <2>1, <2>3, CharMeans, WithinCloses
    <3>2. pc' = "ended" /\ ~inQuotes'
      BY <2>2, <2>3
    <3>3. Behind(args, argv, token, i)' /\ ~Quoted(args, i)'
      BY <1>1, <2>2, <3>1
    <3> QED BY <1>1, <3>2, <3>3 DEF Synced
  <2>4. CASE ~inQuotes
    <3>1. ~Ends(args, i)
      <4>1. i # Len(args) + 1
        BY <2>1, CharMeans
      <4> QED BY <1>1, <2>1, <2>4, <4>1, Letters DEF Ends
    <3>2. Within(args, argv, token, i + 1) /\ Quoted(args, i + 1)
      BY <1>1, <2>1, <2>4, <3>1, CharMeans, WithinGoesOn, QuotedStep
    <3>3. pc' = "token" /\ inQuotes'
      BY <2>2, <2>4
    <3>4. Within(args, argv, token, i)' /\ Quoted(args, i)'
      BY <1>1, <2>2, <3>2
    <3> QED BY <1>1, <3>3, <3>4 DEF Synced
  <2> QED BY <2>3, <2>4
<1>4. CASE ReachEnd
  <2>1. i = Len(args) + 1 \/ (args[i] = Space /\ ~Quoted(args, i))
    <3>1. Char = NULL \/ (Char = Space /\ ~inQuotes)
      BY <1>4 DEF ReachEnd, Separates
    <3> QED BY <1>1, <3>1, CharMeans
  <2>2. Behind(args, argv, token, i)
    BY <1>1, <2>1, CharMeans, WithinEnds
  <2>3. pc' = "ended" /\ i' = i /\ token' = token /\ inQuotes' = inQuotes
    BY <1>4 DEF ReachEnd, Parse
  <2>4. Behind(args, argv, token, i)' /\ (inQuotes <=> Quoted(args, i))'
    BY <1>1, <2>2, <2>3
  <2> QED BY <1>1, <2>3, <2>4 DEF Synced
<1>5. CASE TakeChar
  <2>1. i \in 1 .. Len(args) /\ args[i] = Char /\ Char # Quote /\ ~(Char = Space /\ ~inQuotes)
    BY <1>5, CharMeans DEF TakeChar, IsText, Separates
  <2>2. ~Ends(args, i)
    <3>1. i # Len(args) + 1
      BY <2>1, CharMeans
    <3> QED BY <1>1, <2>1, <3>1 DEF Ends
  <2>3. Within(args, argv, Append(token, Char), i + 1) /\ (Quoted(args, i + 1) <=> Quoted(args, i))
    BY <1>1, <2>1, <2>2, CharMeans, WithinGoesOn, QuotedStep
  <2>4. i' = i + 1 /\ token' = Append(token, Char) /\ pc' = "token" /\ inQuotes' = inQuotes
    BY <1>5 DEF TakeChar, Parse
  <2>5. Within(args, argv, token, i)' /\ (inQuotes <=> Quoted(args, i))'
    BY <1>1, <2>3, <2>4
  <2> QED BY <1>1, <2>4, <2>5 DEF Synced
<1> QED BY <1>3, <1>4, <1>5

\* Where the row is full they part.
LEMMA FullOverruns ==
  ASSUME TypeOK, ParseInv, Synced, TakeNoMore
  PROVE  Overrun'
<1>1. /\ pc = "token" /\ Within(args, argv, token, i) /\ (inQuotes <=> Quoted(args, i))
      /\ args' = args /\ argv' = argv /\ token' = token /\ pc' = "skip"
  BY DEF Synced, TakeNoMore, Parse
<1>2. i \in 1 .. Len(args) /\ args[i] = Char /\ Char # Quote /\ ~(Char = Space /\ ~inQuotes)
  BY CharMeans DEF TakeNoMore, IsText, Separates
<1>3. Len(token) = MAX_ARG_LENGTH - 1
  BY CharMeans, Limits DEF TakeNoMore
<1>4. ~Ends(args, i)
  <2>1. i # Len(args) + 1
    BY <1>2, CharMeans
  <2> QED BY <1>1, <1>2, <2>1 DEF Ends
<1>5. PICK l : /\ Over(args, argv, l) /\ Rank(Arguments(args), l) = Len(argv) + 1
               /\ Spells(token, args, l)
  BY <1>1, <1>2, <1>3, <1>4, CharMeans, FullRow DEF Within
<1>6. /\ Over(args, argv, l)' /\ (Rank(Arguments(args), l) = Len(argv) + 1)'
      /\ Spells(token, args, l)'
  BY <1>1, <1>5
<1> QED BY <1>1, <1>6 DEF Overrun

\* The end of an argument.
LEMMA EndSynced ==
  ASSUME TypeOK, ParseInv, Synced, EndToken
  PROVE  Synced'
<1>1. /\ Behind(args, argv, token, i) /\ (inQuotes <=> Quoted(args, i)) /\ ~warned
      /\ args' = args /\ i' = i /\ argv' = Append(argv, token) /\ pc' = "tokens"
      /\ inQuotes' = FALSE /\ warned' = (warned \/ inQuotes)
  BY DEF Synced, EndToken
<1>2. Between(args, Append(argv, token), i)
  BY <1>1, CharMeans, BehindEnds
<1>3. Between(args, argv, i)' /\ ~inQuotes'
  BY <1>1, <1>2
<1>4. warned' <=> Quoted(args, i)'
  BY <1>1
<1> QED BY <1>1, <1>3, <1>4 DEF Synced

\* Nothing changes the rows up to that of the argument that is too long, nor
\* the token before it becomes that row.
LEMMA OverrunStays ==
  ASSUME TypeOK, ParseInv, Overrun, SkipSpace \/ AllRead \/ StartToken \/ TakeQuote \/ ReachEnd
           \/ TakeChar \/ TakeNoMore \/ SkipEnds \/ SkipQuote \/ SkipChar, pc' # "idle"
  PROVE  Overrun'
<1>1. PICK l :
         /\ Over(args, argv, l)
         /\ \/ /\ Rank(Arguments(args), l) \in 1 .. Len(argv)
               /\ Spells(argv[Rank(Arguments(args), l)], args, l)
            \/ /\ pc \in {"token", "skip", "ended"}
               /\ Rank(Arguments(args), l) = Len(argv) + 1
               /\ Spells(token, args, l)
  BY DEF Overrun
<1>2. args' = args /\ argv' = argv
  BY DEF SkipSpace, AllRead, StartToken, TakeQuote, ReachEnd, TakeChar, TakeNoMore,
         SkipEnds, SkipQuote, SkipChar, Parse, Strays
<1>3. Over(args, argv, l)'
  BY <1>1, <1>2
<1>4. CASE /\ Rank(Arguments(args), l) \in 1 .. Len(argv)
           /\ Spells(argv[Rank(Arguments(args), l)], args, l)
  <2>1. (Rank(Arguments(args), l) \in 1 .. Len(argv)
           /\ Spells(argv[Rank(Arguments(args), l)], args, l))'
    BY <1>2, <1>4
  <2> QED BY <1>3, <2>1 DEF Overrun
<1>5. CASE /\ pc \in {"token", "skip", "ended"}
           /\ Rank(Arguments(args), l) = Len(argv) + 1
           /\ Spells(token, args, l)
  <2>1. Len(token) = MAX_ARG_LENGTH - 1
    BY <1>1, <1>5 DEF Over, Spells
  <2>2. token' = token /\ pc' \in {"token", "skip", "ended"}
    <3>1. ~TakeChar
      BY <2>1 DEF TakeChar
    <3> QED BY <1>5, <3>1 DEF SkipSpace, AllRead, StartToken, TakeQuote, ReachEnd, TakeNoMore,
                              SkipEnds, SkipQuote, SkipChar, Parse
  <2>3. (Rank(Arguments(args), l) = Len(argv) + 1 /\ Spells(token, args, l))'
    BY <1>2, <1>5, <2>2
  <2> QED BY <1>3, <2>2, <2>3 DEF Overrun
<1> QED BY <1>1, <1>4, <1>5

\* The row is there from then on.
LEMMA OverrunEnds ==
  ASSUME TypeOK, ParseInv, Overrun, EndToken
  PROVE  Overrun'
<1>1. PICK l :
         /\ Over(args, argv, l)
         /\ \/ /\ Rank(Arguments(args), l) \in 1 .. Len(argv)
               /\ Spells(argv[Rank(Arguments(args), l)], args, l)
            \/ /\ pc \in {"token", "skip", "ended"}
               /\ Rank(Arguments(args), l) = Len(argv) + 1
               /\ Spells(token, args, l)
  BY DEF Overrun
<1>2. PICK a, rows, more : a = args /\ rows = argv /\ more = Append(argv, token)
  OBVIOUS
<1>3. /\ Len(more) = Len(rows) + 1 /\ more[Len(rows) + 1] = token /\ Len(rows) \in Nat
      /\ \A k \in 1 .. Len(rows) : more[k] = rows[k] /\ k \in 1 .. Len(more)
  BY <1>2, CharMeans
<1>4. args' = a /\ argv' = more
  BY <1>2 DEF EndToken
<1>5. Over(a, more, l)
  BY <1>1, <1>2, <1>3 DEF Over
<1>6. Rank(Arguments(a), l) \in 1 .. Len(more) /\ Spells(more[Rank(Arguments(a), l)], a, l)
  <2>1. CASE Rank(Arguments(a), l) \in 1 .. Len(rows) /\ Spells(rows[Rank(Arguments(a), l)], a, l)
    BY <1>3, <2>1
  <2>2. CASE Rank(Arguments(a), l) = Len(rows) + 1 /\ Spells(token, a, l)
    BY <1>3, <2>2
  <2> QED BY <1>1, <1>2, <2>1, <2>2
<1>7. /\ Over(args, argv, l)'
      /\ (Rank(Arguments(args), l) \in 1 .. Len(argv)
           /\ Spells(argv[Rank(Arguments(args), l)], args, l))'
  BY <1>4, <1>5, <1>6
<1> QED BY <1>7 DEF Overrun

\* A line that has been cut: nothing is read yet and no row written.
LEMMA CutSynced ==
  ASSUME TypeOK, ParseInv, NEW line \in Lines, Cut(line)
  PROVE  ParseInv'
<1>1. PICK n \in 0 .. Len(line), k \in 0 .. Len(line) :
        /\ n + k <= Len(line)
        /\ \/ Strays
           \/ /\ args' = SubSeq(line, n + k + 1, Len(line))
              /\ argv' = <<>> /\ i' = 1
              /\ inQuotes' = FALSE /\ warned' = FALSE
              /\ pc' = "tokens"
  BY DEF Cut, Splits
<1>2. CASE Strays
  <2>1. pc' = "idle" /\ args' = args
    BY <1>2 DEF Strays, parsing
  <2>2. \A r \in DOMAIN args : args[r] # NULL
    BY DEF ParseInv
  <2> QED BY <2>1, <2>2 DEF ParseInv
<1>3. CASE /\ args' = SubSeq(line, n + k + 1, Len(line))
           /\ argv' = <<>> /\ i' = 1
           /\ inQuotes' = FALSE /\ warned' = FALSE
           /\ pc' = "tokens"
  <2>1. line \in Seq(STRING) /\ \A r \in DOMAIN line : line[r] # NULL
    BY Limits
  <2>2. PICK a : a = SubSeq(line, n + k + 1, Len(line))
    OBVIOUS
  <2>3. /\ a \in Seq(STRING) /\ Len(a) = Len(line) - n - k
        /\ \A r \in 1 .. Len(a) : a[r] = line[n + k + r]
    <3>1. n + k + 1 \in 1 .. Len(line) + 1 /\ Len(line) \in n + k .. Len(line)
      BY <1>1, <2>1
    <3> QED BY <2>1, <2>2, <3>1, SubSeqProperties
  <2>4. \A r \in DOMAIN a : a[r] # NULL
    BY <2>1, <2>3
  <2>5. 1 \in 1 .. Len(a) + 1 /\ ~Quoted(a, 1)
    BY <2>3, Positions, QuotedStep
  <2>6. 1 \notin Arguments(a)
    BY <2>3, <2>5, NoArgument
  <2>7. Between(a, <<>>, 1)
    <3>1. \A q \in Arguments(a) : ~(q < 2)
      <4>1. \A q \in Arguments(a) : q \in 1 .. Len(a) + 1 /\ q # 1
        BY <2>3, <2>6, Positions
      <4>2. Len(a) \in Nat
        BY <2>3
      <4> QED BY <4>1, <4>2
    <3>2. {q \in Arguments(a) : q < 1 + 1} = {}
      BY <3>1
    <3>3. Done(a, <<>>, 1 + 1)
      BY <3>1, <3>2, FS_EmptySet, Empty DEF Done
    <3> QED BY <2>5, <3>3 DEF Between
  <2>8. args' = a /\ argv' = <<>> /\ i' = 1 /\ ~inQuotes' /\ ~warned' /\ pc' = "tokens"
    BY <1>3, <2>2
  <2>9. Between(args, argv, i)' /\ ~Quoted(args, i)'
    BY <2>5, <2>7, <2>8
  <2>10. (\A r \in DOMAIN args : args[r] # NULL)'
    BY <2>4, <2>8
  <2> QED BY <2>8, <2>9, <2>10 DEF Synced, ParseInv
<1> QED BY <1>1, <1>2, <1>3

\* Once a command runs, nothing is said of its line any more.
LEMMA RunParse ==
  ASSUME TypeOK, ParseInv, Run \/ (\E n \in Numbers : StartNumber(n)) \/ PutDigit \/ EndNumber
           \/ Printed
  PROVE  ParseInv'
<1>1. pc' \in {"idle", "digits", "printed"} /\ (args' = args \/ args' = <<>>)
  BY DEF Run, StartNumber, PutDigit, EndNumber, Printed, Strays, parsing
<1>2. (\A k \in DOMAIN args : args[k] # NULL)'
  BY <1>1, Empty DEF ParseInv
<1> QED BY <1>1, <1>2 DEF ParseInv

\* Every step leaves parsing and meaning together, or the line overrun.
LEMMA NextParse == TypeOK /\ ParseInv /\ [Next]_vars => ParseInv'
<1> SUFFICES ASSUME TypeOK, ParseInv, [Next]_vars PROVE ParseInv'
  OBVIOUS
<1>1. CASE \E line \in Lines : Cut(line)
  BY <1>1, CutSynced
<1>2. CASE Run \/ (\E n \in Numbers : StartNumber(n)) \/ PutDigit \/ EndNumber \/ Printed
  BY <1>2, RunParse
<1>3. ASSUME SkipSpace \/ AllRead \/ StartToken \/ TakeQuote \/ ReachEnd \/ TakeChar
               \/ TakeNoMore \/ SkipEnds \/ SkipQuote \/ SkipChar \/ EndToken
      PROVE  ParseInv'
  <2>1. args' = args /\ pc \in {"tokens", "token", "ended", "skip"}
    BY <1>3 DEF SkipSpace, AllRead, StartToken, TakeQuote, ReachEnd, TakeChar, TakeNoMore,
                SkipEnds, SkipQuote, SkipChar, EndToken, Parse, Strays, parsing
  <2>2. (\A k \in DOMAIN args : args[k] # NULL)'
    BY <2>1 DEF ParseInv
  <2>3. Synced \/ Overrun
    BY <2>1 DEF ParseInv
  <2>4. CASE pc' = "idle"
    BY <2>2, <2>4 DEF ParseInv
  <2>5. CASE pc' # "idle" /\ Overrun
    <3>1. Overrun'
      BY <1>3, <2>5, OverrunStays, OverrunEnds
    <3> QED BY <2>2, <3>1 DEF ParseInv
  <2>6. CASE pc' # "idle" /\ Synced
    <3>1. pc # "skip"
      BY <2>6 DEF Synced
    <3>2. ~SkipEnds /\ ~SkipQuote /\ ~SkipChar
      BY <3>1 DEF SkipEnds, SkipQuote, SkipChar
    <3>3. Synced' \/ Overrun'
      BY <1>3, <2>6, <3>2, BetweenSynced, WithinSynced, FullOverruns, EndSynced
    <3> QED BY <2>2, <3>3 DEF ParseInv
  <2> QED BY <2>3, <2>4, <2>5, <2>6
<1>4. CASE UNCHANGED vars
  BY <1>4 DEF vars, parsing, ParseInv, Synced, Overrun
<1> QED BY <1>1, <1>2, <1>3, <1>4 DEF Next, Turn

\* Where the line is read to its end without an argument that is too long,
\* every argument has its row, and a quote is missing if one was reported.
LEMMA SyncedAgrees ==
  ASSUME TypeOK, Synced, pc = "run"
  PROVE  /\ Long(args) = {} /\ Len(argv) = Cardinality(Arguments(args))
         /\ \A p \in Arguments(args) :
              /\ Rank(Arguments(args), p) \in 1 .. Len(argv)
              /\ Spells(argv[Rank(Arguments(args), p)], args, p)
         /\ warned <=> Quoted(args, Len(args) + 1)
<1>1. PICK a, rows : a = args /\ rows = argv
  OBVIOUS
<1>2. a \in Seq(STRING) /\ Len(a) \in Nat
  BY <1>1 DEF TypeOK
<1>3. /\ Between(a, rows, Len(a) + 1)
      /\ warned <=> Quoted(a, Len(a) + 1)
  BY <1>1 DEF Synced
<1>4. Done(a, rows, Len(a) + 1 + 1) /\ Len(a) + 1 + 1 \in Nat
  BY <1>2, <1>3 DEF Between
<1>5. \A q \in Arguments(a) : q < Len(a) + 1 + 1
  <2>1. \A q \in Arguments(a) : q \in 1 .. Len(a) + 1
    BY <1>2, Positions
  <2> QED BY <1>2, <2>1
<1>6. {q \in Arguments(a) : q < Len(a) + 1 + 1} = Arguments(a)
  BY <1>5
<1>7. Long(a) = {}
  <2>1. \A q \in Long(a) : q \in Arguments(a)
    BY DEF Long
  <2> QED BY <1>4, <1>5, <2>1 DEF Done
<1>8. Len(rows) = Cardinality(Arguments(a))
  BY <1>4, <1>6 DEF Done
<1>9. \A p \in Arguments(a) : Spells(rows[Rank(Arguments(a), p)], a, p)
  BY <1>4, <1>5 DEF Done
<1>10. \A p \in Arguments(a) : Rank(Arguments(a), p) \in 1 .. Len(rows)
  BY <1>2, <1>4, <1>5, DoneRows
<1> QED BY <1>1, <1>3, <1>7, <1>8, <1>9, <1>10

\* Where an argument is too long, it has its row and those before it theirs.
LEMMA OverrunAgrees ==
  ASSUME TypeOK, Overrun, pc = "run"
  PROVE  /\ Long(args) # {}
         /\ \A p \in Arguments(args) :
              (\A l \in Long(args) : p <= l) =>
                /\ Rank(Arguments(args), p) \in 1 .. Len(argv)
                /\ Spells(argv[Rank(Arguments(args), p)], args, p)
<1>1. PICK l : /\ Over(args, argv, l)
               /\ Rank(Arguments(args), l) \in 1 .. Len(argv)
               /\ Spells(argv[Rank(Arguments(args), l)], args, l)
  BY DEF Overrun
<1>2. args \in Seq(STRING)
  BY DEF TypeOK
<1>3. \A q \in Arguments(args) : q \in Nat
  BY <1>2, Positions
<1>4. l \in Long(args) /\ l \in Arguments(args)
  BY <1>1 DEF Over, Long
<1>5. ASSUME NEW p \in Arguments(args), \A m \in Long(args) : p <= m
      PROVE  /\ Rank(Arguments(args), p) \in 1 .. Len(argv)
             /\ Spells(argv[Rank(Arguments(args), p)], args, p)
  <2>1. p < l \/ p = l
    <3>1. p <= l /\ p \in Nat /\ l \in Nat
      BY <1>3, <1>4, <1>5
    <3> QED BY <3>1
  <2> QED BY <1>1, <2>1 DEF Over
<1> QED BY <1>4, <1>5

\* What the run's two properties say of a line follows.
LEMMA ParseAgrees == TypeOK /\ ParseInv => TokensAgree /\ MissingQuoteTold
<1> SUFFICES ASSUME TypeOK, ParseInv, pc = "run"
             PROVE  /\ \A p \in Arguments(args) :
                         (\A l \in Long(args) : p <= l) =>
                           /\ Rank(Arguments(args), p) \in DOMAIN argv
                           /\ Spells(argv[Rank(Arguments(args), p)], args, p)
                    /\ Long(args) = {} => /\ Len(argv) = Cardinality(Arguments(args))
                                          /\ warned = Quoted(args, Len(args) + 1)
  BY DEF TokensAgree, MissingQuoteTold
<1>1. Synced \/ Overrun
  BY DEF ParseInv
<1>2. DOMAIN argv = 1 .. Len(argv) /\ warned \in BOOLEAN
  BY DEF TypeOK
<1>3. CASE Synced
  <2>1. warned = Quoted(args, Len(args) + 1)
    BY <1>2, <1>3, SyncedAgrees, Zenon DEF Quoted
  <2> QED BY <1>2, <1>3, <2>1, SyncedAgrees
<1>4. CASE Overrun
  BY <1>2, <1>4, OverrunAgrees
<1> QED BY <1>1, <1>3, <1>4

\* The invariant of tokenize holds in every reachable state.
THEOREM ParseInductive == Spec => []ParseInv
<1>1. Init => ParseInv
  BY Empty DEF Init, ParseInv
<1> QED BY <1>1, NextParse, ArgumentsFit, PTL DEF Spec

\* For every line: a command is given the arguments its line means, up to the
\* first that is too long, which is cut.
THEOREM TokensAgreeAlways == Spec => []TokensAgree
BY ParseAgrees, ParseInductive, ArgumentsFit, PTL

\* For every line whose arguments fit: a missing quote is reported if and only
\* if one is missing.
THEOREM MissingQuoteToldAlways == Spec => []MissingQuoteTold
BY ParseAgrees, ParseInductive, ArgumentsFit, PTL
=============================================================================
