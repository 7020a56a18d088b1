------------------------------- MODULE Format -------------------------------
(***************************************************************************)
(* vsnprintf of lib/libc/snprintf.c, and the two callers that give it a    *)
(* buffer: kprintf of kern/dev/console.c and panic of kern/panic/panic.c;  *)
(* and the boot loader's bprintf (boot/bio.c), which has no buffer.        *)
(*                                                                         *)
(* A format is a sequence of directives, each with the words the caller    *)
(* passes for it; a literal character is a directive of its own.  What the *)
(* code reads is its own matter: it takes words off the stack, and carries *)
(* flag, width and longflag from one directive to the next wherever it     *)
(* does not reset them.                                                    *)
(***************************************************************************)
EXTENDS Integers, Sequences, SequencesExt

CONSTANTS
  BUFSIZ,      \* the size of the buffer
  WordSize,    \* a word is in 0 .. WordSize - 1
  HexDigits,   \* the digits of a word in hexadecimal
  Memory,      \* the text at each address
  Directives,  \* the directives formats are put together from
  Behind,      \* what may follow a format in memory, and a word the arguments
  Garbage,
  MaxLength    \* bound: directives in a format

VARIABLES
  fmt,         \* the format and its arguments
  caller,      \* "kprintf", "panic" or "bprintf"
  str, result, \* the buffer and the result of vsnprintf
  puts         \* what is given to kputs

vars == <<fmt, caller, str, result, puts>>

Words == 0 .. WordSize - 1
Integral == {"d", "u", "x", "o"}
Numeric == Integral \cup {"p"}

\* %[0][width][l...]conv; "?" is a conversion nobody knows, "end" a % that ends
\* the format, "lit" a character
DirectiveOk(d) ==
  /\ d.conv \in Numeric \cup {"s", "c", "%", "?", "end", "lit"}
  /\ d.zeropad \in BOOLEAN /\ d.width \in Seq(0 .. 9) /\ d.longs \in Nat
  /\ d.args \in Seq(Words)
  /\ Len(d.args) = CASE d.conv \in Integral -> IF d.longs < 2 THEN 1 ELSE 2
                     [] d.conv \in {"p", "s", "c"} -> 1
                     [] OTHER -> 0
  /\ d.conv = "lit" => ~d.zeropad /\ d.width = << >> /\ d.longs = 0

FormatAssumption ==
  /\ BUFSIZ \in Nat \ {0} /\ HexDigits \in Nat /\ WordSize = 16^HexDigits
  /\ \A d \in Directives : DirectiveOk(d)
  /\ \A b \in Behind : \A i \in DOMAIN b : b[i].conv = "lit"
  /\ Garbage \subseteq Words

NUL == "NUL"
Glyph == <<"0", "1", "2", "3", "4", "5", "6", "7", "8", "9", "a", "b", "c", "d", "e", "f">>
Digit(n) == Glyph[n + 1]
Base(conv) == CASE conv = "o" -> 8 [] conv \in {"x", "p"} -> 16 [] OTHER -> 10
Copies(ch, n) == IF n <= 0 THEN << >> ELSE [i \in 1 .. n |-> ch]

\* What %c and %s print of a word, a NULL pointer also
Null == <<"(", "n", "u", "l", "l", ")">>
TextAt(w) == IF w = 0 THEN Null ELSE Memory[w]
Char(w) == IF w = 0 THEN NUL ELSE "c"
Unsigned(ws) == IF Len(ws) = 1 THEN ws[1] ELSE ws[1] + WordSize * ws[2]
Signed(ws) ==
  LET range == WordSize^Len(ws)
  IN  IF Unsigned(ws) < range \div 2 THEN Unsigned(ws) ELSE Unsigned(ws) - range
Abs(n) == IF n < 0 THEN -n ELSE n

\* buf: the digits of the value as they come off, the lowest first
Buf(uval, b) ==
  LET off[u \in 0 .. uval] ==
        IF u = 0 THEN << >> ELSE <<Digit(u % b)>> \o off[u \div b]
  IN  IF uval = 0 THEN <<"0">> ELSE off[uval]

\* flag | FLAG_ZEROPAD is never 0.
ZerosFill(zeropad) == TRUE

\* print_uint, with what the loops leave of a buf that is longer than the width
PrintUint(neg, buf, st) ==
  LET sign == IF neg THEN <<"-">> ELSE << >>
      Fill(ch, b) == Reverse([i \in 1 .. st.width |-> IF i > Len(b) THEN ch ELSE b[i]])
  IN  IF st.width = 0 THEN sign \o Reverse(buf)
      ELSE IF ZerosFill(st.zeropad) THEN sign \o Fill("0", buf)
      ELSE Fill(" ", buf \o sign)

\* Slip: the width is left to the next directive.
ResetFlag(st) == [st EXCEPT !.zeropad = FALSE]
Reset(st) == [st EXCEPT !.zeropad = FALSE, !.width = 0]
Emit(st, text) == [st EXCEPT !.out = @ \o text]
Took(st, n) == [st EXCEPT !.args = SubSeq(@, n + 1, Len(@))]

\* What stands between the % and the conversion adds to what was left before.
Prefixed(st, d) ==
  [st EXCEPT !.zeropad = @ \/ d.zeropad,
             !.width = FoldLeft(LAMBDA w, c : 10 * w + c, @, d.width),
             !.longs = @ + d.longs]

\* A directive: the numbers reset flag, width and longflag, the others that are
\* known flag and width only, an unknown conversion nothing.  A % at the end of
\* the format prints the NUL behind it and goes on there.
Directive(st, d) ==
  LET now == Prefixed(st, d)
      at == IF d.conv = "p" THEN [now EXCEPT !.zeropad = TRUE, !.width = HexDigits, !.longs = 1]
            ELSE now
      n == IF at.longs < 2 THEN 1 ELSE 2
      ws == SubSeq(at.args, 1, n)
      uval == IF d.conv = "d" THEN Abs(Signed(ws)) ELSE Unsigned(ws)
      neg == d.conv = "d" /\ Signed(ws) < 0
      text == TextAt(Head(now.args))
  IN CASE d.conv \in Numeric ->
            [Reset(Took(Emit(at, PrintUint(neg, Buf(uval, Base(d.conv)), at)), n)) EXCEPT !.longs = 0]
       [] d.conv = "c" -> Reset(Took(Emit(now, <<Char(Head(now.args))>>), 1))
       [] d.conv = "s" -> Reset(Took(Emit(now, text \o Copies(" ", now.width - Len(text))), 1))
       [] d.conv = "%" -> Reset(Emit(now, <<"%">>))
       [] d.conv = "?" -> Emit(now, <<"%", "?">>)
       [] d.conv = "end" -> Emit(now, <<"%", NUL>>)
       [] d.conv = "lit" -> Emit(st, <<"z">>)

\* All that the directives of a format print
AllOutput(ds, stack) ==
  FoldLeft(Directive, [out |-> << >>, zeropad |-> FALSE, width |-> 0, longs |-> 0, args |-> stack], ds).out

\* set_ch: store, and end early when the buffer is full.
SetCh(buffer, ch) ==
  IF buffer.full THEN buffer
  ELSE IF buffer.pos + 1 = BUFSIZ
  THEN [str |-> Append(SubSeq(Append(buffer.str, ch), 1, BUFSIZ - 1), NUL), pos |-> BUFSIZ, full |-> TRUE]
  ELSE [str |-> Append(buffer.str, ch), pos |-> buffer.pos + 1, full |-> FALSE]

\* bprintf: no flags, no octal, eight digits for a hexadecimal number, nothing
\* for a conversion it does not know; a text at 0 is read like any other.
Short(d) == ~d.zeropad /\ d.width = << >> /\ d.longs = 0
WriteUint(n, b) ==
  IF b # 16 THEN Reverse(Buf(n, b))
  ELSE Reverse([i \in 1 .. HexDigits |-> IF i > Len(Buf(n, b)) THEN "0" ELSE Buf(n, b)[i]])
Sign(n) == IF n < 0 THEN <<"-">> ELSE << >>
Number(d) == IF d.conv = "d" THEN Signed(d.args) ELSE Unsigned(d.args)
Written(d) ==
  CASE d.conv \in Numeric \ {"o"} -> Sign(Number(d)) \o WriteUint(Abs(Number(d)), Base(d.conv))
    [] d.conv = "s" -> Memory[d.args[1]]
    [] d.conv = "c" -> <<Char(d.args[1])>>
    [] d.conv = "lit" -> <<"z">>
    [] d.conv = "%" -> <<"%">>
    [] OTHER -> << >>

Init ==
  /\ fmt = << >> /\ caller \in {"kprintf", "panic", "bprintf"}
  /\ str = << >> /\ result = -1 /\ puts = << >>

Ended == fmt # << >> /\ Last(fmt).conv = "end"

(* The format is put together before the call.                             *)
AddDirective ==
  /\ result = -1 /\ Len(fmt) < MaxLength /\ ~Ended
  /\ \E d \in Directives :
       /\ caller = "bprintf" => Short(d)
       /\ fmt' = Append(fmt, d)
  /\ UNCHANGED <<caller, str, result, puts>>

\* The directives a function goes through, with what it finds behind the format
Read(behind) == IF Ended THEN fmt \o behind ELSE fmt
Stack(w) == FlattenSeq([i \in DOMAIN fmt |-> fmt[i].args]) \o Copies(w, 2 * Len(fmt))

Vsnprintf ==
  /\ result = -1 /\ caller # "bprintf"
  /\ \E behind \in Behind, w \in Garbage :
       LET all == AllOutput(Read(behind), Stack(w)) \o <<NUL>>
           buffer == FoldLeft(SetCh, [str |-> << >>, pos |-> 0, full |-> FALSE], all)
       IN  /\ str' = buffer.str
           /\ result' = IF buffer.full THEN BUFSIZ ELSE buffer.pos - 1
  /\ UNCHANGED <<fmt, caller, puts>>

(* Characters go out one by one; the count leaves out signs and the zeros  *)
(* put in front of hexadecimal numbers.                                    *)
Bprintf ==
  /\ result = -1 /\ caller = "bprintf"
  /\ \E behind \in Behind :
       /\ puts' = << FlattenSeq([i \in DOMAIN Read(behind) |-> Written(Read(behind)[i])]) >>
       /\ result' = FoldLeft(LAMBDA n, d :
            n + IF d.conv \in Numeric \ {"o"} THEN Len(Buf(Abs(Number(d)), Base(d.conv)))
                ELSE Len(Written(d)), 0, Read(behind))
  /\ UNCHANGED <<fmt, caller, str>>

\* A text, up to its first NUL
CText(s) == SubSeq(s, 1, SelectInSeq(s, LAMBDA ch : ch = NUL) - 1)

(* kprintf prints the buffer; panic also says where it starts, and whether *)
(* the result says that it was cut.                                        *)
Puts ==
  /\ result # -1 /\ puts = << >>
  /\ puts' = IF caller = "kprintf" THEN <<CText(str)>>
             ELSE << <<"KERNEL PANIC">> >>
                  \o (IF result >= BUFSIZ THEN << <<"truncated">> >> ELSE << >>) \o <<CText(str)>>
  /\ UNCHANGED <<fmt, caller, str, result>>

Done == puts # << >> /\ UNCHANGED vars

Next == AddDirective \/ Vsnprintf \/ Bprintf \/ Puts \/ Done
Spec == Init /\ [][Next]_vars

-----------------------------------------------------------------------------
(* What C asks for, from the directive and the arguments passed for it.    *)
Width(d) == FoldLeft(LAMBDA w, c : 10 * w + c, 0, d.width)
LowDigits(n, b, k) == [i \in 1 .. k |-> Digit((n \div b^(k - i)) % b)]
Length(n, b) == CHOOSE k \in 1 .. n + 1 : b^k > n /\ (k = 1 \/ b^(k - 1) <= n)
Numeral(d) == LowDigits(Abs(Number(d)), Base(d.conv), Length(Abs(Number(d)), Base(d.conv)))
Padded(ch, n, text) == Copies(ch, n - Len(text)) \o text
InC(d) ==
  LET minus == IF Number(d) < 0 THEN 1 ELSE 0 IN
  CASE d.conv = "p" -> Padded("0", HexDigits, Numeral(d))
    [] d.conv \in Integral /\ d.zeropad -> Sign(Number(d)) \o Padded("0", Width(d) - minus, Numeral(d))
    [] d.conv \in Integral /\ ~d.zeropad -> Padded(" ", Width(d), Sign(Number(d)) \o Numeral(d))
    [] d.conv = "s" -> Padded(" ", Width(d), TextAt(d.args[1]))
    [] d.conv = "c" -> Padded(" ", Width(d), <<Char(d.args[1])>>)
    [] d.conv = "lit" -> <<"z">>
    [] d.conv = "%" -> <<"%">>
    [] d.conv = "?" -> <<"%", "?">>

(* Where the kernel's functions differ from C: a width that cuts a number, *)
(* or that it does not fill with the zeros asked for; texts and characters *)
(* shorter than theirs.                                                    *)
Differs(d) ==
  /\ Width(d) > 0
  /\ \/ /\ d.conv \in Integral
        /\ \/ Len(Numeral(d)) > Width(d)
           \/ Len(Numeral(d)) < Width(d) /\ (~d.zeropad \/ Number(d) < 0)
     \/ d.conv = "s" /\ Len(TextAt(d.args[1])) < Width(d)
     \/ d.conv = "c" /\ Width(d) > 1

(* There, numbers get as many of their low digits as the width says, zeros *)
(* among them, and a sign before; texts get their blanks behind them; and  *)
(* a character gets none.                                                  *)
Instead(d) ==
  CASE d.conv \in Integral ->
         Sign(Number(d)) \o LowDigits(Abs(Number(d)), Base(d.conv), Width(d))
    [] d.conv = "s" -> TextAt(d.args[1]) \o Copies(" ", Width(d) - Len(TextAt(d.args[1])))
    [] d.conv = "c" -> <<Char(d.args[1])>>

InKernel(d) == IF Differs(d) THEN Instead(d) ELSE InC(d)
InLoader(d) ==
  IF d.conv = "x" THEN LowDigits(Number(d), 16, HexDigits)
  ELSE IF d.conv \in {"o", "?"} THEN << >>
  ELSE IF d.conv = "s" THEN Memory[d.args[1]] ELSE InC(d)

(* A format makes sense to the kernel up to the first directive after      *)
(* which flag, width or longflag are left behind, or that runs past its    *)
(* end.                                                                    *)
Formed(k) ==
  \A i \in 1 .. k :
    LET d == fmt[i] IN
    /\ d.conv # "end"
    /\ d.longs > 0 => d.conv \in Integral
    /\ d.conv = "?" => Short(d)

=============================================================================
