---------------------------- MODULE BootConsole ----------------------------
(***************************************************************************)
(* The i386 boot loader's console, boot/arch/i386/console.c: bputc writes  *)
(* a character to the text screen and then to the first serial port, whose *)
(* transmitter it does not wait for longer than a number of polls.  Cells  *)
(* of the screen are numbered from 0, row by row.                          *)
(***************************************************************************)
EXTENDS Integers, Sequences, SequencesExt

CONSTANTS
    CRT_ROWS, CRT_COLS,     \* the screen
    Byte,                   \* values of an 8-bit register
    MaxPolls,               \* 12800
    Chars,                  \* the characters put
    MaxChars                \* bound: how many

CRT_SIZE == CRT_ROWS * CRT_COLS
Cells == 0 .. CRT_SIZE - 1

ScreenAssumption ==
    /\ CRT_ROWS \in Nat \ {0, 1} /\ CRT_COLS \in Nat \ {0}
    /\ Byte \in Nat \ {0} /\ Byte * Byte >= CRT_SIZE
    /\ MaxPolls \in Nat /\ MaxChars \in Nat

VARIABLES
    screen,     \* CGA_BUF: the characters, all black on white
    crt_pos,    \* where the next one goes
    regs,       \* registers 14 and 15 of the 6845, the cursor it shows
    thr, line,  \* the serial port's holding register, and what it has sent
    phase, i,   \* where the loader is, and serial_putc's counter
    first,      \* the screen and the cursor the BIOS left
    written     \* the characters given to bputc

vars == <<screen, crt_pos, regs, thr, line, phase, i, first, written>>
port == <<thr, line>>

Registers(pos) == [hi |-> (pos \div Byte) % Byte, lo |-> pos % Byte]

\* The BIOS printed something and left its cursor anywhere on the screen.
Init ==
    /\ \E pos \in Cells :
        /\ screen = [c \in Cells |-> IF c < pos THEN "B" ELSE " "]
        /\ crt_pos = 0 /\ regs = Registers(pos) /\ first = <<screen, pos>>
    /\ thr = <<>> /\ line = <<>> /\ phase = "init" /\ i = 0 /\ written = <<>>

\* bioinit: the cursor is the 6845's; the test of the buffer puts back what it
\* overwrote.
Bioinit ==
    /\ phase = "init" /\ phase' = "ready"
    /\ crt_pos' = regs.hi * Byte + regs.lo
    /\ UNCHANGED <<screen, regs, port, i, first, written>>

\* The switch of cga_putc: the screen and the position after character c
Put(s, pos, c) ==
    CASE c = "BS" -> IF pos > 0 THEN <<[s EXCEPT ![pos - 1] = " "], pos - 1>> ELSE <<s, pos>>
      [] c = "LF" -> <<s, pos + CRT_COLS - (pos % CRT_COLS)>>
      [] c = "CR" -> <<s, pos - (pos % CRT_COLS)>>
      [] c = "TAB" -> <<[s EXCEPT ![pos] = " "], pos + 1>>
      [] OTHER    -> <<[s EXCEPT ![pos] = c], pos + 1>>

Copies == CRT_SIZE - CRT_COLS

\* A loop copies cell from[k], of the row below its cell, in its k-th step.
Moved(s, from) ==
    LET moved[k \in 0 .. Copies] ==
            IF k = 0 THEN s
            ELSE [moved[k - 1] EXCEPT ![from[k]] = moved[k - 1][from[k] + CRT_COLS]]
    IN  moved[Copies]

\* Slip: the last cell is copied first.
MovedUpBackwards(s) == Moved(s, [k \in 1 .. Copies |-> Copies - k])

\* The loop that stands for memmove: cell after cell, from the first
MovedUp(s) == Moved(s, [k \in 1 .. Copies |-> k - 1])

Rolled(s, pos) ==
    IF pos < CRT_SIZE THEN <<s, pos>>
    ELSE <<[c \in Cells |-> IF c < Copies THEN MovedUp(s)[c] ELSE " "], pos - CRT_COLS>>

CgaPutc(c) ==
    /\ phase = "ready" /\ Len(written) < MaxChars
    /\ LET put == Put(screen, crt_pos, c)
           now == Rolled(put[1], put[2])
       IN  screen' = now[1] /\ crt_pos' = now[2] /\ regs' = Registers(now[2])
    /\ written' = Append(written, c)
    /\ phase' = "serial" /\ i' = 0
    /\ UNCHANGED <<port, first>>

\* COM_LSR_TXRDY, while a character waits in the holding register
TxReady == thr = <<>>

SerialWait ==
    /\ phase = "serial" /\ ~TxReady /\ i < MaxPolls
    /\ i' = i + 1
    /\ UNCHANGED <<screen, crt_pos, regs, port, phase, first, written>>

\* Slip: it waits for as long as the port takes.
GivesUpNever == FALSE
GivesUp == i = MaxPolls

\* outb: a character still waiting is overwritten.
SerialWrite ==
    /\ phase = "serial" /\ (TxReady \/ GivesUp)
    /\ thr' = <<Last(written)>> /\ phase' = "ready"
    /\ UNCHANGED <<screen, crt_pos, regs, line, i, first, written>>

\* The port sends a character, when it likes; a port that is not there never does.
Shift ==
    /\ thr # <<>>
    /\ line' = line \o thr /\ thr' = <<>>
    /\ UNCHANGED <<screen, crt_pos, regs, phase, i, first, written>>

\* The loader has nothing more to say.
Done == phase = "ready" /\ Len(written) = MaxChars /\ UNCHANGED vars

Next == Bioinit \/ (\E c \in Chars : CgaPutc(c)) \/ SerialWait \/ SerialWrite \/ Shift \/ Done

\* The processor runs the loader; nothing is assumed of the port.
Fairness == WF_vars(Bioinit \/ SerialWait \/ SerialWrite)
Spec == Init /\ [][Next]_vars /\ Fairness

-----------------------------------------------------------------------------

\* An endless paper to write on, of which rows come into view at the bottom
Text == 0 .. CRT_SIZE + MaxChars * CRT_COLS
Blank == [pos |-> first[2], top |-> 0,
          text |-> [c \in Text |-> IF c \in Cells THEN first[1][c] ELSE " "]]

\* The paper after a character
Typed(p, c) ==
    LET at == p.pos
        row == at \div CRT_COLS
        now == CASE c = "LF" -> [p EXCEPT !.pos = (row + 1) * CRT_COLS]
                 [] c = "CR" -> [p EXCEPT !.pos = row * CRT_COLS]
                 [] c = "BS" -> IF at = p.top * CRT_COLS THEN p
                                ELSE [p EXCEPT !.pos = at - 1, !.text[at - 1] = " "]
                 [] OTHER -> [p EXCEPT !.pos = at + 1, !.text[at] = IF c = "TAB" THEN " " ELSE c]
    IN  IF now.pos \div CRT_COLS = now.top + CRT_ROWS THEN [now EXCEPT !.top = @ + 1] ELSE now

\* The paper after all that was written
Paper ==
    LET paper[k \in 0 .. Len(written)] == IF k = 0 THEN Blank ELSE Typed(paper[k - 1], written[k])
    IN  paper[Len(written)]

\* Element k of seq is element from[k] of whole, and they come in its order.
From(seq, whole, from) ==
    /\ \A k \in DOMAIN seq : seq[k] = whole[from[k]]
    /\ \A j, k \in DOMAIN seq : j < k => from[j] < from[k]

\* Whatever the BIOS left and however the screen rolled, it shows the last rows
\* of all that was written, with the cursor where the next character goes
\* (cga_putc); and the port has sent characters in the order they were given,
\* losing some when it was too slow (serial_putc).
OutputShown ==
    /\ phase # "init" =>
        /\ \A c \in Cells : screen[c] = Paper.text[Paper.top * CRT_COLS + c]
        /\ regs.hi * Byte + regs.lo = Paper.pos - Paper.top * CRT_COLS
    /\ LET sent == line \o thr IN
        \E from \in [DOMAIN sent -> DOMAIN written] : From(sent, written, from)

\* No port keeps the loader waiting, not even one that is not there: bputc always
\* returns (serial_putc).
BputcReturns == phase = "serial" ~> phase = "ready"
=============================================================================
