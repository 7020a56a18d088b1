----------------------------- MODULE FbConsole -----------------------------
(***************************************************************************)
(* The text console on the frame buffer of the rpi2: fbputc, fbconcls and  *)
(* the jump handler of mach-rpi2/mach_early_init.c, over fbcls and         *)
(* fbdrawch of fb.c.                                                       *)
(*                                                                         *)
(* The logical console is one column of conrows lines; on the screen it is *)
(* folded into pagecols columns side by side.  A cell of the screen is     *)
(* named by its first pixel; what is drawn outside of the screen would     *)
(* show up in the domain of screen.                                        *)
(***************************************************************************)
EXTENDS Integers, Sequences

CONSTANTS
  Width, Height,   \* the screen, in pixels
  CONPAGE_COLS,    \* the characters of a line
  Chars            \* the characters printed

VARIABLES
  fbconenable,     \* has the jump handler run?
  screen,          \* the character in each cell drawn so far
  conx, cony,      \* the cursor: line and column
  recent,          \* the text of the last lines, the current one first
  pending          \* '\n' while kputs has printed its '\r' only

vars == <<fbconenable, screen, conx, cony, recent, pending>>

Blank == " "
Cursor == "NUL"    \* '\0', drawn as a highlighted blank

(* rpi2_fbdev_init: a cell is 9 pixels high and 6 wide.                    *)
conrrows == Height \div 9
conrcols == Width \div 6
pagecols == conrcols \div CONPAGE_COLS
concols == CONPAGE_COLS
conrows == conrrows * pagecols

(* A screen narrower than one column of text would make conrows 0 and      *)
(* divide by it.                                                           *)
FbAssumption ==
  /\ Width \in Nat /\ Height \in Nat /\ CONPAGE_COLS \in Nat \ {0}
  /\ conrows > 0
  /\ {Blank, Cursor} \cap Chars = {}

(* fbcondrawch; fbdrawch covers the 9 by 6 pixels from there on.           *)
\* Slip: the columns side by side overlap by one character.
CellOverlapping(x, y) ==
  <<(x % conrrows) * 9, (y + (x \div conrrows) * (CONPAGE_COLS - 1)) * 6>>
Cell(x, y) ==
  <<(x % conrrows) * 9, (y + (x \div conrrows) * CONPAGE_COLS) * 6>>

Drawn(scr, cells, ch) == [c \in DOMAIN scr \cup cells |-> IF c \in cells THEN ch ELSE scr[c]]
At(scr, x, y, ch) == Drawn(scr, {Cell(x, y)}, ch)

(* The lines cleared ahead of the cursor when it enters line x: up to six, *)
(* none of them past the end and none at all for line 0.                   *)
AheadOf(x) == {x + r : r \in {q \in 0 .. 5 : \A s \in 0 .. q : (x + s) % conrows # 0}}
ClearAhead(scr, x) == Drawn(scr, {Cell(l, i) : l \in AheadOf(x), i \in 0 .. concols - 1}, Blank)

NextLine(x) == IF x + 1 >= conrows THEN 0 ELSE x + 1

(* xflag: the character at y is the last of its line.                      *)
Ends(y, ch) == ch = "\n" \/ (ch # "\r" /\ y + 1 >= concols)

(* fbputc: the state after it, from [screen, x, y].                        *)
Fbputc(con, ch) ==
  LET erased == IF ch # "\n" THEN At(con.screen, con.x, con.y, Blank) ELSE con.screen
      ends == Ends(con.y, ch)
      x == IF ends THEN NextLine(con.x) ELSE con.x
      y == IF ch = "\n" THEN con.y ELSE IF ch = "\r" \/ ends THEN 0 ELSE con.y + 1
      shown == IF ch \in {"\n", "\r"} THEN erased ELSE At(erased, con.x, con.y, ch)
      cleared == IF ends THEN ClearAhead(shown, x) ELSE shown
  IN [screen |-> IF ch # "\r" THEN At(cleared, x, y, Cursor) ELSE cleared, x |-> x, y |-> y]

(* fbconcls after fbcls: as many blanks as there are cells, then home.     *)
Fbconcls(con) ==
  LET cells == conrows * concols
      cleared[n \in 0 .. cells] == IF n = 0 THEN con ELSE Fbputc(cleared[n - 1], Blank)
  IN [cleared[cells] EXCEPT !.x = 0, !.y = 0]

Init ==
  /\ fbconenable = FALSE
  /\ screen = << >> /\ conx = 0 /\ cony = 0
  /\ recent = << << >> >> /\ pending = FALSE

(* rpi2_fbdev_jumphandler; the screen is all black before.                 *)
JumpHandler ==
  /\ ~fbconenable /\ ~pending
  /\ fbconenable' = TRUE
  /\ LET con == Fbconcls([screen |-> << >>, x |-> conx, y |-> cony]) IN
       screen' = con.screen /\ conx' = con.x /\ cony' = con.y
  /\ recent' = << << >> >>
  /\ UNCHANGED pending

(* How many of the last lines clearing ahead leaves on the screen.         *)
Kept == conrows - 5
Entered(lines) == SubSeq(<< << >> >> \o lines, 1, IF Len(lines) < Kept THEN Len(lines) + 1 ELSE Kept)

(* A character from kputs, which prints '\r' before each '\n'.             *)
Putchar(ch) ==
  /\ pending => ch = "\n"
  /\ ch = "\n" => pending
  /\ pending' = (ch = "\r")
  /\ IF ~fbconenable THEN UNCHANGED <<fbconenable, screen, conx, cony, recent>>
     ELSE /\ LET con == Fbputc([screen |-> screen, x |-> conx, y |-> cony], ch) IN
               screen' = con.screen /\ conx' = con.x /\ cony' = con.y
          /\ recent' = LET typed == IF ch \in {"\r", "\n"} THEN recent
                                    ELSE [recent EXCEPT ![1] = Append(@, ch)]
                       IN IF Ends(cony, ch) THEN Entered(typed) ELSE typed
          /\ UNCHANGED fbconenable

Next == JumpHandler \/ \E ch \in Chars \cup {"\r", "\n"} : Putchar(ch)

Spec == Init /\ [][Next]_vars

-----------------------------------------------------------------------------
OnScreen(c) == c[1] + 9 <= Height /\ c[2] + 6 <= Width

LineShown(x, text) == \A i \in 1 .. Len(text) : screen[Cell(x, i - 1)] = text[i]

(* What was printed last can be read: the line being typed and the lines   *)
(* before it, but for the five cleared ahead, show every character printed *)
(* on them, wherever folding and wrapping around put them; between calls   *)
(* there is one cursor and it is where the next character goes; and        *)
(* nothing is drawn outside of the frame buffer.                           *)
RecentLinesShown ==
  fbconenable =>
    /\ \A k \in DOMAIN recent : LineShown((conx + 1 - k + conrows) % conrows, recent[k])
    /\ ~pending => \A c \in DOMAIN screen : screen[c] = Cursor <=> c = Cell(conx, cony)
    /\ \A c \in DOMAIN screen : OnScreen(c)
=============================================================================
