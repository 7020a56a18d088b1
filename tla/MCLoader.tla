------------------------------ MODULE MCLoader ------------------------------
(***************************************************************************)
(* The boot loaders and the libraries for TLC: loading the ELF file, the   *)
(* loader's console, the memory and string functions, formatted output.    *)
(* They share no variable, so a behaviour is one of one of them, part, and *)
(* the others stand still.                                                 *)
(***************************************************************************)
EXTENDS Integers, Sequences

CONSTANTS
  Parts,                                                      \* the components run
  SectSize, MemTop, MbrAddr, ElfStart,                        \* BootLoader
  CRT_ROWS, CRT_COLS, ByteSize, MaxPolls, Chars, MaxChars,        \* BootConsole
  Size, Word, Bytes, TextSize,                                  \* Strings
  BUFSIZ, WordSize, HexDigits, MaxLength                      \* Format

VARIABLES
  part,
  loader, image, kdiskoffset, memory, seg, rd, entry, phase,
  screen, crt_pos, regs, thr, line, at, polls, first, written,
  mem, call,
  fmt, caller, str, result, puts

(* The kernel is linked this far above where it is loaded.                 *)
High == 100

(* One or two segments: the first from offset from, of size bytes and bss  *)
(* more, the second right after it in memory, gap bytes later in the file. *)
Files(froms, start, marks) ==
  {[length |-> from + size + gap + size2, entry |-> High + start + e, good |-> mark[1], sum |-> 1, crc32 |-> mark[2],
    phdrs |-> <<[offset |-> from, va |-> High + start, pa |-> start,
                 filesz |-> size, memsz |-> size + bss],
                [offset |-> from + size + gap, va |-> High + start + size + bss,
                 pa |-> start + size + bss, filesz |-> size2, memsz |-> size2 + 3]>>] :
      from \in froms, size \in 0 .. 5, bss \in {0, 2, 5}, gap \in {0, 1},
      size2 \in {0, 1, 4}, e \in {0, 5}, mark \in marks}

(* Right magic or not, right checksum or not.                              *)
Marks == {<<TRUE, 1>>, <<FALSE, 1>>, <<TRUE, 2>>}

(* A boot loader: the boot sector first, then segments from sector starts. *)
Loaders ==
  {[length |-> 20, entry |-> 0, good |-> TRUE,
    phdrs |-> <<[offset |-> 0, va |-> 8, pa |-> 8, filesz |-> 4, memsz |-> 4],
                [offset |-> 4, va |-> 12, pa |-> 12, filesz |-> size, memsz |-> size + bss],
                [offset |-> 12, va |-> 12 + size + bss, pa |-> 12 + size + bss,
                 filesz |-> 3, memsz |-> 3 + bss]>>] :
      size \in 0 .. 8, bss \in 0 .. 3}

Images == [mbr |-> Loaders, disk |-> Files(1 .. 6, 10, {<<TRUE, 1>>, <<FALSE, 1>>}),
           ram |-> Files({2}, 2, Marks) \cup Files({2}, 20, Marks)]

(* Where the loader's partition starts, and the kernel's.                  *)
Lba == <<1, 2>>

(* The hooks lie below every kernel.                                       *)
Hooks == [disk |-> {8, 9}, ram |-> {0, 1}]

(* Formats of a machine of short words: a value in one word or in two, of  *)
(* one to three digits, some negative; every conversion; widths that cut,  *)
(* fit and do not, with and without the zero; texts at two addresses.      *)
Directive(conv, zeropad, width, longs, args) ==
  [conv |-> conv, zeropad |-> zeropad, width |-> width, longs |-> longs, args |-> args]
Arg(v, longs) ==
  IF longs < 2 THEN <<v % WordSize>> ELSE <<v % WordSize, (v \div WordSize) % WordSize>>
Shapes ==
  {<<FALSE, << >>>>, <<FALSE, <<1>>>>, <<FALSE, <<4>>>>, <<TRUE, <<1>>>>, <<TRUE, <<4>>>>}
Directives ==
  {Directive(conv, shape[1], shape[2], 0, Arg(v, 0)) :
      conv \in {"d", "x", "o"}, shape \in Shapes, v \in {-12, 0, 9, 27}}
  \cup {Directive(conv, FALSE, << >>, 0, Arg(v, 0)) : conv \in {"u", "p"}, v \in {-12, 0, 9}}
  \cup {Directive(conv, shape[1], shape[2], longs, Arg(v, longs)) :
      conv \in {"d", "x"}, shape \in {<<FALSE, << >>>>, <<TRUE, <<4>>>>},
      longs \in {1, 2}, v \in {-12, 27, 100}}
  \cup {Directive("d", FALSE, <<1, 0>>, 0, Arg(27, 0)), Directive("d", TRUE, <<4>>, 2, Arg(300, 2)),
        Directive("p", TRUE, <<8>>, 0, Arg(27, 0))}
  \cup {Directive("s", FALSE, width, longs, <<a>>) :
      width \in {<< >>, <<4>>}, longs \in {0, 2}, a \in {0, 4, 5}}
  \cup {Directive("c", FALSE, width, 0, <<a>>) : width \in {<< >>, <<4>>}, a \in {0, 7}}
  \cup {Directive("%", FALSE, << >>, longs, << >>) : longs \in {0, 2}}
  \cup {Directive("?", FALSE, width, longs, << >>) : width \in {<< >>, <<4>>}, longs \in {0, 2}}
  \cup {Directive("end", FALSE, << >>, 0, << >>), Directive("lit", FALSE, << >>, 0, << >>)}

(* What lies in memory: texts, what follows a format, and on the stack.    *)
Memory ==
  [a \in 0 .. WordSize - 1 |->
    CASE a = 0 -> <<"v">> [] a = 4 -> <<"s">> [] a = 5 -> <<"s", "t">> [] OTHER -> << >>]
Behind == {<< >>, <<Directive("lit", FALSE, << >>, 0, << >>)>>}
Garbage == {0, 200}

Loading == INSTANCE BootLoader WITH mem <- memory
Screen == INSTANCE BootConsole WITH Byte <- ByteSize, phase <- at, i <- polls
Libc == INSTANCE Strings WITH Texts <- TextSize
Printf == INSTANCE Format

ASSUME LoadersAssumption ==
  /\ Loading!LoaderAssumption /\ Screen!ScreenAssumption
  /\ Libc!StringsAssumption /\ Printf!FormatAssumption

loadingVars == <<loader, image, kdiskoffset, memory, seg, rd, entry, phase>>
screenVars == <<screen, crt_pos, regs, thr, line, at, polls, first, written>>
libcVars == <<mem, call>>
printfVars == <<fmt, caller, str, result, puts>>
vars == <<part, loadingVars, screenVars, libcVars, printfVars>>

NoLoading ==
  /\ loader = "none" /\ image = << >> /\ kdiskoffset = 0 /\ memory = << >> /\ seg = 1
  /\ rd = << >> /\ entry = 0 /\ phase = "off"

NoScreen ==
  /\ screen = << >> /\ crt_pos = 0 /\ regs = << >> /\ thr = << >> /\ line = << >>
  /\ at = "off" /\ polls = 0 /\ first = << >> /\ written = << >>

NoLibc == mem = << >> /\ call = [f |-> "none"]

NoPrintf == fmt = << >> /\ caller = "none" /\ str = << >> /\ result = -1 /\ puts = << >>

Init ==
  /\ part \in Parts
  /\ IF part = "loading" THEN Loading!Init ELSE NoLoading
  /\ IF part = "screen" THEN Screen!Init ELSE NoScreen
  /\ IF part = "libc" THEN Libc!Init ELSE NoLibc
  /\ IF part = "printf" THEN Printf!Init ELSE NoPrintf

Next ==
  /\ UNCHANGED part
  /\ \/ part = "loading" /\ Loading!Next /\ UNCHANGED <<screenVars, libcVars, printfVars>>
     \/ part = "screen" /\ Screen!Next /\ UNCHANGED <<loadingVars, libcVars, printfVars>>
     \/ part = "libc" /\ Libc!Next /\ UNCHANGED <<loadingVars, screenVars, printfVars>>
     \/ part = "printf" /\ Printf!Next /\ UNCHANGED <<loadingVars, screenVars, libcVars>>

Spec == Init /\ [][Next]_vars /\ Screen!Fairness

-----------------------------------------------------------------------------
(* At the jump the file is in memory as its headers say (BootLoader).      *)
ImageLoaded == Loading!ImageLoaded

(* Screen, cursor and port show what was printed (BootConsole).            *)
OutputShown == part = "screen" => Screen!OutputShown

(* No port keeps the loader waiting (BootConsole).                         *)
BputcReturns == Screen!BputcReturns

(* Each string function changes the bytes it should, strlcpy one more      *)
(* (Strings).                                                              *)
AsInC == Libc!AsInC

=============================================================================
