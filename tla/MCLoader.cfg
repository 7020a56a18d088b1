\* Sectors of four bytes and files of up to three headers, a partition that
\* starts at a sector; a screen of three rows of two, four characters put;
\* twelve addresses in words of four, and every text of three letters in five;
\* formats of up to two directives in a buffer of eight, words of two hexadecimal
\* digits.  The jump to the kernel, a panic, and the return of a function are ends.
SPECIFICATION Spec
CONSTANTS
  Parts = {"loading", "screen", "libc", "printf"}
  SectSize = 4
  MemTop = 45
  MbrAddr = 8
  ElfStart = 2
  CRT_ROWS = 3
  CRT_COLS = 2
  ByteSize = 4
  MaxPolls = 2
  Chars = {"x", "BS", "LF", "CR", "TAB"}
  MaxChars = 4
  Size = 12
  Word = 4
  Bytes = {0, 1, 2}
  TextSize = 5
  BUFSIZ = 8
  WordSize = 256
  HexDigits = 2
  MaxLength = 2
INVARIANTS
  ImageLoaded
  OutputShown
  AsInC
  
PROPERTIES
  BputcReturns
CHECK_DEADLOCK FALSE
