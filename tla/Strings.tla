------------------------------ MODULE Strings ------------------------------
(***************************************************************************)
(* The memory and string functions of lib/libc: memcpy.c, memmove.c,       *)
(* memset.c, memcmp.c, strlen.c, strcmp.c and strlcpy.c.  Memory is a      *)
(* function from addresses to bytes.                                       *)
(***************************************************************************)
EXTENDS Integers, Sequences, SequencesExt, FiniteSetsExt

CONSTANTS
  Size,        \* the addresses are 0 .. Size - 1
  Word,        \* sizeof(long)
  Bytes,       \* the bytes of the strings, with 0
  Texts        \* the size of the memory strings are looked for in

StringsAssumption ==
  /\ Size \in Nat /\ Word \in Nat \ {0} /\ Texts \in Nat /\ Bytes \subseteq Nat

VARIABLES mem, call    \* the memory after the call, and [f, dst, src, n, before, ret]

vars == <<mem, call>>

(* One assignment through pointers: n bytes from s to d, read as one.      *)
Assign(m, d, s, n) == [i \in DOMAIN m |-> IF i \in d .. d + n - 1 THEN m[s + (i - d)] ELSE m[i]]

(* The assignments of a loop, one for each unit of n bytes at offset o.    *)
Assigned(m, dst, src, units) ==
  LET done[k \in 0 .. Len(units)] ==
        IF k = 0 THEN m
        ELSE Assign(done[k - 1], dst + units[k].o, src + units[k].o, units[k].n)
  IN done[Len(units)]

(* memcpy: the bytes up to a word boundary, if both operands have one,     *)
(* then words, then bytes.                                                 *)
\* Slip: the low bits of one operand decide.
AlignedHeadOfSrc(dst, src, length) == (Word - (src % Word)) % Word
AlignedHead(dst, src, length) ==
  IF src % Word = 0 /\ dst % Word = 0 THEN 0
  ELSE IF src % Word # dst % Word \/ length < Word THEN length
  ELSE Word - (src % Word)

Units(dst, src, length) ==
  LET head == AlignedHead(dst, src, length)
      words == (length - head) \div Word
      tail == (length - head) % Word
      unit(i) == IF i <= head THEN [o |-> i - 1, n |-> 1]
                 ELSE IF i <= head + words THEN [o |-> head + Word * (i - head - 1), n |-> Word]
                 ELSE [o |-> head + Word * words + (i - head - words - 1), n |-> 1]
  IN [i \in 1 .. head + words + tail |-> unit(i)]

Memcpy(m, dst, src, length) ==
  IF length = 0 \/ dst = src THEN m
  ELSE Assigned(m, dst, src, Units(dst, src, length))

(* memmove: forwards or backwards, away from the overlap.                  *)
Memmove(m, dst, src, n) ==
  Assigned(m, dst, src,
           IF dst < src THEN [i \in 1 .. n |-> [o |-> i - 1, n |-> 1]]
           ELSE IF dst > src THEN [i \in 1 .. n |-> [o |-> n - i, n |-> 1]] ELSE << >>)

Memset(m, dst, c, n) == [i \in DOMAIN m |-> IF i \in dst .. dst + n - 1 THEN c ELSE m[i]]

Memcmp(m, s1, s2, n) ==
  LET differ == {i \in 0 .. n - 1 : m[s1 + i] # m[s2 + i]} IN
  IF differ = {} THEN 0
  ELSE IF m[s1 + Min(differ)] < m[s2 + Min(differ)] THEN -1 ELSE 1

Terminated(m, s) == \E i \in DOMAIN m : i >= s /\ m[i] = 0
Strlen(m, s) == Min({i \in DOMAIN m : i >= s /\ m[i] = 0}) - s

Strcmp(m, s1, s2) == Memcmp(m, s1, s2, Min({Strlen(m, s1), Strlen(m, s2)}) + 1)

(* strlcpy copies up to dsize bytes and ends them after that, where the    *)
(* text is longer one byte behind the buffer.                              *)
Strlcpy(m, dst, src, dsize) ==
  LET n == Min({dsize, Strlen(m, src)}) IN
  IF dsize = 0 THEN m ELSE Memset(Memmove(m, dst, src, n), dst + n, 0, 1)

-----------------------------------------------------------------------------
Fits(m, a, n) == a + n - 1 \in DOMAIN m \cup {-1}
Apart(a, n, b, k) == a + n <= b \/ b + k <= a

(* A buffer of n bytes for strlcpy has memory of someone else behind it    *)
(* where the function writes there.                                        *)
BehindExists(m, dst, src, n) == n > 0 /\ Strlen(m, src) >= n => dst + n \in DOMAIN m

Init ==
  /\ mem \in {[i \in 0 .. Size - 1 |-> i + 1]} \cup [0 .. Texts - 1 -> Bytes]
  /\ call = [f |-> "none"]

(* A call, with operands inside the memory.                                *)
Called(f, dst, src, n, after, ret) ==
  /\ mem' = after
  /\ call' = [f |-> f, dst |-> dst, src |-> src, n |-> n, before |-> mem, ret |-> ret]

Next ==
  /\ call.f = "none"
  /\ \E dst, src \in DOMAIN mem :
       \/ \E n \in 0 .. Size :
            /\ Fits(mem, dst, n) /\ Fits(mem, src, n)
            /\ \/ Apart(dst, n, src, n) /\ Called("memcpy", dst, src, n, Memcpy(mem, dst, src, n), dst)
               \/ Called("memmove", dst, src, n, Memmove(mem, dst, src, n), dst)
               \/ Called("memset", dst, src, n, Memset(mem, dst, 0, n), dst)
               \/ Called("memcmp", dst, src, n, mem, Memcmp(mem, dst, src, n))
       \/ /\ Terminated(mem, src)
          /\ Called("strlen", dst, src, 0, mem, Strlen(mem, src))
       \/ /\ Terminated(mem, src) /\ Terminated(mem, dst)
          /\ Called("strcmp", dst, src, 0, mem, Strcmp(mem, dst, src))
       \/ \E n \in 0 .. Texts :
            /\ Terminated(mem, src)
            /\ Fits(mem, dst, n) /\ Apart(dst, n, src, Strlen(mem, src) + 1)
            /\ BehindExists(mem, dst, src, n)
            /\ Called("strlcpy", dst, src, n, Strlcpy(mem, dst, src, n), Strlen(mem, src))

Done == call.f # "none" /\ UNCHANGED vars

Spec == Init /\ [][Next \/ Done]_vars

-----------------------------------------------------------------------------
(* What each call did, told by the bytes: those that were at the source    *)
(* are at the destination, in whatever units and order they were copied    *)
(* and however the two overlap where they may, and no other byte changes;  *)
(* whole words are only read and written at word boundaries; comparing     *)
(* gives the order of the first difference, and a string ends at its first *)
(* 0.  strlcpy is not the standard's: its text has up to n characters, not *)
(* n - 1, and when the source has as many the byte behind the buffer is    *)
(* overwritten, then and only then, and no other outside it.               *)
Text(m, s) == [i \in 1 .. Strlen(m, s) |-> m[s + i - 1]]
Moved == \A i \in DOMAIN mem :
  mem[i] = IF i \in call.dst .. call.dst + call.n - 1
           THEN call.before[call.src + (i - call.dst)] ELSE call.before[i]
Cleared == \A i \in DOMAIN mem :
  mem[i] = IF i \in call.dst .. call.dst + call.n - 1 THEN 0 ELSE call.before[i]
FirstZero(m, s, l) == m[s + l] = 0 /\ \A i \in 0 .. l - 1 : m[s + i] # 0
Order(a, b) ==
  IF a = b THEN 0
  ELSE IF \/ IsStrictPrefix(a, b)
          \/ \E i \in 1 .. Min({Len(a), Len(b)}) :
               a[i] < b[i] /\ \A j \in 1 .. i - 1 : a[j] = b[j]
  THEN -1 ELSE 1
Aligned == \A u \in ToSet(Units(call.dst, call.src, call.n)) :
  u.n = Word => (call.dst + u.o) % Word = 0 /\ (call.src + u.o) % Word = 0
TextCopied ==
  /\ IsPrefix(Text(mem, call.dst), Text(call.before, call.src))
  /\ Len(Text(mem, call.dst)) = IF call.ret < call.n THEN call.ret ELSE call.n
  /\ \A i \in DOMAIN mem :
       mem[i] # call.before[i] =>
         \/ i \in call.dst .. call.dst + call.n - 1
         \/ i = call.dst + call.n /\ call.ret >= call.n
AsInC ==
  CASE call.f = "memcpy" -> Moved /\ (call.dst # call.src => Aligned)
    [] call.f = "memmove" -> Moved
    [] call.f = "memset" -> Cleared
    [] call.f = "strlen" -> FirstZero(mem, call.src, call.ret)
    [] call.f = "strcmp" -> call.ret = Order(Text(mem, call.dst), Text(mem, call.src))
    [] call.f = "memcmp" ->
         call.ret = Order(SubSeq([i \in 1 .. call.n |-> mem[call.dst + i - 1]], 1, call.n),
                          SubSeq([i \in 1 .. call.n |-> mem[call.src + i - 1]], 1, call.n))
    [] call.f = "strlcpy" ->
         /\ FirstZero(call.before, call.src, call.ret)
         /\ IF call.n = 0 THEN mem = call.before ELSE TextCopied
    [] OTHER -> TRUE
=============================================================================
