---------------------------- MODULE LoaderProofs ----------------------------
(***************************************************************************)
(* At the jump every segment of the file is in memory as its header says,  *)
(* for any file that is well made, sectors and partitions of any size and  *)
(* place, and all three loaders.  The functions of the C library do what   *)
(* the standard says, for operands and strings of any size.  The loader's  *)
(* console shows what was written, on a screen of any size.                *)
(***************************************************************************)
EXTENDS MCLoader, DataFacts

-----------------------------------------------------------------------------
(* Files and memory.                                                       *)

LEMMA LoaderSizes ==
         /\ SectSize \in Nat \ {0} /\ MemTop \in Nat /\ MbrAddr \in Nat /\ ElfStart \in Nat
         /\ Loading!KernelPartition \in Nat /\ Loading!Getpartition \in Nat
         /\ Lba[1] = Loading!Getpartition /\ Lba[2] = Loading!KernelPartition
<1>1. /\ SectSize \in Nat \ {0} /\ {MemTop, MbrAddr, ElfStart} \subseteq Nat
      /\ Lba \in Seq(Nat) /\ Len(Lba) >= 2
  BY LoadersAssumption DEF LoadersAssumption, Loading!LoaderAssumption
<1>2. Len(Lba) \in Nat
  BY <1>1, LenProperties
<1>3. 1 \in 1 .. Len(Lba) /\ 2 \in 1 .. Len(Lba)
  BY <1>1, <1>2
<1>4. Lba[1] \in Nat /\ Lba[2] \in Nat
  BY <1>1, <1>3, ElementOfSeq
<1> QED BY <1>1, <1>4 DEF Loading!KernelPartition, Loading!Getpartition

LoaderNames == {"mbr", "disk", "ram"}

(* The header of a segment.                                                *)
LEMMA HeaderFields ==
  ASSUME NEW l \in LoaderNames, NEW img \in Images[l]
  PROVE  /\ Loading!WellMade(l, img)
         /\ Len(img.phdrs) \in Nat /\ DOMAIN img.phdrs = 1 .. Len(img.phdrs)
         /\ img.entry \in Nat /\ img.length \in Nat
         /\ \A i \in 1 .. Len(img.phdrs) : LET ph == img.phdrs[i] IN
              /\ ph.offset \in Nat /\ ph.va \in Nat /\ ph.pa \in Nat
              /\ ph.filesz \in Nat /\ ph.memsz \in Nat
              /\ ph.filesz <= ph.memsz /\ ph.pa + ph.memsz <= MemTop
<1>1. Loading!WellMade(l, img)
  BY LoadersAssumption DEF LoadersAssumption, Loading!LoaderAssumption, LoaderNames
<1> DEFINE T == [offset : Nat, va : Nat, pa : Nat, filesz : Nat, memsz : Nat]
<1>2. img.phdrs \in Seq(T) /\ img.entry \in Nat /\ img.length \in Nat
  BY <1>1 DEF Loading!WellMade
<1>3. Len(img.phdrs) \in Nat /\ DOMAIN img.phdrs = 1 .. Len(img.phdrs)
  BY <1>2, LenProperties
<1>4. ASSUME NEW i \in 1 .. Len(img.phdrs) PROVE img.phdrs[i] \in T
  BY <1>2, <1>4, ElementOfSeq
<1>5. ASSUME NEW i \in 1 .. Len(img.phdrs)
      PROVE  img.phdrs[i].filesz <= img.phdrs[i].memsz
             /\ img.phdrs[i].pa + img.phdrs[i].memsz <= MemTop
  BY <1>1, <1>3, <1>5 DEF Loading!WellMade, Loading!Ends
<1>6. ASSUME NEW i \in 1 .. Len(img.phdrs)
      PROVE  LET ph == img.phdrs[i] IN
              /\ ph.offset \in Nat /\ ph.va \in Nat /\ ph.pa \in Nat
              /\ ph.filesz \in Nat /\ ph.memsz \in Nat
  <2>1. img.phdrs[i] \in T
    BY <1>4
  <2> QED BY <2>1
<1> QED BY <1>1, <1>2, <1>3, <1>5, <1>6

(* Two segments of a file lie apart.                                       *)
LEMMA HeadersApart ==
  ASSUME NEW l \in LoaderNames, NEW img \in Images[l],
         NEW i \in 1 .. Len(img.phdrs), NEW j \in 1 .. Len(img.phdrs), i < j
  PROVE  LET one == img.phdrs[i]
             two == img.phdrs[j]
         IN /\ one.pa + one.memsz <= two.pa \/ (l # "mbr" /\ two.pa + two.memsz <= one.pa)
            /\ l # "mbr" =>
                 /\ one.va + one.memsz <= two.va \/ two.va + two.memsz <= one.va
                 /\ \/ one.pa + one.memsz <= two.va \/ two.va + two.memsz <= one.pa
                    \/ two.va = two.pa
<1> DEFINE Apart(x, y) ==
             /\ x.pa + x.memsz <= y.pa \/ (l # "mbr" /\ y.pa + y.memsz <= x.pa)
             /\ l # "mbr" =>
                  /\ x.va + x.memsz <= y.va \/ y.va + y.memsz <= x.va
                  /\ x.pa + x.memsz <= y.va \/ y.va + y.memsz <= x.pa \/ y.va = y.pa
           AllApart == \A x, y \in DOMAIN img.phdrs :
                          x < y => Apart(img.phdrs[x], img.phdrs[y])
<1>1. Loading!WellMade(l, img) /\ DOMAIN img.phdrs = 1 .. Len(img.phdrs)
  BY HeaderFields
<1>2. AllApart
  BY <1>1, Zenon DEF Loading!WellMade, Loading!Ends
<1> HIDE DEF Apart
<1>3. Apart(img.phdrs[i], img.phdrs[j])
  BY <1>1, <1>2
<1> QED BY <1>3 DEF Apart

(* What a copy leaves of memory.                                           *)
LEMMA OverAt ==
  ASSUME NEW f, NEW m
  PROVE  /\ DOMAIN Loading!Over(f, m) = Loading!Addresses
         /\ \A a \in Loading!Addresses :
              Loading!Over(f, m)[a] = IF a \in DOMAIN f THEN f[a] ELSE m[a]
BY DEF Loading!Over

(* The bytes of a header, and those of the file's part alone.              *)
FileRight(m, ph) ==
  \A a \in ph.pa .. ph.pa + ph.filesz - 1 : m[a] = ph.offset + (a - ph.pa) + 1
SegRight(m, ph) ==
  \A a \in ph.pa .. ph.pa + ph.memsz - 1 :
    m[a] = IF a < ph.pa + ph.filesz THEN ph.offset + (a - ph.pa) + 1 ELSE 0

(* A copy that misses a segment leaves it.                                 *)
LEMMA SegKept ==
  ASSUME NEW l \in LoaderNames, NEW img \in Images[l], NEW i \in 1 .. Len(img.phdrs),
         NEW f, NEW m, SegRight(m, img.phdrs[i]),
         \A a \in DOMAIN f : a \notin img.phdrs[i].pa .. img.phdrs[i].pa + img.phdrs[i].memsz - 1
  PROVE  SegRight(Loading!Over(f, m), img.phdrs[i])
<1> DEFINE ph == img.phdrs[i]
<1>1. ph.pa \in Nat /\ ph.memsz \in Nat /\ ph.pa + ph.memsz <= MemTop /\ MemTop \in Nat
  BY HeaderFields, LoaderSizes
<1>2. ASSUME NEW a \in ph.pa .. ph.pa + ph.memsz - 1
      PROVE  Loading!Over(f, m)[a] = m[a]
  <2>1. a \in Loading!Addresses /\ a \notin DOMAIN f
    BY <1>1 DEF Loading!Addresses
  <2> QED BY <2>1, OverAt
<1> QED BY <1>2 DEF SegRight

(* A write to one segment, from its start on, leaves those before it.      *)
LEMMA OthersKept ==
  ASSUME NEW l \in LoaderNames, NEW img \in Images[l],
         NEW s \in 1 .. Len(img.phdrs), NEW i \in 1 .. s - 1, NEW f, NEW m,
         SegRight(m, img.phdrs[i]),
         \A a \in DOMAIN f : a \in Int /\ a >= img.phdrs[s].pa,
         l # "mbr" => \A a \in DOMAIN f : a < img.phdrs[s].pa + img.phdrs[s].memsz
  PROVE  SegRight(Loading!Over(f, m), img.phdrs[i])
<1>1. i \in 1 .. Len(img.phdrs) /\ i < s
  BY HeaderFields
<1> DEFINE one == img.phdrs[i]
           two == img.phdrs[s]
<1>2. /\ one.pa \in Nat /\ one.memsz \in Nat /\ two.pa \in Nat /\ two.memsz \in Nat
      /\ one.pa + one.memsz <= two.pa \/ (l # "mbr" /\ two.pa + two.memsz <= one.pa)
  BY <1>1, HeaderFields, HeadersApart
<1>3. ASSUME NEW a \in DOMAIN f PROVE a \notin one.pa .. one.pa + one.memsz - 1
  <2>1. PICK p \in Nat, n \in Nat, q \in Nat, t \in Nat :
          p = one.pa /\ n = one.memsz /\ q = two.pa /\ t = two.memsz
    BY <1>2
  <2>2. a \in Int /\ a >= q /\ (l # "mbr" => a < q + t)
    BY <1>3, <2>1
  <2>3. p + n <= q \/ (l # "mbr" /\ q + t <= p)
    BY <1>2, <2>1
  <2>4. a \notin p .. p + n - 1
    BY <2>2, <2>3
  <2> QED BY <2>1, <2>4
<1> QED BY <1>1, <1>3, SegKept

(* Sectors and bytes.                                                      *)
LEMMA SectorOf ==
  ASSUME NEW o \in Nat, NEW k \in Nat, NEW d \in Nat \ {0}
  PROVE  /\ (o + k * d) \div d \in Nat
         /\ (o + k * d) % d \in Nat /\ (o + k * d) % d < d
         /\ ((o + k * d) \div d - k) * d + ((o + k * d) % d) = o
<1>1. PICK n \in Nat : n = o + k * d
  BY MulRegroup
<1>2. PICK q \in Nat : q = n \div d
  BY DivBounds
<1>3. n % d = n - q * d /\ n % d \in 0 .. d - 1
  BY <1>2
<1>4. (q - k) * d = q * d - k * d
  OBVIOUS
<1>5. q * d \in Nat /\ k * d \in Nat
  BY MulRegroup
<1> QED BY <1>1, <1>2, <1>3, <1>4, <1>5

LEMMA SectorAt ==
  ASSUME NEW o \in Nat, NEW k \in Nat, NEW d \in Nat \ {0}, o % d = 0
  PROVE  (k + o \div d - k) * d = o
<1>1. PICK q \in Nat : q = o \div d
  BY DivBounds
<1>2. o = q * d
  BY <1>1
<1>3. k + q - k = q
  OBVIOUS
<1> QED BY <1>1, <1>2, <1>3

LEMMA SectorNext ==
  ASSUME NEW s \in Nat, NEW k \in Nat, NEW d \in Nat \ {0}
  PROVE  (s + 1 - k) * d = (s - k) * d + d /\ (s - k) * d \in Int
<1>1. PICK q \in Int : q = s - k
  OBVIOUS
<1>2. s + 1 - k = q + 1
  BY <1>1
<1>3. (q + 1) * d = q * d + d
  OBVIOUS
<1> QED BY <1>1, <1>2, <1>3

(* Whole sectors hold all the bytes asked for.                             *)
LEMMA SectorsHold ==
  ASSUME NEW n \in Nat, NEW d \in Nat \ {0}
  PROVE  ((n + d - 1) \div d) * d \in Nat /\ n <= ((n + d - 1) \div d) * d
<1>1. PICK q \in Nat : q = (n + d - 1) \div d
  BY DivBounds
<1>2. n + d - 1 < q * d + d /\ q * d \in Nat
  BY <1>1, DivBounds, MulRegroup
<1> QED BY <1>1, <1>2

-----------------------------------------------------------------------------
(* The invariant.                                                          *)

(* The segments that are loaded.                                           *)
LoadedTo == IF phase \in {"hook", "jump"} THEN Len(image.phdrs) ELSE seg - 1

(* Where the entry has got to after the first n headers.                   *)
EntryAt(e, n) ==
  /\ \A i \in 1 .. n : Loading!EntryIn(image.phdrs[i]) =>
       e = image.entry - image.phdrs[i].va + image.phdrs[i].pa
  /\ (\A i \in 1 .. n : ~Loading!EntryIn(image.phdrs[i])) => e = image.entry

(* readfile of the i386 has copied up to rd.buf.                           *)
ReadAt ==
  LET ph == image.phdrs[seg] IN
  /\ rd.buf \in Nat /\ rd.size \in Nat /\ rd.sect \in Nat /\ rd.skip \in Nat
  /\ rd.skip < SectSize /\ rd.skip <= rd.size
  /\ ph.pa <= rd.buf
  /\ rd.buf - ph.pa + (rd.size - rd.skip) = ph.filesz
  /\ rd.size > 0 =>
       (rd.sect - Loading!KernelPartition) * SectSize + rd.skip = ph.offset + (rd.buf - ph.pa)
  /\ \A a \in ph.pa .. rd.buf - 1 : memory[a] = ph.offset + (a - ph.pa) + 1

(* The file of the ARM image, and the i386's boot sector.                  *)
FileThere ==
  \A o \in 0 .. image.length - 1 : memory[ElfStart + o] = o + 1
SectorThere ==
  \A o \in 0 .. SectSize - 1 : MbrAddr + o < MemTop => memory[MbrAddr + o] = o + 1

(* A segment of the ARM's that was copied lies off the file.               *)
OffFile(ph) == ph.pa < ElfStart \/ ph.pa >= ElfStart + image.length

ImgInv ==
  /\ loader \in LoaderNames /\ image \in Images[loader]
  /\ DOMAIN memory = Loading!Addresses
  /\ phase \in {"init", "elf", "load", "read", "clear", "hook", "jump", "panic"}
  /\ phase = "read" => loader = "disk"
  /\ phase \in {"elf", "hook"} => loader # "mbr"
  /\ phase # "panic" =>
       /\ phase \in {"init", "elf"} => seg = 1
       /\ phase \in {"load", "read", "clear"} => seg \in 1 .. Len(image.phdrs)
       /\ \A i \in 1 .. LoadedTo : SegRight(memory, image.phdrs[i])
       /\ loader = "ram" /\ phase # "jump" => FileThere
       /\ loader = "ram" /\ phase = "clear" => OffFile(image.phdrs[seg])
       /\ loader = "mbr" /\ seg = 1 /\ phase \in {"init", "load"} => SectorThere
       /\ loader = "disk" /\ phase # "init" => kdiskoffset = Loading!KernelPartition * SectSize
       /\ phase = "read" => ReadAt
       /\ phase = "clear" => FileRight(memory, image.phdrs[seg])
       /\ loader # "mbr" => EntryAt(entry, LoadedTo)

LEMMA LoadingStarts == Loading!Init => ImgInv
<1> SUFFICES ASSUME Loading!Init PROVE ImgInv
  OBVIOUS
<1> DEFINE old == [a \in Loading!Addresses |-> -1]
<1>1. /\ loader \in LoaderNames /\ image \in Images[loader]
      /\ phase = "init" /\ seg = 1 /\ entry = image.entry
      /\ loader = "mbr" => memory = Loading!Over(Loading!Holding(SectSize, MbrAddr), old)
      /\ loader = "ram" => memory = Loading!Over(Loading!Holding(image.length, ElfStart), old)
      /\ loader = "disk" => memory = old
  BY DEF Loading!Init, LoaderNames
<1>2. DOMAIN memory = Loading!Addresses
  BY <1>1, OverAt DEF LoaderNames
<1>3. ASSUME NEW n \in Nat, NEW w \in Nat, NEW o \in 0 .. n - 1, w + o < MemTop
      PROVE  Loading!Over(Loading!Holding(n, w), old)[w + o] = o + 1
  <2>1. w + o \in Loading!Addresses /\ w + o \in w .. w + n - 1 /\ w + o - w = o
    BY <1>3, LoaderSizes DEF Loading!Addresses
  <2>2. w + o \in DOMAIN Loading!Holding(n, w) /\ Loading!Holding(n, w)[w + o] = o + 1
    BY <2>1 DEF Loading!Holding, Loading!Byte
  <2> QED BY <2>1, <2>2, OverAt
<1> HIDE DEF old
<1>4. loader = "mbr" => SectorThere
  <2>1. SUFFICES ASSUME loader = "mbr", NEW o \in 0 .. SectSize - 1, MbrAddr + o < MemTop
                 PROVE  memory[MbrAddr + o] = o + 1
    BY DEF SectorThere
  <2>2. SectSize \in Nat /\ MbrAddr \in Nat
    BY LoaderSizes
  <2>3. Loading!Over(Loading!Holding(SectSize, MbrAddr), old)[MbrAddr + o] = o + 1
    BY <1>3, <2>1, <2>2
  <2> QED BY <1>1, <2>1, <2>3
<1>5. loader = "ram" => FileThere
  <2>1. SUFFICES ASSUME loader = "ram", NEW o \in 0 .. image.length - 1
                 PROVE  memory[ElfStart + o] = o + 1
    BY DEF FileThere
  <2>2. image.length \in Nat /\ ElfStart + image.length <= MemTop
    BY <1>1, <2>1, HeaderFields DEF Loading!WellMade
  <2>3. PICK n \in Nat, w \in Nat : n = image.length /\ w = ElfStart
    BY <2>2, LoaderSizes
  <2>4. o \in 0 .. n - 1 /\ w + o < MemTop
    BY <2>2, <2>3, LoaderSizes
  <2>5. Loading!Over(Loading!Holding(n, w), old)[w + o] = o + 1
    BY <1>3, <2>3, <2>4
  <2> QED BY <1>1, <2>1, <2>3, <2>5
<1>6. LoadedTo = 0
  BY <1>1 DEF LoadedTo
<1>7. EntryAt(entry, 0)
  BY <1>1 DEF EntryAt
<1> QED BY <1>1, <1>2, <1>4, <1>5, <1>6, <1>7 DEF ImgInv, LoaderNames

(* A step that only changes the place.                                     *)
LEMMA LoadingPanics == ASSUME ImgInv, Loading!Panic PROVE ImgInv'
<1>1. UNCHANGED <<loader, image, memory, kdiskoffset, seg, rd, entry>> /\ phase' = "panic"
  BY DEF Loading!Panic, Loading!Goto, Loading!file
<1> QED BY <1>1 DEF ImgInv, Loading!Addresses, LoaderNames

LEMMA LoadingChecks ==
  ASSUME ImgInv,
         Loading!KernreaderInit \/ Loading!KernreaderInitDisk \/ Loading!Checked \/ Loading!BootChecked
  PROVE  ImgInv'
<1>1. CASE Loading!Panic
  BY <1>1, LoadingPanics
<1>2. CASE /\ UNCHANGED <<loader, image, memory, seg, rd, entry>>
           /\ phase \in {"init", "elf"} /\ phase' \in {"elf", "load"}
           /\ phase' = "elf" => loader # "mbr"
           /\ phase' = "load" => Len(image.phdrs) > 0
           /\ loader = "disk" => kdiskoffset' = Loading!KernelPartition * SectSize
  <2>1. Len(image.phdrs) \in Nat
    BY HeaderFields DEF ImgInv
  <2>2. seg = 1 /\ LoadedTo = 0 /\ LoadedTo' = 0
    BY <1>2 DEF ImgInv, LoadedTo
  <2>3. (loader # "mbr" => EntryAt(entry, 0)) /\ (EntryAt(entry, 0) => EntryAt(entry, 0)')
    BY <1>2, <2>2 DEF ImgInv, EntryAt, Loading!EntryIn
  <2>4. FileThere => FileThere'
    BY <1>2 DEF FileThere
  <2>5. SectorThere => SectorThere'
    BY <1>2 DEF SectorThere
  <2> QED BY <1>2, <2>1, <2>2, <2>3, <2>4, <2>5 DEF ImgInv, Loading!Addresses
<1>3. CASE Loading!KernreaderInit
  BY <1>1, <1>2, <1>3 DEF Loading!KernreaderInit, Loading!Goto, Loading!file
<1>4. CASE Loading!KernreaderInitDisk
  BY <1>1, <1>2, <1>4 DEF Loading!KernreaderInitDisk
<1>5. CASE Loading!Checked
  <2>1. loader = "disk" => kdiskoffset = Loading!KernelPartition * SectSize
    BY <1>5 DEF ImgInv, Loading!Checked
  <2> QED BY <1>1, <1>2, <1>5, <2>1 DEF Loading!Checked, Loading!Goto, Loading!file
<1>6. CASE Loading!BootChecked
  <2>1. loader = "mbr" => Len(image.phdrs) > 0
    <3>1. ASSUME loader = "mbr" PROVE image.phdrs # << >>
      BY <3>1, HeaderFields DEF ImgInv, Loading!WellMade
    <3>2. image.phdrs \in Seq([offset : Nat, va : Nat, pa : Nat, filesz : Nat, memsz : Nat])
      BY HeaderFields DEF ImgInv, Loading!WellMade
    <3> QED BY <3>1, <3>2, EmptySeq, LenProperties
  <2> QED BY <1>1, <1>2, <1>6, <2>1 DEF Loading!BootChecked, Loading!Goto, Loading!file
<1> QED BY <1>3, <1>4, <1>5, <1>6

(* The header that is being loaded.                                        *)
LEMMA TurnOf ==
  ASSUME ImgInv, phase \in {"load", "read", "clear"}
  PROVE  /\ loader \in LoaderNames /\ image \in Images[loader] /\ seg \in 1 .. Len(image.phdrs)
         /\ Len(image.phdrs) \in Nat
         /\ LoadedTo = seg - 1
         /\ Loading!Phdr.offset \in Nat /\ Loading!Phdr.pa \in Nat
         /\ Loading!Phdr.filesz \in Nat /\ Loading!Phdr.memsz \in Nat
         /\ Loading!Phdr.filesz <= Loading!Phdr.memsz
         /\ Loading!Phdr.pa + Loading!Phdr.memsz <= MemTop
BY HeaderFields DEF ImgInv, LoadedTo, Loading!Phdr

(* The segments loaded before stay as they are.                            *)
LEMMA TurnKeeps ==
  ASSUME ImgInv, phase \in {"load", "read", "clear"}, NEW f,
         \A a \in DOMAIN f : a \in Int /\ a >= Loading!Phdr.pa,
         loader # "mbr" => \A a \in DOMAIN f : a < Loading!Phdr.pa + Loading!Phdr.memsz
  PROVE  \A i \in 1 .. seg - 1 : SegRight(Loading!Over(f, memory), image.phdrs[i])
<1>1. /\ loader \in LoaderNames /\ image \in Images[loader] /\ seg \in 1 .. Len(image.phdrs)
      /\ LoadedTo = seg - 1
  BY TurnOf
<1>2. \A i \in 1 .. seg - 1 : SegRight(memory, image.phdrs[i])
  BY <1>1 DEF ImgInv
<1> QED BY <1>1, <1>2, OthersKept DEF Loading!Phdr

LEMMA LoadingReadsFile == ASSUME ImgInv, Loading!ReadFile PROVE ImgInv'
<1>1. /\ phase = "load" /\ loader = "disk" /\ phase' = "read"
      /\ UNCHANGED <<loader, image, memory, seg, entry, kdiskoffset>>
      /\ kdiskoffset = Loading!KernelPartition * SectSize
  BY DEF Loading!ReadFile, ImgInv, Loading!file
<1>2. PICK o \in Nat, k \in Nat, d \in Nat \ {0}, pa \in Nat, z \in Nat :
        /\ o = Loading!Phdr.offset /\ k = Loading!KernelPartition /\ d = SectSize
        /\ pa = Loading!Phdr.pa /\ z = Loading!Phdr.filesz
  BY <1>1, TurnOf, LoaderSizes
<1>3. PICK q \in Nat, t \in Nat :
        q = (o + k * d) \div d /\ t = (o + k * d) % d /\ t < d /\ (q - k) * d + t = o
  BY SectorOf
<1>4. rd' = [buf |-> pa, size |-> z + t, sect |-> q, skip |-> t]
  BY <1>1, <1>2, <1>3 DEF Loading!ReadFile
<1>5. ReadAt'
  <2>1. pa - pa + (z + t - t) = z /\ o + (pa - pa) = o /\ z + t \in Nat /\ t <= z + t
    OBVIOUS
  <2>2. \A a \in pa .. pa - 1 : memory'[a] = o + (a - pa) + 1
    <3>1. \A a \in pa .. pa - 1 : FALSE
      OBVIOUS
    <3> QED BY <3>1
  <2>3. rd'.buf = pa /\ rd'.size = z + t /\ rd'.sect = q /\ rd'.skip = t
    BY <1>4
  <2>4. image' = image /\ seg' = seg /\ image.phdrs[seg] = Loading!Phdr
    BY <1>1 DEF Loading!Phdr
  <2>5. (q - k) * d + t = o + (pa - pa) /\ pa <= pa
    BY <1>3, <2>1
  <2>6. /\ rd'.buf \in Nat /\ rd'.size \in Nat /\ rd'.sect \in Nat /\ rd'.skip \in Nat
        /\ rd'.skip < SectSize /\ rd'.skip <= rd'.size /\ Loading!Phdr.pa <= rd'.buf
        /\ rd'.buf - Loading!Phdr.pa + (rd'.size - rd'.skip) = Loading!Phdr.filesz
    <3>1. t < d
      BY <1>3
    <3> QED BY <1>2, <2>1, <2>3, <3>1
  <2>7. (rd'.sect - Loading!KernelPartition) * SectSize + rd'.skip
          = Loading!Phdr.offset + (rd'.buf - Loading!Phdr.pa)
    BY <1>2, <2>3, <2>5
  <2>8. \A a \in Loading!Phdr.pa .. rd'.buf - 1 :
          memory'[a] = Loading!Phdr.offset + (a - Loading!Phdr.pa) + 1
    BY <1>2, <2>2, <2>3
  <2> QED BY <2>4, <2>6, <2>7, <2>8, Zenon DEF ReadAt
<1>6. LoadedTo = seg - 1 /\ LoadedTo' = seg - 1
  BY <1>1 DEF LoadedTo
<1>7. EntryAt(entry, LoadedTo) => EntryAt(entry, LoadedTo)'
  BY <1>1, <1>6 DEF EntryAt, Loading!EntryIn
<1> QED BY <1>1, <1>5, <1>6, <1>7 DEF ImgInv, Loading!Addresses

LEMMA LoadingReadsSector == ASSUME ImgInv, Loading!ReadSector PROVE ImgInv'
<1> DEFINE n == Loading!Copied(rd.size, rd.skip)
           got == [a \in rd.buf .. rd.buf + n - 1 |-> Loading!OnDisk(rd.sect, a - rd.buf + rd.skip)]
<1>1. /\ phase = "read" /\ loader = "disk" /\ phase' = "read" /\ rd.size > 0
      /\ UNCHANGED <<loader, image, kdiskoffset, seg, entry>>
      /\ memory' = Loading!Over(got, memory)
      /\ rd' = [buf |-> rd.buf + n, sect |-> rd.sect + 1, skip |-> 0,
                size |-> IF rd.size < SectSize THEN 0 ELSE rd.size - SectSize]
      /\ ReadAt
  BY DEF Loading!ReadSector, ImgInv, Loading!file
<1>2. PICK o \in Nat, k \in Nat, d \in Nat \ {0}, pa \in Nat, z \in Nat, mz \in Nat :
        /\ o = Loading!Phdr.offset /\ k = Loading!KernelPartition /\ d = SectSize
        /\ pa = Loading!Phdr.pa /\ z = Loading!Phdr.filesz /\ mz = Loading!Phdr.memsz
        /\ z <= mz /\ pa + mz <= MemTop
  BY <1>1, TurnOf, LoaderSizes
<1>3. PICK b \in Nat, y \in Nat, s \in Nat, t \in Nat :
        b = rd.buf /\ y = rd.size /\ s = rd.sect /\ t = rd.skip
  BY <1>1 DEF ReadAt
<1>4. /\ t < d /\ t <= y /\ y > 0 /\ pa <= b
      /\ b - pa + (y - t) = z /\ (s - k) * d + t = o + (b - pa)
      /\ \A a \in pa .. b - 1 : memory[a] = o + (a - pa) + 1
  BY <1>1, <1>2, <1>3 DEF ReadAt, Loading!Phdr
<1>5. PICK m \in Nat : m = n /\ m = (IF y < d THEN y ELSE d) - t
  <2>1. n = (IF y < d THEN y ELSE d) - t
    BY <1>2, <1>3 DEF Loading!Copied
  <2>2. (IF y < d THEN y ELSE d) - t \in Nat
    BY <1>4
  <2> QED BY <2>1, <2>2
<1>6. PICK v \in Nat : v = (IF y < d THEN 0 ELSE y - d)
  OBVIOUS
<1>7. rd' = [buf |-> b + m, sect |-> s + 1, skip |-> 0, size |-> v]
  BY <1>1, <1>2, <1>3, <1>5, <1>6
<1>8. \A a \in b .. b + m - 1 : a \in DOMAIN got /\ got[a] = o + (a - pa) + 1
  <2>1. SUFFICES ASSUME NEW a \in b .. b + m - 1
                 PROVE  a \in DOMAIN got /\ got[a] = o + (a - pa) + 1
    OBVIOUS
  <2>2. a \in DOMAIN got /\ got[a] = Loading!OnDisk(s, a - b + t)
    BY <1>3, <1>5, <2>1
  <2>3. Loading!OnDisk(s, a - b + t) = (s - k) * d + (a - b + t) + 1
    BY <1>1, <1>2, LoaderSizes DEF Loading!OnDisk, Loading!Byte, Loading!KernelPartition
  <2>4. PICK w \in Int : w = (s - k) * d
    BY SectorNext
  <2>5. w + (a - b + t) + 1 = o + (a - pa) + 1
    BY <1>4, <2>1, <2>4
  <2> QED BY <2>2, <2>3, <2>4, <2>5
<1>9. b + m <= pa + z
  BY <1>4, <1>5
<1>10. DOMAIN got = b .. b + m - 1
  BY <1>3, <1>5
<1> HIDE DEF n, got
<1>11. \A i \in 1 .. seg - 1 : SegRight(memory', image.phdrs[i])
  <2>1. \A a \in DOMAIN got : a \in Int /\ a >= pa /\ a < pa + mz
    <3>1. pa <= b /\ b + m <= pa + mz
      BY <1>2, <1>4, <1>9
    <3>2. \A a \in b .. b + m - 1 : a \in Int /\ a >= pa /\ a < pa + mz
      BY <3>1
    <3> QED BY <1>10, <3>2
  <2> QED BY <1>1, <1>2, <2>1, TurnKeeps
<1>12. \A a \in pa .. b + m - 1 : memory'[a] = o + (a - pa) + 1
  <2>1. SUFFICES ASSUME NEW a \in pa .. b + m - 1
                 PROVE  memory'[a] = o + (a - pa) + 1
    OBVIOUS
  <2>2. a \in Loading!Addresses
    BY <1>2, <1>9, LoaderSizes DEF Loading!Addresses
  <2>3. memory'[a] = IF a \in DOMAIN got THEN got[a] ELSE memory[a]
    BY <1>1, <2>2, OverAt
  <2>4. CASE a \in b .. b + m - 1
    BY <1>8, <2>3, <2>4
  <2>5. CASE a \notin b .. b + m - 1
    <3>1. a \in pa .. b - 1 /\ a \notin DOMAIN got
      BY <1>10, <2>5
    <3> QED BY <1>4, <2>3, <3>1
  <2> QED BY <2>4, <2>5
<1>13. v > 0 => (s + 1 - k) * d + 0 = o + (b + m - pa)
  <2>1. SUFFICES ASSUME v > 0 PROVE (s + 1 - k) * d = o + (b + m - pa)
    BY SectorNext
  <2>2. PICK w \in Int : w = (s - k) * d /\ (s + 1 - k) * d = w + d
    BY SectorNext
  <2>3. m = d - t
    BY <1>5, <1>6, <2>1
  <2> QED BY <1>4, <2>2, <2>3
<1>14. (b + m) - pa + (v - 0) = z
  BY <1>4, <1>5, <1>6
<1>15. ReadAt'
  <2>1. rd'.buf = b + m /\ rd'.size = v /\ rd'.sect = s + 1 /\ rd'.skip = 0
    BY <1>7
  <2>2. image' = image /\ seg' = seg /\ image.phdrs[seg] = Loading!Phdr
    BY <1>1 DEF Loading!Phdr
  <2>3. pa <= b + m /\ 0 < SectSize
    BY <1>2, <1>4
  <2> QED BY <1>2, <1>12, <1>13, <1>14, <2>1, <2>2, <2>3 DEF ReadAt
<1>16. LoadedTo = seg - 1 /\ LoadedTo' = seg - 1
  BY <1>1 DEF LoadedTo
<1>17. EntryAt(entry, LoadedTo) => EntryAt(entry, LoadedTo)'
  BY <1>1, <1>16 DEF EntryAt, Loading!EntryIn
<1>18. DOMAIN memory' = Loading!Addresses
  BY <1>1, OverAt
<1> QED BY <1>1, <1>11, <1>15, <1>16, <1>17, <1>18 DEF ImgInv, Loading!Addresses

LEMMA LoadingReadDone == ASSUME ImgInv, Loading!ReadDone PROVE ImgInv'
<1>1. /\ phase = "read" /\ loader = "disk" /\ phase' = "clear" /\ rd.size = 0
      /\ UNCHANGED <<loader, image, memory, seg, rd, entry, kdiskoffset>> /\ ReadAt
  BY DEF Loading!ReadDone, ImgInv, Loading!file
<1>2. FileRight(memory, image.phdrs[seg])
  <2>1. PICK pa \in Nat, z \in Nat, b \in Nat :
          pa = Loading!Phdr.pa /\ z = Loading!Phdr.filesz /\ b = rd.buf
    BY <1>1, TurnOf DEF ReadAt
  <2>2. rd.skip = 0 /\ b - pa + (0 - 0) = z
    <3>1. PICK t \in Nat : t = rd.skip
      BY <1>1 DEF ReadAt
    <3>2. t <= 0 /\ b - pa + (0 - t) = z
      BY <1>1, <2>1, <3>1 DEF ReadAt, Loading!Phdr
    <3> QED BY <3>1, <3>2
  <2>3. b - 1 = pa + z - 1
    BY <2>2
  <2> QED BY <1>1, <2>1, <2>3 DEF ReadAt, FileRight, Loading!Phdr
<1>3. LoadedTo = seg - 1 /\ LoadedTo' = seg - 1
  BY <1>1 DEF LoadedTo
<1>4. EntryAt(entry, LoadedTo) => EntryAt(entry, LoadedTo)'
  BY <1>1, <1>3 DEF EntryAt, Loading!EntryIn
<1> QED BY <1>1, <1>2, <1>3, <1>4 DEF ImgInv, Loading!Addresses

LEMMA LoadingCopiesFile == ASSUME ImgInv, Loading!CopyFile PROVE ImgInv'
<1>1. CASE Loading!Panic
  BY <1>1, LoadingPanics
<1> DEFINE got == [a \in Loading!Phdr.pa .. Loading!Phdr.pa + Loading!Phdr.filesz - 1 |->
                     memory[ElfStart + Loading!Phdr.offset + a - Loading!Phdr.pa]]
<1>2. SUFFICES ASSUME ~Loading!Panic PROVE ImgInv'
  BY <1>1
<1>3. /\ phase = "load" /\ loader = "ram" /\ phase' = "clear"
      /\ ~(ElfStart <= Loading!Phdr.pa /\ Loading!Phdr.pa < ElfStart + image.length)
      /\ UNCHANGED <<loader, image, kdiskoffset, seg, entry>>
      /\ memory' = Loading!Over(got, memory)
  BY <1>2 DEF Loading!CopyFile, Loading!file
<1>4. PICK o \in Nat, pa \in Nat, z \in Nat, mz \in Nat, e \in Nat, len \in Nat, top \in Nat :
        /\ o = Loading!Phdr.offset /\ pa = Loading!Phdr.pa
        /\ z = Loading!Phdr.filesz /\ mz = Loading!Phdr.memsz
        /\ z <= mz /\ pa + mz <= top /\ e = ElfStart /\ len = image.length /\ top = MemTop
  BY <1>3, TurnOf, LoaderSizes, HeaderFields
<1>5. o + z <= len /\ e + len <= top /\ (pa < e => pa + mz <= e) /\ (pa < e \/ pa >= e + len)
  <2>1. Loading!WellMade("ram", image) /\ seg \in DOMAIN image.phdrs
    BY <1>3, TurnOf, HeaderFields
  <2>2. e + len <= top
    BY <1>4, <2>1 DEF Loading!WellMade
  <2>3. o + z <= len /\ (pa < e => pa + mz <= e)
    BY <1>4, <2>1 DEF Loading!WellMade, Loading!Ends, Loading!Phdr
  <2>4. pa < e \/ pa >= e + len
    <3>1. ~(e <= pa /\ pa < e + len)
      BY <1>3, <1>4
    <3> QED BY <3>1
  <2> QED BY <2>2, <2>3, <2>4
<1>6. DOMAIN got = pa .. pa + z - 1 /\ \A a \in pa .. pa + z - 1 : got[a] = o + (a - pa) + 1
  <2>1. ASSUME NEW a \in pa .. pa + z - 1 PROVE got[a] = o + (a - pa) + 1
    <3>1. o + (a - pa) \in 0 .. len - 1 /\ e + o + a - pa = e + (o + (a - pa))
      BY <1>5, <2>1
    <3>2. memory[e + (o + (a - pa))] = o + (a - pa) + 1
      BY <1>3, <1>4, <3>1 DEF ImgInv, FileThere
    <3>3. got[a] = memory[e + o + a - pa]
      BY <1>4, <2>1
    <3> QED BY <3>1, <3>2, <3>3
  <2> QED BY <1>4, <2>1
<1> HIDE DEF got
<1>7. \A i \in 1 .. seg - 1 : SegRight(memory', image.phdrs[i])
  <2>1. \A a \in DOMAIN got : a \in Int /\ a >= pa /\ a < pa + mz
    <3>1. \A a \in pa .. pa + z - 1 : a \in Int /\ a >= pa /\ a < pa + mz
      BY <1>4
    <3> QED BY <1>6, <3>1
  <2> QED BY <1>3, <1>4, <2>1, TurnKeeps
<1>8. FileRight(memory', image.phdrs[seg])
  <2>1. ASSUME NEW a \in pa .. pa + z - 1 PROVE memory'[a] = o + (a - pa) + 1
    <3>1. a \in Loading!Addresses
      BY <1>4, <2>1 DEF Loading!Addresses
    <3> QED BY <1>3, <1>6, <3>1, OverAt
  <2> QED BY <1>4, <2>1 DEF FileRight, Loading!Phdr
<1>9. FileThere'
  <2>1. SUFFICES ASSUME NEW x \in 0 .. len - 1 PROVE memory'[e + x] = x + 1
    BY <1>3, <1>4 DEF FileThere
  <2>2. e + x \in Loading!Addresses /\ e + x \notin pa .. pa + z - 1
    BY <1>4, <1>5, <2>1 DEF Loading!Addresses
  <2>3. memory'[e + x] = memory[e + x]
    BY <1>3, <1>6, <2>2, OverAt
  <2> QED BY <1>3, <1>4, <2>1, <2>3 DEF ImgInv, FileThere
<1>10. OffFile(image.phdrs[seg])
  BY <1>4, <1>5 DEF OffFile, Loading!Phdr
<1>11. LoadedTo = seg - 1 /\ LoadedTo' = seg - 1
  BY <1>3 DEF LoadedTo
<1>12. EntryAt(entry, LoadedTo) => EntryAt(entry, LoadedTo)'
  BY <1>3, <1>11 DEF EntryAt, Loading!EntryIn
<1>13. DOMAIN memory' = Loading!Addresses
  BY <1>3, OverAt
<1>14. FileRight(memory, image.phdrs[seg])' /\ OffFile(image.phdrs[seg])'
  BY <1>3, <1>8, <1>10 DEF OffFile
<1> QED BY <1>3, <1>7, <1>9, <1>11, <1>12, <1>13, <1>14 DEF ImgInv, Loading!Addresses

LEMMA LoadingReadsDisk == ASSUME ImgInv, Loading!BootReadDisk PROVE ImgInv'
<1> DEFINE sectors == (Loading!Phdr.filesz + SectSize - 1) \div SectSize
           from == Loading!Getpartition + Loading!Phdr.offset \div SectSize
           got == [a \in Loading!Phdr.pa .. Loading!Phdr.pa + sectors * SectSize - 1 |->
                     Loading!OnDisk(from, a - Loading!Phdr.pa)]
<1>1. /\ phase = "load" /\ loader = "mbr" /\ phase' = "clear"
      /\ UNCHANGED <<loader, image, kdiskoffset, seg, entry>>
      /\ memory' = IF Loading!Phdr.pa = MbrAddr THEN memory ELSE Loading!Over(got, memory)
  BY DEF Loading!BootReadDisk, Loading!file
<1>2. PICK o \in Nat, pa \in Nat, z \in Nat, mz \in Nat, k \in Nat, d \in Nat \ {0}, top \in Nat :
        /\ o = Loading!Phdr.offset /\ pa = Loading!Phdr.pa
        /\ z = Loading!Phdr.filesz /\ mz = Loading!Phdr.memsz
        /\ z <= mz /\ pa + mz <= top /\ top = MemTop
        /\ k = Loading!Getpartition /\ d = SectSize
  BY <1>1, TurnOf, LoaderSizes
<1>3. /\ o % d = 0
      /\ pa = MbrAddr => seg = 1 /\ o = 0 /\ mz = z /\ z <= d
  <2>1. Loading!WellMade("mbr", image) /\ seg \in DOMAIN image.phdrs
    BY <1>1, TurnOf, HeaderFields
  <2> QED BY <1>2, <2>1 DEF Loading!WellMade, Loading!Phdr
<1>4. PICK y \in Nat : y = sectors * SectSize /\ z <= y
  BY <1>2, SectorsHold
<1>5. DOMAIN got = pa .. pa + y - 1 /\ \A a \in pa .. pa + y - 1 : got[a] = o + (a - pa) + 1
  <2>1. ASSUME NEW a \in pa .. pa + y - 1 PROVE got[a] = o + (a - pa) + 1
    <3>1. got[a] = Loading!OnDisk(from, a - pa)
      BY <1>2, <1>4, <2>1
    <3>2. Loading!OnDisk(from, a - pa) = (from - Loading!Getpartition) * SectSize + (a - pa) + 1
      BY <1>1, LoaderSizes DEF Loading!OnDisk, Loading!Byte
    <3>3. (k + o \div d - k) * d = o
      BY <1>3, SectorAt
    <3>4. (from - Loading!Getpartition) * SectSize = o
      BY <1>2, <3>3
    <3> QED BY <3>1, <3>2, <3>4
  <2> QED BY <1>2, <1>4, <2>1
<1> HIDE DEF got
<1>6. FileRight(memory', image.phdrs[seg])
  <2>1. SUFFICES ASSUME NEW a \in pa .. pa + z - 1 PROVE memory'[a] = o + (a - pa) + 1
    BY <1>2 DEF FileRight, Loading!Phdr
  <2>2. CASE pa = MbrAddr
    <3>1. PICK x \in Nat : x = a - pa /\ x \in 0 .. d - 1 /\ pa + x = a /\ pa + x < top
      BY <1>2, <1>3, <2>1, <2>2
    <3>2. memory[pa + x] = x + 1
      BY <1>1, <1>2, <1>3, <2>2, <3>1 DEF ImgInv, SectorThere
    <3>3. o + (a - pa) + 1 = x + 1
      BY <1>3, <2>2, <3>1
    <3> QED BY <1>1, <1>2, <2>2, <3>1, <3>2, <3>3
  <2>3. CASE pa # MbrAddr
    <3>1. a \in Loading!Addresses /\ a \in pa .. pa + y - 1
      BY <1>2, <1>4, <2>1 DEF Loading!Addresses
    <3> QED BY <1>1, <1>2, <1>5, <2>3, <3>1, OverAt
  <2> QED BY <2>2, <2>3
<1>7. \A i \in 1 .. seg - 1 : SegRight(memory', image.phdrs[i])
  <2>1. CASE pa = MbrAddr
    BY <1>1, <1>2, <2>1, TurnOf DEF ImgInv
  <2>2. CASE pa # MbrAddr
    <3>1. \A a \in pa .. pa + y - 1 : a \in Int /\ a >= pa
      OBVIOUS
    <3>2. \A a \in DOMAIN got : a \in Int /\ a >= Loading!Phdr.pa
      BY <1>2, <1>5, <3>1
    <3> QED BY <1>1, <1>2, <2>2, <3>2, TurnKeeps
  <2> QED BY <2>1, <2>2
<1>8. LoadedTo = seg - 1 /\ LoadedTo' = seg - 1
  BY <1>1 DEF LoadedTo
<1>9. DOMAIN memory' = Loading!Addresses
  BY <1>1, OverAt DEF ImgInv
<1>10. FileRight(memory, image.phdrs[seg])'
  BY <1>1, <1>6
<1> QED BY <1>1, <1>7, <1>8, <1>9, <1>10 DEF ImgInv, Loading!Addresses

(* The entry moves with the one segment it lies in.                        *)
LEMMA EntryMoves ==
  ASSUME ImgInv, loader # "mbr", NEW s \in 1 .. Len(image.phdrs), EntryAt(entry, s - 1), NEW e,
         LET ph == image.phdrs[s] IN
         e = IF ph.va <= entry /\ entry < ph.va + ph.memsz THEN entry - ph.va + ph.pa ELSE entry
  PROVE  EntryAt(e, s)
<1>1. loader \in LoaderNames /\ image \in Images[loader] /\ Len(image.phdrs) \in Nat
  BY HeaderFields DEF ImgInv
<1>2. PICK v \in Nat, p \in Nat, n \in Nat, x \in Nat :
        /\ v = image.phdrs[s].va /\ p = image.phdrs[s].pa /\ n = image.phdrs[s].memsz
        /\ x = image.entry
  BY <1>1, HeaderFields
<1>3. CASE \E i \in 1 .. s - 1 : Loading!EntryIn(image.phdrs[i])
  <2>1. PICK i \in 1 .. s - 1 : Loading!EntryIn(image.phdrs[i])
    BY <1>3
  <2>2. i \in 1 .. Len(image.phdrs) /\ i < s
    BY <1>1, <2>1
  <2>3. PICK vi \in Nat, pi \in Nat, ni \in Nat :
          vi = image.phdrs[i].va /\ pi = image.phdrs[i].pa /\ ni = image.phdrs[i].memsz
    BY <1>1, <2>2, HeaderFields
  <2>4. /\ vi + ni <= v \/ v + n <= vi
        /\ pi + ni <= v \/ v + n <= pi \/ v = p
    BY <1>1, <1>2, <2>2, <2>3, HeadersApart
  <2>5. vi <= x /\ x < vi + ni /\ entry = x - vi + pi
    BY <1>2, <2>1, <2>3 DEF Loading!EntryIn, EntryAt
  <2>6. ~(v <= x /\ x < v + n)
    BY <2>4, <2>5
  <2>7. ~Loading!EntryIn(image.phdrs[s])
    BY <1>2, <2>6 DEF Loading!EntryIn
  <2>8. e = entry
    <3>1. e = IF v <= entry /\ entry < v + n THEN entry - v + p ELSE entry
      BY <1>2
    <3>2. (v <= entry /\ entry < v + n) => v = p
      BY <2>4, <2>5
    <3>3. entry \in Int
      BY <2>5
    <3> QED BY <3>1, <3>2, <3>3
  <2>9. \A j \in 1 .. s : j \in 1 .. s - 1 \/ j = s
    BY <1>1
  <2> QED BY <1>3, <2>7, <2>8, <2>9 DEF EntryAt
<1>4. CASE \A i \in 1 .. s - 1 : ~Loading!EntryIn(image.phdrs[i])
  <2>1. entry = x
    BY <1>2, <1>4 DEF EntryAt
  <2>2. Loading!EntryIn(image.phdrs[s]) <=> v <= x /\ x < v + n
    BY <1>2 DEF Loading!EntryIn
  <2>3. e = IF v <= x /\ x < v + n THEN x - v + p ELSE x
    BY <1>2, <2>1
  <2>4. \A j \in 1 .. s : j \in 1 .. s - 1 \/ j = s
    BY <1>1
  <2> QED BY <1>2, <1>4, <2>2, <2>3, <2>4 DEF EntryAt
<1> QED BY <1>3, <1>4

LEMMA TailInside ==
  ASSUME NEW pa \in Nat, NEW z \in Nat, NEW mz \in Nat
  PROVE  \A a \in pa + z .. pa + mz - 1 : a \in Int /\ a >= pa /\ a < pa + mz
OBVIOUS

LEMMA LoadingNextPhdr == ASSUME ImgInv, Loading!NextPhdr PROVE ImgInv'
<1> DEFINE zeros == [a \in Loading!Cleared(Loading!Phdr) |-> 0]
<1>1. /\ phase = "clear"
      /\ UNCHANGED <<loader, image, kdiskoffset, rd>>
      /\ memory' = Loading!Over(zeros, memory)
      /\ \/ seg < Len(image.phdrs) /\ seg' = seg + 1 /\ phase' = "load"
         \/ /\ seg >= Len(image.phdrs) /\ seg' = seg
            /\ phase' = IF loader = "mbr" THEN "jump" ELSE "hook"
      /\ FileRight(memory, image.phdrs[seg])
  BY TurnOf DEF Loading!NextPhdr, Loading!file, ImgInv
<1>2. PICK o \in Nat, pa \in Nat, z \in Nat, mz \in Nat, top \in Nat, s \in Nat, n \in Nat :
        /\ o = Loading!Phdr.offset /\ pa = Loading!Phdr.pa
        /\ z = Loading!Phdr.filesz /\ mz = Loading!Phdr.memsz
        /\ z <= mz /\ pa + mz <= top /\ top = MemTop
        /\ s = seg /\ n = Len(image.phdrs) /\ s \in 1 .. n
  <2>1. PICK s \in Nat, n \in Nat : s = seg /\ n = Len(image.phdrs) /\ s \in 1 .. n
    <3>1. seg \in 1 .. Len(image.phdrs) /\ Len(image.phdrs) \in Nat
      BY <1>1, TurnOf
    <3>2. seg \in Nat
      BY <3>1
    <3> QED BY <3>1, <3>2, Zenon
  <2>2. PICK o \in Nat, pa \in Nat, z \in Nat, mz \in Nat, top \in Nat :
          /\ o = Loading!Phdr.offset /\ pa = Loading!Phdr.pa
          /\ z = Loading!Phdr.filesz /\ mz = Loading!Phdr.memsz
          /\ z <= mz /\ pa + mz <= top /\ top = MemTop
    BY <1>1, TurnOf, LoaderSizes
  <2> QED BY <2>1, <2>2, Zenon
<1>3. LoadedTo = s - 1 /\ LoadedTo' = s
  <2>1. LoadedTo = s - 1
    BY <1>1, <1>2 DEF LoadedTo
  <2>2. CASE seg' = seg + 1 /\ phase' = "load"
    <3>1. LoadedTo' = s + 1 - 1
      BY <1>2, <2>2 DEF LoadedTo
    <3> QED BY <2>1, <3>1
  <2>3. CASE seg >= Len(image.phdrs) /\ phase' \in {"hook", "jump"}
    <3>1. LoadedTo' = n /\ s = n
      BY <1>1, <1>2, <2>3 DEF LoadedTo
    <3> QED BY <2>1, <3>1
  <2> QED BY <1>1, <2>1, <2>2, <2>3
<1>4. \A a : a \in DOMAIN zeros <=> a \in pa + z .. pa + mz - 1
  <2>1. Loading!Cleared(Loading!Phdr) = pa + z .. pa + mz - 1
    <3>1. CASE loader = "mbr" /\ pa = MbrAddr
      <4>1. mz = z
        <5>1. Loading!WellMade("mbr", image) /\ seg \in DOMAIN image.phdrs
          BY <1>1, <3>1, TurnOf, HeaderFields
        <5> QED BY <1>2, <3>1, <5>1 DEF Loading!WellMade, Loading!Phdr
      <4>2. Loading!Cleared(Loading!Phdr) = {}
        BY <1>2, <3>1 DEF Loading!Cleared
      <4>3. pa + z .. pa + mz - 1 = {}
        BY <4>1
      <4> QED BY <4>2, <4>3
    <3>2. CASE ~(loader = "mbr" /\ pa = MbrAddr)
      BY <1>2, <3>2 DEF Loading!Cleared
    <3> QED BY <3>1, <3>2
  <2> QED BY <2>1
<1>5. \A a \in DOMAIN zeros : zeros[a] = 0
  OBVIOUS
<1> HIDE DEF zeros
<1>6. \A i \in 1 .. seg - 1 : SegRight(memory', image.phdrs[i])
  <2>1. \A a \in pa + z .. pa + mz - 1 : a \in Int /\ a >= pa /\ a < pa + mz
    BY TailInside
  <2>2. \A a \in DOMAIN zeros : a \in Int /\ a >= pa /\ a < pa + mz
    BY <1>4, <2>1
  <2> QED BY <1>1, <1>2, <2>2, TurnKeeps
<1>7. SegRight(memory', image.phdrs[seg])
  <2>1. SUFFICES ASSUME NEW a \in pa .. pa + mz - 1
                 PROVE  memory'[a] = IF a < pa + z THEN o + (a - pa) + 1 ELSE 0
    BY <1>2 DEF SegRight, Loading!Phdr
  <2>2. a \in Loading!Addresses
    BY <1>2, <2>1 DEF Loading!Addresses
  <2>3. memory'[a] = IF a \in DOMAIN zeros THEN zeros[a] ELSE memory[a]
    BY <1>1, <2>2, OverAt
  <2>4. CASE a < pa + z
    <3>1. a \in pa .. pa + z - 1 /\ a \notin pa + z .. pa + mz - 1
      BY <2>1, <2>4
    <3>2. memory[a] = o + (a - pa) + 1
      BY <1>1, <1>2, <3>1 DEF FileRight, Loading!Phdr
    <3> QED BY <1>4, <2>3, <2>4, <3>1, <3>2
  <2>5. CASE ~(a < pa + z)
    <3>1. a \in pa + z .. pa + mz - 1
      BY <2>1, <2>5
    <3> QED BY <1>4, <1>5, <2>3, <2>5, <3>1
  <2> QED BY <2>4, <2>5
<1>8. \A i \in 1 .. s : SegRight(memory', image.phdrs[i])
  <2>1. \A i \in 1 .. s : i \in 1 .. s - 1 \/ i = s
    OBVIOUS
  <2> QED BY <1>2, <1>6, <1>7, <2>1
<1>9. loader = "ram" => FileThere'
  <2>1. SUFFICES ASSUME loader = "ram" PROVE FileThere'
    OBVIOUS
  <2>2. PICK e \in Nat, len \in Nat : e = ElfStart /\ len = image.length
    BY <1>1, TurnOf, LoaderSizes, HeaderFields
  <2>3. e + len <= top /\ (pa < e => pa + mz <= e) /\ (pa < e \/ pa >= e + len)
    <3>1. Loading!WellMade("ram", image) /\ seg \in DOMAIN image.phdrs
      BY <1>1, <2>1, TurnOf, HeaderFields
    <3>2. e + len <= top
      BY <1>2, <2>2, <3>1 DEF Loading!WellMade
    <3>3. pa < e => pa + mz <= e
      BY <1>2, <2>2, <3>1 DEF Loading!WellMade, Loading!Ends, Loading!Phdr
    <3>4. OffFile(image.phdrs[seg])
      BY <1>1, <2>1 DEF ImgInv
    <3>5. pa < e \/ pa >= e + len
      BY <1>2, <2>2, <3>4 DEF OffFile, Loading!Phdr
    <3> QED BY <3>2, <3>3, <3>5
  <2>4. SUFFICES ASSUME NEW x \in 0 .. len - 1 PROVE memory'[e + x] = x + 1
    BY <1>1, <2>2 DEF FileThere
  <2>5. e + x \in Loading!Addresses /\ e + x \notin pa + z .. pa + mz - 1
    <3>1. e + x \in 0 .. top - 1
      BY <2>3, <2>4
    <3>2. pa < e => e + x \notin pa + z .. pa + mz - 1
      BY <2>3, <2>4
    <3>3. pa >= e + len => e + x \notin pa + z .. pa + mz - 1
      BY <2>4
    <3>4. e + x \notin pa + z .. pa + mz - 1
      BY <2>3, <3>2, <3>3
    <3> QED BY <1>2, <3>1, <3>4 DEF Loading!Addresses
  <2>6. memory'[e + x] = memory[e + x]
    BY <1>1, <1>4, <2>5, OverAt
  <2>7. memory[e + x] = x + 1
    BY <1>1, <2>1, <2>2, <2>4 DEF ImgInv, FileThere
  <2> QED BY <2>6, <2>7
<1>10. loader # "mbr" => EntryAt(entry', s)
  <2>1. SUFFICES ASSUME loader # "mbr" PROVE EntryAt(entry', s)
    OBVIOUS
  <2>2. EntryAt(entry, s - 1)
    BY <1>1, <1>3, <2>1 DEF ImgInv
  <2>3. LET ph == image.phdrs[s] IN
        entry' = IF ph.va <= entry /\ entry < ph.va + ph.memsz THEN entry - ph.va + ph.pa ELSE entry
    BY <1>2, <2>1 DEF Loading!NextPhdr, Loading!Phdr
  <2> QED BY <1>2, <2>1, <2>2, <2>3, EntryMoves
<1>11. loader # "mbr" => EntryAt(entry, LoadedTo)'
  BY <1>1, <1>3, <1>10 DEF EntryAt, Loading!EntryIn
<1>12. DOMAIN memory' = Loading!Addresses
  BY <1>1, OverAt
<1>13. seg' = 1 => phase' # "load"
  BY <1>1, <1>2
<1>14. phase' = "load" => seg' \in 1 .. Len(image.phdrs)
  BY <1>1, <1>2
<1>15. image' = image /\ loader' = loader /\ kdiskoffset' = kdiskoffset
  BY <1>1
<1>16. \A i \in 1 .. LoadedTo' : SegRight(memory', image'.phdrs[i])
  BY <1>3, <1>8, <1>15
<1>17. phase' \in {"load", "hook", "jump"} /\ (phase' = "hook" => loader # "mbr")
  BY <1>1
<1> QED BY <1>1, <1>9, <1>11, <1>12, <1>13, <1>14, <1>15, <1>16, <1>17 DEF ImgInv, Loading!Addresses

LEMMA LoadingSetsHook == ASSUME ImgInv, Loading!SetHook PROVE ImgInv'
<1> DEFINE hook == [a \in Hooks[loader] |-> -2]
<1>1. /\ phase = "hook" /\ phase' = "jump" /\ loader # "mbr"
      /\ UNCHANGED <<loader, image, kdiskoffset, seg, rd, entry>>
      /\ memory' = Loading!Over(hook, memory)
  BY DEF Loading!SetHook, Loading!file, ImgInv
<1>2. LoadedTo = Len(image.phdrs) /\ LoadedTo' = Len(image.phdrs)
  BY <1>1 DEF LoadedTo
<1>3. \A i \in 1 .. Len(image.phdrs) : SegRight(memory', image.phdrs[i])
  <2>1. SUFFICES ASSUME NEW i \in 1 .. Len(image.phdrs) PROVE SegRight(memory', image.phdrs[i])
    OBVIOUS
  <2>2. /\ loader \in LoaderNames /\ image \in Images[loader] /\ SegRight(memory, image.phdrs[i])
    BY <1>1, <1>2 DEF ImgInv
  <2>3. PICK pa \in Nat, mz \in Nat : pa = image.phdrs[i].pa /\ mz = image.phdrs[i].memsz
    BY <2>2, HeaderFields
  <2>4. \A a \in Hooks[loader] : a < pa \/ a >= pa + mz
    BY <1>1, <2>2, <2>3, HeaderFields DEF Loading!WellMade, Loading!Ends
  <2>5. \A a \in DOMAIN hook : a \notin pa .. pa + mz - 1
    BY <2>4
  <2> HIDE DEF hook
  <2> QED BY <1>1, <2>2, <2>3, <2>5, SegKept
<1>4. EntryAt(entry, LoadedTo)'
  BY <1>1, <1>2 DEF ImgInv, EntryAt, Loading!EntryIn
<1>5. DOMAIN memory' = Loading!Addresses
  BY <1>1, OverAt
<1> QED BY <1>1, <1>2, <1>3, <1>4, <1>5 DEF ImgInv, Loading!Addresses

LEMMA LoadingStays == ASSUME ImgInv, UNCHANGED Loading!vars PROVE ImgInv'
<1>1. UNCHANGED <<loader, image, kdiskoffset, memory, seg, rd, entry, phase>>
  BY DEF Loading!vars, Loading!file
<1> QED BY <1>1 DEF ImgInv, LoadedTo, EntryAt, ReadAt, FileThere, SectorThere, OffFile,
             FileRight, SegRight, Loading!EntryIn, Loading!Addresses

LEMMA LoadingArrives == ImgInv => ImageLoaded
<1> SUFFICES ASSUME ImgInv, phase = "jump" PROVE ImageLoaded
  BY DEF ImageLoaded, Loading!ImageLoaded
<1>1. loader \in LoaderNames /\ image \in Images[loader] /\ LoadedTo = Len(image.phdrs)
  BY DEF ImgInv, LoadedTo
<1>2. DOMAIN image.phdrs = 1 .. Len(image.phdrs)
  BY <1>1, HeaderFields
<1>3. ASSUME NEW i \in DOMAIN image.phdrs, NEW o \in 0 .. image.phdrs[i].memsz - 1
      PROVE  memory[image.phdrs[i].pa + o]
               = IF o < image.phdrs[i].filesz THEN Loading!Byte(image.phdrs[i].offset + o) ELSE 0
  <2>1. PICK f \in Nat, pa \in Nat, z \in Nat, mz \in Nat :
          /\ f = image.phdrs[i].offset /\ pa = image.phdrs[i].pa
          /\ z = image.phdrs[i].filesz /\ mz = image.phdrs[i].memsz
    BY <1>1, <1>2, HeaderFields
  <2>2. \A a \in pa .. pa + mz - 1 : memory[a] = IF a < pa + z THEN f + (a - pa) + 1 ELSE 0
    BY <1>1, <1>2, <2>1 DEF ImgInv, SegRight
  <2>3. pa + o \in pa .. pa + mz - 1 /\ pa + o - pa = o /\ (pa + o < pa + z <=> o < z)
    BY <1>3, <2>1
  <2>4. memory[pa + o] = IF o < z THEN f + o + 1 ELSE 0
    BY <2>2, <2>3
  <2> QED BY <2>1, <2>4 DEF Loading!Byte
<1>4. ASSUME loader # "mbr", NEW i \in DOMAIN image.phdrs, Loading!EntryIn(image.phdrs[i])
      PROVE  entry = image.entry - image.phdrs[i].va + image.phdrs[i].pa
  BY <1>1, <1>2, <1>4 DEF ImgInv, EntryAt
<1> QED BY <1>3, <1>4 DEF ImageLoaded, Loading!ImageLoaded

(* For any well made files, sectors, partitions and memory: when a loader  *)
(* jumps, each segment holds its bytes of the file and then zeros, and the *)
(* address called is where the entry was loaded (bootmain.c, kernreader.c  *)
(* of both ports, load_elf_phdr of bootasm.S).                             *)
THEOREM LoaderLoadsImage == Loading!Spec => []ImageLoaded
<1>1. Loading!Init => ImgInv
  BY LoadingStarts
<1>2. ImgInv /\ [Loading!Next]_(Loading!vars) => ImgInv'
  <2> SUFFICES ASSUME ImgInv, [Loading!Next]_(Loading!vars) PROVE ImgInv'
    OBVIOUS
  <2>1. CASE Loading!KernreaderInit \/ Loading!KernreaderInitDisk \/ Loading!Checked
             \/ Loading!BootChecked
    BY <2>1, LoadingChecks
  <2>2. CASE Loading!ReadFile
    BY <2>2, LoadingReadsFile
  <2>3. CASE Loading!ReadSector
    BY <2>3, LoadingReadsSector
  <2>4. CASE Loading!DiskFails \/ Loading!BootDiskFails
    BY <2>4, LoadingPanics DEF Loading!DiskFails, Loading!BootDiskFails
  <2>5. CASE Loading!ReadDone
    BY <2>5, LoadingReadDone
  <2>6. CASE Loading!CopyFile
    BY <2>6, LoadingCopiesFile
  <2>7. CASE Loading!BootReadDisk
    BY <2>7, LoadingReadsDisk
  <2>8. CASE Loading!NextPhdr
    BY <2>8, LoadingNextPhdr
  <2>9. CASE Loading!SetHook
    BY <2>9, LoadingSetsHook
  <2>10. CASE UNCHANGED Loading!vars
    BY <2>10, LoadingStays
  <2> QED BY <2>1, <2>2, <2>3, <2>4, <2>5, <2>6, <2>7, <2>8, <2>9, <2>10 DEF Loading!Next
<1>3. ImgInv => ImageLoaded
  BY LoadingArrives
<1> QED BY <1>1, <1>2, <1>3, PTL DEF Loading!Spec

-----------------------------------------------------------------------------
(* The C library: loops of assignments.                                    *)

LEMMA TextSizes == Size \in Nat /\ Word \in Nat \ {0} /\ TextSize \in Nat /\ Bytes \subseteq Nat
BY LoadersAssumption DEF LoadersAssumption, Libc!StringsAssumption

(* The offsets one assignment copies.                                      *)
Part(p) == p.o .. p.o + p.n - 1

(* A loop that reads inside memory, and nothing it has written before.     *)
ReadsIn(u, s, top) == \A k \in 1 .. Len(u) : \A x \in Part(u[k]) : s + x \in 0 .. top - 1
ReadsFirst(u, d, s) ==
  \A j \in 1 .. Len(u), k \in 1 .. Len(u) : j < k =>
    \A x \in Part(u[j]), y \in Part(u[k]) : d + x # s + y

(* The bytes at the offsets of a loop are those of the source.             *)
Copies(m, after, d, s, u) ==
  \A i \in DOMAIN m :
    after[i] = IF \E k \in 1 .. Len(u) : i - d \in Part(u[k]) THEN m[s + (i - d)] ELSE m[i]

(* A loop of assignments, none of which reads what an earlier one wrote,   *)
(* moves the bytes at the offsets it copies, and changes no other.         *)
LEMMA AssignedMoves ==
  ASSUME NEW T, NEW top \in Nat, NEW m \in [0 .. top - 1 -> T], NEW d \in Nat, NEW s \in Nat,
         NEW u \in Seq([o : Nat, n : Nat]),
         ReadsIn(u, s, top), ReadsFirst(u, d, s)
  PROVE  /\ Libc!Assigned(m, d, s, u) \in [0 .. top - 1 -> T]
         /\ Copies(m, Libc!Assigned(m, d, s, u), d, s, u)
<1> DEFINE M == [0 .. top - 1 -> T]
           n == Len(u)
           One(x, k) == Libc!Assign(x, d + u[k].o, s + u[k].o, u[k].n)
           R(f, k) == IF k = 0 THEN m ELSE One(f[k - 1], k)
           E(f) == f = [k \in 0 .. n |-> R(f, k)]
           done == CHOOSE f : E(f)
           g == [k \in 0 .. n - 1 |-> [x \in M |-> One(x, k + 1)]]
<1>1. n \in Nat /\ DOMAIN u = 1 .. n /\ \A k \in 1 .. n : u[k] \in [o : Nat, n : Nat]
  BY LenProperties, ElementOfSeq
<1>2. Libc!Assigned(m, d, s, u) = done[n]
  BY DEF Libc!Assigned
<1>3. ASSUME NEW k \in 1 .. n, NEW x \in M
      PROVE  /\ One(x, k) \in M
             /\ \A i \in 0 .. top - 1 :
                  One(x, k)[i] = IF i - d \in Part(u[k]) THEN x[s + (i - d)] ELSE x[i]
  <2>1. PICK a \in Nat, b \in Nat : a = u[k].o /\ b = u[k].n
    BY <1>1
  <2>2. DOMAIN x = 0 .. top - 1
    OBVIOUS
  <2>3. ASSUME NEW i \in 0 .. top - 1
        PROVE  /\ One(x, k)[i] = IF i - d \in Part(u[k]) THEN x[s + (i - d)] ELSE x[i]
               /\ One(x, k)[i] \in T
    <3>1. /\ i \in d + a .. d + a + b - 1 <=> i - d \in a .. a + b - 1
          /\ s + a + (i - (d + a)) = s + (i - d)
      BY <2>3
    <3>2. One(x, k)[i] = IF i \in d + a .. d + a + b - 1 THEN x[s + a + (i - (d + a))] ELSE x[i]
      BY <2>1, <2>2, <2>3 DEF Libc!Assign
    <3>3. i - d \in Part(u[k]) <=> i - d \in a .. a + b - 1
      BY <2>1 DEF Part
    <3>4. i - d \in Part(u[k]) => s + (i - d) \in 0 .. top - 1
      BY DEF ReadsIn, n
    <3> QED BY <3>1, <3>2, <3>3, <3>4
  <2>4. One(x, k) = [i \in 0 .. top - 1 |-> One(x, k)[i]]
    BY <2>2 DEF Libc!Assign
  <2> HIDE DEF One
  <2> QED BY <2>3, <2>4
<1> HIDE DEF One, n
<1>4. g \in [0 .. n - 1 -> [M -> M]]
  <2>1. \A k \in 0 .. n - 1 : k + 1 \in 1 .. n
    BY <1>1
  <2> HIDE DEF M
  <2> QED BY <1>3, <2>1
<1>5. PICK f \in [0 .. n -> M] : f[0] = m /\ \A k \in 0 .. n - 1 : f[k + 1] = g[k][f[k]]
  <2> HIDE DEF g, M
  <2>0. m \in M
    BY DEF M
  <2>1. PICK f \in [0 .. n -> M] : RecursTo(f, m, g, n)
    BY <1>1, <1>4, <2>0, BoundedRecursion
  <2> QED BY <2>1 DEF RecursTo
<1>6. E(f)
  <2>1. ASSUME NEW k \in 0 .. n PROVE f[k] = R(f, k)
    <3>1. CASE k = 0
      BY <1>5, <3>1
    <3>2. CASE k # 0
      <4> HIDE DEF M
      <4>1. k - 1 \in 0 .. n - 1 /\ k - 1 \in 0 .. n /\ (k - 1) + 1 = k
        BY <1>1, <3>2, SMTT(30)
      <4>2. f[k] = g[k - 1][f[k - 1]] /\ f[k - 1] \in M
        BY <1>5, <4>1
      <4>3. g[k - 1][f[k - 1]] = One(f[k - 1], k)
        BY <4>1, <4>2
      <4> QED BY <3>2, <4>2, <4>3
    <3> QED BY <3>1, <3>2
  <2> HIDE DEF R, M
  <2> QED BY <1>5, <2>1
<1>7. E(done)
  <2> HIDE DEF E
  <2> QED BY <1>6
<1> HIDE DEF done
<1>8. done[0] = m /\ \A k \in 0 .. n - 1 : done[k + 1] = One(done[k], k + 1)
  <2>1. done[0] = m
    BY <1>1, <1>7
  <2>2. ASSUME NEW k \in 0 .. n - 1 PROVE done[k + 1] = One(done[k], k + 1)
    <3>1. k + 1 \in 0 .. n /\ k + 1 # 0 /\ (k + 1) - 1 = k
      BY <1>1
    <3> QED BY <1>7, <3>1
  <2> QED BY <2>1, <2>2
<1> HIDE DEF E, R
<1> DEFINE Over(i, k) == \E j \in 1 .. k : i - d \in Part(u[j])
           Good(k) == /\ done[k] \in M
                      /\ \A i \in 0 .. top - 1 :
                           done[k][i] = IF Over(i, k) THEN m[s + (i - d)] ELSE m[i]
           Bad == {k \in 0 .. n : ~Good(k)}
<1>9. Good(0)
  <2>1. \A j \in 1 .. 0 : FALSE
    OBVIOUS
  <2> QED BY <1>8, <2>1
<1>10. ASSUME NEW k \in 0 .. n - 1, Good(k) PROVE Good(k + 1)
  <2> HIDE DEF M, g, Over
  <2>0. k \in Nat /\ k < n
    BY <1>1
  <2>1. k + 1 \in 1 .. n /\ \A j \in 1 .. k + 1 : j \in 1 .. k \/ j = k + 1
    <3>1. k + 1 \in 1 .. n
      BY <1>1, <2>0
    <3>2. \A j \in 1 .. k + 1 : j \in 1 .. k \/ j = k + 1
      BY <2>0
    <3> QED BY <3>1, <3>2
  <2>2. \A j \in 1 .. k : j \in 1 .. n /\ j < k + 1 /\ j \in 1 .. k + 1
    BY <1>1
  <2>3. done[k + 1] = One(done[k], k + 1) /\ done[k] \in M
    BY <1>8, <1>10 DEF Good
  <2>4. done[k + 1] \in M
    BY <1>3, <2>1, <2>3
  <2>5. ASSUME NEW i \in 0 .. top - 1
        PROVE  done[k + 1][i] = IF Over(i, k + 1) THEN m[s + (i - d)] ELSE m[i]
    <3>1. done[k + 1][i] = IF i - d \in Part(u[k + 1]) THEN done[k][s + (i - d)] ELSE done[k][i]
      <4>1. PICK x \in M, l \in 1 .. n : x = done[k] /\ l = k + 1
        BY <2>1, <2>3
      <4>2. One(x, l)[i] = IF i - d \in Part(u[l]) THEN x[s + (i - d)] ELSE x[i]
        BY <1>3
      <4> QED BY <2>3, <4>1, <4>2
    <3>2. Over(i, k + 1) <=> Over(i, k) \/ i - d \in Part(u[k + 1])
      BY <2>1, <2>2 DEF Over
    <3>3. CASE i - d \in Part(u[k + 1])
      <4>1. PICK y \in Int : y = i - d
        OBVIOUS
      <4>2. s + y \in 0 .. top - 1
        BY <2>1, <3>3, <4>1 DEF n, ReadsIn
      <4>3. ~Over(s + y, k)
        <5>1. SUFFICES ASSUME NEW j \in 1 .. k, s + y - d \in Part(u[j]) PROVE FALSE
          BY DEF Over
        <5>2. d + (s + y - d) # s + y
          BY <2>1, <2>2, <3>3, <4>1, <5>1 DEF n, ReadsFirst
        <5> QED BY <5>2
      <4>4. done[k][s + y] = m[s + y]
        BY <1>10, <4>2, <4>3 DEF Good
      <4> QED BY <3>1, <3>2, <3>3, <4>1, <4>4
    <3>4. CASE i - d \notin Part(u[k + 1])
      BY <1>10, <3>1, <3>2, <3>4 DEF Good
    <3> QED BY <3>3, <3>4
  <2> QED BY <2>4, <2>5 DEF Good
<1> HIDE DEF Good
<1>11. Bad = {}
  <2>1. SUFFICES ASSUME Bad # {} PROVE FALSE
    OBVIOUS
  <2>2. Bad \subseteq Nat
    BY <1>1
  <2>3. PICK l \in Bad : \A k \in Bad : l <= k
    BY <2>1, <2>2, NatLeast, Zenon
  <2>4. l \in 0 .. n /\ ~Good(l) /\ l # 0
    BY <1>9, <2>3
  <2>5. l - 1 \in 0 .. n - 1 /\ l - 1 \in 0 .. n /\ ~(l <= l - 1) /\ (l - 1) + 1 = l
    BY <1>1, <2>4
  <2>6. Good(l - 1)
    BY <2>3, <2>5
  <2> QED BY <1>10, <2>4, <2>5, <2>6
<1>12. Good(n)
  <2>1. n \in 0 .. n
    BY <1>1
  <2>2. n \notin Bad
    BY <1>11, Zenon
  <2> QED BY <2>1, <2>2, Zenon
<1> QED BY <1>2, <1>12 DEF Good, n, Copies

(* The bytes that were at s are at d, and no other has changed.            *)
MovedTo(m, after, d, s, n) ==
  \A i \in DOMAIN after :
    after[i] = IF i \in d .. d + n - 1 THEN m[s + (i - d)] ELSE m[i]

(* So does a loop whose offsets are all those below n.                     *)
Covers(u, n) ==
  /\ \A k \in 1 .. Len(u) : \A x \in Part(u[k]) : x \in 0 .. n - 1
  /\ \A x \in 0 .. n - 1 : \E k \in 1 .. Len(u) : x \in Part(u[k])

LEMMA AllMoved ==
  ASSUME NEW T, NEW top \in Nat, NEW m \in [0 .. top - 1 -> T], NEW d \in Nat, NEW s \in Nat,
         NEW u \in Seq([o : Nat, n : Nat]), NEW n \in Nat,
         Covers(u, n), s + n <= top,
         ReadsFirst(u, d, s)
  PROVE  /\ Libc!Assigned(m, d, s, u) \in [0 .. top - 1 -> T]
         /\ MovedTo(m, Libc!Assigned(m, d, s, u), d, s, n)
<1>1. ReadsIn(u, s, top)
  <2>1. \A x \in 0 .. n - 1 : s + x \in 0 .. top - 1
    OBVIOUS
  <2> QED BY <2>1 DEF ReadsIn, Covers
<1>2. /\ Libc!Assigned(m, d, s, u) \in [0 .. top - 1 -> T]
      /\ Copies(m, Libc!Assigned(m, d, s, u), d, s, u)
  BY <1>1, AssignedMoves
<1>3. ASSUME NEW i \in 0 .. top - 1
      PROVE  (\E k \in 1 .. Len(u) : i - d \in Part(u[k])) <=> i \in d .. d + n - 1
  <2>1. i - d \in 0 .. n - 1 <=> i \in d .. d + n - 1
    OBVIOUS
  <2> QED BY <2>1 DEF Covers
<1>4. DOMAIN Libc!Assigned(m, d, s, u) = 0 .. top - 1
  BY <1>2
<1> QED BY <1>2, <1>3, <1>4 DEF MovedTo, Copies

LEMMA DivMod ==
  ASSUME NEW k \in Nat, NEW w \in Nat \ {0}
  PROVE  k = w * (k \div w) + (k % w) /\ k % w \in 0 .. w - 1
OBVIOUS

LEMMA UpToMultiple ==
  ASSUME NEW k \in Nat, NEW w \in Nat \ {0}
  PROVE  (k + (w - (k % w))) % w = 0
<1>1. k + (w - (k % w)) = (k \div w + 1) * w /\ k \div w + 1 \in Nat
  BY DivMod
<1> QED BY <1>1, MultipleOf

LEMMA MulLeast ==
  ASSUME NEW j \in Nat, NEW q \in Nat, NEW w \in Nat, j + 1 <= q
  PROVE  j * w + w <= q * w
<1>1. (j + 1) * w <= q * w
  BY MulMono
<1> QED BY <1>1

LEMMA MultiplePlus ==
  ASSUME NEW a \in Nat, NEW w \in Nat \ {0}, NEW j \in Nat, a % w = 0
  PROVE  (a + w * j) % w = 0
<1>1. PICK k \in Nat : a = k * w
  BY MultipleOf
<1>2. a + w * j = (k + j) * w /\ k + j \in Nat /\ a + w * j \in Nat
  BY <1>1
<1> QED BY <1>2, MultipleOf

(* memcpy's head is part of the operand, and words begin where it ends.    *)
LEMMA HeadFits ==
  ASSUME NEW d \in Nat, NEW s \in Nat, NEW n \in Nat
  PROVE  LET h == Libc!AlignedHead(d, s, n) IN
         /\ h \in 0 .. n
         /\ h # n => (d + h) % Word = 0 /\ (s + h) % Word = 0
<1>1. Word \in Nat \ {0}
  BY TextSizes
<1>2. CASE s % Word = 0 /\ d % Word = 0
  BY <1>1, <1>2 DEF Libc!AlignedHead
<1>3. CASE ~(s % Word = 0 /\ d % Word = 0) /\ (s % Word # d % Word \/ n < Word)
  BY <1>1, <1>3 DEF Libc!AlignedHead
<1>4. CASE ~(s % Word = 0 /\ d % Word = 0) /\ ~(s % Word # d % Word \/ n < Word)
  <2>1. Libc!AlignedHead(d, s, n) = Word - (s % Word)
    BY <1>4 DEF Libc!AlignedHead
  <2>2. s % Word \in 0 .. Word - 1 /\ Word <= n
    BY <1>1, <1>4
  <2>3. (s + (Word - (s % Word))) % Word = 0 /\ (d + (Word - (d % Word))) % Word = 0
    BY <1>1, UpToMultiple
  <2> QED BY <1>1, <1>4, <2>1, <2>2, <2>3
<1> QED BY <1>2, <1>3, <1>4

(* The units memcpy copies: bytes, words, bytes.                           *)
UnitAt(h, q, k) == IF k <= h THEN [o |-> k - 1, n |-> 1]
                   ELSE IF k <= h + q THEN [o |-> h + Word * (k - h - 1), n |-> Word]
                   ELSE [o |-> h + Word * q + (k - h - q - 1), n |-> 1]

Divides(u, n, h, q, t) ==
  /\ n = h + Word * q + t
  /\ h = n => q = 0
  /\ Len(u) = h + q + t
  /\ \A k \in 1 .. h + q + t : u[k] = UnitAt(h, q, k)

LEMMA UnitsAre ==
  ASSUME NEW d \in Nat, NEW s \in Nat, NEW n \in Nat
  PROVE  LET h == Libc!AlignedHead(d, s, n)
             u == Libc!Units(d, s, n)
         IN u \in Seq([o : Nat, n : Nat]) /\ \E q \in Nat, t \in Nat : Divides(u, n, h, q, t)
<1>1. PICK h \in 0 .. n : h = Libc!AlignedHead(d, s, n)
  BY HeadFits
<1>2. Word \in Nat \ {0}
  BY TextSizes
<1>3. PICK q \in Nat, t \in Nat : q = (n - h) \div Word /\ t = (n - h) % Word
  <2>1. n - h \in Nat
    BY <1>1
  <2> QED BY <1>2, <2>1
<1>4. n = h + Word * q + t
  <2>1. PICK k \in Nat : k = n - h
    BY <1>1
  <2>2. k = Word * (k \div Word) + (k % Word)
    BY <1>2, DivMod
  <2>3. q = k \div Word /\ t = k % Word
    BY <1>3, <2>1, Zenon
  <2>4. k = Word * q + t
    BY <2>2, <2>3, Zenon
  <2>5. PICK c \in Nat : c = Word * q
    BY <1>2, MulRegroup
  <2> QED BY <1>1, <2>1, <2>4, <2>5
<1>5. h = n => q = 0
  BY <1>2, <1>3
<1> DEFINE unit(k) == UnitAt(h, q, k)
<1>6. Libc!Units(d, s, n) = [k \in 1 .. h + q + t |-> unit(k)]
  BY <1>1, <1>3 DEF Libc!Units, UnitAt
<1>7. ASSUME NEW k \in 1 .. h + q + t PROVE unit(k) \in [o : Nat, n : Nat]
  <2>1. CASE k <= h
    BY <2>1 DEF UnitAt
  <2>2. CASE k > h /\ k <= h + q
    <3>1. k - h - 1 \in Nat
      BY <2>2
    <3>2. Word * (k - h - 1) \in Nat
      BY <1>2, <3>1, MulRegroup
    <3> QED BY <1>2, <2>2, <3>2 DEF UnitAt
  <2>3. CASE k > h + q
    <3>1. Word * q \in Nat /\ k - h - q - 1 \in Nat
      BY <1>2, <2>3, MulRegroup
    <3>2. ~(k <= h) /\ ~(k <= h + q)
      BY <2>3
    <3> QED BY <3>1, <3>2 DEF UnitAt
  <2> QED BY <2>1, <2>2, <2>3
<1> HIDE DEF unit
<1>8. /\ [k \in 1 .. h + q + t |-> unit(k)] \in Seq([o : Nat, n : Nat])
      /\ Len([k \in 1 .. h + q + t |-> unit(k)]) = h + q + t
  BY <1>7
<1>9. /\ Libc!Units(d, s, n) \in Seq([o : Nat, n : Nat])
      /\ Len(Libc!Units(d, s, n)) = h + q + t
      /\ \A k \in 1 .. h + q + t : Libc!Units(d, s, n)[k] = unit(k)
  BY <1>6, <1>8
<1> QED BY <1>1, <1>4, <1>5, <1>9 DEF unit, Divides

(* They are the operand, byte for byte, and its words are at multiples.    *)
LEMMA UnitsCover ==
  ASSUME NEW d \in Nat, NEW s \in Nat, NEW n \in Nat
  PROVE  LET u == Libc!Units(d, s, n) IN
         /\ u \in Seq([o : Nat, n : Nat])
         /\ Covers(u, n)
         /\ \A k \in 1 .. Len(u) : u[k].n = Word =>
              (d + u[k].o) % Word = 0 /\ (s + u[k].o) % Word = 0
<1>1. PICK h \in 0 .. n : h = Libc!AlignedHead(d, s, n)
  BY HeadFits
<1>2. PICK u \in Seq([o : Nat, n : Nat]) : u = Libc!Units(d, s, n)
  BY UnitsAre
<1>a. PICK q \in Nat, t \in Nat : Divides(u, n, h, q, t)
  BY <1>1, <1>2, UnitsAre, Zenon
<1>3. /\ n = h + Word * q + t
      /\ h = n => q = 0
      /\ Len(u) = h + q + t
      /\ \A k \in 1 .. h + q + t : u[k] = UnitAt(h, q, k)
  BY <1>a DEF Divides
<1>4. Word \in Nat \ {0}
  BY TextSizes
<1>5. PICK c \in Nat : c = Word * q
  BY <1>4, MulRegroup
<1>6. h \in Nat /\ n = h + c + t
  BY <1>1, <1>3, <1>5
<1>7. ASSUME NEW k \in 1 .. h PROVE k \in 1 .. Len(u) /\ u[k].n = 1 /\ Part(u[k]) = {k - 1}
  <2>0. k \in 1 .. h + q + t /\ k <= h
    BY <1>6
  <2>1. u[k] = [o |-> k - 1, n |-> 1] /\ k \in 1 .. h + q + t
    BY <1>3, <2>0 DEF UnitAt
  <2>2. PICK e \in Nat : e = k - 1
    BY <1>6
  <2>3. u[k].o = e /\ u[k].n = 1
    BY <2>1, <2>2
  <2>4. e .. e + 1 - 1 = {e}
    OBVIOUS
  <2> QED BY <1>3, <2>1, <2>2, <2>3, <2>4 DEF Part
<1>8. ASSUME NEW k \in h + 1 .. h + q
      PROVE  /\ k \in 1 .. Len(u) /\ u[k].n = Word
             /\ \E j \in Nat : /\ j = k - h - 1 /\ u[k].o = h + Word * j
                               /\ Part(u[k]) = h + Word * j .. h + Word * j + Word - 1
                               /\ Word * j + Word <= c
  <2>1. PICK j \in Nat : j = k - h - 1 /\ j + 1 <= q
    BY <1>6
  <2>2. k \in 1 .. h + q + t /\ ~(k <= h) /\ k <= h + q
    BY <1>6
  <2>3. u[k] = [o |-> h + Word * (k - h - 1), n |-> Word]
    BY <1>3, <2>2 DEF UnitAt
  <2>4. u[k].o = h + Word * j /\ u[k].n = Word
    BY <2>1, <2>3
  <2>5. Word * j + Word <= c
    <3>1. j * Word + Word <= q * Word
      BY <1>4, <2>1, MulLeast
    <3> QED BY <1>4, <1>5, <3>1
  <2> QED BY <1>3, <2>1, <2>2, <2>4, <2>5 DEF Part
<1>9. ASSUME NEW k \in h + q + 1 .. h + q + t
      PROVE  k \in 1 .. Len(u) /\ u[k].n = 1 /\ Part(u[k]) = {h + c + (k - h - q - 1)}
  <2>1. k \in 1 .. h + q + t /\ ~(k <= h) /\ ~(k <= h + q)
    BY <1>6
  <2>2. u[k] = [o |-> h + Word * q + (k - h - q - 1), n |-> 1]
    BY <1>3, <2>1 DEF UnitAt
  <2>3. PICK e \in Nat : e = h + c + (k - h - q - 1)
    BY <1>6
  <2>4. u[k].o = e /\ u[k].n = 1
    BY <1>5, <2>2, <2>3
  <2>5. e .. e + 1 - 1 = {e}
    OBVIOUS
  <2> QED BY <1>3, <2>1, <2>3, <2>4, <2>5 DEF Part
<1>10. \A k \in 1 .. Len(u) : k \in 1 .. h \/ k \in h + 1 .. h + q \/ k \in h + q + 1 .. h + q + t
  BY <1>3, <1>6
<1>11. ASSUME NEW k \in 1 .. Len(u), NEW x \in Part(u[k]) PROVE x \in 0 .. n - 1
  <2>1. CASE k \in 1 .. h
    <3>1. x = k - 1
      BY <1>7, <2>1
    <3> QED BY <1>6, <2>1, <3>1
  <2>2. CASE k \in h + 1 .. h + q
    <3>1. PICK j \in Nat : /\ Part(u[k]) = h + Word * j .. h + Word * j + Word - 1
                           /\ Word * j + Word <= c
      BY <1>8, <2>2
    <3>2. PICK e \in Nat : e = Word * j
      BY <1>4, MulRegroup
    <3>3. x \in h + e .. h + e + Word - 1 /\ e + Word <= c
      BY <3>1, <3>2, Zenon
    <3> QED BY <1>4, <1>6, <3>2, <3>3
  <2>3. CASE k \in h + q + 1 .. h + q + t
    <3>1. x = h + c + (k - h - q - 1)
      BY <1>9, <2>3
    <3> QED BY <1>6, <2>3, <3>1
  <2> QED BY <1>10, <2>1, <2>2, <2>3
<1>12. ASSUME NEW x \in 0 .. n - 1 PROVE \E k \in 1 .. Len(u) : x \in Part(u[k])
  <2>1. CASE x < h
    <3>1. PICK k \in 1 .. h : k = x + 1
      BY <1>6, <2>1
    <3>2. x = k - 1
      BY <1>6, <3>1
    <3>3. Part(u[k]) = {k - 1}
      BY <1>7
    <3>4. x \in Part(u[k])
      BY <3>2, <3>3
    <3> QED BY <1>7, <3>4
  <2>2. CASE x >= h /\ x < h + c
    <3>1. PICK y \in Nat : y = x - h /\ y < c
      BY <1>6, <2>2
    <3>2. PICK j \in Nat : j * Word <= y /\ y < j * Word + Word
      BY <1>4, <3>1, DivBounds
    <3>3. j < q
      <4>1. j * Word < q * Word
        BY <1>4, <1>5, <3>1, <3>2
      <4> QED BY <1>4, <4>1, MulLess
    <3>4. PICK k \in h + 1 .. h + q : j = k - h - 1
      <4>1. h + 1 + j \in h + 1 .. h + q /\ j = (h + 1 + j) - h - 1
        BY <1>6, <3>3
      <4> QED BY <4>1
    <3>5. Part(u[k]) = h + Word * j .. h + Word * j + Word - 1
      BY <1>8, <3>4
    <3>6. PICK e \in Nat : e = Word * j /\ e = j * Word
      BY <1>4, MulRegroup
    <3>7. x \in h + e .. h + e + Word - 1
      BY <1>4, <1>6, <3>1, <3>2, <3>6
    <3> QED BY <1>8, <3>5, <3>6, <3>7
  <2>3. CASE x >= h + c
    <3>1. PICK k \in h + q + 1 .. h + q + t : x = h + c + (k - h - q - 1)
      <4>1. /\ x - c + q + 1 \in h + q + 1 .. h + q + t
            /\ x = h + c + ((x - c + q + 1) - h - q - 1)
        BY <1>6, <2>3
      <4> QED BY <4>1
    <3>2. Part(u[k]) = {x}
      BY <1>9, <3>1
    <3> QED BY <1>9, <3>2
  <2> QED BY <1>6, <2>1, <2>2, <2>3
<1>13. ASSUME NEW k \in 1 .. Len(u), u[k].n = Word
       PROVE  (d + u[k].o) % Word = 0 /\ (s + u[k].o) % Word = 0
  <2>1. CASE Word = 1
    <3>1. u[k] \in [o : Nat, n : Nat]
      BY <1>2, ElementOfSeq
    <3>2. PICK e \in Nat : e = u[k].o
      BY <3>1
    <3>3. (d + e) % 1 = 0 /\ (s + e) % 1 = 0
      OBVIOUS
    <3> QED BY <2>1, <3>2, <3>3
  <2>2. CASE Word # 1
    <3>1. k \in h + 1 .. h + q
      BY <1>7, <1>9, <1>10, <1>13, <2>2
    <3>2. PICK j \in Nat : u[k].o = h + Word * j
      BY <1>8, <3>1
    <3>3. (d + h) % Word = 0 /\ (s + h) % Word = 0
      <4>1. h # n
        BY <1>3, <1>6, <3>1
      <4> QED BY <1>1, <4>1, HeadFits
    <3>4. (d + h + Word * j) % Word = 0 /\ (s + h + Word * j) % Word = 0
      <4>1. d + h \in Nat /\ s + h \in Nat
        BY <1>6
      <4> QED BY <1>4, <3>3, <4>1, MultiplePlus
    <3>5. PICK e \in Nat : e = Word * j
      BY <1>4, MulRegroup
    <3>6. d + (h + e) = d + h + e /\ s + (h + e) = s + h + e
      BY <1>6
    <3> QED BY <3>2, <3>4, <3>5, <3>6
  <2> QED BY <2>1, <2>2
<1> QED BY <1>2, <1>11, <1>12, <1>13 DEF Covers

(* memcpy and memmove move the operand.                                    *)
LEMMA MemcpyMoves ==
  ASSUME NEW T, NEW top \in Nat, NEW m \in [0 .. top - 1 -> T], NEW d \in Nat, NEW s \in Nat,
         NEW n \in Nat, d + n <= top, s + n <= top, Libc!Apart(d, n, s, n)
  PROVE  /\ Libc!Memcpy(m, d, s, n) \in [0 .. top - 1 -> T]
         /\ MovedTo(m, Libc!Memcpy(m, d, s, n), d, s, n)
<1>1. CASE n = 0
  <2>1. Libc!Memcpy(m, d, s, n) = m
    BY <1>1 DEF Libc!Memcpy
  <2>2. d .. d + n - 1 = {}
    BY <1>1
  <2> QED BY <2>1, <2>2 DEF MovedTo
<1>2. CASE n # 0 /\ d = s
  <2>1. Libc!Memcpy(m, d, s, n) = m
    BY <1>2 DEF Libc!Memcpy
  <2>2. \A i \in 0 .. top - 1 : s + (i - d) = i
    BY <1>2
  <2> QED BY <2>1, <2>2 DEF MovedTo
<1>3. CASE n # 0 /\ d # s
  <2>1. PICK u \in Seq([o : Nat, n : Nat]) : u = Libc!Units(d, s, n)
    BY UnitsCover
  <2>2. Covers(u, n)
    BY <2>1, UnitsCover
  <2>3. ReadsFirst(u, d, s)
    <3>1. \A x \in 0 .. n - 1, y \in 0 .. n - 1 : d + x # s + y
      BY DEF Libc!Apart
    <3> QED BY <2>2, <3>1 DEF ReadsFirst, Covers
  <2>4. Libc!Memcpy(m, d, s, n) = Libc!Assigned(m, d, s, u)
    BY <1>3, <2>1 DEF Libc!Memcpy
  <2>5. /\ Libc!Assigned(m, d, s, u) \in [0 .. top - 1 -> T]
        /\ MovedTo(m, Libc!Assigned(m, d, s, u), d, s, n)
    BY <2>2, <2>3, AllMoved
  <2> QED BY <2>4, <2>5
<1> QED BY <1>1, <1>2, <1>3

LEMMA MemmoveMoves ==
  ASSUME NEW T, NEW top \in Nat, NEW m \in [0 .. top - 1 -> T], NEW d \in Nat, NEW s \in Nat,
         NEW n \in Nat, d + n <= top, s + n <= top
  PROVE  /\ Libc!Memmove(m, d, s, n) \in [0 .. top - 1 -> T]
         /\ MovedTo(m, Libc!Memmove(m, d, s, n), d, s, n)
<1> DEFINE up == [k \in 1 .. n |-> [o |-> k - 1, n |-> 1]]
           down == [k \in 1 .. n |-> [o |-> n - k, n |-> 1]]
<1>1. up \in Seq([o : Nat, n : Nat]) /\ Len(up) = n /\ down \in Seq([o : Nat, n : Nat]) /\ Len(down) = n
  OBVIOUS
<1>2. ASSUME NEW k \in 1 .. n PROVE Part(up[k]) = {k - 1} /\ Part(down[k]) = {n - k}
  <2>1. PICK a \in Nat, b \in Nat : a = k - 1 /\ b = n - k
    OBVIOUS
  <2>2. up[k] = [o |-> a, n |-> 1] /\ down[k] = [o |-> b, n |-> 1]
    BY <2>1
  <2>3. a .. a + 1 - 1 = {a} /\ b .. b + 1 - 1 = {b}
    OBVIOUS
  <2> QED BY <2>1, <2>2, <2>3 DEF Part
<1> HIDE DEF up, down
<1>3. ASSUME NEW x \in 0 .. n - 1
      PROVE  (\E k \in 1 .. n : x = k - 1) /\ (\E k \in 1 .. n : x = n - k)
  <2>1. x + 1 \in 1 .. n /\ x = (x + 1) - 1 /\ n - x \in 1 .. n /\ x = n - (n - x)
    OBVIOUS
  <2> QED BY <2>1
<1>4. \A k \in 1 .. n : k - 1 \in 0 .. n - 1 /\ n - k \in 0 .. n - 1
  OBVIOUS
<1>5. CASE d < s
  <2>1. Libc!Memmove(m, d, s, n) = Libc!Assigned(m, d, s, up)
    BY <1>5 DEF Libc!Memmove, up
  <2>2. Covers(up, n)
    <3>1. \A k \in 1 .. n : \A x \in Part(up[k]) : x \in 0 .. n - 1
      <4>1. ASSUME NEW k \in 1 .. n, NEW x \in Part(up[k]) PROVE x \in 0 .. n - 1
        <5>1. x = k - 1
          BY <1>2
        <5> QED BY <1>4, <5>1
      <4> QED BY <4>1
    <3>2. \A x \in 0 .. n - 1 : \E k \in 1 .. n : x \in Part(up[k])
      <4>1. ASSUME NEW x \in 0 .. n - 1 PROVE \E k \in 1 .. n : x \in Part(up[k])
        <5>1. PICK k \in 1 .. n : x = k - 1
          BY <1>3
        <5>2. Part(up[k]) = {k - 1}
          BY <1>2
        <5> QED BY <5>1, <5>2
      <4> QED BY <4>1
    <3> QED BY <1>1, <3>1, <3>2 DEF Covers
  <2>3. ReadsFirst(up, d, s)
    <3>1. \A j \in 1 .. n, k \in 1 .. n : j < k => d + (j - 1) # s + (k - 1)
      BY <1>5
    <3>2. ASSUME NEW j \in 1 .. n, NEW k \in 1 .. n, j < k,
                 NEW x \in Part(up[j]), NEW y \in Part(up[k])
          PROVE  d + x # s + y
      <4>1. x = j - 1 /\ y = k - 1
        BY <1>2
      <4> QED BY <3>1, <3>2, <4>1
    <3> QED BY <1>1, <3>2 DEF ReadsFirst
  <2>4. /\ Libc!Assigned(m, d, s, up) \in [0 .. top - 1 -> T]
        /\ MovedTo(m, Libc!Assigned(m, d, s, up), d, s, n)
    BY <1>1, <2>2, <2>3, AllMoved
  <2> QED BY <2>1, <2>4
<1>6. CASE d > s
  <2>1. Libc!Memmove(m, d, s, n) = Libc!Assigned(m, d, s, down)
    BY <1>6 DEF Libc!Memmove, down
  <2>2. Covers(down, n)
    <3>1. \A k \in 1 .. n : \A x \in Part(down[k]) : x \in 0 .. n - 1
      <4>1. ASSUME NEW k \in 1 .. n, NEW x \in Part(down[k]) PROVE x \in 0 .. n - 1
        <5>1. x = n - k
          BY <1>2
        <5> QED BY <1>4, <5>1
      <4> QED BY <4>1
    <3>2. \A x \in 0 .. n - 1 : \E k \in 1 .. n : x \in Part(down[k])
      <4>1. ASSUME NEW x \in 0 .. n - 1 PROVE \E k \in 1 .. n : x \in Part(down[k])
        <5>1. PICK k \in 1 .. n : x = n - k
          BY <1>3
        <5>2. Part(down[k]) = {n - k}
          BY <1>2
        <5> QED BY <5>1, <5>2
      <4> QED BY <4>1
    <3> QED BY <1>1, <3>1, <3>2 DEF Covers
  <2>3. ReadsFirst(down, d, s)
    <3>1. \A j \in 1 .. n, k \in 1 .. n : j < k => d + (n - j) # s + (n - k)
      BY <1>6
    <3>2. ASSUME NEW j \in 1 .. n, NEW k \in 1 .. n, j < k,
                 NEW x \in Part(down[j]), NEW y \in Part(down[k])
          PROVE  d + x # s + y
      <4>1. x = n - j /\ y = n - k
        BY <1>2
      <4> QED BY <3>1, <3>2, <4>1
    <3> QED BY <1>1, <3>2 DEF ReadsFirst
  <2>4. /\ Libc!Assigned(m, d, s, down) \in [0 .. top - 1 -> T]
        /\ MovedTo(m, Libc!Assigned(m, d, s, down), d, s, n)
    BY <1>1, <2>2, <2>3, AllMoved
  <2> QED BY <2>1, <2>4
<1>7. CASE d = s
  <2> DEFINE none == << >>
  <2>1. none \in Seq([o : Nat, n : Nat]) /\ Len(none) = 0 /\ 1 .. Len(none) = {}
    OBVIOUS
  <2>2. Libc!Memmove(m, d, s, n) = Libc!Assigned(m, d, s, none)
    BY <1>7 DEF Libc!Memmove
  <2> HIDE DEF none
  <2>3. ReadsIn(none, s, top) /\ ReadsFirst(none, d, s)
    BY <2>1 DEF ReadsIn, ReadsFirst
  <2>4. /\ Libc!Assigned(m, d, s, none) \in [0 .. top - 1 -> T]
        /\ Copies(m, Libc!Assigned(m, d, s, none), d, s, none)
    BY <2>1, <2>3, AssignedMoves
  <2>5. \A i \in 0 .. top - 1 : s + (i - d) = i
    BY <1>7
  <2>6. \A i \in 0 .. top - 1 : Libc!Assigned(m, d, s, none)[i] = m[i]
    BY <2>1, <2>4 DEF Copies
  <2> QED BY <2>2, <2>4, <2>5, <2>6 DEF MovedTo
<1> QED BY <1>5, <1>6, <1>7

(* The order of two strings that differ, and of one that begins another.   *)
LEMMA LeastOf ==
  ASSUME NEW S, S \subseteq Nat, S # {}
  PROVE  Libc!Min(S) \in S /\ \A k \in S : Libc!Min(S) <= k
BY NatLeast, Zenon DEF Libc!Min

LEMMA LeastOfTwo ==
  ASSUME NEW a \in Nat, NEW b \in Nat
  PROVE  Libc!Min({a, b}) = IF a <= b THEN a ELSE b
<1>1. PICK k \in {a, b} : k = Libc!Min({a, b}) /\ k <= a /\ k <= b
  BY LeastOf
<1> QED BY <1>1

LEMMA OrderFirst ==
  ASSUME NEW a \in Seq(Nat), NEW b \in Seq(Nat), NEW p \in Nat \ {0}, p <= Len(a), p <= Len(b),
         a[p] # b[p], \A j \in 1 .. p - 1 : a[j] = b[j]
  PROVE  Libc!Order(a, b) = IF a[p] < b[p] THEN -1 ELSE 1
<1>1. PICK x \in Nat, y \in Nat : x = Len(a) /\ y = Len(b)
  BY LenProperties
<1>2. a # b
  OBVIOUS
<1>3. Libc!Min({Len(a), Len(b)}) = IF x <= y THEN x ELSE y
  BY <1>1, LeastOfTwo
<1>4. CASE a[p] < b[p]
  <2>1. p \in 1 .. Libc!Min({Len(a), Len(b)})
    BY <1>1, <1>3
  <2> QED BY <1>2, <1>4, <2>1 DEF Libc!Order
<1>5. CASE ~(a[p] < b[p])
  <2>1. ~Libc!IsStrictPrefix(a, b)
    <3>1. SUFFICES ASSUME Libc!IsPrefix(a, b) PROVE FALSE
      BY DEF Libc!IsStrictPrefix
    <3>2. SubSeq(a, 1, Len(a)) = SubSeq(b, 1, Len(a)) /\ Len(a) <= Len(b)
      BY <3>1 DEF Libc!IsPrefix
    <3>3. SubSeq(a, 1, Len(a))[p] = a[p] /\ SubSeq(b, 1, Len(a))[p] = b[p]
      BY <1>1, <3>2
    <3> QED BY <3>2, <3>3
  <2>2. ASSUME NEW i \in 1 .. Libc!Min({Len(a), Len(b)}),
               a[i] < b[i], \A j \in 1 .. i - 1 : a[j] = b[j]
        PROVE  FALSE
    <3>1. i \in Nat /\ i \in 1 .. x /\ i \in 1 .. y
      BY <1>1, <1>3
    <3>2. a[i] \in Nat /\ b[i] \in Nat
      BY <1>1, <3>1, ElementOfSeq
    <3>3. CASE i < p
      BY <2>2, <3>1, <3>2, <3>3
    <3>4. CASE i = p
      BY <1>5, <2>2, <3>4
    <3>5. CASE i > p
      BY <2>2, <3>1, <3>5
    <3> QED BY <3>1, <3>3, <3>4, <3>5
  <2> QED BY <1>2, <1>5, <2>1, <2>2 DEF Libc!Order
<1> QED BY <1>4, <1>5

LEMMA OrderPrefix ==
  ASSUME NEW a \in Seq(Nat), NEW b \in Seq(Nat), \A j \in 1 .. Len(a) : j <= Len(b) => a[j] = b[j]
  PROVE  Libc!Order(a, b) = IF Len(a) = Len(b) THEN 0 ELSE IF Len(a) < Len(b) THEN -1 ELSE 1
<1>1. PICK x \in Nat, y \in Nat : x = Len(a) /\ y = Len(b)
  BY LenProperties
<1>2. Libc!Min({Len(a), Len(b)}) = IF x <= y THEN x ELSE y
  BY <1>1, LeastOfTwo
<1>3. CASE x = y
  <2>1. a = b
    <3>1. \A j \in 1 .. x : a[j] = b[j]
      BY <1>1, <1>3
    <3> QED BY <1>1, <1>3, <3>1, SeqEqual
  <2> QED BY <1>1, <1>3, <2>1 DEF Libc!Order
<1>4. CASE x < y
  <2>1. SubSeq(a, 1, Len(a)) = SubSeq(b, 1, Len(a))
    BY <1>1, <1>4
  <2>2. Libc!IsStrictPrefix(a, b)
    BY <1>1, <1>4, <2>1 DEF Libc!IsStrictPrefix, Libc!IsPrefix
  <2> QED BY <1>1, <1>4, <2>2 DEF Libc!Order, Libc!IsStrictPrefix
<1>5. CASE x > y
  <2>1. ~Libc!IsStrictPrefix(a, b)
    BY <1>1, <1>5 DEF Libc!IsStrictPrefix, Libc!IsPrefix
  <2>2. ASSUME NEW i \in 1 .. Libc!Min({Len(a), Len(b)}), a[i] < b[i] PROVE FALSE
    <3>1. i \in 1 .. x /\ i \in 1 .. y
      BY <1>1, <1>2
    <3>2. a[i] \in Nat /\ a[i] = b[i]
      BY <1>1, <3>1, ElementOfSeq
    <3> QED BY <2>2, <3>2
  <2>3. a # b
    BY <1>1, <1>5
  <2>4. Libc!Order(a, b) = 1
    BY <2>1, <2>2, <2>3 DEF Libc!Order
  <2> QED BY <1>1, <1>5, <2>4
<1> QED BY <1>3, <1>4, <1>5

(* memcmp tells the first difference.                                      *)
SameTo(m, a, b, n) == \A i \in 0 .. n - 1 : m[a + i] = m[b + i]
DifferAt(m, a, b, k) == m[a + k] # m[b + k] /\ SameTo(m, a, b, k)

LEMMA MemcmpSame ==
  ASSUME NEW m, NEW a \in Nat, NEW b \in Nat, NEW n \in Nat,
         SameTo(m, a, b, n)
  PROVE  Libc!Memcmp(m, a, b, n) = 0
<1>1. {i \in 0 .. n - 1 : m[a + i] # m[b + i]} = {}
  BY DEF SameTo
<1> QED BY <1>1 DEF Libc!Memcmp

LEMMA MemcmpFirst ==
  ASSUME NEW m, NEW a \in Nat, NEW b \in Nat, NEW n \in Nat, NEW k \in 0 .. n - 1,
         DifferAt(m, a, b, k)
  PROVE  Libc!Memcmp(m, a, b, n) = IF m[a + k] < m[b + k] THEN -1 ELSE 1
<1> DEFINE differ == {i \in 0 .. n - 1 : m[a + i] # m[b + i]}
<1>1. k \in differ /\ differ \subseteq Nat
  BY DEF DifferAt
<1>2. PICK l \in differ : l = Libc!Min(differ) /\ l <= k
  <2> HIDE DEF differ
  <2>1. Libc!Min(differ) \in differ /\ Libc!Min(differ) <= k
    BY <1>1, LeastOf
  <2> QED BY <2>1
<1>3. l = k
  <2>1. l \in Nat /\ m[a + l] # m[b + l]
    OBVIOUS
  <2>2. ~(l < k)
    BY <2>1 DEF DifferAt, SameTo
  <2> QED BY <1>2, <2>1, <2>2
<1>4. differ # {} /\ Libc!Min(differ) = k
  BY <1>1, <1>2, <1>3
<1> HIDE DEF differ
<1>5. Libc!Memcmp(m, a, b, n) =
        IF differ = {} THEN 0
        ELSE IF m[a + Libc!Min(differ)] < m[b + Libc!Min(differ)] THEN -1 ELSE 1
  BY DEF Libc!Memcmp, differ
<1> QED BY <1>4, <1>5

LEMMA FirstDifference ==
  ASSUME NEW m, NEW a \in Nat, NEW b \in Nat, NEW n \in Nat,
         ~SameTo(m, a, b, n)
  PROVE  \E k \in 0 .. n - 1 : DifferAt(m, a, b, k)
<1> DEFINE differ == {i \in 0 .. n - 1 : m[a + i] # m[b + i]}
<1>1. differ \subseteq Nat /\ differ # {}
  <2>1. PICK i \in 0 .. n - 1 : m[a + i] # m[b + i]
    BY DEF SameTo
  <2>2. i \in differ
    BY <2>1
  <2>3. differ \subseteq Nat
    OBVIOUS
  <2> HIDE DEF differ
  <2> QED BY <2>2, <2>3
<1>2. PICK k \in differ : \A l \in differ : k <= l
  <2> HIDE DEF differ
  <2> QED BY <1>1, NatLeast
<1>3. k \in 0 .. n - 1 /\ m[a + k] # m[b + k]
  OBVIOUS
<1>4. ASSUME NEW i \in 0 .. k - 1 PROVE m[a + i] = m[b + i]
  <2>1. i \in 0 .. n - 1 /\ ~(k <= i)
    BY <1>3
  <2> QED BY <1>2, <2>1
<1> QED BY <1>3, <1>4 DEF DifferAt, SameTo

(* n bytes of memory, in order.                                            *)
Window(m, a, n) == SubSeq([i \in 1 .. n |-> m[a + i - 1]], 1, n)

LEMMA MemcmpOrders ==
  ASSUME NEW top \in Nat, NEW m \in [0 .. top - 1 -> Nat], NEW a \in Nat, NEW b \in Nat,
         NEW n \in Nat, a + n <= top, b + n <= top
  PROVE  Libc!Memcmp(m, a, b, n) =
           Libc!Order(Window(m, a, n), Window(m, b, n))
<1> DEFINE A == [i \in 1 .. n |-> m[a + i - 1]]
           B == [i \in 1 .. n |-> m[b + i - 1]]
<1>1. \A i \in 1 .. n : m[a + i - 1] \in Nat /\ m[b + i - 1] \in Nat
  OBVIOUS
<1>2. A \in Seq(Nat) /\ B \in Seq(Nat) /\ Len(A) = n /\ Len(B) = n
  BY <1>1
<1>3. SubSeq(A, 1, n) = A /\ SubSeq(B, 1, n) = B
  BY <1>2, SubSeqFull
<1>4. \A i \in 1 .. n : A[i] = m[a + (i - 1)] /\ B[i] = m[b + (i - 1)]
  OBVIOUS
<1> HIDE DEF A, B
<1>5. CASE SameTo(m, a, b, n)
  <2>1. ASSUME NEW i \in 1 .. n PROVE A[i] = B[i]
    <3>1. i - 1 \in 0 .. n - 1
      OBVIOUS
    <3> QED BY <1>4, <1>5, <3>1 DEF SameTo
  <2>2. A = B
    BY <1>2, <2>1, SeqEqual
  <2>3. Libc!Order(A, B) = 0
    BY <2>2 DEF Libc!Order
  <2>4. Libc!Memcmp(m, a, b, n) = 0
    BY <1>5, MemcmpSame
  <2> QED BY <1>3, <2>3, <2>4 DEF A, B, Window
<1>6. CASE ~SameTo(m, a, b, n)
  <2>1. PICK k \in 0 .. n - 1 : DifferAt(m, a, b, k)
    BY <1>6, FirstDifference
  <2>2. PICK p \in Nat \ {0} : p = k + 1 /\ p <= n /\ p \in 1 .. n /\ p - 1 = k
    OBVIOUS
  <2>3. A[p] = m[a + k] /\ B[p] = m[b + k]
    BY <1>4, <2>2
  <2>4. ASSUME NEW j \in 1 .. p - 1 PROVE A[j] = B[j]
    <3>1. j \in 1 .. n /\ j - 1 \in 0 .. k - 1
      BY <2>2
    <3> QED BY <1>4, <2>1, <3>1 DEF DifferAt, SameTo
  <2>5. Libc!Order(A, B) = IF A[p] < B[p] THEN -1 ELSE 1
    BY <1>2, <2>1, <2>2, <2>3, <2>4, OrderFirst DEF DifferAt
  <2>6. Libc!Memcmp(m, a, b, n) = IF m[a + k] < m[b + k] THEN -1 ELSE 1
    BY <2>1, MemcmpFirst
  <2> QED BY <1>3, <2>3, <2>5, <2>6 DEF A, B, Window
<1> QED BY <1>5, <1>6

(* A string ends at its first zero.                                        *)
EndsAt(m, s, l) == m[s + l] = 0 /\ \A i \in 0 .. l - 1 : m[s + i] # 0

LEMMA StrlenIs ==
  ASSUME NEW top \in Nat, NEW m \in [0 .. top - 1 -> Nat], NEW s \in Nat, NEW l \in Nat,
         s + l \in 0 .. top - 1, EndsAt(m, s, l)
  PROVE  Libc!Strlen(m, s) = l
<1> DEFINE zeros == {i \in DOMAIN m : i >= s /\ m[i] = 0}
<1>1. s + l \in zeros /\ zeros \subseteq Nat
  BY DEF EndsAt
<1>2. PICK e \in zeros : e = Libc!Min(zeros) /\ e <= s + l
  <2> HIDE DEF zeros
  <2>1. Libc!Min(zeros) \in zeros /\ Libc!Min(zeros) <= s + l
    BY <1>1, LeastOf
  <2> QED BY <2>1
<1>3. PICK i \in Nat : e = s + i
  <2>1. e - s \in Nat /\ e = s + (e - s)
    OBVIOUS
  <2> QED BY <2>1
<1>4. m[s + i] = 0 /\ i <= l
  BY <1>2, <1>3
<1>5. i = l
  BY <1>4 DEF EndsAt
<1>6. e = s + l
  BY <1>3, <1>5
<1> HIDE DEF zeros
<1>7. Libc!Strlen(m, s) = Libc!Min(zeros) - s
  BY DEF Libc!Strlen, zeros
<1>8. Libc!Strlen(m, s) = (s + l) - s
  BY <1>2, <1>6, <1>7
<1> QED BY <1>8

LEMMA StringEnds ==
  ASSUME NEW top \in Nat, NEW m \in [0 .. top - 1 -> Nat], NEW s \in Nat, Libc!Terminated(m, s)
  PROVE  \E l \in Nat : s + l \in 0 .. top - 1 /\ EndsAt(m, s, l) /\ l = Libc!Strlen(m, s)
<1> DEFINE zeros == {i \in DOMAIN m : i >= s /\ m[i] = 0}
<1>1. zeros # {} /\ zeros \subseteq Nat
  BY DEF Libc!Terminated
<1>2. PICK e \in zeros : \A k \in zeros : e <= k
  <2> HIDE DEF zeros
  <2> QED BY <1>1, NatLeast
<1>3. PICK l \in Nat : e = s + l
  <2>1. e - s \in Nat /\ e = s + (e - s)
    OBVIOUS
  <2> QED BY <2>1
<1>4. s + l \in 0 .. top - 1 /\ m[s + l] = 0
  BY <1>3
<1>5. ASSUME NEW i \in 0 .. l - 1 PROVE m[s + i] # 0
  <2>1. s + i \in DOMAIN m /\ s + i >= s /\ ~(e <= s + i)
    BY <1>3, <1>4
  <2> QED BY <1>2, <2>1
<1>6. EndsAt(m, s, l)
  BY <1>4, <1>5 DEF EndsAt
<1> QED BY <1>4, <1>6, StrlenIs

(* The text up to there.                                                   *)
TextOf(A, m, s, l) == Len(A) = l /\ \A i \in 1 .. l : A[i] = m[s + (i - 1)]

LEMMA TextIs ==
  ASSUME NEW top \in Nat, NEW m \in [0 .. top - 1 -> Nat], NEW s \in Nat, NEW l \in Nat,
         s + l \in 0 .. top - 1, l = Libc!Strlen(m, s)
  PROVE  Libc!Text(m, s) \in Seq(Nat) /\ TextOf(Libc!Text(m, s), m, s, l)
<1>1. Libc!Text(m, s) = [i \in 1 .. l |-> m[s + i - 1]]
  BY DEF Libc!Text
<1>2. \A i \in 1 .. l : m[s + i - 1] \in Nat /\ s + i - 1 = s + (i - 1)
  OBVIOUS
<1> DEFINE A == [i \in 1 .. l |-> m[s + i - 1]]
<1>3. DOMAIN A = 1 .. l /\ \A i \in 1 .. l : A[i] = m[s + (i - 1)] /\ A[i] \in Nat
  BY <1>2
<1>4. A = [i \in 1 .. l |-> A[i]]
  OBVIOUS
<1> HIDE DEF A
<1>5. A \in Seq(Nat) /\ Len(A) = l
  BY <1>3, <1>4
<1>6. A \in Seq(Nat) /\ TextOf(A, m, s, l)
  BY <1>3, <1>5 DEF TextOf
<1> QED BY <1>1, <1>6 DEF A

(* strcmp gives the order of two texts.                                    *)
LEMMA StrcmpOrders ==
  ASSUME NEW top \in Nat, NEW m \in [0 .. top - 1 -> Nat], NEW a \in Nat, NEW b \in Nat,
         Libc!Terminated(m, a), Libc!Terminated(m, b)
  PROVE  Libc!Strcmp(m, a, b) = Libc!Order(Libc!Text(m, a), Libc!Text(m, b))
<1>1. PICK x \in Nat : a + x \in 0 .. top - 1 /\ EndsAt(m, a, x) /\ x = Libc!Strlen(m, a)
  BY StringEnds
<1>2. PICK y \in Nat : b + y \in 0 .. top - 1 /\ EndsAt(m, b, y) /\ y = Libc!Strlen(m, b)
  BY StringEnds
<1>3a. PICK A \in Seq(Nat) : A = Libc!Text(m, a) /\ TextOf(A, m, a, x)
  BY <1>1, TextIs
<1>3. /\ A = Libc!Text(m, a) /\ Len(A) = x
      /\ \A i \in 1 .. x : A[i] = m[a + (i - 1)]
  BY <1>3a DEF TextOf
<1>4a. PICK B \in Seq(Nat) : B = Libc!Text(m, b) /\ TextOf(B, m, b, y)
  BY <1>2, TextIs
<1>4. /\ B = Libc!Text(m, b) /\ Len(B) = y
      /\ \A i \in 1 .. y : B[i] = m[b + (i - 1)]
  BY <1>4a DEF TextOf
<1>5. PICK n \in Nat : n = IF x <= y THEN x ELSE y
  OBVIOUS
<1>6. Libc!Strcmp(m, a, b) = Libc!Memcmp(m, a, b, n + 1)
  BY <1>1, <1>2, <1>5, LeastOfTwo DEF Libc!Strcmp
<1>7. ASSUME NEW i \in 0 .. n PROVE m[a + i] \in Nat /\ m[b + i] \in Nat
  <2>1. i \in Nat /\ i <= x /\ i <= y
    BY <1>5
  <2>2. a + i \in 0 .. top - 1
    BY <1>1, <2>1
  <2>3. b + i \in 0 .. top - 1
    BY <1>2, <2>1
  <2> QED BY <2>2, <2>3
<1>8. CASE SameTo(m, a, b, n)
  <2>1. ASSUME NEW j \in 1 .. Len(A), j <= Len(B) PROVE A[j] = B[j]
    <3>1. j \in 1 .. x /\ j \in 1 .. y /\ j - 1 \in 0 .. n - 1
      BY <1>3, <1>4, <1>5, <2>1
    <3> QED BY <1>3, <1>4, <1>8, <3>1 DEF SameTo
  <2>2. Libc!Order(A, B) = IF x = y THEN 0 ELSE IF x < y THEN -1 ELSE 1
    BY <1>3, <1>4, <2>1, OrderPrefix
  <2>3. CASE x = y
    <3>1. m[a + n] = m[b + n]
      BY <1>1, <1>2, <1>5, <2>3 DEF EndsAt
    <3>2. SameTo(m, a, b, n + 1)
      <4>1. \A i \in 0 .. (n + 1) - 1 : i \in 0 .. n - 1 \/ i = n
        OBVIOUS
      <4> QED BY <1>8, <3>1, <4>1 DEF SameTo
    <3>3. Libc!Memcmp(m, a, b, n + 1) = 0
      BY <3>2, MemcmpSame
    <3> QED BY <1>3, <1>4, <1>6, <2>2, <2>3, <3>3
  <2>4. CASE x # y
    <3>1. n \in 0 .. (n + 1) - 1 /\ n + 1 \in Nat
      OBVIOUS
    <3>2. m[a + n] # m[b + n] /\ (m[a + n] < m[b + n] <=> x < y)
      <4>1. CASE x < y
        <5>1. n = x /\ m[a + n] = 0 /\ n \in 0 .. y - 1
          BY <1>1, <1>5, <4>1, SMTT(30) DEF EndsAt
        <5>2. m[b + n] # 0 /\ m[b + n] \in Nat
          BY <1>2, <1>7, <5>1 DEF EndsAt
        <5> QED BY <4>1, <5>1, <5>2
      <4>2. CASE y < x
        <5>1. n = y /\ m[b + n] = 0 /\ n \in 0 .. x - 1
          BY <1>2, <1>5, <4>2, SMTT(30) DEF EndsAt
        <5>2. m[a + n] # 0 /\ m[a + n] \in Nat
          BY <1>1, <1>7, <5>1 DEF EndsAt
        <5> QED BY <4>2, <5>1, <5>2
      <4> QED BY <2>4, <4>1, <4>2
    <3>3. Libc!Memcmp(m, a, b, n + 1) = IF m[a + n] < m[b + n] THEN -1 ELSE 1
      BY <1>8, <3>1, <3>2, MemcmpFirst DEF DifferAt
    <3> QED BY <1>3, <1>4, <1>6, <2>2, <2>4, <3>2, <3>3
  <2> QED BY <2>3, <2>4
<1>9. CASE ~SameTo(m, a, b, n)
  <2>1. PICK k \in 0 .. n - 1 : DifferAt(m, a, b, k)
    BY <1>9, FirstDifference
  <2>2. PICK p \in Nat \ {0} : p = k + 1 /\ p - 1 = k /\ p <= x /\ p <= y /\ p \in 1 .. x /\ p \in 1 .. y
    BY <1>5
  <2>3. A[p] = m[a + k] /\ B[p] = m[b + k]
    BY <1>3, <1>4, <2>2
  <2>4. ASSUME NEW j \in 1 .. p - 1 PROVE A[j] = B[j]
    <3>1. j \in 1 .. x /\ j \in 1 .. y /\ j - 1 \in 0 .. k - 1
      BY <2>2
    <3> QED BY <1>3, <1>4, <2>1, <3>1 DEF DifferAt, SameTo
  <2>5. Libc!Order(A, B) = IF A[p] < B[p] THEN -1 ELSE 1
    BY <1>3, <1>4, <2>1, <2>2, <2>3, <2>4, OrderFirst DEF DifferAt
  <2>6. k \in 0 .. (n + 1) - 1 /\ n + 1 \in Nat
    OBVIOUS
  <2>7. Libc!Memcmp(m, a, b, n + 1) = IF m[a + k] < m[b + k] THEN -1 ELSE 1
    BY <2>1, <2>6, MemcmpFirst
  <2> QED BY <1>3, <1>4, <1>6, <2>3, <2>5, <2>7
<1> QED BY <1>8, <1>9

(* strlen is the offset of the first zero.                                 *)
LEMMA StrlenEnds ==
  ASSUME NEW top \in Nat, NEW m \in [0 .. top - 1 -> Nat], NEW s \in Nat, Libc!Terminated(m, s)
  PROVE  Libc!FirstZero(m, s, Libc!Strlen(m, s))
<1>1. PICK l \in Nat : s + l \in 0 .. top - 1 /\ EndsAt(m, s, l) /\ l = Libc!Strlen(m, s)
  BY StringEnds
<1> QED BY <1>1 DEF EndsAt, Libc!FirstZero

(* strlcpy leaves the source's text, or its first dsize bytes, and writes  *)
(* behind the buffer when there are as many.                               *)
LEMMA StrlcpyCopies ==
  ASSUME NEW top \in Nat, NEW m \in [0 .. top - 1 -> Nat], NEW d \in Nat, NEW s \in Nat,
         NEW n \in Nat \ {0}, d + n <= top, d < top, Libc!Terminated(m, s),
         Libc!BehindExists(m, d, s, n)
  PROVE  LET after == Libc!Strlcpy(m, d, s, n)
             l == Libc!Strlen(m, s)
         IN
         /\ after \in [0 .. top - 1 -> Nat]
         /\ Libc!IsPrefix(Libc!Text(after, d), Libc!Text(m, s))
         /\ Len(Libc!Text(after, d)) = IF l < n THEN l ELSE n
         /\ \A i \in 0 .. top - 1 :
              after[i] # m[i] => i \in d .. d + n - 1 \/ (i = d + n /\ l >= n)
<1>1. PICK l \in Nat : s + l \in 0 .. top - 1 /\ EndsAt(m, s, l) /\ l = Libc!Strlen(m, s)
  BY StringEnds
<1>2. PICK k \in Nat : /\ k = IF n <= l THEN n ELSE l
                       /\ k <= l /\ k <= n /\ (l < n => k = l) /\ (k = n => l >= n)
                       /\ k = IF l < n THEN l ELSE n
  OBVIOUS
<1>3. Libc!Min({n, Libc!Strlen(m, s)}) = k
  BY <1>1, <1>2, LeastOfTwo
<1>4. PICK c : c = Libc!Memmove(m, d, s, k)
  OBVIOUS
<1>5. c \in [0 .. top - 1 -> Nat] /\ MovedTo(m, c, d, s, k)
  <2>1. d + k <= top /\ s + k <= top
    BY <1>1, <1>2
  <2> QED BY <1>4, <2>1, MemmoveMoves
<1>6. PICK after : after = Libc!Strlcpy(m, d, s, n)
  OBVIOUS
<1>7. after = [i \in DOMAIN c |-> IF i \in d + k .. d + k + 1 - 1 THEN 0 ELSE c[i]]
  BY <1>3, <1>4, <1>6 DEF Libc!Strlcpy, Libc!Memset
<1>8. after \in [0 .. top - 1 -> Nat]
  BY <1>5, <1>7
<1>9. d + k \in 0 .. top - 1
  <2>1. CASE l < n
    BY <1>2, <2>1
  <2>2. CASE ~(l < n)
    <3>1. d + n \in DOMAIN m
      BY <1>1, <2>2 DEF Libc!BehindExists
    <3> QED BY <1>2, <2>2, <3>1
  <2> QED BY <2>1, <2>2
<1>10. PICK e \in Nat : e = d + k
  OBVIOUS
<1>11. e .. e + 1 - 1 = {e}
  OBVIOUS
<1>12. after[d + k] = 0
  BY <1>5, <1>7, <1>9, <1>10, <1>11
<1>13. ASSUME NEW i \in 0 .. k - 1 PROVE after[d + i] = m[s + i] /\ m[s + i] # 0
  <2>1. d + i \in 0 .. top - 1 /\ d + i \in d .. d + k - 1 /\ d + i # e /\ s + ((d + i) - d) = s + i
    BY <1>2, <1>10
  <2>2. c[d + i] = m[s + i]
    BY <1>5, <2>1 DEF MovedTo
  <2>3. after[d + i] = c[d + i]
    BY <1>5, <1>7, <1>10, <1>11, <2>1
  <2>4. i \in 0 .. l - 1
    BY <1>2
  <2> QED BY <1>1, <2>2, <2>3, <2>4 DEF EndsAt
<1>14. Libc!Strlen(after, d) = k
  <2>1. EndsAt(after, d, k)
    BY <1>12, <1>13 DEF EndsAt
  <2> QED BY <1>8, <1>9, <2>1, StrlenIs
<1>15. PICK A \in Seq(Nat) : A = Libc!Text(after, d) /\ TextOf(A, after, d, k)
  BY <1>8, <1>9, <1>14, TextIs
<1>16. PICK B \in Seq(Nat) : B = Libc!Text(m, s) /\ TextOf(B, m, s, l)
  BY <1>1, TextIs
<1>17. Len(A) = k /\ Len(B) = l /\ \A i \in 1 .. k : A[i] = B[i]
  <2>1. ASSUME NEW i \in 1 .. k PROVE A[i] = B[i]
    <3>1. i - 1 \in 0 .. k - 1 /\ i \in 1 .. l
      BY <1>2
    <3> QED BY <1>13, <1>15, <1>16, <3>1 DEF TextOf
  <2> QED BY <1>15, <1>16, <2>1 DEF TextOf
<1>18. Libc!IsPrefix(A, B)
  <2>1. \A i \in 1 .. k : A[i] \in Nat /\ B[i] \in Nat
    BY <1>2, <1>17, ElementOfSeq
  <2>2. /\ SubSeq(A, 1, k) \in Seq(Nat) /\ Len(SubSeq(A, 1, k)) = k
        /\ SubSeq(B, 1, k) \in Seq(Nat) /\ Len(SubSeq(B, 1, k)) = k
        /\ \A i \in 1 .. k : SubSeq(A, 1, k)[i] = A[i] /\ SubSeq(B, 1, k)[i] = B[i]
    <3>1. \A i \in 1 .. k : 1 + i - 1 = i
      OBVIOUS
    <3>2. (IF 1 <= k THEN k - 1 + 1 ELSE 0) = k /\ k - 1 + 1 = k
      OBVIOUS
    <3>3. /\ SubSeq(A, 1, k) \in Seq(Nat) /\ Len(SubSeq(A, 1, k)) = k
          /\ \A i \in 1 .. k : SubSeq(A, 1, k)[i] = A[i]
      BY <2>1, <3>1, <3>2, SubSeqProperties
    <3>4. /\ SubSeq(B, 1, k) \in Seq(Nat) /\ Len(SubSeq(B, 1, k)) = k
          /\ \A i \in 1 .. k : SubSeq(B, 1, k)[i] = B[i]
      BY <2>1, <3>1, <3>2, SubSeqProperties
    <3> QED BY <3>3, <3>4
  <2>3. SubSeq(A, 1, k) = SubSeq(B, 1, k)
    BY <1>17, <2>2, SeqEqual
  <2> QED BY <1>2, <1>17, <2>3 DEF Libc!IsPrefix
<1>19. ASSUME NEW i \in 0 .. top - 1, after[i] # m[i]
       PROVE  i \in d .. d + n - 1 \/ (i = d + n /\ l >= n)
  <2>1. CASE i = e
    BY <1>2, <1>10, <2>1
  <2>2. CASE i # e
    <3>1. after[i] = c[i]
      BY <1>5, <1>7, <1>10, <1>11, <2>2
    <3>2. i \in d .. d + k - 1
      BY <1>5, <1>19, <3>1 DEF MovedTo
    <3> QED BY <1>2, <3>2
  <2> QED BY <2>1, <2>2
<1>20. Len(A) = IF l < n THEN l ELSE n
  BY <1>2, <1>17
<1> QED BY <1>1, <1>6, <1>8, <1>15, <1>16, <1>18, <1>19, <1>20

-----------------------------------------------------------------------------
(* Before a call there are bytes in memory, and after it they are as the   *)
(* standard says.                                                          *)
StrInv ==
  /\ call.f = "none" => \E top \in Nat : mem \in [0 .. top - 1 -> Nat]
  /\ call.f # "none" => AsInC

LEMMA StringsStart == Libc!Init => StrInv
<1> SUFFICES ASSUME Libc!Init PROVE StrInv
  OBVIOUS
<1>1. call.f = "none"
  BY DEF Libc!Init
<1>2. CASE mem = [i \in 0 .. Size - 1 |-> i + 1]
  <2>1. mem \in [0 .. Size - 1 -> Nat]
    BY <1>2, TextSizes
  <2> QED BY <1>1, <2>1, TextSizes DEF StrInv
<1>3. CASE mem \in [0 .. TextSize - 1 -> Bytes]
  <2>1. mem \in [0 .. TextSize - 1 -> Nat]
    BY <1>3, TextSizes
  <2> QED BY <1>1, <2>1, TextSizes DEF StrInv
<1> QED BY <1>2, <1>3 DEF Libc!Init

(* What a call leaves.                                                     *)
LEMMA StringsCalled ==
  ASSUME NEW f, NEW d, NEW s, NEW n, NEW after, NEW ret, Libc!Called(f, d, s, n, after, ret)
  PROVE  /\ call'.f = f /\ call'.dst = d /\ call'.src = s /\ call'.n = n
         /\ call'.before = mem /\ call'.ret = ret /\ mem' = after
BY DEF Libc!Called

(* Operands are inside memory.                                             *)
LEMMA OperandFits ==
  ASSUME NEW top \in Nat, NEW m \in [0 .. top - 1 -> Nat], NEW a \in 0 .. top - 1, NEW n \in Nat,
         Libc!Fits(m, a, n)
  PROVE  a \in Nat /\ a + n <= top
BY DEF Libc!Fits

LEMMA StringsPreserve == StrInv /\ Libc!Next => StrInv'
<1> SUFFICES ASSUME StrInv, Libc!Next PROVE StrInv'
  OBVIOUS
<1>1. call.f = "none"
  BY DEF Libc!Next
<1>2. PICK top \in Nat : mem \in [0 .. top - 1 -> Nat]
  BY <1>1 DEF StrInv
<1>3. PICK d \in 0 .. top - 1, s \in 0 .. top - 1 :
       \/ \E n \in 0 .. Size :
            /\ Libc!Fits(mem, d, n) /\ Libc!Fits(mem, s, n)
            /\ \/ /\ Libc!Apart(d, n, s, n)
                  /\ Libc!Called("memcpy", d, s, n, Libc!Memcpy(mem, d, s, n), d)
               \/ Libc!Called("memmove", d, s, n, Libc!Memmove(mem, d, s, n), d)
               \/ Libc!Called("memset", d, s, n, Libc!Memset(mem, d, 0, n), d)
               \/ Libc!Called("memcmp", d, s, n, mem, Libc!Memcmp(mem, d, s, n))
       \/ /\ Libc!Terminated(mem, s)
          /\ Libc!Called("strlen", d, s, 0, mem, Libc!Strlen(mem, s))
       \/ /\ Libc!Terminated(mem, s) /\ Libc!Terminated(mem, d)
          /\ Libc!Called("strcmp", d, s, 0, mem, Libc!Strcmp(mem, d, s))
       \/ \E n \in 0 .. TextSize :
            /\ Libc!Terminated(mem, s)
            /\ Libc!Fits(mem, d, n) /\ Libc!Apart(d, n, s, Libc!Strlen(mem, s) + 1)
            /\ Libc!BehindExists(mem, d, s, n)
            /\ Libc!Called("strlcpy", d, s, n, Libc!Strlcpy(mem, d, s, n), Libc!Strlen(mem, s))
  <2>1. DOMAIN mem = 0 .. top - 1
    BY <1>2
  <2> QED BY <2>1 DEF Libc!Next
<1>4. d \in Nat /\ s \in Nat
  OBVIOUS
<1>5. SUFFICES AsInC' /\ call'.f # "none"
  BY DEF StrInv
<1>6. ASSUME NEW n \in 0 .. Size, Libc!Fits(mem, d, n), Libc!Fits(mem, s, n)
      PROVE  n \in Nat /\ d + n <= top /\ s + n <= top
  <2>1. n \in Nat
    BY TextSizes
  <2> QED BY <1>2, <1>6, <2>1, OperandFits
<1>7. ASSUME NEW n \in Nat, MovedTo(mem, mem', d, s, n),
             call'.dst = d, call'.src = s, call'.n = n, call'.before = mem
      PROVE  Libc!Moved'
  BY <1>7 DEF MovedTo, Libc!Moved
<1>8. ASSUME NEW n \in 0 .. Size, Libc!Fits(mem, d, n), Libc!Fits(mem, s, n), Libc!Apart(d, n, s, n),
             Libc!Called("memcpy", d, s, n, Libc!Memcpy(mem, d, s, n), d)
      PROVE  AsInC' /\ call'.f # "none"
  <2>1. /\ call'.f = "memcpy" /\ call'.dst = d /\ call'.src = s /\ call'.n = n
        /\ call'.before = mem /\ mem' = Libc!Memcpy(mem, d, s, n)
    BY <1>8, StringsCalled
  <2>2. n \in Nat /\ MovedTo(mem, mem', d, s, n)
    BY <1>2, <1>4, <1>6, <1>8, <2>1, MemcpyMoves
  <2>3. Libc!Moved'
    BY <1>7, <2>1, <2>2
  <2>4. Libc!Aligned'
    <3>1. PICK u \in Seq([o : Nat, n : Nat]) : u = Libc!Units(d, s, n)
      BY <1>4, <2>2, UnitsCover
    <3>2. \A k \in 1 .. Len(u) : u[k].n = Word => (d + u[k].o) % Word = 0 /\ (s + u[k].o) % Word = 0
      BY <1>4, <2>2, <3>1, UnitsCover
    <3>3. DOMAIN u = 1 .. Len(u)
      BY LenProperties
    <3>4. \A v \in Libc!ToSet(u) : v.n = Word => (d + v.o) % Word = 0 /\ (s + v.o) % Word = 0
      BY <3>2, <3>3 DEF Libc!ToSet
    <3> QED BY <2>1, <3>1, <3>4 DEF Libc!Aligned
  <2> QED BY <2>1, <2>3, <2>4 DEF AsInC, Libc!AsInC
<1>9. ASSUME NEW n \in 0 .. Size, Libc!Fits(mem, d, n), Libc!Fits(mem, s, n),
             Libc!Called("memmove", d, s, n, Libc!Memmove(mem, d, s, n), d)
      PROVE  AsInC' /\ call'.f # "none"
  <2>1. /\ call'.f = "memmove" /\ call'.dst = d /\ call'.src = s /\ call'.n = n
        /\ call'.before = mem /\ mem' = Libc!Memmove(mem, d, s, n)
    BY <1>9, StringsCalled
  <2>2. n \in Nat /\ MovedTo(mem, mem', d, s, n)
    BY <1>2, <1>4, <1>6, <1>9, <2>1, MemmoveMoves
  <2>3. Libc!Moved'
    BY <1>7, <2>1, <2>2
  <2> QED BY <2>1, <2>3 DEF AsInC, Libc!AsInC
<1>10. ASSUME NEW n \in 0 .. Size, Libc!Fits(mem, d, n), Libc!Fits(mem, s, n),
              Libc!Called("memset", d, s, n, Libc!Memset(mem, d, 0, n), d)
       PROVE  AsInC' /\ call'.f # "none"
  <2>1. /\ call'.f = "memset" /\ call'.dst = d /\ call'.n = n
        /\ call'.before = mem /\ mem' = Libc!Memset(mem, d, 0, n)
    BY <1>10, StringsCalled
  <2>2. Libc!Cleared'
    BY <1>2, <2>1 DEF Libc!Memset, Libc!Cleared
  <2> QED BY <2>1, <2>2 DEF AsInC, Libc!AsInC
<1>11. ASSUME NEW n \in 0 .. Size, Libc!Fits(mem, d, n), Libc!Fits(mem, s, n),
              Libc!Called("memcmp", d, s, n, mem, Libc!Memcmp(mem, d, s, n))
       PROVE  AsInC' /\ call'.f # "none"
  <2>1. /\ call'.f = "memcmp" /\ call'.dst = d /\ call'.src = s /\ call'.n = n
        /\ call'.ret = Libc!Memcmp(mem, d, s, n) /\ mem' = mem
    BY <1>11, StringsCalled
  <2>2. Libc!Memcmp(mem, d, s, n) =
          Libc!Order(Window(mem, d, n), Window(mem, s, n))
    BY <1>2, <1>4, <1>6, <1>11, MemcmpOrders
  <2>3. call'.ret = Libc!Order(Window(mem', call'.dst, call'.n), Window(mem', call'.src, call'.n))
    BY <2>1, <2>2
  <2> QED BY <2>1, <2>3 DEF AsInC, Libc!AsInC, Window
<1>12. ASSUME Libc!Terminated(mem, s),
              Libc!Called("strlen", d, s, 0, mem, Libc!Strlen(mem, s))
       PROVE  AsInC' /\ call'.f # "none"
  <2>1. /\ call'.f = "strlen" /\ call'.src = s /\ mem' = mem
        /\ call'.ret = Libc!Strlen(mem, s)
    BY <1>12, StringsCalled
  <2>2. Libc!FirstZero(mem, s, Libc!Strlen(mem, s))
    BY <1>2, <1>4, <1>12, StrlenEnds
  <2>3. Libc!FirstZero(mem', call'.src, call'.ret)
    BY <2>1, <2>2
  <2> QED BY <2>1, <2>3 DEF AsInC, Libc!AsInC
<1>13. ASSUME Libc!Terminated(mem, s), Libc!Terminated(mem, d),
              Libc!Called("strcmp", d, s, 0, mem, Libc!Strcmp(mem, d, s))
       PROVE  AsInC' /\ call'.f # "none"
  <2>1. /\ call'.f = "strcmp" /\ call'.dst = d /\ call'.src = s
        /\ call'.ret = Libc!Strcmp(mem, d, s) /\ mem' = mem
    BY <1>13, StringsCalled
  <2>2. Libc!Strcmp(mem, d, s) = Libc!Order(Libc!Text(mem, d), Libc!Text(mem, s))
    BY <1>2, <1>4, <1>13, StrcmpOrders
  <2>3. call'.ret = Libc!Order(Libc!Text(mem', call'.dst), Libc!Text(mem', call'.src))
    BY <2>1, <2>2
  <2> QED BY <2>1, <2>3 DEF AsInC, Libc!AsInC
<1>14. ASSUME NEW n \in 0 .. TextSize, Libc!Terminated(mem, s), Libc!Fits(mem, d, n),
              Libc!BehindExists(mem, d, s, n),
              Libc!Called("strlcpy", d, s, n, Libc!Strlcpy(mem, d, s, n), Libc!Strlen(mem, s))
       PROVE  AsInC' /\ call'.f # "none"
  <2>1. /\ call'.f = "strlcpy" /\ call'.dst = d /\ call'.n = n /\ call'.src = s
        /\ call'.before = mem /\ call'.ret = Libc!Strlen(mem, s)
        /\ mem' = Libc!Strlcpy(mem, d, s, n)
    BY <1>14, StringsCalled
  <2>2. n \in Nat
    BY TextSizes
  <2>3. Libc!FirstZero(call'.before, call'.src, call'.ret)
    BY <1>2, <1>4, <1>14, <2>1, StrlenEnds
  <2>4. CASE n = 0
    <3>1. mem' = call'.before
      BY <2>1, <2>4 DEF Libc!Strlcpy
    <3> QED BY <2>1, <2>3, <2>4, <3>1 DEF AsInC, Libc!AsInC
  <2>5. CASE n # 0
    <3>1. d + n <= top
      BY <1>2, <1>14, <2>2, OperandFits
    <3>2. /\ mem' \in [0 .. top - 1 -> Nat]
          /\ Libc!IsPrefix(Libc!Text(mem', d), Libc!Text(mem, s))
          /\ Len(Libc!Text(mem', d)) = IF Libc!Strlen(mem, s) < n THEN Libc!Strlen(mem, s) ELSE n
          /\ \A i \in 0 .. top - 1 :
               mem'[i] # mem[i] =>
                 i \in d .. d + n - 1 \/ (i = d + n /\ Libc!Strlen(mem, s) >= n)
      <4>1. PICK top1 \in Nat : top1 = top
        OBVIOUS
      <4>2. d \in Nat /\ d < top1 /\ s \in Nat /\ n \in Nat \ {0} /\ d + n <= top1
        BY <2>2, <2>5, <3>1, <4>1
      <4>3. PICK m \in [0 .. top1 - 1 -> Nat] : m = mem
        BY <1>2, <4>1
      <4>4. Libc!Terminated(m, s) /\ Libc!BehindExists(m, d, s, n)
        BY <1>14, <4>3
      <4>5. PICK after : after = Libc!Strlcpy(m, d, s, n)
        OBVIOUS
      <4>6. /\ after \in [0 .. top1 - 1 -> Nat]
            /\ Libc!IsPrefix(Libc!Text(after, d), Libc!Text(m, s))
            /\ Len(Libc!Text(after, d)) = IF Libc!Strlen(m, s) < n THEN Libc!Strlen(m, s) ELSE n
            /\ \A i \in 0 .. top1 - 1 :
                 after[i] # m[i] =>
                   i \in d .. d + n - 1 \/ (i = d + n /\ Libc!Strlen(m, s) >= n)
        BY <4>2, <4>4, <4>5, StrlcpyCopies
      <4> QED BY <2>1, <4>1, <4>3, <4>5, <4>6
    <3>3. DOMAIN mem' = 0 .. top - 1
      BY <3>2
    <3>4. Libc!TextCopied'
      BY <2>1, <3>2, <3>3 DEF Libc!TextCopied
    <3> QED BY <2>1, <2>3, <2>5, <3>4 DEF AsInC, Libc!AsInC
  <2> QED BY <2>4, <2>5
<1> QED BY <1>3, <1>8, <1>9, <1>10, <1>11, <1>12, <1>13, <1>14

(* For operands of any size and place in a memory of any size, words of    *)
(* any width and any strings: memcpy and memmove leave at the destination  *)
(* what was at the source and memset zeros, and they change nothing else;  *)
(* words are copied at their boundaries; strlen finds the first zero;      *)
(* memcmp and strcmp give the order of the first difference; strlcpy       *)
(* leaves up to n characters of the text, and the only byte outside its    *)
(* buffer it writes is the one behind it, when the text has n or more      *)
(* (lib/libc).                                                             *)
THEOREM StringsAsInC == Libc!Spec => []AsInC
<1>1. Libc!Init => StrInv /\ AsInC
  <2>1. Libc!Init => AsInC
    BY DEF Libc!Init, AsInC, Libc!AsInC
  <2> QED BY <2>1, StringsStart
<1>2. StrInv /\ AsInC /\ [Libc!Next \/ Libc!Done]_(Libc!vars) => (StrInv /\ AsInC)'
  <2> SUFFICES ASSUME StrInv, AsInC, [Libc!Next \/ Libc!Done]_(Libc!vars) PROVE (StrInv /\ AsInC)'
    OBVIOUS
  <2>1. CASE Libc!Next
    <3>1. StrInv'
      BY <2>1, StringsPreserve
    <3>2. call'.f # "none"
      BY <2>1 DEF Libc!Next, Libc!Called
    <3> QED BY <3>1, <3>2 DEF StrInv
  <2>2. CASE UNCHANGED Libc!vars
    BY <2>2 DEF Libc!vars, StrInv, AsInC, Libc!AsInC, Libc!Moved, Libc!Aligned,
          Libc!Cleared, Libc!TextCopied
  <2> QED BY <2>1, <2>2 DEF Libc!Done
<1> QED BY <1>1, <1>2, PTL DEF Libc!Spec

(***************************************************************************)
(* The loader's console.                                                   *)
(***************************************************************************)
(* What a cell can show.                                                   *)
Glyphs == Chars \cup {"B", " "}

(* The sizes of the screen.                                                *)
LEMMA ScreenSizes ==
  /\ CRT_ROWS \in Nat /\ CRT_ROWS >= 2 /\ CRT_COLS \in Nat /\ CRT_COLS >= 1
  /\ CRT_ROWS * CRT_COLS \in Nat /\ CRT_ROWS * CRT_COLS >= 2 * CRT_COLS
  /\ Screen!CRT_SIZE = CRT_ROWS * CRT_COLS
  /\ ByteSize \in Nat \ {0} /\ ByteSize * ByteSize >= CRT_ROWS * CRT_COLS
  /\ MaxChars \in Nat
<1>1. /\ CRT_ROWS \in Nat /\ CRT_ROWS >= 2 /\ CRT_COLS \in Nat /\ CRT_COLS >= 1
      /\ ByteSize \in Nat \ {0} /\ MaxChars \in Nat
      /\ ByteSize * ByteSize >= CRT_ROWS * CRT_COLS
  BY LoadersAssumption DEF LoadersAssumption, Screen!ScreenAssumption, Screen!CRT_SIZE
<1>2. CRT_ROWS * CRT_COLS \in Nat
  BY <1>1, MulRegroup
<1>3. 2 * CRT_COLS <= CRT_ROWS * CRT_COLS
  BY <1>1, MulMono
<1> QED BY <1>1, <1>2, <1>3 DEF Screen!CRT_SIZE

(* The registers of the 6845 hold any position on the screen.              *)
LEMMA RegistersHold ==
  ASSUME NEW pos \in Screen!Cells
  PROVE  LET r == Screen!Registers(pos) IN r.hi * ByteSize + r.lo = pos
<1>1. PICK b \in Nat : b = ByteSize /\ b # 0 /\ pos \in Nat /\ pos < b * b
  <2>1. PICK z \in Nat, b \in Nat, bb \in Nat :
          z = CRT_ROWS * CRT_COLS /\ b = ByteSize /\ b # 0 /\ bb = b * b /\ bb >= z
    BY ScreenSizes, MulRegroup
  <2>2. pos \in 0 .. z - 1
    BY <2>1, ScreenSizes DEF Screen!Cells
  <2> QED BY <2>1, <2>2
<1>2. PICK h \in Nat, l \in Nat : h = pos \div b /\ l = pos % b /\ pos = b * h + l /\ l < b
  <2>1. b \in Nat \ {0} /\ pos \in Nat
    BY <1>1
  <2>2. pos = b * (pos \div b) + (pos % b) /\ pos % b \in 0 .. b - 1
    BY <2>1, DivMod
  <2>3. pos \div b \in Nat
    BY <2>1, DivBounds
  <2> QED BY <2>2, <2>3
<1>3. h * b <= pos
  BY <1>1, <1>2
<1>4. h < b
  <2>1. h * b < b * b
    <3>1. PICK x \in Nat, y \in Nat : x = h * b /\ y = b * b
      BY MulRegroup
    <3> QED BY <1>1, <1>3, <3>1
  <2> QED BY <2>1, MulLess
<1>5. h % b = h
  BY <1>1, <1>2, <1>4
<1>6. Screen!Registers(pos).hi = h /\ Screen!Registers(pos).lo = l
  BY <1>1, <1>2, <1>5 DEF Screen!Registers
<1> QED BY <1>1, <1>2, <1>6

(* A loop that copies cell after cell, from the first, moves all rows up.   *)
MovedTill(s, t, k) ==
  /\ DOMAIN t = Screen!Cells
  /\ \A c \in Screen!Cells : t[c] = IF c < k THEN s[c + CRT_COLS] ELSE s[c]

LEMMA MovedUpIs ==
  ASSUME NEW T, NEW s \in [Screen!Cells -> T]
  PROVE  MovedTill(s, Screen!MovedUp(s), Screen!Copies)
<1>1. PICK n \in Nat, w \in Nat, z \in Nat :
        n = Screen!Copies /\ w = CRT_COLS /\ w >= 1 /\ z = Screen!CRT_SIZE /\ z = n + w
  <2>1. PICK z \in Nat, w \in Nat : z = CRT_ROWS * CRT_COLS /\ w = CRT_COLS /\ w >= 1 /\ z >= 2 * w
    BY ScreenSizes
  <2>2. z - w \in Nat /\ z = (z - w) + w
    BY <2>1
  <2> QED BY <2>1, <2>2, ScreenSizes DEF Screen!Copies
<1> DEFINE M == [Screen!Cells -> T]
           One(x, k) == [x EXCEPT ![k - 1] = x[k - 1 + w]]
           R(f, k) == IF k = 0 THEN s ELSE One(f[k - 1], k)
           E(f) == f = [k \in 0 .. n |-> R(f, k)]
           done == CHOOSE f : E(f)
           g == [k \in 0 .. n - 1 |-> [x \in M |-> One(x, k + 1)]]
<1>2. Screen!MovedUp(s) = done[n]
  <2> DEFINE from == [k \in 1 .. n |-> k - 1]
             R2(f, k) == IF k = 0 THEN s ELSE [f[k - 1] EXCEPT ![from[k]] = f[k - 1][from[k] + w]]
             done2 == CHOOSE f : f = [k \in 0 .. n |-> R2(f, k)]
  <2>1. Screen!MovedUp(s) = done2[n]
    BY <1>1 DEF Screen!MovedUp, Screen!Moved
  <2>2. ASSUME NEW f, NEW k \in 0 .. n PROVE R2(f, k) = R(f, k)
    <3>1. CASE k = 0
      BY <3>1
    <3>2. CASE k # 0
      <4>1. k \in 1 .. n
        BY <3>2
      <4>2. from[k] = k - 1
        BY <4>1
      <4> HIDE DEF from
      <4> QED BY <3>2, <4>2
    <3> QED BY <3>1, <3>2
  <2>3. \A f : [k \in 0 .. n |-> R2(f, k)] = [k \in 0 .. n |-> R(f, k)]
    <3> HIDE DEF R2, R
    <3> QED BY <2>2
  <2> HIDE DEF R2, R
  <2>4. done2 = done
    BY <2>3
  <2> QED BY <2>1, <2>4
<1>3. ASSUME NEW k \in 1 .. n, NEW x \in M PROVE One(x, k) \in M
  <2>1. k - 1 + w \in Screen!Cells
    BY <1>1 DEF Screen!Cells
  <2> QED BY <2>1
<1> HIDE DEF One
<1>4. g \in [0 .. n - 1 -> [M -> M]]
  <2>1. \A k \in 0 .. n - 1 : k + 1 \in 1 .. n
    BY <1>1
  <2> HIDE DEF M
  <2> QED BY <1>3, <2>1
<1>5. PICK f \in [0 .. n -> M] : RecursTo(f, s, g, n)
  <2> HIDE DEF g, M
  <2>1. s \in M
    BY DEF M
  <2> QED BY <1>1, <1>4, <2>1, BoundedRecursion
<1>6. E(f)
  <2>1. ASSUME NEW k \in 0 .. n PROVE f[k] = R(f, k)
    <3>1. CASE k = 0
      BY <1>5, <3>1 DEF RecursTo
    <3>2. CASE k # 0
      <4> HIDE DEF M
      <4>1. k - 1 \in 0 .. n - 1 /\ k - 1 \in 0 .. n /\ (k - 1) + 1 = k
        BY <3>2
      <4>2. f[k] = g[k - 1][f[k - 1]] /\ f[k - 1] \in M
        BY <1>5, <4>1 DEF RecursTo
      <4>3. g[k - 1][f[k - 1]] = One(f[k - 1], k)
        BY <4>1, <4>2
      <4> QED BY <3>2, <4>2, <4>3
    <3> QED BY <3>1, <3>2
  <2> HIDE DEF R, M
  <2> QED BY <1>5, <2>1
<1>7. E(done)
  <2> HIDE DEF E
  <2> QED BY <1>6
<1> HIDE DEF done
<1>8. done[0] = s /\ \A k \in 0 .. n - 1 : done[k + 1] = One(done[k], k + 1)
  <2>1. done[0] = s
    BY <1>1, <1>7
  <2>2. ASSUME NEW k \in 0 .. n - 1 PROVE done[k + 1] = One(done[k], k + 1)
    <3>1. k + 1 \in 0 .. n /\ k + 1 # 0 /\ (k + 1) - 1 = k
      BY <1>1
    <3> QED BY <1>7, <3>1
  <2> QED BY <2>1, <2>2
<1> HIDE DEF E, R
<1> DEFINE Good(k) == MovedTill(s, done[k], k)
           Bad == {k \in 0 .. n : ~Good(k)}
<1>9. Good(0)
  <2>1. \A c \in Screen!Cells : ~(c < 0)
    BY DEF Screen!Cells
  <2> QED BY <1>8, <2>1 DEF MovedTill
<1>10. ASSUME NEW k \in 0 .. n - 1, Good(k) PROVE Good(k + 1)
  <2>1. k \in Nat /\ k < n /\ (k + 1) - 1 = k /\ k \in Screen!Cells /\ k + w \in Screen!Cells
        /\ ~(k + w < k)
    BY <1>1 DEF Screen!Cells
  <2>2. done[k + 1] = [done[k] EXCEPT ![k] = done[k][k + w]]
    BY <1>8, <2>1 DEF One
  <2>3. /\ DOMAIN done[k] = Screen!Cells
        /\ \A c \in Screen!Cells : done[k][c] = IF c < k THEN s[c + w] ELSE s[c]
    BY <1>1, <1>10 DEF MovedTill
  <2>4. DOMAIN done[k + 1] = Screen!Cells
    BY <2>2, <2>3
  <2>5. ASSUME NEW c \in Screen!Cells
        PROVE  done[k + 1][c] = IF c < k + 1 THEN s[c + w] ELSE s[c]
    <3>1. c \in Nat
      BY <1>1 DEF Screen!Cells
    <3>2. CASE c = k
      <4>1. done[k + 1][c] = done[k][k + w]
        BY <2>1, <2>2, <2>3, <3>2
      <4>2. done[k][k + w] = s[k + w]
        BY <2>1, <2>3
      <4> QED BY <2>1, <3>2, <4>1, <4>2
    <3>3. CASE c # k
      <4>1. done[k + 1][c] = done[k][c]
        BY <2>2, <2>3, <3>3
      <4>2. c < k + 1 <=> c < k
        BY <2>1, <3>1, <3>3
      <4> QED BY <2>3, <4>1, <4>2
    <3> QED BY <3>2, <3>3
  <2> QED BY <1>1, <2>4, <2>5 DEF MovedTill
<1> HIDE DEF Good
<1>11. Bad = {}
  <2>1. SUFFICES ASSUME Bad # {} PROVE FALSE
    OBVIOUS
  <2>2. Bad \subseteq Nat
    BY <1>1
  <2>3. PICK l \in Bad : \A k \in Bad : l <= k
    BY <2>1, <2>2, NatLeast, Zenon
  <2>4. l \in 0 .. n /\ ~Good(l) /\ l # 0
    BY <1>9, <2>3
  <2>5. l - 1 \in 0 .. n - 1 /\ l - 1 \in 0 .. n /\ ~(l <= l - 1) /\ (l - 1) + 1 = l
    BY <1>1, <2>4
  <2>6. Good(l - 1)
    BY <2>3, <2>5
  <2> QED BY <1>10, <2>4, <2>5, <2>6
<1>12. Good(n)
  <2>1. n \in 0 .. n
    BY <1>1
  <2> QED BY <1>11, <2>1
<1> QED BY <1>1, <1>2, <1>12 DEF Good

-----------------------------------------------------------------------------
(* The paper that OutputShown writes on.                                   *)
Papers == [pos : Int, top : Int, text : [Screen!Text -> Glyphs]]

(* The paper after a character, before its next row comes into view.       *)
Struck(p, c) ==
  LET row == p.pos \div CRT_COLS IN
  CASE c = "LF" -> [p EXCEPT !.pos = (row + 1) * CRT_COLS]
    [] c = "CR" -> [p EXCEPT !.pos = row * CRT_COLS]
    [] c = "BS" -> IF p.pos = p.top * CRT_COLS THEN p
                   ELSE [p EXCEPT !.pos = p.pos - 1, !.text[p.pos - 1] = " "]
    [] OTHER -> [p EXCEPT !.pos = p.pos + 1, !.text[p.pos] = IF c = "TAB" THEN " " ELSE c]

LEMMA TypedIs ==
  ASSUME NEW p, NEW c
  PROVE  Screen!Typed(p, c) =
           LET now == Struck(p, c)
           IN  IF now.pos \div CRT_COLS = now.top + CRT_ROWS THEN [now EXCEPT !.top = @ + 1] ELSE now
BY DEF Screen!Typed, Struck

Controls == {"LF", "CR", "BS"}
Glyph(c) == IF c = "TAB" THEN " " ELSE c

LEMMA StruckIs ==
  ASSUME NEW p \in Papers, NEW c \in Chars
  PROVE  /\ Struck(p, c) \in Papers /\ Struck(p, c).top = p.top
         /\ c = "LF" => /\ Struck(p, c).pos = (p.pos \div CRT_COLS + 1) * CRT_COLS
                        /\ Struck(p, c).text = p.text
         /\ c = "CR" => /\ Struck(p, c).pos = (p.pos \div CRT_COLS) * CRT_COLS
                        /\ Struck(p, c).text = p.text
         /\ c = "BS" => IF p.pos = p.top * CRT_COLS THEN Struck(p, c) = p
                        ELSE /\ Struck(p, c).pos = p.pos - 1
                             /\ Struck(p, c).text = [p.text EXCEPT ![p.pos - 1] = " "]
         /\ c \notin Controls => /\ Struck(p, c).pos = p.pos + 1
                                 /\ Struck(p, c).text = [p.text EXCEPT ![p.pos] = Glyph(c)]
<1>1. PICK a \in Int, k \in Int, x \in [Screen!Text -> Glyphs], w \in Nat \ {0} :
        p = [pos |-> a, top |-> k, text |-> x] /\ w = CRT_COLS
  BY ScreenSizes DEF Papers
<1>2. PICK u \in Int, f \in Int, g \in Int, h \in Int :
        u = a \div w /\ f = (u + 1) * w /\ g = u * w /\ h = k * w
  BY <1>1
<1>3. CASE c = "LF"
  <2>1. Struck(p, c) = [pos |-> f, top |-> k, text |-> x]
    BY <1>1, <1>2, <1>3 DEF Struck
  <2> QED BY <1>1, <1>2, <1>3, <2>1 DEF Papers, Controls
<1>4. CASE c = "CR"
  <2>1. Struck(p, c) = [pos |-> g, top |-> k, text |-> x]
    BY <1>1, <1>2, <1>4 DEF Struck
  <2> QED BY <1>1, <1>2, <1>4, <2>1 DEF Papers, Controls
<1>5. CASE c = "BS"
  <2>1. CASE a = h
    <3>1. Struck(p, c) = p
      BY <1>1, <1>2, <1>5, <2>1 DEF Struck
    <3> QED BY <1>1, <1>2, <1>5, <2>1, <3>1 DEF Controls
  <2>2. CASE a # h
    <3>2. PICK y \in [Screen!Text -> Glyphs] : y = [x EXCEPT ![a - 1] = " "]
      BY DEF Glyphs
    <3>1. Struck(p, c) = [pos |-> a - 1, top |-> k, text |-> y]
      BY <1>1, <1>2, <1>5, <2>2, <3>2 DEF Struck
    <3>3. /\ Struck(p, c).pos = a - 1 /\ Struck(p, c).top = k
          /\ Struck(p, c).text = [x EXCEPT ![a - 1] = " "]
      <4>1. Struck(p, c).pos = a - 1 /\ Struck(p, c).top = k /\ Struck(p, c).text = y
        BY <3>1
      <4> QED BY <3>2, <4>1, Zenon
    <3>4. Struck(p, c) \in Papers
      BY <3>1 DEF Papers
    <3>5. p.pos = a /\ p.text = x /\ p.top = k /\ p.top * CRT_COLS = h
      BY <1>1, <1>2
    <3>6. c # "LF" /\ c # "CR" /\ c \in Controls
      BY <1>5 DEF Controls
    <3> QED BY <2>2, <3>3, <3>4, <3>5, <3>6, Zenon
  <2> QED BY <2>1, <2>2
<1>6. CASE c \notin Controls
  <2>2. PICK y \in [Screen!Text -> Glyphs] : y = [x EXCEPT ![a] = Glyph(c)]
    BY DEF Glyphs, Glyph
  <2>1. Struck(p, c) = [pos |-> a + 1, top |-> k, text |-> y]
    BY <1>1, <1>6, <2>2 DEF Struck, Controls, Glyph
  <2>3. /\ Struck(p, c).pos = a + 1 /\ Struck(p, c).top = k
        /\ Struck(p, c).text = [x EXCEPT ![a] = Glyph(c)]
    BY <2>1, <2>2
  <2>4. Struck(p, c) \in Papers
    BY <2>1 DEF Papers
  <2>5. p.pos = a /\ p.text = x /\ p.top = k
    BY <1>1
  <2>6. c # "LF" /\ c # "CR" /\ c # "BS"
    BY <1>6 DEF Controls
  <2> QED BY <1>6, <2>3, <2>4, <2>5, <2>6, Zenon
<1> QED BY <1>3, <1>4, <1>5, <1>6 DEF Controls

(* What cga_putc makes of a screen and a position, before it rolls.        *)
PutRight(s, pos, c, t, q) ==
  /\ c = "LF" => t = s /\ q = pos + CRT_COLS - (pos % CRT_COLS)
  /\ c = "CR" => t = s /\ q = pos - (pos % CRT_COLS)
  /\ c = "BS" => IF pos > 0 THEN t = [s EXCEPT ![pos - 1] = " "] /\ q = pos - 1
                 ELSE t = s /\ q = pos
  /\ c \notin Controls => t = [s EXCEPT ![pos] = Glyph(c)] /\ q = pos + 1

LEMMA PutIs ==
  ASSUME NEW s, NEW pos \in Nat, NEW c \in Chars
  PROVE  PutRight(s, pos, c, Screen!Put(s, pos, c)[1], Screen!Put(s, pos, c)[2])
BY DEF PutRight, Screen!Put, Controls, Glyph

(* A screen s with the cursor at pos is the window of a paper on which n   *)
(* characters were written, and the paper below the window is blank.       *)
View(p, s, pos, n) ==
  /\ p.top \in 0 .. n
  /\ p.pos = p.top * CRT_COLS + pos
  /\ \A c \in Screen!Cells : s[c] = p.text[p.top * CRT_COLS + c]
  /\ \A a \in Screen!Text : a >= p.top * CRT_COLS + Screen!CRT_SIZE => p.text[a] = " "

(* The window whose top is row k lies on the paper.                        *)
Lies(k, n, w, z, h, m) ==
  /\ w = CRT_COLS /\ w >= 1 /\ z = Screen!CRT_SIZE /\ z = CRT_ROWS * w /\ z >= 2 * w
  /\ h = k * CRT_COLS /\ h = k * w /\ h <= m
  /\ n < MaxChars => h + w <= m
  /\ Screen!Text = 0 .. z + m /\ Screen!Cells = 0 .. z - 1

LEMMA OnPaper ==
  ASSUME NEW n \in Nat, n <= MaxChars, NEW k \in 0 .. n
  PROVE  \E w \in Nat, z \in Nat, h \in Nat, m \in Nat : Lies(k, n, w, z, h, m)
<1>1. PICK w \in Nat, z \in Nat, y \in Nat :
        w = CRT_COLS /\ w >= 1 /\ z = CRT_ROWS * CRT_COLS /\ z = Screen!CRT_SIZE
        /\ z >= 2 * w /\ y = MaxChars
  BY ScreenSizes
<1>2. k \in Nat /\ k <= n
  OBVIOUS
<1>3. PICK h \in Nat, m \in Nat, g \in Nat : h = k * w /\ m = y * w /\ g = (k + 1) * w /\ g = h + w
  <2>1. k * w \in Nat /\ y * w \in Nat /\ (k + 1) * w \in Nat /\ (k + 1) * w = k * w + w
    BY <1>2, MulRegroup
  <2> QED BY <2>1
<1>4. h <= m
  <2>1. k <= y
    BY <1>1, <1>2
  <2> QED BY <1>2, <1>3, <2>1, MulMono
<1>5. ASSUME n < MaxChars PROVE h + w <= m
  <2>1. k + 1 <= y /\ k + 1 \in Nat
    BY <1>1, <1>2, <1>5
  <2>2. (k + 1) * w <= y * w
    BY <2>1, MulMono
  <2> QED BY <1>3, <2>2
<1>6. Screen!Text = 0 .. z + m /\ Screen!Cells = 0 .. z - 1
  BY <1>1, <1>3 DEF Screen!Text, Screen!Cells
<1>7. Lies(k, n, w, z, h, m)
  BY <1>1, <1>3, <1>4, <1>5, <1>6 DEF Lies
<1> QED BY <1>7

(* The same character in the same place on the screen and on the paper.    *)
LEMMA SameStroke ==
  ASSUME NEW n \in Nat, n <= MaxChars,
         NEW s \in [Screen!Cells -> Glyphs], NEW p \in Papers, NEW pos, View(p, s, pos, n),
         NEW x \in Screen!Cells, NEW g \in Glyphs,
         NEW r \in Papers, r.top = p.top, NEW q, r.pos = p.top * CRT_COLS + q,
         r.text = [p.text EXCEPT ![p.top * CRT_COLS + x] = g]
  PROVE  View(r, [s EXCEPT ![x] = g], q, n)
<1>1. PICK k \in 0 .. n : k = p.top
  BY DEF View
<1>2a. PICK w \in Nat, z \in Nat, h \in Nat, m \in Nat : Lies(k, n, w, z, h, m)
  BY OnPaper
<1>2. /\ z = Screen!CRT_SIZE /\ h = k * CRT_COLS /\ h <= m
      /\ Screen!Text = 0 .. z + m /\ Screen!Cells = 0 .. z - 1
  BY <1>2a DEF Lies
<1>3. PICK t \in [Screen!Text -> Glyphs] : t = p.text
  BY DEF Papers
<1>4. r.text = [t EXCEPT ![h + x] = g] /\ r.top = k /\ r.pos = h + q
  BY <1>1, <1>2, <1>3
<1>5. /\ \A c \in Screen!Cells : s[c] = t[h + c]
      /\ \A a \in Screen!Text : a >= h + z => t[a] = " "
  BY <1>1, <1>2, <1>3 DEF View
<1>6. ASSUME NEW c \in Screen!Cells PROVE [s EXCEPT ![x] = g][c] = r.text[h + c]
  <2>1. h + c \in Screen!Text /\ (h + c = h + x <=> c = x)
    BY <1>2
  <2> QED BY <1>4, <1>5, <2>1
<1>7. ASSUME NEW a \in Screen!Text, a >= h + z PROVE r.text[a] = " "
  <2>1. a # h + x
    BY <1>2, <1>7
  <2> QED BY <1>4, <1>5, <1>7, <2>1
<1> QED BY <1>1, <1>2, <1>4, <1>6, <1>7 DEF View

LEMMA PutStrikes ==
  ASSUME NEW n \in Nat, n <= MaxChars,
         NEW s \in [Screen!Cells -> Glyphs], NEW pos \in Screen!Cells, NEW c \in Chars,
         NEW p \in Papers, View(p, s, pos, n)
  PROVE  LET t == Screen!Put(s, pos, c)[1]
             q == Screen!Put(s, pos, c)[2]
         IN  /\ t \in [Screen!Cells -> Glyphs] /\ q \in 0 .. Screen!CRT_SIZE
             /\ View(Struck(p, c), t, q, n)
<1> DEFINE t == Screen!Put(s, pos, c)[1]
           q == Screen!Put(s, pos, c)[2]
           r == Struck(p, c)
<1>1. PICK k \in 0 .. n : k = p.top
  BY DEF View
<1>2a. PICK w \in Nat, z \in Nat, h \in Nat, m \in Nat : Lies(k, n, w, z, h, m)
  BY OnPaper
<1>2. /\ w = CRT_COLS /\ w >= 1 /\ z = Screen!CRT_SIZE /\ z = CRT_ROWS * w
      /\ h = k * CRT_COLS /\ h = k * w /\ h <= m
      /\ Screen!Text = 0 .. z + m /\ Screen!Cells = 0 .. z - 1
  BY <1>2a DEF Lies
<1> SUFFICES t \in [Screen!Cells -> Glyphs] /\ q \in 0 .. Screen!CRT_SIZE /\ View(r, t, q, n)
  OBVIOUS
<1> HIDE DEF t, q, r
<1>3. pos \in Nat /\ pos < z /\ p.pos = h + pos
  <2>1. pos \in 0 .. z - 1
    BY <1>2
  <2>2. p.pos = p.top * CRT_COLS + pos
    BY DEF View
  <2> QED BY <1>1, <1>2, <2>1, <2>2
<1>4. r \in Papers /\ r.top = p.top
  BY StruckIs DEF r
<1>5. ASSUME r.text = p.text, t = s, NEW x \in 0 .. z, q = x, r.pos = h + x
      PROVE  t \in [Screen!Cells -> Glyphs] /\ q \in 0 .. Screen!CRT_SIZE /\ View(r, t, q, n)
  BY <1>1, <1>2, <1>4, <1>5 DEF View
<1>6. ASSUME NEW x \in Screen!Cells, NEW g \in Glyphs, t = [s EXCEPT ![x] = g],
             r.text = [p.text EXCEPT ![h + x] = g], NEW y \in 0 .. z, q = y, r.pos = h + y
      PROVE  t \in [Screen!Cells -> Glyphs] /\ q \in 0 .. Screen!CRT_SIZE /\ View(r, t, q, n)
  <2>1. View(r, [s EXCEPT ![x] = g], q, n)
    BY <1>1, <1>2, <1>4, <1>6, SameStroke
  <2> QED BY <1>2, <1>6, <2>1
<1>7. PICK u \in Nat, v \in Nat :
        u = pos \div w /\ v = pos % w /\ pos = w * u + v /\ v < w
  <2>1. w \in Nat \ {0}
    BY <1>2
  <2>2. pos = w * (pos \div w) + (pos % w) /\ pos % w \in 0 .. w - 1
    BY <1>3, <2>1, DivMod
  <2>3. pos \div w \in Nat
    BY <1>3, <2>1, DivBounds
  <2> QED BY <1>3, <2>2, <2>3
<1>8. PICK f \in Nat : f = u * w /\ pos = f + v /\ f + w <= z /\ (u + 1) * w = f + w
  <2>1. u * w \in Nat /\ w * u = u * w /\ (u + 1) * w = u * w + w
    BY <1>2, MulRegroup
  <2>2. PICK y \in Nat : y = CRT_ROWS /\ z = y * w
    BY <1>2, ScreenSizes
  <2>3. u < y
    <3>1. u * w < y * w
      BY <1>3, <1>7, <2>1, <2>2
    <3> QED BY <1>2, <2>2, <3>1, MulLess
  <2>4. (u + 1) * w <= y * w
    BY <1>2, <2>2, <2>3, MulMono
  <2> QED BY <1>7, <2>1, <2>2, <2>4
<1>9. p.pos \div w = k + u /\ (k + u) * w = h + f /\ (k + u + 1) * w = h + f + w
  <2>1. k \in Nat /\ k + u \in Nat
    OBVIOUS
  <2>2. (k + u) * w = h + f /\ (k + u + 1) * w = (k + u) * w + 1 * w
    BY <1>2, <1>8, <2>1, MulRegroup
  <2>3. PICK y \in Nat, g \in Nat, a \in Nat :
          y = k + u /\ g = y * w /\ g = h + f /\ a = h + pos
    <3>1. h + f \in Nat /\ h + pos \in Nat
      BY <1>3
    <3> QED BY <2>1, <2>2, <3>1
  <2>4. g <= a /\ a < g + w
    BY <1>3, <1>7, <1>8, <2>3
  <2>5. a \div w = y
    <3>1. w \in Nat \ {0}
      BY <1>2
    <3> QED BY <2>3, <2>4, <3>1, DivUnique
  <2> QED BY <1>3, <2>2, <2>3, <2>5
<1> PutRight(s, pos, c, t, q)
  BY <1>3, PutIs DEF t, q
<1>10. CASE c = "LF"
  <2>1. t = s /\ q = pos + w - v
    BY <1>2, <1>3, <1>7, <1>10 DEF PutRight
  <2>2. r.pos = h + f + w /\ r.text = p.text
    BY <1>2, <1>9, <1>10, StruckIs DEF r
  <2>3. q = f + w /\ f + w \in 0 .. z /\ r.pos = h + (f + w)
    <3>1. f + w \in Nat /\ f + w <= z /\ pos = f + v
      BY <1>8
    <3>2. q = f + w
      BY <2>1, <3>1
    <3> QED BY <2>2, <3>1, <3>2
  <2> QED BY <1>5, <2>1, <2>2, <2>3
<1>11. CASE c = "CR"
  <2>1. t = s /\ q = pos - v
    BY <1>2, <1>3, <1>7, <1>11 DEF PutRight
  <2>2. r.pos = h + f /\ r.text = p.text
    BY <1>2, <1>9, <1>11, StruckIs DEF r
  <2>3. q = f /\ f \in 0 .. z
    <3>1. f + w <= z /\ pos = f + v
      BY <1>8
    <3> QED BY <2>1, <3>1
  <2> QED BY <1>5, <2>1, <2>2, <2>3
<1>12. CASE c = "BS"
  <2>1. CASE pos > 0
    <3>1. t = [s EXCEPT ![pos - 1] = " "] /\ q = pos - 1
      BY <1>3, <1>12, <2>1 DEF PutRight
    <3>2. p.pos # p.top * CRT_COLS
      BY <1>1, <1>2, <1>3, <2>1
    <3>3. r.pos = p.pos - 1 /\ r.text = [p.text EXCEPT ![p.pos - 1] = " "]
      BY <1>12, <3>2, StruckIs DEF r
    <3>4. pos - 1 \in Screen!Cells /\ pos - 1 \in 0 .. z /\ p.pos - 1 = h + (pos - 1) /\ " " \in Glyphs
      <4>1. pos - 1 \in 0 .. z - 1 /\ pos - 1 \in 0 .. z /\ p.pos - 1 = h + (pos - 1)
        BY <1>3, <2>1
      <4> QED BY <1>2, <4>1 DEF Glyphs
    <3> QED BY <1>6, <3>1, <3>3, <3>4
  <2>2. CASE ~(pos > 0)
    <3>1. t = s /\ q = pos
      BY <1>3, <1>12, <2>2 DEF PutRight
    <3>2. p.pos = p.top * CRT_COLS
      BY <1>1, <1>2, <1>3, <2>2
    <3>3. r = p
      BY <1>12, <3>2, StruckIs DEF r
    <3>4. pos \in 0 .. z
      BY <1>2, <1>3
    <3> QED BY <1>3, <1>5, <3>1, <3>3, <3>4
  <2> QED BY <2>1, <2>2
<1>13. CASE c \notin Controls
  <2>1. t = [s EXCEPT ![pos] = Glyph(c)] /\ q = pos + 1
    BY <1>3, <1>13 DEF PutRight
  <2>2. r.pos = p.pos + 1 /\ r.text = [p.text EXCEPT ![p.pos] = Glyph(c)]
    BY <1>13, StruckIs DEF r
  <2>3. pos + 1 \in 0 .. z /\ r.pos = h + (pos + 1) /\ Glyph(c) \in Glyphs
    <3>1. pos + 1 \in 0 .. z /\ r.pos = h + (pos + 1)
      BY <1>3, <2>2
    <3> QED BY <3>1 DEF Glyph, Glyphs
  <2> QED BY <1>3, <1>6, <2>1, <2>2, <2>3
<1> QED BY <1>10, <1>11, <1>12, <1>13 DEF Controls

(* The next row comes into view on the paper when the screen rolls.        *)
Shifted(p) == IF p.pos \div CRT_COLS = p.top + CRT_ROWS THEN [p EXCEPT !.top = @ + 1] ELSE p

LEMMA RollShows ==
  ASSUME NEW n \in Nat, n < MaxChars,
         NEW s \in [Screen!Cells -> Glyphs], NEW q \in 0 .. Screen!CRT_SIZE,
         NEW p \in Papers, View(p, s, q, n)
  PROVE  /\ Screen!Rolled(s, q)[1] \in [Screen!Cells -> Glyphs]
         /\ Screen!Rolled(s, q)[2] \in Screen!Cells
         /\ Shifted(p) \in Papers
         /\ View(Shifted(p), Screen!Rolled(s, q)[1], Screen!Rolled(s, q)[2], n + 1)
<1>0. n <= MaxChars
  BY ScreenSizes
<1>1. PICK k \in 0 .. n : k = p.top
  BY DEF View
<1>2a. PICK w \in Nat, z \in Nat, h \in Nat, m \in Nat : Lies(k, n, w, z, h, m)
  BY <1>0, OnPaper
<1>2. /\ w = CRT_COLS /\ w >= 1 /\ z = Screen!CRT_SIZE /\ z >= 2 * w /\ h + w <= m
      /\ Screen!Text = 0 .. z + m /\ Screen!Cells = 0 .. z - 1
  BY <1>2a DEF Lies
<1>2b. z = CRT_ROWS * w /\ h = k * CRT_COLS /\ h = k * w
  BY <1>2a DEF Lies
<1>3. q \in Nat /\ q <= z /\ p.pos = h + q
  <2>1. q \in 0 .. z
    BY <1>2
  <2>2. p.pos = p.top * CRT_COLS + q
    BY DEF View
  <2> QED BY <1>1, <1>2b, <2>1, <2>2
<1>4. PICK x \in [Screen!Text -> Glyphs] : x = p.text /\ p = [pos |-> h + q, top |-> k, text |-> x]
  BY <1>1, <1>3 DEF Papers
<1>5. /\ \A c \in Screen!Cells : s[c] = x[h + c]
      /\ \A a \in Screen!Text : a >= h + z => x[a] = " "
  BY <1>1, <1>2, <1>2b, <1>4 DEF View
<1>6. PICK y \in Nat : y = CRT_ROWS /\ z = y * w /\ (k + y) * w = h + z /\ k \in Nat
  <2>1. k \in Nat /\ CRT_ROWS \in Nat
    BY ScreenSizes
  <2>2. (k + CRT_ROWS) * w = k * w + CRT_ROWS * w
    BY <2>1, MulRegroup
  <2> QED BY <1>2b, <2>1, <2>2
<1>7. CASE q < z
  <2>1. (h + q) \div w # k + y
    <3>1. SUFFICES ASSUME (h + q) \div w = k + y PROVE FALSE
      OBVIOUS
    <3>2. w \in Nat \ {0} /\ h + q \in Nat
      BY <1>2, <1>3
    <3>3. ((h + q) \div w) * w <= h + q
      BY <3>2, DivBounds
    <3>4. h + z <= h + q
      BY <1>6, <3>1, <3>3
    <3> QED BY <1>3, <1>7, <3>4
  <2>2. Shifted(p) = p
    BY <1>2, <1>4, <1>6, <2>1 DEF Shifted
  <2>3. Screen!Rolled(s, q) = <<s, q>>
    BY <1>2, <1>7 DEF Screen!Rolled
  <2>4. q \in Screen!Cells
    BY <1>2, <1>3, <1>7
  <2>5. p.top \in 0 .. n + 1
    BY <1>1
  <2>6. View(p, s, q, n + 1)
    BY <2>5 DEF View
  <2> QED BY <2>2, <2>3, <2>4, <2>6
<1>8. CASE q = z
  <2>1. (h + q) \div w = k + y
    <3>1. PICK a \in Nat, b \in Nat : a = h + q /\ b = k + y /\ b * w = a
      <4>1. h + q \in Nat /\ k + y \in Nat /\ (k + y) * w = h + q
        BY <1>3, <1>6, <1>8
      <4> QED BY <4>1
    <3>2. w \in Nat \ {0} /\ a < b * w + w /\ b * w <= a
      <4>1. a < a + w /\ a <= a
        BY <1>2
      <4> QED BY <1>2, <3>1, <4>1
    <3>3. a \div w = b
      BY <3>1, <3>2, DivUnique, SMTT(30)
    <3> QED BY <3>1, <3>3
  <2>2. Shifted(p) = [pos |-> h + q, top |-> k + 1, text |-> x]
    <3>1. p.pos \div CRT_COLS = p.top + CRT_ROWS
      BY <1>2, <1>4, <1>6, <2>1
    <3>2. Shifted(p) = [p EXCEPT !.top = @ + 1]
      BY <3>1 DEF Shifted
    <3> QED BY <1>4, <3>2
  <2>3a. PICK e \in Nat : e = z - w /\ e = Screen!Copies
    BY <1>2 DEF Screen!Copies
  <2>3b. PICK u : u = [c \in Screen!Cells |-> IF c < e THEN Screen!MovedUp(s)[c] ELSE " "]
    OBVIOUS
  <2>3. e = z - w
    BY <2>3a
  <2>4. Screen!Rolled(s, q) = <<u, e>>
    <3>1. ~(q < Screen!CRT_SIZE) /\ q - CRT_COLS = e
      BY <1>2, <1>8, <2>3
    <3> QED BY <2>3a, <2>3b, <3>1 DEF Screen!Rolled
  <2>5. e \in Screen!Cells
    BY <1>2, <2>3
  <2>6. ASSUME NEW c \in Screen!Cells
        PROVE  u[c] = IF c < e THEN s[c + w] ELSE " "
    <3>1. c < e => Screen!MovedUp(s)[c] = s[c + w]
      BY <1>2, <2>3a, MovedUpIs DEF MovedTill
    <3> QED BY <2>3b, <3>1
  <2>7. u \in [Screen!Cells -> Glyphs]
    <3>1. \A c \in Screen!Cells : c < e => c + w \in Screen!Cells
      BY <1>2, <2>3
    <3>2. \A c \in Screen!Cells : u[c] \in Glyphs
      BY <2>6, <3>1 DEF Glyphs
    <3> QED BY <2>3b, <3>2
  <2>8. Shifted(p) \in Papers
    BY <1>6, <2>2 DEF Papers
  <2>9. (k + 1) * CRT_COLS = h + w
    <3>1. (k + 1) * w = k * w + 1 * w
      BY <1>6, MulRegroup
    <3> QED BY <1>2, <1>2b, <3>1
  <2>10. ASSUME NEW c \in Screen!Cells PROVE u[c] = x[h + w + c]
    <3>1. CASE c < e
      <4>1. c + w \in Screen!Cells /\ h + (c + w) = h + w + c
        BY <1>2, <2>3, <3>1
      <4> QED BY <1>5, <2>6, <3>1, <4>1
    <3>2. CASE ~(c < e)
      <4>1. h + w + c \in Screen!Text /\ h + w + c >= h + z
        BY <1>2, <2>3, <3>2
      <4> QED BY <1>5, <2>6, <3>2, <4>1
    <3> QED BY <3>1, <3>2
  <2>11. ASSUME NEW a \in Screen!Text, a >= h + w + z PROVE x[a] = " "
    <3>1. a >= h + z
      BY <1>2, <2>11
    <3> QED BY <1>5, <3>1
  <2>12. k + 1 \in 0 .. n + 1 /\ h + q = h + w + e
    BY <1>2, <1>6, <1>8, <2>3
  <2>13. View(Shifted(p), u, e, n + 1)
    <3>1. Shifted(p).top = k + 1 /\ Shifted(p).pos = h + q /\ Shifted(p).text = x
      BY <2>2
    <3>2. PICK b : b = Shifted(p) /\ b.top = k + 1 /\ b.pos = h + q /\ b.text = x
      BY <3>1
    <3>3. b.top * CRT_COLS = h + w /\ b.pos = b.top * CRT_COLS + e /\ b.top \in 0 .. n + 1
      BY <2>9, <2>12, <3>2
    <3>4. \A c \in Screen!Cells : u[c] = b.text[b.top * CRT_COLS + c]
      BY <2>10, <3>2, <3>3
    <3>5. \A a \in Screen!Text : a >= b.top * CRT_COLS + Screen!CRT_SIZE => b.text[a] = " "
      BY <1>2, <2>11, <3>2, <3>3
    <3> QED BY <3>2, <3>3, <3>4, <3>5 DEF View
  <2> QED BY <2>4, <2>5, <2>7, <2>8, <2>13
<1> QED BY <1>3, <1>7, <1>8

(* A character more on the paper and on the screen.                        *)
LEMMA TypedShows ==
  ASSUME NEW n \in Nat, n < MaxChars,
         NEW s \in [Screen!Cells -> Glyphs], NEW pos \in Screen!Cells, NEW c \in Chars,
         NEW p \in Papers, View(p, s, pos, n)
  PROVE  LET put == Screen!Put(s, pos, c)
             now == Screen!Rolled(put[1], put[2])
         IN  /\ now[1] \in [Screen!Cells -> Glyphs] /\ now[2] \in Screen!Cells
             /\ Screen!Typed(p, c) \in Papers
             /\ View(Screen!Typed(p, c), now[1], now[2], n + 1)
<1>0. n <= MaxChars
  BY ScreenSizes
<1>1. PICK t, q : t = Screen!Put(s, pos, c)[1] /\ q = Screen!Put(s, pos, c)[2]
  OBVIOUS
<1>2. t \in [Screen!Cells -> Glyphs] /\ q \in 0 .. Screen!CRT_SIZE /\ View(Struck(p, c), t, q, n)
  BY <1>0, <1>1, PutStrikes
<1>3. Struck(p, c) \in Papers
  BY StruckIs
<1>4. Screen!Typed(p, c) = Shifted(Struck(p, c))
  BY TypedIs DEF Shifted
<1>5. /\ Screen!Rolled(t, q)[1] \in [Screen!Cells -> Glyphs]
      /\ Screen!Rolled(t, q)[2] \in Screen!Cells
      /\ Shifted(Struck(p, c)) \in Papers
      /\ View(Shifted(Struck(p, c)), Screen!Rolled(t, q)[1], Screen!Rolled(t, q)[2], n + 1)
  BY <1>2, <1>3, RollShows
<1> QED BY <1>1, <1>4, <1>5

-----------------------------------------------------------------------------
(* The paper after all that was written.                                   *)
PaperFn(b, w, n) ==
  CHOOSE f : f = [k \in 0 .. n |-> IF k = 0 THEN b ELSE Screen!Typed(f[k - 1], w[k])]

PaperSteps(f, b, w, n) ==
  f[0] = b /\ \A k \in 0 .. n - 1 : f[k + 1] = Screen!Typed(f[k], w[k + 1])

LEMMA PaperIs == Screen!Paper = PaperFn(Screen!Blank, written, Len(written))[Len(written)]
BY DEF Screen!Paper, PaperFn

LEMMA TypedPapers ==
  ASSUME NEW p \in Papers, NEW c \in Chars
  PROVE  Screen!Typed(p, c) \in Papers
<1>1. Struck(p, c) \in Papers
  BY StruckIs
<1>2. Screen!Typed(p, c) = Shifted(Struck(p, c))
  BY TypedIs DEF Shifted
<1>3. ASSUME NEW q \in Papers PROVE Shifted(q) \in Papers
  <2>1. PICK a \in Int, k \in Int, x \in [Screen!Text -> Glyphs] : q = [pos |-> a, top |-> k, text |-> x]
    BY DEF Papers
  <2>2. Shifted(q) = q \/ Shifted(q) = [pos |-> a, top |-> k + 1, text |-> x]
    BY <2>1 DEF Shifted
  <2> QED BY <2>2 DEF Papers
<1> QED BY <1>1, <1>2, <1>3

LEMMA PaperRecurs ==
  ASSUME NEW b \in Papers, NEW n \in Nat, NEW w, \A k \in 1 .. n : w[k] \in Chars
  PROVE  PaperSteps(PaperFn(b, w, n), b, w, n)
<1> DEFINE R(f, k) == IF k = 0 THEN b ELSE Screen!Typed(f[k - 1], w[k])
           E(f) == f = [k \in 0 .. n |-> R(f, k)]
           g == [k \in 0 .. n - 1 |-> [x \in Papers |-> Screen!Typed(x, w[k + 1])]]
<1>1. g \in [0 .. n - 1 -> [Papers -> Papers]]
  <2>1. \A k \in 0 .. n - 1 : w[k + 1] \in Chars
    OBVIOUS
  <2> QED BY <2>1, TypedPapers
<1>2. PICK f \in [0 .. n -> Papers] : RecursTo(f, b, g, n)
  <2> HIDE DEF g
  <2> QED BY <1>1, BoundedRecursion
<1>3. E(f)
  <2>1. ASSUME NEW k \in 0 .. n PROVE f[k] = R(f, k)
    <3>1. CASE k = 0
      BY <1>2, <3>1 DEF RecursTo
    <3>2. CASE k # 0
      <4>1. k - 1 \in 0 .. n - 1 /\ k - 1 \in 0 .. n /\ (k - 1) + 1 = k
        BY <3>2
      <4>2. f[k] = g[k - 1][f[k - 1]] /\ f[k - 1] \in Papers
        BY <1>2, <4>1 DEF RecursTo
      <4>3. g[k - 1][f[k - 1]] = Screen!Typed(f[k - 1], w[k])
        BY <4>1, <4>2
      <4> QED BY <3>2, <4>2, <4>3
    <3> QED BY <3>1, <3>2
  <2> HIDE DEF R
  <2> QED BY <2>1
<1>4. E(PaperFn(b, w, n))
  <2>1. PaperFn(b, w, n) = CHOOSE h : E(h)
    BY DEF PaperFn
  <2> HIDE DEF E
  <2> QED BY <1>3, <2>1
<1>5. PICK h : h = PaperFn(b, w, n)
  OBVIOUS
<1>6. \A k \in 0 .. n : h[k] = R(h, k)
  BY <1>4, <1>5
<1>7. h[0] = b
  BY <1>6
<1>8. ASSUME NEW k \in 0 .. n - 1 PROVE h[k + 1] = Screen!Typed(h[k], w[k + 1])
  <2>1. k + 1 \in 0 .. n /\ k + 1 # 0 /\ (k + 1) - 1 = k
    OBVIOUS
  <2> QED BY <1>6, <2>1
<1> QED BY <1>5, <1>7, <1>8 DEF PaperSteps

(* A character more is typed on the paper there was.                       *)
LEMMA PaperAppend ==
  ASSUME NEW b \in Papers, NEW w \in Seq(Chars), NEW c \in Chars, NEW n \in Nat, n = Len(w)
  PROVE  PaperFn(b, Append(w, c), n + 1)[n + 1] = Screen!Typed(PaperFn(b, w, n)[n], c)
<1>1. PICK v : v = Append(w, c)
  OBVIOUS
<1>2. v[n + 1] = c /\ \A k \in 1 .. n : v[k] = w[k] /\ w[k] \in Chars
  BY <1>1, AppendProperties, ElementOfSeq
<1>3. PICK f, g : f = PaperFn(b, w, n) /\ g = PaperFn(b, v, n + 1)
  OBVIOUS
<1>4. f[0] = b /\ \A k \in 0 .. n - 1 : f[k + 1] = Screen!Typed(f[k], w[k + 1])
  BY <1>2, <1>3, PaperRecurs DEF PaperSteps
<1>5. g[0] = b /\ \A k \in 0 .. n : g[k + 1] = Screen!Typed(g[k], v[k + 1])
  <2>1. \A k \in 1 .. n + 1 : v[k] \in Chars
    BY <1>2
  <2>2. PaperSteps(g, b, v, n + 1)
    BY <1>3, <2>1, PaperRecurs
  <2> QED BY <2>2 DEF PaperSteps
<1> DEFINE Bad == {k \in 0 .. n : f[k] # g[k]}
<1>6. Bad = {}
  <2>1. SUFFICES ASSUME Bad # {} PROVE FALSE
    OBVIOUS
  <2>2. Bad \subseteq Nat
    OBVIOUS
  <2>3. PICK l \in Bad : \A k \in Bad : l <= k
    BY <2>1, <2>2, NatLeast, Zenon
  <2>4. l \in 0 .. n /\ f[l] # g[l] /\ l # 0
    BY <1>4, <1>5, <2>3
  <2>5. l - 1 \in 0 .. n - 1 /\ l - 1 \in 0 .. n /\ ~(l <= l - 1) /\ (l - 1) + 1 = l /\ l \in 1 .. n
    BY <2>4
  <2>6. f[l - 1] = g[l - 1]
    BY <2>3, <2>5
  <2>7. f[l] = Screen!Typed(f[l - 1], w[l]) /\ g[l] = Screen!Typed(g[l - 1], v[l])
    BY <1>4, <1>5, <2>5
  <2> QED BY <1>2, <2>4, <2>5, <2>6, <2>7
<1>7. f[n] = g[n] /\ g[n + 1] = Screen!Typed(g[n], v[n + 1])
  BY <1>5, <1>6
<1> QED BY <1>1, <1>2, <1>3, <1>7

-----------------------------------------------------------------------------
(* What the port has sent and holds, of what was written; with room, the   *)
(* last character is still to come.                                        *)
SentIn(sent, w, room) ==
  \E from \in [DOMAIN sent -> DOMAIN w] :
    Screen!From(sent, w, from) /\ (room => \A k \in DOMAIN sent : from[k] < Len(w))

LEMMA SentLater ==
  ASSUME NEW sent, NEW w \in Seq(Chars), NEW c \in Chars, SentIn(sent, w, FALSE)
  PROVE  SentIn(sent, Append(w, c), TRUE)
<1>0. PICK v : v = Append(w, c)
  OBVIOUS
<1>1a. PICK n \in Nat : n = Len(w)
  BY LenProperties
<1>1. v = Append(w, c) /\ n = Len(w)
  BY <1>0, <1>1a
<1>2. /\ DOMAIN v = 1 .. n + 1 /\ Len(v) = n + 1 /\ DOMAIN w = 1 .. n
      /\ \A k \in 1 .. n : v[k] = w[k]
  BY <1>1, AppendProperties, LenProperties
<1>3. PICK from \in [DOMAIN sent -> DOMAIN w] : Screen!From(sent, w, from)
  BY DEF SentIn
<1>4. from \in [DOMAIN sent -> DOMAIN v] /\ \A k \in DOMAIN sent : from[k] \in 1 .. n
  BY <1>2, <1>3
<1>5. \A k \in DOMAIN sent : from[k] < Len(v)
  BY <1>2, <1>4
<1>6. Screen!From(sent, v, from)
  BY <1>2, <1>3, <1>4 DEF Screen!From
<1> QED BY <1>1, <1>4, <1>5, <1>6 DEF SentIn

(* The last character goes into the holding register, whatever was there.  *)
LEMMA SentNow ==
  ASSUME NEW old \in Seq(Chars), NEW more \in Seq(Chars), NEW w \in Seq(Chars), Len(w) >= 1,
         SentIn(old \o more, w, TRUE)
  PROVE  SentIn(old \o <<w[Len(w)]>>, w, FALSE)
<1>1. PICK n \in Nat, l \in Nat : n = Len(w) /\ n >= 1 /\ l = Len(old) /\ DOMAIN w = 1 .. n
  BY LenProperties
<1>2. PICK u : u = old \o <<w[n]>>
  OBVIOUS
<1>3. DOMAIN u = 1 .. l + 1 /\ u[l + 1] = w[n] /\ \A k \in 1 .. l : u[k] = old[k]
  <2>1. w[n] \in Chars
    BY <1>1, ElementOfSeq
  <2>2. <<w[n]>> \in Seq(Chars) /\ Len(<<w[n]>>) = 1 /\ <<w[n]>>[1] = w[n]
    BY <2>1
  <2>3. u \in Seq(Chars) /\ Len(u) = l + 1
    BY <1>1, <1>2, <2>2, ConcatProperties
  <2>4. \A k \in 1 .. l + 1 : u[k] = IF k <= l THEN old[k] ELSE <<w[n]>>[k - l]
    BY <1>1, <1>2, <2>2, ConcatProperties
  <2>5. u[l + 1] = w[n]
    BY <2>2, <2>4
  <2>6. \A k \in 1 .. l : u[k] = old[k]
    BY <2>4
  <2>7. DOMAIN u = 1 .. l + 1
    BY <2>3, LenProperties
  <2> QED BY <2>5, <2>6, <2>7
<1>4. PICK s : s = old \o more
  OBVIOUS
<1>5. 1 .. l \subseteq DOMAIN s /\ \A k \in 1 .. l : s[k] = old[k]
  <2>1. PICK m \in Nat : m = Len(more)
    BY LenProperties
  <2>2. s \in Seq(Chars) /\ Len(s) = l + m
    BY <1>1, <1>4, <2>1, ConcatProperties
  <2>3. \A k \in 1 .. l + m : s[k] = IF k <= l THEN old[k] ELSE more[k - l]
    BY <1>1, <1>4, <2>1, ConcatProperties
  <2>4. DOMAIN s = 1 .. l + m
    BY <2>2, LenProperties
  <2> QED BY <2>3, <2>4
<1>6. PICK from \in [DOMAIN s -> DOMAIN w] :
        Screen!From(s, w, from) /\ \A k \in DOMAIN s : from[k] < n
  BY <1>1, <1>4 DEF SentIn
<1> DEFINE new == [k \in 1 .. l + 1 |-> IF k = l + 1 THEN n ELSE from[k]]
<1>7. \A k \in 1 .. l + 1 : k = l + 1 \/ (k \in 1 .. l /\ k # l + 1)
  OBVIOUS
<1>8. new \in [DOMAIN u -> DOMAIN w]
  <2>1. \A k \in 1 .. l : from[k] \in DOMAIN w
    BY <1>5, <1>6
  <2>2. n \in DOMAIN w
    BY <1>1
  <2> QED BY <1>3, <1>7, <2>1, <2>2
<1>9. ASSUME NEW k \in DOMAIN u PROVE u[k] = w[new[k]]
  <2>1. CASE k = l + 1
    BY <1>3, <2>1
  <2>2. CASE k # l + 1
    <3>1. k \in 1 .. l /\ k \in DOMAIN s /\ new[k] = from[k]
      BY <1>3, <1>5, <1>7, <2>2
    <3>2. s[k] = w[from[k]] /\ u[k] = s[k]
      BY <1>3, <1>5, <1>6, <3>1 DEF Screen!From
    <3> QED BY <3>1, <3>2
  <2> QED BY <2>1, <2>2
<1>10. ASSUME NEW j \in DOMAIN u, NEW k \in DOMAIN u, j < k PROVE new[j] < new[k]
  <2>1. j \in 1 .. l /\ j \in DOMAIN s /\ new[j] = from[j]
    BY <1>3, <1>5, <1>7, <1>10
  <2>2. CASE k = l + 1
    BY <1>3, <1>6, <2>1, <2>2
  <2>3. CASE k # l + 1
    <3>1. k \in DOMAIN s /\ new[k] = from[k]
      BY <1>3, <1>5, <1>7, <2>3
    <3> QED BY <1>6, <1>10, <2>1, <3>1 DEF Screen!From
  <2> QED BY <2>2, <2>3
<1> HIDE DEF new
<1>11. Screen!From(u, w, new)
  BY <1>9, <1>10 DEF Screen!From
<1> QED BY <1>1, <1>2, <1>8, <1>11 DEF SentIn

-----------------------------------------------------------------------------
(* The console's inductive invariant: the screen is the window of a paper. *)
ScrTypes ==
  /\ written \in Seq(Chars) /\ Len(written) <= MaxChars
  /\ line \in Seq(Chars) /\ thr \in Seq(Chars)
  /\ screen \in [Screen!Cells -> Glyphs]
  /\ first[1] \in [Screen!Cells -> Glyphs] /\ first[2] \in Screen!Cells

ScrFirst == written = << >> /\ screen = first[1] /\ regs = Screen!Registers(first[2])

ScrShown ==
  /\ crt_pos \in Screen!Cells /\ regs = Screen!Registers(crt_pos)
  /\ Screen!Paper \in Papers
  /\ View(Screen!Paper, screen, crt_pos, Len(written))

ScrInv ==
  /\ ScrTypes
  /\ at = "init" => ScrFirst
  /\ at # "init" => ScrShown
  /\ at = "serial" => Len(written) >= 1
  /\ SentIn(line \o thr, written, at = "serial")

LEMMA BlankPaper == ScrTypes => Screen!Blank \in Papers /\ View(Screen!Blank, first[1], first[2], 0)
<1> SUFFICES ASSUME ScrTypes PROVE Screen!Blank \in Papers /\ View(Screen!Blank, first[1], first[2], 0)
  OBVIOUS
<1>1. PICK w \in Nat, z \in Nat, h \in Nat, m \in Nat : Lies(0, 0, w, z, h, m)
  <2>1. 0 <= MaxChars /\ 0 \in 0 .. 0
    BY ScreenSizes
  <2> QED BY <2>1, OnPaper
<1>2. /\ w = CRT_COLS /\ z = Screen!CRT_SIZE /\ 0 * CRT_COLS = 0
      /\ Screen!Text = 0 .. z + m /\ Screen!Cells = 0 .. z - 1
  <2>1. 0 * CRT_COLS = 0
    BY ScreenSizes
  <2> QED BY <1>1, <2>1 DEF Lies
<1>3. PICK s \in [Screen!Cells -> Glyphs], q \in Nat : s = first[1] /\ q = first[2]
  <2>1. first[2] \in 0 .. z - 1
    BY <1>2 DEF ScrTypes
  <2> QED BY <2>1 DEF ScrTypes
<1>4. PICK x : x = [c \in Screen!Text |-> IF c \in Screen!Cells THEN s[c] ELSE " "]
  OBVIOUS
<1>5. x \in [Screen!Text -> Glyphs]
  BY <1>4 DEF Glyphs
<1>6. Screen!Blank = [pos |-> q, top |-> 0, text |-> x]
  BY <1>3, <1>4 DEF Screen!Blank
<1>7. Screen!Blank \in Papers
  BY <1>5, <1>6 DEF Papers
<1>8. \A c \in Screen!Cells : 0 + c = c /\ s[c] = x[c]
  <2>1. \A c \in Screen!Cells : c \in Screen!Text /\ 0 + c = c
    BY <1>2
  <2> QED BY <1>4, <2>1
<1>9. \A a \in Screen!Text : a >= 0 + z => a \notin Screen!Cells
  BY <1>2
<1>10. \A a \in Screen!Text : a >= 0 + z => x[a] = " "
  BY <1>4, <1>9
<1>11. View(Screen!Blank, s, q, 0)
  <2>1. PICK b : b = Screen!Blank
    OBVIOUS
  <2>2. b.top = 0 /\ b.pos = q /\ b.text = x
    BY <1>6, <2>1
  <2>3. b.top \in 0 .. 0 /\ b.pos = b.top * CRT_COLS + q
    BY <1>2, <2>2
  <2>4. b.top * CRT_COLS = 0 /\ Screen!CRT_SIZE = z
    BY <1>2, <2>2
  <2>5. \A c \in Screen!Cells : s[c] = b.text[b.top * CRT_COLS + c]
    BY <1>8, <2>2, <2>4
  <2>6. \A a \in Screen!Text : a >= b.top * CRT_COLS + Screen!CRT_SIZE => b.text[a] = " "
    BY <1>10, <2>2, <2>4
  <2> QED BY <2>1, <2>3, <2>5, <2>6 DEF View
<1> QED BY <1>3, <1>7, <1>11

LEMMA ScreenStarts == Screen!Init => ScrInv
<1> SUFFICES ASSUME Screen!Init PROVE ScrInv
  OBVIOUS
<1>1. PICK pos \in Screen!Cells :
        /\ screen = [c \in Screen!Cells |-> IF c < pos THEN "B" ELSE " "]
        /\ regs = Screen!Registers(pos) /\ first = <<screen, pos>>
  BY DEF Screen!Init
<1>2. thr = << >> /\ line = << >> /\ at = "init" /\ written = << >>
  BY DEF Screen!Init
<1>3. screen \in [Screen!Cells -> Glyphs]
  BY <1>1 DEF Glyphs
<1>4. << >> \in Seq(Chars) /\ Len(<< >>) = 0 /\ 0 <= MaxChars
  BY ScreenSizes
<1>5. ScrTypes
  BY <1>1, <1>2, <1>3, <1>4 DEF ScrTypes
<1>6. ScrFirst
  BY <1>1, <1>2 DEF ScrFirst
<1>7. SentIn(line \o thr, written, FALSE)
  <2>1. line \o thr = << >>
    BY <1>2, <1>4, ConcatEmptySeq
  <2>2. DOMAIN << >> = {}
    OBVIOUS
  <2>3. << >> \in [{} -> {}]
    OBVIOUS
  <2>4. SentIn(<< >>, << >>, FALSE)
    BY <2>2, <2>3 DEF SentIn, Screen!From
  <2> QED BY <1>2, <2>1, <2>4
<1> QED BY <1>2, <1>5, <1>6, <1>7 DEF ScrInv

LEMMA ScreenBioinit == ASSUME ScrInv, Screen!Bioinit PROVE ScrInv'
<1>1. /\ at = "init" /\ at' = "ready" /\ crt_pos' = regs.hi * ByteSize + regs.lo
      /\ UNCHANGED <<screen, regs, thr, line, first, written>>
  BY DEF Screen!Bioinit, Screen!port
<1>2. written = << >> /\ screen = first[1] /\ regs = Screen!Registers(first[2]) /\ ScrTypes
  BY <1>1 DEF ScrInv, ScrFirst
<1>3. crt_pos' = first[2] /\ first[2] \in Screen!Cells
  BY <1>1, <1>2, RegistersHold DEF ScrTypes
<1>4. Screen!Blank \in Papers /\ View(Screen!Blank, first[1], first[2], 0)
  BY <1>2, BlankPaper
<1>5. Screen!Paper = Screen!Blank
  <2>1. Len(written) = 0 /\ \A k \in 1 .. 0 : written[k] \in Chars
    BY <1>2
  <2>2. PaperSteps(PaperFn(Screen!Blank, written, 0), Screen!Blank, written, 0)
    BY <1>4, <2>1, PaperRecurs
  <2> QED BY <2>1, <2>2, PaperIs DEF PaperSteps
<1>6. Screen!Paper' = Screen!Paper
  BY <1>1 DEF Screen!Paper, Screen!Blank
<1>7. ScrShown'
  <2>1. Len(written) = 0
    BY <1>2
  <2>2. View(Screen!Paper, screen, first[2], Len(written))
    BY <1>2, <1>4, <1>5, <2>1
  <2>3. regs' = Screen!Registers(crt_pos')
    BY <1>1, <1>2, <1>3
  <2> QED BY <1>1, <1>3, <1>4, <1>5, <1>6, <2>2, <2>3 DEF ScrShown
<1>8. ScrTypes'
  BY <1>1, <1>2 DEF ScrTypes
<1>9. SentIn(line \o thr, written, FALSE)'
  BY <1>1 DEF ScrInv
<1> QED BY <1>1, <1>7, <1>8, <1>9 DEF ScrInv

LEMMA ScreenPuts == ASSUME ScrInv, NEW c \in Chars, Screen!CgaPutc(c) PROVE ScrInv'
<1>1. /\ at = "ready" /\ Len(written) < MaxChars /\ at' = "serial"
      /\ written' = Append(written, c)
      /\ UNCHANGED <<thr, line, first>>
  BY DEF Screen!CgaPutc, Screen!port
<1>2. PICK put, now : /\ put = Screen!Put(screen, crt_pos, c) /\ now = Screen!Rolled(put[1], put[2])
                      /\ screen' = now[1] /\ crt_pos' = now[2] /\ regs' = Screen!Registers(now[2])
  BY DEF Screen!CgaPutc
<1>3. ScrTypes /\ ScrShown /\ SentIn(line \o thr, written, FALSE)
  BY <1>1 DEF ScrInv
<1>4. PICK n \in Nat, p \in Papers : n = Len(written) /\ p = Screen!Paper
  BY <1>3, LenProperties DEF ScrTypes, ScrShown
<1>5. /\ now[1] \in [Screen!Cells -> Glyphs] /\ now[2] \in Screen!Cells
      /\ Screen!Typed(p, c) \in Papers
      /\ View(Screen!Typed(p, c), now[1], now[2], n + 1)
  <2>1. screen \in [Screen!Cells -> Glyphs] /\ crt_pos \in Screen!Cells /\ View(p, screen, crt_pos, n)
    BY <1>3, <1>4 DEF ScrTypes, ScrShown
  <2> QED BY <1>1, <1>2, <1>4, <2>1, TypedShows
<1>6. written' \in Seq(Chars) /\ Len(written') = n + 1
  BY <1>1, <1>3, <1>4, AppendProperties DEF ScrTypes
<1>7. Screen!Paper' = Screen!Typed(p, c)
  <2>1. PICK b \in Papers : b = Screen!Blank
    BY <1>3, BlankPaper
  <2>2. Screen!Blank' = b
    BY <1>1, <2>1 DEF Screen!Blank
  <2>3. Screen!Paper' = PaperFn(Screen!Blank', written', Len(written'))[Len(written')]
    BY DEF Screen!Paper, PaperFn
  <2>4. p = PaperFn(b, written, n)[n]
    BY <1>4, <2>1, PaperIs
  <2>5. PaperFn(b, Append(written, c), n + 1)[n + 1] = Screen!Typed(PaperFn(b, written, n)[n], c)
    BY <1>3, <1>4, PaperAppend DEF ScrTypes
  <2> QED BY <1>1, <1>6, <2>2, <2>3, <2>4, <2>5
<1>8. ScrShown'
  BY <1>2, <1>5, <1>6, <1>7 DEF ScrShown
<1>9. ScrTypes'
  <2>1. n + 1 <= MaxChars
    BY <1>1, <1>4, ScreenSizes
  <2> QED BY <1>1, <1>2, <1>3, <1>5, <1>6, <2>1 DEF ScrTypes
<1>10. SentIn(line \o thr, written, TRUE)'
  BY <1>1, <1>3, SentLater DEF ScrTypes
<1>11. Len(written') >= 1
  BY <1>4, <1>6
<1> QED BY <1>1, <1>8, <1>9, <1>10, <1>11 DEF ScrInv

LEMMA ScreenShownStays ==
  ASSUME ScrShown, UNCHANGED <<screen, crt_pos, regs, first, written>>
  PROVE  ScrShown'
<1>1. Screen!Paper' = Screen!Paper
  BY DEF Screen!Paper, Screen!Blank
<1> QED BY <1>1 DEF ScrShown

LEMMA ScreenWrites == ASSUME ScrInv, Screen!SerialWrite PROVE ScrInv'
<1>1. /\ at = "serial" /\ at' = "ready" /\ thr' = <<Screen!Last(written)>>
      /\ UNCHANGED <<screen, crt_pos, regs, line, first, written>>
  BY DEF Screen!SerialWrite
<1>2. ScrTypes /\ ScrShown /\ Len(written) >= 1 /\ SentIn(line \o thr, written, TRUE)
  BY <1>1 DEF ScrInv
<1>3. Screen!Last(written) = written[Len(written)] /\ written[Len(written)] \in Chars
  <2>1. Len(written) \in 1 .. Len(written)
    BY <1>2, LenProperties DEF ScrTypes
  <2>2. written[Len(written)] \in Chars
    BY <1>2, <2>1, ElementOfSeq DEF ScrTypes
  <2> QED BY <2>2 DEF Screen!Last
<1>4. SentIn(line \o <<written[Len(written)]>>, written, FALSE)
  BY <1>2, SentNow DEF ScrTypes
<1>5. SentIn(line \o thr, written, FALSE)'
  BY <1>1, <1>3, <1>4
<1>6. ScrShown'
  BY <1>1, <1>2, ScreenShownStays
<1>7. thr' \in Seq(Chars)
  BY <1>1, <1>3
<1>8. ScrTypes'
  BY <1>1, <1>2, <1>7 DEF ScrTypes
<1> QED BY <1>1, <1>5, <1>6, <1>8 DEF ScrInv

LEMMA ScreenShifts == ASSUME ScrInv, Screen!Shift PROVE ScrInv'
<1>1. /\ line' = line \o thr /\ thr' = << >>
      /\ UNCHANGED <<screen, crt_pos, regs, at, first, written>>
  BY DEF Screen!Shift
<1>2. ScrTypes
  BY DEF ScrInv
<1>3. line' \in Seq(Chars) /\ thr' \in Seq(Chars) /\ line' \o thr' = line \o thr
  <2>1. line \o thr \in Seq(Chars)
    BY <1>2, ConcatProperties DEF ScrTypes
  <2>2. (line \o thr) \o << >> = line \o thr
    BY <2>1, ConcatEmptySeq
  <2> QED BY <1>1, <2>1, <2>2
<1>4. ScrTypes'
  BY <1>1, <1>2, <1>3 DEF ScrTypes
<1>5. at # "init" => ScrShown'
  BY <1>1, ScreenShownStays DEF ScrInv
<1>6. SentIn(line \o thr, written, at = "serial")'
  BY <1>1, <1>3 DEF ScrInv
<1>7. at = "init" => ScrFirst'
  BY <1>1 DEF ScrInv, ScrFirst
<1> QED BY <1>1, <1>4, <1>5, <1>6, <1>7 DEF ScrInv

LEMMA ScreenStays ==
  ASSUME ScrInv, UNCHANGED <<screen, crt_pos, regs, thr, line, at, first, written>>
  PROVE  ScrInv'
<1>1. at # "init" => ScrShown'
  BY ScreenShownStays DEF ScrInv
<1> QED BY <1>1 DEF ScrInv, ScrTypes, ScrFirst

LEMMA ScreenShows == ScrInv => OutputShown
<1> SUFFICES ASSUME ScrInv PROVE Screen!OutputShown
  BY DEF OutputShown
<1>1. ASSUME at # "init"
      PROVE  /\ \A c \in Screen!Cells : screen[c] = Screen!Paper.text[Screen!Paper.top * CRT_COLS + c]
             /\ regs.hi * ByteSize + regs.lo = Screen!Paper.pos - Screen!Paper.top * CRT_COLS
  <2>1. /\ crt_pos \in Screen!Cells /\ regs = Screen!Registers(crt_pos)
        /\ View(Screen!Paper, screen, crt_pos, Len(written))
    BY <1>1 DEF ScrInv, ScrShown
  <2>2. regs.hi * ByteSize + regs.lo = crt_pos
    BY <2>1, RegistersHold
  <2>3. PICK p \in Papers : p = Screen!Paper
    BY <1>1 DEF ScrInv, ScrShown
  <2>4. PICK h \in Int : h = p.top * CRT_COLS
    BY ScreenSizes DEF Papers
  <2>5. crt_pos \in Int
    BY <2>1, ScreenSizes DEF Screen!Cells
  <2>6. p.pos - h = crt_pos
    <3>1. p.pos = h + crt_pos
      BY <2>1, <2>3, <2>4 DEF View
    <3> QED BY <2>5, <3>1
  <2> QED BY <2>1, <2>2, <2>3, <2>4, <2>6 DEF View
<1>2. \E from \in [DOMAIN (line \o thr) -> DOMAIN written] : Screen!From(line \o thr, written, from)
  BY DEF ScrInv, SentIn
<1> QED BY <1>1, <1>2 DEF Screen!OutputShown

(* For any screen of at least two rows, any characters and however slow    *)
(* the port: the screen shows the last rows of all that was written, with  *)
(* the cursor after it, and what the port has sent was given to bputc, in  *)
(* that order (cga_putc and serial_putc of boot/arch/i386/console.c).      *)
THEOREM BootOutputShown == Screen!Spec => []OutputShown
<1>1. Screen!Init => ScrInv
  BY ScreenStarts
<1>2. ScrInv /\ [Screen!Next]_(Screen!vars) => ScrInv'
  <2> SUFFICES ASSUME ScrInv, [Screen!Next]_(Screen!vars) PROVE ScrInv'
    OBVIOUS
  <2>1. CASE Screen!Bioinit
    BY <2>1, ScreenBioinit
  <2>2. ASSUME NEW c \in Chars, Screen!CgaPutc(c) PROVE ScrInv'
    BY <2>2, ScreenPuts
  <2>3. CASE Screen!SerialWait
    <3>1. UNCHANGED <<screen, crt_pos, regs, thr, line, at, first, written>>
      BY <2>3 DEF Screen!SerialWait, Screen!port
    <3> QED BY <3>1, ScreenStays
  <2>4. CASE Screen!SerialWrite
    BY <2>4, ScreenWrites
  <2>5. CASE Screen!Shift
    BY <2>5, ScreenShifts
  <2>6. CASE Screen!Done \/ UNCHANGED Screen!vars
    <3>1. UNCHANGED <<screen, crt_pos, regs, thr, line, at, first, written>>
      BY <2>6 DEF Screen!Done, Screen!vars
    <3> QED BY <3>1, ScreenStays
  <2> QED BY <2>1, <2>2, <2>3, <2>4, <2>5, <2>6 DEF Screen!Next
<1>3. ScrInv => OutputShown
  BY ScreenShows
<1> QED BY <1>1, <1>2, <1>3, PTL DEF Screen!Spec

=============================================================================
