----------------------------- MODULE BootLoader -----------------------------
(***************************************************************************)
(* Loading an ELF file at boot.  On i386 the 16-bit code of the boot       *)
(* sector (boot/arch/i386/bootasm.S) loads the loader itself, whole        *)
(* sectors at a time; bootmain (boot/bootmain.c) then loads the kernel     *)
(* through a sector buffer (boot/arch/i386/kernreader.c), or on ARM from   *)
(* the copy of the file behind the loader (boot/arch/armv7a/kernreader.c). *)
(* Byte o of the file is the number o + 1; a program header is a record.   *)
(***************************************************************************)
EXTENDS Integers, Sequences

CONSTANTS
    SectSize,       \* bytes in a sector
    MemTop,         \* bytes of memory
    MbrAddr,        \* 0x7c00, where the BIOS puts the boot sector
    ElfStart,       \* ELF_START, where the ARM image holds the file
    Hooks,          \* loader -> where bootmain leaves the kernel its printf
    Lba,            \* the partition table: each partition's first sector
    Images          \* loader name -> the files it may find there

\* What is supposed of the files: segments lie in memory and apart from each other,
\* what one is linked at is not where another is loaded, and the hooks are in
\* none.  On ARM none of them reaches into the file from below.  The boot sector's
\* segments come in the order of their addresses, each from the start of a sector,
\* and one at its own address is the first and just that sector.
Ends(ph) == ph.pa + ph.memsz
WellMade(l, img) ==
    /\ img.phdrs \in Seq([offset : Nat, va : Nat, pa : Nat, filesz : Nat, memsz : Nat])
    /\ img.entry \in Nat /\ img.length \in Nat
    /\ \A i \in DOMAIN img.phdrs : LET ph == img.phdrs[i] IN
        /\ ph.filesz <= ph.memsz /\ Ends(ph) <= MemTop
        /\ l = "mbr" => ph.offset % SectSize = 0
        /\ l # "mbr" => \A a \in Hooks[l] : a < ph.pa \/ a >= Ends(ph)
        /\ l = "ram" => /\ ph.offset + ph.filesz <= img.length
                        /\ ph.pa < ElfStart => Ends(ph) <= ElfStart
    /\ l = "ram" => ElfStart + img.length <= MemTop
    /\ \A i, j \in DOMAIN img.phdrs : i < j =>
        LET one == img.phdrs[i] two == img.phdrs[j] IN
        /\ Ends(one) <= two.pa \/ (l # "mbr" /\ Ends(two) <= one.pa)
        /\ l # "mbr" =>
            /\ one.va + one.memsz <= two.va \/ two.va + two.memsz <= one.va
            /\ Ends(one) <= two.va \/ two.va + two.memsz <= one.pa \/ two.va = two.pa
    /\ l = "mbr" =>
        /\ img.phdrs # <<>>
        /\ \A i \in DOMAIN img.phdrs : LET ph == img.phdrs[i] IN
            ph.pa = MbrAddr =>
                i = 1 /\ ph.offset = 0 /\ ph.memsz = ph.filesz /\ ph.filesz <= SectSize

LoaderAssumption ==
    /\ SectSize \in Nat \ {0} /\ {MemTop, MbrAddr, ElfStart} \subseteq Nat
    /\ Lba \in Seq(Nat) /\ Len(Lba) >= 2
    /\ \A l \in {"mbr", "disk", "ram"} : \A img \in Images[l] : WellMade(l, img)

VARIABLES
    loader,     \* "mbr", "disk" or "ram"
    image,      \* the file: length, entry, checksum and what it should be, headers
    mem,        \* memory, byte by byte
    seg,        \* the header being loaded
    rd,         \* where readfile stands: buf, size, sector and skip
    kdiskoffset,    \* where the kernel's file starts on the disk
    entry,      \* the address bootmain is going to call
    phase       \* "init", "elf", "load", "read", "clear", "hook", "jump" or "panic"

file == <<loader, image, kdiskoffset>>
vars == <<file, mem, seg, rd, entry, phase>>

Byte(o) == o + 1
Addresses == 0 .. MemTop - 1
Phdr == image.phdrs[seg]

Holding(n, where) == [a \in where .. where + n - 1 |-> Byte(a - where)]
Over(f, m) == [a \in Addresses |-> IF a \in DOMAIN f THEN f[a] ELSE m[a]]

\* What is in memory before the loader runs: the boot sector, the file on ARM
Init ==
    /\ loader \in {"mbr", "disk", "ram"} /\ image \in Images[loader]
    /\ LET old == [a \in Addresses |-> -1] IN
        mem = CASE loader = "mbr"  -> Over(Holding(SectSize, MbrAddr), old)
                [] loader = "ram"  -> Over(Holding(image.length, ElfStart), old)
                [] loader = "disk" -> old
    /\ kdiskoffset = 0 /\ seg = 1 /\ entry = image.entry /\ phase = "init"
    /\ rd = [buf |-> 0, size |-> 0, sect |-> 0, skip |-> 0]

Goto(there) == phase' = there /\ UNCHANGED <<file, mem, seg, rd, entry>>
Panic == Goto("panic")

\* kernreader_init on ARM: a file without length, and one that has not the
\* checksum written beside it, stop the boot.
KernreaderInit ==
    /\ phase = "init" /\ loader = "ram"
    /\ IF image.length > 0 /\ image.sum = image.crc32 THEN Goto("elf") ELSE Panic

\* The kernel's partition is the second of the table, the loader's the first.
\* Slip: the kernel is looked for in the first.
KernelPartitionFirst == Lba[1]
KernelPartition == Lba[2]
Getpartition == Lba[1]

\* kernreader_init on i386.  The product has 32 bits in the code: the kernel's
\* partition is supposed to start below 4 GB.
KernreaderInitDisk ==
    /\ phase = "init" /\ loader = "disk"
    /\ kdiskoffset' = KernelPartition * SectSize
    /\ phase' = "elf"
    /\ UNCHANGED <<loader, image, mem, seg, rd, entry>>

\* The magic, and a table with headers; the disk may not answer.
Checked ==
    /\ phase = "elf"
    /\ LET good == image.good /\ Len(image.phdrs) > 0 IN
        \/ good /\ Goto("load")
        \/ (~good \/ loader = "disk") /\ Panic

\* The boot sector reads the first 4096 bytes of its file, if the BIOS knows how
\* to and the disk answers, and looks at the magic alone.
BootChecked ==
    /\ phase = "init" /\ loader = "mbr"
    /\ \/ image.good /\ Goto("load")
       \/ Panic

\* kernreader_readfile on i386, up to its loop: from a byte of the file to a
\* sector of the disk and the bytes to skip in it
ReadFile ==
    /\ phase = "load" /\ loader = "disk"
    /\ LET offset == Phdr.offset + kdiskoffset
           skip == offset % SectSize
       IN  rd' = [buf |-> Phdr.pa, size |-> Phdr.filesz + skip,
                  sect |-> offset \div SectSize, skip |-> skip]
    /\ phase' = "read"
    /\ UNCHANGED <<file, mem, seg, entry>>

\* A byte of a sector of the disk, where each loader's file starts its partition
OnDisk(sect, i) == Byte((sect - Lba[IF loader = "mbr" THEN 1 ELSE 2]) * SectSize + i)

\* Slip: the bytes skipped are not taken off what is copied.
CopiedWithSkip(size, skip) == IF size < SectSize THEN size ELSE SectSize

\* How much of a sector goes to the buffer
Copied(size, skip) == (IF size < SectSize THEN size ELSE SectSize) - skip

ReadSector ==
    /\ phase = "read" /\ rd.size > 0
    /\ LET n == Copied(rd.size, rd.skip)
           got == [a \in rd.buf .. rd.buf + n - 1 |-> OnDisk(rd.sect, a - rd.buf + rd.skip)]
       IN  /\ mem' = Over(got, mem)
           /\ rd' = [buf |-> rd.buf + n, sect |-> rd.sect + 1, skip |-> 0,
                     size |-> IF rd.size < SectSize THEN 0 ELSE rd.size - SectSize]
    /\ UNCHANGED <<file, seg, entry, phase>>

DiskFails == phase = "read" /\ rd.size > 0 /\ Panic

ReadDone ==
    /\ phase = "read" /\ rd.size = 0
    /\ phase' = "clear"
    /\ UNCHANGED <<file, mem, seg, rd, entry>>

\* kernreader_readfile on ARM: it copies from the file in memory, unless the
\* destination starts inside it.
CopyFile ==
    /\ phase = "load" /\ loader = "ram"
    /\ IF ElfStart <= Phdr.pa /\ Phdr.pa < ElfStart + image.length
       THEN Panic
       ELSE /\ mem' = Over([a \in Phdr.pa .. Phdr.pa + Phdr.filesz - 1 |->
                                mem[ElfStart + Phdr.offset + a - Phdr.pa]], mem)
            /\ phase' = "clear"
            /\ UNCHANGED <<file, seg, rd, entry>>

\* load_elf_phdr's read: whole sectors, from the start of one; the boot sector
\* does not load over itself.
BootReadDisk ==
    /\ phase = "load" /\ loader = "mbr"
    /\ LET sectors == (Phdr.filesz + SectSize - 1) \div SectSize
           first == Getpartition + Phdr.offset \div SectSize
       IN  mem' = IF Phdr.pa = MbrAddr THEN mem
                  ELSE Over([a \in Phdr.pa .. Phdr.pa + sectors * SectSize - 1 |->
                                OnDisk(first, a - Phdr.pa)], mem)
    /\ phase' = "clear"
    /\ UNCHANGED <<file, seg, rd, entry>>

\* Slip: the memory after the file's part keeps what it held.
ClearedNot(ph) == {}

\* What the loaders clear of a segment
Cleared(ph) ==
    IF loader = "mbr" /\ ph.pa = MbrAddr THEN {}
    ELSE ph.pa + ph.filesz .. ph.pa + ph.memsz - 1

BootDiskFails == phase = "load" /\ loader = "mbr" /\ Phdr.pa # MbrAddr /\ Panic

\* The end of a header's turn: the rest of its memory is cleared, and bootmain
\* moves the entry from its virtual to its physical address.
NextPhdr ==
    /\ phase = "clear"
    /\ mem' = Over([a \in Cleared(Phdr) |-> 0], mem)
    /\ entry' = IF loader # "mbr" /\ Phdr.va <= entry /\ entry < Phdr.va + Phdr.memsz
                THEN entry - Phdr.va + Phdr.pa ELSE entry
    /\ IF seg < Len(image.phdrs) THEN seg' = seg + 1 /\ phase' = "load"
       ELSE UNCHANGED seg /\ phase' = IF loader = "mbr" THEN "jump" ELSE "hook"
    /\ UNCHANGED <<file, rd>>

\* bootmain leaves the kernel the address of bprintf: a jump in the boot sector's
\* place, a pointer at 0x18000 on ARM.
SetHook ==
    /\ phase = "hook"
    /\ mem' = Over([a \in Hooks[loader] |-> -2], mem)
    /\ phase' = "jump"
    /\ UNCHANGED <<file, seg, rd, entry>>

Next ==
    \/ KernreaderInit \/ KernreaderInitDisk \/ Checked \/ BootChecked \/ ReadFile \/ ReadSector \/ DiskFails \/ ReadDone
    \/ CopyFile \/ BootReadDisk \/ BootDiskFails \/ NextPhdr \/ SetHook

Spec == Init /\ [][Next]_vars

-----------------------------------------------------------------------------

EntryIn(ph) == ph.va <= image.entry /\ image.entry < ph.va + ph.memsz

\* At the jump every segment holds its bytes of the file and zeros up to its size
\* in memory, and the address called is where the entry was loaded: headers come
\* in file order, share sectors, start inside one, leave gaps or have no bytes in
\* the file, and what one load writes past its end must be made good by the next
\* (bootmain.c, kernreader.c, load_elf_phdr).
ImageLoaded ==
    phase = "jump" =>
        /\ \A i \in DOMAIN image.phdrs : LET ph == image.phdrs[i] IN
            \A o \in 0 .. ph.memsz - 1 :
                mem[ph.pa + o] = IF o < ph.filesz THEN Byte(ph.offset + o) ELSE 0
        /\ loader # "mbr" => \A i \in DOMAIN image.phdrs :
            EntryIn(image.phdrs[i]) =>
                entry = image.entry - image.phdrs[i].va + image.phdrs[i].pa

=============================================================================
