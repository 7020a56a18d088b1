----------------------------- MODULE BootProofs -----------------------------
(***************************************************************************)
(* No core uses a pointer it cannot, for any number of cores and whatever  *)
(* becomes of the slaves' stacks.                                          *)
(***************************************************************************)
EXTENDS Boot, SequenceTheorems, TLAPS

-----------------------------------------------------------------------------
(* The inductive invariant: where the first core is decides which handlers *)
(* are queued, which have run, and what every pointer holds.               *)

Handler(i) ==
  CASE i = 1 -> "io_mem"
    [] i = 2 -> "console"
    [] i = 3 -> "mailbox"
    [] i = 4 -> "fb"
Names == {"io_mem", "console", "mailbox", "fb"}
Queued(k) ==
  /\ handlers \in Seq(Names) /\ Len(handlers) = k
  /\ \A i \in 1 .. k : handlers[i] = Handler(i)

(* The pointers set along with handler i, which it moves.                  *)
Group(i) ==
  CASE i = 1 -> {"bus_fp"}
    [] i = 2 -> {"uart_bus", "putchar", "kputs"}
    [] i = 3 -> {"mailbox_bus"}
    [] i = 4 -> {"fb_bits"}

(* k drivers are up, at low addresses.                                     *)
SetUp(k) ==
  /\ Queued(k) /\ applied = 0 /\ ~fbconenable
  /\ \A i \in 1 .. k : \A p \in Group(i) : ptr[p] = "low"

Moving ==
  /\ Queued(4) /\ applied \in 0 .. 4 /\ (fbconenable => applied = 4)
  /\ \A i \in 1 .. 4 : \A p \in Group(i) : ptr[p] = IF i <= applied THEN "high" ELSE "low"

AllHigh(pointers) == \A p \in pointers : ptr[p] = "high"
Driven == {"bus_fp", "uart_bus", "putchar", "kputs", "mailbox_bus", "fb_bits"}
NotDriven == Pointers \ Driven

AfterJump == {"bcm2836", "vmm", "cpus", "trap_init", "initcalls", "start_slaves"}
Stages == BeforeJump \cup AfterJump

Where ==
  /\ pc[Master] \in Stages
  /\ pc[Master] = "early_devices" => SetUp(0)
  /\ pc[Master] = "early_console" => SetUp(1)
  /\ pc[Master] = "mailbox" => SetUp(2)
  /\ pc[Master] \in {"memory", "fbdev"} => SetUp(3)
  /\ pc[Master] \in {"early_mm", "mmu_jump", "master_entry", "fbcls"} => SetUp(4)
  /\ pc[Master] = "handlers" => Moving
  /\ pc[Master] \in AfterJump => AllHigh(Driven)
  /\ pc[Master] \in AfterJump \ {"bcm2836"} => AllHigh({"bcm_bus"})
  /\ pc[Master] \in AfterJump \ {"bcm2836", "vmm"} => AllHigh({"g_pvbridge", "kmalloc"})
  /\ pc[Master] \in AfterJump \cup {"master_entry", "fbcls", "handlers"} => Master \in mmu
  /\ \A p \in NotDriven : ptr[p] # "low"

(* A slave is asleep until the first core is done with everything else, and*)
(* has its MMU on before it uses an address that needs it.                 *)
SlavesFollow ==
  \A c \in Slaves :
    /\ pc[c] # "parked" \/ box[c] => pc[Master] = "start_slaves"
    /\ pc[c] \in {"slave_entry", "slave_init"} => c \in mmu

Places == Stages \cup {"parked", "entry", "early", "slave_entry", "slave_init", "spin"}

BInv ==
  /\ pc \in [Cores -> Places]
  /\ Master \in Cores
  /\ ~fault
  /\ Where
  /\ SlavesFollow

LEMMA BootInit == Init => BInv
<1> SUFFICES ASSUME Init PROVE BInv
  OBVIOUS
<1> USE DEF Init
<1>1. pc \in [Cores -> Places] /\ Master \in Cores /\ pc[Master] = "early_devices"
  BY BootAssumption DEF Places, Stages, BeforeJump
<1>2. SetUp(0)
  BY DEF SetUp, Queued
<1>3. \A p \in NotDriven : ptr[p] # "low"
  BY DEF NotDriven
<1>4. Where
  BY <1>1, <1>2, <1>3 DEF Where, Stages, BeforeJump, AfterJump
<1>5. SlavesFollow
  BY DEF SlavesFollow, Slaves
<1> QED BY <1>1, <1>4, <1>5 DEF BInv

(* jump_handlers_add of the next driver, when there is room.               *)
LEMMA QueueNext ==
  ASSUME NEW k \in 0 .. 3, NEW n \in 1 .. 4, n = k + 1, SetUp(k), k # JUMP_HANDLER_QUEUE_LENGTH,
         JumpHandlersAdd(Handler(n)), UNCHANGED <<applied, fbconenable>>,
         Set(Group(n), "low")
  PROVE  SetUp(n)'
<1>1. handlers' = Append(handlers, Handler(n)) /\ handlers \in Seq(Names) /\ Len(handlers) = k
      /\ \A i \in 1 .. k : handlers[i] = Handler(i)
  BY DEF JumpHandlersAdd, Full, SetUp, Queued
<1>2. Handler(n) \in Names
  <2>1. n = 1 \/ n = 2 \/ n = 3 \/ n = 4
    OBVIOUS
  <2> QED BY <2>1 DEF Handler, Names
<1> DEFINE h == Handler(n)
<1> HIDE DEF h
<1>3. /\ handlers' \in Seq(Names) /\ Len(handlers') = n
      /\ \A i \in 1 .. k : handlers'[i] = handlers[i]
      /\ handlers'[n] = h
  BY <1>1, <1>2, AppendProperties DEF h
<1>4. \A i \in 1 .. n : handlers'[i] = Handler(i)
  BY <1>1, <1>3 DEF h
<1>5. \A i \in 1 .. n : \A p \in Group(i) : p \in Pointers
  BY DEF Group, Pointers
<1>6. \A i \in 1 .. n : \A p \in Group(i) : ptr'[p] = "low"
  <2>1. \A p \in Pointers : ptr'[p] = IF p \in Group(n) THEN "low" ELSE ptr[p]
    BY DEF Set
  <2>2. \A i \in 1 .. k : \A p \in Group(i) : ptr[p] = "low"
    BY DEF SetUp
  <2>3. \A i \in 1 .. n : i # n => i \in 1 .. k
    OBVIOUS
  <2> HIDE DEF Group
  <2> QED BY <1>5, <2>1, <2>2, <2>3
<1>7. applied' = 0 /\ ~fbconenable'
  BY DEF SetUp
<1> QED BY <1>3, <1>4, <1>6, <1>7 DEF SetUp, Queued

(* The pointers of k drivers can be used.                                  *)
LEMMA SetUpUsable ==
  ASSUME NEW k \in 1 .. 4, SetUp(k)'
  PROVE  /\ Usable(Master, "bus_fp")
         /\ k >= 2 => \A p \in {"kputs", "putchar", "uart_bus"} : Usable(Master, p)
         /\ k >= 3 => Usable(Master, "mailbox_bus")
         /\ k = 4 => Usable(Master, "fb_bits")
<1>1. \A i \in 1 .. k : \A p \in Group(i) : ptr'[p] = "low"
  BY DEF SetUp
<1>2. ptr'["bus_fp"] = "low"
  BY <1>1 DEF Group
<1>3. k >= 2 => \A p \in {"kputs", "putchar", "uart_bus"} : ptr'[p] = "low"
  <2>1. k >= 2 => 2 \in 1 .. k
    OBVIOUS
  <2>2. Group(2) = {"uart_bus", "putchar", "kputs"}
    BY DEF Group
  <2> QED BY <1>1, <2>1, <2>2
<1>4. k >= 3 => ptr'["mailbox_bus"] = "low"
  <2>1. k >= 3 => 3 \in 1 .. k
    OBVIOUS
  <2>2. Group(3) = {"mailbox_bus"}
    BY DEF Group
  <2> QED BY <1>1, <2>1, <2>2
<1>5. k = 4 => ptr'["fb_bits"] = "low"
  <2>1. k = 4 => 4 \in 1 .. k
    OBVIOUS
  <2>2. Group(4) = {"fb_bits"}
    BY DEF Group
  <2> QED BY <1>1, <2>1, <2>2
<1> QED BY <1>2, <1>3, <1>4, <1>5 DEF Usable

(* What is common to the steps of the first core before it starts slaves.  *)
LEMMA MasterMoves ==
  ASSUME BInv, NEW there \in Stages, Goto(Master, there) \/ pc' = pc, UNCHANGED slaves,
         mmu \subseteq mmu', pc[Master] # "start_slaves", ~fault', Where'
  PROVE  BInv'
<1>1. \A c \in Slaves : c \in Cores /\ c # Master /\ pc'[c] = pc[c] /\ box'[c] = box[c]
  BY DEF BInv, Goto, Slaves, slaves
<1>2. pc' \in [Cores -> Places]
  BY DEF BInv, Goto, Places
<1>3. SlavesFollow'
  <2>1. \A c \in Slaves : pc[c] = "parked" /\ ~box[c]
    BY DEF BInv, SlavesFollow
  <2> QED BY <1>1, <2>1 DEF SlavesFollow
<1> QED BY <1>2, <1>3 DEF BInv

LEMMA Went ==
  ASSUME BInv, NEW here, NEW there, From(here, there)
  PROVE  pc[Master] = here /\ pc'[Master] = there /\ Goto(Master, there)
BY DEF BInv, From, Goto

(* A print, or any other use, that finds its pointers usable.              *)
LEMMA NoFault ==
  ASSUME ~fault, NEW pointers, Uses(Master, pointers), \A p \in pointers : Usable(Master, p)
  PROVE  ~fault'
BY DEF Uses

EarlyStage(k) ==
  CASE k = 0 -> {"early_devices"}
    [] k = 1 -> {"early_console"}
    [] k = 2 -> {"mailbox"}
    [] k = 3 -> {"memory", "fbdev"}
    [] k = 4 -> {"early_mm", "mmu_jump"}

(* Before the jump: k drivers are up and the core is where it has that many*)
(* or has stopped.                                                         *)
LEMMA WhereEarly ==
  ASSUME NEW k \in 0 .. 4, BInv, \A p \in NotDriven : ptr'[p] # "low",
         \/ SetUp(k)' /\ pc'[Master] \in EarlyStage(k)
         \/ pc'[Master] \in {"panic", "hang"}
  PROVE  Where'
<1>1. CASE pc'[Master] \in {"panic", "hang"}
  BY <1>1 DEF Where, Stages, BeforeJump, AfterJump
<1>2. CASE SetUp(k)' /\ pc'[Master] \in EarlyStage(k)
  <2>1. k = 0 \/ k = 1 \/ k = 2 \/ k = 3 \/ k = 4
    OBVIOUS
  <2> HIDE DEF SetUp
  <2>2. CASE k = 0 BY <1>2, <2>2 DEF Where, EarlyStage, Stages, BeforeJump, AfterJump
  <2>3. CASE k = 1 BY <1>2, <2>3 DEF Where, EarlyStage, Stages, BeforeJump, AfterJump
  <2>4. CASE k = 2 BY <1>2, <2>4 DEF Where, EarlyStage, Stages, BeforeJump, AfterJump
  <2>5. CASE k = 3 BY <1>2, <2>5 DEF Where, EarlyStage, Stages, BeforeJump, AfterJump
  <2>6. CASE k = 4 BY <1>2, <2>6 DEF Where, EarlyStage, Stages, BeforeJump, AfterJump
  <2> QED BY <2>1, <2>2, <2>3, <2>4, <2>5, <2>6
<1> QED BY <1>1, <1>2

LEMMA SetKeeps ==
  ASSUME BInv, NEW pointers, NEW where, Set(pointers, where),
         where = "high" \/ pointers \cap NotDriven = {}
  PROVE  \A p \in NotDriven : ptr'[p] # "low"
BY DEF BInv, Where, Set, NotDriven

LEMMA SetUpStays ==
  ASSUME NEW k \in 0 .. 4, SetUp(k), UNCHANGED <<ptr, handlers, applied, fbconenable>>
  PROVE  SetUp(k)'
BY DEF SetUp, Queued

LEMMA EarlyDevicesStep == BInv /\ EarlyDevicesInit => BInv'
<1> SUFFICES ASSUME BInv, EarlyDevicesInit PROVE BInv'
  OBVIOUS
<1> DEFINE there == IF Full THEN "panic" ELSE "early_console"
<1>1. /\ pc[Master] = "early_devices" /\ pc'[Master] = there /\ Goto(Master, there)
  BY Went DEF EarlyDevicesInit
<1>2. SetUp(0) /\ Len(handlers) = 0 /\ ~fault
  BY <1>1 DEF BInv, Where, SetUp, Queued
<1>3. Full <=> JUMP_HANDLER_QUEUE_LENGTH = 0
  BY <1>2 DEF Full
<1>4. ~Full => SetUp(1)'
  <2>1. Group(1) = {"bus_fp"} /\ Handler(1) = "io_mem"
    BY DEF Group, Handler
  <2>2. JumpHandlersAdd(Handler(1)) /\ Set(Group(1), "low") /\ UNCHANGED <<applied, fbconenable>>
    BY <2>1 DEF EarlyDevicesInit
  <2> QED BY <1>2, <1>3, <2>2, QueueNext
<1>5. \A p \in NotDriven : ptr'[p] # "low"
  BY SetKeeps DEF EarlyDevicesInit, NotDriven, Driven
<1>6. Where'
  BY <1>1, <1>4, <1>5, WhereEarly DEF EarlyStage
<1>7. there \in Stages
  BY DEF Stages, BeforeJump
<1> QED BY <1>1, <1>2, <1>6, <1>7, MasterMoves DEF EarlyDevicesInit

LEMMA EarlyConsoleStep == BInv /\ EarlyConsoleInit => BInv'
<1> SUFFICES ASSUME BInv, EarlyConsoleInit PROVE BInv'
  OBVIOUS
<1> DEFINE there == IF Full THEN "hang" ELSE "mailbox"
<1>1. /\ pc[Master] = "early_console" /\ pc'[Master] = there /\ Goto(Master, there)
  BY Went DEF EarlyConsoleInit
<1>2. SetUp(1) /\ Len(handlers) = 1 /\ ~fault /\ ~fbconenable /\ ptr["bus_fp"] = "low"
  BY <1>1 DEF BInv, Where, SetUp, Queued, Group
<1>3. Full <=> JUMP_HANDLER_QUEUE_LENGTH = 1
  BY <1>2 DEF Full
<1>4. ~Full => SetUp(2)'
  <2>1. Group(2) = {"uart_bus", "putchar", "kputs"} /\ Handler(2) = "console"
    BY DEF Group, Handler
  <2>2. JumpHandlersAdd(Handler(2)) /\ Set(Group(2), "low") /\ UNCHANGED <<applied, fbconenable>>
    BY <2>1 DEF EarlyConsoleInit
  <2> QED BY <1>2, <1>3, <2>2, QueueNext
<1>5. \A p \in NotDriven : ptr'[p] # "low"
  BY SetKeeps DEF EarlyConsoleInit, NotDriven, Driven
<1>6. Where'
  BY <1>1, <1>4, <1>5, WhereEarly DEF EarlyStage
<1>7. there \in Stages
  BY DEF Stages, BeforeJump
<1>8. ~fault'
  <2>1. \A p \in {"kputs", "putchar", "uart_bus", "bus_fp"} : ptr'[p] = "low"
    BY <1>2 DEF EarlyConsoleInit, Set, Pointers
  <2> QED BY <1>2, <2>1, NoFault DEF EarlyConsoleInit, Kprintf, Usable
<1> QED BY <1>1, <1>6, <1>7, <1>8, MasterMoves DEF EarlyConsoleInit

LEMMA MailboxStep == BInv /\ MailboxInit => BInv'
<1> SUFFICES ASSUME BInv, MailboxInit PROVE BInv'
  OBVIOUS
<1> DEFINE there == IF Full THEN "hang" ELSE "memory"
<1>1. /\ pc[Master] = "mailbox" /\ pc'[Master] = there /\ Goto(Master, there)
  BY Went DEF MailboxInit
<1>2. SetUp(2) /\ Len(handlers) = 2 /\ ~fault /\ ~fbconenable
      /\ \A p \in {"kputs", "putchar", "uart_bus", "bus_fp"} : ptr[p] = "low"
  BY <1>1 DEF BInv, Where, SetUp, Queued, Group
<1>3. Full <=> JUMP_HANDLER_QUEUE_LENGTH = 2
  BY <1>2 DEF Full
<1>4. ~Full => SetUp(3)'
  <2>1. Group(3) = {"mailbox_bus"} /\ Handler(3) = "mailbox"
    BY DEF Group, Handler
  <2>2. JumpHandlersAdd(Handler(3)) /\ Set(Group(3), "low") /\ UNCHANGED <<applied, fbconenable>>
    BY <2>1 DEF MailboxInit
  <2> QED BY <1>2, <1>3, <2>2, QueueNext
<1>5. \A p \in NotDriven : ptr'[p] # "low"
  BY SetKeeps DEF MailboxInit, NotDriven, Driven
<1>6. Where'
  BY <1>1, <1>4, <1>5, WhereEarly DEF EarlyStage
<1>7. there \in Stages
  BY DEF Stages, BeforeJump
<1>8. ~fault'
  <2>1. \A p \in {"kputs", "putchar", "uart_bus", "bus_fp"} : ptr'[p] = "low"
    BY <1>2 DEF MailboxInit, Set, Pointers
  <2> QED BY <1>2, <2>1, NoFault DEF MailboxInit, Kprintf, Usable
<1> QED BY <1>1, <1>6, <1>7, <1>8, MasterMoves DEF MailboxInit

(* Before the jump, what k drivers set up stays usable while they stay so. *)
LEMMA LowUsable ==
  ASSUME NEW k \in 3 .. 4, SetUp(k), ptr' = ptr
  PROVE  /\ ~fbconenable
         /\ \A p \in Kprintf \cup {"mailbox_bus"} : Usable(Master, p)
         /\ k = 4 => Usable(Master, "fb_bits")
<1>1. ~fbconenable /\ \A i \in 1 .. k : \A p \in Group(i) : ptr[p] = "low"
  BY DEF SetUp
<1>2. /\ Group(1) = {"bus_fp"} /\ Group(2) = {"uart_bus", "putchar", "kputs"}
      /\ Group(3) = {"mailbox_bus"} /\ Group(4) = {"fb_bits"}
  BY DEF Group
<1>3. {1, 2, 3} \subseteq 1 .. k /\ (k = 4 => 4 \in 1 .. k)
  OBVIOUS
<1>4. /\ \A p \in {"kputs", "putchar", "uart_bus", "bus_fp", "mailbox_bus"} : ptr[p] = "low"
      /\ k = 4 => ptr["fb_bits"] = "low"
  BY <1>1, <1>2, <1>3
<1> QED BY <1>1, <1>4 DEF Kprintf, Usable

LEMMA DetectMemoryStep == BInv /\ DetectMemory => BInv'
<1> SUFFICES ASSUME BInv, DetectMemory PROVE BInv'
  OBVIOUS
<1>1. PICK there \in {"fbdev", "panic"} :
        pc[Master] = "memory" /\ pc'[Master] = there /\ Goto(Master, there)
  BY Went DEF DetectMemory
<1>2. SetUp(3) /\ ~fault
  BY <1>1 DEF BInv, Where
<1>3. SetUp(3)' /\ \A p \in NotDriven : ptr'[p] # "low"
  BY <1>2, SetUpStays DEF DetectMemory, BInv, Where
<1>4. Where'
  BY <1>1, <1>3, WhereEarly DEF EarlyStage
<1>5. ~fault'
  BY <1>2, LowUsable, NoFault DEF DetectMemory
<1>6. there \in Stages
  BY DEF Stages, BeforeJump
<1> QED BY <1>1, <1>4, <1>5, <1>6, MasterMoves DEF DetectMemory

(* The room for the frame buffer's handler is not looked for, and only with*)
(* a queue of three is there none.                                         *)
LEMMA FbdevStep == BInv /\ FbdevInit /\ JUMP_HANDLER_QUEUE_LENGTH # 3 => BInv'
<1> SUFFICES ASSUME BInv, FbdevInit, JUMP_HANDLER_QUEUE_LENGTH # 3 PROVE BInv'
  OBVIOUS
<1>1. pc[Master] = "fbdev" /\ SetUp(3) /\ ~fault /\ ~fbconenable /\ pc \in [Cores -> Places]
      /\ Master \in Cores /\ \A p \in NotDriven : ptr[p] # "low"
  BY DEF FbdevInit, BInv, Where, SetUp
<1>2. CASE Goto(Master, "panic") /\ UNCHANGED <<ptr, fault>>
  <2>1. pc'[Master] = "panic" /\ "panic" \in Stages
    BY <1>1, <1>2 DEF Goto, Stages, BeforeJump
  <2>2. Where'
    BY <1>1, <1>2, <2>1, WhereEarly
  <2> QED BY <1>1, <1>2, <2>1, <2>2, MasterMoves DEF FbdevInit
<1>3. CASE /\ Goto(Master, "early_mm") /\ Set({"fb_bits"}, "low") /\ JumpHandlersAdd("fb")
           /\ Uses(Master, {"mailbox_bus"} \cup Kprintf)
  <2>1. pc'[Master] = "early_mm" /\ "early_mm" \in Stages
    BY <1>1, <1>3 DEF Goto, Stages, BeforeJump
  <2>2. SetUp(4)'
    <3>1. Group(4) = {"fb_bits"} /\ Handler(4) = "fb"
      BY DEF Group, Handler
    <3>2. JumpHandlersAdd(Handler(4)) /\ Set(Group(4), "low") /\ UNCHANGED <<applied, fbconenable>>
      BY <1>3, <3>1 DEF FbdevInit
    <3> QED BY <1>1, <3>2, QueueNext
  <2>3. Where'
    <3>1. \A p \in NotDriven : ptr'[p] # "low"
      BY <1>3, SetKeeps DEF NotDriven, Driven
    <3> QED BY <2>1, <2>2, <3>1, WhereEarly DEF EarlyStage
  <2>4. ~fault'
    <3>1. \A p \in {"bus_fp", "kputs", "putchar", "uart_bus", "mailbox_bus"} : Usable(Master, p)
      BY <2>2, SetUpUsable
    <3> QED BY <1>1, <1>3, <3>1, NoFault DEF Kprintf
  <2> QED BY <1>1, <1>3, <2>1, <2>3, <2>4, MasterMoves DEF FbdevInit
<1> QED BY <1>2, <1>3 DEF FbdevInit

LEMMA EarlyMmStep == BInv /\ EarlyMmInit => BInv'
<1> SUFFICES ASSUME BInv, EarlyMmInit PROVE BInv'
  OBVIOUS
<1>1. PICK there \in {"mmu_jump", "panic"} :
        pc[Master] = "early_mm" /\ pc'[Master] = there /\ Goto(Master, there)
  BY Went DEF EarlyMmInit
<1>2. SetUp(4) /\ ~fault
  BY <1>1 DEF BInv, Where
<1>3. SetUp(4)' /\ \A p \in NotDriven : ptr'[p] # "low"
  BY <1>2, SetUpStays DEF EarlyMmInit, BInv, Where
<1>4. Where'
  BY <1>1, <1>3, WhereEarly DEF EarlyStage
<1>5. ~fault'
  BY <1>2, LowUsable, NoFault DEF EarlyMmInit
<1>6. there \in Stages
  BY DEF Stages, BeforeJump
<1> QED BY <1>1, <1>4, <1>5, <1>6, MasterMoves DEF EarlyMmInit

LEMMA JumpStep == BInv /\ (MmuJump \/ MasterEntry \/ MasterFbcls) => BInv'
<1> SUFFICES ASSUME BInv, MmuJump \/ MasterEntry \/ MasterFbcls PROVE BInv'
  OBVIOUS
<1>1. PICK here \in {"mmu_jump", "master_entry", "fbcls"}, there \in {"master_entry", "fbcls", "handlers"} :
        /\ pc[Master] = here /\ pc'[Master] = there /\ Goto(Master, there)
        /\ MmuJump \/ here # "mmu_jump"
  <2>1. CASE MmuJump BY <2>1, Went DEF MmuJump
  <2>2. CASE MasterEntry BY <2>2, Went DEF MasterEntry
  <2>3. CASE MasterFbcls BY <2>3, Went DEF MasterFbcls
  <2> QED BY <2>1, <2>2, <2>3
<1>2. SetUp(4) /\ ~fault /\ Master \in mmu' /\ mmu \subseteq mmu'
      /\ UNCHANGED <<ptr, handlers, applied, fbconenable, slaves>>
  BY <1>1 DEF BInv, Where, MmuJump, MasterEntry, MasterFbcls
<1>3. SetUp(4)' /\ \A p \in NotDriven : ptr'[p] # "low"
  BY <1>2, SetUpStays DEF BInv, Where
<1>4. there = "handlers" => Moving'
  BY <1>3 DEF SetUp, Moving
<1>5. there \in Stages
  BY DEF Stages, BeforeJump
<1>6. Where'
  BY <1>1, <1>2, <1>3, <1>4 DEF Where, Stages, BeforeJump, AfterJump
<1>7. ~fault'
  <2>1. CASE MmuJump BY <1>2, <2>1 DEF MmuJump
  <2>2. CASE MasterEntry
    <3>1. Master \in mmu
      BY <1>2, <2>2 DEF MasterEntry
    <3> QED BY <1>2, <2>2, <3>1 DEF MasterEntry
  <2>3. CASE MasterFbcls
    BY <1>2, <2>3, LowUsable, NoFault DEF MasterFbcls
  <2> QED BY <2>1, <2>2, <2>3
<1> QED BY <1>1, <1>2, <1>5, <1>6, <1>7, MasterMoves

(* Each handler moves its driver's pointers, in the order of the queue.    *)
LEMMA GroupsMove ==
  \A i \in 1 .. 4 : Group(i) = Moved(Handler(i)) /\ Group(i) \subseteq Driven
                    /\ Driven \subseteq Pointers
                    /\ \A j \in 1 .. 4 : i # j => Group(i) \cap Group(j) = {}
<1> SUFFICES ASSUME NEW i \in 1 .. 4
             PROVE  Group(i) = Moved(Handler(i)) /\ Group(i) \subseteq Driven
                    /\ Driven \subseteq Pointers
                    /\ \A j \in 1 .. 4 : i # j => Group(i) \cap Group(j) = {}
  OBVIOUS
<1>1. /\ Group(1) = {"bus_fp"} /\ Group(2) = {"uart_bus", "putchar", "kputs"}
      /\ Group(3) = {"mailbox_bus"} /\ Group(4) = {"fb_bits"}
  BY DEF Group
<1>2. i = 1 \/ i = 2 \/ i = 3 \/ i = 4
  OBVIOUS
<1>3. Group(i) = Moved(Handler(i))
  BY <1>1, <1>2 DEF Handler, Moved
<1>4. Group(i) \subseteq Driven /\ Driven \subseteq Pointers
  BY <1>1, <1>2 DEF Driven, Pointers
<1>5. ASSUME NEW j \in 1 .. 4, i # j PROVE Group(i) \cap Group(j) = {}
  <2>1. j = 1 \/ j = 2 \/ j = 3 \/ j = 4
    OBVIOUS
  <2> QED BY <1>1, <1>2, <1>5, <2>1
<1> QED BY <1>3, <1>4, <1>5

LEMMA ApplyStep == BInv /\ JumpHandlersApply => BInv'
<1> SUFFICES ASSUME BInv, JumpHandlersApply PROVE BInv'
  OBVIOUS
<1>1. /\ pc[Master] = "handlers" /\ Moving /\ ~fault /\ Master \in mmu
      /\ UNCHANGED <<mmu, handlers, slaves, fault>>
  BY DEF JumpHandlersApply, BInv, Where
<1>2. Len(handlers) = 4 /\ applied \in 0 .. 4 /\ \A i \in 1 .. 4 : handlers[i] = Handler(i)
  BY <1>1 DEF Moving, Queued
<1>3. CASE applied < Len(handlers)
  <2>1. PICK n \in 1 .. 4 : n = applied + 1
    BY <1>2, <1>3
  <2>2. /\ Set(Group(n), "high") /\ applied' = n /\ pc' = pc
        /\ fbconenable' => n = 4
    <3>1. handlers[applied + 1] = Handler(n) /\ Moved(Handler(n)) = Group(n)
      BY <1>2, <2>1, GroupsMove
    <3>2. Set(Group(n), "high") /\ applied' = n /\ pc' = pc
      BY <1>3, <2>1, <3>1 DEF JumpHandlersApply
    <3>3. fbconenable' <=> fbconenable \/ Handler(n) = "fb"
      BY <1>3, <3>1 DEF JumpHandlersApply
    <3>4. ~fbconenable
      BY <1>1, <1>2, <1>3 DEF Moving
    <3>5. Handler(n) = "fb" => n = 4
      BY DEF Handler
    <3> QED BY <3>2, <3>3, <3>4, <3>5
  <2>3. \A i \in 1 .. 4 : \A p \in Group(i) : ptr'[p] = IF i <= n THEN "high" ELSE "low"
    <3> SUFFICES ASSUME NEW i \in 1 .. 4, NEW p \in Group(i)
                 PROVE  ptr'[p] = IF i <= n THEN "high" ELSE "low"
      OBVIOUS
    <3>1. ptr[p] = IF i <= applied THEN "high" ELSE "low"
      BY <1>1 DEF Moving
    <3>2. p \in Pointers /\ (p \in Group(n) <=> i = n)
      BY GroupsMove
    <3>3. ptr'[p] = IF p \in Group(n) THEN "high" ELSE ptr[p]
      BY <2>2, <3>2 DEF Set
    <3> QED BY <1>2, <2>1, <3>1, <3>2, <3>3
  <2>4. Moving'
    BY <1>1, <2>2, <2>3 DEF Moving, Queued
  <2>5. \A p \in NotDriven : ptr'[p] # "low"
    BY <2>2, SetKeeps
  <2>6. Where'
    BY <1>1, <2>2, <2>4, <2>5 DEF BInv, Where, Stages, BeforeJump, AfterJump
  <2>7. "handlers" \in Stages
    BY DEF Stages, BeforeJump
  <2> QED BY <1>1, <2>2, <2>6, <2>7, MasterMoves
<1>4. CASE ~(applied < Len(handlers))
  <2>1. Goto(Master, "bcm2836") /\ ptr' = ptr /\ pc'[Master] = "bcm2836" /\ "bcm2836" \in Stages
    BY <1>4 DEF JumpHandlersApply, Goto, BInv, Stages, AfterJump
  <2>2. AllHigh(Driven)'
    <3>1. \A i \in 1 .. 4 : \A p \in Group(i) : ptr[p] = "high"
      BY <1>1, <1>2, <1>4 DEF Moving
    <3>2. /\ Group(1) = {"bus_fp"} /\ Group(2) = {"uart_bus", "putchar", "kputs"}
          /\ Group(3) = {"mailbox_bus"} /\ Group(4) = {"fb_bits"}
      BY DEF Group
    <3>3. \A p \in Driven : ptr[p] = "high"
      BY <3>1, <3>2 DEF Driven
    <3> QED BY <2>1, <3>3 DEF AllHigh
  <2>3. Where'
    BY <1>1, <2>1, <2>2 DEF BInv, Where, Stages, BeforeJump, AfterJump
  <2> QED BY <1>1, <2>1, <2>3, MasterMoves
<1> QED BY <1>3, <1>4

(* After the jump what a print needs is high and so within reach.          *)
LEMMA HighUsable ==
  ASSUME BInv, AllHigh(Driven)', NEW c \in mmu
  PROVE  \A p \in Kprintf : Usable(c, p)
BY DEF AllHigh, Driven, Kprintf, Usable

LEMMA HighStays ==
  ASSUME NEW S, AllHigh(S), S \subseteq Pointers, NEW pointers,
         Set(pointers, "high") \/ ptr' = ptr
  PROVE  AllHigh(S)'
BY DEF AllHigh, Set

(* The steps of the first core after the jump: they set nothing low.       *)
LEMMA LateStep ==
  BInv /\ (MachMasterInit \/ VmmBootstrap \/ CpuInitStructure \/ TrapInit \/ DoInitcalls) => BInv'
<1> SUFFICES ASSUME BInv, MachMasterInit \/ VmmBootstrap \/ CpuInitStructure \/ TrapInit \/ DoInitcalls
             PROVE  BInv'
  OBVIOUS
<1>1. PICK here \in AfterJump \ {"start_slaves"}, there \in AfterJump \cup {"panic"} :
        /\ pc[Master] = here /\ pc'[Master] = there /\ Goto(Master, there)
        /\ here = "bcm2836" => MachMasterInit /\ there = "vmm"
        /\ here = "vmm" => VmmBootstrap /\ there \in {"cpus", "panic"}
        /\ here = "cpus" => CpuInitStructure /\ there \in {"trap_init", "panic"}
        /\ here = "trap_init" => TrapInit /\ there = "initcalls"
        /\ here = "initcalls" => DoInitcalls /\ there = "start_slaves"
  <2> USE DEF AfterJump
  <2>1. CASE MachMasterInit BY <2>1, Went DEF MachMasterInit
  <2>2. CASE VmmBootstrap BY <2>2, Went DEF VmmBootstrap
  <2>3. CASE CpuInitStructure BY <2>3, Went DEF CpuInitStructure
  <2>4. CASE TrapInit BY <2>4, Went DEF TrapInit
  <2>5. CASE DoInitcalls BY <2>5, Went DEF DoInitcalls
  <2> QED BY <2>1, <2>2, <2>3, <2>4, <2>5
<1>2. /\ ~fault /\ AllHigh(Driven) /\ Master \in mmu
      /\ here # "bcm2836" => AllHigh({"bcm_bus"})
      /\ here \notin {"bcm2836", "vmm"} => AllHigh({"g_pvbridge", "kmalloc"})
  BY <1>1 DEF BInv, Where
<1>3. /\ UNCHANGED <<mmu, slaves>>
      /\ \E pointers : Set(pointers, "high") \/ ptr' = ptr
      /\ here = "bcm2836" => Set({"bcm_bus"}, "high")
      /\ here = "vmm" => Set({"g_pvbridge", "kmalloc"}, "high")
  BY <1>1 DEF MachMasterInit, VmmBootstrap, CpuInitStructure, TrapInit, DoInitcalls, AfterJump
<1>4. Driven \subseteq Pointers /\ {"bcm_bus"} \subseteq Pointers /\ {"g_pvbridge", "kmalloc"} \subseteq Pointers
  BY DEF Driven, Pointers
<1>5. /\ AllHigh(Driven)'
      /\ here # "bcm2836" => AllHigh({"bcm_bus"})'
      /\ here \notin {"bcm2836", "vmm"} => AllHigh({"g_pvbridge", "kmalloc"})'
  BY <1>2, <1>3, <1>4, HighStays
<1>6. /\ here = "bcm2836" => AllHigh({"bcm_bus"})'
      /\ here = "vmm" => AllHigh({"g_pvbridge", "kmalloc"})'
  BY <1>3 DEF AllHigh, Set, Pointers
<1>7. \A p \in NotDriven : ptr'[p] # "low"
  BY <1>3, SetKeeps DEF BInv, Where
<1>8. Where'
  BY <1>1, <1>2, <1>3, <1>5, <1>6, <1>7 DEF Where, Stages, BeforeJump, AfterJump
<1>9. \A p \in Kprintf : Usable(Master, p)
  BY <1>2, <1>5, HighUsable
<1>10. here \notin {"bcm2836", "vmm"} => Usable(Master, "g_pvbridge") /\ Usable(Master, "kmalloc")
  BY <1>2, <1>5 DEF AllHigh, Usable
<1>11. ~fault'
  <2>1. here = "bcm2836" => Uses(Master, Kprintf)
    BY <1>1 DEF MachMasterInit
  <2>2. here = "vmm" => Uses(Master, Kprintf)
    BY <1>1 DEF VmmBootstrap
  <2>3. here = "cpus" => Uses(Master, {"g_pvbridge"})
    BY <1>1 DEF CpuInitStructure
  <2>4. here = "trap_init" => Uses(Master, {"g_pvbridge"})
    BY <1>1 DEF TrapInit
  <2>5. here = "initcalls" => Uses(Master, {"kmalloc"} \cup Kprintf)
    BY <1>1 DEF DoInitcalls
  <2>6. here \in {"bcm2836", "vmm", "cpus", "trap_init", "initcalls"}
    BY <1>1 DEF AfterJump
  <2>7. \A S : Uses(Master, S) /\ (\A p \in S : Usable(Master, p)) => ~fault'
    BY <1>2, NoFault
  <2>8. here = "cpus" \/ here = "trap_init" => \A p \in {"g_pvbridge"} : Usable(Master, p)
    BY <1>10
  <2>9. here = "initcalls" => \A p \in {"kmalloc"} \cup Kprintf : Usable(Master, p)
    BY <1>9, <1>10
  <2> QED BY <1>9, <2>1, <2>2, <2>3, <2>4, <2>5, <2>6, <2>7, <2>8, <2>9
<1>12. there \in Stages /\ pc[Master] # "start_slaves"
  BY <1>1 DEF Stages, BeforeJump, AfterJump
<1> QED BY <1>1, <1>3, <1>8, <1>11, <1>12, MasterMoves

-----------------------------------------------------------------------------
(* Once the slaves are started the first core stays where it is and nothing*)
(* moves any pointer.                                                      *)
LEMMA SlavesRun ==
  ASSUME BInv, pc[Master] = "start_slaves", UNCHANGED <<ptr, handlers, applied, fbconenable>>,
         mmu \subseteq mmu', ~fault',
         \/ pc' = pc
         \/ \E c \in Slaves, there \in {"entry", "early", "slave_entry", "slave_init", "spin"} :
              Goto(c, there) /\ (there \in {"slave_entry", "slave_init"} => c \in mmu')
  PROVE  BInv'
<1>1. /\ pc' \in [Cores -> Places] /\ pc'[Master] = "start_slaves"
      /\ \A c \in Slaves : pc'[c] \in {"slave_entry", "slave_init"} => c \in mmu'
  <2>1. pc \in [Cores -> Places] /\ Master \in Cores
        /\ \A c \in Slaves : pc[c] \in {"slave_entry", "slave_init"} => c \in mmu
    BY DEF BInv, SlavesFollow
  <2>2. CASE pc' = pc
    BY <2>1, <2>2
  <2>3. CASE \E c \in Slaves, there \in {"entry", "early", "slave_entry", "slave_init", "spin"} :
               Goto(c, there) /\ (there \in {"slave_entry", "slave_init"} => c \in mmu')
    <3>1. PICK c \in Slaves, there \in {"entry", "early", "slave_entry", "slave_init", "spin"} :
            Goto(c, there) /\ (there \in {"slave_entry", "slave_init"} => c \in mmu')
      BY <2>3
    <3>2. there \in Places /\ c \in Cores /\ c # Master
      BY DEF Places, Slaves
    <3>3. pc' = [pc EXCEPT ![c] = there]
      BY <3>1 DEF Goto
    <3> QED BY <2>1, <3>1, <3>2, <3>3
  <2> QED BY <2>2, <2>3
<1>2. Where'
  BY <1>1 DEF BInv, Where, AllHigh, Stages, BeforeJump, AfterJump
<1>3. SlavesFollow'
  BY <1>1 DEF SlavesFollow
<1> QED BY <1>1, <1>2, <1>3 DEF BInv

LEMMA StartSlavesStep == BInv /\ (AllocStack \/ ClearMailbox \/ SetMailbox) => BInv'
<1> SUFFICES ASSUME BInv, AllocStack \/ ClearMailbox \/ SetMailbox PROVE BInv'
  OBVIOUS
<1>1. /\ pc[Master] = "start_slaves" /\ UNCHANGED <<pc, mmu, ptr, handlers, applied, fbconenable>>
      /\ Uses(Master, Kprintf) \/ Uses(Master, {"bcm_bus"} \cup Kprintf)
  BY DEF AllocStack, ClearMailbox, SetMailbox
<1>2. ~fault /\ AllHigh(Driven)' /\ AllHigh({"bcm_bus"})' /\ Master \in mmu
  BY <1>1 DEF BInv, Where, AfterJump, AllHigh
<1>3. \A p \in {"bcm_bus"} \cup Kprintf : Usable(Master, p)
  <2>1. Usable(Master, "bcm_bus")
    BY <1>2 DEF AllHigh, Usable
  <2> QED BY <1>2, <2>1, HighUsable
<1>4. ~fault'
  BY <1>1, <1>2, <1>3, NoFault
<1> QED BY <1>1, <1>4, SlavesRun

LEMMA SlavesStep == ASSUME BInv, NEW c \in Slaves, SlaveStep(c) PROVE BInv'
<1>1. /\ pc[Master] = "start_slaves" /\ UNCHANGED <<ptr, handlers, applied, fbconenable>>
      /\ mmu \subseteq mmu'
  <2>1. pc[c] # "parked" \/ box[c]
    BY DEF SlaveStep, Leave, SlaveEarlyEntry, SlaveMmuJump, SlaveEntry, SlaveInit
  <2> QED BY <2>1 DEF BInv, SlavesFollow, SlaveStep, Leave, SlaveEarlyEntry, SlaveMmuJump,
                      SlaveEntry, SlaveInit
<1>2. ~fault /\ (pc[c] \in {"slave_entry", "slave_init"} => c \in mmu)
  BY DEF BInv, SlavesFollow
<1>3. CASE Leave(c)
  BY <1>1, <1>2, <1>3, SlavesRun DEF Leave
<1>4. CASE SlaveEarlyEntry(c)
  BY <1>1, <1>2, <1>4, SlavesRun DEF SlaveEarlyEntry
<1>5. CASE SlaveMmuJump(c)
  BY <1>1, <1>2, <1>5, SlavesRun DEF SlaveMmuJump
<1>6. CASE SlaveEntry(c)
  BY <1>1, <1>2, <1>6, SlavesRun DEF SlaveEntry
<1>7. CASE SlaveInit(c)
  <2>1. AllHigh(Driven)' /\ c \in mmu
    BY <1>1, <1>2, <1>7 DEF SlaveInit, BInv, Where, AfterJump, AllHigh
  <2>2. Uses(c, Kprintf) /\ \A p \in Kprintf : Usable(c, p)
    BY <1>7, <2>1, HighUsable DEF SlaveInit
  <2>3. ~fault'
    BY <1>2, <2>2 DEF Uses
  <2> QED BY <1>1, <1>2, <1>7, <2>3, SlavesRun DEF SlaveInit
<1> QED BY <1>3, <1>4, <1>5, <1>6, <1>7 DEF SlaveStep

-----------------------------------------------------------------------------
LEMMA BootStep == JUMP_HANDLER_QUEUE_LENGTH # 3 /\ BInv /\ [Next]_vars => BInv'
<1> SUFFICES ASSUME JUMP_HANDLER_QUEUE_LENGTH # 3, BInv, [Next]_vars PROVE BInv'
  OBVIOUS
<1>1. CASE MasterStep
  BY <1>1, EarlyDevicesStep, EarlyConsoleStep, MailboxStep, DetectMemoryStep, FbdevStep, EarlyMmStep,
     JumpStep, ApplyStep, LateStep, StartSlavesStep DEF MasterStep
<1>2. CASE \E c \in Slaves : SlaveStep(c)
  BY <1>2, SlavesStep
<1>3. CASE UNCHANGED vars
  BY <1>3 DEF vars, slaves, BInv, Where, SlavesFollow, SetUp, Queued, Moving, AllHigh
<1> QED BY <1>1, <1>2, <1>3 DEF Next, Loops

LEMMA UsableThroughout == BInv => PointersUsable
<1> SUFFICES ASSUME BInv PROVE PointersUsable
  OBVIOUS
<1>1. ~fault /\ Where
  BY DEF BInv
<1>2. ASSUME pc[Master] \notin BeforeJump PROVE \A p \in Pointers : ptr[p] # "low"
  <2>1. pc[Master] \in AfterJump
    BY <1>1, <1>2 DEF Where, Stages
  <2> QED BY <1>1, <2>1 DEF Where, AllHigh, NotDriven
<1> QED BY <1>1, <1>2 DEF PointersUsable

(* However many cores there are, and whatever becomes of the slaves'       *)
(* stacks, every pointer the boot and the slaves use is set and holds an   *)
(* address that the core can reach, and none is left low past the jump.    *)
(* With a queue of exactly three handlers rpi2_fbdev_init, which does not  *)
(* look at what jump_handlers_add returns, would leave fb_bits low; the    *)
(* code's queue has ten.                                                   *)
THEOREM BootPointersUsable ==
  ASSUME JUMP_HANDLER_QUEUE_LENGTH # 3
  PROVE  Spec => []PointersUsable
<1>1. Init => BInv
  BY BootInit
<1>2. BInv /\ [Next]_vars => BInv'
  BY BootStep
<1>3. BInv => PointersUsable
  BY UsableThroughout
<1>4. Safety => []PointersUsable
  BY <1>1, <1>2, <1>3, PTL DEF Safety
<1> QED BY <1>4, PTL DEF Spec
=============================================================================
