-------------------------------- MODULE Uart --------------------------------
(***************************************************************************)
(* The serial drivers drivers/serial/uart-rpi2.c and uart-ns16550.c, over  *)
(* the buses of drivers/io/io-mem.c and io-port.c; and the ARM boot        *)
(* loader's own driver (boot/arch/armv7a/console.c), which stores straight *)
(* to memory and never jumps.                                              *)
(*                                                                         *)
(* A driver knows its registers by a base and an offset on a bus; a bus    *)
(* adds its own base and passes the access on to the bus it is connected   *)
(* to, down to a root that is memory or the ports.  The device decodes the *)
(* address it is then given; it is external, and so is the MMU, which maps *)
(* addresses above KOFFSET to those below once the kernel has jumped.      *)
(***************************************************************************)
EXTENDS Integers, Sequences

CONSTANTS
  Boards,      \* [driver, path, base, mapped, device]: the buses down to the root,
               \* the driver's base before and after the jump, the device's address
  KOFFSET,
  PortSpace,   \* ports are counted modulo this: uint16_t
  AddrSpace,   \* and addresses modulo this: uint32_t
  FifoSize,
  Chars,       \* "nl" is the newline
  MaxChars     \* bound: characters in a behaviour

VARIABLES
  board,       \* the board, and the bus and base the driver has now
  fps,         \* the kinds of bus that have their access functions
  jumped,      \* has the jump handler run?
  at,          \* the registers already initialised
  todo,        \* the characters putchar still has to write
  polled,      \* has it found room for the first of them?
  regs,        \* the device's registers
  fifo, line,  \* the characters in the device, and those sent
  put          \* the characters given to putchar

device == <<regs, fifo, line>>
output == <<todo, polled, put>>
vars == <<board, fps, jumped, at, device, output>>

(* The registers of uart-rpi2-hw.h and uart-ns16550-hw.h; those of one     *)
(* offset are told apart by the divisor latch bit.                         *)
RpiOffset ==
  [GPFSEL1 |-> 4, GPPUD |-> 148, GPPUDCLK0 |-> 152, ENABLES |-> 20, DATA |-> 64,
   IER |-> 68, IIR |-> 72, LCR |-> 76, MCR |-> 80, LSR |-> 84, CNTL |-> 96, BAUD |-> 104]
NsOffset ==
  [DATA |-> 0, DLL |-> 0, IER |-> 1, DLM |-> 1, FCR |-> 2, LCR |-> 3, MCR |-> 4, LSR |-> 5]
Offset(driver) == IF driver = "ns16550" THEN NsOffset ELSE RpiOffset

(* The bits of the ns16550's registers that the driver uses.               *)
FCR == [RTB_4 |-> 64, RST_TRANSMIT |-> 4, RST_RECEIVER |-> 2, ENABLE |-> 1]
LCR == [DLAB |-> 128, DATA_8BIT |-> 3, STOP_1BIT |-> 0, PARITY_NONE |-> 0]
MCR == [RTSC |-> 2, DTRC |-> 1]
Divisor == 1843200 \div 115200    \* UART_FREQ, UART_BAUDRATE

(* __uart_rpi2_init, and bioinit of the loader; of GPFSEL1 it changes the  *)
(* three bits each of pins 14 and 15.                                      *)
RpiProgram ==
  << <<"ENABLES", 1>>, <<"IER", 0>>, <<"CNTL", 0>>, <<"LCR", 3>>, <<"MCR", 0>>, <<"IER", 0>>,
     <<"IIR", 198>>, <<"BAUD", 270>>, <<"GPFSEL1", 2 * 2^12 + 2 * 2^15>>, <<"GPPUD", 0>>,
     <<"GPPUDCLK0", 2^14 + 2^15>>, <<"GPPUDCLK0", 0>>, <<"CNTL", 3>> >>
(* __uart_ns16550_init and _enable.                                        *)
NsProgram ==
  << <<"FCR", FCR.RTB_4 + FCR.RST_TRANSMIT + FCR.RST_RECEIVER + FCR.ENABLE>>,
     <<"LCR", LCR.DLAB>>, <<"DLL", Divisor % 256>>, <<"DLM", (Divisor \div 256) % 256>>,
     <<"LCR", LCR.DATA_8BIT + LCR.STOP_1BIT + LCR.PARITY_NONE>>,
     <<"MCR", MCR.RTSC + MCR.DTRC>> >>
Program(driver) == IF driver = "ns16550" THEN NsProgram ELSE RpiProgram

Unknown == -1
Init ==
  /\ board \in Boards
  /\ fps = {} /\ jumped = FALSE
  /\ at = 0 /\ todo = << >> /\ polled = FALSE
  /\ regs = [r \in DOMAIN Offset(board.driver) |-> Unknown]
  /\ fifo = << >> /\ line = << >> /\ put = << >>

-----------------------------------------------------------------------------
(* __get_read_fp and __get_write_fp of each bus: the widths it can be      *)
(* accessed by.  It has no functions before its init, so that a driver     *)
(* would return or spin; the loader's driver needs none.                   *)
PortWidths == {8, 16, 32}
MemoryWidths == {8, 16, 32}
Widths(kind) == IF kind = "port" THEN PortWidths ELSE MemoryWidths
DataWidth(driver) == IF driver = "ns16550" THEN 8 ELSE 32
CanAccess ==
  \/ board.driver = "boot"
  \/ \A i \in DOMAIN board.path :
       board.path[i].kind \in fps /\ DataWidth(board.driver) \in Widths(board.path[i].kind)

(* __read8 to __write32 of io-port.c: a connected bus passes base + offset *)
(* on with its own base, the port root truncates to 16 bits; the memory    *)
(* bus ends in read32 and write32 of aim/io.h.                             *)
Root(path) == path[Len(path)].kind
Space(path) == IF Root(path) = "port" THEN PortSpace ELSE AddrSpace
Above(path) ==
  LET sum[n \in 0 .. Len(path) - 1] == IF n = 0 THEN 0 ELSE sum[n - 1] + path[n].base
  IN sum[Len(path) - 1]
\* Slip: the bus forgets the base it is connected at.
BusAddressUnbased(path, base, offset) == (base + offset) % Space(path)
BusAddress(path, base, offset) == (base + offset + Above(path)) % Space(path)

(* The MMU and the device.                                                 *)
Physical(a) == IF jumped /\ Root(board.path) = "memory" /\ a >= KOFFSET THEN a - KOFFSET ELSE a
Dlab == regs.LCR >= LCR.DLAB
Target(offset) ==
  {r \in DOMAIN regs :
     /\ board.device + Offset(board.driver)[r] =
          Physical(BusAddress(board.path, board.base, offset))
     /\ r \in {"DLL", "DLM"} => Dlab
     /\ r \in {"DATA", "IER"} => ~Dlab}

BusWrite(offset, val) ==
  /\ regs' = [r \in DOMAIN regs |-> IF r \in Target(offset) \ {"DATA"} THEN val ELSE regs[r]]
  /\ fifo' = IF "DATA" \in Target(offset) /\ Len(fifo) < FifoSize THEN Append(fifo, val) ELSE fifo
  /\ UNCHANGED line

(* UART_LSR_THRE, bit 0x20 of the line status: there is room, or, for the  *)
(* ns16550, the queue is empty.                                            *)
Room ==
  /\ CanAccess /\ "LSR" \in Target(Offset(board.driver).LSR)
  /\ IF board.driver = "ns16550" THEN fifo = << >> ELSE Len(fifo) < FifoSize

(* How a board is wired: the driver's base is that of the device before    *)
(* the jump, after it that or its mapping above KOFFSET, below which all   *)
(* registers are; nothing is truncated; and what init of uart-ns16550.c    *)
(* moves to portio is a device on the ports.                               *)
Wired(b) ==
  LET ends == {b.device + Offset(b.driver)[r] : r \in DOMAIN Offset(b.driver)} IN
  /\ b \in [driver : {"rpi2", "ns16550", "boot"}, path : Seq([kind : {"port", "memory"}, base : Nat]),
             base : Nat, mapped : Nat, device : Nat]
  /\ b.path # << >>
  /\ b.base + Above(b.path) = b.device /\ \A a \in ends : a < KOFFSET /\ a < Space(b.path)
  /\ b.driver = "boot" \/ b.mapped = b.base
       \/ /\ b.mapped = b.base + KOFFSET /\ Root(b.path) = "memory"
          /\ \A a \in ends : a + KOFFSET < Space(b.path)
  /\ b.driver = "ns16550" /\ Len(b.path) = 1 =>
       b.mapped = b.device /\ \A a \in ends : a < PortSpace
UartAssumption ==
  /\ {KOFFSET, PortSpace, AddrSpace, FifoSize} \subseteq Nat \ {0}
  /\ \A b \in Boards : Wired(b)

-----------------------------------------------------------------------------
(* early_devices_init: the root of the build, and the bus connected to it, *)
(* before the early console.                                               *)
HasBus(kind) ==
  /\ board.driver # "boot" /\ kind \notin fps
  /\ \E i \in DOMAIN board.path : board.path[i].kind = kind
IoMemInit ==
  /\ HasBus("memory")
  /\ fps' = fps \cup {"memory"}
  /\ UNCHANGED <<board, jumped, at, device, output>>
IoPortInit ==
  /\ HasBus("port")
  /\ fps' = fps \cup {"port"}
  /\ UNCHANGED <<board, jumped, at, device, output>>

WriteNext ==
  /\ CanAccess
  /\ at < Len(Program(board.driver))
  /\ LET write == Program(board.driver)[at + 1] IN
       BusWrite(Offset(board.driver)[write[1]], write[2])
  /\ at' = at + 1
  /\ UNCHANGED <<board, fps, jumped, output>>

InitRegister == board.driver # "boot" /\ WriteNext
Bioinit == board.driver = "boot" /\ WriteNext

Ready == at = Len(Program(board.driver))
Idle == Ready /\ todo = << >>

Put(c, chars) ==
  /\ Idle /\ Len(put) < MaxChars
  /\ todo' = chars /\ put' = Append(put, c)
  /\ UNCHANGED <<board, fps, jumped, at, device, polled>>

Putchar(c) == board.driver # "boot" /\ Put(c, <<c>>)

(* The loader's bputc returns the carriage before a new line.              *)
\* Slip: the carriage is returned after it.
BputcLate(c) == board.driver = "boot" /\ Put(c, IF c = "nl" THEN <<c, "cr">> ELSE <<c>>)
Bputc(c) == board.driver = "boot" /\ Put(c, IF c = "nl" THEN <<"cr", c>> ELSE <<c>>)

(* Each character waits for the line status, then is written.              *)
Poll ==
  /\ todo # << >> /\ ~polled
  /\ Room
  /\ polled' = TRUE
  /\ UNCHANGED <<board, fps, jumped, at, device, todo, put>>
Write ==
  /\ polled
  /\ BusWrite(Offset(board.driver).DATA, Head(todo))
  /\ todo' = Tail(todo) /\ polled' = FALSE
  /\ UNCHANGED <<board, fps, jumped, at, put>>

(* The device sends a character.                                           *)
Transmit ==
  /\ fifo # << >>
  /\ line' = Append(line, Head(fifo))
  /\ fifo' = Tail(fifo)
  /\ UNCHANGED <<board, fps, jumped, at, regs, output>>

(* After the MMU is on: the jump handler sets the mapped base.             *)
JumpHandler ==
  /\ Idle /\ ~jumped /\ board.driver # "boot"
  /\ jumped' = TRUE
  /\ board' = [board EXCEPT !.base = board.mapped]
  /\ UNCHANGED <<fps, at, device, output>>

(* The bus that __driver_init of io-port.c adds: a root, with the access   *)
(* functions of its driver.                                                *)
Portio == [kind |-> "port", base |-> 0]

(* init of uart-ns16550.c: the console moves to a device on the bus that   *)
(* is called portio, with no further initialisation.                       *)
DevInit ==
  /\ jumped /\ Idle /\ board.driver = "ns16550"
  /\ board' = [board EXCEPT !.path = <<Portio>>, !.base = board.mapped]
  /\ Len(board.path) = 1    \* a board with ports in memory has another bus of that name
  /\ UNCHANGED <<fps, jumped, at, device, output>>

Done ==
  /\ Len(put) = MaxChars /\ todo = << >> /\ fifo = << >>
  /\ jumped \/ board.driver = "boot"
  /\ UNCHANGED vars

Next ==
  \/ IoMemInit \/ IoPortInit \/ InitRegister \/ Bioinit \/ (\E c \in Chars : Putchar(c) \/ Bputc(c))
  \/ Poll \/ Write \/ Transmit \/ JumpHandler \/ DevInit \/ Done

Spec == Init /\ [][Next]_vars

-----------------------------------------------------------------------------
(* Every character given to putchar is sent, once and in order, whichever  *)
(* bus the device is on and on either side of the jump, and none before    *)
(* the device has every setting of the driver; the loader's lines start at *)
(* the left.                                                               *)
LastSet(driver, r) == Program(driver)[
  CHOOSE i \in DOMAIN Program(driver) :
    /\ Program(driver)[i][1] = r
    /\ \A j \in DOMAIN Program(driver) : Program(driver)[j][1] = r => j <= i][2]
Wanted(c) == IF board.driver = "boot" /\ c = "nl" THEN <<"cr", "nl">> ELSE <<c>>
Asked ==
  LET asked[n \in 0 .. Len(put)] == IF n = 0 THEN << >> ELSE asked[n - 1] \o Wanted(put[n])
  IN asked[Len(put)]
OutputComplete ==
  /\ line \o fifo \o todo = Asked
  /\ Ready => \A i \in DOMAIN Program(board.driver) :
                LET r == Program(board.driver)[i][1] IN regs[r] = LastSet(board.driver, r)
=============================================================================
