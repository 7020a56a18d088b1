----------------------------- MODULE MCMachine -----------------------------
(***************************************************************************)
(* What the Raspberry Pi's kernel has beside memory, locks and boot, for   *)
(* TLC: device index, linked lists, VideoCore mailbox, frame buffer        *)
(* console, serial drivers and exceptions.  They share no variable, so a   *)
(* behaviour is one of one of them, part, and the others stand still.      *)
(***************************************************************************)
EXTENDS DevList, TLC

CONSTANTS
  Parts,                                         \* the components run
  root, child, uart, disk,                       \* DevList
  Lists, Entries,                                \* ListHead
  Depth, MaxStale, Values, Odd, MayIgnore,       \* Mailbox
  Width, Height, CONPAGE_COLS, Printed,          \* FbConsole
  Boards, KOFFSET, PortSpace, AddrSpace, FifoSize, Chars, MaxChars,   \* Uart
  Half, Contexts, MaxDepth                       \* ArmTrap

VARIABLES
  part,
  next, prev, walked, pos, after,
  mail1, mail0, buffer, granted, answers, request, pc, info,
  fbconenable, screen, conx, cony, recent, pending,
  board, fps, jumped, at, todo, polled, regs, fifo, line, put,
  cpu, exc, temp, stack, place, saved

(* A root bus, a bus on it and two devices on that one; the buses share a  *)
(* number, as the ones with no number of their own do.                     *)
RpiDevices == {root, child, uart, disk}
RpiNumbers == (root :> 0) @@ (child :> 0) @@ (uart :> 2) @@ (disk :> 1)
RpiBuses == (root :> Null) @@ (child :> root) @@ (uart :> child) @@ (disk :> child)

(* The rpi2's memory bus for the kernel and for the loader, a PC's ports,  *)
(* and ports in the memory of a board without port instructions.           *)
RpiBoards ==
  { [driver |-> "rpi2", path |-> <<[kind |-> "memory", base |-> 0]>>,
     base |-> 300, mapped |-> 300 + KOFFSET, device |-> 300],
    [driver |-> "boot", path |-> <<[kind |-> "memory", base |-> 0]>>,
     base |-> 300, mapped |-> 300, device |-> 300],
    [driver |-> "ns16550", path |-> <<[kind |-> "port", base |-> 0]>>,
     base |-> 56, mapped |-> 56, device |-> 56],
    [driver |-> "ns16550",
     path |-> <<[kind |-> "port", base |-> 200], [kind |-> "memory", base |-> 0]>>,
     base |-> 56, mapped |-> 56, device |-> 256] }

(* Code with and without a low half in r0, with neither or one kind of     *)
(* interrupt off.                                                          *)
RpiContexts ==
  {[r0 |-> 64, r1 |-> 1, sp |-> 900, lr |-> 300, pc |-> 200, i |-> i, f |-> 0] : i \in {0, 1}}
  \cup {[r0 |-> 37, r1 |-> 2, sp |-> 500, lr |-> 333, pc |-> 100, i |-> 0, f |-> 1]}

List == INSTANCE ListHead WITH n <- after, Count <- Cardinality(Entries)
Box == INSTANCE Mailbox
Fb == INSTANCE FbConsole WITH Chars <- Printed
Serial == INSTANCE Uart
Arm == INSTANCE ArmTrap WITH at <- place

ASSUME MachineAssumption ==
  /\ DevicesAssumption /\ Box!MailboxAssumption
  /\ List!ListAssumption /\ Fb!FbAssumption
  /\ Serial!UartAssumption /\ Arm!ArmTrapAssumption

listVars == <<next, prev, walked, pos, after>>
boxVars == <<mail1, mail0, buffer, granted, answers, request, pc, info>>
fbVars == <<fbconenable, screen, conx, cony, recent, pending>>
serialVars == <<board, fps, jumped, at, todo, polled, regs, fifo, line, put>>
armVars == <<cpu, exc, temp, stack, place, saved>>
mcvars == <<part, vars, listVars, boxVars, fbVars, serialVars, armVars>>

(* A mailbox that is not in use is at no place of its code.                *)
NoMailbox ==
  /\ mail1 = << >> /\ mail0 = << >> /\ answers = 0
  /\ buffer = << >> /\ granted = << >>
  /\ request = 1 /\ pc = "none" /\ info = << >>

MCInit ==
  /\ part \in Parts
  /\ Init /\ Fb!Init
  /\ List!Init /\ (part # "lists" => pos = CHOOSE l \in Lists : TRUE)
  /\ Serial!Init /\ (part # "serial" => board = CHOOSE b \in Boards : TRUE)
  /\ IF part = "mailbox" THEN Box!Init ELSE NoMailbox
  /\ Arm!Init /\ (part # "arm" => cpu = CHOOSE c \in Contexts : TRUE)

MCNext ==
  /\ UNCHANGED part
  /\ \/ part = "index" /\ Next
        /\ UNCHANGED <<listVars, boxVars, fbVars, serialVars, armVars>>
     \/ part = "lists" /\ List!Next
        /\ UNCHANGED <<vars, boxVars, fbVars, serialVars, armVars>>
     \/ part = "mailbox" /\ Box!Next
        /\ UNCHANGED <<vars, listVars, fbVars, serialVars, armVars>>
     \/ part = "console" /\ Fb!Next
        /\ UNCHANGED <<vars, listVars, boxVars, serialVars, armVars>>
     \/ part = "serial" /\ Serial!Next
        /\ UNCHANGED <<vars, listVars, boxVars, fbVars, armVars>>
     \/ part = "arm" /\ Arm!Next
        /\ UNCHANGED <<vars, listVars, boxVars, fbVars, serialVars>>

MCSpec == MCInit /\ [][MCNext]_mcvars /\ Box!Fairness

-----------------------------------------------------------------------------
(* The pointers of list.h implement sequences (ListHead, SeqList).         *)
SeqSpec == List!SeqSpec

(* A value taken is one the firmware gave (Mailbox).                       *)
AnswersTaken == Box!AnswersTaken

(* The boot gets past the mailbox or panics (Mailbox).                     *)
BootAnswered == part = "mailbox" => Box!BootAnswered

(* The last lines printed can be read on the screen (FbConsole).           *)
RecentLinesShown == Fb!RecentLinesShown

(* Every character is sent once and in order (Uart).                       *)
OutputComplete == Serial!OutputComplete

(* Interrupted code goes on as it was, but for r0 (ArmTrap).               *)
ContextRestored == Arm!ContextRestored

(* "restore r0 to it's original value" (ArmTrap, alltraps.S:72).           *)
R0Restored == Arm!R0Restored
=============================================================================
