--------------------------- MODULE ConsoleProofs ---------------------------
(***************************************************************************)
(* Console output is whole messages, for any number of cores, message      *)
(* length and number of prints: the lock excludes from the moment the cores*)
(* are awake, the boot order excludes before, and set_console never clears *)
(* a lock that is in use.                                                  *)
(***************************************************************************)
EXTENDS Console, TLAPS, SequenceTheorems

-----------------------------------------------------------------------------
(* The spinlock excludes, for any set of cores.                            *)

(* IInv is inductive.  TagMeansUnchanged is what makes it so: a core whose *)
(* tag survives may trust the 0 it read, hence finds nobody in the lock.   *)
LEMMA LockInit == Init => IInv
BY DEF Init, IInv, TypeOK, MutualExclusion, LockedMeansHeld, TagMeansUnchanged, Held, NoTags

LEMMA LockStep == IInv /\ [Next]_lockVars => IInv'
<1> SUFFICES ASSUME IInv, [Next]_lockVars PROVE IInv'
  OBVIOUS
<1> USE DEF IInv, TypeOK, MutualExclusion, LockedMeansHeld, TagMeansUnchanged, Held
<1>1. ASSUME NEW c \in Cores, Call(c) PROVE IInv'
  BY <1>1 DEF Call, Goto
<1>2. ASSUME NEW c \in Cores, Ldrex(c) PROVE IInv'
  BY <1>2 DEF Ldrex, Goto
<1>3. ASSUME NEW c \in Cores, Strex(c) PROVE IInv'
  <2>1. locked = 0 /\ \A d \in Cores : pc[d] # "held"
    BY <1>3 DEF Strex, Goto
  <2> QED BY <1>3, <2>1 DEF Strex, Goto, NoTags
<1>4. ASSUME NEW c \in Cores, Retry(c) PROVE IInv'
  BY <1>4 DEF Retry, Goto
<1>5. ASSUME NEW c \in Cores, Unlock(c) PROVE IInv'
  BY <1>5 DEF Unlock, Goto, NoTags
<1>6. ASSUME NEW c \in Cores, LoseTag(c) PROVE IInv'
  BY <1>6 DEF LoseTag
<1>7. CASE UNCHANGED lockVars
  BY <1>7 DEF lockVars
<1> QED BY <1>1, <1>2, <1>3, <1>4, <1>5, <1>6, <1>7 DEF Next

LEMMA Inductive == Spec => []IInv
BY LockInit, LockStep, PTL DEF Spec

(* No two cores are ever between spin_lock and spin_unlock together.       *)
THEOREM SpinLockExcludes == Spec => []MutualExclusion
BY Inductive, PTL DEF IInv

(* The lock word is 1 exactly while some core is inside, so no core spins  *)
(* on a lock that nobody will release.                                     *)
THEOREM NoPhantomHolder == Spec => []LockedMeansHeld
BY Inductive, PTL DEF IInv

SeenOfLock == <<Spinning, Holders>>

LEMMA LockStepRefines == IInv /\ [Next]_lockVars => [Promised!OneMoves]_SeenOfLock
<1> SUFFICES ASSUME IInv, [Next]_lockVars PROVE [Promised!OneMoves]_SeenOfLock
  OBVIOUS
<1> USE DEF IInv, TypeOK, LockedMeansHeld, TagMeansUnchanged, Held
<1>1. ASSUME NEW c \in Cores, Call(c) PROVE Promised!Ask(c)
  BY <1>1 DEF Call, Goto, Promised!Ask, Spinning, Holders
<1>2. ASSUME NEW c \in Cores, Strex(c) PROVE Promised!Enter(c)
  <2>1. Holders = {}
    BY <1>2 DEF Strex, Goto, Holders
  <2>2. Holders' = {c}
    BY <1>2, <2>1 DEF Strex, Goto, Holders
  <2>3. c \in Spinning /\ Spinning' = Spinning \ {c}
    BY <1>2 DEF Strex, Goto, Spinning
  <2> QED BY <2>1, <2>2, <2>3 DEF Promised!Enter
<1>3. ASSUME NEW c \in Cores, Unlock(c) PROVE Promised!Leave(c)
  BY <1>3 DEF Unlock, Goto, Promised!Leave, Spinning, Holders
<1>4. ASSUME NEW c \in Cores, Ldrex(c) \/ Retry(c) \/ LoseTag(c)
      PROVE  UNCHANGED SeenOfLock
  BY <1>4 DEF Ldrex, Retry, LoseTag, Goto, SeenOfLock, Spinning, Holders
<1>5. CASE UNCHANGED lockVars
  BY <1>5 DEF lockVars, SeenOfLock, Spinning, Holders
<1> QED BY <1>1, <1>2, <1>3, <1>4, <1>5 DEF Next, Promised!OneMoves

LEMMA LockInitRefines == Init => Promised!Empty
BY DEF Init, Promised!Empty, Spinning, Holders, Held

(* Every step of the spinlock is a step that Exclusion allows, or one it   *)
(* cannot see.                                                             *)
THEOREM SpinLockRefinesLock == Spec => LockSpec
BY LockInitRefines, LockStepRefines, Inductive, PTL DEF Spec, LockSpec, Promised!Promise, SeenOfLock

-----------------------------------------------------------------------------
(* The inductive invariant.                                                *)

(* The boot core runs alone until it has jumped and initialised the lock   *)
(* for the last time.                                                      *)
BootOrder ==
  /\ phase[BootCore] \in {"reset", "low", "high"}
  /\ \A c \in Cores \ {BootCore} :
       /\ phase[c] \in {"off", "low", "high"}
       /\ phase[c] # "off" => phase[BootCore] = "high"

(* Where a core is in kputs decides where it is in the lock; without the   *)
(* lock only the boot core prints, and only before its jump.               *)
Uses(c) ==
  \/ io[c] = "idle" /\ pc[c] = "out"
  \/ io[c] = "locking" /\ phase[c] = "high" /\ pc[c] \in {"ldrex", "strex"} /\ left[c] = StrLen
  \/ io[c] = "putting" /\ phase[c] = "high" /\ pc[c] = "held"
  \/ io[c] = "putting" /\ phase[c] = "low" /\ c = BootCore /\ pc[c] = "out"
KputsFollowsLock == \A c \in Cores : Uses(c)

(* A core in the middle of a message put the last character there is.      *)
Open(c) == io[c] = "putting" /\ left[c] < StrLen
OpenIsLast ==
  \A c \in Cores : Open(c) =>
    /\ out # << >>
    /\ out[Len(out)] = [core |-> c, phase |-> phase[c], msg |-> prints[c], char |-> StrLen - left[c]]

CInv == IInv /\ MessagesContiguous /\ BootOrder /\ KputsFollowsLock /\ OpenIsLast

(* Whoever is putting characters is alone.                                 *)
LEMMA OnePutting ==
  ASSUME CInv, NEW c \in Cores, NEW d \in Cores, io[c] = "putting", io[d] = "putting"
  PROVE  c = d
<1>1. Uses(c) /\ Uses(d)
  BY DEF CInv, KputsFollowsLock
<1>2. CASE phase[c] = "high" /\ phase[d] = "high"
  BY <1>1, <1>2 DEF Uses, CInv, IInv, MutualExclusion, Held
<1>3. CASE phase[c] = "low" \/ phase[d] = "low"
  BY <1>1, <1>3 DEF Uses, CInv, BootOrder
<1> QED BY <1>1, <1>2, <1>3 DEF Uses

LEMMA ConsoleInit == CInit => CInv
<1> SUFFICES ASSUME CInit PROVE CInv
  OBVIOUS
<1> USE DEF CInit
<1>1. IInv
  BY LockInit
<1>2. /\ \A c \in Cores : io[c] = "idle" /\ left[c] = 0 /\ prints[c] = 0
      /\ out = << >> /\ losses = 0
      /\ phase[BootCore] = "reset" /\ \A c \in Cores \ {BootCore} : phase[c] = "off"
  BY ConsoleAssumption
<1>3. CTypeOK
  BY <1>1, <1>2, ConsoleAssumption DEF CTypeOK, IInv
<1>4. MessagesContiguous
  BY <1>2, <1>3 DEF MessagesContiguous
<1>5. BootOrder /\ OpenIsLast
  BY <1>2 DEF BootOrder, OpenIsLast, Open
<1>6. KputsFollowsLock
  BY <1>2 DEF KputsFollowsLock, Uses, Init
<1> QED BY <1>1, <1>4, <1>5, <1>6 DEF CInv

-----------------------------------------------------------------------------
(* What set_console meets: nobody but the boot core awake, and it idle.    *)
LEMMA QuietBoot ==
  ASSUME CInv, phase[BootCore] \in {"reset", "low"}, Idle(BootCore)
  PROVE  \A c \in Cores : Idle(c) /\ ~Held(c)
<1> SUFFICES ASSUME NEW c \in Cores PROVE Idle(c) /\ ~Held(c)
  OBVIOUS
<1>1. Uses(c) /\ Uses(BootCore)
  BY ConsoleAssumption DEF CInv, KputsFollowsLock
<1>2. CASE c = BootCore
  BY <1>1, <1>2 DEF Uses, Idle, Held
<1>3. CASE c # BootCore
  BY <1>1, <1>3 DEF Uses, Idle, Held, CInv, BootOrder
<1> QED BY <1>2, <1>3

LEMMA SetConsoleKeeps ==
  ASSUME IInv, SetConsole, \A c \in Cores : ~Held(c)
  PROVE  IInv'
BY DEF IInv, SetConsole, TypeOK, MutualExclusion, LockedMeansHeld, TagMeansUnchanged, Held, NoTags

(* Every step of the console is a step of its lock, or leaves it alone, or *)
(* initialises it while nobody is in it.                                   *)
LEMMA LockUse ==
  ASSUME CInv, [CNext]_consoleVars
  PROVE  \/ [Next]_lockVars
         \/ SetConsole /\ \A c \in Cores : ~Held(c)
<1>1. ASSUME NEW c \in Cores, KputsEOF(c) \/ CoreStep(c) \/ StartSlave(c) \/ DropTag(c)
      PROVE  [Next]_lockVars
  BY <1>1 DEF KputsEOF, CoreStep, KputsEnter, KputsLock, Putchar, KputsReturn, SlaveJump,
              StartSlave, DropTag, Next
<1>2. CASE EarlyConsoleInit \/ MasterJump
  BY <1>2, QuietBoot DEF EarlyConsoleInit, MasterJump
<1>3. CASE Done \/ UNCHANGED consoleVars
  BY <1>3 DEF Done, consoleVars, lockVars
<1> QED BY <1>1, <1>2, <1>3 DEF CNext

LEMMA LockKept == ASSUME CInv, [CNext]_consoleVars PROVE IInv'
BY LockUse, LockStep, SetConsoleKeeps DEF CInv

-----------------------------------------------------------------------------
(* The steps.                                                              *)

(* Nothing of a message is put or lost.                                    *)
LEMMA OutKept ==
  ASSUME CInv, CTypeOK', UNCHANGED out
  PROVE  MessagesContiguous'
BY DEF CInv, MessagesContiguous

LEMMA TypesKept ==
  ASSUME CTypeOK, IInv', UNCHANGED <<out, losses>>,
         phase' \in [Cores -> {"off", "reset", "low", "high"}],
         io' \in [Cores -> {"idle", "locking", "putting"}],
         left' \in [Cores -> 0 .. StrLen],
         prints' \in [Cores -> Nat]
  PROVE  CTypeOK'
BY DEF CTypeOK, IInv

(* A step of core c that finishes no message keeps the open one last.      *)
LEMMA OpenKept ==
  ASSUME CInv, UNCHANGED out,
         \A c \in Cores : Open(c)' => Open(c) /\ left'[c] = left[c] /\ phase'[c] = phase[c] /\ prints'[c] = prints[c]
  PROVE  OpenIsLast'
BY DEF CInv, OpenIsLast

LEMMA EOFStep == ASSUME CInv, NEW c \in Cores, KputsEOF(c), IInv' PROVE CInv'
<1> USE DEF KputsEOF, lockVars
<1>1. CTypeOK'
  BY DEF CInv, MessagesContiguous, CTypeOK, IInv
<1>2. OpenIsLast'
  <2>1. ~Open(c)
    BY DEF MayPrint, Idle, Open
  <2>2. \A d \in Cores : d # c => prints'[d] = prints[d]
    BY DEF CInv, MessagesContiguous, CTypeOK
  <2> QED BY <2>1, <2>2, OpenKept DEF Open
<1>3. BootOrder' /\ KputsFollowsLock'
  BY DEF CInv, BootOrder, KputsFollowsLock, Uses
<1> QED BY <1>1, <1>2, <1>3, OutKept DEF CInv

LEMMA EnterStep == ASSUME CInv, NEW c \in Cores, KputsEnter(c), IInv' PROVE CInv'
<1> USE DEF KputsEnter, lockVars, bootVars
<1>0. CTypeOK /\ Uses(c) /\ io[c] = "idle" /\ StrLen \in Nat
  BY ConsoleAssumption DEF CInv, MessagesContiguous, KputsFollowsLock, MayPrint, Idle
<1>1. CTypeOK'
  <2>1. left \in [Cores -> 0 .. StrLen] /\ io \in [Cores -> {"idle", "locking", "putting"}]
    BY <1>0 DEF CTypeOK
  <2>2. left' \in [Cores -> 0 .. StrLen]
    BY <1>0, <2>1
  <2>3. io' \in [Cores -> {"idle", "locking", "putting"}]
    BY <2>1
  <2> QED BY <1>0, <2>1, <2>2, <2>3, TypesKept DEF CTypeOK
<1>2. OpenIsLast'
  <2>1. ~Open(c) /\ ~Open(c)'
    BY <1>0 DEF Open, CTypeOK
  <2>2. \A d \in Cores : d # c => io'[d] = io[d] /\ left'[d] = left[d]
    BY <1>0 DEF CTypeOK
  <2> QED BY <2>1, <2>2, OpenKept DEF Open
<1>3. BootOrder'
  BY DEF CInv, BootOrder
<1>4. KputsFollowsLock'
  <2>1. ASSUME NEW d \in Cores, d # c PROVE Uses(d)'
    <3>1. io'[d] = io[d] /\ left'[d] = left[d] /\ pc'[d] = pc[d]
      BY <1>0, <2>1 DEF CTypeOK, Call, Goto, TypeOK
    <3> QED BY <3>1 DEF CInv, KputsFollowsLock, Uses
  <2>2. Uses(c)'
    BY <1>0 DEF Uses, CTypeOK, TypeOK, Call, Goto, ShouldLock
  <2> QED BY <2>1, <2>2 DEF KputsFollowsLock
<1> QED BY <1>1, <1>2, <1>3, <1>4, OutKept DEF CInv

LEMMA LockWaitStep == ASSUME CInv, NEW c \in Cores, KputsLock(c), IInv' PROVE CInv'
<1> USE DEF KputsLock, bootVars
<1>0. CTypeOK /\ Uses(c) /\ io[c] = "locking" /\ phase[c] = "high" /\ left[c] = StrLen /\ StrLen \in Nat
  BY ConsoleAssumption DEF CInv, MessagesContiguous, KputsFollowsLock, Uses
<1>1. CTypeOK'
  BY <1>0 DEF CTypeOK, IInv
<1>2. OpenIsLast'
  <2>1. ~Open(c) /\ ~Open(c)'
    BY <1>0 DEF Open
  <2>2. \A d \in Cores : d # c => io'[d] = io[d]
    BY <1>0 DEF CTypeOK
  <2> QED BY <2>1, <2>2, OpenKept DEF Open
<1>3. BootOrder'
  BY DEF CInv, BootOrder
<1>4. KputsFollowsLock'
  <2>1. ASSUME NEW d \in Cores, d # c PROVE Uses(d)'
    <3>1. io'[d] = io[d] /\ pc'[d] = pc[d]
      BY <1>0, <2>1 DEF CTypeOK, Ldrex, Retry, Strex, Goto, TypeOK
    <3> QED BY <3>1 DEF CInv, KputsFollowsLock, Uses
  <2>2. Uses(c)'
    BY <1>0 DEF Uses, CTypeOK, TypeOK, Ldrex, Retry, Strex, Goto
  <2> QED BY <2>1, <2>2 DEF KputsFollowsLock
<1> QED BY <1>1, <1>2, <1>3, <1>4, OutKept DEF CInv

LEMMA ReturnStep == ASSUME CInv, NEW c \in Cores, KputsReturn(c), IInv' PROVE CInv'
<1> USE DEF KputsReturn, lockVars
<1>0. CTypeOK /\ Uses(c) /\ io[c] = "putting"
  BY DEF CInv, MessagesContiguous, KputsFollowsLock
<1>1. CTypeOK'
  <2>1. prints' \in [Cores -> Nat] /\ io' \in [Cores -> {"idle", "locking", "putting"}]
    BY <1>0 DEF CTypeOK
  <2> QED BY <1>0, <2>1, TypesKept DEF CTypeOK
<1>2. OpenIsLast'
  <2>1. ~Open(c)'
    BY <1>0 DEF Open, CTypeOK
  <2>2. \A d \in Cores : d # c => io'[d] = io[d] /\ prints'[d] = prints[d]
    BY <1>0 DEF CTypeOK
  <2> QED BY <2>1, <2>2, OpenKept DEF Open
<1>3. BootOrder'
  BY DEF CInv, BootOrder
<1>4. KputsFollowsLock'
  <2>1. ASSUME NEW d \in Cores, d # c PROVE Uses(d)'
    <3>1. io'[d] = io[d] /\ pc'[d] = pc[d]
      BY <1>0, <2>1 DEF CTypeOK, Unlock, Goto, TypeOK
    <3> QED BY <3>1 DEF CInv, KputsFollowsLock, Uses
  <2>2. Uses(c)'
    BY <1>0 DEF Uses, CTypeOK, TypeOK, Unlock, Goto, ShouldLock
  <2> QED BY <2>1, <2>2 DEF KputsFollowsLock
<1> QED BY <1>1, <1>2, <1>3, <1>4, OutKept DEF CInv

(* Putting a character: it starts a message, or continues the last one.    *)
LEMMA PutcharStep == ASSUME CInv, NEW c \in Cores, Putchar(c), IInv' PROVE CInv'
<1> USE DEF Putchar, lockVars, bootVars
<1> DEFINE e == [core |-> c, phase |-> phase[c], msg |-> prints[c], char |-> StrLen - left[c] + 1]
           C == [core : Cores, phase : {"low", "high"}, msg : Nat, char : 1 .. StrLen]
<1>0. CTypeOK /\ Uses(c) /\ io[c] = "putting" /\ left[c] \in 1 .. StrLen /\ StrLen \in Nat
      /\ phase[c] \in {"low", "high"} /\ left'[c] = left[c] - 1 /\ out' = Append(out, e)
  BY ConsoleAssumption DEF CInv, MessagesContiguous, KputsFollowsLock, CTypeOK, Uses
<1>1. e \in C
  BY <1>0 DEF CTypeOK
<1>2. /\ out \in Seq(C) /\ out' \in Seq(C) /\ Len(out) \in Nat
      /\ Len(out') = Len(out) + 1
      /\ out'[Len(out) + 1] = e
      /\ \A n \in 1 .. Len(out) : out'[n] = out[n]
      /\ DOMAIN out = 1 .. Len(out) /\ DOMAIN out' = 1 .. Len(out) + 1
  <2>1. out \in Seq(C)
    BY <1>0 DEF CTypeOK
  <2> HIDE DEF e, C
  <2> QED BY <1>0, <1>1, <2>1, AppendProperties, LenProperties
<1>3. CTypeOK'
  <2>1. left' \in [Cores -> 0 .. StrLen]
    BY <1>0 DEF CTypeOK
  <2> HIDE DEF e
  <2> QED BY <1>0, <1>2, <2>1 DEF CTypeOK, IInv
<1>4. MessagesContiguous'
  <2>1. ASSUME NEW n \in 1 .. Len(out) + 1, out'[n].char > 1
        PROVE  n > 1 /\ out'[n - 1] = [out'[n] EXCEPT !.char = @ - 1]
    <3>1. CASE n <= Len(out)
      <4>1. n \in DOMAIN out /\ out'[n] = out[n]
        BY <1>2, <3>1
      <4>2. n > 1 /\ out[n - 1] = [out[n] EXCEPT !.char = @ - 1]
        BY <2>1, <4>1 DEF CInv, MessagesContiguous
      <4>3. n - 1 \in 1 .. Len(out)
        BY <1>2, <3>1, <4>2
      <4> QED BY <1>2, <4>1, <4>2, <4>3
    <3>2. CASE n = Len(out) + 1
      <4>1. left[c] < StrLen
        BY <1>0, <1>2, <2>1, <3>2
      <4>2. out # << >> /\ out[Len(out)] = [core |-> c, phase |-> phase[c], msg |-> prints[c], char |-> StrLen - left[c]]
        BY <1>0, <4>1 DEF CInv, OpenIsLast, Open
      <4>3. Len(out) # 0
        BY <1>2, <4>2, EmptySeq
      <4>4. [e EXCEPT !.char = @ - 1] = [core |-> c, phase |-> phase[c], msg |-> prints[c], char |-> StrLen - left[c]]
        BY <1>0
      <4>5. n > 1 /\ n - 1 = Len(out) /\ out'[n - 1] = out[Len(out)]
        <5> DEFINE m == Len(out)
        <5>1. m \in Nat /\ m # 0 /\ n = m + 1 /\ \A k \in 1 .. m : out'[k] = out[k]
          BY <1>2, <3>2, <4>3
        <5> HIDE DEF m, Putchar
        <5>2. n > 1 /\ n - 1 = m /\ m \in 1 .. m
          BY <5>1
        <5> QED BY <5>1, <5>2 DEF m
      <4> HIDE DEF e
      <4> QED BY <1>2, <3>2, <4>2, <4>4, <4>5
    <3>3. n <= Len(out) \/ n = Len(out) + 1
      <4> HIDE DEF Putchar
      <4> QED BY <1>2
    <3> QED BY <3>1, <3>2, <3>3
  <2> QED BY <1>2, <1>3, <2>1 DEF MessagesContiguous
<1>5. OpenIsLast'
  <2>1. ASSUME NEW d \in Cores, Open(d)' PROVE d = c
    BY <1>0, <2>1, OnePutting DEF Open
  <2>2. out' # << >>
    BY <1>2, EmptySeq
  <2>3. out'[Len(out')] = e /\ StrLen - left'[c] = StrLen - left[c] + 1
    <3> HIDE DEF e
    <3> QED BY <1>0, <1>2
  <2> QED BY <2>1, <2>2, <2>3 DEF OpenIsLast
<1>6. BootOrder'
  BY DEF CInv, BootOrder
<1>7. KputsFollowsLock'
  <2>1. ASSUME NEW d \in Cores PROVE Uses(d)'
    <3>1. d = c \/ left'[d] = left[d]
      BY <1>0 DEF CTypeOK
    <3> QED BY <1>0, <3>1 DEF CInv, KputsFollowsLock, Uses
  <2> QED BY <2>1 DEF KputsFollowsLock
<1> QED BY <1>4, <1>5, <1>6, <1>7 DEF CInv

(* The boot steps, and a tag that is lost: no one's output changes.        *)
LEMMA BootStep ==
  ASSUME CInv, IInv',
         \/ EarlyConsoleInit \/ MasterJump
         \/ \E c \in Cores : StartSlave(c) \/ SlaveJump(c) \/ DropTag(c)
  PROVE  CInv'
<1>0. CTypeOK /\ BootOrder /\ BootCore \in Cores
  BY ConsoleAssumption DEF CInv, MessagesContiguous
<1>1. ASSUME EarlyConsoleInit \/ MasterJump PROVE CInv'
  <2> USE <1>1 DEF EarlyConsoleInit, MasterJump, SetConsole
  <2>1. \A c \in Cores : Idle(c)
    BY QuietBoot
  <2>2. CTypeOK'
    <3>1. prints \in [Cores -> Nat] /\ phase \in [Cores -> {"off", "reset", "low", "high"}]
      BY <1>0 DEF CTypeOK
    <3>2. prints' \in [Cores -> Nat]
      BY <1>0, <3>1
    <3>3. phase' \in [Cores -> {"off", "reset", "low", "high"}]
      BY <1>0, <3>1
    <3> QED BY <1>0, <3>2, <3>3, TypesKept DEF CTypeOK
  <2>3. OpenIsLast'
    BY <2>1 DEF OpenIsLast, Open, Idle
  <2>4. BootOrder'
    BY <1>0 DEF CTypeOK, BootOrder
  <2>5. KputsFollowsLock'
    BY <2>1 DEF CInv, KputsFollowsLock, Uses, Idle
  <2> QED BY <2>2, <2>3, <2>4, <2>5, OutKept DEF CInv
<1>2. ASSUME NEW c \in Cores, StartSlave(c) \/ SlaveJump(c) PROVE CInv'
  <2> USE <1>2 DEF StartSlave, SlaveJump, lockVars
  <2>1. c # BootCore /\ phase[c] \in {"off", "low"} /\ io[c] = "idle"
    BY <1>0 DEF BootOrder, CInv, KputsFollowsLock, Uses
  <2>2. CTypeOK'
    BY <1>0 DEF CTypeOK, IInv
  <2>3. \A d \in Cores : d # c => phase'[d] = phase[d]
    BY <1>0 DEF CTypeOK
  <2>4. OpenIsLast'
    BY <2>1, <2>3, OpenKept DEF Open
  <2>5. BootOrder'
    BY <1>0, <2>1, <2>3 DEF CTypeOK, BootOrder
  <2>6. KputsFollowsLock'
    BY <2>1, <2>3 DEF CInv, KputsFollowsLock, Uses
  <2> QED BY <2>2, <2>4, <2>5, <2>6, OutKept DEF CInv
<1>3. ASSUME NEW c \in Cores, DropTag(c) PROVE CInv'
  <2> USE <1>3 DEF DropTag, LoseTag
  <2>1. CTypeOK'
    BY <1>0, ConsoleAssumption DEF CTypeOK, IInv
  <2>2. OpenIsLast' /\ BootOrder' /\ KputsFollowsLock'
    BY DEF CInv, OpenIsLast, Open, BootOrder, KputsFollowsLock, Uses
  <2> QED BY <2>1, <2>2, OutKept DEF CInv
<1> QED BY <1>1, <1>2, <1>3

LEMMA ConsoleStep == CInv /\ [CNext]_consoleVars => CInv'
<1> SUFFICES ASSUME CInv, [CNext]_consoleVars PROVE CInv'
  OBVIOUS
<1>1. IInv'
  BY LockKept
<1>2. CASE UNCHANGED consoleVars
  BY <1>1, <1>2 DEF consoleVars, CInv, MessagesContiguous, CTypeOK, TypeOK, BootOrder, KputsFollowsLock,
                    Uses, OpenIsLast, Open
<1>3. CASE Done
  BY <1>2, <1>3 DEF Done
<1> QED BY <1>1, <1>2, <1>3, EOFStep, EnterStep, LockWaitStep, PutcharStep, ReturnStep, BootStep
        DEF CNext, CoreStep

LEMMA ConsoleInvariant == CSpec => []CInv
BY ConsoleInit, ConsoleStep, PTL DEF CSpec

(* Whichever cores print and whenever the boot core jumps and starts them, *)
(* no two are between spin_lock and spin_unlock together: initialising the *)
(* lock over and over does not open it.                                    *)
THEOREM ConsoleExcludes == CSpec => []MutualExclusion
BY ConsoleInvariant, PTL DEF CInv, IInv

(* The characters of a message reach the console together.                 *)
THEOREM ConsoleMessagesContiguous == CSpec => []MessagesContiguous
BY ConsoleInvariant, PTL DEF CInv

(* set_console clears the lock only while no core is in kputs.             *)
THEOREM ConsoleIsSetWhenIdle == CSpec => ConsoleSetWhenIdle
<1>1. CInv /\ [CNext]_consoleVars =>
        [EarlyConsoleInit \/ MasterJump => \A c \in Cores : Idle(c) /\ ~Held(c)]_consoleVars
  BY QuietBoot DEF EarlyConsoleInit, MasterJump
<1> QED BY <1>1, ConsoleInvariant, PTL DEF CSpec, ConsoleSetWhenIdle

(* The console's lock, initialised as often as it is, keeps the promise of *)
(* Exclusion.                                                              *)
THEOREM ConsoleRefinesLock == CSpec => LockSpec
<1>1. CInit => Promised!Empty
  BY LockInitRefines DEF CInit
<1>2. CInv /\ [CNext]_consoleVars => [Promised!OneMoves]_SeenOfLock
  <2> SUFFICES ASSUME CInv, [CNext]_consoleVars PROVE [Promised!OneMoves]_SeenOfLock
    OBVIOUS
  <2>1. CASE [Next]_lockVars
    BY <2>1, LockStepRefines DEF CInv
  <2>2. CASE SetConsole
    BY <2>2 DEF SetConsole, SeenOfLock, Spinning, Holders, Held
  <2> QED BY <2>1, <2>2, LockUse
<1> QED BY <1>1, <1>2, ConsoleInvariant, PTL DEF CSpec, LockSpec, Promised!Promise, SeenOfLock
=============================================================================
