------------------------------ MODULE Mailbox ------------------------------
(***************************************************************************)
(* What the rpi2 kernel asks the VideoCore firmware while it boots: the    *)
(* mailbox and property calls of mach-rpi2/mailbox.c, and their callers    *)
(* rpi2_detect_memory and rpi2_fbdev_init with fbinit of fb.c.             *)
(*                                                                         *)
(* One static buffer carries every request and its answer; a mail only     *)
(* says that the other side should look at it.  The firmware runs beside   *)
(* the core, and is external, as are the two queues.  A value stands for   *)
(* the words of a tag: 0 for zeros, Odd for a memory base other than 0.    *)
(***************************************************************************)
EXTENDS Integers, Sequences

CONSTANTS
  Depth,       \* the mails a queue holds
  MaxStale,    \* the mails nobody asked for that may be there at the start
  Values,      \* the values of tags
  Odd,         \* the value of an ARM memory that does not start at 0
  MayIgnore    \* the tags the firmware may leave unanswered

VARIABLES
  mail1,       \* mails to the firmware
  mail0,       \* mails from the firmware
  buffer,      \* __property_buffer: its code, and each tag's type and value
  granted,     \* what the firmware answered, or did, for each tag
  answers,     \* the answers the firmware has yet to post
  request,     \* the number of the request the core is at
  pc,          \* where it is in ask_property
  info         \* arminfo, vcinfo, scrinfo and fb: the values taken

core == <<request, pc, info>>
vars == <<mail1, mail0, buffer, granted, answers, core>>

FbTags == {"SETDISPLAYSIZE", "SETBUFFERSIZE", "SETDEPTH", "ALLOCBUFFER"}
Requests == << {"ARMMEMORY"}, {"VCMEMORY"}, {"GETDISPLAYSIZE"}, FbTags, {"GETPITCH"} >>
Tags == UNION {Requests[i] : i \in DOMAIN Requests}

MailboxAssumption ==
  /\ Depth \in Nat /\ MaxStale \in 0 .. Depth
  /\ Values \subseteq Nat /\ {0, Odd} \subseteq Values /\ Odd # 0
  /\ MayIgnore \subseteq Tags

Init ==
  /\ mail1 = << >> /\ answers = 0
  /\ mail0 \in UNION {[1 .. n -> {"stale"}] : n \in 0 .. MaxStale}
  /\ buffer = [code |-> "request", tags |-> << >>]
  /\ granted = << >>
  /\ request = 1 /\ pc = "ask" /\ info = << >>

(* What the tag's words are when asked: the screen size for the sizes, and *)
(* for the buffer an alignment where the base goes and whatever the stack  *)
(* held where the size goes.  A get starts from the caller's memory.       *)
Asked(t) == IF t \in {"SETDISPLAYSIZE", "SETBUFFERSIZE"} THEN {info["GETDISPLAYSIZE"]}
            ELSE IF t = "SETDEPTH" THEN {1}
            ELSE Values

(* ask_property until the mail is written: the whole buffer first.         *)
FillBuffer ==
  /\ pc = "ask"
  /\ \E value \in [Requests[request] -> Values] :
       /\ \A t \in Requests[request] : value[t] \in Asked(t)
       /\ buffer' = [code |-> "request",
                     tags |-> [t \in Requests[request] |->
                                 [type |-> "request", value |-> value[t]]]]
  /\ pc' = "write"
  /\ UNCHANGED <<mail1, mail0, granted, answers, request, info>>

(* write_mailbox polls the state of the other queue until it is not full.  *)
WriteMailbox ==
  /\ pc = "write"
  /\ Len(mail0) < Depth
  /\ mail1' = IF Len(mail1) < Depth THEN Append(mail1, "property") ELSE mail1
  /\ pc' = "read"
  /\ UNCHANGED <<mail0, buffer, granted, answers, request, info>>

\* Slip: a mail that is no answer stays in the queue.
ReadMailboxOwn ==
  /\ pc = "read" /\ mail0 # << >>
  /\ Head(mail0) = "property"
  /\ mail0' = Tail(mail0)
  /\ pc' = "check"
  /\ UNCHANGED <<mail1, buffer, granted, answers, request, info>>
(* read_mailbox polls until there is a mail, and takes it, whosever it is. *)
ReadMailbox ==
  /\ pc = "read"
  /\ mail0 # << >>
  /\ mail0' = Tail(mail0)
  /\ pc' = "check"
  /\ UNCHANGED <<mail1, buffer, granted, answers, request, info>>

(* Does the call succeed: ask_property looks at the code, ask_property_tag *)
(* at the type of its tag, fbinit at the values.                           *)
Echoed ==
  /\ \A t \in FbTags \ {"ALLOCBUFFER"} : buffer.tags[t].value \in Asked(t)
  /\ buffer.tags["ALLOCBUFFER"].value # 0
\* Slip: nobody looks at the code.
SucceedsAnyCode ==
  IF Requests[request] = FbTags THEN Echoed
  ELSE \A t \in Requests[request] : buffer.tags[t].type = "response"
Succeeds ==
  /\ buffer.code = "success"
  /\ IF Requests[request] = FbTags THEN Echoed
     ELSE \A t \in Requests[request] : buffer.tags[t].type = "response"

(* assert(arminfo.base == 0), once both sizes are known.                   *)
MemoryAsserts == request = 2 => info["ARMMEMORY"] # Odd

(* The callers panic when a call fails.                                    *)
CheckAnswer ==
  /\ pc = "check"
  /\ IF Succeeds /\ MemoryAsserts
     THEN /\ info' = [t \in DOMAIN info \cup Requests[request] |->
                        IF t \in DOMAIN info THEN info[t] ELSE buffer.tags[t].value]
          /\ request' = request + 1
          /\ pc' = IF request = Len(Requests) THEN "booted" ELSE "ask"
     ELSE pc' = "panic" /\ UNCHANGED <<request, info>>
  /\ UNCHANGED <<mail1, mail0, buffer, granted, answers>>

-----------------------------------------------------------------------------
(* The firmware.                                                           *)

Serve ==
  /\ mail1 # << >>
  /\ mail1' = Tail(mail1)
  /\ answers' = answers + 1
  /\ \E answered \in SUBSET DOMAIN buffer.tags, value \in [DOMAIN buffer.tags -> Values],
        code \in {"success", "error"} :
       /\ code = "success" => DOMAIN buffer.tags \ answered \subseteq MayIgnore
       /\ buffer' = [code |-> code,
                     tags |-> [t \in DOMAIN buffer.tags |->
                                 IF t \in answered THEN [type |-> "response", value |-> value[t]]
                                 ELSE buffer.tags[t]]]
       /\ granted' = [t \in DOMAIN granted \cup answered |->
                        IF t \in answered THEN value[t] ELSE granted[t]]
  /\ UNCHANGED <<mail0, core>>

Post ==
  /\ answers > 0 /\ Len(mail0) < Depth
  /\ answers' = answers - 1
  /\ mail0' = Append(mail0, "property")
  /\ UNCHANGED <<mail1, buffer, granted, core>>

(* One more turn of a polling loop changes nothing.                        *)
Polls == pc \in {"write", "read"} /\ UNCHANGED vars
Stopped == pc \in {"booted", "panic"} /\ UNCHANGED vars

Core == FillBuffer \/ WriteMailbox \/ ReadMailbox \/ CheckAnswer
Next == Core \/ Serve \/ Post \/ Polls \/ Stopped

Spec == Init /\ [][Next]_vars
Fairness == WF_vars(Core) /\ WF_vars(Serve) /\ WF_vars(Post)
FairSpec == Spec /\ Fairness

-----------------------------------------------------------------------------
(* Every value the kernel took is one the firmware answered for that tag,  *)
(* although mails nobody asked for make it look at the buffer too early    *)
(* and the buffer is the same for every request; and the core never fills  *)
(* the buffer while the firmware has yet to read it.                       *)
AnswersTaken ==
  /\ \A t \in DOMAIN info : t \in DOMAIN granted /\ info[t] = granted[t]
  /\ pc = "ask" => mail1 = << >>

(* With a firmware that answers, the boot gets past the mailbox or panics, *)
(* unless the queue it answers through is full of old mails when the boot  *)
(* begins: then write_mailbox, which waits for room in that queue and not  *)
(* in the one it writes to, polls for ever, and nothing is asked.          *)
BootAnswered ==
  /\ Len(mail0) < Depth => <>(pc \in {"booted", "panic"})
  /\ Len(mail0) = Depth => <>[](pc = "write" /\ mail1 = << >>)
=============================================================================
