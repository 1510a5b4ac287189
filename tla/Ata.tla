-------------------------------- MODULE Ata --------------------------------
(***************************************************************************)
(* The ATA disk driver (include/drivers/ATA/ATA.hpp) between the           *)
(* processor that runs it, the millisecond timer it measures its waits     *)
(* with (src/timer/timer.cpp, src/io/io.cpp) and a drive.                  *)
(*                                                                         *)
(* ATA::init runs in the boot code, after `sti` (kernel/kernel.cpp).  Every *)
(* other disk access is made by a shell command, and shell commands run    *)
(* inside the keyboard interrupt (drivers/keyboard/keyboard.cpp), whose    *)
(* gate keeps all interrupts off: the timer does not advance there.        *)
(*                                                                         *)
(* The drive is external: what is modelled is the command block protocol   *)
(* the driver relies on.  Sector contents are left out; which command and  *)
(* which sector a transfer belongs to are not.                             *)
(***************************************************************************)
EXTENDS Naturals

CONSTANTS
  TIMEOUT,    \* DEFAULT_ATA_TIMEOUT: 1000 ticks in the code
  MAX_LBA,    \* 0x0FFFFFFF in the code
  Lbas,       \* the sectors callers ask for, in range or not
  Drives      \* what may be on the bus: "disk", "absent", "floating"

ASSUME AtaAssumption ==
  /\ TIMEOUT \in Nat \ {0} /\ MAX_LBA \in Nat
  /\ Lbas \subseteq Nat
  /\ Drives \subseteq {"disk", "absent", "floating"}

VARIABLES
  pc,        \* where the processor is
  masked,    \* interrupts are off
  timer,     \* localTimer, up to TIMEOUT
  op, lba,   \* the running read28 or write28
  status,    \* init's local: the status byte it read last
  found,     \* device_found
  identity,  \* identity_buf holds a drive's answer to IDENTIFY
  drive,     \* what is on the bus
  sr,        \* the status register, a set of flags; {} is the byte 0
  cmd,       \* the command the drive works on, or "none"
  reg        \* the registers that hold a sector's address

driver == <<pc, masked, timer, op, lba, status, found, identity>>
device == <<drive, sr, cmd, reg>>
vars == <<driver, device>>

Flags == {"RDY", "BSY", "DRQ", "ERR", "DF"}

Commands == {"identify", "read", "write", "commit", "flush"}

\* The ports a sector's address is written to, and the part written to each.
Ports == {"head", "low", "mid", "high"}

Part(l, port) ==
  CASE port = "head" -> (l \div 2^24) % 16
    [] port = "low"  -> l % 256
    [] port = "mid"  -> (l \div 2^8) % 256
    [] port = "high" -> (l \div 2^16) % 256

-----------------------------------------------------------------------------
(* The drive. *)

\* A drive with a command in progress, or waiting for its data to be moved,
\* takes neither a command nor a register write.
Listening == drive = "disk" /\ "BSY" \notin sr /\ "DRQ" \notin sr

\* The processor writes command c to ATA_CMD_PORT.
Send(c) ==
  IF Listening THEN cmd' = c /\ sr' = {"BSY"} ELSE UNCHANGED <<cmd, sr>>

\* The drive has, or wants, the data of the command it was given.
DriveAsksTransfer ==
  /\ "BSY" \in sr /\ cmd \in {"identify", "read", "write"}
  /\ sr' = {"RDY", "DRQ"}
  /\ UNCHANGED <<driver, drive, cmd, reg>>

\* Written data has reached the medium, or the cache has been flushed.
DriveFinishes ==
  /\ "BSY" \in sr /\ cmd \in {"commit", "flush"}
  /\ sr' = {"RDY"} /\ cmd' = "none"
  /\ UNCHANGED <<driver, drive, reg>>

DriveFails ==
  /\ "BSY" \in sr /\ cmd # "none"
  /\ \E flag \in {"ERR", "DF"} : sr' = {"RDY", flag}
  /\ cmd' = "none"
  /\ UNCHANGED <<driver, drive, reg>>

DriveStep == DriveAsksTransfer \/ DriveFinishes \/ DriveFails

\* 256 words have been moved through ATA_DATA_PORT.
MoveWords ==
  IF "DRQ" \in sr /\ cmd = "write"
  THEN cmd' = "commit" /\ sr' = {"BSY"}
  ELSE IF "DRQ" \in sr /\ drive = "disk"
  THEN cmd' = "none" /\ sr' = {"RDY"}
  ELSE UNCHANGED <<cmd, sr>>

-----------------------------------------------------------------------------
Init ==
  /\ pc = "reset" /\ masked = TRUE
  /\ timer = 0 /\ op = "read" /\ lba = 0 /\ status = {}
  /\ found = FALSE /\ identity = FALSE
  /\ drive \in Drives
  /\ sr = CASE drive = "disk"     -> {"RDY"}
            [] drive = "absent"   -> {}
            [] drive = "floating" -> Flags
  /\ cmd = "none" /\ reg = [p \in Ports |-> 0]

\* Mutation: the boot code never executes sti.
EnableInterruptsNever ==
  /\ pc = "reset" /\ pc' = "identify"
  /\ UNCHANGED <<masked, timer, op, lba, status, found, identity, device>>

\* kernel.cpp reaches its `sti`, before the disk is looked for.
EnableInterrupts ==
  /\ pc = "reset" /\ pc' = "identify"
  /\ masked' = FALSE
  /\ UNCHANGED <<timer, op, lba, status, found, identity, device>>

\* irq_handler, case 0.
Tick ==
  /\ ~masked /\ timer < TIMEOUT
  /\ timer' = timer + 1
  /\ UNCHANGED <<pc, masked, op, lba, status, found, identity, device>>

\* ATA::init selects the drive and asks who it is.  One step: the drive has
\* no command to work on before.
SendIdentify ==
  /\ pc = "identify" /\ pc' = "status"
  /\ reg' = IF Listening THEN [p \in Ports |-> 0] ELSE reg
  /\ Send("identify")
  /\ UNCHANGED <<masked, timer, op, lba, status, found, identity, drive>>

BootDone(ok) == found' = ok /\ pc' = "idle"

\* A status of 0: nothing on the bus.
NoDrive ==
  /\ pc = "status" /\ sr = {}
  /\ status' = sr
  /\ BootDone(FALSE)
  /\ UNCHANGED <<masked, timer, op, lba, identity, device>>

SomeDrive ==
  /\ pc = "status" /\ sr # {}
  /\ status' = sr /\ timer' = 0
  /\ pc' = "poll"
  /\ UNCHANGED <<masked, op, lba, found, identity, device>>

\* One turn of init's waiting loop, and its exit by the timer.
PollIdentify ==
  /\ pc = "poll"
  /\ IF timer < TIMEOUT
     THEN status' = sr /\ pc' = IF "BSY" \in sr THEN "poll" ELSE "check"
     ELSE pc' = "check" /\ UNCHANGED status
  /\ UNCHANGED <<masked, timer, op, lba, found, identity, device>>

\* Mutation: only the data request flag is looked at.
AnsweredByFlag == "DRQ" \in status

\* The tests of init after its loop, taken together.
Answered == "DRQ" \in status /\ status \cap {"BSY", "DF", "ERR"} = {}

IdentifyFails ==
  /\ pc = "check" /\ ~Answered
  /\ BootDone(FALSE)
  /\ UNCHANGED <<masked, timer, op, lba, status, identity, device>>

ReadIdentity ==
  /\ pc = "check" /\ Answered
  /\ identity' = (drive = "disk" /\ "DRQ" \in sr /\ cmd = "identify")
  /\ MoveWords
  /\ BootDone(TRUE)
  /\ UNCHANGED <<masked, timer, op, lba, status, drive, reg>>

-----------------------------------------------------------------------------
\* Mutation: the gate leaves interrupts on while the command runs.
KeyRunsCommandUnmasked ==
  /\ pc = "idle" /\ pc' = "command"
  /\ UNCHANGED <<masked, timer, op, lba, status, found, identity, device>>

\* Enter: readKey calls shell_execute inside the interrupt.
KeyRunsCommand ==
  /\ pc = "idle" /\ pc' = "command"
  /\ masked' = TRUE
  /\ UNCHANGED <<timer, op, lba, status, found, identity, device>>

CommandReturns ==
  /\ pc = "command" /\ pc' = "idle"
  /\ masked' = FALSE
  /\ UNCHANGED <<timer, op, lba, status, found, identity, device>>

\* Mutation: any sector number goes.
AnyLba(l) == TRUE

InRange(l) == l <= MAX_LBA

\* read28 or write28 gets past its first two tests and calls setLBAbits.
SetLBAbits ==
  /\ pc = "command" /\ found
  /\ \E o \in {"read", "write"}, l \in Lbas :
       /\ InRange(l)
       /\ op' = o /\ lba' = l
  /\ pc' = "head"
  /\ UNCHANGED <<masked, timer, status, found, identity, device>>

\* setLBAbits writes a part of the address, then goes to the next port.  The
\* sector count is the same each time and left out.
OutPort(port, next) ==
  /\ pc = port /\ pc' = next
  /\ reg' = IF Listening THEN [reg EXCEPT ![port] = Part(lba, port)] ELSE reg
  /\ UNCHANGED <<masked, timer, op, lba, status, found, identity, drive, sr, cmd>>

WriteAddress ==
  \/ OutPort("head", "low") \/ OutPort("low", "mid")
  \/ OutPort("mid", "high") \/ OutPort("high", "issue")

\* It issues the command and enters waitForDRQ.
Issue ==
  /\ pc = "issue" /\ pc' = "wait"
  /\ Send(op)
  /\ timer' = 0
  /\ UNCHANGED <<masked, op, lba, status, found, identity, drive, reg>>

\* Mutation: waitForDRQ is content with a drive that is not busy.
DataReadyUnasked == "BSY" \notin sr

DataReady == "BSY" \notin sr /\ "DRQ" \in sr

\* One turn of waitForDRQ's loop, or the end of it.  An error goes back to
\* the command, which hears nothing of it: read28 and write28 return void.
WaitForDRQ ==
  /\ pc = "wait"
  /\ pc' = IF timer >= TIMEOUT \/ "DF" \in sr \/ "ERR" \in sr THEN "command"
           ELSE IF DataReady THEN "transfer"
           ELSE "wait"
  /\ UNCHANGED <<masked, timer, op, lba, status, found, identity, device>>

ReadSector ==
  /\ pc = "transfer" /\ op = "read" /\ pc' = "command"
  /\ MoveWords
  /\ UNCHANGED <<masked, timer, op, lba, status, found, identity, drive, reg>>

WriteSector ==
  /\ pc = "transfer" /\ op = "write" /\ pc' = "flush"
  /\ MoveWords
  /\ UNCHANGED <<masked, timer, op, lba, status, found, identity, drive, reg>>

\* write28's last statement; nobody waits for the drive.
CacheFlush ==
  /\ pc = "flush" /\ pc' = "command"
  /\ Send("flush")
  /\ UNCHANGED <<masked, timer, op, lba, status, found, identity, drive, reg>>

-----------------------------------------------------------------------------
\* The statements the processor executes without waiting for a key.
Processor ==
  \/ EnableInterrupts \/ SendIdentify \/ NoDrive \/ SomeDrive \/ PollIdentify
  \/ IdentifyFails \/ ReadIdentity
  \/ CommandReturns \/ WriteAddress \/ Issue \/ WaitForDRQ
  \/ ReadSector \/ WriteSector \/ CacheFlush

Next == Processor \/ Tick \/ KeyRunsCommand \/ SetLBAbits \/ DriveStep

Spec == Init /\ [][Next]_vars

\* The processor executes and the timer ticks; the drive owes nothing.
FairSpec == Spec /\ WF_vars(Processor) /\ WF_vars(Tick)

\* The same with a drive that finishes whatever it has begun.
FairDriveSpec == FairSpec /\ WF_vars(DriveStep)

-----------------------------------------------------------------------------
(* Properties. *)
Pcs == Ports \cup
  {"reset", "identify", "status", "poll", "check", "idle", "command",
   "issue", "wait", "transfer", "flush"}

\* Types, and the bound ATA.hpp:167 and 195 put on the sector address.
TypeOK ==
  /\ pc \in Pcs /\ masked \in BOOLEAN /\ timer \in 0 .. TIMEOUT
  /\ op \in {"read", "write"} /\ lba \in 0 .. MAX_LBA
  /\ status \subseteq Flags /\ found \in BOOLEAN /\ identity \in BOOLEAN
  /\ drive \in Drives /\ sr \subseteq Flags
  /\ cmd \in Commands \cup {"none"} /\ reg \in [Ports -> 0 .. 255]

\* device_found is set only for a drive that has answered IDENTIFY, so that
\* getTotalSectors never reads an identity_buf nobody filled: not for an
\* empty or floating bus, not for a drive that failed or answered too late.
FoundMeansIdentified == found => drive = "disk" /\ identity

\* Words go through the data port only while the drive asks for the words of
\* the very command the driver is carrying out.
TransferServed ==
  [][ReadSector \/ WriteSector => "DRQ" \in sr /\ cmd = op]_vars

\* No access is given up while the drive still works on it: when a command
\* starts its next access, or has returned, no answer to an earlier one can
\* be under way.  (One that came late would be taken for the next one's.)
NoLateAnswer ==
  found /\ pc \in {"idle", "command"} => cmd \notin {"identify", "read", "write"}

\* The boot code gets past ATA::init whatever is on the bus, a drive that
\* stays busy for ever included: interrupts are on by then, so the loop of
\* ATA.hpp:114 times out.
BootReturns == pc = "reset" ~> pc = "idle"

\* "return ATA_TIMEOUT; // Timeout!" (ATA.hpp:91): waitForDRQ ends.
WaitEnds == pc = "wait" ~> pc # "wait"

\* write28(lba, ...) writes to sector lba.
WriteReachesSector == [][WriteSector => \A p \in Ports : reg[p] = Part(lba, p)]_vars
=============================================================================
