----------------------------- MODULE AtaProofs -----------------------------
(***************************************************************************)
(* Proofs about Ata.tla, for every timeout, range of sectors and drive.    *)
(*                                                                         *)
(* What makes the driver's accesses safe is not in any one function: a     *)
(* wait that is given up would leave the drive with an answer the next     *)
(* access takes for its own, and no wait of a shell command is ever given  *)
(* up, since the timer stands still while the command runs.  The inductive *)
(* invariant says so (WaitInv) and, for each place the processor can be    *)
(* at, which commands the drive can be working on (AccessInv).             *)
(***************************************************************************)
EXTENDS Ata, TLAPS

\* The ports are named wherever the places of the processor are.
USE DEF Ports

\* The status registers a drive can show, and what it works on then.
DriveInv ==
  /\ drive = "absent" => sr = {} /\ cmd = "none"
  /\ drive = "floating" => sr = Flags /\ cmd = "none"
  /\ drive = "disk" =>
       \/ sr = {"BSY"} /\ cmd # "none"
       \/ sr = {"RDY", "DRQ"} /\ cmd \in {"identify", "read", "write"}
       \/ sr \in {{"RDY"}, {"RDY", "ERR"}, {"RDY", "DF"}} /\ cmd = "none"

\* A command runs with interrupts off, so the timer its wait has reset stays 0.
WaitInv ==
  /\ pc \in Ports \cup {"command", "issue", "wait", "transfer", "flush"} => masked
  /\ pc = "wait" => timer = 0

\* While init runs no drive is believed in, and a status byte that shows data
\* is the drive's present status.
IdentifyInv ==
  /\ pc \in {"reset", "identify", "status", "poll", "check"} => ~found
  /\ pc \in {"reset", "identify"} => cmd = "none"
  /\ pc \in {"status", "poll", "check"} => cmd \in {"identify", "none"}
  /\ pc \in {"poll", "check"} /\ "DRQ" \in status /\ "BSY" \notin status =>
       drive = "disk" /\ sr = status

\* Between accesses the drive has no transfer to make; within one only that
\* access's own.
AccessInv ==
  /\ pc \in Ports \cup {"issue", "wait", "transfer", "flush"} => found
  /\ found /\ pc \in Ports \cup {"idle", "command", "issue", "flush"} =>
       cmd \in {"none", "commit", "flush"}
  /\ pc = "wait" => cmd \in {op, "none", "commit", "flush"}
  /\ pc = "transfer" => cmd = op /\ sr = {"RDY", "DRQ"}

AInv ==
  /\ TypeOK /\ FoundMeansIdentified
  /\ DriveInv /\ WaitInv /\ IdentifyInv /\ AccessInv

\* The invariant holds as init_ata starts.
LEMMA InitAInv == Init => AInv
<1> SUFFICES ASSUME Init PROVE AInv
  OBVIOUS
<1>1. /\ pc = "reset" /\ masked = TRUE /\ timer = 0 /\ op = "read" /\ lba = 0
      /\ status = {} /\ found = FALSE /\ identity = FALSE /\ cmd = "none" /\ reg = [p \in Ports |-> 0]
      /\ drive \in Drives /\ drive \in {"disk", "absent", "floating"}
  BY AtaAssumption DEF Init
<1>2. /\ drive = "disk" => sr = {"RDY"}
      /\ drive = "absent" => sr = {}
      /\ drive = "floating" => sr = Flags
  BY <1>1 DEF Init
<1>3. TypeOK
  <2>1. sr \subseteq Flags
    BY <1>1, <1>2 DEF Flags
  <2>2. reg \in [Ports -> 0 .. 255] /\ lba \in 0 .. MAX_LBA /\ timer \in 0 .. TIMEOUT
    BY <1>1, AtaAssumption
  <2> QED BY <1>1, <2>1, <2>2 DEF TypeOK, Pcs
<1>4. DriveInv
  BY <1>1, <1>2 DEF DriveInv
<1> QED BY <1>1, <1>3, <1>4 DEF AInv, FoundMeansIdentified, WaitInv, IdentifyInv,
                                AccessInv

\* A step of the drive.
LEMMA DriveStepAInv == ASSUME AInv, DriveStep PROVE AInv'
<1>1. /\ UNCHANGED driver /\ drive' = drive /\ reg' = reg /\ "BSY" \in sr
  BY DEF DriveStep, DriveAsksTransfer, DriveFinishes, DriveFails
<1>2. \/ /\ cmd \in {"identify", "read", "write"}
         /\ sr' = {"RDY", "DRQ"} /\ cmd' = cmd
      \/ /\ cmd # "none"
         /\ sr' \in {{"RDY"}, {"RDY", "ERR"}, {"RDY", "DF"}} /\ cmd' = "none"
  BY DEF DriveStep, DriveAsksTransfer, DriveFinishes, DriveFails
<1>3. drive = "disk" /\ sr = {"BSY"}
  BY <1>1, <1>2, AtaAssumption DEF AInv, DriveInv, TypeOK
<1>4. TypeOK'
  BY <1>1, <1>2 DEF AInv, TypeOK, driver, Flags, Commands
<1>5. DriveInv'
  BY <1>1, <1>2, <1>3 DEF DriveInv
<1>6. FoundMeansIdentified' /\ WaitInv'
  BY <1>1 DEF AInv, FoundMeansIdentified, WaitInv, driver
<1>7. IdentifyInv'
  BY <1>1, <1>2, <1>3 DEF AInv, IdentifyInv, driver
<1>8. AccessInv'
  BY <1>1, <1>2, <1>3 DEF AInv, AccessInv, driver
<1> QED BY <1>4, <1>5, <1>6, <1>7, <1>8 DEF AInv

\* What writing a command does to the drive.
LEMMA SendFacts ==
  ASSUME AInv, NEW c \in Commands, Send(c), drive' = drive
  PROVE  /\ DriveInv' /\ sr' \subseteq Flags /\ cmd' \in Commands \cup {"none"}
         /\ cmd' \in {c, cmd}
<1>1. CASE Listening
  <2>1. drive = "disk" /\ sr' = {"BSY"} /\ cmd' = c /\ c # "none"
    BY <1>1 DEF Send, Listening, Commands
  <2> QED BY <2>1 DEF DriveInv, Flags, Commands
<1>2. CASE ~Listening
  <2>1. UNCHANGED <<cmd, sr>>
    BY <1>2 DEF Send
  <2> QED BY <2>1 DEF AInv, TypeOK, DriveInv
<1> QED BY <1>1, <1>2

\* Moving a sector's words when the drive asks for them ends its command.
LEMMA MoveWordsFacts ==
  ASSUME AInv, MoveWords, drive = "disk", drive' = drive, sr = {"RDY", "DRQ"}
  PROVE  /\ DriveInv' /\ sr' \subseteq Flags
         /\ cmd' \in {"none", "commit"} /\ (cmd # "write" => cmd' = "none")
<1>1. CASE cmd = "write"
  <2>1. cmd' = "commit" /\ sr' = {"BSY"}
    BY <1>1 DEF MoveWords
  <2> QED BY <1>1, <2>1 DEF DriveInv, Flags
<1>2. CASE cmd # "write"
  <2>1. cmd' = "none" /\ sr' = {"RDY"}
    BY <1>2 DEF MoveWords
  <2> QED BY <2>1 DEF DriveInv, Flags
<1> QED BY <1>1, <1>2

\* Every part of an address fits its register.
LEMMA PartTypes == \A l \in Nat, p \in Ports : Part(l, p) \in 0 .. 255
<1> TAKE l \in Nat, p \in Ports
<1>1. \A n \in Nat : n % 256 \in 0 .. 255 /\ n % 16 \in 0 .. 255
  OBVIOUS
<1>2. 2^8 \in Nat \ {0} /\ 2^16 \in Nat \ {0} /\ 2^24 \in Nat \ {0}
  OBVIOUS
<1>3. \A k \in Nat \ {0} : l \div k \in Nat
  OBVIOUS
<1> QED BY <1>1, <1>2, <1>3 DEF Part

\* A step that leaves the drive alone leaves its part of the invariant alone.
LEMMA DeviceSame ==
  ASSUME AInv, UNCHANGED device
  PROVE  /\ DriveInv' /\ drive' \in Drives /\ sr' \subseteq Flags
         /\ cmd' \in Commands \cup {"none"} /\ reg' \in [Ports -> 0 .. 255]
BY DEF AInv, TypeOK, DriveInv, device

\* Every step of the driver, the drive and the timer keeps the invariant.
LEMMA NextAInv == AInv /\ [Next]_vars => AInv'
<1> SUFFICES ASSUME AInv, [Next]_vars PROVE AInv'
  OBVIOUS
<1> USE DEF AInv
<1>1. CASE UNCHANGED vars
  BY <1>1 DEF vars, driver, device, TypeOK, FoundMeansIdentified, DriveInv, WaitInv,
              IdentifyInv, AccessInv
<1>2. CASE DriveStep
  BY <1>2, DriveStepAInv
<1>3. CASE EnableInterrupts
  <2> USE <1>3 DEF EnableInterrupts
  <2>1. TypeOK' /\ FoundMeansIdentified' /\ DriveInv'
    BY DeviceSame DEF TypeOK, Pcs, FoundMeansIdentified, device
  <2> QED BY <2>1 DEF WaitInv, IdentifyInv, AccessInv, device
<1>4. CASE Tick
  <2> USE <1>4 DEF Tick
  <2>1. TypeOK'
    BY DeviceSame, AtaAssumption DEF TypeOK
  <2>2. FoundMeansIdentified' /\ DriveInv'
    BY DeviceSame DEF FoundMeansIdentified, device
  <2>3. pc # "wait"
    BY DEF WaitInv
  <2> QED BY <2>1, <2>2, <2>3 DEF WaitInv, IdentifyInv, AccessInv, device
<1>5. CASE SendIdentify
  <2> USE <1>5 DEF SendIdentify
  <2>1. DriveInv' /\ sr' \subseteq Flags /\ cmd' \in {"identify", "none"}
    BY SendFacts DEF Commands, IdentifyInv
  <2>2. reg' \in [Ports -> 0 .. 255]
    BY AtaAssumption DEF TypeOK
  <2>3. TypeOK'
    BY <2>1, <2>2 DEF TypeOK, Pcs, Commands
  <2> QED BY <2>1, <2>3 DEF FoundMeansIdentified, WaitInv, IdentifyInv, AccessInv
<1>6. CASE NoDrive
  <2> USE <1>6 DEF NoDrive, BootDone
  <2>1. TypeOK' /\ FoundMeansIdentified' /\ DriveInv'
    BY DeviceSame DEF TypeOK, Pcs, FoundMeansIdentified
  <2> QED BY <2>1 DEF WaitInv, IdentifyInv, AccessInv
<1>7. CASE SomeDrive
  <2> USE <1>7 DEF SomeDrive
  <2>1. TypeOK' /\ FoundMeansIdentified' /\ DriveInv'
    BY DeviceSame, AtaAssumption DEF TypeOK, Pcs, FoundMeansIdentified, device
  <2>2. "DRQ" \in sr /\ "BSY" \notin sr => drive = "disk"
    BY AtaAssumption DEF DriveInv, TypeOK, Flags
  <2> QED BY <2>1, <2>2 DEF WaitInv, IdentifyInv, AccessInv, device
<1>8. CASE PollIdentify
  <2> USE <1>8 DEF PollIdentify
  <2>1. /\ pc' \in {"poll", "check"} /\ status' \in {status, sr}
        /\ UNCHANGED <<masked, timer, op, lba, found, identity, device>>
    OBVIOUS
  <2>2. TypeOK' /\ FoundMeansIdentified' /\ DriveInv'
    BY <2>1, DeviceSame DEF TypeOK, Pcs, FoundMeansIdentified, device
  <2>3. "DRQ" \in sr /\ "BSY" \notin sr => drive = "disk"
    BY AtaAssumption DEF DriveInv, TypeOK, Flags
  <2> QED BY <2>1, <2>2, <2>3 DEF WaitInv, IdentifyInv, AccessInv, device
<1>9. CASE IdentifyFails
  <2> USE <1>9 DEF IdentifyFails, BootDone
  <2>1. TypeOK' /\ FoundMeansIdentified' /\ DriveInv'
    BY DeviceSame DEF TypeOK, Pcs, FoundMeansIdentified
  <2> QED BY <2>1 DEF WaitInv, IdentifyInv, AccessInv
<1>10. CASE ReadIdentity
  <2> USE <1>10 DEF ReadIdentity, BootDone
  <2>1. drive = "disk" /\ sr = status /\ "DRQ" \in sr /\ cmd \in {"identify", "none"}
    BY DEF Answered, IdentifyInv
  <2>2. sr = {"RDY", "DRQ"} /\ cmd = "identify"
    BY <2>1 DEF DriveInv
  <2>3. DriveInv' /\ sr' \subseteq Flags /\ cmd' = "none" /\ identity' = TRUE
    BY <2>1, <2>2, MoveWordsFacts
  <2>4. TypeOK' /\ FoundMeansIdentified'
    BY <2>1, <2>3 DEF TypeOK, Pcs, FoundMeansIdentified
  <2> QED BY <2>3, <2>4 DEF WaitInv, IdentifyInv, AccessInv
<1>11. CASE KeyRunsCommand
  <2> USE <1>11 DEF KeyRunsCommand
  <2>1. TypeOK' /\ FoundMeansIdentified' /\ DriveInv'
    BY DeviceSame DEF TypeOK, Pcs, FoundMeansIdentified, device
  <2> QED BY <2>1 DEF WaitInv, IdentifyInv, AccessInv, device
<1>12. CASE CommandReturns
  <2> USE <1>12 DEF CommandReturns
  <2>1. TypeOK' /\ FoundMeansIdentified' /\ DriveInv'
    BY DeviceSame DEF TypeOK, Pcs, FoundMeansIdentified, device
  <2> QED BY <2>1 DEF WaitInv, IdentifyInv, AccessInv, device
<1>13. CASE SetLBAbits
  <2> USE <1>13 DEF SetLBAbits
  <2>1. /\ op' \in {"read", "write"} /\ lba' \in 0 .. MAX_LBA
    BY AtaAssumption DEF InRange
  <2>2. TypeOK' /\ FoundMeansIdentified' /\ DriveInv'
    BY <2>1, DeviceSame DEF TypeOK, Pcs, FoundMeansIdentified, device
  <2> QED BY <2>2 DEF WaitInv, IdentifyInv, AccessInv, device
<1>14. CASE Issue
  <2> USE <1>14 DEF Issue
  <2>1. DriveInv' /\ sr' \subseteq Flags /\ cmd' \in {op, cmd}
        /\ cmd' \in Commands \cup {"none"}
    BY SendFacts DEF TypeOK, Commands
  <2>2. TypeOK' /\ FoundMeansIdentified'
    BY <2>1, AtaAssumption DEF TypeOK, Pcs, FoundMeansIdentified
  <2> QED BY <2>1, <2>2 DEF WaitInv, IdentifyInv, AccessInv
<1>15. CASE WaitForDRQ
  <2> USE <1>15 DEF WaitForDRQ
  <2>1. ~(timer >= TIMEOUT)
    BY AtaAssumption DEF WaitInv
  <2>2. found /\ drive = "disk" /\ cmd \in {op, "none", "commit", "flush"}
    BY DEF AccessInv, FoundMeansIdentified
  <2>3. pc' = "command" => cmd = "none"
    BY <2>1, <2>2 DEF DriveInv, DataReady
  <2>4. pc' = "transfer" => cmd = op /\ sr = {"RDY", "DRQ"}
    BY <2>1, <2>2 DEF DriveInv, DataReady
  <2>5. pc' \in {"command", "transfer", "wait"}
    OBVIOUS
  <2>6. TypeOK' /\ FoundMeansIdentified' /\ DriveInv'
    BY <2>5, DeviceSame DEF TypeOK, Pcs, FoundMeansIdentified, device
  <2>7. WaitInv' /\ IdentifyInv'
    BY <2>5 DEF WaitInv, IdentifyInv, device
  <2>8. AccessInv'
    BY <2>2, <2>3, <2>4, <2>5 DEF AccessInv, device
  <2> QED BY <2>6, <2>7, <2>8
<1>16. CASE ReadSector \/ WriteSector
  <2> USE <1>16 DEF ReadSector, WriteSector
  <2>1. found /\ drive = "disk" /\ cmd = op /\ sr = {"RDY", "DRQ"} /\ drive' = drive
    BY DEF AccessInv, FoundMeansIdentified
  <2>2. DriveInv' /\ sr' \subseteq Flags /\ cmd' \in {"none", "commit"}
    BY <2>1, MoveWordsFacts
  <2>3. TypeOK' /\ FoundMeansIdentified'
    BY <2>2 DEF TypeOK, Pcs, Commands, FoundMeansIdentified
  <2> QED BY <2>1, <2>2, <2>3 DEF WaitInv, IdentifyInv, AccessInv
<1>17. CASE CacheFlush
  <2> USE <1>17 DEF CacheFlush
  <2>1. DriveInv' /\ sr' \subseteq Flags /\ cmd' \in {"flush", cmd}
        /\ cmd' \in Commands \cup {"none"}
    BY SendFacts DEF Commands
  <2>2. TypeOK' /\ FoundMeansIdentified'
    BY <2>1 DEF TypeOK, Pcs, FoundMeansIdentified
  <2> QED BY <2>1, <2>2 DEF WaitInv, IdentifyInv, AccessInv
<1>18. CASE WriteAddress
  <2>1. PICK port \in Ports, next \in Ports \cup {"issue"} : OutPort(port, next)
    BY <1>18 DEF WriteAddress
  <2> USE <2>1 DEF OutPort
  <2>2. Part(lba, port) \in 0 .. 255
    <3>1. lba \in Nat
      BY AtaAssumption DEF TypeOK
    <3> QED BY <3>1, PartTypes
  <2>3. reg' \in [Ports -> 0 .. 255]
    BY <2>2 DEF TypeOK
  <2>4. TypeOK' /\ FoundMeansIdentified' /\ DriveInv'
    BY <2>3 DEF TypeOK, Pcs, FoundMeansIdentified, DriveInv, AccessInv
  <2> QED BY <2>4 DEF WaitInv, IdentifyInv, AccessInv
<1> QED BY <1>1, <1>2, <1>3, <1>4, <1>5, <1>6, <1>7, <1>8, <1>9, <1>10, <1>11,
           <1>12, <1>13, <1>14, <1>15, <1>16, <1>17, <1>18 DEF Next, Processor

\* The invariant the theorems below rest on.
THEOREM DriverInductive == Spec => []AInv
  BY InitAInv, NextAInv, PTL DEF Spec

\* Every variable keeps its type, the timer its bound and the status register its
\* eight flags.
THEOREM TypesKept == Spec => []TypeOK
<1>1. AInv => TypeOK
  BY DEF AInv
<1> QED BY <1>1, DriverInductive, PTL

\* device_found is believed only of a drive that answered IDENTIFY in time.
THEOREM IdentifiedAlways == Spec => []FoundMeansIdentified
<1>1. AInv => FoundMeansIdentified
  BY DEF AInv
<1> QED BY <1>1, DriverInductive, PTL

\* No answer of the drive outlives the access that asked for it, whatever the
\* timeout is set to.
THEOREM NoAnswerOutlivesAccess == Spec => []NoLateAnswer
<1>1. AInv => NoLateAnswer
  BY DEF AInv, AccessInv, NoLateAnswer
<1> QED BY <1>1, DriverInductive, PTL

\* The data port is read and written only for the command the driver issued.
THEOREM TransfersServed == Spec => TransferServed
<1>1. AInv => (ReadSector \/ WriteSector => "DRQ" \in sr /\ cmd = op)
  BY DEF AInv, AccessInv, ReadSector, WriteSector
<1>2. AInv /\ [Next]_vars =>
        [ReadSector \/ WriteSector => "DRQ" \in sr /\ cmd = op]_vars
  BY <1>1
<1> QED BY <1>2, DriverInductive, PTL DEF Spec, TransferServed
=============================================================================
