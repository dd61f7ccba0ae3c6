----------------------------- MODULE IdeProofs ------------------------------
(***************************************************************************)
(* The IDE driver for any number of blocks and looks, and any data: what   *)
(* the drive can be doing at each step of the driver.                      *)
(***************************************************************************)
EXTENDS Ide, TLAPS

\* A leaf that does not name the SMT solver is left to Zenon.
USE ZenonT(20)

Cmds == {"none", "RESET", "READ", "WRITE", "IDENTIFY", "IDPACKET", "PACKET"}
States == {"idle", "busy", "data", "error"}
Parts == Data \cup {"none", "in", "out", "cdb", "sent"}
DevStates == [st : States, cmd : Cmds, lba : Sectors, part : Parts]

ReqNames == {"none", "read", "write", "probe", "capacity", "read2048", "inquiry"}
SectorPcs == {"issue", "notbusy", "drq", "xfer", "check", "done"}
PacketPcs == {"reset", "resetwait", "issue", "drqcdb", "xfer", "drqdata", "xferdata", "settle",
              "check", "done"}

\* Where the driver can be with each request.
DriverOK ==
    /\ op.name \in ReqNames /\ op.blk \in 0 .. (NBlk - 1)
    /\ op.name = "none" => cmd = "none" /\ pc = "idle"
    /\ op.name = "read" => cmd = "READ" /\ pc \in SectorPcs
    /\ op.name = "write" => cmd = "WRITE" /\ pc \in SectorPcs \cup {"written"} /\ op.data \in Data \X Data
    /\ op.name = "probe" => cmd \in {"IDENTIFY", "IDPACKET"} /\ pc \in SectorPcs \cup {"reset", "resetwait"}
    /\ op.name = "capacity" => \/ cmd = "IDENTIFY" /\ pc \in SectorPcs \cup {"reset", "resetwait"}
                               \/ cmd = "READ" /\ pc \in SectorPcs
    /\ op.name \in {"read2048", "inquiry"} => cmd = "PACKET" /\ pc \in PacketPcs
    /\ n \in {0, 1} /\ (op.name \notin {"read", "write"} => n = 0)
    /\ polls \in 0 .. MaxPolls /\ (pc # "done" => out = NoOut)

\* What the drive can be doing.
DeviceOK ==
    /\ kind \in Kinds /\ medium \in [Sectors -> Data] /\ dev \in DevStates
    /\ dev.st = "data" => /\ Understood(dev.cmd) /\ dev.cmd \notin {"none", "RESET"}
                          /\ dev.part \in {"in", "out"}
                          /\ dev.cmd \in {"READ", "IDENTIFY", "IDPACKET"} => dev.part = "in"
    /\ dev.cmd \in {"none", "RESET"} => dev.part = "none"
    /\ dev.part \in Data => dev.cmd = "WRITE" /\ Understood("WRITE")
    /\ dev.part \in {"cdb", "sent"} => dev.cmd = "PACKET" /\ Understood("PACKET")
    /\ ~Present => dev = Idle

Quiet == dev.st \in {"idle", "error"}
Resetting == dev.st = "busy" /\ dev.cmd = "RESET"
Mine == dev.cmd = cmd /\ dev.lba = 2 * op.blk + n
Way == IF cmd \in {"WRITE", "PACKET"} THEN "out" ELSE "in"
Offered == dev.st = "data" /\ dev.part = Way
Asked == (dev.st = "busy" /\ dev.part = "none") \/ Offered

\* Unless a command was given up, the drive works on the driver's own command
\* or on none.  A request that begins with a reset meets no answer to another
\* command, even if the reset takes longer than the driver waits.
MeetOK ==
    /\ pc \in {"xfer", "xferdata"} => dev.st = "data"
    /\ ~late =>
        /\ pc \in {"idle", "done", "reset", "issue", "check"} => Quiet
        /\ pc = "resetwait" => Quiet \/ Resetting
        /\ pc \in {"notbusy", "drq", "drqcdb"} => Quiet \/ (Mine /\ Asked)
        /\ pc = "xfer" => Mine /\ Offered
        /\ pc = "written" => Quiet \/ (Mine /\ dev.st = "busy" /\ dev.part = op.data[n + 1])
        /\ pc = "settle" => Quiet \/ (dev.st = "busy" /\ dev.part = "sent")
    /\ pc # "reset" =>
        /\ op.name = "probe" => dev.cmd \in {"none", "RESET", cmd}
        /\ op.name = "capacity" => dev.cmd \in {"none", "RESET", "IDENTIFY", "READ"}
        /\ op.name \in {"read2048", "inquiry"} => dev.cmd \in {"none", "RESET", "PACKET"}

\* The sectors that a read, or a write, has to have done.
Due == IF pc = "check" THEN n + 1 ELSE IF pc = "done" THEN 2 ELSE n

\* A read has in the buffer what the medium holds, sector by sector.
ReadOK ==
    (op.name = "read" /\ ~late /\ out.ret # "error") =>
        /\ Len(buf) = Due /\ buf \in Seq(Data)
        /\ \A i \in {0, 1} : i < Due => buf[i + 1] = medium[2 * op.blk + i]

\* A write has on the medium what was sent; the sector just sent counts once
\* the drive has gone idle.
WriteOK ==
    (op.name = "write" /\ ~late /\ ~fault /\ out.ret # "error") =>
        /\ \A i \in {0, 1} : (i < Due /\ ~(pc = "check" /\ i = n /\ dev.st # "idle")) =>
               medium[2 * op.blk + i] = op.data[i + 1]
        /\ (pc = "written" /\ dev.st = "idle") => medium[2 * op.blk + n] = op.data[n + 1]

\* What answered the probe is of the kind that understands the command.
ProbeOK ==
    op.name = "probe" =>
        /\ pc \notin {"check", "done"} => buf = <<>>
        /\ pc = "check" => buf = <<cmd>> /\ Understood(cmd) /\ Present
        /\ (pc = "done" /\ out.ret # "error") => buf = <<cmd>> /\ out.class = kind

\* Only a disk answers a question for the size.
CapacityOK ==
    /\ kind = "ata" => geo \in Geometries
    /\ op.name = "capacity" =>
        /\ pc = "check" => kind = "ata"
        /\ (pc = "done" /\ out.ret # "error") =>
              /\ kind = "ata" /\ out.total \in 1 .. MaxSectors
              /\ out.total \in {geo.n28, geo.n48, geo.n28 % (MaxLba28 + 1), MaxSectors, Fallback}

\* After the reset, a packet command meets no part of another one.
PacketOK ==
    op.name \in {"read2048", "inquiry"} =>
        /\ pc \in {"resetwait", "issue"} => dev.cmd \in {"none", "RESET"}
        /\ pc \in {"drqcdb", "xfer"} => dev.part \in {"none", "out"}
        /\ pc \in {"drqdata", "xferdata"} => dev.part \in {"cdb", "in"} \/ dev = Idle
        /\ pc \notin {"settle", "check", "done"} => buf = <<>>
        /\ ~short => buf \in {<<>>, <<"PACKET">>}
        /\ (pc = "done" /\ out.ret # "error") =>
              IF op.name = "inquiry" THEN out.total = Len(buf) ELSE buf # <<>>

IdeInv == DriverOK /\ DeviceOK /\ MeetOK /\ ReadOK /\ WriteOK /\ ProbeOK /\ CapacityOK /\ PacketOK

\* The bits of the status register, by what the drive is doing.
LEMMA StatusBits ==
    ASSUME DeviceOK
    PROVE  /\ "BSY" \in Status <=> kind = "high" \/ dev.st = "busy"
           /\ "DRQ" \in Status <=> kind = "high" \/ dev.st = "data"
           /\ "ERR" \in Status <=> kind = "high" \/ dev.st = "error"
           /\ Status = {"DRQ"} <=> dev.st = "data"
  BY SMT DEF DeviceOK, Status, Present, Kinds, Idle, DevStates, States

\* Where a failed command leads.
LEMMA FailStep ==
    ASSUME Fail
    PROVE  /\ polls' = 0 /\ n' = n
           /\ \/ pc' = "done" /\ cmd' = cmd /\ out' = Error
              \/ op.name = "probe" /\ cmd = "IDENTIFY" /\ pc' = "reset" /\ cmd' = "IDPACKET" /\ out' = out
              \/ op.name = "capacity" /\ cmd = "IDENTIFY" /\ pc' = "issue" /\ cmd' = "READ" /\ out' = out
  BY DEF Fail, Done, Goto

\* Where a command that ended well leads, for the requests whose results count.
LEMMA SucceedStep ==
    ASSUME Succeed
    PROVE  /\ op.name = "probe" =>
                /\ pc' = "done" /\ cmd' = cmd
                /\ out'.class = IF cmd = "IDENTIFY" THEN "ata" ELSE "atapi"
           /\ (op.name = "capacity" /\ cmd \in {"IDENTIFY", "READ"}) =>
                \/ ide_capacity_sectors(geo) # 0 /\ out'.total = ide_capacity_sectors(geo)
                \/ out'.total = Fallback
                \/ pc' = "issue"
           /\ op.name = "inquiry" => pc' = "done" /\ out'.total = Len(buf)
           /\ (op.name = "read2048" /\ cmd = "PACKET") =>
                pc' = "done" /\ (out'.ret # "error" => buf # <<>>)
<1>1. CASE op.name = "probe"
  BY <1>1 DEF Succeed, Done, Goto, Ok, NoOut
<1>2. CASE op.name = "capacity" /\ cmd = "IDENTIFY"
  <2>1. CASE ide_capacity_sectors(geo) # 0
    BY <1>2, <2>1 DEF Succeed, Done, Ok, NoOut
  <2>2. CASE ide_capacity_sectors(geo) = 0
    BY <1>2, <2>2 DEF Succeed, Goto
  <2> QED
    BY <1>2, <2>1, <2>2
<1>3. CASE op.name = "capacity" /\ cmd = "READ"
  BY <1>3 DEF Succeed, Done, Ok, NoOut
<1>4. CASE op.name = "inquiry"
  BY <1>4 DEF Succeed, Done, Goto, Ok, NoOut
<1>5. CASE op.name = "read2048" /\ buf = <<>>
  BY <1>5 DEF Succeed, Done, Goto, Error, NoOut
<1>6. CASE op.name = "read2048" /\ buf # <<>>
  BY <1>6 DEF Succeed, Done, Goto
<1> QED
  BY <1>1, <1>2, <1>3, <1>4, <1>5, <1>6

\* The driver keeps to its ways through each request.
LEMMA DriverStep ==
    ASSUME DriverOK, DeviceOK, [IdeNext]_ideVars
    PROVE  DriverOK'
<1> USE IdeAssumption, StatusBits, FailStep
    DEF DriverOK, ReqNames, SectorPcs, PacketPcs,
        Req, NoReq, NoOut, Ok, Error, Goto, drive, ghosts
<1>1. CASE SoftReset
  BY <1>1, SMT DEF SoftReset
<1>2. CASE ResetWait
  BY <1>2, SMT DEF ResetWait
<1>3. CASE Issue
  BY <1>3, SMT DEF Issue, Command
<1>4. CASE ide_wait_not_busy("notbusy", "drq")
  BY <1>4, SMT DEF ide_wait_not_busy, GiveUp
<1>5. CASE ide_wait_drq("drq")
  BY <1>5, SMT DEF ide_wait_drq, GiveUp
<1>6. CASE ide_wait_drq("drqcdb")
  BY <1>6, SMT DEF ide_wait_drq, GiveUp
<1>7. CASE ReadSector
  BY <1>7, SMT DEF ReadSector, Incoming
<1>8. CASE WriteSector
  BY <1>8, SMT DEF WriteSector, Turn
<1>9. CASE SendCdb
  BY <1>9, SMT DEF SendCdb, Turn
<1>10. CASE ide_wait_not_busy("written", "check")
  BY <1>10, SMT DEF ide_wait_not_busy, GiveUp
<1>11. CASE DataWait
  BY <1>11, SMT DEF DataWait, GiveUp
<1>12. CASE ReadPacket
  BY <1>12, SMT DEF ReadPacket, Turn
<1>13. CASE Settle
  BY <1>13, SMT DEF Settle
<1>14. CASE Check
  BY <1>14, SMT DEF Check, Succeed, Done
<1>15. CASE Return
  BY <1>15, SMT DEF Return
<1>16. CASE DevAnswers
  BY <1>16 DEF DevAnswers, Turn
<1>17. CASE DevErrs
  BY <1>17 DEF DevErrs
<1>18. CASE DevFaults
  BY <1>18 DEF DevFaults
<1>19. CASE Request
  BY <1>19, SMT DEF Request, Begin, vol_read_blk, vol_write_blk, ide_probe_type,
          AskCapacity, ide_atapi_read2048, ide_atapi_inquiry
<1>20. CASE UNCHANGED ideVars
  BY <1>20 DEF ideVars
<1> QED
  BY <1>1, <1>2, <1>3, <1>4, <1>5, <1>6, <1>7, <1>8, <1>9, <1>10, <1>11, <1>12, <1>13, <1>14,
     <1>15, <1>16, <1>17, <1>18, <1>19, <1>20 DEF IdeNext, Work, Device

\* The drive is only ever given commands and data that it can have.
LEMMA DeviceStep ==
    ASSUME DriverOK, DeviceOK, MeetOK, [IdeNext]_ideVars
    PROVE  DeviceOK'
<1> USE IdeAssumption, StatusBits
    DEF DriverOK, ReqNames, SectorPcs, PacketPcs,
        DeviceOK, DevStates, States, Cmds, Parts, Sectors, Kinds, Idle, Present, Understood,
        MeetOK, Quiet, Resetting, Mine, Way, Offered, Asked, Goto, drive, ghosts
<1>1. CASE SoftReset
  BY <1>1, SMT DEF SoftReset
<1>2. CASE ResetWait
  BY <1>2 DEF ResetWait
<1>3. CASE Issue
  BY <1>3, SMT DEF Issue, Command
<1>4. CASE ide_wait_not_busy("notbusy", "drq")
  BY <1>4 DEF ide_wait_not_busy, GiveUp
<1>5. CASE ide_wait_drq("drq")
  BY <1>5 DEF ide_wait_drq, GiveUp
<1>6. CASE ide_wait_drq("drqcdb")
  BY <1>6 DEF ide_wait_drq, GiveUp
<1>7. CASE ReadSector
  BY <1>7, SMT DEF ReadSector, Incoming
<1>8. CASE WriteSector
  BY <1>8, SMT DEF WriteSector, Turn
<1>9. CASE SendCdb
  BY <1>9, SMT DEF SendCdb, Turn
<1>10. CASE ide_wait_not_busy("written", "check")
  BY <1>10 DEF ide_wait_not_busy, GiveUp
<1>11. CASE DataWait
  BY <1>11 DEF DataWait, GiveUp
<1>12. CASE ReadPacket
  BY <1>12, SMT DEF ReadPacket, Turn
<1>13. CASE Settle
  BY <1>13 DEF Settle
<1>14. CASE Check
  BY <1>14 DEF Check, Succeed, Done
<1>15. CASE Return
  BY <1>15 DEF Return
<1>16. CASE DevAnswers
  <2>1. CASE dev.cmd = "WRITE" /\ dev.part \in Data
    <3>1. dev' = Idle /\ medium' = [medium EXCEPT ![dev.lba] = dev.part] /\ UNCHANGED kind
      BY <1>16, <2>1 DEF DevAnswers
    <3>2. medium' \in [Sectors -> Data]
      BY <2>1, <3>1
    <3> QED
      BY <3>1, <3>2, SMT
  <2>2. CASE dev.cmd = "PACKET"
    BY <1>16, <2>2, SMT DEF DevAnswers, Turn
  <2>3. CASE dev.cmd # "PACKET" /\ ~(dev.cmd = "WRITE" /\ dev.part \in Data)
    BY <1>16, <2>3, SMT DEF DevAnswers, Turn
  <2> QED
    BY <2>1, <2>2, <2>3
<1>17. CASE DevErrs
  BY <1>17 DEF DevErrs
<1>18. CASE DevFaults
  BY <1>18, SMT DEF DevFaults
<1>19. CASE Request
  BY SMTT(30), <1>19 DEF Request, Begin, vol_read_blk, vol_write_blk, ide_probe_type,
          AskCapacity, ide_atapi_read2048, ide_atapi_inquiry
<1>20. CASE UNCHANGED ideVars
  BY SMTT(30), <1>20 DEF ideVars
<1> QED
  BY <1>1, <1>2, <1>3, <1>4, <1>5, <1>6, <1>7, <1>8, <1>9, <1>10, <1>11, <1>12, <1>13, <1>14,
     <1>15, <1>16, <1>17, <1>18, <1>19, <1>20 DEF IdeNext, Work, Device

\* A failed command leaves nothing to meet, if the drive is quiet or late.
LEMMA FailMeets ==
    ASSUME DriverOK, MeetOK, Fail, UNCHANGED <<dev, op>>, pc # "reset", ~late' => Quiet
    PROVE  MeetOK'
  BY FailStep DEF MeetOK, DriverOK, Quiet, ReqNames, Error, NoOut

\* A wait that ends without an answer sets late, unless nothing is there.
LEMMA GiveUpMeets ==
    ASSUME DriverOK, DeviceOK, MeetOK, GiveUp, UNCHANGED <<dev, op>>, pc # "reset"
    PROVE  MeetOK'
<1>1. Fail /\ (late' <=> (late \/ Present))
  BY DEF GiveUp
<1>2. ~Present => Quiet
  BY SMT DEF DeviceOK, Quiet, Idle
<1> QED
  BY <1>1, <1>2, FailMeets

\* Driver and drive keep meeting.
LEMMA MeetStep ==
    ASSUME DriverOK, DeviceOK, MeetOK, [IdeNext]_ideVars
    PROVE  MeetOK'
<1> USE IdeAssumption, StatusBits, FailStep
    DEF DriverOK, ReqNames, SectorPcs, PacketPcs,
        DeviceOK, DevStates, States, Cmds, Parts, Sectors, Kinds, Idle, Present, Understood,
        MeetOK, Quiet, Resetting, Mine, Way, Offered, Asked, Req, NoReq, NoOut, Ok, Error, Goto, drive, ghosts
<1>1. CASE SoftReset
  BY <1>1, SMT DEF SoftReset
<1>2. CASE ResetWait
  <2>1. late' <=> (late \/ (Present /\ "BSY" \in Status /\ polls = MaxPolls))
    BY <1>2 DEF ResetWait
  <2>2. ~Present => Quiet
    BY SMT
  <2> QED
    BY SMTT(30), <1>2, <2>1, <2>2 DEF ResetWait
<1>3. CASE Issue
  BY SMTT(30), <1>3 DEF Issue, Command
<1>4. CASE ide_wait_not_busy("notbusy", "drq")
  <2>1. CASE "BSY" \notin Status
    BY <1>4, <2>1 DEF ide_wait_not_busy
  <2>2. CASE "BSY" \in Status /\ polls < MaxPolls
    BY <1>4, <2>2 DEF ide_wait_not_busy
  <2>3. CASE "BSY" \in Status /\ ~(polls < MaxPolls)
    <3>1. GiveUp /\ UNCHANGED <<dev, op>> /\ pc # "reset"
      BY <1>4, <2>3 DEF ide_wait_not_busy
    <3> QED
      BY <3>1, GiveUpMeets
  <2> QED
    BY <2>1, <2>2, <2>3
<1>5. CASE ide_wait_drq("drq")
  <2>1. CASE "ERR" \in Status \/ ("DRQ" \notin Status /\ "BSY" \notin Status)
    <3>1. Fail /\ UNCHANGED <<dev, op, late>> /\ pc # "reset"
      BY <1>5, <2>1 DEF ide_wait_drq
    <3>2. Quiet
      BY <2>1, SMT
    <3> QED
      BY <3>1, <3>2, FailMeets
  <2>2. CASE "ERR" \notin Status /\ "DRQ" \in Status
    BY <1>5, <2>2 DEF ide_wait_drq
  <2>3. CASE "ERR" \notin Status /\ "DRQ" \notin Status /\ "BSY" \in Status /\ polls < MaxPolls
    BY <1>5, <2>3 DEF ide_wait_drq
  <2>4. CASE "ERR" \notin Status /\ "DRQ" \notin Status /\ "BSY" \in Status /\ ~(polls < MaxPolls)
    <3>1. GiveUp /\ UNCHANGED <<dev, op>> /\ pc # "reset"
      BY <1>5, <2>4 DEF ide_wait_drq
    <3> QED
      BY <3>1, GiveUpMeets
  <2> QED
    BY <2>1, <2>2, <2>3, <2>4
<1>6. CASE ide_wait_drq("drqcdb")
  <2>1. CASE "ERR" \in Status \/ ("DRQ" \notin Status /\ "BSY" \notin Status)
    <3>1. Fail /\ UNCHANGED <<dev, op, late>> /\ pc # "reset"
      BY <1>6, <2>1 DEF ide_wait_drq
    <3>2. Quiet
      BY <2>1, SMT
    <3> QED
      BY <3>1, <3>2, FailMeets
  <2>2. CASE "ERR" \notin Status /\ "DRQ" \in Status
    BY <1>6, <2>2 DEF ide_wait_drq
  <2>3. CASE "ERR" \notin Status /\ "DRQ" \notin Status /\ "BSY" \in Status /\ polls < MaxPolls
    BY <1>6, <2>3 DEF ide_wait_drq
  <2>4. CASE "ERR" \notin Status /\ "DRQ" \notin Status /\ "BSY" \in Status /\ ~(polls < MaxPolls)
    <3>1. GiveUp /\ UNCHANGED <<dev, op>> /\ pc # "reset"
      BY <1>6, <2>4 DEF ide_wait_drq
    <3> QED
      BY <3>1, GiveUpMeets
  <2> QED
    BY <2>1, <2>2, <2>3, <2>4
<1>7. CASE ReadSector
  BY <1>7 DEF ReadSector, Incoming
<1>8. CASE WriteSector
  BY <1>8 DEF WriteSector, Turn
<1>9. CASE SendCdb
  BY <1>9 DEF SendCdb, Turn
<1>10. CASE ide_wait_not_busy("written", "check")
  <2>1. CASE "BSY" \notin Status
    BY <1>10, <2>1 DEF ide_wait_not_busy
  <2>2. CASE "BSY" \in Status /\ polls < MaxPolls
    BY <1>10, <2>2 DEF ide_wait_not_busy
  <2>3. CASE "BSY" \in Status /\ ~(polls < MaxPolls)
    <3>1. GiveUp /\ UNCHANGED <<dev, op>> /\ pc # "reset"
      BY <1>10, <2>3 DEF ide_wait_not_busy
    <3> QED
      BY <3>1, GiveUpMeets
  <2> QED
    BY <2>1, <2>2, <2>3
<1>11. CASE DataWait
  <2>1. CASE "BSY" \notin Status
    BY <1>11, <2>1 DEF DataWait
  <2>2. CASE "BSY" \in Status /\ polls < MaxPolls
    BY <1>11, <2>2 DEF DataWait
  <2>3. CASE "BSY" \in Status /\ ~(polls < MaxPolls)
    <3>1. GiveUp /\ UNCHANGED <<dev, op>> /\ pc # "reset"
      BY <1>11, <2>3, SMT DEF DataWait
    <3> QED
      BY <3>1, GiveUpMeets
  <2> QED
    BY <2>1, <2>2, <2>3
<1>12. CASE ReadPacket
  <2> PICK sent \in {"all", "less", "first"} :
               /\ late' = (late \/ sent = "first")
               /\ dev' = Turn("busy", IF sent = "first" THEN "cdb" ELSE "sent")
    BY <1>12 DEF ReadPacket
  <2>1. late' <=> (late \/ sent = "first")
    OBVIOUS
  <2> QED
    BY <1>12, <2>1 DEF ReadPacket, Turn
<1>13. CASE Settle
  <2>1. late' <=> (late \/ (Present /\ "BSY" \in Status /\ polls = MaxPolls))
    BY <1>13 DEF Settle
  <2>2. ~Present => Quiet
    BY SMT
  <2> QED
    BY <1>13, <2>1, <2>2, SMT DEF Settle
<1>14. CASE Check
  BY <1>14 DEF Check, Succeed, Done
<1>15. CASE Return
  BY <1>15 DEF Return
<1>16. CASE DevAnswers
  BY <1>16, SMTT(30) DEF DevAnswers, Turn
<1>17. CASE DevErrs
  BY <1>17 DEF DevErrs
<1>18. CASE DevFaults
  BY <1>18 DEF DevFaults
<1>19. CASE Request
  <2>1. /\ pc = "idle" /\ UNCHANGED <<dev, late>>
        /\ \/ pc' = "issue" /\ op'.name \in {"read", "write"}
           \/ pc' = "reset"
    BY <1>19, SMT DEF Request, Begin, vol_read_blk, vol_write_blk, ide_probe_type,
          AskCapacity, ide_atapi_read2048, ide_atapi_inquiry
  <2> QED
    BY <2>1
<1>20. CASE UNCHANGED ideVars
  BY <1>20 DEF ideVars
<1> QED
  BY <1>1, <1>2, <1>3, <1>4, <1>5, <1>6, <1>7, <1>8, <1>9, <1>10, <1>11, <1>12, <1>13, <1>14,
     <1>15, <1>16, <1>17, <1>18, <1>19, <1>20 DEF IdeNext, Work, Device

\* What a sequence with one more element holds.
LEMMA AppendAt ==
    ASSUME NEW S, NEW s \in Seq(S), NEW d \in S
    PROVE  Append(s, d)[Len(s) + 1] = d /\ \A j \in 1 .. Len(s) : Append(s, d)[j] = s[j]
  BY SMT

\* What a read has put into the buffer is on the medium.
LEMMA ReadStep ==
    ASSUME DriverOK, DeviceOK, MeetOK, ReadOK, [IdeNext]_ideVars
    PROVE  ReadOK'
<1> USE IdeAssumption, StatusBits, FailStep
    DEF ReadOK, Due, DriverOK, ReqNames, SectorPcs, PacketPcs,
        DeviceOK, DevStates, States, Cmds, Parts, Sectors, Kinds, Idle, Present, Understood,
        MeetOK, Quiet, Resetting, Mine, Way, Offered, Asked, Req, NoReq, NoOut, Ok, Error, Goto, drive, ghosts
<1>1. CASE SoftReset
  BY <1>1 DEF SoftReset
<1>2. CASE ResetWait
  BY <1>2 DEF ResetWait
<1>3. CASE Issue
  BY <1>3 DEF Issue, Command
<1>4. CASE ide_wait_not_busy("notbusy", "drq")
  BY SMTT(30), <1>4 DEF ide_wait_not_busy, GiveUp
<1>5. CASE ide_wait_drq("drq")
  BY <1>5 DEF ide_wait_drq, GiveUp
<1>6. CASE ide_wait_drq("drqcdb")
  BY <1>6 DEF ide_wait_drq, GiveUp
<1>7. CASE ReadSector
  <2>1. CASE op.name = "read" /\ ~late
    <3>1. /\ pc = "xfer" /\ pc' = "check" /\ n \in {0, 1} /\ out.ret # "error"
          /\ UNCHANGED <<medium, op, n, out, late>>
      BY <1>7, <2>1, SMT DEF ReadSector
    <3>2. buf' = Append(buf, medium[2 * op.blk + n]) /\ medium[2 * op.blk + n] \in Data
      BY <1>7, <2>1, <3>1 DEF ReadSector, Incoming
    <3>3. Len(buf) = n /\ buf \in Seq(Data) /\ \A i \in {0, 1} : i < n => buf[i + 1] = medium[2 * op.blk + i]
      BY <2>1, <3>1
    <3>4. Len(buf') = n + 1 /\ buf' \in Seq(Data)
      BY <3>1, <3>2, <3>3, SMT
    <3>5. \A i \in {0, 1} : i < n + 1 => buf'[i + 1] = medium[2 * op.blk + i]
      <4>1. PICK d \in Data : d = medium[2 * op.blk + n] /\ buf' = Append(buf, d)
        BY <3>2
      <4>2. Append(buf, d)[Len(buf) + 1] = d /\ \A j \in 1 .. Len(buf) : Append(buf, d)[j] = buf[j]
        BY SMTT(30), <3>3, AppendAt
      <4>3. buf'[n + 1] = d /\ \A j \in 1 .. n : buf'[j] = buf[j]
        BY <3>3, <4>1, <4>2
      <4>4. \A i \in {0, 1} : i < n + 1 => i = n \/ (i < n /\ i + 1 \in 1 .. n)
        BY <3>1, SMT
      <4>5. ASSUME NEW i \in {0, 1}, i < n, i + 1 \in 1 .. n
            PROVE  buf'[i + 1] = medium[2 * op.blk + i]
        <5>1. buf'[i + 1] = buf[i + 1]
          BY <4>3, <4>5
        <5>2. buf[i + 1] = medium[2 * op.blk + i]
          BY <3>3, <4>5
        <5> QED
          BY <5>1, <5>2
      <4>6. buf'[n + 1] = medium[2 * op.blk + n]
        BY <4>1, <4>3
      <4> QED
        BY <4>4, <4>5, <4>6
    <3> QED
      BY <2>1, <3>1, <3>4, <3>5
  <2>2. CASE op.name # "read" \/ late
    BY <1>7, <2>2 DEF ReadSector
  <2> QED
    BY <2>1, <2>2
<1>8. CASE WriteSector
  BY <1>8 DEF WriteSector, Turn
<1>9. CASE SendCdb
  BY <1>9 DEF SendCdb, Turn
<1>10. CASE ide_wait_not_busy("written", "check")
  BY <1>10 DEF ide_wait_not_busy, GiveUp
<1>11. CASE DataWait
  BY <1>11 DEF DataWait, GiveUp
<1>12. CASE ReadPacket
  BY <1>12 DEF ReadPacket, Turn
<1>13. CASE Settle
  BY <1>13 DEF Settle
<1>14. CASE Check
  <2>1. CASE "ERR" \in Status /\ cmd \notin {"IDENTIFY", "IDPACKET"}
    BY <1>14, <2>1 DEF Check
  <2>2. CASE ~("ERR" \in Status /\ cmd \notin {"IDENTIFY", "IDPACKET"}) /\ op.name = "read"
    <3>1. Succeed /\ cmd = "READ" /\ n \in {0, 1} /\ UNCHANGED <<medium, op, buf, late>> /\ pc = "check"
      BY <1>14, <2>2 DEF Check
    <3>2. Due' = n + 1
      BY <2>2, <3>1, SMTT(30) DEF Succeed, Done, Due
    <3>3. Due = n + 1 /\ out.ret # "error"
      BY <3>1, SMT DEF Due
    <3> QED
      BY SMTT(30), <2>2, <3>1, <3>2, <3>3 DEF ReadOK
  <2>3. CASE op.name # "read"
    BY <1>14, <2>3 DEF Check
  <2> QED
    BY <2>1, <2>2, <2>3
<1>15. CASE Return
  BY <1>15 DEF Return
<1>16. CASE DevAnswers
  <2>1. UNCHANGED <<pc, n, op, buf, out, late>>
    BY <1>16 DEF DevAnswers
  <2>2. CASE medium' = medium
    BY <2>1, <2>2
  <2>3. CASE medium' # medium
    <3>1. dev.st = "busy" /\ dev.cmd = "WRITE" /\ dev.part \in Data
      BY <1>16, <2>3 DEF DevAnswers
    <3>2. ~(op.name = "read" /\ ~late /\ out.ret # "error")
      BY <3>1
    <3> QED
      BY <2>1, <3>2
  <2> QED
    BY <2>2, <2>3
<1>17. CASE DevErrs
  BY <1>17 DEF DevErrs
<1>18. CASE DevFaults
  BY <1>18 DEF DevFaults
<1>19. CASE Request
  <2>1. op'.name = "read" => Due' = 0 /\ buf' = <<>>
    BY <1>19 DEF Request, Begin, vol_read_blk, vol_write_blk, ide_probe_type,
          AskCapacity, ide_atapi_read2048, ide_atapi_inquiry
  <2>2. Len(<<>>) = 0 /\ <<>> \in Seq(Data) /\ \A i \in {0, 1} : ~(i < 0)
    BY SMT
  <2> HIDE DEF Due
  <2> QED
    BY <2>1, <2>2
<1>20. CASE UNCHANGED ideVars
  BY <1>20 DEF ideVars
<1> QED
  BY <1>1, <1>2, <1>3, <1>4, <1>5, <1>6, <1>7, <1>8, <1>9, <1>10, <1>11, <1>12, <1>13, <1>14,
     <1>15, <1>16, <1>17, <1>18, <1>19, <1>20 DEF IdeNext, Work, Device

\* What a write has sent is on the medium.
LEMMA WriteStep ==
    ASSUME DriverOK, DeviceOK, MeetOK, WriteOK, [IdeNext]_ideVars
    PROVE  WriteOK'
<1> USE IdeAssumption, StatusBits, FailStep
    DEF WriteOK, Due, DriverOK, ReqNames, SectorPcs, PacketPcs,
        DeviceOK, DevStates, States, Cmds, Parts, Sectors, Kinds, Idle, Present, Understood,
        MeetOK, Quiet, Resetting, Mine, Way, Offered, Asked, Req, NoReq, NoOut, Ok, Error, Goto, drive, ghosts
<1>1. CASE SoftReset
  BY <1>1 DEF SoftReset
<1>2. CASE ResetWait
  BY <1>2 DEF ResetWait
<1>3. CASE Issue
  BY <1>3 DEF Issue, Command
<1>4. CASE ide_wait_not_busy("notbusy", "drq")
  BY <1>4 DEF ide_wait_not_busy, GiveUp
<1>5. CASE ide_wait_drq("drq")
  BY <1>5 DEF ide_wait_drq, GiveUp
<1>6. CASE ide_wait_drq("drqcdb")
  BY <1>6 DEF ide_wait_drq, GiveUp
<1>7. CASE ReadSector
  BY <1>7 DEF ReadSector, Incoming
<1>8. CASE WriteSector
  BY <1>8 DEF WriteSector, Turn
<1>9. CASE SendCdb
  BY <1>9 DEF SendCdb, Turn
<1>10. CASE ide_wait_not_busy("written", "check")
  <2>1. CASE "BSY" \notin Status /\ op.name = "write" /\ ~late
    <3>1. /\ pc = "written" /\ pc' = "check" /\ dev.st \in {"idle", "error"}
          /\ UNCHANGED <<medium, dev, op, n, out, late, fault>>
      BY <1>10, <2>1 DEF ide_wait_not_busy
    <3>2. Due = n /\ Due' = n + 1 /\ n \in {0, 1}
      BY <3>1
    <3>3. \A i \in {0, 1} : i < n + 1 => i < n \/ i = n
      BY <3>2, SMT
    <3> HIDE DEF Due
    <3> QED
      BY <3>1, <3>2, <3>3
  <2>2. CASE "BSY" \in Status /\ polls < MaxPolls
    BY <1>10, <2>2 DEF ide_wait_not_busy
  <2>3. CASE "BSY" \in Status /\ ~(polls < MaxPolls) /\ op.name = "write"
    <3>1. Fail /\ op' = op
      BY <1>10, <2>3 DEF ide_wait_not_busy, GiveUp
    <3> QED
      BY <2>3, <3>1
  <2>4. CASE op.name # "write" \/ ("BSY" \notin Status /\ late)
    BY <1>10, <2>4 DEF ide_wait_not_busy
  <2> QED
    BY <2>1, <2>2, <2>3, <2>4
<1>11. CASE DataWait
  BY <1>11 DEF DataWait, GiveUp
<1>12. CASE ReadPacket
  BY <1>12 DEF ReadPacket, Turn
<1>13. CASE Settle
  BY <1>13 DEF Settle
<1>14. CASE Check
  BY <1>14, SMT DEF Check, Succeed, Done
<1>15. CASE Return
  BY <1>15 DEF Return
<1>16. CASE DevAnswers
  <2>1. CASE late \/ fault \/ op.name # "write" \/ out.ret = "error"
    BY <1>16, <2>1 DEF DevAnswers
  <2>2. CASE ~late /\ op.name = "write" /\ dev.cmd = "WRITE" /\ dev.part \in Data
    <3>1. pc = "written" /\ dev.lba = 2 * op.blk + n /\ dev.part = op.data[n + 1]
      BY <1>16, <2>2 DEF DevAnswers
    <3>2. medium' = [medium EXCEPT ![2 * op.blk + n] = op.data[n + 1]] /\ UNCHANGED <<pc, op, n>>
      BY <1>16, <2>2, <3>1 DEF DevAnswers
    <3> QED
      BY <1>16, <2>2, <3>1, <3>2, SMTT(30) DEF DevAnswers
  <2>3. CASE ~late /\ op.name = "write" /\ ~(dev.cmd = "WRITE" /\ dev.part \in Data)
    <3>1. medium' = medium /\ pc # "written" /\ pc # "check"
      BY <1>16, <2>3, SMT DEF DevAnswers
    <3> QED
      BY <1>16, <2>3, <3>1 DEF DevAnswers
  <2> QED
    BY <2>1, <2>2, <2>3
<1>17. CASE DevErrs
  BY <1>17 DEF DevErrs
<1>18. CASE DevFaults
  BY <1>18 DEF DevFaults
<1>19. CASE Request
  <2>1. op'.name = "write" => pc' = "issue" /\ Due' = 0
    BY <1>19, SMT DEF Request, Begin, vol_read_blk, vol_write_blk, ide_probe_type,
          AskCapacity, ide_atapi_read2048, ide_atapi_inquiry
  <2>2. \A i \in {0, 1} : ~(i < 0)
    BY SMT
  <2> HIDE DEF Due
  <2> QED
    BY <2>1, <2>2
<1>20. CASE UNCHANGED ideVars
  BY <1>20 DEF ideVars
<1> QED
  BY <1>1, <1>2, <1>3, <1>4, <1>5, <1>6, <1>7, <1>8, <1>9, <1>10, <1>11, <1>12, <1>13, <1>14,
     <1>15, <1>16, <1>17, <1>18, <1>19, <1>20 DEF IdeNext, Work, Device

\* The drive is taken for what it is.
LEMMA ProbeStep ==
    ASSUME DriverOK, DeviceOK, MeetOK, ProbeOK, [IdeNext]_ideVars
    PROVE  ProbeOK'
<1> USE IdeAssumption, StatusBits, FailStep
    DEF ProbeOK, DriverOK, ReqNames, SectorPcs, PacketPcs,
        DeviceOK, DevStates, States, Cmds, Parts, Sectors, Kinds, Idle, Present, Understood,
        MeetOK, Quiet, Resetting, Mine, Way, Offered, Asked, Req, NoReq, NoOut, Ok, Error, Goto, drive, ghosts
<1>1. CASE SoftReset
  BY <1>1 DEF SoftReset
<1>2. CASE ResetWait
  BY <1>2 DEF ResetWait
<1>3. CASE Issue
  BY <1>3 DEF Issue, Command
<1>4. CASE ide_wait_not_busy("notbusy", "drq")
  BY <1>4 DEF ide_wait_not_busy, GiveUp
<1>5. CASE ide_wait_drq("drq")
  BY <1>5 DEF ide_wait_drq, GiveUp
<1>6. CASE ide_wait_drq("drqcdb")
  BY <1>6 DEF ide_wait_drq, GiveUp
<1>7. CASE ReadSector
  BY <1>7, SMT DEF ReadSector, Incoming
<1>8. CASE WriteSector
  BY <1>8 DEF WriteSector, Turn
<1>9. CASE SendCdb
  BY <1>9 DEF SendCdb, Turn
<1>10. CASE ide_wait_not_busy("written", "check")
  BY <1>10 DEF ide_wait_not_busy, GiveUp
<1>11. CASE DataWait
  BY <1>11 DEF DataWait, GiveUp
<1>12. CASE ReadPacket
  BY <1>12 DEF ReadPacket, Turn
<1>13. CASE Settle
  BY <1>13 DEF Settle
<1>14. CASE Check
  <2>1. CASE op.name = "probe"
    <3>1. pc = "check" /\ cmd \in {"IDENTIFY", "IDPACKET"} /\ Succeed /\ UNCHANGED <<kind, op, buf>>
      BY <1>14, <2>1 DEF Check
    <3>2. pc' = "done" /\ cmd' = cmd /\ out'.class = IF cmd = "IDENTIFY" THEN "ata" ELSE "atapi"
      BY <2>1, <3>1, SucceedStep
    <3>3. buf = <<cmd>> /\ kind = IF cmd = "IDENTIFY" THEN "ata" ELSE "atapi"
      BY <2>1, <3>1
    <3> QED
      BY <2>1, <3>1, <3>2, <3>3
  <2>2. CASE op.name # "probe"
    BY <1>14, <2>2 DEF Check
  <2> QED
    BY <2>1, <2>2
<1>15. CASE Return
  BY <1>15 DEF Return
<1>16. CASE DevAnswers
  BY <1>16 DEF DevAnswers, Turn
<1>17. CASE DevErrs
  BY <1>17 DEF DevErrs
<1>18. CASE DevFaults
  BY <1>18 DEF DevFaults
<1>19. CASE Request
  BY <1>19 DEF Request, Begin, vol_read_blk, vol_write_blk, ide_probe_type,
          AskCapacity, ide_atapi_read2048, ide_atapi_inquiry
<1>20. CASE UNCHANGED ideVars
  BY <1>20 DEF ideVars
<1> QED
  BY <1>1, <1>2, <1>3, <1>4, <1>5, <1>6, <1>7, <1>8, <1>9, <1>10, <1>11, <1>12, <1>13, <1>14,
     <1>15, <1>16, <1>17, <1>18, <1>19, <1>20 DEF IdeNext, Work, Device

\* A size that ide_capacity_sectors computes, if not 0, and the fallback fit
\* and are among the sizes that the disk may have.
LEMMA CapacityInRange ==
    ASSUME NEW g \in Geometries, NEW t,
           t = Fallback \/ (t = ide_capacity_sectors(g) /\ ide_capacity_sectors(g) # 0)
    PROVE  /\ t \in 1 .. MaxSectors
           /\ t \in {g.n28, g.n48, g.n28 % (MaxLba28 + 1), MaxSectors, Fallback}
<1>1. g.n28 \in Nat /\ g.n48 \in Nat /\ g.lba48 \in BOOLEAN
  BY IdeAssumption
<1>2. g.n28 % (MaxLba28 + 1) \in 0 .. MaxLba28
  BY <1>1, IdeAssumption, SMT
<1>3. PICK r \in 0 .. MaxLba28 : r = g.n28 % (MaxLba28 + 1)
  BY <1>2
<1> QED
  BY <1>1, <1>3, IdeAssumption, SMT DEF ide_capacity_sectors

\* The size that is reported is one that the disk may have.
LEMMA CapacityStep ==
    ASSUME DriverOK, DeviceOK, MeetOK, CapacityOK, [IdeNext]_ideVars
    PROVE  CapacityOK'
<1> USE IdeAssumption, StatusBits, FailStep
    DEF CapacityOK, DriverOK, ReqNames, SectorPcs, PacketPcs,
        DeviceOK, DevStates, States, Cmds, Parts, Sectors, Kinds, Idle, Present, Understood,
        MeetOK, Quiet, Resetting, Mine, Way, Offered, Asked, Req, NoReq, NoOut, Ok, Error, Goto, drive, ghosts
<1>1. CASE SoftReset
  BY <1>1 DEF SoftReset
<1>2. CASE ResetWait
  BY <1>2 DEF ResetWait
<1>3. CASE Issue
  BY <1>3 DEF Issue, Command
<1>4. CASE ide_wait_not_busy("notbusy", "drq")
  BY <1>4 DEF ide_wait_not_busy, GiveUp
<1>5. CASE ide_wait_drq("drq")
  BY <1>5 DEF ide_wait_drq, GiveUp
<1>6. CASE ide_wait_drq("drqcdb")
  BY <1>6 DEF ide_wait_drq, GiveUp
<1>7. CASE ReadSector
  BY <1>7 DEF ReadSector, Incoming
<1>8. CASE WriteSector
  BY <1>8 DEF WriteSector, Turn
<1>9. CASE SendCdb
  BY <1>9 DEF SendCdb, Turn
<1>10. CASE ide_wait_not_busy("written", "check")
  BY <1>10 DEF ide_wait_not_busy, GiveUp
<1>11. CASE DataWait
  BY <1>11 DEF DataWait, GiveUp
<1>12. CASE ReadPacket
  BY <1>12 DEF ReadPacket, Turn
<1>13. CASE Settle
  BY <1>13 DEF Settle
<1>14. CASE Check
  <2>1. CASE op.name # "capacity" \/ ("ERR" \in Status /\ cmd \notin {"IDENTIFY", "IDPACKET"})
    BY <1>14, <2>1 DEF Check, Succeed, Done
  <2>2. CASE op.name = "capacity" /\ ~("ERR" \in Status /\ cmd \notin {"IDENTIFY", "IDPACKET"})
    <3>1. Succeed /\ pc = "check" /\ UNCHANGED <<kind, geo, op>> /\ kind = "ata" /\ geo \in Geometries
      BY <1>14, <2>2 DEF Check
    <3>2. \/ /\ ide_capacity_sectors(geo) # 0 /\ out'.total = ide_capacity_sectors(geo)
          \/ out'.total = Fallback
          \/ pc' = "issue"
      <4>1. cmd \in {"IDENTIFY", "READ"}
        BY <2>2, <3>1
      <4> QED
        BY <2>2, <3>1, <4>1, SucceedStep
    <3>3. ASSUME pc' # "issue"
          PROVE  /\ out'.total \in 1 .. MaxSectors
                 /\ out'.total \in {geo.n28, geo.n48, geo.n28 % (MaxLba28 + 1), MaxSectors, Fallback}
      <4>1. PICK t : t = out'.total
        OBVIOUS
      <4>2. t = Fallback \/ (t = ide_capacity_sectors(geo) /\ ide_capacity_sectors(geo) # 0)
        BY <3>2, <3>3, <4>1
      <4>3. t \in 1 .. MaxSectors /\ t \in {geo.n28, geo.n48, geo.n28 % (MaxLba28 + 1), MaxSectors, Fallback}
        BY <3>1, <4>2, CapacityInRange
      <4> QED
        BY <4>1, <4>3
    <3> QED
      BY <2>2, <3>1, <3>3
  <2> QED
    BY <2>1, <2>2
<1>15. CASE Return
  BY <1>15 DEF Return
<1>16. CASE DevAnswers
  BY <1>16 DEF DevAnswers, Turn
<1>17. CASE DevErrs
  BY <1>17 DEF DevErrs
<1>18. CASE DevFaults
  BY <1>18 DEF DevFaults
<1>19. CASE Request
  BY <1>19 DEF Request, Begin, vol_read_blk, vol_write_blk, ide_probe_type,
          AskCapacity, ide_atapi_read2048, ide_atapi_inquiry
<1>20. CASE UNCHANGED ideVars
  BY <1>20 DEF ideVars
<1> QED
  BY <1>1, <1>2, <1>3, <1>4, <1>5, <1>6, <1>7, <1>8, <1>9, <1>10, <1>11, <1>12, <1>13, <1>14,
     <1>15, <1>16, <1>17, <1>18, <1>19, <1>20 DEF IdeNext, Work, Device

\* A packet command gets its own data.
LEMMA PacketStep ==
    ASSUME DriverOK, DeviceOK, MeetOK, PacketOK, [IdeNext]_ideVars
    PROVE  PacketOK'
<1> USE IdeAssumption, StatusBits, FailStep
    DEF PacketOK, DriverOK, ReqNames, SectorPcs, PacketPcs,
        DeviceOK, DevStates, States, Cmds, Parts, Sectors, Kinds, Idle, Present, Understood,
        MeetOK, Quiet, Resetting, Mine, Way, Offered, Asked, Req, NoReq, NoOut, Ok, Error, Goto, drive, ghosts
<1>1. CASE SoftReset
  BY <1>1, SMT DEF SoftReset
<1>2. CASE ResetWait
  BY <1>2 DEF ResetWait
<1>3. CASE Issue
  BY <1>3, SMT DEF Issue, Command
<1>4. CASE ide_wait_not_busy("notbusy", "drq")
  BY <1>4 DEF ide_wait_not_busy, GiveUp
<1>5. CASE ide_wait_drq("drq")
  BY <1>5 DEF ide_wait_drq, GiveUp
<1>6. CASE ide_wait_drq("drqcdb")
  BY <1>6 DEF ide_wait_drq, GiveUp
<1>7. CASE ReadSector
  BY <1>7 DEF ReadSector, Incoming
<1>8. CASE WriteSector
  BY <1>8 DEF WriteSector, Turn
<1>9. CASE SendCdb
  BY <1>9 DEF SendCdb, Turn
<1>10. CASE ide_wait_not_busy("written", "check")
  BY <1>10 DEF ide_wait_not_busy, GiveUp
<1>11. CASE DataWait
  BY <1>11 DEF DataWait, GiveUp
<1>12. CASE ReadPacket
  <2> PICK sent \in {"all", "less", "first"} :
               /\ buf' = Append(buf, IF sent = "all" THEN Incoming ELSE Junk)
               /\ short' = (sent # "all")
    BY <1>12 DEF ReadPacket
  <2>1. CASE op.name \in {"read2048", "inquiry"}
    <3>1. pc = "xferdata" /\ pc' = "settle" /\ UNCHANGED op /\ buf = <<>>
      BY <1>12, <2>1 DEF ReadPacket
    <3>2. Incoming = "PACKET"
      BY <2>1, <3>1, SMT DEF Incoming
    <3>3. ~short' => sent = "all"
      OBVIOUS
    <3>4. sent = "all" => buf' = <<"PACKET">>
      BY <3>1, <3>2, SMT
    <3> QED
      BY <2>1, <3>1, <3>3, <3>4
  <2>2. CASE op.name \notin {"read2048", "inquiry"}
    BY <1>12, <2>2 DEF ReadPacket
  <2> QED
    BY <2>1, <2>2
<1>13. CASE Settle
  BY <1>13 DEF Settle
<1>14. CASE Check
  <2>1. CASE op.name \in {"read2048", "inquiry"}
    <3>1. pc = "check" /\ cmd = "PACKET" /\ UNCHANGED <<op, buf, short>> /\ (Fail \/ Succeed)
      BY <1>14, <2>1 DEF Check
    <3>2. CASE Fail
      BY <2>1, <3>1, <3>2
    <3>3. CASE Succeed
      <4>1. /\ pc' = "done"
            /\ out'.ret # "error" => IF op.name = "inquiry" THEN out'.total = Len(buf) ELSE buf # <<>>
        BY <2>1, <3>1, <3>3, SucceedStep
      <4> QED
        BY <2>1, <3>1, <4>1
    <3> QED
      BY <3>1, <3>2, <3>3
  <2>2. CASE op.name \notin {"read2048", "inquiry"}
    BY <1>14, <2>2 DEF Check
  <2> QED
    BY <2>1, <2>2
<1>15. CASE Return
  BY <1>15 DEF Return
<1>16. CASE DevAnswers
  BY <1>16, SMT DEF DevAnswers, Turn
<1>17. CASE DevErrs
  BY <1>17, SMT DEF DevErrs
<1>18. CASE DevFaults
  BY <1>18 DEF DevFaults
<1>19. CASE Request
  BY <1>19, SMT DEF Request, Begin, vol_read_blk, vol_write_blk, ide_probe_type,
          AskCapacity, ide_atapi_read2048, ide_atapi_inquiry
<1>20. CASE UNCHANGED ideVars
  BY <1>20 DEF ideVars
<1> QED
  BY <1>1, <1>2, <1>3, <1>4, <1>5, <1>6, <1>7, <1>8, <1>9, <1>10, <1>11, <1>12, <1>13, <1>14,
     <1>15, <1>16, <1>17, <1>18, <1>19, <1>20 DEF IdeNext, Work, Device

(***************************************************************************)
(* The theorems                                                            *)
(***************************************************************************)
\* The invariant holds at the start.
LEMMA IdeStart ==
    ASSUME IdeInit
    PROVE  IdeInv
  BY SMTT(30), IdeAssumption
     DEF IdeInit, IdeInv, DriverOK, DeviceOK, MeetOK, ReadOK, WriteOK, ProbeOK, CapacityOK, PacketOK,
         Due, ReqNames, Req, NoReq, NoOut,
         DevStates, States, Cmds, Parts, Sectors, Kinds, Idle, Present, Understood, Quiet

\* It holds in every state of the driver.
LEMMA IdeInvariant == IdeSpec => []IdeInv
<1>1. IdeInv /\ [IdeNext]_ideVars => IdeInv'
  BY DriverStep, DeviceStep, MeetStep, ReadStep, WriteStep, ProbeStep, CapacityStep, PacketStep DEF IdeInv
<1> QED
  BY <1>1, IdeStart, PTL DEF IdeSpec

\* A block read that reports success returns the block, for every size of the
\* volume, bound of the waits and content of the medium.
THEOREM ReadsReturnTheBlock == IdeSpec => []ReadsAreTrue
<1>1. IdeInv => ReadsAreTrue
  <2> SUFFICES ASSUME IdeInv, Returned("read"), ~late
               PROVE  buf = <<medium[2 * op.blk], medium[2 * op.blk + 1]>>
    BY DEF ReadsAreTrue
  <2>1. Len(buf) = 2 /\ buf \in Seq(Data) /\ \A i \in {0, 1} : buf[i + 1] = medium[2 * op.blk + i]
    BY SMT DEF IdeInv, ReadOK, Due, Returned
  <2>2. buf[1] = medium[2 * op.blk] /\ buf[2] = medium[2 * op.blk + 1]
    BY <2>1, SMT DEF IdeInv, DriverOK
  <2> QED
    BY <2>1, <2>2, SMT
<1> QED
  BY <1>1, IdeInvariant, PTL

\* A block write that reports success has put both sectors onto the medium.
THEOREM WritesReachTheMedium == IdeSpec => []WritesAreTrue
<1>1. IdeInv => WritesAreTrue
  BY SMT DEF IdeInv, WriteOK, WritesAreTrue, Returned, Due
<1> QED
  BY <1>1, IdeInvariant, PTL

\* No drive is ever taken for one of the other kind, on any bus, however late
\* the answers come.
THEOREM ProbesAreRight == IdeSpec => []ProbeIsRight
<1>1. IdeInv => ProbeIsRight
  BY DEF IdeInv, ProbeOK, ProbeIsRight, Returned
<1> QED
  BY <1>1, IdeInvariant, PTL

\* A size that is reported is never 0, fits 32 bits, and comes from a disk.
THEOREM CapacityInBounds == IdeSpec => []CapacityIsSound
<1>1. IdeInv => CapacityIsSound
  BY DEF IdeInv, CapacityOK, CapacityIsSound, Returned
<1> QED
  BY <1>1, IdeInvariant, PTL

\* A packet transfer that reports success holds what the drive sent for it.
THEOREM PacketsHoldTheirData == IdeSpec => []PacketsAreTrue
<1>1. IdeInv => PacketsAreTrue
  BY SMT DEF IdeInv, PacketOK, PacketsAreTrue, Returned
<1> QED
  BY <1>1, IdeInvariant, PTL

\* A sector changes only while its own block is being written.
THEOREM WritesStayInside == IdeSpec => WritesStayInBlock
<1>1. ASSUME IdeInv, [IdeNext]_ideVars
      PROVE  [~late => \A s \in Sectors : medium'[s] # medium[s] =>
                 op.name = "write" /\ s \in {2 * op.blk, 2 * op.blk + 1}]_ideVars
  <2> SUFFICES ASSUME ~late, NEW s \in Sectors, medium'[s] # medium[s]
               PROVE  op.name = "write" /\ s \in {2 * op.blk, 2 * op.blk + 1}
    OBVIOUS
  <2>1. Request => UNCHANGED medium
    BY DEF Request, Begin, vol_read_blk, vol_write_blk, ide_probe_type, AskCapacity, ide_atapi_read2048,
           ide_atapi_inquiry
  <2>2. Work => UNCHANGED medium
    BY DEF Work, SoftReset, ResetWait, Issue, ide_wait_not_busy, ide_wait_drq, ReadSector, WriteSector, SendCdb,
           DataWait, ReadPacket, Settle, Check, Return
  <2>3. DevErrs \/ DevFaults \/ UNCHANGED ideVars => UNCHANGED medium
    BY DEF DevErrs, DevFaults, ideVars
  <2>4. DevAnswers
    BY <1>1, <2>1, <2>2, <2>3 DEF IdeNext, Device
  <2>5. dev.st = "busy" /\ dev.part \in Data /\ s = dev.lba
    BY <1>1, <2>4, IdeAssumption DEF DevAnswers, IdeInv, DeviceOK, DevStates
  <2>6. dev.cmd = "WRITE" /\ pc # "drqdata"
    BY <1>1, <2>5 DEF IdeInv, DriverOK, DeviceOK, MeetOK, ReqNames, SectorPcs, PacketPcs
  <2>7. pc = "written" /\ Mine
    BY <1>1, <2>5, <2>6, IdeAssumption
       DEF IdeInv, DriverOK, MeetOK, ReqNames, SectorPcs, PacketPcs, Quiet, Resetting, Offered, Asked
  <2> QED
    BY <1>1, <2>5, <2>7, SMT DEF IdeInv, DriverOK, Mine, ReqNames, SectorPcs, PacketPcs
<1> QED
  BY <1>1, IdeInvariant, PTL DEF IdeSpec, WritesStayInBlock
=============================================================================
