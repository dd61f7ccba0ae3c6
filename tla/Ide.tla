-------------------------------- MODULE Ide ---------------------------------
(***************************************************************************)
(* ide.c: the polling driver of the primary IDE channel, against a drive   *)
(* that answers when it likes.  One step of the driver is a register       *)
(* write, one look at the status register, or the transfer of a sector.    *)
(* Every wait gives up after MaxPolls looks.  The drive is external: it is *)
(* modelled by what the driver can see of it.  While it is busy it ignores *)
(* everything but a reset, so it may still answer a command that the       *)
(* driver has given up.                                                    *)
(***************************************************************************)
EXTENDS Integers, Sequences, FiniteSets

CONSTANTS
    NBlk,           \* blocks of the volume; block b is sectors 2b and 2b + 1
    Data,           \* what a sector can hold
    Junk,           \* what the data register yields when no data is there
    Buffers,        \* blocks that are written: pairs of Data
    MaxPolls,       \* 100000
    Geometries,     \* identify words: [n28, n48, lba48]
    MaxLba28,       \* 0x0FFFFFFF
    MaxSectors,     \* 0xFFFFFFFF
    Fallback        \* 16384, the size assumed for a drive that reports none

ASSUME IdeAssumption ==
    /\ NBlk \in Nat \ {0} /\ MaxPolls \in Nat
    /\ Data \cap {"none", "in", "out", "cdb", "sent"} = {}
    /\ Junk \notin Data /\ Buffers \subseteq Data \X Data
    /\ Geometries \subseteq [n28 : Nat, n48 : Nat, lba48 : BOOLEAN]
    /\ MaxLba28 \in Nat /\ MaxSectors \in Nat /\ Fallback \in Nat
    /\ MaxLba28 <= MaxSectors /\ 0 < Fallback /\ Fallback <= MaxSectors

VARIABLES
    kind,      \* what is plugged in: "ata", "atapi", or a bus that floats
    geo,       \* its geometry
    medium,    \* the sectors of a disk
    dev,       \* [st, cmd, lba, part]: its status, and the command it carries out
    op,        \* the request the driver works on
    cmd,       \* the command it has sent last, or is about to send
    pc, polls,
    n,         \* sectors done
    buf,       \* data read so far
    out,       \* result of the request: [ret, class, total]
    late,      \* a command was given up and the channel not reset since
    fault,     \* the drive reported DF for this request
    short      \* the drive moved less than a whole block in one go

ideVars == <<kind, geo, medium, dev, op, cmd, pc, polls, n, buf, out, late, fault, short>>
drive == <<kind, geo>>
ghosts == <<late, fault, short>>

Sectors == 0 .. (2 * NBlk - 1)
Kinds == {"ata", "atapi", "high", "low"}
Idle == [st |-> "idle", cmd |-> "none", lba |-> 0, part |-> "none"]
NoOut == [ret |-> "none", class |-> "none", total |-> 0]
Req(name, blk, data) == [name |-> name, blk |-> blk, data |-> data]
NoReq == Req("none", 0, <<>>)

IdeInit ==
    /\ kind \in Kinds
    /\ geo \in IF kind = "ata" THEN Geometries ELSE {CHOOSE g \in Geometries : TRUE}
    /\ medium \in {[s \in Sectors |-> d] : d \in Data}
    /\ dev = Idle
    /\ op = NoReq /\ cmd = "none" /\ pc = "idle" /\ polls = 0
    /\ n = 0 /\ buf = <<>> /\ out = NoOut
    /\ late = FALSE /\ fault = FALSE /\ short = FALSE

(***************************************************************************)
(* The drive                                                               *)
(***************************************************************************)
\* The bits of the status register.  A bus without a drive reads as all ones
\* or all zeros.
Status ==
    CASE kind = "high" -> {"BSY", "DRQ", "ERR"}
      [] kind = "low" -> {}
      [] dev.st = "busy" -> {"BSY"}
      [] dev.st = "data" -> {"DRQ"}
      [] dev.st = "error" -> {"ERR"}
      [] OTHER -> {}

Present == kind \in {"ata", "atapi"}
Understood(c) == IF kind = "ata" THEN c # "PACKET" /\ c # "IDPACKET"
                 ELSE c \in {"PACKET", "IDPACKET"}

\* The drive turns to another part of its command.
Turn(st, part) == [st |-> st, cmd |-> dev.cmd, lba |-> dev.lba, part |-> part]

\* The drive finishes the part of the command it is busy with.
DevAnswers ==
    /\ Present /\ dev.st = "busy"
    /\ \/ /\ dev.cmd = "RESET"
          /\ dev' = Idle /\ UNCHANGED medium
       \/ /\ dev.cmd # "RESET" /\ ~Understood(dev.cmd)
          /\ dev' = [dev EXCEPT !.st = "error"] /\ UNCHANGED medium
       \/ /\ dev.cmd \in {"READ", "IDENTIFY", "IDPACKET"} /\ Understood(dev.cmd)
          /\ dev' = Turn("data", "in") /\ UNCHANGED medium
       \/ /\ dev.cmd \in {"WRITE", "PACKET"} /\ Understood(dev.cmd) /\ dev.part = "none"
          /\ dev' = Turn("data", "out") /\ UNCHANGED medium
       \/ /\ dev.cmd = "WRITE" /\ dev.part \in Data
          /\ medium' = [medium EXCEPT ![dev.lba] = dev.part]
          /\ dev' = Idle
       \/ /\ dev.cmd = "PACKET" /\ dev.part = "cdb"
          /\ dev' = Turn("data", "in") /\ UNCHANGED medium
       \/ /\ dev.cmd = "PACKET" /\ dev.part = "sent"
          /\ dev' = Idle /\ UNCHANGED medium
    /\ UNCHANGED <<drive, op, cmd, pc, polls, n, buf, out, ghosts>>

\* It reports an error instead.
DevErrs ==
    /\ Present /\ dev.st = "busy" /\ dev.cmd # "RESET"
    /\ dev' = [dev EXCEPT !.st = "error"]
    /\ UNCHANGED <<drive, medium, op, cmd, pc, polls, n, buf, out, ghosts>>

\* It fails and says so with DF alone.
DevFaults ==
    /\ Present /\ dev.st = "busy" /\ dev.cmd # "RESET"
    /\ dev' = Idle
    /\ fault' = TRUE
    /\ UNCHANGED <<drive, medium, op, cmd, pc, polls, n, buf, out, late, short>>

(***************************************************************************)
(* How a request goes on                                                   *)
(***************************************************************************)
Goto(p) == pc' = p /\ polls' = 0
Done(o) == Goto("done") /\ out' = o /\ UNCHANGED <<cmd, n>>
Ok == [NoOut EXCEPT !.ret = "ok"]
Error == [NoOut EXCEPT !.ret = "error"]

\* The sectors that the identify words promise.
ide_capacity_sectors(g) ==
    LET total == IF g.lba48 /\ g.n48 > 0 THEN g.n48
                 ELSE IF g.n28 > 0 /\ g.n28 <= MaxLba28 THEN g.n28
                 ELSE IF g.n48 > 0 THEN g.n48
                 ELSE IF g.n28 > 0 THEN g.n28 % (MaxLba28 + 1) ELSE 0
    IN  IF total > MaxSectors THEN MaxSectors ELSE total

Succeed_FirstSector ==
    CASE op.name = "probe" ->
           Done([Ok EXCEPT !.class = IF cmd = "IDENTIFY" THEN "ata" ELSE "atapi"])
      [] op.name = "capacity" -> Done([Ok EXCEPT !.total = Fallback])
      [] OTHER -> Done(Ok)
\* The command has ended well.
Succeed ==
    CASE op.name = "probe" ->
           Done([Ok EXCEPT !.class = IF cmd = "IDENTIFY" THEN "ata" ELSE "atapi"])
      [] op.name = "capacity" /\ cmd = "IDENTIFY" ->
           IF ide_capacity_sectors(geo) # 0
             THEN Done([Ok EXCEPT !.total = ide_capacity_sectors(geo)])
             ELSE Goto("issue") /\ cmd' = "READ" /\ UNCHANGED <<n, out>>
      [] op.name = "capacity" /\ cmd = "READ" -> Done([Ok EXCEPT !.total = Fallback])
      [] op.name \in {"read", "write"} /\ n = 0 ->
           Goto("issue") /\ n' = 1 /\ UNCHANGED <<cmd, out>>
      [] op.name = "read2048" /\ buf = <<>> -> Done(Error)
      [] op.name = "inquiry" -> Done([Ok EXCEPT !.total = Len(buf)])
      [] OTHER -> Done(Ok)

\* It has failed.
Fail ==
    CASE op.name = "probe" /\ cmd = "IDENTIFY" ->
           Goto("reset") /\ cmd' = "IDPACKET" /\ UNCHANGED <<n, out>>
      [] op.name = "capacity" /\ cmd = "IDENTIFY" ->
           Goto("issue") /\ cmd' = "READ" /\ UNCHANGED <<n, out>>
      [] OTHER -> Done(Error)

(***************************************************************************)
(* The driver                                                              *)
(***************************************************************************)
Begin(r, first, c) ==
    /\ pc = "idle"
    /\ op' = r /\ cmd' = c
    /\ Goto(first)
    /\ n' = 0 /\ buf' = <<>> /\ out' = NoOut
    /\ fault' = FALSE /\ short' = FALSE
    /\ UNCHANGED <<drive, medium, dev, late>>

vol_read_blk == \E b \in 0 .. (NBlk - 1) : Begin(Req("read", b, <<>>), "issue", "READ")
vol_write_blk ==
    \E b \in 0 .. (NBlk - 1), d \in Buffers : Begin(Req("write", b, d), "issue", "WRITE")
ide_probe_type == Begin(Req("probe", 0, <<>>), "reset", "IDENTIFY")
AskCapacity == Begin(Req("capacity", 0, <<>>), "reset", "IDENTIFY")
ide_atapi_read2048 == Begin(Req("read2048", 0, <<>>), "reset", "PACKET")
ide_atapi_inquiry == Begin(Req("inquiry", 0, <<>>), "reset", "PACKET")

\* The first half of ide_init: a soft reset ends whatever the drive is doing.
SoftReset_Skip ==
    /\ pc = "reset"
    /\ Goto("resetwait")
    /\ UNCHANGED <<drive, medium, dev, op, cmd, n, buf, out, ghosts>>
SoftReset ==
    /\ pc = "reset"
    /\ Goto("resetwait")
    /\ dev' = IF Present THEN [st |-> "busy", cmd |-> "RESET", lba |-> 0, part |-> "none"] ELSE dev
    /\ late' = FALSE
    /\ UNCHANGED <<drive, medium, op, cmd, n, buf, out, fault, short>>


\* The second half waits, and does not look at how the wait ended.
ResetWait ==
    /\ pc = "resetwait"
    /\ IF "BSY" \in Status /\ polls < MaxPolls
         THEN polls' = polls + 1 /\ UNCHANGED pc
         ELSE Goto("issue")
    /\ late' = (late \/ (Present /\ "BSY" \in Status /\ polls = MaxPolls))
    /\ UNCHANGED <<drive, medium, dev, op, cmd, n, buf, out, fault, short>>

\* Select, sector registers and command.  A busy drive ignores them; one that
\* waits to move data may.
Command(lba) == [st |-> "busy", cmd |-> cmd, lba |-> lba, part |-> "none"]
Issue_OneFurther ==
    /\ pc = "issue"
    /\ Goto(IF cmd = "PACKET" THEN "drqcdb" ELSE "notbusy")
    /\ dev' = IF Present /\ dev.st # "busy" THEN Command((2 * op.blk + n + 1) % (2 * NBlk)) ELSE dev
    /\ UNCHANGED <<drive, medium, op, cmd, n, buf, out, ghosts>>
Issue_SameSector ==
    /\ pc = "issue"
    /\ Goto(IF cmd = "PACKET" THEN "drqcdb" ELSE "notbusy")
    /\ dev' = IF Present /\ dev.st # "busy" THEN Command(2 * op.blk) ELSE dev
    /\ UNCHANGED <<drive, medium, op, cmd, n, buf, out, ghosts>>
Issue ==
    /\ pc = "issue"
    /\ Goto(IF cmd = "PACKET" THEN "drqcdb" ELSE "notbusy")
    /\ \/ Present /\ dev.st # "busy" /\ dev' = Command(2 * op.blk + n)
       \/ (~Present \/ dev.st \in {"busy", "data"}) /\ UNCHANGED dev
    /\ UNCHANGED <<drive, medium, op, cmd, n, buf, out, ghosts>>

\* A wait ends without an answer.
GiveUp ==
    /\ Fail
    /\ late' = (late \/ Present)

ide_wait_not_busy_Forever(at, next) ==
    /\ pc = at
    /\ IF "BSY" \notin Status
         THEN Goto(next) /\ UNCHANGED <<cmd, n, out, late>>
         ELSE UNCHANGED <<pc, polls, cmd, n, out, late>>
    /\ UNCHANGED <<drive, medium, dev, op, buf, fault, short>>
ide_wait_not_busy(at, next) ==
    /\ pc = at
    /\ IF "BSY" \notin Status
         THEN Goto(next) /\ UNCHANGED <<cmd, n, out, late>>
         ELSE IF polls < MaxPolls
           THEN polls' = polls + 1 /\ UNCHANGED <<pc, cmd, n, out, late>>
           ELSE GiveUp
    /\ UNCHANGED <<drive, medium, dev, op, buf, fault, short>>

\* identify looks at ERR once more before this wait, which comes to the same.
ide_wait_drq(at) ==
    /\ pc = at
    /\ IF "ERR" \in Status THEN Fail /\ UNCHANGED late
       ELSE IF "DRQ" \in Status THEN Goto("xfer") /\ UNCHANGED <<cmd, n, out, late>>
       ELSE IF "BSY" \notin Status THEN Fail /\ UNCHANGED late
       ELSE IF polls < MaxPolls
         THEN polls' = polls + 1 /\ UNCHANGED <<pc, cmd, n, out, late>>
         ELSE GiveUp
    /\ UNCHANGED <<drive, medium, dev, op, buf, fault, short>>

\* What the data register yields for a whole sector.
Incoming ==
    IF dev.st = "data" /\ dev.part = "in"
      THEN IF dev.cmd = "READ" THEN medium[dev.lba] ELSE dev.cmd
      ELSE Junk

\* 256 words in.
ReadSector ==
    /\ pc = "xfer" /\ cmd \in {"READ", "IDENTIFY", "IDPACKET"}
    /\ buf' = Append(buf, Incoming)
    /\ dev' = IF dev.st = "data" /\ dev.part = "in" THEN Idle ELSE dev
    /\ Goto("check")
    /\ UNCHANGED <<drive, medium, op, cmd, n, out, ghosts>>

\* 256 words out.
WriteSector_NoWait ==
    /\ pc = "xfer" /\ cmd = "WRITE"
    /\ dev' = IF dev.st = "data" /\ dev.part = "out" /\ dev.cmd = "WRITE"
                THEN Turn("busy", op.data[n + 1]) ELSE dev
    /\ Goto("check")
    /\ UNCHANGED <<drive, medium, op, cmd, n, buf, out, ghosts>>
WriteSector ==
    /\ pc = "xfer" /\ cmd = "WRITE"
    /\ dev' = IF dev.st = "data" /\ dev.part = "out" /\ dev.cmd = "WRITE"
                THEN Turn("busy", op.data[n + 1]) ELSE dev
    /\ Goto("written")
    /\ UNCHANGED <<drive, medium, op, cmd, n, buf, out, ghosts>>

\* Six words: the packet.
SendCdb ==
    /\ pc = "xfer" /\ cmd = "PACKET"
    /\ dev' = IF dev.st = "data" /\ dev.part = "out" /\ dev.cmd = "PACKET"
                THEN Turn("busy", "cdb") ELSE dev
    /\ Goto("drqdata")
    /\ UNCHANGED <<drive, medium, op, cmd, n, buf, out, ghosts>>

\* The wait for the data: a drive that is done, with or without an error, ends
\* the transfer with nothing read.
DataWait_NoBreak ==
    /\ pc = "drqdata"
    /\ IF "BSY" \notin Status THEN Goto("xferdata") /\ UNCHANGED <<cmd, n, out, late>>
       ELSE IF polls < MaxPolls
         THEN polls' = polls + 1 /\ UNCHANGED <<pc, cmd, n, out, late>>
         ELSE GiveUp
    /\ UNCHANGED <<drive, medium, dev, op, buf, fault, short>>
DataWait ==
    /\ pc = "drqdata"
    /\ IF Status = {"DRQ"} THEN Goto("xferdata") /\ UNCHANGED <<cmd, n, out, late>>
       ELSE IF "BSY" \notin Status THEN Goto("settle") /\ UNCHANGED <<cmd, n, out, late>>
       ELSE IF polls < MaxPolls
         THEN polls' = polls + 1 /\ UNCHANGED <<pc, cmd, n, out, late>>
         ELSE GiveUp
    /\ UNCHANGED <<drive, medium, dev, op, buf, fault, short>>

\* The whole buffer is read in one go.  The drive may have offered less, and
\* may have more to offer afterwards.
ReadPacket ==
    /\ pc = "xferdata"
    /\ \E sent \in {"all", "less", "first"} :
          /\ buf' = Append(buf, IF sent = "all" THEN Incoming ELSE Junk)
          /\ short' = (sent # "all")
          /\ late' = (late \/ sent = "first")
          /\ dev' = Turn("busy", IF sent = "first" THEN "cdb" ELSE "sent")
    /\ Goto("settle")
    /\ UNCHANGED <<drive, medium, op, cmd, n, out, fault>>

\* The wait after the data; its result is not looked at.
Settle ==
    /\ pc = "settle"
    /\ IF "BSY" \in Status /\ polls < MaxPolls
         THEN polls' = polls + 1 /\ UNCHANGED pc
         ELSE Goto("check")
    /\ late' = (late \/ (Present /\ "BSY" \in Status /\ polls = MaxPolls))
    /\ UNCHANGED <<drive, medium, dev, op, cmd, n, buf, out, fault, short>>

\* One more look at ERR.
Check ==
    /\ pc = "check"
    /\ IF "ERR" \in Status /\ cmd \notin {"IDENTIFY", "IDPACKET"} THEN Fail ELSE Succeed
    /\ UNCHANGED <<drive, medium, dev, op, buf, ghosts>>

Return ==
    /\ pc = "done"
    /\ pc' = "idle" /\ op' = NoReq /\ cmd' = "none" /\ n' = 0 /\ buf' = <<>> /\ out' = NoOut
    /\ fault' = FALSE /\ short' = FALSE
    /\ UNCHANGED <<drive, medium, dev, polls, late>>

Request == vol_read_blk \/ vol_write_blk \/ ide_probe_type \/ AskCapacity \/ ide_atapi_read2048
           \/ ide_atapi_inquiry

Work ==
    \/ SoftReset \/ ResetWait \/ Issue
    \/ ide_wait_not_busy("notbusy", "drq")
    \/ ide_wait_drq("drq") \/ ide_wait_drq("drqcdb")
    \/ ReadSector \/ WriteSector \/ SendCdb
    \/ ide_wait_not_busy("written", "check")
    \/ DataWait \/ ReadPacket \/ Settle
    \/ Check \/ Return

Device == DevAnswers \/ DevErrs \/ DevFaults

IdeNext == Request \/ Work \/ Device
\* The driver runs with interrupts off, so nothing keeps it from its next step.
IdeSpec == IdeInit /\ [][IdeNext]_ideVars /\ WF_ideVars(Work)

(***************************************************************************)
(* Properties                                                              *)
(***************************************************************************)
Returned(name) == pc = "done" /\ op.name = name /\ out.ret = "ok"

\* A block read that reports success holds the block's two sectors in order,
\* unless the drive may still be answering a command given up before.
ReadsAreTrue ==
    (Returned("read") /\ ~late) => buf = <<medium[2 * op.blk], medium[2 * op.blk + 1]>>

\* A block write that reports success has put both sectors onto the medium,
\* unless an earlier command is still being answered or the drive failed with
\* DF, which ide_do_rw never looks at.
WritesAreTrue ==
    (Returned("write") /\ ~late /\ ~fault) =>
        \A i \in 0 .. 1 : medium[2 * op.blk + i] = op.data[i + 1]

\* A sector changes only while its own block is being written, unless an
\* earlier command is still being answered: a torn write stays inside its block.
WritesStayInBlock ==
    [][~late => \A s \in Sectors : medium'[s] # medium[s] =>
          op.name = "write" /\ s \in {2 * op.blk, 2 * op.blk + 1}]_ideVars

\* However the drive answers, errs or stays silent, a disk is never taken for
\* an ATAPI drive nor the reverse, and nothing is found on an empty bus: the
\* reset keeps a late answer to IDENTIFY from answering IDENTIFY PACKET.
ProbeIsRight == Returned("probe") => out.class = kind /\ buf = <<cmd>>

\* A size that was reported is never 0, fits 32 bits, and is one of the drive's
\* own counts or the fallback.
CapacityIsSound ==
    Returned("capacity") =>
        /\ out.total \in 1 .. MaxSectors
        /\ kind = "ata"
        /\ out.total \in {geo.n28, geo.n48, geo.n28 % (MaxLba28 + 1), MaxSectors, Fallback}

\* A packet transfer that reports success holds what the drive sent for this
\* packet, if the drive sent all of it in one go; an inquiry may also report
\* that nothing came.
PacketsAreTrue ==
    /\ (Returned("read2048") /\ ~short) => buf = <<"PACKET">>
    /\ (Returned("inquiry") /\ ~short /\ out.total > 0) => buf = <<"PACKET">>

\* Every request ends, also on a drive that never answers: the waits are bounded.
RequestsEnd == (pc # "idle") ~> (pc = "idle")
=============================================================================
