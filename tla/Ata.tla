-------------------------------- MODULE Ata --------------------------------
(***************************************************************************)
(* The ATA controller of dev/ata.hpp with the block devices of its drives  *)
(* (dev/block.hpp), as the I/O controller drives it.  main makes and       *)
(* initialises one and lists it on the PCI bus, but neither attaches an    *)
(* image nor registers it with the I/O controller, so everything here but  *)
(* Init is for the program to begin to use.                                *)
(*                                                                         *)
(* A drive's members are not initialised.  Of its sector buffer the model  *)
(* keeps how many bytes are still to be read.                              *)
(***************************************************************************)
EXTENDS Integers

CONSTANTS
    SectorSize,     \* ATA_SECTOR_SIZE, 512
    SizeValues,     \* number of values of size_t, 2^64
    Uninitialised,  \* what the members of a drive may be at first
    Attachments,    \* the channels and numbers images are attached to
    PortLists,      \* ports the controller may be moved to
    Sent            \* values the guest writes

ASSUME AtaAssumption ==
    /\ SectorSize \in Nat \ {0} /\ SectorSize % 4 = 0
    /\ SizeValues \in Nat /\ SizeValues > SectorSize
    /\ Uninitialised \subseteq
          [status : 0 .. 255, pending : 0 .. SizeValues - 1, writing : BOOLEAN]
    /\ Attachments \subseteq {"primary", "secondary"} \X {0, 1}
    /\ \A list \in PortLists : list \subseteq Nat
    /\ Sent \subseteq Nat

Channel == {"primary", "secondary"}
Number == {0, 1}

VARIABLES
    data,       \* the register every port reads
    number,     \* drive_number of each channel
    drive,      \* the drives of each channel
    ports,      \* the port list
    host,       \* "running", or "crashed" by a read far outside the buffer
    smallest,   \* bytes of the smallest read of the sector a drive was filled
                \* with, 0 once a larger one followed it, and whether a drive
    chance      \* came up with the right status; both for the properties

ataVars == <<data, number, drive, ports, host, smallest, chance>>

Drive == [stream : BOOLEAN,         \* block_dev_t: the stream is open, and
          open : BOOLEAN,           \* m_open
          pending : 0 .. SizeValues - 1,    \* rw_pending_bytes
          writing : BOOLEAN,        \* rw_direction
          status : 0 .. 255]

\* The ports main leaves in the list: 0x1f0, 0x3f6, 0x170 and 0x376.
DefaultPorts == {496, 1014, 368, 886}

DATA == 0
HDDEVSEL == 6
COMMAND == 7        \* STATUS when read
CMD_IDENTIFY == 236
DRDY_DRQ == 72      \* ATA_SR_DRDY | ATA_SR_DRQ

Init ==
    /\ data = 0
    /\ number = [ch \in Channel |-> 0]
    /\ drive \in [Channel -> [Number ->
          {[stream |-> FALSE, open |-> FALSE, pending |-> u.pending,
            writing |-> u.writing, status |-> u.status] : u \in Uninitialised}]]
    /\ ports = DefaultPorts
    /\ host = "running"
    /\ smallest = [ch \in Channel |-> [n \in Number |-> 0]]
    /\ chance = \E ch \in Channel, n \in Number : drive[ch][n].status = CMD_IDENTIFY

\* ata_check_access_and_channel would choose the channel and has no caller.
Current == "primary"
CurrentDrive == drive[Current][number[Current]]

SetDrive(d) == drive' = [drive EXCEPT ![Current][number[Current]] = d]
SetSmallest(n) == smallest' = [smallest EXCEPT ![Current][number[Current]] = n]
------------------------------------------------------------------------------
\* attach_drive: opening a stream that is open already fails, and closes the
\* device although the stream stays.
AttachDrive(ch, n, exists) ==
    LET d == drive[ch][n]
    IN  /\ host = "running"
        /\ drive' = [drive EXCEPT ![ch][n].open = exists /\ ~d.stream,
                                  ![ch][n].stream = d.stream \/ exists]
        /\ UNCHANGED <<data, number, ports, host, smallest, chance>>

\* The parameters hide the members of their names, which keep their values.
RedefinePorts(list) ==
    /\ host = "running"
    /\ ports' = list
    /\ UNCHANGED <<data, number, drive, host, smallest, chance>>

\* The guest gets to a register by a port of the list.
Reaches(register) ==
    /\ host = "running"
    /\ \E p \in ports : p % 16 = register

BytesOf == [BYTE |-> 1, SHORT |-> 2, LONG |-> 4, EXEC |-> 4]

\* Mutant: case 1 falls through to case 2.
TakenThrough(size) == IF size = "BYTE" THEN 1 ELSE IF size = "SHORT" THEN 6 ELSE 4

Taken(size) == BytesOf[size]

\* What is read goes into a local variable `data' and not into the register.
ReadData(size) ==
    LET d == CurrentDrive
        asked == BytesOf[size]
    IN  /\ Reaches(DATA)
        /\ IF d.pending = 0 \/ d.writing
           THEN UNCHANGED <<drive, host, smallest>>
           ELSE /\ SetDrive([d EXCEPT !.pending = (@ - Taken(size)) % SizeValues])
                /\ SetSmallest(IF asked <= smallest[Current][number[Current]]
                               THEN asked ELSE 0)
                /\ \/ UNCHANGED host
                   \/ d.pending > SectorSize /\ host' = "crashed"
        /\ UNCHANGED <<data, number, ports, chance>>

ReadSelect ==
    /\ Reaches(HDDEVSEL)
    /\ data' = 224 + 16 * number[Current]
    /\ UNCHANGED <<number, drive, ports, host, smallest, chance>>

ReadStatus ==
    /\ Reaches(COMMAND)
    /\ data' = CurrentDrive.status
    /\ UNCHANGED <<number, drive, ports, host, smallest, chance>>

\* Mutant: write stores its value.
StoredValue(value) == value

\* write takes the value and never stores it in the register it acts upon.
Stored(value) == data

\* Mutant: the bit is not masked out.
SelectedUnmasked(v) == v \div 16

Selected(v) == (v \div 16) % 2

WriteSelect(value) ==
    /\ Reaches(HDDEVSEL)
    /\ data' = Stored(value)
    /\ number' = [number EXCEPT ![Current] = Selected(data')]
    /\ UNCHANGED <<drive, ports, host, smallest, chance>>

WriteCommand(value) ==
    /\ Reaches(COMMAND)
    /\ data' = Stored(value)
    /\ data' # CMD_IDENTIFY
    /\ UNCHANGED <<number, drive, ports, host, smallest, chance>>

\* store_identify_buffer fills the sector, though half of it with garbage.
Identify(value) ==
    LET d == CurrentDrive
    IN  /\ Reaches(COMMAND)
        /\ data' = Stored(value)
        /\ data' = CMD_IDENTIFY
        /\ IF d.open
           THEN /\ SetDrive([d EXCEPT !.status = DRDY_DRQ, !.pending = SectorSize,
                                      !.writing = FALSE])
                /\ SetSmallest(4)
           ELSE SetDrive([d EXCEPT !.status = 0]) /\ UNCHANGED smallest
        /\ UNCHANGED <<number, ports, host, chance>>

\* Writes of data, and the registers without a case, change nothing.
Next ==
    \/ \E a \in Attachments, exists \in BOOLEAN : AttachDrive(a[1], a[2], exists)
    \/ \E list \in PortLists : RedefinePorts(list)
    \/ \E size \in {"BYTE", "SHORT", "LONG", "EXEC"} : ReadData(size)
    \/ ReadSelect \/ ReadStatus
    \/ \E v \in Sent : WriteSelect(v) \/ WriteCommand(v) \/ Identify(v)

Spec == Init /\ [][Next]_ataVars
------------------------------------------------------------------------------
TypeOK ==
    /\ data \in Nat
    /\ number \in [Channel -> Number]
    /\ drive \in [Channel -> [Number -> Drive]]
    /\ host \in {"running", "crashed"}
    /\ smallest \in [Channel -> [Number -> {0, 1, 2, 4}]]
    /\ chance \in BOOLEAN

\* As long as no read of a sector is larger than the one before it, reads stay
\* inside the sector and end with it: the count that ata.hpp:288, 294 and 300
\* take 1, 2 or 4 from, after a test for 0 only, does not go below 0.
SectorNotOverrun ==
    \A ch \in Channel, n \in Number :
        smallest[ch][n] > 0 =>
            /\ drive[ch][n].pending <= SectorSize
            /\ drive[ch][n].pending % smallest[ch][n] = 0

\* Nothing the guest writes gets to the controller (ata.hpp:428 drops it, and
\* 239 dispatches on what was read last): a drive is identified only if the
\* status it came up with by chance was the command itself.
IdentifyTakesChance ==
    ~chance => \A ch \in Channel, n \in Number : smallest[ch][n] = 0
=============================================================================
