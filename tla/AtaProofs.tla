----------------------------- MODULE AtaProofs -----------------------------
(***************************************************************************)
(* The ATA controller's invariants, for every sector size that is a        *)
(* multiple of four, every width of the byte count, every content of the   *)
(* uninitialised members and every list of ports.                          *)
(***************************************************************************)
EXTENDS Ata, TLAPS

LEMMA CurrentInRange ==
    ASSUME TypeOK
    PROVE  /\ Current \in Channel
           /\ number[Current] \in Number
           /\ CurrentDrive \in Drive
           /\ smallest[Current][number[Current]] \in {0, 1, 2, 4}
  <1>1. Current \in Channel
    BY DEF Current, Channel
  <1>2. number[Current] \in Number
    BY <1>1 DEF TypeOK
  <1> QED BY <1>1, <1>2 DEF TypeOK, CurrentDrive

\* A drive set, and its history, keep the types of the arrays they are in.
LEMMA SetDriveType ==
    ASSUME TypeOK, NEW d \in Drive, SetDrive(d)
    PROVE  drive' \in [Channel -> [Number -> Drive]]
  BY CurrentInRange DEF TypeOK, SetDrive

LEMMA SetSmallestType ==
    ASSUME TypeOK, NEW n \in {0, 1, 2, 4}, SetSmallest(n)
    PROVE  smallest' \in [Channel -> [Number -> {0, 1, 2, 4}]]
  BY CurrentInRange DEF TypeOK, SetSmallest

\* Counting down wraps around within the width of the count.
LEMMA CountDown ==
    ASSUME NEW p \in 0 .. SizeValues - 1, NEW n \in {1, 2, 4}
    PROVE  (p - n) % SizeValues \in 0 .. SizeValues - 1
  BY AtaAssumption

\* From a multiple of an earlier size up to the sector's, a read of no more
\* than that size gets to a multiple of its own.
LEMMA CountsInStep ==
    ASSUME NEW p \in 1 .. SectorSize, NEW s \in {1, 2, 4}, NEW n \in {1, 2, 4},
           n <= s, p % s = 0
    PROVE  (p - n) % SizeValues <= SectorSize /\ ((p - n) % SizeValues) % n = 0
  <1>1. p >= n
    <2>1. CASE s = 1
      BY <2>1
    <2>2. CASE s = 2
      BY <2>2
    <2>3. CASE s = 4
      BY <2>3
    <2> QED BY <2>1, <2>2, <2>3
  <1>2. p - n \in 0 .. SizeValues - 1
    BY <1>1, AtaAssumption
  <1>3. (p - n) % SizeValues = p - n
    BY <1>2, AtaAssumption
  <1>4. (p - n) % n = 0
    <2>1. CASE n = 1
      BY <2>1
    <2>2. CASE n = 2
      BY <2>2
    <2>3. CASE n = 4
      BY <2>3
    <2> QED BY <2>1, <2>2, <2>3
  <1> QED BY <1>1, <1>3, <1>4, AtaAssumption

\* Whatever the register holds selects one of two drives.
LEMMA SelectedNumber ==
    ASSUME NEW x \in Nat
    PROVE  Selected(x) \in Number
  BY DEF Number, Selected

LEMMA TakenSize ==
    ASSUME NEW size \in {"BYTE", "SHORT", "LONG", "EXEC"}
    PROVE  Taken(size) = BytesOf[size] /\ BytesOf[size] \in {1, 2, 4}
  BY DEF Taken, BytesOf
------------------------------------------------------------------------------
IInv == TypeOK /\ SectorNotOverrun

LEMMA InitIInv == Init => IInv
  <1> SUFFICES ASSUME Init PROVE IInv
    OBVIOUS
  <1> DEFINE fresh == {[stream |-> FALSE, open |-> FALSE, pending |-> u.pending,
                        writing |-> u.writing, status |-> u.status] : u \in Uninitialised}
  <1>0. fresh \subseteq Drive
    <2> SUFFICES ASSUME NEW u \in Uninitialised
                 PROVE  [stream |-> FALSE, open |-> FALSE, pending |-> u.pending,
                         writing |-> u.writing, status |-> u.status] \in Drive
      OBVIOUS
    <2>1. u \in [status : 0 .. 255, pending : 0 .. SizeValues - 1, writing : BOOLEAN]
      BY AtaAssumption
    <2> QED BY <2>1 DEF Drive
  <1>1. drive \in [Channel -> [Number -> Drive]]
    <2>1. drive \in [Channel -> [Number -> fresh]]
      BY DEF Init
    <2> HIDE DEF fresh
    <2> QED BY <1>0, <2>1
  <1>2. TypeOK
    BY <1>1 DEF Init, TypeOK, Number
  <1> QED BY <1>2 DEF Init, IInv, SectorNotOverrun

LEMMA AttachKeeps ==
    ASSUME IInv, NEW ch \in Channel, NEW n \in Number, NEW exists \in BOOLEAN,
           AttachDrive(ch, n, exists)
    PROVE  IInv'
  <1>1. drive[ch][n] \in Drive
    BY DEF IInv, TypeOK
  <1> DEFINE d == drive[ch][n]
             e == [d EXCEPT !.open = exists /\ ~d.stream, !.stream = d.stream \/ exists]
  <1>2. e \in Drive /\ e.pending = d.pending
    BY <1>1 DEF Drive
  <1>3. drive' = [drive EXCEPT ![ch] = [drive[ch] EXCEPT ![n] = e]]
    BY <1>1 DEF AttachDrive, IInv, TypeOK, Drive
  <1>4. drive' \in [Channel -> [Number -> Drive]]
    BY <1>2, <1>3 DEF IInv, TypeOK
  <1>5. \A c \in Channel, m \in Number : drive'[c][m].pending = drive[c][m].pending
    BY <1>2, <1>3 DEF IInv, TypeOK
  <1>6. TypeOK'
    BY <1>4 DEF AttachDrive, IInv, TypeOK
  <1>7. SectorNotOverrun'
    BY <1>5 DEF AttachDrive, IInv, SectorNotOverrun
  <1> QED BY <1>6, <1>7 DEF IInv

LEMMA ReadDataKeeps ==
    ASSUME IInv, NEW size \in {"BYTE", "SHORT", "LONG", "EXEC"}, ReadData(size)
    PROVE  IInv'
  <1> DEFINE d == CurrentDrive
             n == BytesOf[size]
             s == smallest[Current][number[Current]]
             e == [d EXCEPT !.pending = (d.pending - n) % SizeValues]
             t == IF n <= s THEN n ELSE 0
  <1>1. CASE d.pending = 0 \/ d.writing
    BY <1>1 DEF IInv, TypeOK, SectorNotOverrun, ReadData
  <1>2. CASE ~(d.pending = 0 \/ d.writing)
    <2>1. /\ Current \in Channel /\ number[Current] \in Number
          /\ d \in Drive /\ s \in {0, 1, 2, 4}
      BY CurrentInRange DEF IInv
    <2>2. n \in {1, 2, 4}
      BY TakenSize
    <2>3. SetDrive(e) /\ SetSmallest(t)
      BY <1>2, TakenSize DEF ReadData
    <2>4. e \in Drive
      BY <2>1, <2>2, CountDown DEF Drive
    <2>5. TypeOK'
      <3>1. drive' \in [Channel -> [Number -> Drive]]
        BY <2>3, <2>4, SetDriveType DEF IInv
      <3>2. smallest' \in [Channel -> [Number -> {0, 1, 2, 4}]]
        BY <2>2, <2>3, SetSmallestType DEF IInv
      <3> QED BY <1>2, <3>1, <3>2 DEF ReadData, IInv, TypeOK
    <2>6. t > 0 => e.pending <= SectorSize /\ e.pending % t = 0
      <3> SUFFICES ASSUME t > 0
                   PROVE  e.pending <= SectorSize /\ e.pending % t = 0
        OBVIOUS
      <3>1. s \in {1, 2, 4} /\ n <= s /\ t = n
        BY <2>1, <2>2
      <3>2. d.pending <= SectorSize /\ d.pending % s = 0
        BY <2>1, <3>1 DEF IInv, SectorNotOverrun, CurrentDrive
      <3>3. d.pending \in 1 .. SectorSize
        BY <1>2, <2>1, <3>2, AtaAssumption DEF Drive
      <3>4. e.pending = (d.pending - n) % SizeValues
        BY <2>1 DEF Drive
      <3> HIDE DEF d, n, s, e, t
      <3> QED BY <2>2, <3>1, <3>2, <3>3, <3>4, CountsInStep
    <2>7. SectorNotOverrun'
      <3> SUFFICES ASSUME NEW ch \in Channel, NEW m \in Number, smallest'[ch][m] > 0
                   PROVE  /\ drive'[ch][m].pending <= SectorSize
                          /\ drive'[ch][m].pending % smallest'[ch][m] = 0
        BY DEF SectorNotOverrun
      <3>1. CASE ch = Current /\ m = number[Current]
        <4>1. drive'[ch][m] = e /\ smallest'[ch][m] = t
          BY <2>1, <2>3, <3>1 DEF IInv, TypeOK, SetDrive, SetSmallest
        <4> QED BY <2>6, <4>1
      <3>2. CASE ~(ch = Current /\ m = number[Current])
        <4>1. drive'[ch][m] = drive[ch][m] /\ smallest'[ch][m] = smallest[ch][m]
          BY <2>1, <2>3, <3>2 DEF IInv, TypeOK, SetDrive, SetSmallest
        <4> QED BY <4>1 DEF IInv, SectorNotOverrun
      <3> QED BY <3>1, <3>2
    <2> QED BY <2>5, <2>7 DEF IInv
  <1> QED BY <1>1, <1>2

LEMMA WriteSelectKeeps ==
    ASSUME IInv, NEW v \in Sent, WriteSelect(v)
    PROVE  IInv'
  <1>1. data' \in Nat
    BY DEF IInv, TypeOK, WriteSelect, Stored
  <1>2. Selected(data') \in Number
    BY <1>1, SelectedNumber
  <1>3. TypeOK'
    BY <1>1, <1>2 DEF IInv, TypeOK, WriteSelect
  <1> QED BY <1>3 DEF IInv, SectorNotOverrun, WriteSelect

LEMMA IdentifyKeeps ==
    ASSUME IInv, NEW v \in Sent, Identify(v)
    PROVE  IInv'
  <1> DEFINE d == CurrentDrive
             full == [d EXCEPT !.status = DRDY_DRQ, !.pending = SectorSize, !.writing = FALSE]
             absent == [d EXCEPT !.status = 0]
  <1>1. Current \in Channel /\ number[Current] \in Number /\ d \in Drive
    BY CurrentInRange DEF IInv
  <1>2. data' \in Nat
    BY DEF IInv, TypeOK, Identify, Stored
  <1>3. CASE d.open
    <2>1. SetDrive(full) /\ SetSmallest(4)
      BY <1>3 DEF Identify
    <2>2. full \in Drive /\ full.pending = SectorSize
      <3>1. SectorSize \in 0 .. SizeValues - 1 /\ DRDY_DRQ \in 0 .. 255
        BY AtaAssumption DEF DRDY_DRQ
      <3> HIDE DEF d
      <3> QED BY <1>1, <3>1 DEF Drive
    <2>3. TypeOK'
      <3>1. drive' \in [Channel -> [Number -> Drive]]
        BY <2>1, <2>2, SetDriveType DEF IInv
      <3>2. smallest' \in [Channel -> [Number -> {0, 1, 2, 4}]]
        BY <2>1, SetSmallestType DEF IInv
      <3> QED BY <1>2, <3>1, <3>2 DEF Identify, IInv, TypeOK
    <2>4. SectorNotOverrun'
      <3> SUFFICES ASSUME NEW ch \in Channel, NEW m \in Number, smallest'[ch][m] > 0
                   PROVE  /\ drive'[ch][m].pending <= SectorSize
                          /\ drive'[ch][m].pending % smallest'[ch][m] = 0
        BY DEF SectorNotOverrun
      <3>1. CASE ch = Current /\ m = number[Current]
        <4>1. drive'[ch][m] = full /\ smallest'[ch][m] = 4
          BY <1>1, <2>1, <3>1 DEF IInv, TypeOK, SetDrive, SetSmallest
        <4> QED BY <2>2, <4>1, AtaAssumption
      <3>2. CASE ~(ch = Current /\ m = number[Current])
        <4>1. drive'[ch][m] = drive[ch][m] /\ smallest'[ch][m] = smallest[ch][m]
          BY <1>1, <2>1, <3>2 DEF IInv, TypeOK, SetDrive, SetSmallest
        <4> QED BY <4>1 DEF IInv, SectorNotOverrun
      <3> QED BY <3>1, <3>2
    <2> QED BY <2>3, <2>4 DEF IInv
  <1>4. CASE ~d.open
    <2>1. SetDrive(absent) /\ UNCHANGED smallest
      BY <1>4 DEF Identify
    <2>2. absent \in Drive /\ absent.pending = d.pending
      BY <1>1 DEF Drive
    <2>3. drive' \in [Channel -> [Number -> Drive]]
      BY <2>1, <2>2, SetDriveType DEF IInv
    <2>4. TypeOK'
      BY <1>2, <2>1, <2>3 DEF Identify, IInv, TypeOK
    <2>5. \A ch \in Channel, m \in Number : drive'[ch][m].pending = drive[ch][m].pending
      BY <1>1, <2>1, <2>2 DEF IInv, TypeOK, SetDrive, CurrentDrive
    <2>6. SectorNotOverrun'
      BY <2>1, <2>5 DEF IInv, SectorNotOverrun
    <2> QED BY <2>4, <2>6 DEF IInv
  <1> QED BY <1>3, <1>4

LEMMA NextIInv == IInv /\ [Next]_ataVars => IInv'
  <1> SUFFICES ASSUME IInv, [Next]_ataVars PROVE IInv'
    OBVIOUS
  <1>1. CASE \E a \in Attachments, exists \in BOOLEAN : AttachDrive(a[1], a[2], exists)
    BY <1>1, AttachKeeps, AtaAssumption DEF Channel, Number
  <1>2. CASE \E list \in PortLists : RedefinePorts(list)
    BY <1>2 DEF IInv, TypeOK, SectorNotOverrun, RedefinePorts
  <1>3. CASE \E size \in {"BYTE", "SHORT", "LONG", "EXEC"} : ReadData(size)
    BY <1>3, ReadDataKeeps
  <1>4. CASE ReadSelect
    <2>1. data' \in Nat
      BY <1>4, CurrentInRange DEF ReadSelect, IInv, Number
    <2> QED BY <1>4, <2>1 DEF IInv, TypeOK, SectorNotOverrun, ReadSelect
  <1>5. CASE ReadStatus
    <2>1. data' \in Nat
      BY <1>5, CurrentInRange DEF ReadStatus, IInv, Drive
    <2> QED BY <1>5, <2>1 DEF IInv, TypeOK, SectorNotOverrun, ReadStatus
  <1>6. CASE \E v \in Sent : WriteSelect(v)
    BY <1>6, WriteSelectKeeps
  <1>7. CASE \E v \in Sent : WriteCommand(v)
    BY <1>7 DEF IInv, TypeOK, SectorNotOverrun, WriteCommand, Stored
  <1>8. CASE \E v \in Sent : Identify(v)
    BY <1>8, IdentifyKeeps
  <1>9. CASE UNCHANGED ataVars
    BY <1>9 DEF ataVars, IInv, TypeOK, SectorNotOverrun
  <1> QED BY <1>1, <1>2, <1>3, <1>4, <1>5, <1>6, <1>7, <1>8, <1>9 DEF Next

\* The controller's registers and the members of its drives keep their types.
THEOREM AtaTypeCorrect == Spec => []TypeOK
  <1>1. IInv => TypeOK
    BY DEF IInv
  <1> QED BY <1>1, InitIInv, NextIInv, PTL DEF Spec

\* A sector read with accesses that do not grow is read to its end and no further.
THEOREM SectorReadToItsEnd == Spec => []SectorNotOverrun
  <1>1. IInv => SectorNotOverrun
    BY DEF IInv
  <1> QED BY <1>1, InitIInv, NextIInv, PTL DEF Spec
------------------------------------------------------------------------------
(***************************************************************************)
(* Without a drive that shows the command as its status, the register      *)
(* never comes to hold it: only a status or a selection gets there.        *)
(***************************************************************************)
NoCommandAbout ==
    ~chance =>
        /\ data # CMD_IDENTIFY
        /\ \A ch \in Channel, n \in Number :
              drive[ch][n].status # CMD_IDENTIFY /\ smallest[ch][n] = 0

LEMMA NextNoCommand == IInv /\ NoCommandAbout /\ [Next]_ataVars => NoCommandAbout'
  <1> SUFFICES ASSUME IInv, NoCommandAbout, [Next]_ataVars, ~chance'
               PROVE  /\ data' # CMD_IDENTIFY
                      /\ \A ch \in Channel, n \in Number :
                            drive'[ch][n].status # CMD_IDENTIFY /\ smallest'[ch][n] = 0
    BY DEF NoCommandAbout
  <1>0. Current \in Channel /\ number[Current] \in Number /\ CurrentDrive \in Drive
    BY CurrentInRange DEF IInv
  <1> USE DEF NoCommandAbout
  <1>1. ASSUME NEW ch \in Channel, NEW n \in Number, NEW exists \in BOOLEAN,
               AttachDrive(ch, n, exists)
        PROVE  /\ data' # CMD_IDENTIFY
               /\ \A c \in Channel, m \in Number :
                     drive'[c][m].status # CMD_IDENTIFY /\ smallest'[c][m] = 0
    <2>1. \A c \in Channel, m \in Number : drive'[c][m].status = drive[c][m].status
      BY <1>1 DEF AttachDrive, IInv, TypeOK, Drive
    <2> QED BY <1>1, <2>1 DEF AttachDrive
  <1>2. CASE \E list \in PortLists : RedefinePorts(list)
    BY <1>2 DEF RedefinePorts
  <1>3. ASSUME NEW size \in {"BYTE", "SHORT", "LONG", "EXEC"}, ReadData(size)
        PROVE  /\ data' # CMD_IDENTIFY
               /\ \A c \in Channel, m \in Number :
                     drive'[c][m].status # CMD_IDENTIFY /\ smallest'[c][m] = 0
    <2>1. \A c \in Channel, m \in Number : drive'[c][m].status = drive[c][m].status
      <3> DEFINE d == CurrentDrive
                 e == [d EXCEPT !.pending = (d.pending - Taken(size)) % SizeValues]
      <3>1. UNCHANGED drive \/ SetDrive(e)
        BY <1>3 DEF ReadData
      <3>2. e.status = d.status
        BY <1>0 DEF Drive
      <3> HIDE DEF e
      <3> QED BY <1>0, <3>1, <3>2 DEF SetDrive, CurrentDrive, IInv, TypeOK
    <2>2. \A c \in Channel, m \in Number : smallest'[c][m] = 0
      <3>1. smallest[Current][number[Current]] = 0 /\ BytesOf[size] > 0
        BY <1>0, <1>3, TakenSize DEF ReadData
      <3>2. UNCHANGED smallest \/ SetSmallest(0)
        BY <1>3, <3>1, TakenSize DEF ReadData
      <3> QED BY <1>0, <1>3, <3>2 DEF ReadData, SetSmallest, IInv, TypeOK
    <2> QED BY <1>3, <2>1, <2>2 DEF ReadData
  <1>4. CASE ReadSelect
    <2>1. data' \in {224, 240}
      BY <1>0, <1>4 DEF ReadSelect, Number
    <2> QED BY <1>4, <2>1 DEF ReadSelect, CMD_IDENTIFY
  <1>5. CASE ReadStatus
    BY <1>0, <1>5 DEF ReadStatus, CurrentDrive
  <1>6. CASE \E v \in Sent : WriteSelect(v)
    BY <1>6 DEF WriteSelect, Stored
  <1>7. CASE \E v \in Sent : WriteCommand(v)
    BY <1>7 DEF WriteCommand, Stored
  <1>8. CASE \E v \in Sent : Identify(v)
    BY <1>8 DEF Identify, Stored
  <1>9. CASE UNCHANGED ataVars
    BY <1>9 DEF ataVars
  <1>10. CASE \E a \in Attachments, exists \in BOOLEAN : AttachDrive(a[1], a[2], exists)
    BY <1>1, <1>10, AtaAssumption DEF Channel, Number
  <1> QED BY <1>2, <1>3, <1>4, <1>5, <1>6, <1>7, <1>8, <1>9, <1>10 DEF Next

\* The guest cannot have a drive identified, whatever it reads and writes, unless
\* a drive came up showing the command.
THEOREM IdentifyOnlyByChance == Spec => []IdentifyTakesChance
  <1>1. Init => NoCommandAbout
    BY DEF Init, NoCommandAbout, CMD_IDENTIFY
  <1>2. NoCommandAbout => IdentifyTakesChance
    BY DEF NoCommandAbout, IdentifyTakesChance
  <1> QED BY <1>1, <1>2, InitIInv, NextIInv, NextNoCommand, PTL DEF Spec
=============================================================================
