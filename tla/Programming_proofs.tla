------------------------- MODULE Programming_proofs -------------------------
(***************************************************************************)
(* Proofs about Programming: types, the reader, what is programmed, and    *)
(* the refinement of FlashUpdate.                                          *)
(***************************************************************************)
EXTENDS Programming, TLAPS

-----------------------------------------------------------------------------
(* The reader.  While it reads, the extension in force is the last one     *)
(* before the next line, and every cell is explained by a line read.       *)

LastExtension(n, v) ==
  \/ v = 0 /\ \A i \in 1 .. n - 1 : ~ Extends(file[i])
  \/ \E i \in 1 .. n - 1 :
       /\ Extends(file[i]) /\ v = Extension(file[i])
       /\ \A j \in i + 1 .. n - 1 : ~ Extends(file[j])

Explained(n, a) ==
  \E i \in 1 .. n - 1 :
    /\ Writes(i, a) /\ \A j \in i + 1 .. n - 1 : ~ Writes(j, a)
    /\ firmware_image[a] = ByteOf(i, a)

ReaderInv ==
  parse # "error" =>
    /\ \A n \in 1 .. lineno : LastExtension(n, ExtensionAt(n))
    /\ extended_addr = ExtensionAt(lineno)
    /\ \A a \in Cells :
         IF a \in firmware_mask THEN Explained(lineno, a)
         ELSE firmware_image[a] = FF /\ \A i \in 1 .. lineno - 1 : ~ Writes(i, a)

-----------------------------------------------------------------------------
(* Loader and bootloader                                                   *)

\* What the transfer in progress carries: its packets are those of
\* Report(Word, Content), or only the first for the rebootor's command.
Word == IF hpc = "writing" THEN HostAddress(addr)
        ELSE IF hpc = "booting" THEN COMMAND_STARTAPPLICATION ELSE REBOOT_WORD

Content == IF hpc = "writing" THEN GetData(addr, BLOCK)
           ELSE IF hpc = "booting" THEN AllOf(0) ELSE AllOf(FF)

Total == IF hpc = "reboot_write" THEN 1 ELSE BLOCK

Through == Total - Len(outgoing)   \* packets that have left

Suffix ==
  /\ Len(outgoing) <= Total
  /\ \A j \in 1 .. Len(outgoing) : outgoing[j] = Report(Word, Content)[Through + j]

\* The device has not seen the transfer yet, and may never see it.
Fresh == rxstpi /\ ~ zlp /\ Through = 0 /\ dpc \in {"loop", "command", "fill"}

AtCommand ==
  /\ dpc = "command" /\ ~ zlp
  /\ IF rxouti THEN Through = 1 /\ bank = <<Word, Content[0]>> ELSE Through = 0

AtErase ==
  /\ dpc = "erase" /\ ~ zlp /\ hpc # "booting"
  /\ rxouti /\ Through = 1 /\ bank = <<Content[0]>>
  /\ page_address = DeviceAddress(Word) /\ page_word = 0

Filled == Agreed /\ hpc = "writing" => \A k \in 0 .. page_word - 1 : buffer[k] = Content[k]

AtFill ==
  /\ dpc = "fill" /\ ~ zlp /\ hpc # "booting"
  /\ page_address = DeviceAddress(Word) /\ Filled
  /\ \/ /\ rxouti /\ page_word < BLOCK
        /\ bank = <<Content[page_word]>> /\ Through = page_word + 1
     \/ bank = << >> /\ Through = page_word /\ page_word > 0

AtWrite ==
  /\ dpc = "write" /\ ~ zlp /\ hpc # "booting"
  /\ page_address = DeviceAddress(Word) /\ page_word = BLOCK /\ Filled

Done ==
  /\ dpc = "finish" => ~ zlp
  /\ dpc \in {"finish", "loop"}
  /\ Agreed /\ hpc = "writing" => \A w \in Page(addr) : flash[w] = Content[w - addr]

Link ==
  /\ Suffix
  /\ \/ Fresh
     \/ ~ rxstpi /\ (AtCommand \/ AtErase \/ AtFill \/ AtWrite \/ Done)

\* Nothing that a device could go on with.
Rest ==
  /\ dpc \notin {"erase", "write", "finish"}
  /\ dpc \in {"command", "fill"} => ~ rxouti
  /\ dpc = "loop" => ~ rxstpi

Idle == hpc \in {"reading", "opening", "rebooting", "programming"}

PipeInv ==
  /\ rxstpi => ~ rxouti
  /\ ~ rxouti => bank = << >>
  /\ dpc \in {"off", "reset", "watchdog", "app"} => ~ rxstpi /\ ~ rxouti
  /\ dpc = "erase" \/ (dpc = "fill" /\ page_word = BLOCK) => rxouti

LinkInv ==
  /\ handle = "open" => Attached
  /\ Idle => Rest
  /\ Transferring => IF handle = "open" THEN Link ELSE Rest

\* The pages that may be touched: the file has data for them, or "reboot" names
\* them - or any, if loader and device do not agree.
Allowed(a) == Agreed => \A w \in Page(a) : Wanted(w) # KEEP \/ w \in RebootPages

Active == dpc \in {"erase", "write"} \/ (dpc = "fill" /\ rxouti)

\* What is left of a transfer that the loader has given up.
PageInv ==
  /\ dpc = "command" /\ rxouti =>
       /\ Len(bank) = 2
       /\ bank[1] # COMMAND_STARTAPPLICATION =>
            /\ DeviceAddress(bank[1]) \in Words /\ Allowed(DeviceAddress(bank[1]))
            /\ bank[2] \in VALUES
  /\ Active => Allowed(page_address)
  /\ dpc \in {"erase", "fill"} /\ rxouti => bank \in Seq(VALUES)

HostInv ==
  /\ hpc \in {"opening", "rebooting", "reboot_write", "programming", "writing", "booting"}
       => parse = "read"
  /\ outcome = "ok" => parse = "read"
  /\ hpc = "reading" => parse \in {"reading", "read", "error"}
  /\ hpc \notin {"programming", "writing", "booting"} => addr = 0
  /\ hpc \in {"programming", "writing", "booting"} => handle # "none"
  /\ hpc = "writing" => addr < code_size /\ Used(addr)
  /\ hpc = "booting" => addr >= code_size

\* After success the device changes nothing any more.
Quiet ==
  /\ dpc \notin {"erase", "write"}
  /\ dpc = "fill" => ~ rxouti
  /\ dpc = "command" /\ rxouti => bank[1] = COMMAND_STARTAPPLICATION

QuietInv == outcome = "ok" => Quiet

FlashInv ==
  \A w \in Words :
    /\ hpc \in {"programming", "writing", "booting"} /\ w < addr /\ Wanted(w) # KEEP
         => flash[w] = Wanted(w)
    /\ outcome = "ok" /\ Wanted(w) # KEEP => flash[w] = Wanted(w)

UpdateInv ==
  TypeOK /\ PipeInv /\ LinkInv /\ PageInv /\ HostInv /\ QuietInv /\ FlashInv

-----------------------------------------------------------------------------
(* Arithmetic of pages                                                     *)

LEMMA Quotient ==
  ASSUME NEW a \in Nat, NEW B \in Nat \ {0}
  PROVE  /\ a \div B \in Nat /\ a % B \in 0 .. B - 1
         /\ a = B * (a \div B) + (a % B)
OBVIOUS

LEMMA Remainder ==
  ASSUME NEW q \in Nat, NEW B \in Nat \ {0}, NEW r \in 0 .. B - 1, NEW a, a = B * q + r
  PROVE  a % B = r /\ a \div B = q
OBVIOUS

LEMMA Multiple ==
  ASSUME NEW a \in Nat, NEW B \in Nat \ {0}, a % B = 0
  PROVE  \E q \in Nat : a = B * q
<1>1. a \div B \in Nat /\ a = B * (a \div B) + (a % B)
  BY Quotient
<1> DEFINE q == a \div B
<1>2. q \in Nat /\ a = B * q + 0
  BY <1>1
<1> HIDE DEF q
<1> QED
  BY <1>2

LEMMA Multiples ==
  ASSUME NEW q \in Nat, NEW r \in Nat, NEW B \in Nat \ {0}, B * q < B * r
  PROVE  B * q + B <= B * r
OBVIOUS

LEMMA BlockType == BLOCK \in Nat \ {0} /\ 0 % BLOCK = 0
  BY BootAssumption, Remainder

\* The page of an address, and the address in it.
LEMMA PageBaseType ==
  ASSUME NEW a \in Nat
  PROVE  /\ PageBase(a) \in Nat /\ PageBase(a) % BLOCK = 0
         /\ a % BLOCK \in 0 .. BLOCK - 1 /\ a = PageBase(a) + (a % BLOCK)
<1>1. BLOCK \in Nat \ {0}
  BY BootAssumption
<1> DEFINE q == a \div BLOCK
           r == a % BLOCK
<1>2. q \in Nat /\ r \in 0 .. BLOCK - 1 /\ a = BLOCK * q + r
  BY <1>1, Quotient
<1> HIDE DEF q, r
<1>3. a - r = BLOCK * q + 0 /\ a - r \in Nat /\ 0 \in 0 .. BLOCK - 1
  BY <1>1, <1>2
<1>4. (a - r) % BLOCK = 0
  BY <1>1, <1>2, <1>3, Remainder
<1> QED
  BY <1>1, <1>2, <1>3, <1>4 DEF PageBase, r

LEMMA AlignedPage ==
  ASSUME NEW a \in Nat, a % BLOCK = 0, NEW k \in 0 .. BLOCK - 1
  PROVE  /\ PageBase(a) = a /\ PageBase(a + k) = a /\ (a + k) % BLOCK = k
         /\ Page(a) = a .. a + BLOCK - 1
<1>1. BLOCK \in Nat \ {0}
  BY BootAssumption
<1>2. PICK q \in Nat : a = BLOCK * q
  BY <1>1, Multiple
<1>3. (a + k) % BLOCK = k
  BY <1>1, <1>2, Remainder
<1> QED
  BY <1>1, <1>3 DEF PageBase, Page

LEMMA AlignedStep ==
  ASSUME NEW a \in Nat, a % BLOCK = 0, NEW c \in Nat, c % BLOCK = 0, a < c
  PROVE  a + BLOCK <= c /\ (a + BLOCK) % BLOCK = 0
<1>1. BLOCK \in Nat \ {0}
  BY BootAssumption
<1>2. PICK q \in Nat : a = BLOCK * q
  BY <1>1, Multiple
<1>3. PICK r \in Nat : c = BLOCK * r
  BY <1>1, Multiple
<1>4. a + BLOCK <= c
  BY <1>1, <1>2, <1>3, Multiples
<1>5. a + BLOCK = BLOCK * (q + 1) + 0 /\ q + 1 \in Nat /\ 0 \in 0 .. BLOCK - 1
  BY <1>1, <1>2
<1>6. (a + BLOCK) % BLOCK = 0
  BY <1>1, <1>5, Remainder
<1> QED
  BY <1>4, <1>6

\* A word names a page of the part, whatever it is.
LEMMA AddressType ==
  ASSUME NEW c \in CODE_SIZES, NEW word \in Nat
  PROVE  /\ c \in Nat \ {0} /\ AddressOn(c, word) \in 0 .. c - 1
         /\ c < SIXTEEN /\ word < c => AddressOn(c, word) = word
         /\ c > SIXTEEN /\ BLOCK * word < c => AddressOn(c, word) = BLOCK * word
<1>1. c \in Nat \ {0} /\ BLOCK \in Nat \ {0} /\ SIXTEEN \in Nat /\ BLOCK * word \in Nat
  BY BootAssumption
<1>2. word % c \in 0 .. c - 1 /\ (BLOCK * word) % c \in 0 .. c - 1
  BY <1>1, Quotient
<1>3. ASSUME NEW a \in Nat, a < c PROVE a % c = a
  <2>1. a = c * 0 + a /\ a \in 0 .. c - 1
    BY <1>1, <1>3
  <2> QED
    BY <1>1, <2>1, Remainder
<1>4. CASE c > SIXTEEN
  <2>1. AddressOn(c, word) = (BLOCK * word) % c
    BY <1>4 DEF AddressOn
  <2> QED
    BY <1>1, <1>2, <1>3, <1>4, <2>1
<1>5. CASE ~ (c > SIXTEEN)
  <2>1. AddressOn(c, word) = word % c
    BY <1>5 DEF AddressOn
  <2> QED
    BY <1>1, <1>2, <1>3, <1>5, <2>1
<1> QED
  BY <1>4, <1>5

LEMMA DeviceAddressType ==
  ASSUME code_size \in CODE_SIZES, NEW word \in Nat
  PROVE  DeviceAddress(word) \in Words /\ DeviceAddress(word) \in Nat
<1>1. code_size \in Nat \ {0} /\ AddressOn(code_size, word) \in 0 .. code_size - 1
  BY AddressType
<1> QED
  BY <1>1 DEF DeviceAddress, Words

\* The word that the loader sends for a block is not the start command, and
\* names the same page for the device, but on a part of exactly 64 KiB.
LEMMA SameAddress ==
  ASSUME code_size \in CODE_SIZES, NEW a \in Nat, a % BLOCK = 0, a < code_size
  PROVE  /\ HostAddress(a) \in Nat /\ HostAddress(a) # COMMAND_STARTAPPLICATION
         /\ Agreed => DeviceAddress(HostAddress(a)) = a
<1>1. BLOCK \in Nat \ {0}
  BY BootAssumption
<1> DEFINE q == a \div BLOCK
<1>2. q \in Nat /\ a = BLOCK * q + (a % BLOCK)
  BY <1>1, Quotient
<1>3. HostAddress(a) = IF code_size < LIMIT THEN a ELSE q
  BY DEF HostAddress
<1> HIDE DEF q
<1>4. a = BLOCK * q
  BY <1>1, <1>2
<1>5. /\ SIXTEEN = LIMIT /\ LIMIT \in Nat /\ code_size \in Nat
      /\ code_size <= BLOCK * COMMAND_STARTAPPLICATION
      /\ COMMAND_STARTAPPLICATION = LIMIT - 1
  BY ProgrammingAssumption, HexAssumption, BootAssumption, StartAssumption
<1>6. CASE code_size < LIMIT
  <2>1. HostAddress(a) = a /\ a # COMMAND_STARTAPPLICATION
    BY <1>3, <1>5, <1>6
  <2>2. AddressOn(code_size, a) = a
    BY <1>5, <1>6, AddressType
  <2> QED
    BY <2>1, <2>2 DEF DeviceAddress
<1>7. CASE ~ (code_size < LIMIT)
  <2>1. HostAddress(a) = q
    BY <1>3, <1>7
  <2>2. q # COMMAND_STARTAPPLICATION
    <3> SUFFICES ASSUME q = COMMAND_STARTAPPLICATION PROVE FALSE
      OBVIOUS
    <3>1. a = BLOCK * COMMAND_STARTAPPLICATION
      BY <1>4
    <3> QED
      BY <1>5, <3>1
  <2>3. Agreed => code_size > SIXTEEN
    BY <1>5, <1>7 DEF Agreed
  <2>4. BLOCK * q < code_size
    BY <1>4
  <2>5. code_size > SIXTEEN => AddressOn(code_size, q) = a
    BY <1>2, <1>4, <2>4, AddressType
  <2> QED
    BY <1>2, <2>1, <2>2, <2>3, <2>5 DEF DeviceAddress
<1> QED
  BY <1>6, <1>7

-----------------------------------------------------------------------------
(* The reader                                                              *)

LEMMA SameFile ==
  ASSUME file' = file, NEW n, NEW a
  PROVE  /\ ExtensionAt(n)' = ExtensionAt(n)
         /\ Writes(n, a)' <=> Writes(n, a)
         /\ ByteOf(n, a)' = ByteOf(n, a)
<1>1. ExtensionAt(n)' = ExtensionAt(n)
  BY DEF ExtensionAt, Extends, Extension
<1> QED
  BY <1>1 DEF Writes, ByteOf

\* What the next state's tables can be, of all the steps of loader and device.
HexNext ==
  \/ \E f \in FILES : StartReading(f)
  \/ ReadLine
  \/ UNCHANGED hexVars

LEMMA HexSteps == [Next]_vars => HexNext
<1> SUFFICES ASSUME [Next]_vars PROVE HexNext
  OBVIOUS
<1>1. CASE Start
  BY <1>1 DEF Start, HexNext
<1>2. CASE HostStep
  BY <1>2 DEF HostStep, Read, ReadDone, Open, NotFound, Rebooted, HardReboot, SkipBlock,
              WriteBlock, BlockDone, Boot, BootDone, SendPacket, HexNext
<1>3. CASE TransferFails
  BY <1>3 DEF TransferFails, HexNext
<1>4. CASE Device \/ Supply
  BY <1>4 DEF Device, Supply, Beside, HexNext
<1>5. CASE UNCHANGED vars
  BY <1>5 DEF vars, HexNext
<1> QED
  BY <1>1, <1>2, <1>3, <1>4, <1>5 DEF Next

LEMMA FileType ==
  ASSUME HexTypeOK
  PROVE  /\ file \in Seq(Line) /\ Len(file) \in Nat /\ lineno \in Nat \ {0}
         /\ \A i \in 1 .. Len(file) : file[i] \in Line
<1>1. file \in Seq(Line)
  <2>1. file \in FILES \/ file = << >>
    BY DEF HexTypeOK
  <2>2. << >> \in Seq(Line)
    OBVIOUS
  <2> QED
    BY <2>1, <2>2, HexAssumption
<1>2. Len(file) \in Nat /\ \A i \in 1 .. Len(file) : file[i] \in Line
  BY <1>1
<1>3. lineno \in 1 .. Len(file) + 1
  BY DEF HexTypeOK
<1> QED
  BY <1>1, <1>2, <1>3

LEMMA CellsType ==
  ASSUME NEW l \in Line
  PROVE  /\ l.addr \in Nat /\ l.len \in Nat /\ l.field \in Nat /\ LIMIT \in Nat \ {0}
         /\ l.data \in [Cells -> BYTES] /\ Extension(l) \in Nat
<1>1. /\ l.addr \in Cells /\ l.len \in 0 .. LIMIT - 1 /\ l.field \in 0 .. LIMIT - 1
      /\ l.data \in [Cells -> BYTES]
  BY DEF Line
<1>2. LIMIT \in Nat \ {0} /\ SEGMENT \in Nat /\ l.field \in Nat /\ l.addr \in Nat /\ l.len \in Nat
  BY <1>1, HexAssumption DEF Cells
<1>3. SEGMENT * l.field \in Nat /\ LIMIT * l.field \in Nat
  BY <1>2
<1> QED
  BY <1>1, <1>2, <1>3 DEF Extension

LEMMA CoveredByte ==
  ASSUME NEW l \in Line, NEW e \in Nat, NEW a \in Cells, Covers(l, e, a)
  PROVE  l.data[a - (e + l.addr)] \in BYTES
<1>1. a - (e + l.addr) \in Cells
  BY CellsType DEF Covers, Cells
<1> QED
  BY <1>1, CellsType

LEMMA HexTypeInit == HexInit => HexTypeOK
  BY HexAssumption DEF HexInit, HexTypeOK

LEMMA HexTypeStep == HexTypeOK /\ HexNext => HexTypeOK'
<1> SUFFICES ASSUME HexTypeOK, HexNext PROVE HexTypeOK'
  OBVIOUS
<1>1. CASE UNCHANGED hexVars
  BY <1>1 DEF hexVars, HexTypeOK
<1>2. ASSUME NEW f \in FILES, StartReading(f) PROVE HexTypeOK'
  <2>1. 1 \in 1 .. Len(f) + 1
    BY HexAssumption
  <2> QED
    BY <1>2, <2>1 DEF StartReading, HexTypeOK
<1>3. CASE Reading /\ (RefuseLine \/ DataLine \/ OtherLine \/ EndOfFile)
  <2> DEFINE l == file[lineno]
  <2>1. l \in Line /\ file' = file /\ lineno' \in 1 .. Len(file) + 1
    BY <1>3, FileType DEF Reading
  <2> HIDE DEF l
  <2>2. firmware_image' \in [Cells -> BYTES \cup {FF}] /\ firmware_mask' \subseteq Cells
    <3>1. CASE ~ DataLine
      BY <1>3, <3>1 DEF RefuseLine, OtherLine, EndOfFile, HexTypeOK
    <3>2. CASE DataLine
      <4>1. /\ firmware_image' = [a \in Cells |-> IF Covers(l, extended_addr, a)
                                                  THEN l.data[a - (extended_addr + l.addr)]
                                                  ELSE firmware_image[a]]
            /\ firmware_mask' = firmware_mask \cup {a \in Cells : Covers(l, extended_addr, a)}
        BY <3>2 DEF DataLine, l
      <4>2. extended_addr \in Nat
        BY DEF HexTypeOK
      <4>3. \A a \in Cells : Covers(l, extended_addr, a)
              => l.data[a - (extended_addr + l.addr)] \in BYTES
        BY <2>1, <4>2, CoveredByte
      <4> QED
        BY <4>1, <4>3 DEF HexTypeOK
    <3> QED
      BY <3>1, <3>2
  <2>3. extended_addr' \in Nat
    BY <1>3, <2>1, CellsType DEF RefuseLine, DataLine, OtherLine, EndOfFile, HexTypeOK, l
  <2>4. parse' \in {"idle", "reading", "read", "error"}
    BY <1>3 DEF RefuseLine, DataLine, OtherLine, EndOfFile, HexTypeOK
  <2> QED
    BY <2>1, <2>2, <2>3, <2>4 DEF HexTypeOK
<1>4. CASE EndOfFile /\ UNCHANGED <<file, lineno>>
  BY <1>4 DEF EndOfFile, HexTypeOK
<1> QED
  BY <1>1, <1>2, <1>3, <1>4 DEF HexNext, ReadLine, RefuseLine, DataLine, OtherLine, EndOfFile

\* The extension in force is found by looking back.
LEMMA LastExtensionUnique ==
  ASSUME NEW n \in Nat, NEW v, LastExtension(n, v)
  PROVE  ExtensionAt(n) = v
<1>1. CASE \A i \in 1 .. n - 1 : ~ Extends(file[i])
  BY <1>1 DEF LastExtension, ExtensionAt
<1>2. CASE \E i \in 1 .. n - 1 : Extends(file[i])
  <2> DEFINE Last(i) == Extends(file[i]) /\ \A j \in i + 1 .. n - 1 : ~ Extends(file[j])
             c == CHOOSE i \in 1 .. n - 1 : Last(i)
  <2>1. PICK i \in 1 .. n - 1 : Last(i) /\ v = Extension(file[i])
    BY <1>2 DEF LastExtension
  <2>2. c \in 1 .. n - 1 /\ Last(c)
    BY <2>1
  <2>3. ExtensionAt(n) = Extension(file[c])
    BY <1>2 DEF ExtensionAt
  <2> HIDE DEF c
  <2>4. c = i
    BY <2>1, <2>2
  <2> QED
    BY <2>1, <2>3, <2>4
<1> QED
  BY <1>1, <1>2

LEMMA LastWriterUnique ==
  ASSUME NEW n \in Nat, NEW a, NEW i \in 1 .. n - 1, Writes(i, a),
         \A j \in i + 1 .. n - 1 : ~ Writes(j, a)
  PROVE  LastWriter(n, a) = i
<1> DEFINE Last(k) == Writes(k, a) /\ \A j \in k + 1 .. n - 1 : ~ Writes(j, a)
           c == CHOOSE k \in 1 .. n - 1 : Last(k)
<1>1. Last(i)
  OBVIOUS
<1>2. c \in 1 .. n - 1 /\ Last(c)
  BY <1>1
<1>3. LastWriter(n, a) = c
  BY DEF LastWriter
<1> HIDE DEF c
<1>4. c = i
  BY <1>1, <1>2
<1> QED
  BY <1>3, <1>4

LEMMA ReaderGivesFile == HexTypeOK /\ ReaderInv => ImageIsFile
<1> SUFFICES ASSUME HexTypeOK, ReaderInv, parse = "read", NEW a \in Cells
             PROVE  /\ a \in firmware_mask <=> \E i \in 1 .. lineno - 1 : Writes(i, a)
                    /\ firmware_image[a] = IF a \in firmware_mask
                                           THEN ByteOf(LastWriter(lineno, a), a) ELSE FF
  BY DEF ImageIsFile
<1>1. IF a \in firmware_mask THEN Explained(lineno, a)
      ELSE firmware_image[a] = FF /\ \A i \in 1 .. lineno - 1 : ~ Writes(i, a)
  BY DEF ReaderInv
<1>2. CASE a \in firmware_mask
  <2>1. PICK i \in 1 .. lineno - 1 :
          /\ Writes(i, a) /\ \A j \in i + 1 .. lineno - 1 : ~ Writes(j, a)
          /\ firmware_image[a] = ByteOf(i, a)
    BY <1>1, <1>2 DEF Explained
  <2>2. LastWriter(lineno, a) = i
    BY <2>1, FileType, LastWriterUnique
  <2> QED
    BY <1>2, <2>1, <2>2
<1> QED
  BY <1>1, <1>2

LEMMA ReaderInit == HexInit => ReaderInv
<1> SUFFICES ASSUME HexInit PROVE ReaderInv
  OBVIOUS
<1>1. LastExtension(1, 0)
  BY DEF LastExtension
<1>2. ExtensionAt(1) = 0
  BY <1>1, LastExtensionUnique
<1> QED
  BY <1>1, <1>2 DEF HexInit, ReaderInv

\* One more line, with the extension it leaves.
LEMMA ExtensionStep ==
  ASSUME HexTypeOK, NEW n \in Nat \ {0}, NEW e, LastExtension(n, e)
  PROVE  LastExtension(n + 1, IF Extends(file[n]) THEN Extension(file[n]) ELSE e)
<1>1. CASE Extends(file[n])
  <2>1. n \in 1 .. (n + 1) - 1 /\ \A j \in n + 1 .. (n + 1) - 1 : ~ Extends(file[j])
    OBVIOUS
  <2> QED
    BY <1>1, <2>1 DEF LastExtension
<1>2. CASE ~ Extends(file[n]) /\ \E i \in 1 .. n - 1 :
             Extends(file[i]) /\ e = Extension(file[i]) /\ \A j \in i + 1 .. n - 1 : ~ Extends(file[j])
  <2>1. PICK i \in 1 .. n - 1 :
          Extends(file[i]) /\ e = Extension(file[i]) /\ \A j \in i + 1 .. n - 1 : ~ Extends(file[j])
    BY <1>2
  <2>2. i \in 1 .. (n + 1) - 1 /\ \A j \in i + 1 .. (n + 1) - 1 : j = n \/ j \in i + 1 .. n - 1
    OBVIOUS
  <2> QED
    BY <1>2, <2>1, <2>2 DEF LastExtension
<1>3. CASE ~ Extends(file[n]) /\ e = 0 /\ \A i \in 1 .. n - 1 : ~ Extends(file[i])
  <2>1. \A i \in 1 .. (n + 1) - 1 : i = n \/ i \in 1 .. n - 1
    OBVIOUS
  <2> QED
    BY <1>3, <2>1 DEF LastExtension
<1> QED
  BY <1>1, <1>2, <1>3 DEF LastExtension

LEMMA ReaderStep == HexTypeOK /\ ReaderInv /\ HexNext => ReaderInv'
<1> SUFFICES ASSUME HexTypeOK, ReaderInv, HexNext, parse' # "error" PROVE ReaderInv'
  BY DEF ReaderInv
<1>1. CASE UNCHANGED hexVars \/ (EndOfFile /\ UNCHANGED <<file, lineno>>)
  <2>1. /\ file' = file /\ lineno' = lineno /\ firmware_image' = firmware_image
        /\ firmware_mask' = firmware_mask /\ extended_addr' = extended_addr /\ parse # "error"
    BY <1>1, FileType DEF hexVars, EndOfFile, Reading
  <2>2. \A n, v : LastExtension(n, v)' <=> LastExtension(n, v)
    BY <2>1 DEF LastExtension, Extends, Extension
  <2>3. \A n, a : Explained(n, a)' <=> Explained(n, a)
    BY <2>1, SameFile DEF Explained
  <2> QED
    BY <2>1, <2>2, <2>3, SameFile DEF ReaderInv
<1>2. ASSUME NEW f \in FILES, StartReading(f) PROVE ReaderInv'
  <2>1. LastExtension(1, 0)'
    BY DEF LastExtension
  <2>2. ExtensionAt(1)' = 0
    BY DEF ExtensionAt
  <2> QED
    BY <1>2, <2>1, <2>2 DEF StartReading, ReaderInv
<1>3. CASE Reading /\ (DataLine \/ OtherLine \/ EndOfFile)
  <2> PICK n \in Nat \ {0} : n = lineno
    BY FileType
  <2> DEFINE l == file[n]
  <2>1. /\ parse # "error" /\ file' = file /\ lineno' = n + 1 /\ n \in 1 .. Len(file)
        /\ l \in Line /\ extended_addr \in Nat
    BY <1>3, FileType DEF Reading, HexTypeOK
  <2>2. /\ \A i \in 1 .. n : LastExtension(i, ExtensionAt(i))
        /\ extended_addr = ExtensionAt(n)
    BY <2>1 DEF ReaderInv
  <2>3. extended_addr' = IF Extends(l) THEN Extension(l) ELSE extended_addr
    BY <1>3, <2>1 DEF DataLine, OtherLine, EndOfFile, Extends
  <2>4. LastExtension(n + 1, extended_addr')
    BY <2>1, <2>2, <2>3, ExtensionStep
  <2>5. ExtensionAt(n + 1) = extended_addr'
    BY <2>1, <2>4, LastExtensionUnique
  <2>6. \A i, v : LastExtension(i, v)' <=> LastExtension(i, v)
    BY <2>1 DEF LastExtension, Extends, Extension
  <2>7. \A i \in 1 .. lineno' : LastExtension(i, ExtensionAt(i))'
    <3> SUFFICES ASSUME NEW i \in 1 .. n + 1 PROVE LastExtension(i, ExtensionAt(i))'
      BY <2>1
    <3>1. LastExtension(i, ExtensionAt(i))
      BY <2>2, <2>4, <2>5
    <3>2. ExtensionAt(i)' = ExtensionAt(i)
      BY <2>1, SameFile
    <3> QED
      BY <3>1, <3>2, <2>1 DEF LastExtension, Extends, Extension
  <2>8. extended_addr' = ExtensionAt(lineno)'
    <3>1. ExtensionAt(n + 1)' = ExtensionAt(n + 1)
      BY <2>1, SameFile
    <3> QED
      BY <2>1, <2>5, <3>1 DEF ExtensionAt
  <2>9. \A i \in 1 .. n : i = n \/ i \in 1 .. n - 1
    BY <2>1
  <2>10. ASSUME NEW a \in Cells
         PROVE  IF a \in firmware_mask' THEN Explained(n + 1, a)'
                ELSE firmware_image'[a] = FF /\ \A i \in 1 .. n : ~ Writes(i, a)'
    <3>1. Writes(n, a) <=> l.code = 0 /\ Covers(l, extended_addr, a)
      BY <2>2 DEF Writes
    <3>2. IF a \in firmware_mask THEN Explained(n, a)
          ELSE firmware_image[a] = FF /\ \A i \in 1 .. n - 1 : ~ Writes(i, a)
      BY <2>1 DEF ReaderInv
    <3>3. CASE Writes(n, a)
      <4>1. DataLine
        BY <1>3, <2>1, <3>1, <3>3 DEF OtherLine, EndOfFile
      <4>2. firmware_image'[a] = l.data[a - (extended_addr + l.addr)] /\ a \in firmware_mask'
        BY <3>1, <3>3, <4>1 DEF DataLine
      <4>3. firmware_image'[a] = ByteOf(n, a)
        BY <2>2, <4>2 DEF ByteOf
      <4>4. n \in 1 .. (n + 1) - 1 /\ n + 1 .. (n + 1) - 1 = {}
        BY <2>1
      <4> QED
        BY <2>1, <3>3, <4>2, <4>3, <4>4, SameFile DEF Explained
    <3>4. CASE ~ Writes(n, a)
      <4>1. firmware_image'[a] = firmware_image[a] /\ (a \in firmware_mask' <=> a \in firmware_mask)
        BY <1>3, <3>1, <3>4 DEF DataLine, OtherLine, EndOfFile, HexTypeOK
      <4>2. CASE a \in firmware_mask
        <5>1. PICK i \in 1 .. n - 1 :
                /\ Writes(i, a) /\ \A j \in i + 1 .. n - 1 : ~ Writes(j, a)
                /\ firmware_image[a] = ByteOf(i, a)
          BY <3>2, <4>2 DEF Explained
        <5>2. /\ i \in 1 .. (n + 1) - 1
              /\ \A j \in i + 1 .. (n + 1) - 1 : j = n \/ j \in i + 1 .. n - 1
          BY <2>1
        <5>3. \A j \in i + 1 .. (n + 1) - 1 : ~ Writes(j, a)
          BY <3>4, <5>1, <5>2
        <5>4. /\ Writes(i, a)' /\ \A j \in i + 1 .. (n + 1) - 1 : ~ Writes(j, a)'
              /\ firmware_image'[a] = ByteOf(i, a)'
          BY <2>1, <4>1, <5>1, <5>3, SameFile
        <5> QED
          BY <2>1, <4>1, <4>2, <5>2, <5>4 DEF Explained
      <4>3. CASE a \notin firmware_mask
        BY <2>1, <2>9, <3>2, <3>4, <4>1, <4>3, SameFile
      <4> QED
        BY <4>2, <4>3
    <3> QED
      BY <3>3, <3>4
  <2>11. ASSUME NEW a \in Cells
         PROVE  (IF a \in firmware_mask THEN Explained(lineno, a)
                 ELSE firmware_image[a] = FF /\ \A i \in 1 .. lineno - 1 : ~ Writes(i, a))'
    <3>1. lineno' - 1 = n
      BY <2>1
    <3>2. Explained(n + 1, a)' => Explained(lineno, a)'
      BY <2>1 DEF Explained
    <3> QED
      BY <2>10, <3>1, <3>2
  <2> QED
    BY <2>7, <2>8, <2>11 DEF ReaderInv
<1> QED
  BY <1>1, <1>2, <1>3 DEF HexNext, ReadLine, RefuseLine, DataLine, OtherLine, EndOfFile

-----------------------------------------------------------------------------
(* Types.  What the device reads next is known from PageInv and LinkInv.   *)

Pages == [0 .. BLOCK - 1 -> VALUES]

LEMMA ValuesType ==
  /\ ERASED \in VALUES /\ TORN \in VALUES /\ OLD \in VALUES /\ FF \in VALUES
  /\ BYTES \subseteq VALUES /\ BYTES \subseteq Nat /\ FF \in Nat
  BY BootAssumption, ProgrammingAssumption, HexAssumption DEF FF

LEMMA PagesType ==
  /\ AllOf(ERASED) \in Pages /\ AllOf(TORN) \in Pages /\ AllOf(FF) \in Pages
  BY ValuesType DEF AllOf, Pages

LEMMA GetDataType ==
  ASSUME HexTypeOK, NEW a \in Nat
  PROVE  GetData(a, BLOCK) \in [0 .. BLOCK - 1 -> BYTES \cup {FF}]
<1> SUFFICES ASSUME NEW k \in 0 .. BLOCK - 1, a + k \in firmware_mask
             PROVE  firmware_image[a + k] \in BYTES \cup {FF}
  BY DEF GetData
<1> QED
  BY DEF HexTypeOK

LEMMA SetPageType ==
  ASSUME flash \in [Words -> VALUES], NEW a \in Nat, NEW content \in Pages,
         SetPage(a, content)
  PROVE  flash' \in [Words -> VALUES]
<1>1. BLOCK \in Nat \ {0} /\ PageBase(a) \in Nat
  BY BootAssumption, PageBaseType
<1>2. \A w \in Page(a) : content[w - PageBase(a)] \in VALUES
  <2> SUFFICES ASSUME NEW w \in Page(a) PROVE content[w - PageBase(a)] \in VALUES
    OBVIOUS
  <2>1. w - PageBase(a) \in 0 .. BLOCK - 1
    BY <1>1 DEF Page
  <2> QED
    BY <2>1 DEF Pages
<1>3. flash' = [w \in Words |-> IF w \in Page(a) THEN content[w - PageBase(a)] ELSE flash[w]]
  BY DEF SetPage
<1> QED
  BY <1>2, <1>3

LEMMA EmptyType == ASSUME NEW S PROVE << >> \in Seq(S)
OBVIOUS

LEMMA BootTypeInit == BootInit => BootTypeOK
<1> SUFFICES ASSUME BootInit PROVE BootTypeOK
  OBVIOUS
<1>1. code_size \in CODE_SIZES /\ 0 \in Words /\ flash \in [Words -> VALUES]
  BY BootAssumption DEF BootInit, Words
<1>2. 0 \in 0 .. BLOCK /\ buffer \in [0 .. BLOCK - 1 -> VALUES] /\ bank \in Seq(Nat \cup VALUES)
  BY PagesType, BootAssumption DEF BootInit, Pages
<1> QED
  BY <1>1, <1>2 DEF BootInit, BootTypeOK, Locations, MagicKeys

\* The device's steps but for those that handle a page.
LEMMA BootTypeSmall ==
  ASSUME BootTypeOK,
         \/ Restart \/ LoopExit \/ Leave \/ WatchdogReset \/ SetReport \/ NextPacket
         \/ Finish \/ PowerOn \/ PowerOff \/ ApplicationFails
  PROVE  BootTypeOK'
<1>1. /\ code_size' = code_size /\ flash' = flash
      /\ Words' = Words
  BY DEF Restart, LoopExit, Leave, WatchdogReset, SetReport, NextPacket, Finish, PowerOn,
         PowerOff, ApplicationFails, pageVars, bootVars, Words
<1>2. /\ rxstpi' \in BOOLEAN /\ rxouti' \in BOOLEAN /\ zlp' \in BOOLEAN
      /\ wdrf' \in BOOLEAN /\ pe2' \in BOOLEAN /\ RunBootloader' \in BOOLEAN
  BY DEF Restart, LoopExit, Leave, WatchdogReset, SetReport, NextPacket, Finish, PowerOn,
         PowerOff, ApplicationFails, pipeVars, bootVars, ResetPipe, BootTypeOK
<1>3. dpc' \in Locations /\ MagicBootKey' \in MagicKeys
  BY DEF Restart, LoopExit, Leave, WatchdogReset, SetReport, NextPacket, Finish, PowerOn,
         PowerOff, ApplicationFails, bootVars, BootTypeOK, Locations, MagicKeys
<1>4. bank' = bank \/ bank' = << >>
  BY DEF Restart, LoopExit, Leave, WatchdogReset, SetReport, NextPacket, Finish, PowerOn,
         PowerOff, ApplicationFails, pipeVars, ResetPipe
<1>5. /\ buffer' = buffer \/ buffer' = AllOf(ERASED)
      /\ page_address' = page_address \/ page_address' = 0
      /\ page_word' = page_word \/ page_word' = 0
  BY DEF Restart, LoopExit, Leave, WatchdogReset, SetReport, NextPacket, Finish, PowerOn,
         PowerOff, ApplicationFails, pageVars, bootVars
<1>6. bank' \in Seq(Nat \cup VALUES)
  BY <1>4, EmptyType DEF BootTypeOK
<1>7. buffer' \in [0 .. BLOCK - 1 -> VALUES]
  BY <1>5, PagesType DEF BootTypeOK, Pages
<1>8. page_address' \in Words /\ page_word' \in 0 .. BLOCK
  BY <1>5, BootAssumption DEF BootTypeOK, Words
<1> QED
  BY <1>1, <1>2, <1>3, <1>6, <1>7, <1>8 DEF BootTypeOK

LEMMA TailType ==
  ASSUME NEW S, NEW s \in Seq(S), s # << >>
  PROVE  Head(s) \in S /\ Tail(s) \in Seq(S) /\ Len(Tail(s)) = Len(s) - 1
OBVIOUS

LEMMA BootTypePage ==
  ASSUME BootTypeOK, PageInv, PipeInv,
         ReadCommand \/ EraseDone \/ FillWord \/ WritePage \/ WriteDone
  PROVE  BootTypeOK'
<1> DEFINE Others == /\ rxstpi' = rxstpi /\ rxouti' = rxouti /\ zlp' = zlp
                     /\ MagicBootKey' = MagicBootKey /\ wdrf' = wdrf /\ pe2' = pe2
                     /\ code_size' = code_size /\ Words' = Words
                     /\ RunBootloader' \in BOOLEAN /\ dpc' \in Locations
<1>1. Others
  BY DEF ReadCommand, EraseDone, FillWord, WritePage, WriteDone, pipeVars, bootVars,
         Words, Locations, BootTypeOK
<1>2. CASE ReadCommand
  <2>1. Len(bank) = 2 /\ Head(bank) = bank[1]
    BY <1>2 DEF ReadCommand, PageInv, BootTypeOK
  <2>2. Head(bank) \in Nat \cup VALUES /\ Tail(bank) \in Seq(Nat \cup VALUES)
    <3>1. bank \in Seq(Nat \cup VALUES)
      BY DEF BootTypeOK
    <3>2. bank # << >>
      BY <2>1
    <3> QED
      BY <3>1, <3>2, TailType, ZenonT(20)
  <2>3. CASE Head(bank) = COMMAND_STARTAPPLICATION
    BY <1>1, <1>2, <2>2, <2>3 DEF ReadCommand, pageVars, BootTypeOK
  <2>4. CASE Head(bank) # COMMAND_STARTAPPLICATION
    <3> DEFINE a == DeviceAddress(Head(bank))
    <3>1. a \in Words /\ a \in Nat
      BY <1>2, <2>1, <2>4 DEF ReadCommand, PageInv, Words
    <3>2. /\ page_address' = a /\ page_word' = 0 /\ SetPage(a, AllOf(TORN))
          /\ buffer' = buffer /\ bank' = Tail(bank)
      BY <1>2, <2>4 DEF ReadCommand
    <3> HIDE DEF a
    <3>3. flash' \in [Words -> VALUES]
      BY <3>1, <3>2, PagesType, SetPageType DEF BootTypeOK
    <3>4. 0 \in 0 .. BLOCK
      BY BootAssumption
    <3> QED
      BY <1>1, <2>2, <3>1, <3>2, <3>3, <3>4 DEF BootTypeOK
  <2> QED
    BY <2>3, <2>4
<1>3. CASE EraseDone \/ WritePage \/ WriteDone
  <2>1. /\ page_address' = page_address /\ page_word' = page_word /\ bank' = bank
        /\ buffer' = buffer \/ buffer' = AllOf(ERASED)
        /\ \/ SetPage(page_address, AllOf(ERASED))
           \/ SetPage(page_address, AllOf(TORN))
           \/ SetPage(page_address, buffer)
    BY <1>3 DEF EraseDone, WritePage, WriteDone, pipeVars
  <2>2. page_address \in Nat /\ buffer \in Pages
    BY DEF BootTypeOK, Words, Pages
  <2>3. flash' \in [Words -> VALUES]
    BY <2>1, <2>2, PagesType, SetPageType DEF BootTypeOK
  <2>4. buffer' \in Pages
    BY <2>1, <2>2, PagesType
  <2> QED
    BY <1>1, <2>1, <2>3, <2>4 DEF BootTypeOK, Pages
<1>4. CASE FillWord
  <2>1. bank \in Seq(VALUES) /\ bank # << >>
    BY <1>4 DEF FillWord, PageInv
  <2>2. Head(bank) \in VALUES
    BY <2>1, TailType
  <2>3. Tail(bank) \in Seq(Nat \cup VALUES)
    BY <2>1, TailType DEF BootTypeOK
  <2>4. buffer' \in [0 .. BLOCK - 1 -> VALUES]
    BY <1>4, <2>2 DEF FillWord, BootTypeOK
  <2>5. page_word' \in 0 .. BLOCK
    BY <1>4, BootAssumption DEF FillWord, BootTypeOK
  <2> QED
    BY <1>1, <1>4, <2>3, <2>4, <2>5 DEF FillWord, BootTypeOK
<1> QED
  BY <1>2, <1>3, <1>4

HostTypeOK ==
  /\ hpc \in HostLocations
  /\ addr \in 0 .. code_size /\ addr % BLOCK = 0
  /\ waited \in BOOLEAN /\ wait_for_device_to_appear \in BOOLEAN
  /\ hard_reboot_device \in BOOLEAN
  /\ handle \in {"none", "open", "stale"}
  /\ Transferring => handle # "none"
  /\ outgoing \in Seq(Seq(Nat)) /\ Len(outgoing) <= BLOCK
  /\ outcome \in {"none", "ok", "failed"}
  /\ hpc # "exited" => outcome = "none"

LEMMA TypeParts == TypeOK <=> HexTypeOK /\ BootTypeOK /\ HostTypeOK
  BY DEF TypeOK, HostTypeOK

LEMMA SizeType ==
  ASSUME BootTypeOK
  PROVE  code_size \in Nat \ {0} /\ code_size % BLOCK = 0
  BY BootAssumption DEF BootTypeOK

LEMMA NextBlock ==
  ASSUME TypeOK, addr < code_size
  PROVE  addr \in Nat /\ addr + BLOCK \in 0 .. code_size /\ (addr + BLOCK) % BLOCK = 0
<1>1. code_size \in Nat \ {0} /\ code_size % BLOCK = 0
  BY SizeType DEF TypeOK
<1>2. addr \in Nat /\ addr % BLOCK = 0
  BY <1>1 DEF TypeOK
<1>3. addr + BLOCK <= code_size /\ (addr + BLOCK) % BLOCK = 0
  BY <1>1, <1>2, AlignedStep
<1> QED
  BY <1>1, <1>2, <1>3, BootAssumption

LEMMA ReportType ==
  ASSUME NEW w \in Nat, NEW c \in [0 .. BLOCK - 1 -> Nat]
  PROVE  /\ Report(w, c) \in Seq(Seq(Nat)) /\ Len(Report(w, c)) = BLOCK
         /\ \A k \in 1 .. BLOCK :
              Report(w, c)[k] = IF k = 1 THEN <<w, c[0]>> ELSE <<c[k - 1]>>
<1>1. BLOCK \in Nat \ {0}
  BY BootAssumption
<1>2. \A k \in 1 .. BLOCK : (IF k = 1 THEN <<w, c[0]>> ELSE <<c[k - 1]>>) \in Seq(Nat)
  <2> SUFFICES ASSUME NEW k \in 1 .. BLOCK
               PROVE  (IF k = 1 THEN <<w, c[0]>> ELSE <<c[k - 1]>>) \in Seq(Nat)
    OBVIOUS
  <2>1. c[0] \in Nat /\ c[k - 1] \in Nat
    BY <1>1
  <2>2. <<w, c[0]>> \in Seq(Nat) /\ <<c[k - 1]>> \in Seq(Nat)
    BY <2>1
  <2> QED
    BY <2>2
<1>3. Report(w, c) = [k \in 1 .. BLOCK |-> IF k = 1 THEN <<w, c[0]>> ELSE <<c[k - 1]>>]
  BY DEF Report
<1>4. Report(w, c) \in [1 .. BLOCK -> Seq(Nat)]
  BY <1>2, <1>3
<1>5. Report(w, c) \in Seq(Seq(Nat))
  BY <1>1, <1>4
<1> QED
  BY <1>1, <1>3, <1>4, <1>5

\* The three commands.
LEMMA CommandsType ==
  ASSUME BootTypeOK, HexTypeOK, addr \in 0 .. code_size, addr % BLOCK = 0, addr < code_size
  PROVE  HostAddress(addr) \in Nat /\ GetData(addr, BLOCK) \in [0 .. BLOCK - 1 -> Nat]
<1>1. addr \in Nat /\ code_size \in CODE_SIZES
  BY SizeType DEF BootTypeOK
<1> QED
  BY <1>1, SameAddress, GetDataType, ValuesType

LEMMA StartCommandType ==
  COMMAND_STARTAPPLICATION \in Nat /\ AllOf(0) \in [0 .. BLOCK - 1 -> Nat]
  BY BootAssumption, StartAssumption DEF AllOf

LEMMA RebootType ==
  /\ << <<REBOOT_WORD, FF>> >> \in Seq(Seq(Nat)) /\ Len(<< <<REBOOT_WORD, FF>> >>) = 1
  /\ 1 <= BLOCK
<1>1. <<REBOOT_WORD, FF>> \in Seq(Nat)
  BY ProgrammingAssumption, ValuesType
<1> QED
  BY <1>1, BootAssumption

\* Where nothing is sent, the loader's steps leave the pipe alone.
LEMMA HostQuietType ==
  ASSUME TypeOK, HostInv,
         Start \/ Read \/ ReadDone \/ Open \/ NotFound \/ Rebooted \/ SkipBlock \/ TransferFails
  PROVE  HostTypeOK'
<1>1. code_size' = code_size
  BY DEF Start, Read, ReadDone, Open, NotFound, Rebooted, SkipBlock, TransferFails,
         deviceVars, bootVars
<1>2. CASE SkipBlock
  <2>1. addr' \in 0 .. code_size /\ addr' % BLOCK = 0
    BY <1>2, NextBlock DEF SkipBlock
  <2> QED
    BY <1>1, <1>2, <2>1 DEF SkipBlock, optionVars, TypeOK, HostTypeOK, Transferring
<1>3. ASSUME NEW r \in {"ok", "failed"}, Exit(r) PROVE HostTypeOK'
  <2>1. 0 \in 0 .. code_size /\ 0 % BLOCK = 0 /\ 0 <= BLOCK
    BY SizeType, BlockType DEF TypeOK
  <2>2. << >> \in Seq(Seq(Nat)) /\ Len(<< >>) = 0
    BY EmptyType
  <2> QED
    BY <1>1, <1>3, <2>1, <2>2 DEF Exit, HostTypeOK, HostLocations, Transferring
<1>4. CASE Start \/ Read
  BY <1>1, <1>4 DEF Start, Read, optionVars, hostVars, TypeOK, HostTypeOK, HostLocations, Transferring
<1>5. CASE ReadDone \/ Open \/ NotFound \/ Rebooted
  BY <1>1, <1>3, <1>5 DEF ReadDone, Open, NotFound, Rebooted, GoOn, optionVars, TypeOK, HostTypeOK,
                          HostLocations, Transferring, HostInv
<1>6. CASE TransferFails
  BY <1>3, <1>6 DEF TransferFails
<1> QED
  BY <1>2, <1>4, <1>5, <1>6

LEMMA HostPipeType ==
  ASSUME TypeOK, HostInv,
         HardReboot \/ WriteBlock \/ BlockDone \/ Boot \/ BootDone \/ SendPacket
  PROVE  HostTypeOK' /\ BootTypeOK'
<1>1. /\ code_size' = code_size /\ Words' = Words /\ dpc' = dpc
      /\ flash' = flash /\ buffer' = buffer /\ page_address' = page_address
      /\ page_word' = page_word /\ RunBootloader' = RunBootloader
      /\ MagicBootKey' = MagicBootKey /\ wdrf' = wdrf /\ pe2' = pe2
  BY DEF HardReboot, WriteBlock, BlockDone, Boot, BootDone, SendPacket, pageVars, bootVars, Words
<1>2. ASSUME NEW r \in {"ok", "failed"}, Exit(r) PROVE HostTypeOK'
  <2>1. 0 \in 0 .. code_size /\ 0 % BLOCK = 0 /\ 0 <= BLOCK
    BY SizeType, BlockType DEF TypeOK
  <2>2. << >> \in Seq(Seq(Nat)) /\ Len(<< >>) = 0
    BY EmptyType
  <2> QED
    BY <1>1, <1>2, <2>1, <2>2 DEF Exit, HostTypeOK, HostLocations, Transferring
<1>3. ASSUME bank' \in Seq(Nat \cup VALUES), rxstpi' \in BOOLEAN, rxouti' \in BOOLEAN, zlp' \in BOOLEAN
      PROVE  BootTypeOK'
  BY <1>1, <1>3 DEF TypeOK, BootTypeOK
<1>4. << >> \in Seq(Nat \cup VALUES) /\ bank \in Seq(Nat \cup VALUES)
  BY EmptyType DEF TypeOK, BootTypeOK
<1>5. CASE HardReboot
  <2>1. BootTypeOK'
    BY <1>3, <1>4, <1>5 DEF HardReboot, pipeVars, TypeOK, BootTypeOK
  <2>2. CASE Found(REBOOTOR_IDS)
    <3> DEFINE o == << <<REBOOT_WORD, FF>> >>
    <3>1. /\ hpc' = "reboot_write" /\ handle' = "open" /\ outgoing' = o
          /\ addr' = addr /\ waited' = waited /\ outcome' = outcome
          /\ wait_for_device_to_appear' = wait_for_device_to_appear
          /\ hard_reboot_device' = hard_reboot_device /\ hpc = "rebooting"
      BY <1>5, <2>2 DEF HardReboot, optionVars
    <3>2. o \in Seq(Seq(Nat)) /\ Len(o) <= BLOCK
      BY RebootType
    <3> HIDE DEF o
    <3>3. outgoing' \in Seq(Seq(Nat)) /\ Len(outgoing') <= BLOCK
      BY <3>1, <3>2
    <3> QED
      BY <1>1, <2>1, <3>1, <3>3 DEF TypeOK, HostTypeOK, HostLocations
  <2> QED
    BY <1>2, <1>5, <2>1, <2>2 DEF HardReboot
<1>6. ASSUME NEW w \in Nat, NEW c \in [0 .. BLOCK - 1 -> Nat], Transfer(Report(w, c))
      PROVE  BootTypeOK' /\ outgoing' \in Seq(Seq(Nat)) /\ Len(outgoing') <= BLOCK
  <2>1. BootTypeOK'
    BY <1>3, <1>4, <1>6 DEF Transfer, pipeVars, TypeOK, BootTypeOK
  <2>2. outgoing' = Report(w, c)
    BY <1>6 DEF Transfer
  <2>3. Report(w, c) \in Seq(Seq(Nat)) /\ Len(Report(w, c)) = BLOCK
    BY ReportType
  <2>4. BLOCK \in Nat
    BY BootAssumption
  <2> QED
    BY <2>1, <2>2, <2>3, <2>4
<1>7. CASE WriteBlock
  <2>1. HostAddress(addr) \in Nat /\ GetData(addr, BLOCK) \in [0 .. BLOCK - 1 -> Nat]
    BY <1>7, CommandsType DEF WriteBlock, TypeOK
  <2>2. BootTypeOK' /\ outgoing' \in Seq(Seq(Nat)) /\ Len(outgoing') <= BLOCK
    BY <1>6, <1>7, <2>1 DEF WriteBlock
  <2> QED
    BY <1>1, <1>7, <2>2 DEF WriteBlock, optionVars, TypeOK, HostTypeOK, HostLocations, HostInv
<1>8. CASE Boot
  <2>1. CASE Exit("ok") /\ UNCHANGED pipeVars
    BY <1>2, <1>3, <1>4, <2>1 DEF pipeVars, TypeOK, BootTypeOK
  <2>2. CASE /\ Transfer(Report(COMMAND_STARTAPPLICATION, AllOf(0)))
             /\ hpc' = "booting"
             /\ UNCHANGED <<addr, waited, optionVars, handle, outcome>>
    <3>1. BootTypeOK' /\ outgoing' \in Seq(Seq(Nat)) /\ Len(outgoing') <= BLOCK
      BY <1>6, <2>2, StartCommandType
    <3> QED
      BY <1>1, <1>8, <2>2, <3>1 DEF Boot, optionVars, TypeOK, HostTypeOK, HostLocations, HostInv
  <2> QED
    BY <1>8, <2>1, <2>2 DEF Boot
<1>9. CASE BlockDone
  <2>1. addr' \in 0 .. code_size /\ addr' % BLOCK = 0
    BY <1>9, NextBlock DEF BlockDone, HostInv
  <2>2. BootTypeOK'
    BY <1>3, <1>4, <1>9 DEF BlockDone, TypeOK, BootTypeOK
  <2> QED
    BY <1>1, <1>9, <2>1, <2>2 DEF BlockDone, optionVars, TypeOK, HostTypeOK, HostLocations, Transferring
<1>10. CASE BootDone
  <2>1. BootTypeOK'
    BY <1>3, <1>4, <1>10 DEF BootDone, TypeOK, BootTypeOK
  <2> QED
    BY <1>2, <1>10, <2>1 DEF BootDone
<1>11. CASE SendPacket
  <2>1. outgoing \in Seq(Seq(Nat)) /\ outgoing # << >> /\ bank' = Head(outgoing) /\ outgoing' = Tail(outgoing)
    BY <1>11 DEF SendPacket, TypeOK
  <2>2. bank' \in Seq(Nat) /\ outgoing' \in Seq(Seq(Nat)) /\ Len(outgoing') = Len(outgoing) - 1
    BY <2>1, TailType
  <2>3. Len(outgoing) \in Nat /\ Len(outgoing) <= BLOCK /\ BLOCK \in Nat
    BY <2>1, BootAssumption DEF TypeOK
  <2>4. Len(outgoing') <= BLOCK
    BY <2>2, <2>3
  <2>5. bank' \in Seq(Nat \cup VALUES)
    BY <2>2
  <2>6. BootTypeOK'
    BY <1>3, <1>11, <2>5 DEF SendPacket, TypeOK, BootTypeOK
  <2> QED
    BY <1>1, <1>11, <2>2, <2>4, <2>6
       DEF SendPacket, optionVars, TypeOK, HostTypeOK, HostLocations, Transferring
<1> QED
  BY <1>5, <1>7, <1>8, <1>9, <1>10, <1>11

LEMMA TypeInit == Init => TypeOK
<1> SUFFICES ASSUME Init PROVE TypeOK
  OBVIOUS
<1>1. HexTypeOK /\ BootTypeOK
  BY HexTypeInit, BootTypeInit DEF Init
<1>2. 0 \in 0 .. code_size /\ 0 % BLOCK = 0 /\ 0 <= BLOCK
  BY <1>1, SizeType, BlockType
<1>3. << >> \in Seq(Seq(Nat)) /\ Len(<< >>) = 0
  BY EmptyType
<1>4. HostTypeOK
  BY <1>2, <1>3 DEF Init, HostTypeOK, HostLocations, Transferring
<1> QED
  BY <1>1, <1>4, TypeParts

LEMMA TypeStep ==
  ASSUME TypeOK, PipeInv, PageInv, HostInv, [Next]_vars
  PROVE  TypeOK'
<1>1. HexTypeOK'
  BY HexSteps, HexTypeStep DEF TypeOK
<1>2. CASE Start \/ Read \/ ReadDone \/ Open \/ NotFound \/ Rebooted \/ SkipBlock \/ TransferFails
  <2>1. UNCHANGED deviceVars
    BY <1>2 DEF Start, Read, ReadDone, Open, NotFound, Rebooted, SkipBlock, TransferFails
  <2>2. BootTypeOK'
    BY <2>1 DEF deviceVars, pipeVars, pageVars, bootVars, TypeOK, BootTypeOK, Words
  <2> QED
    BY <1>1, <1>2, <2>2, HostQuietType DEF TypeOK, HostTypeOK
<1>3. CASE HardReboot \/ WriteBlock \/ BlockDone \/ Boot \/ BootDone \/ SendPacket
  BY <1>1, <1>3, HostPipeType DEF TypeOK, HostTypeOK
<1>4. CASE Device \/ Supply
  <2>1. BootTypeOK'
    BY <1>4, BootTypeSmall, BootTypePage DEF Device, Supply, DeviceStep, TypeOK
  <2>2. code_size' = code_size
    BY <1>4 DEF Device, Supply, DeviceStep, Restart, LoopExit, Leave, WatchdogReset, SetReport,
                NextPacket, Finish, PowerOn, PowerOff, ApplicationFails, ReadCommand, EraseDone,
                FillWord, WritePage, WriteDone, bootVars
  <2>3. HostTypeOK'
    BY <1>4, <2>2 DEF Device, Supply, HandleAfter, Beside, optionVars, TypeOK, HostTypeOK, Transferring
  <2> QED
    BY <1>1, <2>1, <2>3 DEF TypeOK, HostTypeOK
<1>5. CASE UNCHANGED vars
  <2>1. UNCHANGED deviceVars /\ UNCHANGED hostVars
    BY <1>5 DEF vars
  <2>2. BootTypeOK'
    BY <2>1 DEF deviceVars, pipeVars, pageVars, bootVars, TypeOK, BootTypeOK, Words
  <2>3. HostTypeOK'
    BY <2>1 DEF deviceVars, bootVars, hostVars, optionVars, TypeOK, HostTypeOK, Transferring
  <2> QED
    BY <1>1, <2>2, <2>3 DEF TypeOK, HostTypeOK
<1> QED
  BY <1>2, <1>3, <1>4, <1>5 DEF Next, HostStep

-----------------------------------------------------------------------------
(* The pipe                                                                *)

HostQuiet == Start \/ Read \/ ReadDone \/ Open \/ NotFound \/ Rebooted \/ SkipBlock \/ TransferFails

LEMMA QuietDevice == HostQuiet => UNCHANGED deviceVars
  BY DEF HostQuiet, Start, Read, ReadDone, Open, NotFound, Rebooted, SkipBlock, TransferFails

\* A SETUP packet is sent to a device that is open, and only from where the
\* device rests.
Setup ==
  /\ hpc \in {"rebooting", "programming"} /\ Attached
  /\ rxstpi' = TRUE /\ rxouti' = FALSE /\ bank' = << >> /\ zlp' = FALSE

HostPipe == HardReboot \/ WriteBlock \/ BlockDone \/ Boot \/ BootDone \/ SendPacket

LEMMA PipeCases ==
  ASSUME LinkInv, HostPipe
  PROVE  /\ dpc' = dpc /\ UNCHANGED <<pageVars, bootVars>>
         /\ \/ Setup
            \/ SendPacket
            \/ UNCHANGED <<rxstpi, rxouti, bank>>
<1>1. handle = "open" => Attached
  BY DEF LinkInv
<1>2. CASE HardReboot
  BY <1>2 DEF HardReboot, Found, Setup, pipeVars
<1>3. CASE WriteBlock
  BY <1>1, <1>3 DEF WriteBlock, Transfer, Setup, pipeVars
<1>4. CASE Boot
  BY <1>1, <1>4 DEF Boot, Transfer, Setup, pipeVars
<1>5. CASE BlockDone \/ BootDone \/ SendPacket
  BY <1>5 DEF BlockDone, BootDone, SendPacket
<1> QED
  BY <1>2, <1>3, <1>4, <1>5 DEF HostPipe

LEMMA SetupRest == LinkInv /\ Setup => Rest
  BY DEF LinkInv, Setup, Idle

LEMMA PipeStep ==
  ASSUME TypeOK, PipeInv, LinkInv, [Next]_vars
  PROVE  PipeInv'
<1>1. CASE HostQuiet \/ UNCHANGED vars
  <2>1. UNCHANGED deviceVars
    BY <1>1, QuietDevice DEF vars
  <2> QED
    BY <2>1 DEF deviceVars, pipeVars, pageVars, PipeInv
<1>2. CASE HostPipe
  <2>1. /\ dpc' = dpc /\ page_word' = page_word
        /\ Setup \/ SendPacket \/ UNCHANGED <<rxstpi, rxouti, bank>>
    BY <1>2, PipeCases DEF pageVars
  <2>2. CASE Setup
    BY <2>1, <2>2, SetupRest DEF Setup, Rest, PipeInv, Attached
  <2>3. CASE SendPacket
    BY <2>1, <2>3 DEF SendPacket, LinkInv, PipeInv, Attached
  <2>4. CASE UNCHANGED <<rxstpi, rxouti, bank>>
    BY <2>1, <2>4 DEF PipeInv
  <2> QED
    BY <2>1, <2>2, <2>3, <2>4
<1>3. CASE Restart \/ LoopExit \/ Leave \/ WatchdogReset \/ SetReport
  BY <1>3 DEF Restart, LoopExit, Leave, WatchdogReset, SetReport, ResetPipe, pipeVars, PipeInv
<1>4. CASE ReadCommand
  <2>1. rxstpi' = rxstpi /\ rxouti' /\ rxouti /\ dpc' \in {"finish", "erase"}
    BY <1>4 DEF ReadCommand
  <2> QED
    BY <2>1 DEF PipeInv
<1>8. CASE EraseDone
  BY <1>8 DEF EraseDone, pipeVars, PipeInv
<1>5. CASE NextPacket
  <2>1. /\ rxstpi' = rxstpi /\ ~ rxouti' /\ bank' = << >> /\ dpc' = "fill" /\ rxouti
        /\ page_word' = page_word /\ page_word < BLOCK
    BY <1>5 DEF NextPacket, pageVars
  <2>2. page_word # BLOCK
    BY <2>1 DEF TypeOK, BootTypeOK
  <2> QED
    BY <2>1, <2>2 DEF PipeInv
<1>9. CASE FillWord
  <2>1. rxstpi' = rxstpi /\ rxouti' /\ rxouti /\ dpc' = "fill"
    BY <1>9 DEF FillWord
  <2> QED
    BY <2>1 DEF PipeInv
<1>10. CASE WritePage
  BY <1>10 DEF WritePage, pipeVars, PipeInv
<1>6. CASE WriteDone \/ Finish
  BY <1>6 DEF WriteDone, Finish, pipeVars, PipeInv
<1>7. CASE PowerOn \/ PowerOff \/ ApplicationFails
  BY <1>7 DEF PowerOn, PowerOff, ApplicationFails, ResetPipe, pipeVars, PipeInv
<1> QED
  BY <1>1, <1>2, <1>3, <1>4, <1>5, <1>6, <1>7, <1>8,
     <1>9, <1>10 DEF Next, HostStep, HostQuiet, HostPipe, Device, DeviceStep, Supply

-----------------------------------------------------------------------------
(* The loader                                                              *)

LEMMA SameTask ==
  ASSUME UNCHANGED hexVars, code_size' = code_size, NEW a
  PROVE  /\ Wanted(a)' = Wanted(a) /\ (Allowed(a)' <=> Allowed(a))
         /\ GetData(a, BLOCK)' = GetData(a, BLOCK) /\ (Used(a)' <=> Used(a))
         /\ DeviceAddress(a)' = DeviceAddress(a) /\ HostAddress(a)' = HostAddress(a)
         /\ Words' = Words /\ parse' = parse /\ (Agreed' <=> Agreed)
<1>1. /\ firmware_image' = firmware_image /\ firmware_mask' = firmware_mask /\ parse' = parse
  BY DEF hexVars
<1>2. \A b : GetData(b, BLOCK)' = GetData(b, BLOCK) /\ (Used(b)' <=> Used(b))
  BY <1>1 DEF GetData, Used, BytesWithinRange, Outside
<1>a. Agreed' <=> Agreed
  BY DEF Agreed
<1>3. \A b : Wanted(b)' = Wanted(b)
  BY <1>1, <1>2, <1>a DEF Wanted
<1>4. Allowed(a)' <=> Allowed(a)
  BY <1>3, <1>a DEF Allowed
<1> QED
  BY <1>1, <1>2, <1>3, <1>4, <1>a DEF DeviceAddress, HostAddress, Words

LEMMA SizeSame == [Next]_vars => code_size' = code_size
  BY DEF Next, vars, deviceVars, Start, HostStep, Read, ReadDone, Open, NotFound, Rebooted,
         HardReboot, SkipBlock, WriteBlock, BlockDone, Boot, BootDone, SendPacket,
         TransferFails, Device, DeviceStep, Supply, Restart, LoopExit, Leave, WatchdogReset,
         SetReport, ReadCommand, EraseDone, NextPacket, FillWord, WritePage, WriteDone, Finish,
         PowerOn, PowerOff, ApplicationFails, bootVars

LEMMA HostStepInv ==
  ASSUME TypeOK, HostInv, [Next]_vars
  PROVE  HostInv'
<1>1. CASE Start
  BY <1>1 DEF Start, StartReading, HostInv
<1>2. CASE Read
  BY <1>2 DEF Read, ReadLine, Reading, RefuseLine, DataLine, OtherLine, EndOfFile, hostVars,
              HostInv, TypeOK
<1> DEFINE Frozen == UNCHANGED hexVars /\ code_size' = code_size
<1>3. CASE ReadDone \/ NotFound \/ Rebooted \/ TransferFails
  <2>1. parse' = parse /\ hpc' \notin {"writing", "booting"}
    BY <1>3 DEF ReadDone, NotFound, Rebooted, TransferFails, Exit, GoOn, hexVars
  <2> QED
    BY <1>3, <2>1 DEF ReadDone, NotFound, Rebooted, TransferFails, Exit, GoOn, Transferring, HostInv, TypeOK
<1>4. CASE Open
  BY <1>4 DEF Open, StartReading, hexVars, HostInv, TypeOK
<1>5. CASE HardReboot \/ SkipBlock \/ BlockDone \/ BootDone \/ SendPacket \/ WriteBlock \/ Boot
  <2>1. Frozen /\ parse' = parse
    BY <1>5, SizeSame DEF HardReboot, SkipBlock, BlockDone, BootDone, SendPacket, WriteBlock, Boot, hexVars,
                          Next, HostStep
  <2>2. \A a : Used(a)' <=> Used(a)
    BY <2>1, SameTask
  <2>3. CASE HardReboot \/ BootDone
    BY <2>1, <2>3 DEF HardReboot, BootDone, Exit, HostInv, TypeOK
  <2>4. CASE SkipBlock \/ BlockDone
    BY <2>1, <2>4 DEF SkipBlock, BlockDone, HostInv, TypeOK
  <2>5. CASE SendPacket
    BY <2>1, <2>2, <2>5 DEF SendPacket, HostInv, Used, BytesWithinRange, hexVars
  <2>6. CASE WriteBlock
    BY <2>1, <2>2, <2>6 DEF WriteBlock, HostInv, Used, BytesWithinRange, hexVars, TypeOK
  <2>7. CASE Boot
    BY <2>1, <2>7 DEF Boot, Exit, HostInv, TypeOK
  <2> QED
    BY <1>5, <2>3, <2>4, <2>5, <2>6, <2>7
<1>6. CASE Device \/ Supply \/ UNCHANGED vars
  <2>1. Frozen /\ hpc' = hpc /\ addr' = addr /\ outcome' = outcome /\ (handle # "none" => handle' # "none")
    BY <1>6, SizeSame DEF Device, Supply, Beside, HandleAfter, vars, hostVars
  <2> QED
    BY <2>1 DEF HostInv, Used, BytesWithinRange, hexVars
<1> QED
  BY <1>1, <1>2, <1>3, <1>4, <1>5, <1>6 DEF Next, HostStep

-----------------------------------------------------------------------------
(* The transfer in progress                                                *)

LEMMA UsedPage ==
  ASSUME TypeOK, Agreed, parse = "read", addr < code_size, Used(addr), NEW w \in Page(addr)
  PROVE  /\ w \in Words /\ w - addr \in 0 .. BLOCK - 1 /\ addr <= w /\ w < addr + BLOCK
         /\ PageBase(w) = addr
         /\ Wanted(w) = GetData(addr, BLOCK)[w - addr] /\ Wanted(w) # KEEP
<1>1. addr \in Nat /\ addr + BLOCK \in 0 .. code_size /\ addr % BLOCK = 0 /\ code_size \in Nat
  BY NextBlock, SizeType DEF TypeOK
<1>2. BLOCK \in Nat \ {0} /\ 0 \in 0 .. BLOCK - 1
  BY BootAssumption
<1>3. Page(addr) = addr .. addr + BLOCK - 1
  BY <1>1, <1>2, AlignedPage
<1>4. /\ w - addr \in 0 .. BLOCK - 1 /\ w = addr + (w - addr) /\ w \in Words
      /\ addr <= w /\ w < addr + BLOCK /\ w < code_size
  BY <1>1, <1>2, <1>3 DEF Words
<1>5. PageBase(w) = addr /\ w % BLOCK = w - addr
  <2>1. PageBase(addr + (w - addr)) = addr /\ (addr + (w - addr)) % BLOCK = w - addr
    BY <1>1, <1>4, AlignedPage
  <2> QED
    BY <1>4, <2>1
<1>6. Wanted(w) = GetData(addr, BLOCK)[w - addr]
  BY <1>4, <1>5 DEF Wanted
<1>7. GetData(addr, BLOCK)[w - addr] \in VALUES
  BY <1>1, <1>4, GetDataType, ValuesType DEF TypeOK
<1> QED
  BY <1>4, <1>5, <1>6, <1>7, KeepAssumption

LEMMA CommandType ==
  ASSUME TypeOK, HostInv, Transferring
  PROVE  /\ Word \in Nat /\ Content \in [0 .. BLOCK - 1 -> Nat] /\ Total \in 1 .. BLOCK
         /\ (Word = COMMAND_STARTAPPLICATION) <=> hpc = "booting"
         /\ hpc # "booting" => /\ Content \in Pages
                               /\ DeviceAddress(Word) \in Words /\ Allowed(DeviceAddress(Word))
         /\ Agreed /\ hpc = "writing" => DeviceAddress(Word) = addr
<1>1. BLOCK \in Nat \ {0}
  BY BootAssumption
<1>2. Total \in 1 .. BLOCK
  BY <1>1 DEF Total
<1>3. CASE hpc = "booting"
  BY <1>2, <1>3, StartCommandType DEF Word, Content
<1>4. CASE hpc = "writing"
  <2>1. addr < code_size /\ Used(addr) /\ parse = "read" /\ addr \in Nat /\ addr % BLOCK = 0
        /\ code_size \in CODE_SIZES
    BY <1>4, NextBlock DEF HostInv, TypeOK, BootTypeOK
  <2>2. Word = HostAddress(addr) /\ Content = GetData(addr, BLOCK)
    BY <1>4 DEF Word, Content
  <2>3. /\ Word \in Nat /\ Word # COMMAND_STARTAPPLICATION
        /\ Agreed => DeviceAddress(Word) = addr
    BY <2>1, <2>2, SameAddress
  <2>4. Content \in Pages /\ Content \in [0 .. BLOCK - 1 -> Nat]
    BY <2>1, <2>2, GetDataType, ValuesType DEF TypeOK, Pages
  <2>5. DeviceAddress(Word) \in Words
    BY <2>1, <2>3, DeviceAddressType
  <2>6. Allowed(DeviceAddress(Word))
    BY <2>1, <2>3, UsedPage DEF Allowed
  <2> QED
    BY <1>2, <1>4, <2>3, <2>4, <2>5, <2>6
<1>5. CASE hpc = "reboot_write"
  <2>1. Word = REBOOT_WORD /\ Content = AllOf(FF)
    BY <1>5 DEF Word, Content
  <2>2. Content \in Pages /\ Content \in [0 .. BLOCK - 1 -> Nat]
    BY <2>1, PagesType, ValuesType DEF AllOf
  <2>3. Word \in Nat /\ Word # COMMAND_STARTAPPLICATION
    BY <2>1, ProgrammingAssumption
  <2>4. code_size \in CODE_SIZES /\ DeviceAddress(Word) = AddressOn(code_size, REBOOT_WORD)
    BY <2>1 DEF DeviceAddress, TypeOK, BootTypeOK
  <2>5. Allowed(DeviceAddress(Word))
    BY <2>4 DEF Allowed, RebootPages
  <2>6. DeviceAddress(Word) \in Words
    BY <2>3, <2>4, DeviceAddressType
  <2> QED
    BY <1>2, <1>5, <2>2, <2>3, <2>5, <2>6
<1> QED
  BY <1>3, <1>4, <1>5 DEF Transferring

LEMMA SameCommand ==
  ASSUME UNCHANGED hexVars, code_size' = code_size, hpc' = hpc, addr' = addr
  PROVE  Word' = Word /\ Content' = Content /\ Total' = Total
<1>1. GetData(addr, BLOCK)' = GetData(addr, BLOCK)
  BY SameTask DEF GetData, Outside, hexVars
<1>2. HostAddress(addr)' = HostAddress(addr)
  BY DEF HostAddress
<1> QED
  BY <1>1, <1>2 DEF Word, Content, Total, AllOf

\* A packet that leaves is the one that comes next in the report.
LEMMA SendStep ==
  ASSUME TypeOK, HostInv, Suffix, SendPacket
  PROVE  /\ Suffix' /\ Through' = Through + 1 /\ Through \in 0 .. BLOCK - 1
         /\ bank' = IF Through = 0 THEN <<Word, Content[0]>> ELSE <<Content[Through]>>
         /\ Word' = Word /\ Content' = Content /\ Total' = Total
         /\ Through = 0 \/ hpc # "reboot_write"
<1>1. /\ Transferring /\ outgoing # << >> /\ bank' = Head(outgoing) /\ outgoing' = Tail(outgoing)
      /\ UNCHANGED hexVars /\ code_size' = code_size /\ hpc' = hpc /\ addr' = addr
  BY DEF SendPacket, bootVars
<1>2. Word' = Word /\ Content' = Content /\ Total' = Total
  BY <1>1, SameCommand
<1>3. Word \in Nat /\ Content \in [0 .. BLOCK - 1 -> Nat] /\ Total \in 1 .. BLOCK
  BY <1>1, CommandType
<1>4. outgoing \in Seq(Seq(Nat))
  BY DEF TypeOK
<1>5. /\ Len(outgoing) \in Nat \ {0} /\ Len(outgoing') = Len(outgoing) - 1
      /\ bank' = outgoing[1]
      /\ \A j \in 1 .. Len(outgoing) - 1 : outgoing'[j] = outgoing[j + 1]
  BY <1>1, <1>4
<1> DEFINE R == Report(Word, Content)
<1>6. \A k \in 1 .. BLOCK : R[k] = IF k = 1 THEN <<Word, Content[0]>> ELSE <<Content[k - 1]>>
  BY <1>3, ReportType
<1> HIDE DEF R
<1>7. /\ Len(outgoing) <= Total /\ Through = Total - Len(outgoing)
      /\ \A j \in 1 .. Len(outgoing) : outgoing[j] = R[Through + j]
  BY DEF Suffix, Through, R
<1>8. BLOCK \in Nat \ {0}
  BY BootAssumption
<1>9. Through' = Through + 1 /\ Through \in 0 .. BLOCK - 1
  BY <1>2, <1>3, <1>5, <1>7, <1>8 DEF Through
<1>10. bank' = R[Through + 1]
  BY <1>5, <1>7
<1>11. bank' = IF Through = 0 THEN <<Word, Content[0]>> ELSE <<Content[Through]>>
  BY <1>6, <1>8, <1>9, <1>10
<1>12. \A j \in 1 .. Len(outgoing') : outgoing'[j] = R[Through' + j]
  <2> SUFFICES ASSUME NEW j \in 1 .. Len(outgoing) - 1 PROVE outgoing'[j] = R[Through + 1 + j]
    BY <1>5, <1>9
  <2>1. j + 1 \in 1 .. Len(outgoing) /\ Through + (j + 1) = Through + 1 + j
    BY <1>5, <1>9
  <2> QED
    BY <1>5, <1>7, <2>1
<1>13. R' = R
  BY <1>2 DEF R, Report
<1>14. Suffix'
  <2>1. Report(Word, Content)' = R
    BY <1>13 DEF R
  <2>2. Len(outgoing)' <= Total'
    BY <1>2, <1>3, <1>5, <1>7
  <2>3. (\A j \in 1 .. Len(outgoing) : outgoing[j] = Report(Word, Content)[Through + j])'
    BY <1>12, <2>1
  <2> QED
    BY <2>2, <2>3 DEF Suffix
<1>15. Through = 0 \/ hpc # "reboot_write"
  BY <1>5, <1>7 DEF Total
<1> QED
  BY <1>2, <1>9, <1>11, <1>14, <1>15

-----------------------------------------------------------------------------
(* What the device's steps do                                              *)

DeviceOnly == DeviceStep \/ PowerOn \/ PowerOff \/ ApplicationFails

LEMMA RestStep ==
  ASSUME TypeOK, PipeInv, Rest, DeviceOnly
  PROVE  Rest' /\ flash' = flash
<1>1. CASE Restart \/ LoopExit \/ Leave \/ WatchdogReset \/ SetReport
  BY <1>1 DEF Restart, LoopExit, Leave, WatchdogReset, SetReport, pageVars, pipeVars, PipeInv, Rest
<1>2. CASE PowerOn \/ PowerOff \/ ApplicationFails
  BY <1>2 DEF PowerOn, PowerOff, ApplicationFails, pageVars, Rest
<1>3. ~ (ReadCommand \/ EraseDone \/ NextPacket \/ FillWord \/ WritePage \/ WriteDone \/ Finish)
  BY DEF ReadCommand, EraseDone, NextPacket, FillWord, WritePage, WriteDone, Finish, PipeInv, Rest
<1> QED
  BY <1>1, <1>2, <1>3 DEF DeviceOnly, DeviceStep

LEMMA PairTail ==
  ASSUME NEW S, NEW s \in Seq(S), Len(s) = 2
  PROVE  Head(s) = s[1] /\ Tail(s) = <<s[2]>>
<1>1. Tail(s) \in Seq(S) /\ Len(Tail(s)) = 1 /\ Head(s) = s[1]
  OBVIOUS
<1>2. \A i \in 1 .. Len(s) - 1 : Tail(s)[i] = s[i + 1]
  OBVIOUS
<1> DEFINE t == Tail(s)
<1>3. t \in Seq(S) /\ Len(t) = 1 /\ t[1] = s[2]
  BY <1>1, <1>2
<1> HIDE DEF t
<1>4. t = <<t[1]>>
  BY <1>3
<1>5. t = <<s[2]>>
  BY <1>3, <1>4
<1> QED
  BY <1>1, <1>5 DEF t

LEMMA FirstWord ==
  ASSUME TypeOK, PageInv, ReadCommand
  PROVE  Head(bank) = bank[1] /\ Tail(bank) = <<bank[2]>> /\ rxouti /\ dpc = "command"
<1>1. bank \in Seq(Nat \cup VALUES) /\ Len(bank) = 2
  BY DEF ReadCommand, PageInv, TypeOK, BootTypeOK
<1>2. Head(bank) = bank[1] /\ Tail(bank) = <<bank[2]>>
  BY <1>1, PairTail
<1> QED
  BY <1>2 DEF ReadCommand

LEMMA RestIsQuiet == Rest => Quiet
  BY DEF Rest, Quiet

LEMMA QuietStep ==
  ASSUME TypeOK, PipeInv, PageInv, Quiet, DeviceOnly
  PROVE  Quiet' /\ flash' = flash
<1>1. CASE Restart \/ LoopExit \/ Leave \/ WatchdogReset \/ PowerOn \/ PowerOff \/ ApplicationFails
  BY <1>1 DEF Restart, LoopExit, Leave, WatchdogReset, PowerOn, PowerOff, ApplicationFails, pageVars, Quiet
<1>2. CASE SetReport
  BY <1>2 DEF SetReport, pageVars, PipeInv, Quiet
<1>3. CASE ReadCommand
  BY <1>3, FirstWord DEF ReadCommand, pageVars, Quiet
<1>4. CASE Finish
  BY <1>4 DEF Finish, Quiet
<1>5. ~ (EraseDone \/ NextPacket \/ FillWord \/ WritePage \/ WriteDone)
  BY DEF EraseDone, NextPacket, FillWord, WritePage, WriteDone, PipeInv, Quiet
<1> QED
  BY <1>1, <1>2, <1>3, <1>4, <1>5 DEF DeviceOnly, DeviceStep

\* Flash changes in the page at hand only.
LEMMA FlashChange ==
  ASSUME TypeOK, PipeInv, PageInv, DeviceOnly, NEW w \in Words, flash'[w] # flash[w]
  PROVE  \/ Active /\ w \in Page(page_address)
         \/ /\ dpc = "command" /\ rxouti /\ bank[1] # COMMAND_STARTAPPLICATION
            /\ w \in Page(DeviceAddress(bank[1]))
<1>1. CASE ReadCommand
  <2>1. Head(bank) = bank[1] /\ rxouti /\ dpc = "command"
    BY <1>1, FirstWord
  <2>2. CASE bank[1] = COMMAND_STARTAPPLICATION
    BY <1>1, <2>1, <2>2 DEF ReadCommand, pageVars
  <2>3. CASE bank[1] # COMMAND_STARTAPPLICATION
    BY <1>1, <2>1, <2>3 DEF ReadCommand, SetPage
  <2> QED
    BY <2>2, <2>3
<1>2. CASE EraseDone \/ WritePage \/ WriteDone
  BY <1>2 DEF EraseDone, WritePage, WriteDone, SetPage, Active, PipeInv
<1>3. ~ (Restart \/ LoopExit \/ Leave \/ WatchdogReset \/ SetReport \/ NextPacket \/ FillWord
         \/ Finish \/ PowerOn \/ PowerOff \/ ApplicationFails)
  BY DEF Restart, LoopExit, Leave, WatchdogReset, SetReport, NextPacket, FillWord, Finish,
         PowerOn, PowerOff, ApplicationFails, pageVars
<1> QED
  BY <1>1, <1>2, <1>3 DEF DeviceOnly, DeviceStep

\* A page filled word by word.
LEMMA FillStep ==
  ASSUME TypeOK, HostInv, Transferring, AtFill, FillWord, Content' = Content, hpc' = hpc,
         code_size' = code_size
  PROVE  /\ Filled' /\ bank' = << >> /\ page_word' = page_word + 1 /\ page_word \in Nat
         /\ Through = page_word + 1
<1>1. /\ rxouti /\ bank = <<Content[page_word]>> /\ page_word < BLOCK /\ Through = page_word + 1
      /\ page_word \in Nat /\ BLOCK \in Nat \ {0}
  BY BootAssumption DEF AtFill, FillWord, TypeOK, BootTypeOK
<1>2. /\ bank' = << >> /\ page_word' = page_word + 1
      /\ buffer' = [buffer EXCEPT ![(page_address + page_word) % BLOCK] = Content[page_word]]
  BY <1>1 DEF FillWord
<1>3. ASSUME Agreed, hpc = "writing", NEW k \in 0 .. page_word PROVE buffer'[k] = Content[k]
  <2>1. page_address = addr /\ addr \in Nat /\ addr % BLOCK = 0
    <3>1. addr < code_size /\ DeviceAddress(Word) = addr
      BY <1>3, CommandType DEF HostInv
    <3>2. page_address = DeviceAddress(Word)
      BY DEF AtFill
    <3>3. addr \in Nat /\ addr % BLOCK = 0
      BY <3>1, NextBlock DEF TypeOK
    <3> QED
      BY <3>1, <3>2, <3>3
  <2>2. page_word \in 0 .. BLOCK - 1 /\ k \in 0 .. BLOCK - 1
    BY <1>1
  <2>3. (page_address + page_word) % BLOCK = page_word
    BY <2>1, <2>2, AlignedPage
  <2>4. buffer \in [0 .. BLOCK - 1 -> VALUES]
    BY DEF TypeOK, BootTypeOK
  <2>5. k = page_word \/ (k \in 0 .. page_word - 1 /\ buffer[k] = Content[k])
    BY <1>1, <1>3 DEF AtFill, Filled
  <2> QED
    BY <1>2, <2>2, <2>3, <2>4, <2>5
<1>4. 0 .. page_word' - 1 = 0 .. page_word
  BY <1>1, <1>2
<1>5. Filled'
  BY <1>3, <1>4 DEF Filled, Agreed
<1> QED
  BY <1>1, <1>2, <1>5

-----------------------------------------------------------------------------
(* What is left of a transfer                                              *)

LEMMA RestCases ==
  /\ Settled => Rest
  /\ LinkInv /\ Idle => Rest
  /\ Rest /\ UNCHANGED deviceVars => PageInv' /\ Rest' /\ Quiet'
  BY DEF Settled, Waiting, Rest, Quiet, LinkInv, deviceVars, pipeVars, PageInv, Active

LEMMA AllowedNext ==
  ASSUME UNCHANGED hexVars, code_size' = code_size, Allowed(page_address')
  PROVE  Allowed(page_address)'
<1>1. \A w : Wanted(w)' = Wanted(w)
  BY SameTask
<1> QED
  BY <1>1 DEF Allowed, Agreed

LEMMA CommandNext ==
  ASSUME UNCHANGED hexVars, code_size' = code_size,
         DeviceAddress(bank'[1]) \in Words, Allowed(DeviceAddress(bank'[1]))
  PROVE  (DeviceAddress(bank[1]) \in Words /\ Allowed(DeviceAddress(bank[1])))'
<1>1. \A w : Wanted(w)' = Wanted(w)
  BY SameTask
<1>2. DeviceAddress(bank[1])' = DeviceAddress(bank'[1]) /\ Words' = Words
  BY DEF DeviceAddress, Words
<1>3. Allowed(DeviceAddress(bank[1]))'
  BY <1>1, <1>2 DEF Allowed, Agreed
<1> QED
  BY <1>2, <1>3

LEMMA PageSame ==
  ASSUME PageInv, UNCHANGED hexVars, code_size' = code_size,
         dpc' = dpc, rxouti' = rxouti, bank' = bank, page_address' = page_address
  PROVE  PageInv'
<1>1. Active' <=> Active
  BY DEF Active
<1>2. CASE dpc = "command" /\ rxouti /\ bank[1] # COMMAND_STARTAPPLICATION
  BY <1>1, <1>2, CommandNext DEF PageInv, Active
<1>3. CASE ~ (dpc = "command" /\ rxouti /\ bank[1] # COMMAND_STARTAPPLICATION)
  BY <1>1, <1>3, AllowedNext DEF PageInv
<1> QED
  BY <1>2, <1>3

LEMMA PageOfPacket ==
  ASSUME TypeOK, PipeInv, LinkInv, PageInv, HostInv, SendPacket
  PROVE  PageInv'
<1>1. /\ Transferring /\ ~ rxstpi /\ ~ rxouti /\ rxouti' /\ dpc' = dpc /\ Link
      /\ UNCHANGED hexVars /\ code_size' = code_size /\ page_address' = page_address
  BY DEF SendPacket, LinkInv, pageVars, bootVars
<1>2. CASE AtCommand
  <2>1. dpc = "command" /\ Through = 0
    BY <1>1, <1>2 DEF AtCommand
  <2>2. bank' = <<Word, Content[0]>>
    BY <1>1, <2>1, SendStep DEF Link
  <2>3. Len(bank') = 2 /\ bank'[1] = Word /\ bank'[2] = Content[0]
    BY <2>2
  <2>4. CASE bank'[1] # COMMAND_STARTAPPLICATION
    <3>1. /\ Content \in Pages /\ DeviceAddress(bank'[1]) \in Words
          /\ Allowed(DeviceAddress(bank'[1]))
      BY <1>1, <2>3, <2>4, CommandType
    <3>2. bank'[2] \in VALUES
      BY <2>3, <3>1, BootAssumption DEF Pages
    <3>3. (DeviceAddress(bank[1]) \in Words /\ Allowed(DeviceAddress(bank[1])))'
      BY <1>1, <3>1, CommandNext
    <3> QED
      BY <1>1, <2>1, <2>3, <3>2, <3>3 DEF PageInv, Active
  <2>5. CASE bank'[1] = COMMAND_STARTAPPLICATION
    BY <1>1, <2>1, <2>3, <2>5 DEF PageInv, Active
  <2> QED
    BY <2>4, <2>5
<1>3. CASE AtFill
  <2>1. /\ dpc = "fill" /\ hpc # "booting" /\ page_address = DeviceAddress(Word)
        /\ Through = page_word /\ page_word > 0
    BY <1>1, <1>3 DEF AtFill
  <2>2. Content \in Pages /\ Allowed(page_address)
    BY <1>1, <2>1, CommandType
  <2>3. bank' = <<Content[Through]>> /\ Through \in 0 .. BLOCK - 1
    <3>1. Through # 0
      BY <2>1 DEF TypeOK, BootTypeOK
    <3> QED
      BY <1>1, <3>1, SendStep DEF Link
  <2>4. bank' \in Seq(VALUES)
    <3>1. Content[Through] \in VALUES
      BY <2>2, <2>3 DEF Pages
    <3> QED
      BY <2>3, <3>1
  <2>5. Allowed(page_address)'
    BY <1>1, <2>2, AllowedNext
  <2> QED
    BY <1>1, <2>1, <2>4, <2>5 DEF PageInv
<1>4. CASE AtWrite
  <2>1. dpc = "write" /\ Allowed(page_address)
    BY <1>4 DEF AtWrite, PageInv, Active
  <2>2. Allowed(page_address)'
    BY <1>1, <2>1, AllowedNext
  <2> QED
    BY <1>1, <2>1, <2>2 DEF PageInv
<1>5. CASE Done
  BY <1>1, <1>5 DEF Done, PageInv, Active
<1> QED
  BY <1>1, <1>2, <1>3, <1>4, <1>5 DEF Link, Fresh, AtErase

LEMMA PageOfDevice ==
  ASSUME TypeOK, PipeInv, PageInv, DeviceOnly, UNCHANGED hexVars, code_size' = code_size
  PROVE  PageInv'
<1>1. CASE \/ Restart \/ LoopExit \/ Leave \/ WatchdogReset \/ SetReport \/ Finish
           \/ PowerOn \/ PowerOff \/ ApplicationFails \/ WriteDone
  <2>1. dpc' \notin {"erase", "fill", "write"} /\ (dpc' = "command" => ~ rxouti')
    BY <1>1 DEF Restart, LoopExit, Leave, WatchdogReset, SetReport, Finish, PowerOn, PowerOff,
                ApplicationFails, WriteDone, PipeInv
  <2> QED
    BY <2>1 DEF PageInv, Active
<1>2. CASE ReadCommand
  <2>1. Head(bank) = bank[1] /\ bank' = <<bank[2]>> /\ rxouti /\ dpc = "command"
    BY <1>2, FirstWord DEF ReadCommand
  <2>2. CASE bank[1] = COMMAND_STARTAPPLICATION
    BY <1>2, <2>1, <2>2 DEF ReadCommand, PageInv, Active
  <2>3. CASE bank[1] # COMMAND_STARTAPPLICATION
    <3>1. /\ dpc' = "erase" /\ page_address' = DeviceAddress(bank[1])
          /\ Allowed(DeviceAddress(bank[1])) /\ bank[2] \in VALUES
      BY <1>2, <2>1, <2>3 DEF ReadCommand, PageInv
    <3>2. bank' \in Seq(VALUES)
      BY <2>1, <3>1
    <3>3. Allowed(page_address)'
      BY <3>1, AllowedNext
    <3> QED
      BY <3>1, <3>2, <3>3 DEF PageInv
  <2> QED
    BY <2>2, <2>3
<1>3. CASE EraseDone \/ WritePage \/ NextPacket
  <2>1. /\ page_address' = page_address /\ dpc' \in {"fill", "write"} /\ Active
        /\ (rxouti' => rxouti) /\ bank' = bank /\ (rxouti /\ dpc' = "fill" /\ rxouti' => dpc = "erase")
    BY <1>3 DEF EraseDone, WritePage, NextPacket, pipeVars, pageVars, Active, PipeInv
  <2>2. Allowed(page_address)'
    BY <2>1, AllowedNext DEF PageInv
  <2> QED
    BY <2>1, <2>2 DEF PageInv
<1>4. CASE FillWord
  <2>1. /\ page_address' = page_address /\ dpc' = "fill" /\ Active /\ rxouti /\ dpc = "fill"
        /\ bank' = Tail(bank) /\ bank # << >>
    BY <1>4 DEF FillWord, Active
  <2>2. bank' \in Seq(VALUES)
    BY <2>1, TailType DEF PageInv
  <2>3. Allowed(page_address)'
    BY <2>1, AllowedNext DEF PageInv
  <2> QED
    BY <2>1, <2>2, <2>3 DEF PageInv
<1> QED
  BY <1>1, <1>2, <1>3, <1>4 DEF DeviceOnly, DeviceStep

LEMMA PageStep ==
  ASSUME TypeOK, PipeInv, LinkInv, PageInv, HostInv, [Next]_vars
  PROVE  PageInv'
<1>0. code_size' = code_size
  BY SizeSame
<1>1. CASE Start \/ Read \/ Open
  <2>1. Rest /\ UNCHANGED deviceVars
    BY <1>1, RestCases, QuietDevice DEF Start, Read, Open, Idle, HostQuiet
  <2> QED
    BY <2>1, RestCases
<1>2. CASE ReadDone \/ NotFound \/ Rebooted \/ SkipBlock \/ TransferFails \/ UNCHANGED vars
  <2>1. UNCHANGED hexVars /\ UNCHANGED deviceVars
    BY <1>2 DEF ReadDone, NotFound, Rebooted, SkipBlock, TransferFails, vars
  <2> QED
    BY <1>0, <2>1, PageSame DEF deviceVars, pipeVars, pageVars
<1>3. CASE SendPacket
  BY <1>3, PageOfPacket
<1>4. CASE HostPipe /\ ~ SendPacket
  <2>1. /\ dpc' = dpc /\ page_address' = page_address /\ UNCHANGED hexVars
        /\ Setup \/ UNCHANGED <<rxstpi, rxouti, bank>>
    BY <1>4, PipeCases DEF pageVars, HostPipe, HardReboot, WriteBlock, BlockDone, Boot, BootDone
  <2>2. CASE Setup
    BY <2>1, <2>2, SetupRest DEF Setup, Rest, PageInv, Active
  <2>3. CASE UNCHANGED <<rxstpi, rxouti, bank>>
    BY <1>0, <2>1, <2>3, PageSame
  <2> QED
    BY <2>1, <2>2, <2>3
<1>5. CASE Device \/ Supply
  BY <1>0, <1>5, PageOfDevice DEF Device, Supply, Beside, DeviceOnly
<1> QED
  BY <1>1, <1>2, <1>3, <1>4, <1>5 DEF Next, HostStep, HostPipe

-----------------------------------------------------------------------------
(* After success                                                           *)

LEMMA QuietInvStep ==
  ASSUME TypeOK, PipeInv, LinkInv, PageInv, HostInv, QuietInv, [Next]_vars
  PROVE  QuietInv'
<1>1. CASE Start \/ Read \/ ReadDone \/ Open \/ NotFound \/ Rebooted \/ HardReboot \/ SkipBlock
           \/ WriteBlock \/ BlockDone \/ SendPacket
  <2>1. outcome' # "ok"
    BY <1>1 DEF Start, Read, ReadDone, Open, NotFound, Rebooted, HardReboot, SkipBlock, WriteBlock,
                BlockDone, SendPacket, Transferring, Exit, GoOn, hostVars, TypeOK
  <2> QED
    BY <2>1 DEF QuietInv
<1>2. CASE Boot
  <2>1. Rest
    BY <1>2, RestCases DEF Boot, Idle
  <2>2. outcome' = "ok" => UNCHANGED pipeVars /\ dpc' = dpc
    BY <1>2 DEF Boot, TypeOK
  <2> QED
    BY <2>1, <2>2 DEF Rest, Quiet, QuietInv, pipeVars
<1>3. CASE (BootDone \/ TransferFails) /\ hpc = "booting"
  <2>1. dpc' = dpc /\ rxouti' = rxouti /\ bank' = bank
    BY <1>3 DEF BootDone, TransferFails, deviceVars, pipeVars
  <2>2. Quiet
    <3>1. CASE Rest
      BY <3>1, RestIsQuiet
    <3>2. CASE Link
      <4>1. CASE rxstpi
        BY <3>2, <4>1 DEF Link, Fresh, PipeInv, Quiet
      <4>2. CASE AtCommand
        <5>1. dpc = "command" /\ (rxouti => bank = <<Word, Content[0]>>)
          BY <4>2 DEF AtCommand
        <5>2. Word = COMMAND_STARTAPPLICATION
          BY <1>3 DEF Word
        <5>3. rxouti => bank[1] = COMMAND_STARTAPPLICATION
          BY <5>1, <5>2
        <5> QED
          BY <5>1, <5>3 DEF Quiet
      <4>3. CASE Done
        BY <4>3 DEF Done, Quiet
      <4>4. ~ AtErase /\ ~ AtFill /\ ~ AtWrite
        BY <1>3 DEF AtErase, AtFill, AtWrite
      <4> QED
        BY <3>2, <4>1, <4>2, <4>3, <4>4 DEF Link, Fresh
    <3> QED
      BY <1>3, <3>1, <3>2 DEF LinkInv, Transferring
  <2> QED
    BY <2>1, <2>2 DEF Quiet, QuietInv
<1>4. CASE BootDone \/ TransferFails
  <2>1. hpc # "booting" => outcome' # "ok"
    BY <1>4 DEF BootDone, TransferFails, Exit
  <2> QED
    BY <1>3, <1>4, <2>1 DEF QuietInv
<1>5. CASE Device \/ Supply
  <2>1. DeviceOnly /\ outcome' = outcome
    BY <1>5 DEF Device, Supply, Beside, DeviceOnly
  <2> QED
    BY <2>1, QuietStep DEF QuietInv
<1>6. CASE UNCHANGED vars
  BY <1>6 DEF vars, deviceVars, pipeVars, hostVars, QuietInv, Quiet
<1> QED
  BY <1>1, <1>2, <1>4, <1>5, <1>6 DEF Next, HostStep

-----------------------------------------------------------------------------
(* The transfer in progress stays one: the loader's steps                  *)

LEMMA SameTransfer ==
  ASSUME UNCHANGED hexVars, code_size' = code_size, hpc' = hpc, addr' = addr, outgoing' = outgoing
  PROVE  /\ Word' = Word /\ Content' = Content /\ Total' = Total /\ Through' = Through
         /\ DeviceAddress(Word)' = DeviceAddress(Word) /\ (Suffix' <=> Suffix)
         /\ (Transferring' <=> Transferring) /\ (Idle' <=> Idle)
<1>1. Word' = Word /\ Content' = Content /\ Total' = Total
  BY SameCommand
<1>2. Through' = Through /\ DeviceAddress(Word)' = DeviceAddress(Word)
  BY <1>1 DEF Through, DeviceAddress
<1>3. Report(Word, Content)' = Report(Word, Content)
  BY <1>1 DEF Report
<1>4. Suffix' <=> Suffix
  BY <1>1, <1>2, <1>3 DEF Suffix
<1> QED
  BY <1>1, <1>2, <1>4 DEF Transferring, Idle

\* A transfer begins where the device rests.
LEMMA Begun ==
  ASSUME Rest, Attached, dpc' = dpc, rxstpi' = TRUE, zlp' = FALSE,
         Word' \in Nat, Content' \in [0 .. BLOCK - 1 -> Nat],
         \/ hpc' # "reboot_write" /\ outgoing' = Report(Word', Content')
         \/ hpc' = "reboot_write" /\ outgoing' = << <<Word', Content'[0]>> >>
  PROVE  Link'
<1>1. BLOCK \in Nat \ {0}
  BY BootAssumption
<1> PICK w \in Nat, c \in [0 .. BLOCK - 1 -> Nat] : w = Word' /\ c = Content'
  OBVIOUS
<1> DEFINE R == Report(w, c)
<1>2. Len(R) = BLOCK /\ R[1] = <<w, c[0]>>
  <2>1. /\ Len(R) = BLOCK
        /\ \A k \in 1 .. BLOCK : R[k] = IF k = 1 THEN <<w, c[0]>> ELSE <<c[k - 1]>>
    BY ReportType
  <2> HIDE DEF R
  <2>2. 1 \in 1 .. BLOCK
    BY <1>1
  <2> QED
    BY <2>1, <2>2
<1>3. Report(Word, Content)' = R
  BY DEF Report
<1> HIDE DEF R
<1>4. CASE hpc' # "reboot_write" /\ outgoing' = R
  <2>1. Total' = BLOCK /\ Len(outgoing') = BLOCK /\ Through' = 0
    BY <1>1, <1>2, <1>4 DEF Total, Through
  <2>2. \A j \in 1 .. Len(outgoing') : outgoing'[j] = R[Through' + j]
    BY <1>1, <1>4, <2>1
  <2>3. Suffix'
    BY <1>1, <1>3, <2>1, <2>2 DEF Suffix
  <2> QED
    BY <2>1, <2>3 DEF Link, Fresh, Rest, Attached
<1>5. CASE hpc' = "reboot_write" /\ outgoing' = << <<w, c[0]>> >>
  <2>1. Total' = 1 /\ Len(outgoing') = 1 /\ Through' = 0 /\ outgoing'[1] = <<w, c[0]>>
    BY <1>5 DEF Total, Through
  <2>2. \A j \in 1 .. Len(outgoing') : outgoing'[j] = R[Through' + j]
    BY <1>2, <2>1
  <2>3. Suffix'
    BY <1>3, <2>1, <2>2 DEF Suffix
  <2> QED
    BY <2>1, <2>3 DEF Link, Fresh, Rest, Attached
<1> QED
  BY <1>4, <1>5 DEF R

LEMMA LinkOfSetup ==
  ASSUME TypeOK, LinkInv, HostInv, HardReboot \/ WriteBlock \/ Boot
  PROVE  LinkInv'
<1>1. /\ Rest /\ dpc' = dpc /\ UNCHANGED hexVars /\ code_size' = code_size
      /\ handle = "open" => Attached
  BY RestCases DEF HardReboot, WriteBlock, Boot, Idle, LinkInv, bootVars
<1>2. ASSUME hpc' = "exited", handle' = "none"
      PROVE  LinkInv'
  BY <1>2 DEF LinkInv, Idle, Transferring
<1>3. BLOCK \in Nat \ {0} /\ FF \in Nat
  BY BootAssumption, ValuesType
<1>4. CASE HardReboot /\ hpc' = "reboot_write"
  <2>1. /\ Attached /\ rxstpi' = TRUE /\ zlp' = FALSE /\ handle' = "open"
        /\ outgoing' = << <<REBOOT_WORD, FF>> >>
    BY <1>4 DEF HardReboot, Exit, Found
  <2>2. Word' = REBOOT_WORD /\ Content' = AllOf(FF) /\ Transferring'
    BY <1>4 DEF Word, Content, AllOf, Transferring
  <2>3. Word' \in Nat /\ Content' \in [0 .. BLOCK - 1 -> Nat] /\ Content'[0] = FF
    BY <1>3, <2>2, ProgrammingAssumption DEF AllOf
  <2>4. Link'
    BY <1>1, <1>4, <2>1, <2>2, <2>3, Begun
  <2>5. Attached'
    BY <1>1, <2>1 DEF Attached
  <2> QED
    BY <1>4, <2>1, <2>4, <2>5 DEF LinkInv, Idle
<1>5. CASE (WriteBlock \/ Boot) /\ hpc' # "exited"
  <2>1. /\ hpc' \in {"writing", "booting"} /\ handle' = handle
        /\ Transfer(Report(Word', Content')) /\ Transferring'
        /\ Word' \in Nat /\ Content' \in [0 .. BLOCK - 1 -> Nat]
    <3>1. CASE WriteBlock
      <4>1. hpc' = "writing" /\ handle' = handle /\ addr' = addr
            /\ Transfer(Report(HostAddress(addr), GetData(addr, BLOCK)))
        BY <3>1 DEF WriteBlock, optionVars
      <4>2. Word' = HostAddress(addr)
        BY <1>1, <4>1 DEF Word, HostAddress
      <4>3. Content' = GetData(addr, BLOCK)
        BY <1>1, <4>1 DEF Content, GetData, Outside, hexVars
      <4>4. addr < code_size /\ addr \in Nat /\ addr % BLOCK = 0 /\ code_size \in CODE_SIZES
        BY <3>1, NextBlock DEF WriteBlock, TypeOK, BootTypeOK
      <4>5. HostAddress(addr) \in Nat
        BY <4>4, SameAddress
      <4>6. GetData(addr, BLOCK) \in [0 .. BLOCK - 1 -> Nat]
        BY <4>4, GetDataType, ValuesType DEF TypeOK
      <4> QED
        BY <4>1, <4>2, <4>3, <4>5, <4>6 DEF Transferring
    <3>2. CASE Boot
      <4>1. hpc' = "booting" /\ handle' = handle
            /\ Transfer(Report(COMMAND_STARTAPPLICATION, AllOf(0)))
        BY <1>5, <3>2 DEF Boot, Exit
      <4>2. Word' = COMMAND_STARTAPPLICATION /\ Content' = AllOf(0)
        BY <4>1 DEF Word, Content, AllOf
      <4> QED
        BY <4>1, <4>2, StartCommandType DEF Transferring
    <3> QED
      BY <1>5, <3>1, <3>2
  <2>2. CASE handle = "open"
    <3>1. Attached /\ rxstpi' = TRUE /\ zlp' = FALSE /\ outgoing' = Report(Word', Content')
      BY <1>1, <2>1, <2>2 DEF Transfer
    <3>2. Link'
      BY <1>1, <2>1, <3>1, Begun
    <3>3. Attached'
      BY <1>1, <3>1 DEF Attached
    <3>4. handle' = "open" /\ ~ Idle'
      BY <2>1, <2>2 DEF Idle
    <3> QED
      BY <3>2, <3>3, <3>4 DEF LinkInv
  <2>3. CASE handle # "open"
    <3>1. UNCHANGED pipeVars
      BY <2>1, <2>3 DEF Transfer
    <3>2. Rest'
      BY <1>1, <3>1 DEF pipeVars, Rest
    <3> QED
      BY <2>1, <2>3, <3>2 DEF LinkInv, Idle
  <2> QED
    BY <2>2, <2>3
<1>6. CASE HardReboot /\ hpc' # "reboot_write"
  <2>1. hpc' = "exited" /\ handle' = "none"
    BY <1>6 DEF HardReboot, Exit
  <2> QED
    BY <1>2, <2>1
<1>7. CASE Boot /\ hpc' = "exited"
  <2>1. handle' = "none"
    BY <1>7 DEF Boot, Exit
  <2> QED
    BY <1>2, <1>7, <2>1
<1>8. WriteBlock => hpc' # "exited"
  BY DEF WriteBlock
<1> QED
  BY <1>4, <1>5, <1>6, <1>7, <1>8

LEMMA LinkOfPacket ==
  ASSUME TypeOK, PipeInv, LinkInv, HostInv, SendPacket
  PROVE  LinkInv'
<1>1. /\ Transferring /\ handle = "open" /\ handle' = handle /\ Attached /\ Link
      /\ ~ rxstpi /\ ~ rxouti /\ rxouti' /\ rxstpi' = rxstpi /\ zlp' = zlp /\ dpc' = dpc
      /\ UNCHANGED hexVars /\ code_size' = code_size /\ hpc' = hpc /\ addr' = addr
      /\ UNCHANGED pageVars
  BY DEF SendPacket, LinkInv, bootVars
<1>2. /\ Suffix' /\ Through' = Through + 1 /\ Through \in 0 .. BLOCK - 1
      /\ bank' = IF Through = 0 THEN <<Word, Content[0]>> ELSE <<Content[Through]>>
      /\ Word' = Word /\ Content' = Content /\ Total' = Total
  BY <1>1, SendStep DEF Link
<1>3. DeviceAddress(Word)' = DeviceAddress(Word)
  BY <1>1, <1>2 DEF DeviceAddress
<1>4. page_word' = page_word /\ page_address' = page_address /\ buffer' = buffer /\ flash' = flash
  BY <1>1 DEF pageVars
<1>5. Filled' <=> Filled
  BY <1>1, <1>2, <1>4 DEF Filled, Agreed
<1>6. CASE AtCommand
  <2>1. Through = 0 /\ dpc = "command" /\ ~ zlp
    BY <1>1, <1>6 DEF AtCommand
  <2> QED
    BY <1>1, <1>2, <2>1 DEF AtCommand, Link, LinkInv, Attached, Idle, Transferring
<1>7. CASE AtFill
  <2>1. /\ dpc = "fill" /\ ~ zlp /\ hpc # "booting" /\ page_address = DeviceAddress(Word) /\ Filled
        /\ Through = page_word /\ page_word > 0
    BY <1>1, <1>7 DEF AtFill
  <2>2. Through # 0 /\ page_word < BLOCK
    BY <1>2, <2>1, BootAssumption DEF TypeOK, BootTypeOK
  <2>3. bank' = <<Content'[page_word']>> /\ Through' = page_word' + 1
    BY <1>2, <1>4, <2>1, <2>2
  <2>4. AtFill'
    BY <1>1, <1>3, <1>4, <1>5, <2>1, <2>2, <2>3 DEF AtFill
  <2> QED
    BY <1>1, <1>2, <2>1, <2>4 DEF Link, LinkInv, Attached, Idle, Transferring
<1>8. CASE AtWrite
  <2>1. AtWrite'
    BY <1>1, <1>3, <1>4, <1>5, <1>8 DEF AtWrite
  <2> QED
    BY <1>1, <1>2, <2>1 DEF Link, LinkInv, Attached, Idle, Transferring
<1>9. CASE Done
  <2>1. Done'
    BY <1>1, <1>2, <1>4, <1>9 DEF Done, Agreed
  <2> QED
    BY <1>1, <1>2, <2>1 DEF Link, LinkInv, Attached, Idle, Transferring
<1> QED
  BY <1>1, <1>6, <1>7, <1>8, <1>9 DEF Link, Fresh, AtErase

-----------------------------------------------------------------------------
(* The transfer in progress stays one: the device's steps                  *)

LEMMA FirstPacketRead ==
  ASSUME TypeOK, PipeInv, PageInv, HostInv, Transferring, Link, ReadCommand,
         Word' = Word, Content' = Content, Through' = Through, hpc' = hpc,
         DeviceAddress(Word)' = DeviceAddress(Word)
  PROVE  AtErase' \/ Done'
<1>1. /\ dpc = "command" /\ rxouti /\ ~ rxstpi /\ bank[1] = Head(bank) /\ bank' = <<bank[2]>>
      /\ zlp' = zlp /\ rxouti' = rxouti
  BY FirstWord DEF ReadCommand, PipeInv
<1>2. AtCommand
  BY <1>1 DEF Link, Fresh, AtCommand, AtErase, AtFill, AtWrite, Done
<1>3. Through = 1 /\ bank = <<Word, Content[0]>> /\ ~ zlp
  BY <1>1, <1>2 DEF AtCommand
<1>4. Head(bank) = Word /\ bank' = <<Content[0]>>
  BY <1>1, <1>3
<1>5. CASE Word = COMMAND_STARTAPPLICATION
  <2>1. dpc' = "finish" /\ hpc # "writing"
    BY <1>4, <1>5, CommandType DEF ReadCommand
  <2> QED
    BY <1>1, <1>3, <2>1 DEF Done
<1>6. CASE Word # COMMAND_STARTAPPLICATION
  <2>1. /\ dpc' = "erase" /\ page_address' = DeviceAddress(Word) /\ page_word' = 0
    BY <1>4, <1>6 DEF ReadCommand
  <2>2. hpc # "booting"
    BY <1>6, CommandType
  <2> QED
    BY <1>1, <1>3, <1>4, <2>1, <2>2 DEF AtErase
<1> QED
  BY <1>5, <1>6

LEMMA PageWritten ==
  ASSUME TypeOK, HostInv, Transferring, AtWrite, WriteDone,
         Content' = Content, hpc' = hpc, addr' = addr, code_size' = code_size
  PROVE  Done'
<1>1. dpc' = "finish" /\ ~ zlp' /\ page_word = BLOCK /\ Filled /\ SetPage(page_address, buffer)
  BY DEF WriteDone, AtWrite, pipeVars
<1>2. ASSUME Agreed, hpc = "writing", NEW w \in Page(addr) PROVE flash'[w] = Content[w - addr]
  <2>1. page_address = addr
    BY <1>2, CommandType DEF AtWrite
  <2>2. parse = "read" /\ addr < code_size /\ Used(addr)
    BY <1>2 DEF HostInv
  <2>3. w \in Words /\ w - addr \in 0 .. BLOCK - 1
    BY <1>2, <2>2, UsedPage
  <2>4. addr \in Nat /\ addr % BLOCK = 0 /\ 0 \in 0 .. BLOCK - 1
    BY <2>2, NextBlock, BootAssumption DEF TypeOK
  <2>5. PageBase(addr) = addr
    BY <2>4, AlignedPage
  <2>6. flash'[w] = buffer[w - addr]
    BY <1>1, <1>2, <2>1, <2>3, <2>5 DEF SetPage
  <2>7. w - addr \in 0 .. page_word - 1
    BY <1>1, <2>3
  <2> QED
    BY <1>1, <1>2, <2>6, <2>7 DEF Filled
<1> QED
  BY <1>1, <1>2 DEF Done, Agreed

LEMMA LinkOfDevice ==
  ASSUME TypeOK, PipeInv, PageInv, HostInv, Transferring, Link, Attached, DeviceOnly, Attached',
         UNCHANGED hexVars, code_size' = code_size, hpc' = hpc, addr' = addr, outgoing' = outgoing
  PROVE  Link'
<1>1. /\ Word' = Word /\ Content' = Content /\ Total' = Total /\ Through' = Through
      /\ DeviceAddress(Word)' = DeviceAddress(Word) /\ (Suffix' <=> Suffix)
  BY SameTransfer
<1>2. Suffix /\ Suffix'
  BY <1>1 DEF Link
<1>3. CASE SetReport
  <2>1. Fresh
    BY <1>3 DEF SetReport, Link, Fresh
  <2>2. AtCommand' /\ ~ rxstpi'
    BY <1>1, <1>3, <2>1 DEF SetReport, Fresh, AtCommand, PipeInv
  <2> QED
    BY <1>2, <2>2 DEF Link
<1>4. CASE ReadCommand
  <2>1. ~ rxstpi'
    BY <1>4 DEF ReadCommand, PipeInv
  <2>2. AtErase' \/ Done'
    BY <1>1, <1>4, FirstPacketRead
  <2> QED
    BY <1>2, <2>1, <2>2 DEF Link
<1>5. CASE EraseDone
  <2>1. AtErase /\ ~ rxstpi
    BY <1>5 DEF EraseDone, Link, Fresh, AtCommand, AtErase, AtFill, AtWrite, Done
  <2>2. /\ dpc' = "fill" /\ page_word' = 0 /\ page_address' = page_address /\ bank' = bank
        /\ rxouti' = rxouti /\ rxstpi' = rxstpi /\ zlp' = zlp
    BY <1>5, <2>1 DEF EraseDone, AtErase, pipeVars
  <2>3. Filled'
    BY <2>2 DEF Filled
  <2>4. bank' = <<Content'[page_word']>> /\ Through' = page_word' + 1 /\ page_word' < BLOCK
    BY <1>1, <2>1, <2>2, BootAssumption DEF AtErase
  <2>5. AtFill'
    BY <1>1, <2>1, <2>2, <2>3, <2>4 DEF AtErase, AtFill
  <2> QED
    BY <1>2, <2>1, <2>2, <2>5 DEF Link
<1>6. CASE NextPacket
  <2>1. ~ rxstpi /\ dpc = "fill" /\ bank = << >>
    BY <1>6 DEF NextPacket, PipeInv
  <2>2. AtFill
    BY <2>1 DEF Link, Fresh, AtCommand, AtErase, AtFill, AtWrite, Done
  <2>3. Through = page_word /\ page_word > 0
    BY <2>1, <2>2 DEF AtFill
  <2>4. /\ dpc' = dpc /\ page_word' = page_word /\ page_address' = page_address /\ bank' = bank
        /\ rxstpi' = rxstpi /\ zlp' = zlp /\ buffer' = buffer
    BY <1>6 DEF NextPacket, pageVars
  <2>5. AtFill'
    BY <1>1, <2>1, <2>2, <2>3, <2>4 DEF AtFill, Filled, Agreed
  <2> QED
    BY <1>2, <2>1, <2>4, <2>5 DEF Link
<1>7. CASE FillWord
  <2>1. ~ rxstpi /\ dpc = "fill" /\ bank # << >>
    BY <1>7 DEF FillWord, PipeInv
  <2>2. AtFill
    BY <2>1 DEF Link, Fresh, AtCommand, AtErase, AtFill, AtWrite, Done
  <2>3. /\ Filled' /\ bank' = << >> /\ page_word' = page_word + 1 /\ page_word \in Nat
        /\ Through = page_word + 1
    BY <1>1, <1>7, <2>2, FillStep
  <2>4. /\ dpc' = dpc /\ page_address' = page_address /\ rxstpi' = rxstpi /\ zlp' = zlp
    BY <1>7 DEF FillWord
  <2>5. page_word' > 0 /\ Through' = page_word'
    BY <1>1, <2>3
  <2>6. AtFill'
    BY <1>1, <2>2, <2>3, <2>4, <2>5 DEF AtFill
  <2> QED
    BY <1>2, <2>1, <2>4, <2>6 DEF Link
<1>8. CASE WritePage
  <2>1. ~ rxstpi /\ dpc = "fill" /\ page_word = BLOCK
    BY <1>8 DEF WritePage, PipeInv
  <2>2. AtFill
    BY <2>1 DEF Link, Fresh, AtCommand, AtErase, AtFill, AtWrite, Done
  <2>3. /\ dpc' = "write" /\ page_word' = page_word /\ page_address' = page_address
        /\ rxstpi' = rxstpi /\ zlp' = zlp /\ buffer' = buffer
    BY <1>8 DEF WritePage, pipeVars
  <2>4. AtWrite'
    BY <1>1, <2>1, <2>2, <2>3 DEF AtFill, AtWrite, Filled, Agreed
  <2> QED
    BY <1>2, <2>1, <2>3, <2>4 DEF Link
<1>9. CASE WriteDone
  <2>1. AtWrite /\ ~ rxstpi
    BY <1>9 DEF WriteDone, Link, Fresh, AtCommand, AtErase, AtFill, AtWrite, Done
  <2>2. Done'
    BY <1>1, <1>9, <2>1, PageWritten
  <2>3. ~ rxstpi'
    BY <1>9, <2>1 DEF WriteDone, pipeVars
  <2> QED
    BY <1>2, <2>2, <2>3 DEF Link
<1>10. CASE Finish
  <2>1. Done /\ ~ rxstpi
    BY <1>10 DEF Finish, Link, Fresh, AtCommand, AtErase, AtFill, AtWrite, Done
  <2>2. dpc' = "loop" /\ flash' = flash /\ rxstpi' = rxstpi
    BY <1>10 DEF Finish
  <2>3. Done'
    BY <1>1, <2>1, <2>2 DEF Done, Agreed
  <2> QED
    BY <1>2, <2>1, <2>2, <2>3 DEF Link
<1>11. ~ (Restart \/ LoopExit \/ Leave \/ WatchdogReset \/ PowerOn \/ PowerOff \/ ApplicationFails)
  BY DEF Restart, LoopExit, Leave, WatchdogReset, PowerOn, PowerOff, ApplicationFails, Attached
<1> QED
  BY <1>3, <1>4, <1>5, <1>6, <1>7, <1>8, <1>9, <1>10, <1>11 DEF DeviceOnly, DeviceStep

LEMMA LinkStep ==
  ASSUME TypeOK, PipeInv, LinkInv, PageInv, HostInv, [Next]_vars
  PROVE  LinkInv'
<1>1. CASE Start \/ Read \/ ReadDone \/ Open \/ NotFound \/ Rebooted \/ SkipBlock
  <2>1. /\ Rest' /\ dpc' = dpc /\ ~ Transferring'
        /\ handle' = "open" => handle = "open" \/ Attached
    <3>1. Rest /\ UNCHANGED deviceVars
      BY <1>1, RestCases, QuietDevice
         DEF Start, Read, ReadDone, Open, NotFound, Rebooted, SkipBlock, Idle, HostQuiet
    <3>2. Rest' /\ dpc' = dpc
      BY <3>1, RestCases DEF deviceVars
    <3>3. ~ Transferring'
      BY <1>1 DEF Start, Read, ReadDone, Open, NotFound, Rebooted, SkipBlock, Exit, GoOn,
                  hostVars, Transferring
    <3>4. handle' = "open" => handle = "open" \/ Attached
      BY <1>1 DEF Start, Read, ReadDone, Open, NotFound, Rebooted, SkipBlock, Exit, GoOn,
                  hostVars, Found
    <3> QED
      BY <3>2, <3>3, <3>4
  <2> QED
    BY <2>1 DEF LinkInv, Attached
<1>2. CASE TransferFails \/ BootDone
  BY <1>2 DEF TransferFails, BootDone, Exit, LinkInv, Idle, Transferring
<1>3. CASE BlockDone
  <2>1. /\ handle = "open" /\ handle' = handle /\ dpc' = dpc /\ Link /\ zlp /\ hpc' = "programming"
        /\ rxstpi' = rxstpi /\ rxouti' = rxouti
    BY <1>3 DEF BlockDone, Answered, LinkInv, Transferring
  <2>2. dpc = "loop" /\ ~ rxstpi
    BY <2>1 DEF Link, Fresh, AtCommand, AtErase, AtFill, AtWrite, Done
  <2> QED
    BY <2>1, <2>2 DEF LinkInv, Rest, Idle, Transferring, Attached
<1>4. CASE HardReboot \/ WriteBlock \/ Boot
  BY <1>4, LinkOfSetup
<1>5. CASE SendPacket
  BY <1>5, LinkOfPacket
<1>6. CASE Device \/ Supply
  <2>1. /\ DeviceOnly /\ UNCHANGED hexVars /\ hpc' = hpc /\ addr' = addr /\ outgoing' = outgoing
        /\ code_size' = code_size
    BY <1>6, SizeSame DEF Device, Supply, Beside, DeviceOnly
  <2>2. handle' = IF handle = "open" /\ ~ Attached' THEN "stale" ELSE handle
    BY <1>6 DEF Device, Supply, HandleAfter
  <2>3. (Transferring' <=> Transferring) /\ (Idle' <=> Idle)
    BY <2>1, SameTransfer
  <2>4. Rest => Rest'
    BY <2>1, RestStep
  <2>5. ~ Attached' => Rest'
    BY DEF Attached, Rest
  <2>6. CASE handle = "open" /\ Attached'
    <3>1. Transferring => Link'
      BY <2>1, <2>6, LinkOfDevice DEF LinkInv
    <3> QED
      BY <2>2, <2>3, <2>4, <2>6, <3>1 DEF LinkInv
  <2>7. CASE handle = "open" /\ ~ Attached'
    BY <2>2, <2>5, <2>7 DEF LinkInv
  <2>8. CASE handle # "open"
    BY <2>2, <2>3, <2>4, <2>8 DEF LinkInv
  <2> QED
    BY <2>6, <2>7, <2>8
<1>7. CASE UNCHANGED vars
  <2>1. /\ UNCHANGED hexVars /\ hpc' = hpc /\ addr' = addr /\ outgoing' = outgoing
        /\ code_size' = code_size /\ dpc' = dpc /\ handle' = handle /\ flash' = flash
        /\ rxstpi' = rxstpi /\ rxouti' = rxouti /\ bank' = bank /\ zlp' = zlp
        /\ page_address' = page_address /\ page_word' = page_word /\ buffer' = buffer
    BY <1>7 DEF vars, hostVars, deviceVars, pipeVars, pageVars, bootVars
  <2>2. /\ Word' = Word /\ Content' = Content /\ Through' = Through
        /\ DeviceAddress(Word)' = DeviceAddress(Word) /\ (Suffix' <=> Suffix)
        /\ (Transferring' <=> Transferring) /\ (Idle' <=> Idle)
    BY <2>1, SameTransfer
  <2>3. /\ (Fresh' <=> Fresh) /\ (AtCommand' <=> AtCommand) /\ (AtErase' <=> AtErase)
        /\ (Done' <=> Done) /\ (Rest' <=> Rest) /\ (Attached' <=> Attached)
    BY <2>1, <2>2 DEF Fresh, AtCommand, AtErase, Done, Rest, Attached, Agreed
  <2>4. Filled' <=> Filled
    BY <2>1, <2>2 DEF Filled, Agreed
  <2>5. (AtFill' <=> AtFill) /\ (AtWrite' <=> AtWrite)
    BY <2>1, <2>2, <2>4 DEF AtFill, AtWrite
  <2>6. Link' <=> Link
    BY <2>1, <2>2, <2>3, <2>5 DEF Link
  <2> QED
    BY <2>1, <2>2, <2>3, <2>6 DEF LinkInv
<1> QED
  BY <1>1, <1>2, <1>3, <1>4, <1>5, <1>6, <1>7 DEF Next, HostStep

-----------------------------------------------------------------------------
(* What has been programmed                                                *)

Passed == {"programming", "writing", "booting"}   \* blocks below addr are done

\* The device does not change a block below addr.
LEMMA BlocksKept ==
  ASSUME TypeOK, PipeInv, LinkInv, PageInv, HostInv, Agreed, DeviceOnly, hpc \in Passed,
         NEW w \in Words, w < addr
  PROVE  flash'[w] = flash[w]
<1> SUFFICES ASSUME flash'[w] # flash[w] PROVE FALSE
  OBVIOUS
<1>1. ~ Rest
  BY RestStep
<1>2. Transferring /\ handle = "open" /\ Link /\ hpc \in {"writing", "booting"}
  BY <1>1 DEF LinkInv, Idle, Transferring, Passed
<1>3. \/ Active /\ w \in Page(page_address)
      \/ /\ dpc = "command" /\ rxouti /\ bank[1] # COMMAND_STARTAPPLICATION
         /\ w \in Page(DeviceAddress(bank[1]))
  BY FlashChange
<1>4. hpc # "booting" => w \notin Page(DeviceAddress(Word))
  <2> SUFFICES ASSUME hpc = "writing", w \in Page(addr) PROVE FALSE
    BY <1>2, CommandType
  <2>1. parse = "read" /\ addr < code_size /\ Used(addr)
    BY DEF HostInv
  <2>2. addr <= w
    BY <2>1, UsedPage
  <2>3. addr \in Nat /\ w \in Nat
    BY <2>1, NextBlock DEF TypeOK, Words
  <2> QED
    BY <2>2, <2>3
<1>5. CASE Active
  <2>1. AtErase \/ AtFill \/ AtWrite
    BY <1>2, <1>5 DEF Active, Link, Fresh, AtCommand, Done, PipeInv
  <2>2. page_address = DeviceAddress(Word) /\ hpc # "booting"
    BY <2>1 DEF AtErase, AtFill, AtWrite
  <2> QED
    BY <1>3, <1>4, <1>5, <2>2 DEF Active
<1>6. CASE dpc = "command" /\ rxouti /\ bank[1] # COMMAND_STARTAPPLICATION
  <2>1. AtCommand
    BY <1>2, <1>6 DEF Link, Fresh, AtErase, AtFill, AtWrite, Done, PipeInv
  <2>2. bank = <<Word, Content[0]>>
    BY <1>6, <2>1 DEF AtCommand
  <2>3. bank[1] = Word
    BY <2>2
  <2>4. hpc # "booting"
    BY <1>2, <1>6, <2>3, CommandType
  <2> QED
    BY <1>3, <1>4, <1>6, <2>3, <2>4 DEF Active
<1> QED
  BY <1>3, <1>5, <1>6

\* The block just passed holds what the file wants.
LEMMA BlockWritten ==
  ASSUME TypeOK, LinkInv, HostInv, Agreed, BlockDone, NEW w \in Page(addr)
  PROVE  flash[w] = Wanted(w)
<1>1. Link /\ zlp /\ hpc = "writing"
  BY DEF BlockDone, Answered, LinkInv, Transferring
<1>2. Done
  BY <1>1 DEF Link, Fresh, AtCommand, AtErase, AtFill, AtWrite
<1>3. flash[w] = Content[w - addr] /\ Content = GetData(addr, BLOCK)
  BY <1>1, <1>2 DEF Done, Content
<1>4. Wanted(w) = GetData(addr, BLOCK)[w - addr]
  BY <1>1, UsedPage DEF HostInv
<1> QED
  BY <1>3, <1>4

\* A block is below the next one, or it is the one at hand.
LEMMA BelowNext ==
  ASSUME TypeOK, addr < code_size, NEW w \in Words, w < addr + BLOCK
  PROVE  w < addr \/ (w \in Page(addr) /\ PageBase(w) = addr)
<1>1. addr \in Nat /\ addr % BLOCK = 0 /\ w \in Nat /\ BLOCK \in Nat \ {0}
  BY NextBlock, BootAssumption DEF TypeOK, Words
<1>2. CASE w >= addr
  <2>1. w - addr \in 0 .. BLOCK - 1 /\ addr + (w - addr) = w /\ 0 \in 0 .. BLOCK - 1
    BY <1>1, <1>2
  <2>2. PageBase(addr + (w - addr)) = addr
    BY <1>1, <2>1, AlignedPage
  <2>3. Page(addr) = addr .. addr + BLOCK - 1
    BY <1>1, <2>1, AlignedPage
  <2> QED
    BY <1>1, <1>2, <2>1, <2>2, <2>3
<1> QED
  BY <1>1, <1>2

LEMMA FlashStep ==
  ASSUME TypeOK, PipeInv, LinkInv, PageInv, HostInv, QuietInv, FlashInv, [Next]_vars
  PROVE  FlashInv'
<1>0. code_size' = code_size /\ Words' = Words
  BY SizeSame DEF Words
<1>1. CASE Start \/ Read \/ ReadDone \/ Open \/ NotFound \/ Rebooted \/ HardReboot
  <2>1. outcome' # "ok"
    BY <1>1 DEF Start, Read, ReadDone, Open, NotFound, Rebooted, HardReboot, Exit, GoOn, hostVars, TypeOK
  <2>2. hpc' \in Passed => addr' = 0
    BY <1>1 DEF Start, Read, ReadDone, Open, NotFound, Rebooted, HardReboot, Exit, GoOn, hostVars,
                Passed, HostInv
  <2>3. \A w \in Words : ~ (w < 0)
    BY DEF Words
  <2> QED
    BY <1>0, <2>1, <2>2, <2>3 DEF FlashInv, Passed
<1>2. CASE ~ (Start \/ Read \/ Open) /\ (HostStep \/ TransferFails \/ UNCHANGED vars)
  <2>1. UNCHANGED hexVars /\ flash' = flash
    BY <1>2 DEF HostStep, ReadDone, NotFound, Rebooted, HardReboot, SkipBlock, WriteBlock, BlockDone,
                Boot, BootDone, SendPacket, TransferFails, vars, deviceVars, pageVars
  <2>2. \A w : Wanted(w)' = Wanted(w)
    BY <1>0, <2>1, SameTask
  <2>3. CASE SkipBlock
    <3>1. /\ hpc = "programming" /\ outcome' # "ok" /\ addr < code_size /\ addr' = addr + BLOCK
          /\ ~ Used(addr)
      BY <2>3 DEF SkipBlock, TypeOK
    <3>2. ASSUME NEW w \in Words, w < addr + BLOCK, Wanted(w) # KEEP PROVE flash[w] = Wanted(w)
      <4>1. w < addr
        BY <3>1, <3>2, BelowNext DEF Wanted
      <4> QED
        BY <3>1, <3>2, <4>1 DEF FlashInv
    <3> QED
      BY <1>0, <2>1, <2>2, <3>1, <3>2 DEF FlashInv
  <2>4. CASE BlockDone
    <3>1. hpc = "writing" /\ outcome' # "ok" /\ addr < code_size /\ addr' = addr + BLOCK
      BY <2>4 DEF BlockDone, TypeOK, HostInv
    <3>2. ASSUME NEW w \in Words, w < addr + BLOCK, Wanted(w) # KEEP PROVE flash[w] = Wanted(w)
      <4>1. CASE w < addr
        BY <3>1, <3>2, <4>1 DEF FlashInv
      <4>2. CASE w \in Page(addr)
        <5>1. Agreed
          BY <3>2 DEF Wanted
        <5> QED
          BY <2>4, <4>2, <5>1, BlockWritten
      <4> QED
        BY <3>1, <3>2, <4>1, <4>2, BelowNext
    <3> QED
      BY <1>0, <2>1, <2>2, <3>1, <3>2 DEF FlashInv
  <2>5. CASE ReadDone \/ NotFound \/ Rebooted \/ HardReboot
    BY <1>1, <2>5
  <2>6. CASE WriteBlock \/ SendPacket \/ UNCHANGED vars
    <3>1. /\ addr' = addr /\ outcome' = outcome /\ (hpc' \in Passed => hpc \in Passed)
      BY <2>6 DEF WriteBlock, SendPacket, vars, hostVars, Passed
    <3> QED
      BY <1>0, <2>1, <2>2, <3>1 DEF FlashInv, Passed
  <2>7. CASE Boot \/ BootDone \/ TransferFails
    <3>1. /\ outcome' = "ok" => hpc \in Passed /\ addr >= code_size
          /\ hpc' \in Passed => hpc \in Passed /\ addr' = addr
      BY <2>7 DEF Boot, BootDone, TransferFails, Exit, Passed, HostInv, TypeOK
    <3>2. \A w \in Words : addr >= code_size => w < addr
      BY SizeType DEF TypeOK, Words
    <3> QED
      BY <1>0, <2>1, <2>2, <3>1, <3>2 DEF FlashInv, Passed
  <2> QED
    BY <1>2, <2>3, <2>4, <2>5, <2>6, <2>7 DEF HostStep
<1>3. CASE Device \/ Supply
  <2>1. /\ DeviceOnly /\ UNCHANGED hexVars /\ hpc' = hpc /\ addr' = addr /\ outcome' = outcome
    BY <1>3 DEF Device, Supply, Beside, DeviceOnly
  <2>2. \A w : Wanted(w)' = Wanted(w)
    BY <1>0, <2>1, SameTask
  <2>3. ASSUME NEW w \in Words, Wanted(w) # KEEP, hpc \in Passed, w < addr PROVE flash'[w] = Wanted(w)
    <3>1. Agreed
      BY <2>3 DEF Wanted
    <3> QED
      BY <2>1, <2>3, <3>1, BlocksKept DEF FlashInv, Passed
  <2>4. ASSUME NEW w \in Words, Wanted(w) # KEEP, outcome = "ok" PROVE flash'[w] = Wanted(w)
    BY <2>1, <2>4, QuietStep DEF FlashInv, QuietInv
  <2> QED
    BY <1>0, <2>1, <2>2, <2>3, <2>4 DEF FlashInv, Passed
<1> QED
  BY <1>1, <1>2, <1>3 DEF Next, HostStep

-----------------------------------------------------------------------------
(* The theorems                                                            *)

LEMMA UpdateInit == Init => UpdateInv
<1> SUFFICES ASSUME Init PROVE UpdateInv
  OBVIOUS
<1>1. TypeOK
  BY TypeInit
<1>2. /\ dpc = "off" /\ ~ rxstpi /\ ~ rxouti /\ bank = << >>
      /\ hpc = "exited" /\ handle = "none" /\ outcome = "none" /\ addr = 0
  BY DEF Init, BootInit
<1>3. PipeInv /\ LinkInv /\ PageInv
  BY <1>2 DEF PipeInv, LinkInv, Idle, Transferring, PageInv, Active
<1>4. HostInv /\ QuietInv /\ FlashInv
  BY <1>2 DEF HostInv, QuietInv, FlashInv
<1> QED
  BY <1>1, <1>3, <1>4 DEF UpdateInv

\* Loader, pipe and bootloader keep to what they have agreed on, through every
\* loss of a packet, of a transfer or of power.
THEOREM UpdateInvariant == Spec => []UpdateInv
<1>1. UpdateInv /\ [Next]_vars => UpdateInv'
  <2> SUFFICES ASSUME UpdateInv, [Next]_vars PROVE UpdateInv'
    OBVIOUS
  <2>1. TypeOK /\ PipeInv /\ LinkInv /\ PageInv /\ HostInv /\ QuietInv /\ FlashInv
    BY DEF UpdateInv
  <2>2. TypeOK' /\ PipeInv' /\ HostInv'
    BY <2>1, TypeStep, PipeStep, HostStepInv
  <2>3. LinkInv' /\ PageInv' /\ QuietInv'
    BY <2>1, LinkStep, PageStep, QuietInvStep
  <2>4. FlashInv'
    BY <2>1, FlashStep
  <2> QED
    BY <2>2, <2>3, <2>4 DEF UpdateInv
<1> QED
  BY <1>1, UpdateInit, PTL DEF Spec

\* Every variable of file, loader, pipe and bootloader keeps its range, on parts
\* of every size and with a "reboot" that names any page, in the flash or beyond.
THEOREM TypeCorrect == Spec => []TypeOK
<1>1. UpdateInv => TypeOK
  BY DEF UpdateInv
<1> QED
  BY <1>1, UpdateInvariant, PTL

\* What read_intel_hex has read is what the file says, whatever files were
\* read before it.
THEOREM ImageCorrect == Spec => []ImageIsFile
<1>1. Init => HexTypeOK /\ ReaderInv
  BY HexTypeInit, ReaderInit DEF Init
<1>2. HexTypeOK /\ ReaderInv /\ [Next]_vars => (HexTypeOK /\ ReaderInv)'
  BY HexSteps, HexTypeStep, ReaderStep
<1>3. HexTypeOK /\ ReaderInv => ImageIsFile
  BY ReaderGivesFile
<1> QED
  BY <1>1, <1>2, <1>3, PTL DEF Spec

\* A byte of the file, and what the update wants at its address.
LEMMA ByteWanted ==
  ASSUME TypeOK, Agreed, parse = "read", NEW a \in Cells, a \in firmware_mask, a < code_size,
         PageBase(a) + BLOCK < LIMIT
  PROVE  a \in Words /\ Wanted(a) = firmware_image[a] /\ Wanted(a) # KEEP
<1>1. /\ a \in Nat /\ BLOCK \in Nat \ {0} /\ LIMIT \in Nat
      /\ firmware_image \in [Cells -> BYTES \cup {FF}]
  BY BootAssumption, HexAssumption DEF Cells, TypeOK, HexTypeOK
<1>2. /\ PageBase(a) \in Nat /\ a % BLOCK \in 0 .. BLOCK - 1 /\ a = PageBase(a) + (a % BLOCK)
  BY <1>1, PageBaseType
<1> DEFINE b == PageBase(a)
           k == a % BLOCK
<1>3. b \in Nat /\ k \in 0 .. BLOCK - 1 /\ a = b + k /\ b + BLOCK < LIMIT
  BY <1>2
<1> HIDE DEF b, k
<1>4. Used(b)
  <2>1. b < LIMIT /\ b + BLOCK - 1 < LIMIT /\ a \in b .. b + BLOCK - 1
    BY <1>1, <1>3
  <2> QED
    BY <2>1 DEF Used, BytesWithinRange
<1>5. GetData(b, BLOCK)[k] = firmware_image[a]
  <2>1. ~ Outside(b, BLOCK)
    BY <1>1, <1>3 DEF Outside
  <2> QED
    BY <1>3, <2>1 DEF GetData
<1>6. Wanted(a) = firmware_image[a]
  BY <1>4, <1>5 DEF Wanted, b, k
<1>7. firmware_image[a] \in VALUES
  BY <1>1, ProgrammingAssumption
<1>8. a \in Words
  BY <1>1, SizeType DEF TypeOK, Words
<1> QED
  BY <1>6, <1>7, <1>8, KeepAssumption

\* When the loader reports success, flash holds what the file says - below
\* code_size and the last block before the limit, on a part of any size but
\* exactly 64 KiB -, whatever was lost and however often the loader was started
\* before.
THEOREM ProgrammedCorrect == Spec => []ProgrammedAsFile
<1>1. UpdateInv /\ ImageIsFile => ProgrammedAsFile
  <2> SUFFICES ASSUME UpdateInv, ImageIsFile, outcome = "ok", Agreed, NEW a \in Cells,
                      \E i \in 1 .. lineno - 1 : Writes(i, a), a < code_size,
                      PageBase(a) + BLOCK < LIMIT
               PROVE  flash[a] = ByteOf(LastWriter(lineno, a), a)
    BY DEF ProgrammedAsFile
  <2>1. TypeOK /\ parse = "read"
    BY DEF UpdateInv, HostInv
  <2>2. a \in firmware_mask /\ firmware_image[a] = ByteOf(LastWriter(lineno, a), a)
    BY <2>1 DEF ImageIsFile
  <2>3. a \in Words /\ Wanted(a) = firmware_image[a] /\ Wanted(a) # KEEP
    BY <2>1, <2>2, ByteWanted
  <2> QED
    BY <2>2, <2>3 DEF UpdateInv, FlashInv
<1> QED
  BY <1>1, UpdateInvariant, ImageCorrect, PTL

-----------------------------------------------------------------------------
(* The refinement of FlashUpdate                                           *)

Memory == [a \in Addresses |-> IF InMemory(a) THEN flash[a] ELSE ERASED]
Wishes == [a \in Addresses |-> Wanted(a)]

UpdateTypes == Memory \in [Addresses -> VALUES] /\ Wishes \in [Addresses -> VALUES \cup {KEEP}]

LEMMA AddressesType == \A a \in Addresses : a \in Nat
  BY BootAssumption DEF Addresses

LEMMA UpdateTypesHold == TypeOK => UpdateTypes
<1> SUFFICES ASSUME TypeOK, NEW a \in Addresses
             PROVE  /\ (IF InMemory(a) THEN flash[a] ELSE ERASED) \in VALUES
                    /\ Wanted(a) \in VALUES \cup {KEEP}
  BY DEF UpdateTypes, Memory, Wishes
<1>1. a \in Nat /\ code_size \in Nat
  BY AddressesType, SizeType DEF TypeOK
<1>2. InMemory(a) => flash[a] \in VALUES
  BY <1>1 DEF InMemory, Words, TypeOK, BootTypeOK
<1>3. PageBase(a) \in Nat /\ a % BLOCK \in 0 .. BLOCK - 1
  BY <1>1, PageBaseType
<1>4. GetData(PageBase(a), BLOCK)[a % BLOCK] \in BYTES \cup {FF}
  <2>1. GetData(PageBase(a), BLOCK) \in [0 .. BLOCK - 1 -> BYTES \cup {FF}]
    BY <1>3, GetDataType DEF TypeOK
  <2> QED
    BY <1>3, <2>1
<1> QED
  BY <1>2, <1>4, ValuesType DEF Wanted

\* What an abstract step changes is named once, here.
UStutter == Memory' = Memory /\ Wishes' = Wishes /\ outcome' = outcome
UBegin   == Memory' = Memory /\ outcome' = "none"
UFail    == Memory' = Memory /\ Wishes' = Wishes /\ outcome = "none" /\ outcome' = "failed"
USucceed ==
  /\ Memory' = Memory /\ Wishes' = Wishes /\ outcome = "none" /\ outcome' = "ok"
  /\ \A a \in Addresses : Wanted(a) # KEEP => Memory[a] = Wanted(a)
UTouch ==
  /\ Wishes' = Wishes /\ outcome' = outcome /\ outcome # "ok"
  /\ \A a \in Addresses :
       Memory'[a] # Memory[a] => Wanted(a) # KEEP \/ a \in RebootPages

LEMMA WishesSame ==
  ASSUME UNCHANGED hexVars, code_size' = code_size
  PROVE  Wishes' = Wishes
<1>1. \A a : Wanted(a)' = Wanted(a)
  BY SameTask
<1> QED
  BY <1>1 DEF Wishes, Addresses

LEMMA MemorySame ==
  ASSUME flash' = flash, code_size' = code_size
  PROVE  Memory' = Memory
  BY DEF Memory, Addresses, InMemory, Agreed

LEMMA AllDone ==
  ASSUME UpdateInv, hpc \in Passed, addr >= code_size
  PROVE  \A a \in Addresses : Wanted(a) # KEEP => Memory[a] = Wanted(a)
<1> SUFFICES ASSUME NEW a \in Addresses, Wanted(a) # KEEP PROVE Memory[a] = Wanted(a)
  OBVIOUS
<1>1. InMemory(a) /\ a < code_size /\ a \in Nat /\ code_size \in Nat /\ addr \in Nat
  BY AddressesType, SizeType DEF Wanted, InMemory, UpdateInv, TypeOK
<1>2. a \in Words /\ a < addr
  BY <1>1 DEF Words
<1>3. flash[a] = Wanted(a)
  BY <1>2 DEF UpdateInv, FlashInv, Passed
<1> QED
  BY <1>1, <1>3 DEF Memory

LEMMA DeviceTouches ==
  ASSUME UpdateInv, Device \/ Supply
  PROVE  UStutter \/ UTouch
<1>1. /\ DeviceOnly /\ UNCHANGED hexVars /\ outcome' = outcome /\ code_size' = code_size
      /\ TypeOK /\ PipeInv /\ PageInv /\ QuietInv
  BY SizeSame DEF Device, Supply, Beside, DeviceOnly, UpdateInv, Next
<1>2. Wishes' = Wishes
  BY <1>1, WishesSame
<1>3. CASE outcome = "ok"
  <2>1. flash' = flash
    BY <1>1, <1>3, QuietStep DEF QuietInv
  <2> QED
    BY <1>1, <1>2, <2>1, MemorySame DEF UStutter
<1>4. CASE outcome # "ok"
  <2>1. ASSUME NEW a \in Addresses, Memory'[a] # Memory[a]
        PROVE  Wanted(a) # KEEP \/ a \in RebootPages
    <3>1. Agreed /\ a < code_size /\ flash'[a] # flash[a]
      BY <1>1, <2>1 DEF Memory, Addresses, InMemory, Agreed
    <3>2. a \in Words
      BY <1>1, <3>1, AddressesType, SizeType DEF Words, TypeOK
    <3>3. \/ Active /\ a \in Page(page_address)
          \/ /\ dpc = "command" /\ rxouti /\ bank[1] # COMMAND_STARTAPPLICATION
             /\ a \in Page(DeviceAddress(bank[1]))
      BY <1>1, <3>1, <3>2, FlashChange
    <3>4. CASE Active /\ a \in Page(page_address)
      BY <1>1, <3>1, <3>4 DEF PageInv, Allowed
    <3>5. CASE /\ dpc = "command" /\ rxouti /\ bank[1] # COMMAND_STARTAPPLICATION
               /\ a \in Page(DeviceAddress(bank[1]))
      BY <1>1, <3>1, <3>5 DEF PageInv, Allowed
    <3> QED
      BY <3>3, <3>4, <3>5
  <2> QED
    BY <1>1, <1>2, <1>4, <2>1 DEF UTouch
<1> QED
  BY <1>3, <1>4

LEMMA UpdateSteps ==
  ASSUME UpdateInv, [Next]_vars
  PROVE  UStutter \/ UBegin \/ UFail \/ USucceed \/ UTouch
<1>0. code_size' = code_size /\ TypeOK /\ HostInv
  BY SizeSame DEF UpdateInv
<1>1. CASE Device \/ Supply
  BY <1>1, DeviceTouches
<1>2. CASE HostStep \/ Start \/ TransferFails \/ UNCHANGED vars
  <2>1. flash' = flash
    BY <1>2 DEF HostStep, Start, Read, ReadDone, Open, NotFound, Rebooted, HardReboot, SkipBlock,
                WriteBlock, BlockDone, Boot, BootDone, SendPacket, TransferFails,
                vars, deviceVars, pageVars
  <2>2. Memory' = Memory
    BY <1>0, <2>1, MemorySame
  <2>3. CASE Start \/ Read \/ Open
    <3>1. outcome' = "none"
      BY <1>0, <2>3 DEF Start, Read, Open, hostVars, TypeOK
    <3> QED
      BY <2>2, <3>1 DEF UBegin
  <2>4. CASE ~ (Start \/ Read \/ Open)
    <3>1. UNCHANGED hexVars
      BY <1>2, <2>4 DEF HostStep, ReadDone, NotFound, Rebooted, HardReboot, SkipBlock, WriteBlock,
                  BlockDone, Boot, BootDone, SendPacket, TransferFails, vars
    <3>2. Wishes' = Wishes
      BY <1>0, <3>1, WishesSame
    <3>3. \/ outcome' = outcome
          \/ outcome = "none" /\ outcome' = "failed"
          \/ outcome = "none" /\ outcome' = "ok" /\ hpc \in Passed /\ addr >= code_size
      <4>1. CASE Boot \/ BootDone \/ TransferFails
        BY <1>0, <4>1 DEF Boot, BootDone, TransferFails, Transferring, Exit, TypeOK, HostInv, Passed
      <4>2. CASE ReadDone \/ NotFound \/ Rebooted \/ HardReboot
        BY <1>0, <4>2 DEF ReadDone, NotFound, Rebooted, HardReboot, GoOn, Exit, TypeOK
      <4>3. CASE SkipBlock \/ WriteBlock \/ BlockDone \/ SendPacket \/ UNCHANGED vars
        BY <4>3 DEF SkipBlock, WriteBlock, BlockDone, SendPacket, vars, hostVars
      <4> QED
        BY <1>2, <2>4, <4>1, <4>2, <4>3 DEF HostStep
    <3>4. CASE hpc \in Passed /\ addr >= code_size
      BY <2>2, <3>2, <3>3, <3>4, AllDone DEF UStutter, UFail, USucceed
    <3>5. CASE ~ (hpc \in Passed /\ addr >= code_size)
      BY <2>2, <3>2, <3>3, <3>5 DEF UStutter, UFail
    <3> QED
      BY <3>4, <3>5
  <2> QED
    BY <2>3, <2>4
<1> QED
  BY <1>1, <1>2 DEF Next

\* Loader and bootloader implement the abstract update: a page without data in
\* the file keeps its contents, success means that every wish is fulfilled,
\* and nothing changes after success.  Of a part of exactly 64 KiB nothing is
\* promised.
THEOREM UpdateCorrect == Spec => UpdateRefinement
<1>1. Init /\ UpdateTypes => Update!Init
  <2> SUFFICES ASSUME Init, UpdateTypes PROVE Update!Init
    OBVIOUS
  <2>1. outcome = "none"
    BY DEF Init
  <2> QED
    BY <2>1 DEF Update!Init, UpdateTypes, Memory, Wishes
<1>2. UpdateInv /\ UpdateTypes' /\ [Next]_vars =>
        [Update!Next]_<<[a \in Addresses |-> IF InMemory(a) THEN flash[a] ELSE ERASED],
                        [a \in Addresses |-> Wanted(a)], outcome>>
  <2> SUFFICES ASSUME UpdateInv, UpdateTypes', [Next]_vars
               PROVE  Update!Next \/ (Memory' = Memory /\ Wishes' = Wishes /\ outcome' = outcome)
    BY DEF Memory, Wishes
  <2>1. CASE UStutter
    BY <2>1 DEF UStutter
  <2>2. CASE UBegin
    <3>1. Update!Begin
      BY <2>2 DEF UBegin, Update!Begin, UpdateTypes, Memory, Wishes
    <3> QED
      BY <3>1 DEF Update!Next
  <2>3. CASE UFail
    <3>1. Update!Fail
      BY <2>3 DEF UFail, Update!Fail, Memory, Wishes
    <3> QED
      BY <3>1 DEF Update!Next
  <2>4. CASE USucceed
    <3>1. Update!Succeed
      BY <2>4 DEF USucceed, Update!Succeed, Memory, Wishes
    <3> QED
      BY <3>1 DEF Update!Next
  <2>5. CASE UTouch
    <3>1. Update!Touch
      BY <2>5 DEF UTouch, Update!Touch, UpdateTypes, Memory, Wishes
    <3> QED
      BY <3>1 DEF Update!Next
  <2> QED
    BY <2>1, <2>2, <2>3, <2>4, <2>5, UpdateSteps DEF UStutter
<1>3. UpdateInv => UpdateTypes
  BY UpdateTypesHold DEF UpdateInv
<1> QED
  BY <1>1, <1>2, <1>3, UpdateInit, UpdateInvariant, PTL DEF Spec, UpdateRefinement, Update!Spec
=============================================================================
