------------------------------ MODULE IntelHex ------------------------------
(***************************************************************************)
(* The Intel-hex reader of the host loader (hid_bootloader_cli.c,          *)
(* read_intel_hex and parse_hex_line): one action per line of the file.    *)
(*                                                                         *)
(* A line is a record: what parse_hex_line's scans find in it, and whether *)
(* its checksum is right.  A memory cell stands for a byte; LIMIT is       *)
(* MAX_MEMORY_SIZE, which is also one more than the largest 16-bit         *)
(* address, so that a linear extension by 1 moves by LIMIT.                *)
(***************************************************************************)
EXTENDS Integers, Sequences

CONSTANTS
  FILES,    \* the files a user may pass: sequences of lines
  LIMIT,    \* MAX_MEMORY_SIZE
  SEGMENT,  \* 16, the unit of a segment extension
  BYTES     \* values of a byte in the files

VARIABLES
  file,           \* the file on disk
  lineno,         \* next line of it
  firmware_image, firmware_mask,
  extended_addr,
  parse           \* "idle", "reading", "read" or "error"

hexVars == <<file, lineno, firmware_image, firmware_mask, extended_addr, parse>>

FF    == 255
Cells == 0 .. LIMIT - 1

Line == [formed : BOOLEAN,      \* starts with ':' and is long enough
         code : 0 .. 5,         \* record type
         addr : Cells, len : 0 .. LIMIT - 1,
         data : [Cells -> BYTES],  \* the first len of them
         field : 0 .. LIMIT - 1,   \* the two bytes of an extension
         sum_ok : BOOLEAN]         \* checksum

ASSUME HexAssumption ==
  /\ LIMIT \in Nat \ {0} /\ SEGMENT \in Nat
  /\ BYTES \subseteq 0 .. 255
  /\ \A f \in FILES : f \in Seq(Line)

HexTypeOK ==
  /\ file \in FILES \cup {<< >>}
  /\ lineno \in 1 .. Len(file) + 1
  /\ firmware_image \in [Cells -> BYTES \cup {FF}]
  /\ firmware_mask \subseteq Cells
  /\ extended_addr \in Nat
  /\ parse \in {"idle", "reading", "read", "error"}

HexInit ==
  /\ file = << >>
  /\ lineno = 1
  /\ firmware_image = [a \in Cells |-> FF] /\ firmware_mask = {}
  /\ extended_addr = 0
  /\ parse = "idle"

-----------------------------------------------------------------------------
(* read_intel_hex starts by forgetting what it read before.                *)

Mut_StartReadingWhereLeft(f) ==
  /\ parse # "reading"
  /\ file' = f /\ lineno' = 1 /\ parse' = "reading"
  /\ firmware_image' = [a \in Cells |-> FF] /\ firmware_mask' = {}
  /\ UNCHANGED extended_addr

StartReading(f) ==
  /\ parse # "reading"
  /\ file' = f /\ lineno' = 1 /\ parse' = "reading"
  /\ firmware_image' = [a \in Cells |-> FF] /\ firmware_mask' = {}
  /\ extended_addr' = 0

Reading ==
  /\ parse = "reading" /\ lineno <= Len(file)
  /\ lineno' = lineno + 1
  /\ UNCHANGED file

\* Not a record, or one whose last byte would not be below the limit: the
\* test comes before the type is looked at, and holds for every type.
Refused(l) == ~ l.formed \/ l.addr + extended_addr + l.len >= LIMIT

RefuseLine ==
  /\ Reading
  /\ Refused(file[lineno])
  /\ parse' = "error"
  /\ UNCHANGED <<firmware_image, firmware_mask, extended_addr>>

\* A data record is stored byte by byte as it is scanned, and refused
\* afterwards if its checksum is wrong.
Covers(l, base, a) == a \in base + l.addr .. base + l.addr + l.len - 1

DataLine ==
  /\ Reading
  /\ LET l == file[lineno] IN
       /\ ~ Refused(l) /\ l.code = 0
       /\ firmware_image' =
            [a \in Cells |-> IF Covers(l, extended_addr, a)
                             THEN l.data[a - (extended_addr + l.addr)]
                             ELSE firmware_image[a]]
       /\ firmware_mask' = firmware_mask \cup {a \in Cells : Covers(l, extended_addr, a)}
       /\ parse' = IF l.sum_ok THEN "reading" ELSE "error"
  /\ UNCHANGED extended_addr

\* Only a right checksum makes an extension count; a wrong one is passed over
\* (the line is "valid" all the same), as are records of other types.
Extension(l) == IF l.code = 2 THEN SEGMENT * l.field ELSE LIMIT * l.field

Extends(l) == l.code \in {2, 4} /\ l.len = 2 /\ l.sum_ok

OtherLine ==
  /\ Reading
  /\ LET l == file[lineno] IN
       /\ ~ Refused(l) /\ l.code \notin {0, 1}
       /\ extended_addr' = IF Extends(l) THEN Extension(l) ELSE extended_addr
  /\ UNCHANGED <<firmware_image, firmware_mask, parse>>

\* The end record, whose checksum is not looked at, or the end of a file that
\* has none: both are success.
EndOfFile ==
  /\ \/ /\ Reading
        /\ ~ Refused(file[lineno]) /\ file[lineno].code = 1
     \/ /\ parse = "reading" /\ lineno > Len(file)
        /\ UNCHANGED <<file, lineno>>
  /\ parse' = "read"
  /\ UNCHANGED <<firmware_image, firmware_mask, extended_addr>>

ReadLine == RefuseLine \/ DataLine \/ OtherLine \/ EndOfFile

-----------------------------------------------------------------------------
(* ihex_bytes_within_range(begin, end) and ihex_get_data(addr, len)        *)

BytesWithinRange(begin, end) ==
  /\ begin < LIMIT /\ end < LIMIT
  /\ \E a \in begin .. end : a \in firmware_mask

\* The block that ends exactly at the limit counts as outside.
Outside(addr, len) == addr + len >= LIMIT

GetData(addr, len) ==
  [k \in 0 .. len - 1 |->
     IF ~ Outside(addr, len) /\ addr + k \in firmware_mask
     THEN firmware_image[addr + k] ELSE FF]

-----------------------------------------------------------------------------
(* What the lines read so far say, without a reader's state: the extension *)
(* in force at a line is the last one before it, and a cell holds what the *)
(* last data record that covers it has for it.                             *)

ExtensionAt(n) ==
  IF \E i \in 1 .. n - 1 : Extends(file[i])
  THEN Extension(file[CHOOSE i \in 1 .. n - 1 :
         Extends(file[i]) /\ \A j \in i + 1 .. n - 1 : ~ Extends(file[j])])
  ELSE 0

Writes(i, a) == file[i].code = 0 /\ Covers(file[i], ExtensionAt(i), a)

LastWriter(n, a) ==
  CHOOSE i \in 1 .. n - 1 :
    Writes(i, a) /\ \A j \in i + 1 .. n - 1 : ~ Writes(j, a)

ByteOf(i, a) == file[i].data[a - (ExtensionAt(i) + file[i].addr)]

\* What was read is what the file says: every cell that a data record covers,
\* at the place the extension records before it give, holds the byte of the
\* last such record, and no other cell counts as used.
ImageIsFile ==
  parse = "read" =>
    \A a \in Cells :
      /\ a \in firmware_mask <=> \E i \in 1 .. lineno - 1 : Writes(i, a)
      /\ firmware_image[a] = IF a \in firmware_mask
                             THEN ByteOf(LastWriter(lineno, a), a) ELSE FF
=============================================================================
