---------------------------- MODULE Programming -----------------------------
(***************************************************************************)
(* Programming a device: the host loader (hid_bootloader_cli.c), the       *)
(* bootloader, the control transfers between them, the power supply and a  *)
(* user who starts the loader as often as he likes.                        *)
(*                                                                         *)
(* A transfer may fail at any point: the loader's timeout runs out, the    *)
(* user stops it, the device goes away.  A new loader is started only when *)
(* the device has settled, that is, has come to where it waits: its own    *)
(* steps take milliseconds.  The user names his part with -mmcu: one       *)
(* code_size is the loader's and the device's.                             *)
(***************************************************************************)
EXTENDS IntelHex, Bootloader

CONSTANTS
  DEVICE_ID,    \* vendor and product of the bootloader's device descriptor
  REBOOT_WORD   \* the first word of the rebootor's command: "re", 0x6572

VARIABLES
  hpc,                       \* where the loader is
  addr,                      \* next block
  waited,                    \* it waited for the device
  wait_for_device_to_appear, hard_reboot_device,
  handle,                    \* "none", "open", or "stale": its device went away
  outgoing,                  \* packets of the transfer still to be sent
  outcome                    \* of the last run: "none" yet, "ok" or "failed"

optionVars == <<wait_for_device_to_appear, hard_reboot_device>>
hostVars   == <<hpc, addr, waited, optionVars, handle, outgoing, outcome>>
vars       == <<hexVars, deviceVars, hostVars>>

TEENSY_IDS   == {"16C0:0478", "03EB:2067"}
REBOOTOR_IDS == {"16C0:0477", "03EB:2067"}

ASSUME ProgrammingAssumption ==
  /\ SIXTEEN = LIMIT
  /\ BYTES \cup {FF} \subseteq VALUES /\ ERASED = FF
  /\ REBOOT_WORD \in 0 .. SIXTEEN - 1 /\ REBOOT_WORD # COMMAND_STARTAPPLICATION

Init ==
  /\ HexInit /\ BootInit
  /\ hpc = "exited" /\ addr = 0 /\ waited = FALSE
  /\ wait_for_device_to_appear = FALSE /\ hard_reboot_device = FALSE
  /\ handle = "none" /\ outgoing = << >> /\ outcome = "none"

-----------------------------------------------------------------------------
(* The transfer: usb_control_msg on the host's side.                       *)

\* The page's word and the first cell of its contents, then a cell each.
Report(word, content) ==
  [k \in 1 .. BLOCK |-> IF k = 1 THEN <<word, content[0]>> ELSE <<content[k - 1]>>]

\* A SETUP packet is always taken, and clears what the endpoint held.
Transfer(report) ==
  /\ outgoing' = report
  /\ IF handle = "open"
     THEN rxstpi' = TRUE /\ rxouti' = FALSE /\ bank' = << >> /\ zlp' = FALSE
     ELSE UNCHANGED pipeVars

Transferring == hpc \in {"writing", "booting", "reboot_write"}

SendPacket ==
  /\ Transferring /\ handle = "open" /\ outgoing # << >>
  /\ ~ rxstpi /\ ~ rxouti
  /\ rxouti' = TRUE /\ bank' = Head(outgoing)
  /\ outgoing' = Tail(outgoing)
  /\ UNCHANGED <<hexVars, rxstpi, zlp, dpc, pageVars, bootVars, hpc, addr, waited,
                 optionVars, handle, outcome>>

Mut_AnsweredOnceSent == handle = "open" /\ outgoing = << >>

\* The status stage: the data is through, and the device has answered.
Answered == handle = "open" /\ outgoing = << >> /\ zlp

-----------------------------------------------------------------------------
(* main                                                                    *)

\* The process ends, and what it kept with it, but for its exit status.
Exit(result) ==
  /\ hpc' = "exited" /\ handle' = "none" /\ outgoing' = << >> /\ outcome' = result
  /\ addr' = 0 /\ waited' = FALSE
  /\ wait_for_device_to_appear' = FALSE /\ hard_reboot_device' = FALSE

GoOn(location) ==
  hpc' = location /\ UNCHANGED <<addr, waited, optionVars, handle, outgoing, outcome>>

\* The steps of the device itself, to where it waits, take milliseconds.
Settled == dpc \in {"off", "app"} \/ (dpc = "loop" /\ ~ rxstpi) \/ Waiting

\* A user starts the loader with a file.
Start ==
  /\ hpc = "exited" /\ Settled
  /\ \E f \in FILES : StartReading(f)
  /\ hpc' = "reading" /\ outcome' = "none"
  /\ UNCHANGED <<deviceVars, addr, waited, optionVars, handle, outgoing>>

Read ==
  /\ hpc = "reading"
  /\ ReadLine
  /\ UNCHANGED <<deviceVars, hostVars>>

\* The file is read before the device is opened, and once more if the loader
\* had to wait for the device.  The options -w and -r matter from here on.
ReadDone ==
  /\ hpc = "reading"
  /\ \/ parse = "error" /\ Exit("failed")
     \/ parse = "read" /\ handle # "none" /\ GoOn("programming")
     \/ /\ parse = "read" /\ handle = "none"
        /\ hpc' = "opening"
        /\ wait_for_device_to_appear' \in BOOLEAN
        /\ hard_reboot_device' \in BOOLEAN
        /\ UNCHANGED <<addr, waited, handle, outgoing, outcome>>
  /\ UNCHANGED <<hexVars, deviceVars>>

Found(ids) == Attached /\ DEVICE_ID \in ids

\* The file may have changed while the loader waited.
Open ==
  /\ hpc = "opening" /\ Found(TEENSY_IDS)
  /\ handle' = "open"
  /\ IF waited
     THEN hpc' = "reading" /\ \E f \in FILES : StartReading(f)
     ELSE hpc' = "programming" /\ UNCHANGED hexVars
  /\ UNCHANGED <<deviceVars, addr, waited, optionVars, outgoing, outcome>>

NotFound ==
  /\ hpc = "opening" /\ ~ Found(TEENSY_IDS)
  /\ \/ hard_reboot_device /\ GoOn("rebooting")
     \/ ~ hard_reboot_device /\ ~ wait_for_device_to_appear /\ Exit("failed")
     \/ /\ ~ hard_reboot_device /\ wait_for_device_to_appear
        /\ waited' = TRUE
        /\ UNCHANGED <<hpc, addr, optionVars, handle, outgoing, outcome>>
  /\ UNCHANGED <<hexVars, deviceVars>>

\* A rebootor board, if the user has one, is found first and resets the device.
Rebooted ==
  /\ hpc = "rebooting"
  /\ hpc' = "opening"
  /\ hard_reboot_device' = FALSE /\ wait_for_device_to_appear' = TRUE /\ waited' = TRUE
  /\ UNCHANGED <<hexVars, deviceVars, addr, handle, outgoing, outcome>>

\* Without one, the search goes on with an identity that the bootloader has
\* too: it takes "reboot" for a page's word - beyond the flash of many parts,
\* but of no use as a limit - and four bytes of the page.  It waits for the
\* rest, and the command is not answered.
HardReboot ==
  /\ hpc = "rebooting"
  /\ IF Found(REBOOTOR_IDS)
     THEN /\ hpc' = "reboot_write" /\ handle' = "open"
          /\ outgoing' = << <<REBOOT_WORD, FF>> >>
          /\ rxstpi' = TRUE /\ rxouti' = FALSE /\ bank' = << >> /\ zlp' = FALSE
          /\ UNCHANGED <<addr, waited, optionVars, outcome>>
     ELSE Exit("failed") /\ UNCHANGED pipeVars
  /\ UNCHANGED <<hexVars, dpc, pageVars, bootVars>>

\* code_size < 0x10000: an address; else the number of the page.  A bootloader
\* of exactly 64 KiB (FLASHEND = 0xFFFF) takes that number for an address.
HostAddress(a) == IF code_size < LIMIT THEN a ELSE a \div BLOCK

Agreed == code_size # LIMIT

\* Blocks of which the file says nothing are passed over, but for the first.
Used(a) == a = 0 \/ BytesWithinRange(a, a + BLOCK - 1)

SkipBlock ==
  /\ hpc = "programming" /\ addr < code_size /\ ~ Used(addr)
  /\ addr' = addr + BLOCK
  /\ UNCHANGED <<hexVars, deviceVars, hpc, waited, optionVars, handle, outgoing, outcome>>

Mut_WriteBlockPastEnd ==
  /\ hpc = "programming" /\ addr <= code_size /\ Used(addr)
  /\ Transfer(Report(HostAddress(addr), GetData(addr, BLOCK)))
  /\ hpc' = "writing"
  /\ UNCHANGED <<hexVars, dpc, pageVars, bootVars, addr, waited, optionVars, handle, outcome>>

WriteBlock ==
  /\ hpc = "programming" /\ addr < code_size /\ Used(addr)
  /\ Transfer(Report(HostAddress(addr), GetData(addr, BLOCK)))
  /\ hpc' = "writing"
  /\ UNCHANGED <<hexVars, dpc, pageVars, bootVars, addr, waited, optionVars, handle, outcome>>

BlockDone ==
  /\ hpc = "writing" /\ Answered
  /\ zlp' = FALSE
  /\ addr' = addr + BLOCK
  /\ hpc' = "programming"
  /\ UNCHANGED <<hexVars, rxstpi, rxouti, bank, dpc, pageVars, bootVars, waited,
                 optionVars, handle, outgoing, outcome>>

\* With -n the start command is left out.
Boot ==
  /\ hpc = "programming" /\ addr >= code_size
  /\ \E reboot_after_programming \in BOOLEAN :
     IF reboot_after_programming
     THEN /\ Transfer(Report(COMMAND_STARTAPPLICATION, AllOf(0)))
          /\ hpc' = "booting"
          /\ UNCHANGED <<addr, waited, optionVars, handle, outcome>>
     ELSE Exit("ok") /\ UNCHANGED pipeVars
  /\ UNCHANGED <<hexVars, dpc, pageVars, bootVars>>

\* Whether the start command is answered makes no difference to the loader.
BootDone ==
  /\ hpc = "booting" /\ Answered
  /\ zlp' = FALSE
  /\ Exit("ok")
  /\ UNCHANGED <<hexVars, rxstpi, rxouti, bank, dpc, pageVars, bootVars>>

Mut_TransferFailsQuietly ==
  Transferring /\ Exit("ok") /\ UNCHANGED <<hexVars, deviceVars>>

Mut_TransferFailsIfGone ==
  /\ Transferring /\ handle = "stale"
  /\ Exit(IF hpc = "booting" THEN "ok" ELSE "failed")
  /\ UNCHANGED <<hexVars, deviceVars>>

\* The timeout of a control transfer, or its end because the device is gone.
TransferFails ==
  /\ Transferring
  /\ Exit(IF hpc = "booting" THEN "ok" ELSE "failed")
  /\ UNCHANGED <<hexVars, deviceVars>>

HostStep ==
  \/ Read \/ ReadDone \/ Open \/ NotFound \/ Rebooted \/ HardReboot
  \/ SkipBlock \/ WriteBlock \/ BlockDone \/ Boot \/ BootDone \/ SendPacket

-----------------------------------------------------------------------------
(* The device.  When it goes off the bus, the loader's handle goes stale.  *)

HandleAfter == handle' = IF handle = "open" /\ ~ Attached' THEN "stale" ELSE handle

Beside == UNCHANGED <<hexVars, hpc, addr, waited, optionVars, outgoing, outcome>>

Device == DeviceStep /\ HandleAfter /\ Beside

\* The user's switch and button, and the application he programmed.
Supply == (PowerOn \/ PowerOff \/ ApplicationFails) /\ HandleAfter /\ Beside

Next == Start \/ HostStep \/ TransferFails \/ Device \/ Supply

Spec == Init /\ [][Next]_vars

\* The bootloader goes on as long as it has power, and looks at its flag once
\* a second however many commands come; the loader goes on, and its transfers
\* time out.  Nothing makes the user do anything.
FairSpec ==
  /\ Spec
  /\ WF_vars(Device) /\ SF_vars(LoopExit /\ HandleAfter /\ Beside)
  /\ WF_vars(HostStep) /\ WF_vars(TransferFails)

-----------------------------------------------------------------------------
HostLocations == {"exited", "reading", "opening", "rebooting", "reboot_write",
                  "programming", "writing", "booting"}

\* Every variable stays in its range: the loader at a block of the part or at
\* its end, the device at a page of it, no more cells than a page has, and a
\* transfer only while a device is or was open.
TypeOK ==
  /\ HexTypeOK /\ BootTypeOK
  /\ hpc \in HostLocations
  /\ addr \in 0 .. code_size /\ addr % BLOCK = 0
  /\ waited \in BOOLEAN /\ wait_for_device_to_appear \in BOOLEAN
  /\ hard_reboot_device \in BOOLEAN
  /\ handle \in {"none", "open", "stale"}
  /\ Transferring => handle # "none"
  /\ outgoing \in Seq(Seq(Nat)) /\ Len(outgoing) <= BLOCK
  /\ outcome \in {"none", "ok", "failed"}
  /\ hpc # "exited" => outcome = "none"

\* Programmed is what the file says: when the loader ends with success, every
\* cell that a data record of the file covers holds, in flash, the byte of the
\* last such record - if it is below code_size and not in the last block below
\* MAX_MEMORY_SIZE, the two places that the loader passes over in silence, and
\* if the part has not exactly 64 KiB.
ProgrammedAsFile ==
  outcome = "ok" /\ Agreed =>
    \A a \in Cells :
      (\E i \in 1 .. lineno - 1 : Writes(i, a)) /\ a < code_size
        /\ PageBase(a) + BLOCK < LIMIT
      => flash[a] = ByteOf(LastWriter(lineno, a), a)

-----------------------------------------------------------------------------
(* The update as an abstract one.  What it wants is known when the file has *)
(* been read; the page that "reboot" names on a part is its scratch.  Of    *)
(* the memory of a part of exactly 64 KiB nothing is promised.              *)

CONSTANT KEEP   \* no wish for an address

ASSUME KeepAssumption == KEEP \notin VALUES

Wanted(a) ==
  IF Agreed /\ parse = "read" /\ a < code_size /\ Used(PageBase(a))
  THEN GetData(PageBase(a), BLOCK)[a % BLOCK]
  ELSE KEEP

Addresses   == UNION {0 .. c - 1 : c \in CODE_SIZES}
RebootPages == UNION {Page(AddressOn(c, REBOOT_WORD)) : c \in CODE_SIZES}
InMemory(a) == Agreed /\ a < code_size

Update == INSTANCE FlashUpdate WITH
  Addresses <- Addresses,
  Values    <- VALUES,
  Keep      <- KEEP,
  Scratch   <- RebootPages,
  memory    <- [a \in Addresses |-> IF InMemory(a) THEN flash[a] ELSE ERASED],
  wanted    <- [a \in Addresses |-> Wanted(a)],
  result    <- outcome

\* Loader and bootloader together are such an update, whatever packet, transfer
\* or supply is lost and whenever the loader is started again: a page without
\* data in the file keeps its old contents, no update that did not get through
\* is reported as success, and nothing changes after success.
UpdateRefinement == Update!Spec

-----------------------------------------------------------------------------
\* The start command is obeyed: once RunBootloader is cleared the application
\* runs, unless the supply is cut or the bootloader is left in the middle of
\* another command - whatever the button does.
StartCommandRuns ==
  ~ RunBootloader /\ dpc # "off" ~> dpc \in {"app", "off"} \/ Waiting

\* A loader that found its device comes to an end, also when the device hangs
\* or goes away.
LoaderEnds == handle # "none" ~> hpc = "exited"
=============================================================================
