----------------------------- MODULE Bootloader -----------------------------
(***************************************************************************)
(* The HID bootloader (BootloaderHID.c) and the control endpoint it reads  *)
(* its commands from.                                                      *)
(*                                                                         *)
(* A command is a control request with one report: a word that names a     *)
(* page and the page's contents, or the start command.  A cell of flash is *)
(* a byte, of which a page has BLOCK; the code reads and fills two at a    *)
(* time, the model one.  Flash survives everything; a page being erased or *)
(* written is TORN until the operation is done.                            *)
(***************************************************************************)
EXTENDS Integers, Sequences

CONSTANTS
  BLOCK,       \* SPM_PAGESIZE: 128, or 256 for parts of 64 KiB and more
  CODE_SIZES,  \* flash sizes of the parts that have such pages
  SIXTEEN,     \* 0x10000: one more than the largest 16-bit number
  VALUES       \* contents of a flash cell

VARIABLES
  code_size,                \* of the part at hand
  \* the control endpoint
  rxstpi,                   \* a SETUP packet waits
  rxouti, bank,             \* an OUT packet waits; words of it not yet read
  zlp,                      \* the status packet is in the IN bank
  \* the bootloader
  dpc,                      \* where it is
  flash,
  buffer,                   \* the page buffer of the SPM unit
  page_address, page_word,  \* PageAddress, PageWord
  RunBootloader, MagicBootKey,
  wdrf,                     \* the last reset was the watchdog's
  pe2                       \* the button is held

pipeVars == <<rxstpi, rxouti, bank, zlp>>
pageVars == <<flash, buffer, page_address, page_word>>
bootVars == <<RunBootloader, MagicBootKey, wdrf, pe2, code_size>>
deviceVars == <<pipeVars, dpc, pageVars, bootVars>>

CONSTANTS ERASED, TORN, OLD   \* 0xFF; unspecified; the former application

ASSUME BootAssumption ==
  /\ BLOCK \in Nat \ {0} /\ SIXTEEN \in Nat \ {0}
  /\ CODE_SIZES \subseteq Nat \ {0} /\ \A c \in CODE_SIZES : c % BLOCK = 0
  /\ {ERASED, TORN, OLD} \subseteq VALUES

Words == 0 .. code_size - 1

\* A page of one value.
AllOf(v) == [k \in 0 .. BLOCK - 1 |-> v]

MagicKeys == {"magic", "other"}

\* 0xFFFF.  It is compared with the word, not with the address made of it, and
\* is no page's word: a part of less than 64 KiB has no such address, a larger
\* one not so many pages.
CONSTANT COMMAND_STARTAPPLICATION

ASSUME StartAssumption ==
  /\ COMMAND_STARTAPPLICATION = SIXTEEN - 1
  /\ \A c \in CODE_SIZES : c <= BLOCK * COMMAND_STARTAPPLICATION

Locations == {"off", "reset", "loop", "command", "erase", "fill",
              "write", "finish", "leave", "watchdog", "app"}

BootTypeOK ==
  /\ code_size \in CODE_SIZES
  /\ rxstpi \in BOOLEAN /\ rxouti \in BOOLEAN /\ zlp \in BOOLEAN
  /\ bank \in Seq(Nat \cup VALUES)
  /\ dpc \in Locations
  /\ flash \in [Words -> VALUES]
  /\ buffer \in [0 .. BLOCK - 1 -> VALUES]
  /\ page_address \in Words /\ page_word \in 0 .. BLOCK
  /\ RunBootloader \in BOOLEAN /\ MagicBootKey \in MagicKeys
  /\ wdrf \in BOOLEAN /\ pe2 \in BOOLEAN

BootInit ==
  /\ code_size \in CODE_SIZES
  /\ rxstpi = FALSE /\ rxouti = FALSE /\ bank = << >> /\ zlp = FALSE
  /\ dpc = "off"
  /\ flash = [a \in Words |-> OLD]
  /\ buffer = AllOf(ERASED)
  /\ page_address = 0 /\ page_word = 0
  /\ RunBootloader = TRUE /\ MagicBootKey = "other"
  /\ wdrf = FALSE /\ pe2 = FALSE

\* On the bus, as the host sees it.
Attached == dpc \in {"loop", "command", "erase", "fill", "write", "finish"}

\* Waiting for a packet in the middle of a command, without a timeout.
Waiting == ~ rxouti /\ dpc \in {"command", "fill"}

-----------------------------------------------------------------------------
(* Reset: the jump check, the set-up, and what the button chooses.         *)

ResetPipe ==
  /\ rxstpi' = FALSE /\ rxouti' = FALSE /\ bank' = << >> /\ zlp' = FALSE

\* RAM comes up with anything in it, but the reset was not the watchdog's.
PowerOn ==
  /\ dpc = "off"
  /\ dpc' = "reset" /\ MagicBootKey' \in MagicKeys /\ pe2' \in BOOLEAN
  /\ UNCHANGED <<pipeVars, pageVars, RunBootloader, wdrf, code_size>>

\* The supply goes at any point; only the flash keeps what it has.
PowerOff ==
  /\ dpc # "off"
  /\ dpc' = "off"
  /\ ResetPipe
  /\ buffer' = AllOf(ERASED) /\ page_address' = 0 /\ page_word' = 0
  /\ RunBootloader' = TRUE /\ MagicBootKey' = "other" /\ wdrf' = FALSE /\ pe2' = FALSE
  /\ UNCHANGED <<flash, code_size>>

\* SetupHardware sets PE2's bit in DDRE, which makes the pin an output that is
\* driven high, against its comment ("button as input pulled high"): a button
\* that is held works against the driver, and may be read as held or not.
Held == IF pe2 THEN BOOLEAN ELSE {FALSE}

\* Application_Jump_Check: the key counts once, and only after a watchdog
\* reset.  Otherwise SetupHardware, and the button chooses.  The key is not read
\* again before it is written.
Restart ==
  /\ dpc = "reset"
  /\ \E held \in Held :
       dpc' = IF wdrf /\ MagicBootKey = "magic" THEN "app"
              ELSE IF held THEN "loop" ELSE "leave"
  /\ MagicBootKey' = "other"
  /\ wdrf' = (wdrf /\ MagicBootKey = "magic")
  /\ UNCHANGED <<pipeVars, pageVars, RunBootloader, pe2, code_size>>

\* The flag is looked at between two blinks: commands may still come before.
LoopExit ==
  /\ dpc = "loop" /\ ~ RunBootloader
  /\ dpc' = "leave"
  /\ UNCHANGED <<pipeVars, pageVars, bootVars>>

Mut_LeaveWithoutKey ==
  /\ dpc = "leave"
  /\ dpc' = "watchdog"
  /\ ResetPipe
  /\ UNCHANGED <<pageVars, RunBootloader, MagicBootKey, wdrf, pe2, code_size>>

\* USB_Detach, the key, the watchdog.
Leave ==
  /\ dpc = "leave"
  /\ MagicBootKey' = "magic"
  /\ dpc' = "watchdog"
  /\ ResetPipe
  /\ UNCHANGED <<pageVars, RunBootloader, wdrf, pe2, code_size>>

WatchdogReset ==
  /\ dpc = "watchdog"
  /\ dpc' = "reset" /\ wdrf' = TRUE /\ RunBootloader' = TRUE
  /\ UNCHANGED <<pipeVars, pageVars, MagicBootKey, pe2, code_size>>

\* The jump leaves the watchdog running: the application has to stop it, and
\* one that was not programmed completely may not.
ApplicationFails ==
  /\ dpc = "app"
  /\ \E a \in Words : flash[a] \in {ERASED, TORN}
  /\ dpc' = "reset" /\ wdrf' = TRUE
  /\ UNCHANGED <<pipeVars, pageVars, RunBootloader, MagicBootKey, pe2, code_size>>

-----------------------------------------------------------------------------
(* EVENT_USB_Device_ControlRequest, from USB_USBTask.                      *)

SetReport ==
  /\ dpc = "loop" /\ rxstpi
  /\ rxstpi' = FALSE
  /\ dpc' = "command"
  /\ UNCHANGED <<rxouti, bank, zlp, pageVars, bootVars>>

\* FLASHEND > 0xFFFF: the word counts units of 256 bytes, which is the page
\* size of these parts.  What is beyond the part's flash is somewhere in it for
\* the SPM unit, which decodes no more of an address than the part has.
AddressOn(size, word) == (IF size > SIXTEEN THEN BLOCK * word ELSE word) % size

DeviceAddress(word) == AddressOn(code_size, word)

PageBase(a) == a - (a % BLOCK)
Page(a)     == PageBase(a) .. PageBase(a) + BLOCK - 1

SetPage(a, content) ==
  flash' = [w \in Words |-> IF w \in Page(a) THEN content[w - PageBase(a)] ELSE flash[w]]

\* A page's word or the start command; a page's word begins the erasure.
ReadCommand ==
  /\ dpc = "command" /\ rxouti
  /\ bank' = Tail(bank)
  /\ IF Head(bank) = COMMAND_STARTAPPLICATION
     THEN /\ RunBootloader' = FALSE
          /\ dpc' = "finish"
          /\ UNCHANGED pageVars
     ELSE /\ page_address' = DeviceAddress(Head(bank))
          /\ page_word' = 0
          /\ SetPage(DeviceAddress(Head(bank)), AllOf(TORN))
          /\ dpc' = "erase"
          /\ UNCHANGED <<buffer, RunBootloader>>
  /\ UNCHANGED <<rxstpi, rxouti, zlp, MagicBootKey, wdrf, pe2, code_size>>

EraseDone ==
  /\ dpc = "erase"
  /\ SetPage(page_address, AllOf(ERASED))
  /\ dpc' = "fill"
  /\ UNCHANGED <<pipeVars, buffer, page_address, page_word, bootVars>>

\* The packet is used up: acknowledge it and wait for the next.
NextPacket ==
  /\ dpc = "fill" /\ page_word < BLOCK
  /\ rxouti /\ bank = << >>
  /\ rxouti' = FALSE
  /\ UNCHANGED <<rxstpi, bank, zlp, dpc, pageVars, bootVars>>

FillWord ==
  /\ dpc = "fill" /\ page_word < BLOCK
  /\ rxouti /\ bank # << >>
  /\ bank' = Tail(bank)
  /\ buffer' = [buffer EXCEPT ![(page_address + page_word) % BLOCK] = Head(bank)]
  /\ page_word' = page_word + 1
  /\ UNCHANGED <<rxstpi, rxouti, zlp, dpc, flash, page_address, bootVars>>

WritePage ==
  /\ dpc = "fill" /\ page_word = BLOCK
  /\ SetPage(page_address, AllOf(TORN))
  /\ dpc' = "write"
  /\ UNCHANGED <<pipeVars, buffer, page_address, page_word, bootVars>>

\* Writing empties the page buffer.
WriteDone ==
  /\ dpc = "write"
  /\ SetPage(page_address, buffer)
  /\ buffer' = AllOf(ERASED)
  /\ dpc' = "finish"
  /\ UNCHANGED <<pipeVars, page_address, page_word, bootVars>>

\* Endpoint_ClearOUT and Endpoint_ClearStatusStage; the handler's locals end.
Finish ==
  /\ dpc = "finish"
  /\ rxouti' = FALSE /\ bank' = << >>
  /\ zlp' = TRUE
  /\ dpc' = "loop"
  /\ page_address' = 0 /\ page_word' = 0
  /\ UNCHANGED <<rxstpi, flash, buffer, bootVars>>

DeviceStep ==
  \/ Restart \/ LoopExit \/ Leave \/ WatchdogReset
  \/ SetReport \/ ReadCommand \/ EraseDone \/ NextPacket \/ FillWord
  \/ WritePage \/ WriteDone \/ Finish
=============================================================================
