------------------------------ MODULE Controls ------------------------------
(***************************************************************************)
(* The three buttons and two rotary encoders of an elite unit              *)
(* (ButtonsAndDials.c): main reads one multiplexer position after the      *)
(* other with interrupts disabled, once per visit of a pad; the timer      *)
(* interrupt takes the button byte and the dials to the host.  Contacts    *)
(* bounce; the user presses, releases and turns at any time.               *)
(***************************************************************************)
EXTENDS Integers

CONSTANTS
  PRESSED,   \* the buttons that are used, by multiplexer position
  TURNED,    \* the encoders that are used
  BYTE       \* 256: dials count modulo this

SW3 == 0
SW2 == 1
SW4 == 3
Switches == {SW3, SW2, SW4}
Encoders == {0, 1}
Position == [e \in Encoders |-> IF e = 0 THEN 2 ELSE 4]     \* ENC1B, ENC2B
Bit == [s \in Switches |-> IF s = SW2 THEN 3 ELSE IF s = SW3 THEN 2 ELSE 1]

ASSUME ControlsAssumption ==
  /\ PRESSED \subseteq Switches /\ TURNED \subseteq Encoders
  /\ BYTE \in Nat /\ BYTE > 2

VARIABLES
  \* main and the report
  mux,                    \* the position to be read, or 5: interrupts enabled
  buttons,                \* bits of the static variable: 0 is the elite bit
  dial_state,             \* the last three different pin states, oldest first
  being_played,           \* the entries after the pads', by position
  button_byte, dial,      \* hid_in_buffer[97] and [98], [99]
  \* the user, the contacts and the host
  held, bounces, shaft,   \* shaft: quarters of a step, 0 at a detent
  reported,
  \* history
  fresh,                  \* buttons pressed after their release had been read
  unread, sure, way, gained

mainVars == <<mux, buttons, dial_state, being_played>>
byteVars == <<button_byte, dial>>
userVars == <<held, bounces, shaft, fresh>>
pastVars == <<unread, sure, way, gained>>
vars == <<mainVars, byteVars, userVars, reported, pastVars>>

Ways == {-1, 1}

\* After main has read position 5, where an elite unit pulls the pin down; with
\* the device at rest and not yet read.
Init ==
  /\ mux = 5
  /\ buttons \in {{}, {0}}
  /\ dial_state = [e \in Encoders |-> <<0, 0, 0>>]
  /\ being_played = [k \in 0 .. 4 |-> FALSE]
  /\ button_byte = 0 .. 7 /\ dial = [e \in Encoders |-> 0]
  /\ held = {} /\ bounces = {} /\ shaft = [e \in Encoders |-> 0] /\ fresh = {}
  /\ reported = {}
  /\ unread = [e \in Encoders |-> TRUE] /\ sure = [e \in Encoders |-> FALSE]
  /\ way = [e \in Encoders |-> 1] /\ gained = [e \in Encoders |-> 0]

-----------------------------------------------------------------------------
(* The user                                                                *)

Press(s) ==
  /\ s \notin held
  /\ held' = held \cup {s} /\ bounces' = bounces \cup {s}
  /\ fresh' = IF Bit[s] \in buttons THEN fresh \ {s} ELSE fresh \cup {s}
  /\ UNCHANGED <<mainVars, byteVars, shaft, reported, pastVars>>

Release(s) ==
  /\ s \in held
  /\ held' = held \ {s} /\ bounces' = bounces \cup {s}
  /\ UNCHANGED <<mainVars, byteVars, shaft, fresh, reported, pastVars>>

Settle(s) ==
  /\ s \in bounces
  /\ bounces' = bounces \ {s}
  /\ UNCHANGED <<mainVars, byteVars, held, shaft, fresh, reported, pastVars>>

\* A stretch is sure while every quarter of it is read and it goes one way.
Turn(e, d) ==
  /\ shaft' = [shaft EXCEPT ![e] = (@ + d) % 4]
  /\ unread' = [unread EXCEPT ![e] = TRUE]
  /\ sure' = [sure EXCEPT ![e] = ~ unread[e] /\ (shaft[e] = 0 \/ (@ /\ d = way[e]))]
  /\ way' = [way EXCEPT ![e] = IF sure'[e] THEN d ELSE 1]
  /\ gained' = [gained EXCEPT ![e] = IF sure'[e] /\ shaft[e] # 0 THEN @ ELSE 0]
  /\ UNCHANGED <<mainVars, byteVars, held, bounces, fresh, reported>>

-----------------------------------------------------------------------------
(* ButtonsAndDials_Read for the positions 0 .. 4                           *)

\* The call's last line: no entry is ever set on a unit that is not elite.
Played(k, used) == being_played' = [being_played EXCEPT ![k] = used /\ 0 \in buttons]

Mut_NoDelay(s) ==
  /\ mux = s
  /\ \E low \in IF s \in bounces THEN BOOLEAN ELSE {s \in held} :
       /\ buttons' = (buttons \ {Bit[s]}) \cup (IF low THEN {Bit[s]} ELSE {})
       /\ Played(s, low)
       /\ bounces' = bounces
  /\ button_byte' = buttons'
  /\ mux' = mux + 1
  /\ UNCHANGED <<dial_state, dial, held, shaft, fresh, reported, pastVars>>

Mut_WriteOnPress(s) ==
  /\ mux = s
  /\ \E low \in IF s \in bounces THEN BOOLEAN ELSE {s \in held} :
       /\ buttons' = (buttons \ {Bit[s]}) \cup (IF low THEN {Bit[s]} ELSE {})
       /\ Played(s, low)
       /\ bounces' = IF low /\ Bit[s] \notin buttons THEN {} ELSE bounces
  /\ button_byte' = IF buttons' # buttons THEN buttons' ELSE button_byte
  /\ mux' = mux + 1
  /\ UNCHANGED <<dial_state, dial, held, shaft, fresh, reported, pastVars>>

Mut_OtherBit(s) ==
  /\ mux = s
  /\ \E low \in IF s \in bounces THEN BOOLEAN ELSE {s \in held} :
       /\ buttons' = (buttons \ {Bit[s]}) \cup (IF low THEN {Bit[s] + 1} ELSE {})
       /\ Played(s, low)
       /\ bounces' = IF low /\ Bit[s] \notin buttons THEN {} ELSE bounces
  /\ button_byte' = buttons'
  /\ mux' = mux + 1
  /\ UNCHANGED <<dial_state, dial, held, shaft, fresh, reported, pastVars>>

\* A button that is seen to go down is followed by 25 ms of waiting: no contact
\* bounces that long.
ReadSwitch(s) ==
  /\ mux = s
  /\ \E low \in IF s \in bounces THEN BOOLEAN ELSE {s \in held} :
       /\ buttons' = (buttons \ {Bit[s]}) \cup (IF low THEN {Bit[s]} ELSE {})
       /\ Played(s, low)
       /\ bounces' = IF low /\ Bit[s] \notin buttons THEN {} ELSE bounces
  /\ button_byte' = buttons'
  /\ mux' = mux + 1
  /\ UNCHANGED <<dial_state, dial, held, shaft, fresh, reported, pastVars>>

\* PD6 and the encoder's own pin, at the four quarters of a step.
Pins(quarter) == CASE quarter = 0 -> 3 [] quarter = 1 -> 2
                   [] quarter = 2 -> 0 [] quarter = 3 -> 1

Shift(e) == <<dial_state[e][2], dial_state[e][3], Pins(shaft[e])>>

Mut_Amount(history) == CASE history = <<3, 1, 0>> -> -1
                         [] history = <<0, 2, 3>> -> 1
                         [] OTHER -> 0

Amount(history) == CASE history = <<3, 1, 0>> -> -1
                     [] history = <<3, 2, 0>> -> 1
                     [] OTHER -> 0

EncoderMoved(e) ==
  /\ mux = Position[e] /\ Pins(shaft[e]) # dial_state[e][3]
  /\ dial_state' = [dial_state EXCEPT ![e] = Shift(e)]
  /\ LET amount == Amount(Shift(e)) IN
     /\ dial' = [dial EXCEPT ![e] = (@ + amount) % BYTE]
     /\ Played(mux, amount # 0)
     /\ gained' = [gained EXCEPT ![e] = IF sure[e] THEN @ + amount ELSE 0]
  /\ unread' = [unread EXCEPT ![e] = FALSE]
  /\ mux' = mux + 1
  /\ UNCHANGED <<buttons, button_byte, userVars, reported, sure, way>>

\* The same pins: only the last line of the call has an effect.
EncoderStill(e) ==
  /\ mux = Position[e] /\ Pins(shaft[e]) = dial_state[e][3]
  /\ Played(mux, being_played[mux])
  /\ unread' = [unread EXCEPT ![e] = FALSE]
  /\ mux' = mux + 1
  /\ UNCHANGED <<buttons, dial_state, byteVars, userVars, reported, sure, way, gained>>

-----------------------------------------------------------------------------
(* Main's visit of a pad, Calibrate() and the interrupt                    *)

Visit ==
  /\ mux = 5
  /\ mux' = 0
  /\ UNCHANGED <<buttons, dial_state, being_played, byteVars, userVars, reported, pastVars>>

\* Calibrate() forgets what is played; GenericHID_Clear leaves these bytes.
Recalibrate ==
  /\ mux = 5
  /\ being_played' = [k \in 0 .. 4 |-> FALSE]
  /\ UNCHANGED <<mux, buttons, dial_state, byteVars, userVars, reported, pastVars>>

\* GenericHID_Task with a second half, which it clears.
Collect ==
  /\ mux = 5
  /\ reported' = button_byte
  /\ button_byte' = {} /\ dial' = [e \in Encoders |-> 0]
  /\ UNCHANGED <<mainVars, userVars, pastVars>>

User ==
  \/ \E s \in PRESSED : Press(s) \/ Release(s) \/ Settle(s)
  \/ \E e \in TURNED, d \in Ways : Turn(e, d)

Read ==
  \/ \E s \in Switches : ReadSwitch(s)
  \/ \E e \in Encoders : EncoderMoved(e) \/ EncoderStill(e)

Next == User \/ Read \/ Visit \/ Recalibrate \/ Collect

Spec == Init /\ [][Next]_vars

\* Main goes on; the timer's interrupt is pending until it is served; contacts
\* come to rest.
FairSpec ==
  /\ Spec
  /\ WF_vars(Read \/ Visit) /\ SF_vars(Collect)
  /\ \A s \in PRESSED : WF_vars(Settle(s))

-----------------------------------------------------------------------------
Histories == {<<a, b, c>> : a, b, c \in 0 .. 3}

\* Every variable stays in its range; a button has its own bit and nothing
\* writes the elite bit or a bit above the buttons' after the start.
TypeOK ==
  /\ mux \in 0 .. 5 /\ buttons \subseteq 0 .. 3
  /\ dial_state \in [Encoders -> Histories]
  /\ being_played \in [0 .. 4 -> BOOLEAN]
  /\ button_byte \subseteq 0 .. 7 /\ dial \in [Encoders -> 0 .. BYTE - 1]
  /\ held \subseteq Switches /\ bounces \subseteq Switches
  /\ shaft \in [Encoders -> 0 .. 3] /\ reported \subseteq 0 .. 7
  /\ fresh \subseteq Switches
  /\ unread \in [Encoders -> BOOLEAN] /\ sure \in [Encoders -> BOOLEAN]
  /\ way \in [Encoders -> Ways] /\ gained \in [Encoders -> {-1, 0, 1}]

\* One click per step: an encoder that is turned from one detent to the next, at
\* a rate main can follow, has counted once and in its direction - whatever was
\* turned half way and back, or too fast, before.
ClickPerStep ==
  \A e \in Encoders :
    sure[e] /\ ~ unread[e] /\ shaft[e] = 0 => gained[e] = way[e]

\* A press is read once: a button pressed after its release had been read, and
\* seen down, is not seen up until it is released, however its contact bounces
\* and whatever the other buttons do.
PressReadOnce ==
  [][\A s \in Switches :
       s \in held /\ s \in held' /\ s \in fresh /\ Bit[s] \in buttons
         => Bit[s] \in buttons']_vars

\* The host and the standby timer follow the user: a button held down is
\* reported again and again, although every report clears the byte, and an
\* encoder left at a detent no longer counts as played.
UseIsSeen ==
  /\ \A s \in Switches : <>[](s \in held) => []<>(Bit[s] \in reported)
  /\ \A e \in Encoders : <>[](shaft[e] = 0) => <>[](~ being_played[Position[e]])
=============================================================================
