----------------------------- MODULE HidReport -----------------------------
(* What the HID IN report of SphereWare promises its writers: every pad has *)
(* a pressure and a velocity, the dials add up until they are collected,    *)
(* and MIDI messages queue up, seven at most, until they are collected.     *)
(* There are no bytes, halves and counters here; HidIn implements it.       *)
EXTENDS Integers, Sequences

CONSTANTS PADS, DIALS, PRESSURES, VELOCITIES, BUTTONS, MESSAGES,
          LAST_PAD,   \* the pad whose high byte GenericHID_Clear leaves alone
          CAPACITY    \* 7 messages

VARIABLES pads, buttons, dials, queue, collected

vars == <<pads, buttons, dials, queue, collected>>

Init ==
  /\ pads = [p \in PADS |-> [pressure |-> 0, velocity |-> 0]]
  /\ buttons = 0
  /\ dials = [d \in DIALS |-> 0]
  /\ queue = << >>
  /\ collected = << >>

WritePad(p, pressure, velocity) ==
  /\ pads' = [pads EXCEPT ![p] = [pressure |-> pressure, velocity |-> velocity]]
  /\ UNCHANGED <<buttons, dials, queue, collected>>

WritePressure(p, pressure) ==
  /\ pads' = [pads EXCEPT ![p].pressure = pressure]
  /\ UNCHANGED <<buttons, dials, queue, collected>>

\* Clearing takes a pad's velocity and the last bit of its pressure first, the
\* rest of the pressure later.
ClearVelocity(p) ==
  /\ pads' = [pads EXCEPT ![p] = [pressure |-> 2 * (@.pressure \div 2),
                                  velocity |-> 0]]
  /\ UNCHANGED <<buttons, dials, queue, collected>>

ClearPressure(p) ==
  /\ p # LAST_PAD
  /\ pads' = [pads EXCEPT ![p].pressure = @ % 2]
  /\ UNCHANGED <<buttons, dials, queue, collected>>

WriteButtons(b) ==
  /\ buttons' = b
  /\ UNCHANGED <<pads, dials, queue, collected>>

Turn(d, amount) ==
  /\ dials' = [dials EXCEPT ![d] = (@ + amount) % 256]
  /\ UNCHANGED <<pads, buttons, queue, collected>>

\* A message that finds the queue full is lost.
Enqueue(m) ==
  /\ Len(queue) < CAPACITY
  /\ queue' = Append(queue, m)
  /\ UNCHANGED <<pads, buttons, dials, collected>>

\* The host takes the whole queue, in order, and the dials' sums.
Collect ==
  /\ collected' = queue
  /\ queue' = << >>
  /\ buttons' = 0
  /\ dials' = [d \in DIALS |-> 0]
  /\ UNCHANGED pads

Next ==
  \/ \E p \in PADS : \/ \E n \in PRESSURES, v \in VELOCITIES : WritePad(p, n, v)
                     \/ \E n \in PRESSURES : WritePressure(p, n)
                     \/ ClearVelocity(p) \/ ClearPressure(p)
  \/ \E b \in BUTTONS : WriteButtons(b)
  \/ \E d \in DIALS, amount \in {-1, 1} : Turn(d, amount)
  \/ \E m \in MESSAGES : Enqueue(m)
  \/ Collect

Spec == Init /\ [][Next]_vars
=============================================================================
