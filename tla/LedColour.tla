----------------------------- MODULE LedColour -----------------------------
(***************************************************************************)
(* The colours of the LED: what the host and MIDI set (LED.c:204-305) and  *)
(* what main makes of them by pressure (SphereWare.c:434-510).             *)
(*                                                                         *)
(* The host's colours and the static colour are written in the timer       *)
(* interrupt.  Main reads the host's channel by channel with interrupts    *)
(* on, the static one in a cli region.  The arithmetic, which the code     *)
(* does in floating point, is exact here and ends in the same truncations. *)
(***************************************************************************)
EXTENDS Integers

CONSTANTS
  COLOURS,  \* <<red, green, blue>> of HID OUT reports, 0 .. 255 each
  SLOTS,    \* which of the colours they set: 0 min, 1 mid, 2 max
  CHANGES,  \* values of CC 21 to 23, 0 .. 127
  SUMS,     \* led_sum: pressures of all pads, 48 * 511 at most
  GARBAGE   \* what an uninitialized red_new, green_new, blue_new may hold

LIMIT    == 1023
Channels == 1 .. 3
Requests == (0 .. 255) \X (0 .. 255) \X (0 .. 255)
Words    == 0 .. 65535
Sums     == 0 .. 24528

ASSUME ColourAssumption  == COLOURS \subseteq Requests
ASSUME SlotAssumption    == SLOTS \subseteq 0 .. 2
ASSUME ChangeAssumption  == CHANGES \subseteq 0 .. 127
ASSUME SumAssumption     == SUMS \subseteq Sums
ASSUME GarbageAssumption == GARBAGE \subseteq Words

VARIABLES
  LED_Colour_Values, LED_Static_Colour_Values,
  pc,          \* of main: RoundStart, the channel it computes, RoundShow
  led_sum, prev_led_sum,
  by_pressure, \* LED_Pressure_Status as this round found it
  colour,   \* red_new, green_new, blue_new; 0 where not computed yet
  \* history
  asked,    \* the request behind each colour
  exposed   \* colour is a mixture of two requests or uninitialized

tables == <<LED_Colour_Values, LED_Static_Colour_Values, asked>>
main   == <<pc, led_sum, prev_led_sum, by_pressure, colour>>
vars   == <<tables, main, exposed>>

RoundStart == 0
RoundShow  == 4

Total(c) == c[1] + c[2] + c[3]

(***************************************************************************)
(* Colours with weights w in units of u/d, truncated; in excess of LIMIT,  *)
(* every channel gives up its share of the excess, itself truncated, first *)
(* (LED.c:235-252).  The total that is left is LIMIT and the fraction of   *)
(* the total before, so a channel is w[i] / W times LIMIT + f/d.           *)
(***************************************************************************)
Mut_Fit(w, u, d) ==
  LET W == Total(w) IN
  IF u * W <= LIMIT * d
  THEN [i \in Channels |-> (u * w[i]) \div d]
  ELSE LET excess == (u * W) \div d - LIMIT IN
       [i \in Channels |-> (u * w[i]) \div d - excess \div 3]

Fit(w, u, d) ==
  LET W == Total(w)
      f == (u * W) % d
  IN IF u * W <= LIMIT * d
     THEN [i \in Channels |-> (u * w[i]) \div d]
     ELSE [i \in Channels |-> (LIMIT * w[i] + (w[i] * f) \div d) \div W]

\* 1023/255 divided as integers.
Mut_ScaledColour(c) == Fit(c, 4, 1)

\* 1023/255 is 341/85.
ScaledColour(c) == Fit(c, 341, 85)

\* The changed channel is v * 1023/127, the others are what they were.
Mut_ScaledStatic(c, i, v) == [c EXCEPT ![i] = (LIMIT * v) \div 127]

ScaledStatic(c, i, v) ==
  Fit([j \in Channels |-> IF j = i THEN LIMIT * v ELSE 127 * c[j]], 1, 127)

Black == [i \in Channels |-> 0]
Default == [k \in 0 .. 2 |-> CASE k = 0 -> <<0, 0, 255>>
                               [] k = 1 -> <<0, 255, 0>>
                               [] k = 2 -> <<255, 0, 0>>]

Init ==
  /\ asked = Default
  /\ LED_Colour_Values = [k \in 0 .. 2 |-> ScaledColour(Default[k])]
  /\ LED_Static_Colour_Values = Black
  /\ pc = RoundStart /\ led_sum = 0 /\ prev_led_sum = 0 /\ by_pressure = TRUE
  /\ colour = Black
  /\ exposed = FALSE

-----------------------------------------------------------------------------
(* In the timer interrupt.                                                 *)

Reading == pc \in Channels

LED_Set_Colour_Values(k, c) ==
  /\ LED_Colour_Values' = [LED_Colour_Values EXCEPT ![k] = ScaledColour(c)]
  /\ asked' = [asked EXCEPT ![k] = c]
  /\ exposed' = (exposed \/ Reading)
  /\ UNCHANGED <<LED_Static_Colour_Values, main>>

LED_Set_Static_Colour(i, v) ==
  /\ LED_Static_Colour_Values' = ScaledStatic(LED_Static_Colour_Values, i, v)
  /\ UNCHANGED <<LED_Colour_Values, asked, main, exposed>>

-----------------------------------------------------------------------------
(* Main: the colour of a round.                                            *)

\* 456-492: the sum as a place in the lower or the upper range.
Doubled(sum) == IF sum > 0 THEN 2 * sum + 1 ELSE 0
Upper(sum)   == Doubled(sum) > LIMIT
Place(sum)   == IF ~Upper(sum) THEN Doubled(sum)
                ELSE IF Doubled(sum) - 1022 > LIMIT THEN LIMIT ELSE Doubled(sum) - 1022

Round ==
  /\ pc = RoundStart
  /\ led_sum' \in SUMS
  /\ by_pressure' \in BOOLEAN
  /\ pc' = 1
  /\ UNCHANGED <<tables, prev_led_sum, colour, exposed>>

\* from - place * ((from - to) / 1023.0)
Mut_Between(from, to, place) == (LIMIT * from - place * (from - to)) \div 1022

Between(from, to, place) == (LIMIT * from - place * (from - to)) \div LIMIT

Low(sum) == IF Upper(sum) THEN 1 ELSE 0

Faded(i) ==
  Between(LED_Colour_Values[Low(led_sum)][i], LED_Colour_Values[Low(led_sum) + 1][i],
          Place(led_sum))

\* In the upper range, the channels are set only if the round before had
\* pressure (493-502).
Uncomputed == by_pressure /\ Upper(led_sum) /\ prev_led_sum = 0

NewChannel(i) ==
  IF by_pressure /\ prev_led_sum > 0 THEN {Faded(i)}
  ELSE IF Uncomputed THEN GARBAGE
  ELSE {LED_Colour_Values[0][i]}

ReadChannel ==
  /\ Reading
  /\ \E n \in NewChannel(pc) : colour' = [colour EXCEPT ![pc] = n]
  /\ exposed' = (exposed \/ Uncomputed)
  /\ pc' = pc + 1
  /\ UNCHANGED <<tables, led_sum, prev_led_sum, by_pressure>>

\* 564, 584: LED_Set_Colour is called with colour; what the round computed is
\* gone after it.
Show ==
  /\ pc = RoundShow
  /\ prev_led_sum' = IF by_pressure THEN Place(led_sum) ELSE led_sum
  /\ led_sum' = 0 /\ colour' = Black /\ exposed' = FALSE
  /\ pc' = RoundStart
  /\ UNCHANGED <<tables, by_pressure>>

\* A round in static mode (567-577), which sends the static colour, or with
\* the LED off.
RoundElse ==
  /\ pc = RoundStart
  /\ prev_led_sum' \in SUMS
  /\ UNCHANGED <<tables, pc, led_sum, by_pressure, colour, exposed>>

Next ==
  \/ \E k \in SLOTS, c \in COLOURS : LED_Set_Colour_Values(k, c)
  \/ \E i \in Channels, v \in CHANGES : LED_Set_Static_Colour(i, v)
  \/ Round \/ ReadChannel \/ Show \/ RoundElse

Spec == Init /\ [][Next]_vars

-----------------------------------------------------------------------------
Colours == [Channels -> 0 .. LIMIT]

TypeOK ==
  /\ LED_Colour_Values \in [0 .. 2 -> Colours]
  /\ LED_Static_Colour_Values \in Colours
  /\ asked \in [0 .. 2 -> Requests]
  /\ pc \in RoundStart .. RoundShow /\ by_pressure \in BOOLEAN
  /\ led_sum \in Sums /\ prev_led_sum \in Sums
  /\ colour \in [Channels -> Words]
  /\ exposed \in BOOLEAN

\* LED.c:209-213: no colour the host or MIDI controllers set, in any sequence,
\* has channels that sum up to more than the LED may be sent.
TablesWithinLimit ==
  /\ \A k \in 0 .. 2 : Total(LED_Colour_Values[k]) <= LIMIT
  /\ Total(LED_Static_Colour_Values) <= LIMIT

\* LED.c:211-218: a colour is as bright as the limit allows, and scaling keeps
\* its proportions to within the truncation of a channel.
ColoursScaled ==
  \A k \in 0 .. 2 :
    LET a == asked[k]
        v == LED_Colour_Values[k]
    IN /\ Total(a) >= 255 => Total(v) > LIMIT - 3
       /\ \A i, j \in Channels : v[i] * a[j] - v[j] * a[i] \in (- a[j]) .. a[i]

\* Unless a round read colours that changed while it did, or none at all, what
\* it sends keeps to the limit, and every channel is between those of the two
\* colours that the pressure lies between.
RoundWithinLimit ==
  [][pc' = RoundShow /\ pc # RoundShow /\ ~exposed' =>
       /\ Total(colour') <= LIMIT
       /\ by_pressure => \A i \in Channels :
            LET a == LED_Colour_Values[Low(led_sum)][i]
                b == LED_Colour_Values[Low(led_sum) + 1][i]
            IN colour'[i] \in a .. b \cup b .. a]_vars
=============================================================================
