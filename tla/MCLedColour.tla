---------------------------- MODULE MCLedColour ----------------------------
EXTENDS LedColour

\* Three mixtures that every truncation touches, the last of them too bright
\* beside the red of the first.
MCColours   == {<<254, 17, 1>>, <<51, 68, 85>>, <<0, 200, 255>>}
MCSlots     == {0}
\* Three controllers at 43 of 127 are just past the limit.
MCChanges   == {43}
\* No pressure, the lower range, the first and the largest of the upper one.
MCSums      == {0, 300, 512, 24528}
MCGarbage   == {0, 65535}
=============================================================================
