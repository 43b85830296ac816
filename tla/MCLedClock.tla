----------------------------- MODULE MCLedClock -----------------------------
EXTENDS LedClock

\* One that runs the fade step out in eight rounds.
MCFastTempo  == {800}
\* Normal, static and neither.
MCModes      == {0, 1, 7}
MCStatuses   == {0, 1}
\* A round may go from no pressure at all past the mid colour.
MCPressures  == {None, Upper}
\* Start, stop and timing; 251 (continue) is start.
MCMidi       == {248, 250, 252}
=============================================================================
