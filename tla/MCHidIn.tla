------------------------------ MODULE MCHidIn ------------------------------
EXTENDS HidIn

\* The last pad before the border of the two packets, the one across it, and
\* the one whose last byte GenericHID_Clear leaves.
MCEdgePads   == {30, 31, 47}
MCNone       == {}
MCOneDial    == {0}
\* Odd and even, low and high byte in use.
MCPressures  == {0, 511}
MCStrike     == {511}
MCVelocities == {0, 127}
MCOneMessage == {1}
MCButtons    == {8}
=============================================================================
