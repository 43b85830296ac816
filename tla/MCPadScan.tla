----------------------------- MODULE MCPadScan -----------------------------
EXTENDS PadScan

\* A pad at rest, pressed softly (between its normal and its raised
\* threshold) and pressed hard enough to saturate the pressure filter.
MCAdcValues == {-395, -250, 512}
MCSeValues  == {100, 300}
MCR2RValues == {3, 9}
MCOneR2RValue == {9}
MCTwoAdcValues == {-395, 512}
=============================================================================
