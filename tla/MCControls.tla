----------------------------- MODULE MCControls -----------------------------
EXTENDS Controls

MCPressed == {SW2}
MCTurned == {1}
=============================================================================
