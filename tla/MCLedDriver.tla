---------------------------- MODULE MCLedDriver -----------------------------
EXTENDS LedDriver

MCColours == {<<0, 0>>, <<1, 0>>}
MCSetting == <<1, 1>>
=============================================================================
