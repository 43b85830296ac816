------------------------------ MODULE MCHidOut ------------------------------
EXTENDS HidOut

MCHalves == {<<"empty", "led">>, <<"midi", "midi">>}
MCLedOnly == {<< >>, <<"led">>}
=============================================================================
