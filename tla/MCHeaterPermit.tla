---------------------------- MODULE MCHeaterPermit ----------------------------
EXTENDS HeaterPermit

\* Uptimes below half the clock's range, from the boot on.
EarlyStarts == {0, 2}
=============================================================================
