---------------------------- MODULE MCEventTimer ----------------------------
EXTENDS EventTimer

CONSTANTS t, u

MCOneTimer == {t}
MCTimers   == {t, u}

=============================================================================
