--------------------------- MODULE MCAcquisition ---------------------------
EXTENDS Acquisition
=============================================================================
