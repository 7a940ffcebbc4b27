----------------------------- MODULE MCSensorApp -----------------------------
EXTENDS SensorApp
==============================================================================
