------------------------------- MODULE MCAplay -------------------------------
\* Aplay with short files and chunks; a deadlock is the end of the program, or
\* the end of the device's stream.
EXTENDS Aplay
=============================================================================
