------------------------------ MODULE MCSeqNet ------------------------------
\* SeqNet with a few peers, slots and events; it may wait for good.
EXTENDS SeqNet
=============================================================================
