------------------------------ MODULE MCLoopThread ------------------------------
EXTENDS LoopThread
================================================================================
