------------------------------- MODULE MCLoopJob -------------------------------
EXTENDS LoopJob
================================================================================
