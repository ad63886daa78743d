------------------------------- MODULE MCTimer ------------------------------
(* TLC instance of Timer: a short period, and waits of several of them.    *)
EXTENDS Timer

Waits == {-1, 0, 5}
=============================================================================
