----------------------------- MODULE MCMonitor -----------------------------
(* Monitor with two loops: the one that checks, and one that works.        *)
EXTENDS Monitor

Loops == <<"watch", "monitor">>
============================================================================
