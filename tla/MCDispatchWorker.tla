-------------------------- MODULE MCDispatchWorker --------------------------
(* Three commands over one connection with two permits, whose requests start  *)
(* at least two ticks apart: a third request always meets a full gate.        *)
EXTENDS DispatchWorker

CONSTANTS c1, c2, c3, n1

MCConnectionOf == [c \in Commands |-> n1]
MCConcurrency == [n \in Connections |-> 2]
MCInterval == [n \in Connections |-> 2]
=============================================================================
