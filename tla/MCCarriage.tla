---------------------------- MODULE MCCarriage ----------------------------
(* A small instance of Carriage for TLC: windows of two, turns of four.    *)
EXTENDS Carriage
=============================================================================
