------------------------------ MODULE MCEeprom ------------------------------
(***************************************************************************)
(* Eeprom on two registers of two bytes; what "write memory" saves and the *)
(* file to copy differ in every byte.                                      *)
(***************************************************************************)
EXTENDS Eeprom

CONSTANTS x, y

MCRunning == [a \in Addrs |-> IF a \in {0, 3} THEN x ELSE y]
MCDefaults == [a \in Addrs |-> IF a = 1 THEN x ELSE y]
MCIdentities == {[a \in Addrs |-> IF a = 0 THEN x ELSE y], [a \in Addrs |-> x]}
MCFile == [a \in Addrs |-> IF a \in {0, 3} THEN y ELSE x]
=============================================================================
