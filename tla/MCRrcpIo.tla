----------------------------- MODULE MCRrcpIo -----------------------------
(***************************************************************************)
(* RrcpIo on one ordinary register, one read-only register, the key        *)
(* register and the reset register, with two values.                       *)
(***************************************************************************)
EXTENDS RrcpIo

CONSTANTS default, other

\* The EEPROM holds the default in every register.
MCBootRegs == [r \in Readable |-> default]
=============================================================================
