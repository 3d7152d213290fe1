------------------------------- MODULE MCScan -------------------------------
(***************************************************************************)
(* Scan on a network of three switches: a answers hello on two paths, one  *)
(* below b and one below c, and answers REP; b answers REP only; c answers *)
(* nothing.                                                                *)
(***************************************************************************)
EXTENDS Scan

CONSTANTS a, b, c

Hello(m, uplink, via) ==
    [kind |-> "hello", src |-> m, uplink |-> uplink, via |-> via]

MCHelloAnswers == {Hello(a, b, 1), Hello(a, c, 2)}
MCRepMacs == {a, b}
MCZeroMacs == {NoMac}
=============================================================================
