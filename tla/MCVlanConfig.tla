---------------------------- MODULE MCVlanConfig ----------------------------
(***************************************************************************)
(* VlanConfig on two ports and a table of two slots, so that slots are     *)
(* reused and run out.  Four scenarios share the bounds out: more VLANs    *)
(* than slots; an edit that waits for a commit, of VLAN 1 too; lists of    *)
(* two; a commit that breaks.                                              *)
(***************************************************************************)
EXTENDS VlanConfig

Scenario(vs, l, e, t) == [vids |-> vs, list |-> l, edits |-> e, torn |-> t]

MCScenarios == {Scenario({1, 2, 3}, 1, 0, 0),
                Scenario({1, 2}, 1, 1, 0),
                Scenario({2, 3}, 2, 1, 0),
                Scenario({2}, 1, 0, 1)}

MCWholeTable == {Scenario({1, 2, 3}, 1, 0, 0)}
=============================================================================
