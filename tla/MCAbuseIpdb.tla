----------------------------- MODULE MCAbuseIpdb -----------------------------
(* A small instance of AbuseIpdb for TLC: the trie is full as soon as the old *)
(* and the new list are in it.                                                *)
EXTENDS AbuseIpdb

Want(t, a, o) == [t |-> t, a |-> a, o |-> o]
MCWants == {Want(1, TRUE, FALSE), Want(2, TRUE, TRUE), Want(2, FALSE, FALSE)}
MCInitWant == Want(1, TRUE, FALSE)
=============================================================================
