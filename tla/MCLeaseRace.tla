---------------------------- MODULE MCLeaseRace ----------------------------
(* Small instances of LeaseRace for TLC. *)
EXTENDS LeaseRace, TLC

TwoAddresses ==
    [prefix |-> 0, size |-> 4, pools |-> <<[first |-> 1, last |-> 2]>>]

\* Processes and devices are interchangeable.
Interchangeable == Permutations(Server) \cup Permutations(Device)
=============================================================================
