---------------------------- MODULE MCDhcp4Srv -----------------------------
(* Small instances of Dhcp4Srv for TLC. *)
EXTENDS Dhcp4Srv

\* Two pools, three addresses; the last address of the prefix is in a pool.
ThreeAddresses ==
    [prefix |-> 0, size |-> 4, pools |-> <<[first |-> 2, last |-> 3], [first |-> 1, last |-> 1]>>]

\* Two pools, two addresses; the last address of the prefix is in none.
TwoAddresses ==
    [prefix |-> 0, size |-> 4, pools |-> <<[first |-> 2, last |-> 2], [first |-> 1, last |-> 1]>>]

\* Device 2 has two network cards.
TwoDevices == 1..2
ThreeDevices == 1..3
Cards == [d \in Device |-> IF d = 2 THEN {2, 9} ELSE {d}]
OneCard == [d \in Device |-> {d}]
FourDevices == 1..4
ClientIds == [d \in Device |-> 4 - d]
SomeClientIds == [d \in Device |-> IF d = 1 THEN 0 ELSE 5 - d]
=============================================================================
