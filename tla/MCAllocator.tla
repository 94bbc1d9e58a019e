---------------------------- MODULE MCAllocator ----------------------------
(* Small instances of Allocator for TLC. *)
EXTENDS Allocator

CONSTANTS
    Bits,     \* width of an address
    MaxPools  \* most pools of a subnet

Space == 2^Bits

\* Every subnet with at most MaxPools pools, the ones outside it included.
SmallSubnets ==
    [prefix : IOAddress, size : {2^k : k \in 0..Bits},
     pools : UNION {[1..n -> Pool] : n \in 0..MaxPools}]
=============================================================================
