------------------------------- MODULE Pools -------------------------------
(***************************************************************************)
(* Address pools and the order AllocEngine::IterativeAllocator tries their *)
(* addresses in.  A pool is a range of addresses.                          *)
(***************************************************************************)
EXTENDS Integers, Sequences

CONSTANT AddressSpace  \* number of addresses of the family (2^32, 2^128)

ASSUME AddressSpaceAssumption == AddressSpace \in Nat \ {0}

IOAddress == 0..AddressSpace - 1

\* Pool4 and Pool6 refuse a range that ends before it starts.
Pool == {p \in [first : IOAddress, last : IOAddress] : p.first <= p.last}

\* A subnet is a prefix, the number of addresses that its length stands for,
\* and its pools.
Subnet == [prefix : IOAddress, size : Nat \ {0}, pools : Seq(Pool)]

\* The host bits of the prefix are cleared, or set.
firstAddrInPrefix(s) == (s.prefix \div s.size) * s.size

\* Mutant: one past the end.
lastAddrInPrefixPast(s) == firstAddrInPrefix(s) + s.size

lastAddrInPrefix(s) == firstAddrInPrefix(s) + s.size - 1

\* Pool::inRange
inRange(pool, addr) == pool.first <= addr /\ addr <= pool.last

\* Subnet::addPool accepts a pool whose two ends lie in the subnet; that pools
\* overlap is not checked.
addPoolAccepts(s, pool) ==
    /\ firstAddrInPrefix(s) <= pool.first /\ pool.first <= lastAddrInPrefix(s)
    /\ firstAddrInPrefix(s) <= pool.last /\ pool.last <= lastAddrInPrefix(s)

\* Subnet::inPool: the pools lie in the subnet, so its range decides nothing.
inPool(ps, addr) == \E i \in 1..Len(ps) : inRange(ps[i], addr)

\* Bytes are incremented from the least significant one as long as they
\* overflow, so the last address of the family is followed by the first.
increaseAddress(addr) == (addr + 1) % AddressSpace

\* Mutant: the end of a pool is not noticed.
pickAddressUnchecked(ps, last) ==
    IF ~inPool(ps, last) THEN ps[1].first ELSE increaseAddress(last)

\* Mutant: at the end of a pool the search starts over.
pickAddressRewind(ps, last) ==
    IF \E i \in 1..Len(ps) :
          inRange(ps[i], last) /\ inRange(ps[i], increaseAddress(last))
      THEN increaseAddress(last)
      ELSE ps[1].first

\* The pool the last address came from is the first one it belongs to.
pickAddress(ps, last) ==
    LET it == CHOOSE i \in 1..Len(ps) :
                  /\ inRange(ps[i], last)
                  /\ \A j \in 1..i - 1 : ~inRange(ps[j], last)
        next == increaseAddress(last)
    IN  IF ~inPool(ps, last) THEN ps[1].first
        ELSE IF inRange(ps[it], next) THEN next
        ELSE IF it = Len(ps) THEN ps[1].first
        ELSE ps[it + 1].first
=============================================================================
