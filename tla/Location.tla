------------------------------ MODULE Location ------------------------------
(***************************************************************************)
(* tlm2::Location (src/src/location/location.h): an address with an        *)
(* optional size, the key type of a router's std::map.  A location is a    *)
(* record and the operators below are the class's constructors, modifiers  *)
(* and comparisons.  ADDR_TYPE and SIZE_TYPE are unsigned integers:        *)
(* AddrMod and SizeMod are 2^width of each, and arithmetic wraps.          *)
(***************************************************************************)
EXTENDS Integers

CONSTANTS AddrMod,  \* 2^w, w the width of ADDR_TYPE
          SizeMod   \* 2^w, w the width of SIZE_TYPE

ASSUME WidthAssumption == /\ AddrMod \in Nat \ {0}
                          /\ SizeMod \in Nat \ {0}

Address == 0 .. AddrMod - 1
Size    == 0 .. SizeMod - 1

LocationType == [addr : Address, size : Size, hasSize : BOOLEAN]

-----------------------------------------------------------------------------
\* Constructors and modifiers.

\* Location(): it claims a size, and the size is zero.
DefaultLocation == [addr |-> 0, size |-> 0, hasSize |-> TRUE]

\* Location(address_, size_): a size of zero means "no size".
NewLocation(a, s) == [addr |-> a, size |-> s, hasSize |-> s # 0]

\* Location(address_), the key a lookup searches for.
Point(a) == NewLocation(a, 0)

\* Mutant: the conversion copies the fields as they are.
ConvertLocationAsIs(src) == src

\* The conversion from another Location type: both fields are truncated,
\* mHasSize is copied.
ConvertLocation(src) ==
    [addr    |-> src.addr % AddrMod,
     size    |-> IF src.hasSize THEN src.size % SizeMod ELSE 0,
     hasSize |-> src.hasSize]

SetAddress(l, a) == [l EXCEPT !.addr = a]
SetSize(l, s)    == [l EXCEPT !.size = s, !.hasSize = (s # 0)]

-----------------------------------------------------------------------------
\* Ordering and belonging.

\* getEndAddress(): the last address, inclusive; the sum wraps.
EndAddress(l) ==
    IF l.hasSize THEN (l.addr + l.size - 1) % AddrMod ELSE l.addr

\* Mutant: the last byte is left out.
ContainsAddressExclusive(l, a) ==
    IF l.hasSize THEN l.addr <= a /\ a < EndAddress(l) ELSE a = l.addr

\* containsAddress()
ContainsAddress(l, a) ==
    IF l.hasSize THEN l.addr <= a /\ a <= EndAddress(l) ELSE a = l.addr

\* Mutant: locations that share one byte are ordered too.
LessOrTouching(l, m) == EndAddress(l) <= m.addr

\* operator<, the comparison std::map uses.
Less(l, m) == EndAddress(l) < m.addr

\* operator==
LocationEq(l, m) ==
    ContainsAddress(l, m.addr) \/ ContainsAddress(l, EndAddress(m))

\* The keys std::map treats as the same key.
Equivalent(l, m) == ~Less(l, m) /\ ~Less(m, l)

-----------------------------------------------------------------------------
\* What a location stands for, stated without the class's arithmetic: the
\* addresses its bytes have.  It is the reference the comparisons are checked
\* against.

Bytes(l) == IF l.hasSize THEN l.size ELSE 1

Extent(l) == {(l.addr + k) % AddrMod : k \in 0 .. Bytes(l) - 1}

\* A location that covers at least one byte and does not pass the end of the
\* address space.
Fits(l) == Bytes(l) >= 1 /\ l.addr + Bytes(l) <= AddrMod

Overlap(l, m) == Extent(l) \cap Extent(m) # {}

\* Every byte of l lies below every byte of m.
StrictlyBelow(l, m) == \A x \in Extent(l), y \in Extent(m) : x < y
=============================================================================
