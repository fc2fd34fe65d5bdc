--------------------------- MODULE LocationProofs ---------------------------
(***************************************************************************)
(* What the comparisons of tlm2::Location mean, for every width of address *)
(* and size: on locations that end inside the address space they are the   *)
(* order of the byte ranges the locations stand for.                       *)
(***************************************************************************)
EXTENDS Location, TLAPS

\* A sum that does not overflow is not changed by the width of its type.
LEMMA NoOverflow ==
  ASSUME NEW a \in Nat, NEW m \in Nat, a < m
  PROVE  a % m = a
  OBVIOUS

\* getEndAddress() of a location that fits is its last byte: nothing wraps.
LEMMA EndOfFitting ==
  ASSUME NEW l \in LocationType, Fits(l)
  PROVE  /\ EndAddress(l) = l.addr + Bytes(l) - 1
         /\ EndAddress(l) \in Address
         /\ l.addr <= EndAddress(l)
  BY WidthAssumption, NoOverflow
  DEF LocationType, Fits, Bytes, EndAddress, Address, Size

\* The bytes of a location that fits are an interval, up to getEndAddress().
LEMMA ExtentOfFitting ==
  ASSUME NEW l \in LocationType, Fits(l)
  PROVE  Extent(l) = l.addr .. EndAddress(l)
<1>1. EndAddress(l) = l.addr + Bytes(l) - 1
  BY EndOfFitting
<1>2. l.addr \in Nat /\ Bytes(l) \in Nat
  BY WidthAssumption DEF LocationType, Bytes, Address, Size
<1>3. \A k \in 0 .. Bytes(l) - 1 : (l.addr + k) % AddrMod = l.addr + k
  <2> TAKE k \in 0 .. Bytes(l) - 1
  <2>1. l.addr + k \in Nat /\ l.addr + k < AddrMod
    BY <1>2, WidthAssumption DEF Fits
  <2> QED BY <2>1, WidthAssumption, NoOverflow
<1>4. ASSUME NEW x \in Extent(l) PROVE x \in l.addr .. EndAddress(l)
  BY <1>1, <1>2, <1>3 DEF Extent
<1>5. ASSUME NEW x \in l.addr .. EndAddress(l) PROVE x \in Extent(l)
  <2>1. x - l.addr \in 0 .. Bytes(l) - 1 /\ x = l.addr + (x - l.addr)
    BY <1>1, <1>2
  <2>2. (l.addr + (x - l.addr)) % AddrMod = x
    BY <1>3, <2>1
  <2> QED BY <2>1, <2>2 DEF Extent
<1> QED BY <1>4, <1>5

\* operator<, on locations that fit, says that every byte of the one lies below
\* every byte of the other.
LEMMA LessIsStrictlyBelow ==
  ASSUME NEW l \in LocationType, NEW m \in LocationType, Fits(l), Fits(m)
  PROVE  Less(l, m) <=> StrictlyBelow(l, m)
<1>1. /\ Extent(l) = l.addr .. EndAddress(l)
      /\ Extent(m) = m.addr .. EndAddress(m)
  BY ExtentOfFitting
<1>2. /\ EndAddress(l) \in Nat /\ l.addr \in Nat /\ l.addr <= EndAddress(l)
      /\ EndAddress(m) \in Nat /\ m.addr \in Nat /\ m.addr <= EndAddress(m)
  BY EndOfFitting DEF LocationType, Address
<1>3. EndAddress(l) \in Extent(l) /\ m.addr \in Extent(m)
  BY <1>1, <1>2
<1>4. StrictlyBelow(l, m) => Less(l, m)
  BY <1>3 DEF StrictlyBelow, Less
<1>5. Less(l, m) => StrictlyBelow(l, m)
  BY <1>1, <1>2 DEF StrictlyBelow, Less
<1> QED BY <1>4, <1>5

\* Two keys of the std::map are equivalent exactly when they share a byte.
LEMMA EquivalentIsOverlap ==
  ASSUME NEW l \in LocationType, NEW m \in LocationType, Fits(l), Fits(m)
  PROVE  Equivalent(l, m) <=> Overlap(l, m)
<1>1. /\ Extent(l) = l.addr .. EndAddress(l)
      /\ Extent(m) = m.addr .. EndAddress(m)
  BY ExtentOfFitting
<1>2. /\ EndAddress(l) \in Nat /\ l.addr \in Nat /\ l.addr <= EndAddress(l)
      /\ EndAddress(m) \in Nat /\ m.addr \in Nat /\ m.addr <= EndAddress(m)
  BY EndOfFitting DEF LocationType, Address
<1>3. ASSUME Overlap(l, m) PROVE Equivalent(l, m)
  BY <1>1, <1>2, <1>3 DEF Overlap, Equivalent, Less
<1>4. ASSUME Equivalent(l, m) PROVE Overlap(l, m)
  <2>1. CASE l.addr <= m.addr
    <3>1. m.addr \in Extent(l) /\ m.addr \in Extent(m)
      BY <1>1, <1>2, <1>4, <2>1 DEF Equivalent, Less
    <3> QED BY <3>1 DEF Overlap
  <2>2. CASE ~(l.addr <= m.addr)
    <3>1. l.addr \in Extent(l) /\ l.addr \in Extent(m)
      BY <1>1, <1>2, <1>4, <2>2 DEF Equivalent, Less
    <3> QED BY <3>1 DEF Overlap
  <2> QED BY <2>1, <2>2
<1> QED BY <1>3, <1>4

\* The key a lookup uses is the one byte at its address.
LEMMA PointFits ==
  ASSUME NEW a \in Address
  PROVE  /\ Point(a) \in LocationType
         /\ Fits(Point(a))
         /\ Extent(Point(a)) = {a}
<1>0. Point(a) = [addr |-> a, size |-> 0, hasSize |-> FALSE]
  BY DEF Point, NewLocation
<1>1. Point(a) \in LocationType /\ Fits(Point(a))
  BY <1>0, WidthAssumption DEF LocationType, Fits, Bytes, Address, Size
<1>2. Extent(Point(a)) = a .. a
  BY <1>0, <1>1, ExtentOfFitting DEF EndAddress
<1> QED BY <1>1, <1>2 DEF Address

\* A lookup of an address finds a key exactly when the address is one of the
\* key's bytes.
LEMMA PointLookup ==
  ASSUME NEW l \in LocationType, Fits(l), NEW a \in Address
  PROVE  /\ Equivalent(l, Point(a)) <=> a \in Extent(l)
         /\ a \in Extent(l) <=> l.addr <= a /\ a <= EndAddress(l)
<1>1. Equivalent(l, Point(a)) <=> Overlap(l, Point(a))
  BY PointFits, EquivalentIsOverlap
<1>2. Overlap(l, Point(a)) <=> a \in Extent(l)
  BY PointFits DEF Overlap
<1>3. a \in Extent(l) <=> l.addr <= a /\ a <= EndAddress(l)
  BY ExtentOfFitting, EndOfFitting DEF LocationType, Address
<1> QED BY <1>1, <1>2, <1>3
=============================================================================
