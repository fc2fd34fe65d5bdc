------------------------- MODULE LocationObjectsProofs -------------------------
(***************************************************************************)
(* Theorems about Location objects, for any widths of the narrow and the   *)
(* wide type.  What LocationProofs shows of one instantiation of the       *)
(* template is used for both.                                              *)
(***************************************************************************)
EXTENDS LocationObjects, TLAPS

NarrowFacts == INSTANCE LocationProofs WITH AddrMod <- NarrowMod, SizeMod <- NarrowSizeMod
WideFacts   == INSTANCE LocationProofs WITH AddrMod <- WideMod,   SizeMod <- WideSizeMod

-----------------------------------------------------------------------------
\* The widths are numbers, the narrow ones the smaller.
LEMMA Widths ==
  /\ NarrowMod \in Nat \ {0} /\ NarrowSizeMod \in Nat \ {0}
  /\ WideMod \in Nat \ {0} /\ WideSizeMod \in Nat \ {0}
  /\ NarrowMod <= WideMod /\ NarrowSizeMod <= WideSizeMod
BY NarrowIsNarrower

\* The same operators have a name in the model and one with their lemmas.
LEMMA NarrowNames ==
  /\ NarrowFacts!LocationType = Narrow!LocationType
  /\ NarrowFacts!Address = Narrow!Address
  /\ \A l : /\ NarrowFacts!Fits(l) <=> Narrow!Fits(l)
            /\ NarrowFacts!Bytes(l) = Narrow!Bytes(l)
            /\ NarrowFacts!EndAddress(l) = Narrow!EndAddress(l)
            /\ NarrowFacts!Extent(l) = Narrow!Extent(l)
BY DEF NarrowFacts!LocationType, NarrowFacts!Address, NarrowFacts!Size, NarrowFacts!Fits,
       NarrowFacts!Bytes, NarrowFacts!EndAddress, NarrowFacts!Extent,
       Narrow!LocationType, Narrow!Address, Narrow!Size, Narrow!Fits,
       Narrow!Bytes, Narrow!EndAddress, Narrow!Extent

LEMMA WideNames ==
  /\ WideFacts!LocationType = Wide!LocationType
  /\ WideFacts!Address = Wide!Address
  /\ \A l : /\ WideFacts!Fits(l) <=> Wide!Fits(l)
            /\ WideFacts!Bytes(l) = Wide!Bytes(l)
            /\ WideFacts!EndAddress(l) = Wide!EndAddress(l)
            /\ WideFacts!Extent(l) = Wide!Extent(l)
BY DEF WideFacts!LocationType, WideFacts!Address, WideFacts!Size, WideFacts!Fits,
       WideFacts!Bytes, WideFacts!EndAddress, WideFacts!Extent,
       Wide!LocationType, Wide!Address, Wide!Size, Wide!Fits,
       Wide!Bytes, Wide!EndAddress, Wide!Extent

\* The bytes of a location that fits are an interval, up to getEndAddress().
LEMMA NarrowInterval ==
  ASSUME NEW l \in Narrow!LocationType, Narrow!Fits(l)
  PROVE  /\ Narrow!EndAddress(l) = l.addr + Narrow!Bytes(l) - 1
         /\ Narrow!Extent(l) = l.addr .. Narrow!EndAddress(l)
         /\ l.addr \in Nat /\ Narrow!EndAddress(l) \in Nat /\ l.addr <= Narrow!EndAddress(l)
<1>1. l \in NarrowFacts!LocationType /\ NarrowFacts!Fits(l)
  BY NarrowNames
<1>2. /\ NarrowFacts!EndAddress(l) = l.addr + NarrowFacts!Bytes(l) - 1
      /\ NarrowFacts!EndAddress(l) \in NarrowFacts!Address
      /\ l.addr <= NarrowFacts!EndAddress(l)
  BY <1>1, Widths, NarrowFacts!EndOfFitting
<1>3. NarrowFacts!Extent(l) = l.addr .. NarrowFacts!EndAddress(l)
  BY <1>1, Widths, NarrowFacts!ExtentOfFitting
<1>4. l.addr \in Nat /\ Narrow!EndAddress(l) \in Nat
  BY <1>2, NarrowNames DEF Narrow!LocationType, Narrow!Address
<1> QED BY <1>2, <1>3, <1>4, NarrowNames

LEMMA WideInterval ==
  ASSUME NEW l \in Wide!LocationType, Wide!Fits(l)
  PROVE  /\ Wide!EndAddress(l) = l.addr + Wide!Bytes(l) - 1
         /\ Wide!Extent(l) = l.addr .. Wide!EndAddress(l)
         /\ l.addr \in Nat /\ Wide!EndAddress(l) \in Nat /\ l.addr <= Wide!EndAddress(l)
<1>1. l \in WideFacts!LocationType /\ WideFacts!Fits(l)
  BY WideNames
<1>2. /\ WideFacts!EndAddress(l) = l.addr + WideFacts!Bytes(l) - 1
      /\ WideFacts!EndAddress(l) \in WideFacts!Address
      /\ l.addr <= WideFacts!EndAddress(l)
  BY <1>1, Widths, WideFacts!EndOfFitting
<1>3. WideFacts!Extent(l) = l.addr .. WideFacts!EndAddress(l)
  BY <1>1, Widths, WideFacts!ExtentOfFitting
<1>4. l.addr \in Nat /\ Wide!EndAddress(l) \in Nat
  BY <1>2, WideNames DEF Wide!LocationType, Wide!Address
<1> QED BY <1>2, <1>3, <1>4, WideNames

\* Two intervals: all of the one is below the other, or they have a byte in
\* common.
LEMMA Intervals ==
  \A a, b, c, d \in Nat :
      a <= b /\ c <= d =>
          /\ b < c <=> \A x \in a .. b, y \in c .. d : x < y
          /\ (a .. b) \cap (c .. d) # {} <=> ~(b < c) /\ ~(d < a)
<1> SUFFICES ASSUME NEW a \in Nat, NEW b \in Nat, NEW c \in Nat, NEW d \in Nat,
                    a <= b, c <= d
             PROVE  /\ b < c <=> \A x \in a .. b, y \in c .. d : x < y
                    /\ (a .. b) \cap (c .. d) # {} <=> ~(b < c) /\ ~(d < a)
  OBVIOUS
<1>1. b < c <=> \A x \in a .. b, y \in c .. d : x < y
  <2>1. b \in a .. b /\ c \in c .. d
    OBVIOUS
  <2>2. ASSUME b < c, NEW x \in a .. b, NEW y \in c .. d PROVE x < y
    BY <2>2
  <2> QED BY <2>1, <2>2
<1>2. ASSUME ~(b < c), ~(d < a) PROVE (a .. b) \cap (c .. d) # {}
  <2>1. CASE a <= c
    <3>1. c \in a .. b /\ c \in c .. d
      BY <1>2, <2>1
    <3> QED BY <3>1
  <2>2. CASE c < a
    <3>1. a \in a .. b /\ a \in c .. d
      BY <1>2, <2>2
    <3> QED BY <3>1
  <2> QED BY <2>1, <2>2
<1>3. ASSUME NEW x \in (a .. b) \cap (c .. d) PROVE ~(b < c) /\ ~(d < a)
  BY <1>3
<1>4. (a .. b) \cap (c .. d) # {} <=> ~(b < c) /\ ~(d < a)
  BY <1>2, <1>3
<1> QED BY <1>1, <1>4

-----------------------------------------------------------------------------
\* What unpack() takes from a value it accepts is in range.
LEMMA LoadedFields ==
  ASSUME param \in CciValue, UnpackAccepts(param), param.address >= 0
  PROVE  /\ param.address \in Narrow!Address
         /\ param.size \in Narrow!Size \cup {Absent}
         /\ 0 \in Narrow!Size
<1>1. param \in [isMap : {TRUE}, address : Narrow!Address \cup {Absent, Malformed},
                size : Narrow!Size \cup {Absent, Malformed}]
  <2>1. param # NotAMap
    BY DEF NotAMap, UnpackAccepts
  <2> QED BY <2>1 DEF CciValue
<1>2. param.address # Absent /\ param.address # Malformed
  BY DEF Absent, Malformed
<1>3. param.size # Malformed
  BY DEF UnpackAccepts
<1>4. 0 \in Narrow!Size
  BY Widths DEF Narrow!Size
<1> QED BY <1>1, <1>2, <1>3, <1>4

\* Every operation gives an object of its type: both fields are truncated by a
\* conversion to the narrow type, and what a parameter holds is in range.
THEOREM LocationTypes == Spec => []TypeOK
<1> USE DEF TypeOK
<1>1. ASSUME NEW l \in Narrow!LocationType PROVE Pack(l) \in CciValue
  BY DEF Pack, CciValue, Narrow!LocationType
<1>2. Init => TypeOK
  <2>1. Narrow!DefaultLocation \in Narrow!LocationType /\ Wide!DefaultLocation \in Wide!LocationType
    BY Widths DEF Narrow!DefaultLocation, Narrow!LocationType, Narrow!Address, Narrow!Size,
                  Wide!DefaultLocation, Wide!LocationType, Wide!Address, Wide!Size
  <2> QED BY <1>1, <2>1 DEF Init
<1>3. TypeOK /\ [Next]_vars => TypeOK'
  <2> SUFFICES ASSUME TypeOK, [Next]_vars PROVE TypeOK'
    OBVIOUS
  <2>1. CASE ConstructNarrow \/ SetNarrowAddress \/ SetNarrowSize
    <3>1. \A a \in Narrow!Address, s \in Narrow!Size :
             Narrow!NewLocation(a, s) \in Narrow!LocationType
      BY DEF Narrow!LocationType, Narrow!NewLocation
    <3>2. \A a \in Narrow!Address : Narrow!SetAddress(narrow, a) \in Narrow!LocationType
      BY DEF Narrow!LocationType, Narrow!SetAddress
    <3>3. \A s \in Narrow!Size : Narrow!SetSize(narrow, s) \in Narrow!LocationType
      BY DEF Narrow!LocationType, Narrow!SetSize
    <3> QED BY <2>1, <3>1, <3>2, <3>3 DEF ConstructNarrow, SetNarrowAddress, SetNarrowSize
  <2>2. CASE SetWideAddress \/ SetWideSize
    BY <2>2 DEF SetWideAddress, SetWideSize, Wide!LocationType, Wide!SetAddress, Wide!SetSize
  <2>3. CASE TruncateToNarrow
    <3>1. wide.addr % NarrowMod \in Narrow!Address /\ wide.size % NarrowSizeMod \in Narrow!Size
          /\ 0 \in Narrow!Size
      BY Widths DEF Wide!LocationType, Wide!Address, Wide!Size, Narrow!Address, Narrow!Size
    <3> QED BY <2>3, <3>1
            DEF TruncateToNarrow, Narrow!ConvertLocation, Narrow!LocationType, Wide!LocationType
  <2>4. CASE ExtendToWide
    <3>1. narrow.addr % WideMod \in Wide!Address /\ narrow.size % WideSizeMod \in Wide!Size
          /\ 0 \in Wide!Size
      BY Widths DEF Narrow!LocationType, Narrow!Address, Narrow!Size, Wide!Address, Wide!Size
    <3> QED BY <2>4, <3>1
            DEF ExtendToWide, Wide!ConvertLocation, Narrow!LocationType, Wide!LocationType
  <2>5. CASE StoreParam \/ PresetParam
    BY <1>1, <2>5 DEF StoreParam, PresetParam
  <2>6. CASE LoadParam
    <3>1. CASE UnpackAccepts(param) /\ param.address >= 0
      <4>1. /\ param.address \in Narrow!Address
            /\ param.size \in Narrow!Size \cup {Absent} /\ 0 \in Narrow!Size
        BY <3>1, LoadedFields
      <4>2. (IF param.size = Absent THEN 0 ELSE param.size) \in Narrow!Size
        BY <4>1
      <4>3. \A a \in Narrow!Address, s \in Narrow!Size :
               Narrow!SetSize(Narrow!SetAddress(narrow, a), s) \in Narrow!LocationType
        BY DEF Narrow!LocationType, Narrow!SetAddress, Narrow!SetSize
      <4> QED BY <2>6, <3>1, <4>1, <4>2, <4>3 DEF LoadParam, Unpack
    <3>2. CASE ~(UnpackAccepts(param) /\ param.address >= 0)
      BY <2>6, <3>2 DEF LoadParam, Unpack
    <3> QED BY <3>1, <3>2
  <2>7. CASE UNCHANGED vars
    BY <2>7 DEF vars
  <2> QED BY <2>1, <2>2, <2>3, <2>4, <2>5, <2>6, <2>7 DEF Next
<1> QED BY <1>2, <1>3, PTL DEF Spec

\* operator< is the order of the byte ranges, and the keys std::map cannot tell
\* apart are the ones that overlap, for every width.
THEOREM OrderOfExtents == Spec => []OrderIsExtentOrder
<1>1. TypeOK => OrderIsExtentOrder
  <2> SUFFICES ASSUME TypeOK, NEW other \in Narrow!LocationType,
                      Narrow!Fits(narrow), Narrow!Fits(other)
               PROVE  /\ Narrow!Less(narrow, other) <=> Narrow!StrictlyBelow(narrow, other)
                      /\ Narrow!Equivalent(narrow, other) <=> Narrow!Overlap(narrow, other)
    BY DEF OrderIsExtentOrder
  <2>1. narrow \in Narrow!LocationType
    BY DEF TypeOK
  <2> DEFINE a == narrow.addr
             b == Narrow!EndAddress(narrow)
             c == other.addr
             d == Narrow!EndAddress(other)
  <2>2. /\ Narrow!Extent(narrow) = a .. b /\ Narrow!Extent(other) = c .. d
        /\ a \in Nat /\ b \in Nat /\ a <= b /\ c \in Nat /\ d \in Nat /\ c <= d
    BY <2>1, NarrowInterval
  <2> HIDE DEF a, b, c, d
  <2>3. a \in Nat /\ b \in Nat /\ a <= b /\ c \in Nat /\ d \in Nat /\ c <= d
    BY <2>2
  <2>4. /\ b < c <=> \A x \in a .. b, y \in c .. d : x < y
        /\ (a .. b) \cap (c .. d) # {} <=> ~(b < c) /\ ~(d < a)
    BY <2>3, Intervals, Zenon
  <2> USE DEF a, b, c, d
  <2> QED BY <2>2, <2>4 DEF Narrow!Less, Narrow!StrictlyBelow, Narrow!Equivalent, Narrow!Overlap
<1> QED BY <1>1, LocationTypes, PTL

\* operator== of two locations that fit is TRUE of an overlap unless this one
\* lies strictly inside the other, and of nothing else, for every width.
THEOREM EqualityIsOverlapButInner == Spec => []EqualityMissesInner
<1>1. ASSUME NEW l \in Narrow!LocationType, Narrow!Fits(l), NEW x \in Int
      PROVE  Narrow!ContainsAddress(l, x) <=> l.addr <= x /\ x <= Narrow!EndAddress(l)
  <2>1. l.addr \in Int /\ (~l.hasSize => Narrow!EndAddress(l) = l.addr)
    BY <1>1, NarrowInterval DEF Narrow!EndAddress
  <2> QED BY <2>1 DEF Narrow!ContainsAddress
<1>2. TypeOK => EqualityMissesInner
  <2> SUFFICES ASSUME TypeOK, NEW other \in Narrow!LocationType,
                      Narrow!Fits(narrow), Narrow!Fits(other)
               PROVE  Narrow!LocationEq(narrow, other) <=>
                        /\ Narrow!Overlap(narrow, other)
                        /\ ~ /\ other.addr < narrow.addr
                             /\ Narrow!EndAddress(narrow) < Narrow!EndAddress(other)
    BY DEF EqualityMissesInner
  <2>1. narrow \in Narrow!LocationType
    BY DEF TypeOK
  <2> DEFINE a == narrow.addr
             b == Narrow!EndAddress(narrow)
             c == other.addr
             d == Narrow!EndAddress(other)
  <2>2. /\ Narrow!Extent(narrow) = a .. b /\ Narrow!Extent(other) = c .. d
        /\ a \in Nat /\ b \in Nat /\ a <= b /\ c \in Nat /\ d \in Nat /\ c <= d
    BY <2>1, NarrowInterval
  <2>3. \A x \in Nat : Narrow!ContainsAddress(narrow, x) <=> a <= x /\ x <= b
    BY <1>1, <2>1
  <2> HIDE DEF a, b, c, d
  <2>4. a \in Nat /\ b \in Nat /\ a <= b /\ c \in Nat /\ d \in Nat /\ c <= d
    BY <2>2
  <2>5. (a .. b) \cap (c .. d) # {} <=> ~(b < c) /\ ~(d < a)
    BY <2>4, Intervals, Zenon
  <2>6. (a <= c /\ c <= b) \/ (a <= d /\ d <= b)
          <=> ~(b < c) /\ ~(d < a) /\ ~(c < a /\ b < d)
    BY <2>4
  <2>7. Narrow!LocationEq(narrow, other) <=> (a <= c /\ c <= b) \/ (a <= d /\ d <= b)
    BY <2>2, <2>3 DEF Narrow!LocationEq, a, b, c, d
  <2>8. Narrow!Overlap(narrow, other) <=> ~(b < c) /\ ~(d < a)
    BY <2>2, <2>5 DEF Narrow!Overlap
  <2> QED BY <2>6, <2>7, <2>8 DEF a, b, c, d
<1> QED BY <1>2, LocationTypes, PTL

\* Comparing locations of different widths loses no bit, on either side.
THEOREM OrderOfMixedWidths == Spec => []MixedWidthOrder
<1>1. ASSUME NEW n \in Narrow!LocationType, Narrow!Fits(n), NEW w \in Wide!LocationType,
             w.addr = n.addr, w.hasSize = n.hasSize, n.hasSize => w.size = n.size
      PROVE  Wide!Fits(w) /\ Wide!Extent(w) = Narrow!Extent(n)
  <2>1. Wide!Bytes(w) = Narrow!Bytes(n)
    BY <1>1 DEF Wide!Bytes, Narrow!Bytes
  <2>2. Narrow!Bytes(n) \in Nat /\ n.addr \in Nat
    BY Widths DEF Narrow!LocationType, Narrow!Bytes, Narrow!Address, Narrow!Size
  <2>3. Wide!Fits(w)
    BY <1>1, <2>1, <2>2, Widths DEF Wide!Fits, Narrow!Fits
  <2> QED BY <1>1, <2>1, <2>3, NarrowInterval, WideInterval
<1>2. ASSUME NEW l \in Wide!LocationType, NEW m \in Wide!LocationType, Wide!Fits(l), Wide!Fits(m)
      PROVE  Wide!Less(l, m) <=> \A x \in Wide!Extent(l), y \in Wide!Extent(m) : x < y
  <2> DEFINE a == l.addr
             b == Wide!EndAddress(l)
             c == m.addr
             d == Wide!EndAddress(m)
  <2>1. /\ Wide!Extent(l) = a .. b /\ Wide!Extent(m) = c .. d
        /\ a \in Nat /\ b \in Nat /\ a <= b /\ c \in Nat /\ d \in Nat /\ c <= d
    BY <1>2, WideInterval
  <2> HIDE DEF a, b, c, d
  <2>2. a \in Nat /\ b \in Nat /\ a <= b /\ c \in Nat /\ d \in Nat /\ c <= d
    BY <2>1
  <2>3. /\ b < c <=> \A x \in a .. b, y \in c .. d : x < y
        /\ (a .. b) \cap (c .. d) # {} <=> ~(b < c) /\ ~(d < a)
    BY <2>2, Intervals, Zenon
  <2> QED BY <2>1, <2>3 DEF Wide!Less, b, c
<1>3. TypeOK => MixedWidthOrder
  <2> SUFFICES ASSUME TypeOK, Narrow!Fits(narrow), Wide!Fits(wide) PROVE MixedWidthOrder
    BY DEF MixedWidthOrder
  <2> DEFINE v == Wide!ConvertLocation(narrow)
             u == Wide!NewLocation(narrow.addr, IF narrow.hasSize THEN narrow.size ELSE 0)
  <2>1. /\ narrow \in Narrow!LocationType /\ wide \in Wide!LocationType
        /\ narrow.addr \in Wide!Address /\ narrow.size \in Wide!Size /\ 0 \in Wide!Size
        /\ narrow.hasSize \in BOOLEAN
    BY Widths DEF TypeOK, Narrow!LocationType, Narrow!Address, Narrow!Size, Wide!Address, Wide!Size
  <2>2. narrow.addr % WideMod = narrow.addr /\ narrow.size % WideSizeMod = narrow.size
    BY <2>1, Widths DEF Wide!Address, Wide!Size
  <2>3. /\ v \in Wide!LocationType /\ v.addr = narrow.addr /\ v.hasSize = narrow.hasSize
        /\ narrow.hasSize => v.size = narrow.size
    BY <2>1, <2>2 DEF Wide!ConvertLocation, Wide!LocationType
  <2>4. narrow.hasSize => narrow.size # 0
    BY <2>1 DEF Narrow!Fits, Narrow!Bytes
  <2>5. /\ u \in Wide!LocationType /\ u.addr = narrow.addr /\ u.hasSize = narrow.hasSize
        /\ narrow.hasSize => u.size = narrow.size
    BY <2>1, <2>4 DEF Wide!NewLocation, Wide!LocationType
  <2> HIDE DEF u, v
  <2>6. /\ Wide!Fits(v) /\ Wide!Extent(v) = Narrow!Extent(narrow)
        /\ Wide!Fits(u) /\ Wide!Extent(u) = Narrow!Extent(narrow)
    BY <1>1, <2>1, <2>3, <2>5
  <2>7. LessNarrowWide(narrow, wide)
          <=> \A x \in Narrow!Extent(narrow), y \in Wide!Extent(wide) : x < y
    BY <1>2, <2>1, <2>3, <2>6 DEF LessNarrowWide, v
  <2>8. LessWideNarrow(wide, narrow)
          <=> \A x \in Narrow!Extent(narrow), y \in Wide!Extent(wide) : y < x
    BY <1>2, <2>1, <2>5, <2>6 DEF LessWideNarrow, u
  <2> QED BY <2>7, <2>8 DEF MixedWidthOrder
<1> QED BY <1>3, LocationTypes, PTL

\* A location read back from the parameter it was stored in has its bytes.
THEOREM ParamKeepsLocation == Spec => []ParamRoundTrip
<1>1. TypeOK => ParamRoundTrip
  <2> SUFFICES ASSUME TypeOK, NEW other \in Narrow!LocationType, Narrow!Fits(narrow)
               PROVE  Narrow!Extent(Unpack(other, Pack(narrow))) = Narrow!Extent(narrow)
    BY DEF ParamRoundTrip
  <2> DEFINE s == IF narrow.hasSize THEN narrow.size ELSE 0
             l == Unpack(other, Pack(narrow))
  <2>1. /\ narrow.addr \in Nat /\ narrow.size \in Nat /\ narrow.hasSize \in BOOLEAN
        /\ narrow.hasSize => narrow.size # 0
    BY Widths DEF TypeOK, Narrow!LocationType, Narrow!Address, Narrow!Size, Narrow!Fits, Narrow!Bytes
  <2>2. UnpackAccepts(Pack(narrow)) /\ Pack(narrow).address >= 0 /\ Pack(narrow).address = narrow.addr
    BY <2>1 DEF UnpackAccepts, Pack, Absent, Malformed
  <2>3. (IF Pack(narrow).size = Absent THEN 0 ELSE Pack(narrow).size) = s
    BY <2>1 DEF Pack, Absent
  <2>4. l = Narrow!SetSize(Narrow!SetAddress(other, narrow.addr), s)
    BY <2>2, <2>3 DEF Unpack
  <2>5. l.addr = narrow.addr /\ l.size = s /\ l.hasSize = (s # 0)
    BY <2>4 DEF Narrow!SetSize, Narrow!SetAddress, Narrow!LocationType
  <2>6. (s # 0) = narrow.hasSize
    BY <2>1
  <2> HIDE DEF l
  <2>7. Narrow!Bytes(l) = Narrow!Bytes(narrow)
    BY <2>1, <2>5, <2>6 DEF Narrow!Bytes
  <2> QED BY <2>5, <2>7 DEF Narrow!Extent, l
<1> QED BY <1>1, LocationTypes, PTL

\* A load takes both fields of the value, or changes nothing.
THEOREM LoadTakesAllOrNothing == Spec => LoadIsAllOrNothing
<1>1. TypeOK /\ [Next]_vars =>
        [LoadParam => \/ narrow' = narrow
                      \/ /\ narrow'.addr = param.address
                         /\ \/ narrow'.size = param.size
                            \/ param.size = Absent /\ ~narrow'.hasSize]_vars
  <2> SUFFICES ASSUME TypeOK, LoadParam, narrow' # narrow
               PROVE  /\ narrow'.addr = param.address
                      /\ \/ narrow'.size = param.size
                         \/ param.size = Absent /\ ~narrow'.hasSize
    OBVIOUS
  <2> DEFINE s == IF param.size = Absent THEN 0 ELSE param.size
  <2>1. narrow' = Narrow!SetSize(Narrow!SetAddress(narrow, param.address), s)
    BY DEF LoadParam, Unpack
  <2>2. narrow'.addr = param.address /\ narrow'.size = s /\ narrow'.hasSize = (s # 0)
    BY <2>1 DEF TypeOK, Narrow!SetSize, Narrow!SetAddress, Narrow!LocationType
  <2> QED BY <2>2
<1> QED BY <1>1, LocationTypes, PTL DEF Spec, LoadIsAllOrNothing
==============================================================================
