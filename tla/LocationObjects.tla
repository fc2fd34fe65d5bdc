--------------------------- MODULE LocationObjects ---------------------------
(***************************************************************************)
(* Location objects over their life: construction, modifiers, conversion   *)
(* between two instantiations of the template (a narrow one, such as the   *)
(* 16-bit I2C location, and a wide one), and the trip through a CCI        *)
(* parameter that addressable_socket.h makes of every location.            *)
(* Comparisons are checked on the objects that such a life can produce.    *)
(***************************************************************************)
EXTENDS Integers

CONSTANTS NarrowMod, NarrowSizeMod,  \* widths of the narrow type
          WideMod, WideSizeMod       \* widths of the wide type

ASSUME NarrowIsNarrower ==
    /\ {NarrowMod, NarrowSizeMod, WideMod, WideSizeMod} \subseteq Nat \ {0}
    /\ NarrowMod <= WideMod /\ NarrowSizeMod <= WideSizeMod

Narrow == INSTANCE Location WITH AddrMod <- NarrowMod, SizeMod <- NarrowSizeMod
Wide   == INSTANCE Location WITH AddrMod <- WideMod,   SizeMod <- WideSizeMod

VARIABLES narrow,  \* an object of the narrow type
          wide,    \* an object of the wide type
          param    \* the CCI value of a narrow location parameter
vars == <<narrow, wide, param>>

\* What a map entry of a CCI value can be: missing, of the wrong type, a number.
Absent    == -1
Malformed == -2
NotAMap   == [isMap |-> FALSE, address |-> Absent, size |-> Absent]
CciValue  == [isMap : {TRUE}, address : Narrow!Address \cup {Absent, Malformed},
              size : Narrow!Size \cup {Absent, Malformed}] \cup {NotAMap}

-----------------------------------------------------------------------------
\* Mutants: the size is never stored; the address is set before the size is
\* found unreadable; the comparison is made in the narrow type.
PackSkipsSize(l) == [isMap |-> TRUE, address |-> l.addr, size |-> Absent]

UnpackEager(dst, v) ==
    IF ~v.isMap \/ v.address < 0 THEN dst
    ELSE IF v.size = Malformed THEN Narrow!SetAddress(dst, v.address)
    ELSE Narrow!SetSize(Narrow!SetAddress(dst, v.address), IF v.size = Absent THEN 0 ELSE v.size)

LessNarrowWideTruncated(n, w) == Narrow!Less(n, Narrow!ConvertLocation(w))

\* cci_value_converter::pack
Pack(l) == [isMap |-> TRUE, address |-> l.addr,
            size |-> IF l.hasSize THEN l.size ELSE Absent]

\* cci_value_converter::unpack, the value it returns ...
UnpackAccepts(v) == v.isMap /\ (v.address >= 0 => v.size # Malformed)

\* ... and what it leaves in dst: an address that is missing or unreadable is
\* no error, and leaves dst alone.
Unpack(dst, v) ==
    IF UnpackAccepts(v) /\ v.address >= 0
    THEN Narrow!SetSize(Narrow!SetAddress(dst, v.address),
                        IF v.size = Absent THEN 0 ELSE v.size)
    ELSE dst

\* operator< between instantiations: the comparison is made in the wider type,
\* whichever side it is on.
LessNarrowWide(n, w) == Wide!Less(Wide!ConvertLocation(n), w)
LessWideNarrow(w, n) ==
    Wide!Less(w, Wide!NewLocation(n.addr, IF n.hasSize THEN n.size ELSE 0))

-----------------------------------------------------------------------------
TypeOK == /\ narrow \in Narrow!LocationType
          /\ wide \in Wide!LocationType
          /\ param \in CciValue

Init == /\ narrow = Narrow!DefaultLocation
        /\ wide = Wide!DefaultLocation
        /\ param = Pack(Narrow!DefaultLocation)

ConstructNarrow == /\ \E a \in Narrow!Address, s \in Narrow!Size :
                         narrow' = Narrow!NewLocation(a, s)
                   /\ UNCHANGED <<wide, param>>

SetNarrowAddress == /\ \E a \in Narrow!Address : narrow' = Narrow!SetAddress(narrow, a)
                    /\ UNCHANGED <<wide, param>>

SetNarrowSize == /\ \E s \in Narrow!Size : narrow' = Narrow!SetSize(narrow, s)
                 /\ UNCHANGED <<wide, param>>

SetWideAddress == /\ \E a \in Wide!Address : wide' = Wide!SetAddress(wide, a)
                  /\ UNCHANGED <<narrow, param>>

SetWideSize == /\ \E s \in Wide!Size : wide' = Wide!SetSize(wide, s)
               /\ UNCHANGED <<narrow, param>>

\* narrow = narrow_type(wide): both fields may lose their high bits.
TruncateToNarrow == /\ narrow' = Narrow!ConvertLocation(wide)
                    /\ UNCHANGED <<wide, param>>

ExtendToWide == /\ wide' = Wide!ConvertLocation(narrow)
                /\ UNCHANGED <<narrow, param>>

\* A parameter takes the location's value, or any value a preset gives it.
StoreParam  == param' = Pack(narrow) /\ UNCHANGED <<narrow, wide>>
PresetParam == param' \in CciValue /\ UNCHANGED <<narrow, wide>>
LoadParam   == narrow' = Unpack(narrow, param) /\ UNCHANGED <<wide, param>>

Next == \/ ConstructNarrow \/ SetNarrowAddress \/ SetNarrowSize
        \/ SetWideAddress \/ SetWideSize
        \/ TruncateToNarrow \/ ExtendToWide
        \/ StoreParam \/ PresetParam \/ LoadParam

Spec == Init /\ [][Next]_vars

-----------------------------------------------------------------------------
\* For locations that end inside the address space, operator< is the order of
\* the byte ranges they stand for, and the keys std::map cannot tell apart are
\* exactly the ones that overlap (what isOutputLocationFree relies on).
OrderIsExtentOrder ==
    \A other \in Narrow!LocationType :
        Narrow!Fits(narrow) /\ Narrow!Fits(other) =>
            /\ Narrow!Less(narrow, other) <=> Narrow!StrictlyBelow(narrow, other)
            /\ Narrow!Equivalent(narrow, other) <=> Narrow!Overlap(narrow, other)

\* Comparing locations of different widths, on either side, gives the order of
\* their byte ranges: no bit is lost on the way.
MixedWidthOrder ==
    Narrow!Fits(narrow) /\ Wide!Fits(wide) =>
        /\ LessNarrowWide(narrow, wide)
             <=> \A x \in Narrow!Extent(narrow), y \in Wide!Extent(wide) : x < y
        /\ LessWideNarrow(wide, narrow)
             <=> \A x \in Narrow!Extent(narrow), y \in Wide!Extent(wide) : y < x

\* Reading back the value a location was packed into gives, over any object,
\* the bytes that were packed.
ParamRoundTrip ==
    \A other \in Narrow!LocationType :
        Narrow!Fits(narrow) =>
            Narrow!Extent(Unpack(other, Pack(narrow))) = Narrow!Extent(narrow)

\* A location taken from the parameter never ends up with one field of the new
\* value and one of the old: whatever value was preset, a load either changes
\* nothing or takes the address and the size, a missing size being none.
LoadIsAllOrNothing ==
    [][LoadParam => \/ narrow' = narrow
                    \/ /\ narrow'.addr = param.address
                       /\ \/ narrow'.size = param.size
                          \/ param.size = Absent /\ ~narrow'.hasSize]_vars

\* operator== looks for an end of the other location inside this one.  Its
\* comments (location.h:171 and :182) say "True if locations RECOVER ..., false
\* otherwise"; it does not keep that: it misses the overlaps where this location
\* lies strictly inside the other one, all of these and nothing else.
EqualityMissesInner ==
    \A other \in Narrow!LocationType :
        Narrow!Fits(narrow) /\ Narrow!Fits(other) =>
            (Narrow!LocationEq(narrow, other) <=>
                /\ Narrow!Overlap(narrow, other)
                /\ ~ /\ other.addr < narrow.addr
                     /\ Narrow!EndAddress(narrow) < Narrow!EndAddress(other))
=============================================================================
