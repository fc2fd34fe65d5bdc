--------------------------- MODULE MCGenericRouter ---------------------------
(***************************************************************************)
(* Small platforms for the router: an address space of eight bytes, one or *)
(* two initiators, two or three targets.                                   *)
(***************************************************************************)
EXTENDS GenericRouter, TLC

CONSTANTS i1, i2, t1, t2, t3, x1, x2, x3

\* The first initiator has two payloads, the second one.
OwnerOf == x1 :> i1 @@ x2 :> i2 @@ x3 :> i1
OwnerOfTwo == x1 :> i1 @@ x2 :> i2

Low   == NewLocation(1, 2)  \* bytes 1, 2
High  == NewLocation(4, 2)  \* bytes 4, 5
Mid   == NewLocation(2, 3)  \* bytes 2, 3, 4: meets both
Most  == NewLocation(0, 7)  \* contains them all
Byte  == NewLocation(7, 0)  \* no size: byte 7

Place == NewLocation(1, 1)  \* byte 1

\* In Place, in High (at offset 1, which as an address is in Place), and in none.
SomeRequests == {1, 5, 6}

Use(interfaces, relative, shared, reentrant) ==
    [relative |-> relative, interfaces |-> interfaces, shared |-> shared,
     reentrant |-> reentrant]

Accesses == {"b_transport", "nb_transport", "transport_dbg"}
Exchanges == {"nb_transport"}
DirectAccess == {"get_direct_mem_ptr"}

\* One good platform in every use of the list, and every assignment of
\* locations to three targets for a router that nobody calls.
TwoTargets(uses) == [config : uses, location : {t1 :> Place @@ t2 :> High}]
AnyPlatform == [config : {Use({}, TRUE, FALSE, FALSE)},
                location : [{t1, t2, t3} -> {Low, High, Mid, Most, Byte, NoLocation}]]

\* Every way to use the router; a third target without a location stays unbound
\* or stops the elaboration.
Every == {Use(Accesses, r, s, e) : r, s, e \in BOOLEAN}
         \cup {Use(DirectAccess, r, FALSE, FALSE) : r \in BOOLEAN}
AnySetup == AnyPlatform
            \cup [config : Every, location : {t1 :> Place @@ t2 :> High @@ t3 :> NoLocation}]

\* MemoryMappedRouter and I2CRouter, with the uses that are promised answers.
Exclusive == TwoTargets({Use(Exchanges, TRUE, FALSE, FALSE), Use(Exchanges, FALSE, FALSE, TRUE)})
Shared == TwoTargets({Use(Exchanges, FALSE, TRUE, FALSE)})
Translating == TwoTargets({Use(DirectAccess, TRUE, FALSE, FALSE)})
=============================================================================
