----------------------------- MODULE IODescription -----------------------------
(***************************************************************************)
(* What the sockets of the I2C, IRQ, signal and UART protocols say of the  *)
(* wires they stand for: a list of named IO elements, and the rules that   *)
(* tell which element of the peer each one is wired to.  The constructors  *)
(* fill both, and a module may then read, extend or replace them           *)
(* (src/src/core/tlm-2/sockets/base_socket.cpp, src/src/protocols/*_socket.h). *)
(***************************************************************************)
EXTENDS Integers, Sequences, SequencesExt

CONSTANTS
    Devices,      \* modules with an initiator and a target socket of one class
    Platforms,    \* the classes to explore: see Platform
    Edited,       \* the sockets whose description a module goes on to edit,
    OwnElements,  \* and the elements it adds
    MaxElements   \* bound of the model: elements of a list

Roles    == {"initiator", "target"}
Sockets  == Devices \X Roles
UartClasses == {"UartSocket", "UARTSimpleBidirectionalSocket"}
I2CClasses == {"I2CSocket", "I2CSimpleSocket"}
SignalClasses == {"SignalSocket", "SignalSimpleSocket"}
IRQClasses == {"IRQSocket", "IRQSimpleSocket"}
Protocols == {I2CClasses, SignalClasses, UartClasses, IRQClasses}
Platform == [Devices -> UNION Protocols]

IOMode  == {"IN_MODE", "OUT_MODE", "INOUT_MODE"}
OwnNames == {e.name : e \in OwnElements}
Names   == {"SDA", "SCL", "IO_IN", "IO_OUT", "RX", "TX"} \cup OwnNames
Element == [name : Names, mode : IOMode]

ASSUME IODescriptionAssumption ==
    /\ Platforms \subseteq Platform
    /\ Edited \subseteq Sockets
    /\ OwnElements \subseteq Element
    /\ MaxElements \in Nat

VARIABLES
    class,       \* the class of each device's sockets
    made,        \* the sockets that are constructed
    io,          \* mBaseIO of each socket
    rules,       \* mBindingRules of each socket, as a set of pairs
    draft,       \* a BaseIO in the hands of an author, a copy
    bound,       \* the pairs of sockets that are bound
    reported,    \* HV_ERR has been called
    undefined    \* an element past the end of a list has been read

vars == <<class, made, io, rules, draft, bound, reported, undefined>>

NamesOf(list) == {list[n].name : n \in 1 .. Len(list)}

-----------------------------------------------------------------------------
\* Constructors.

\* Mutant: a multimap, which keeps both.
AssignBoth(map, key, value) == map \cup {<<key, value>>}

\* operator[] of std::map: what the key had is overwritten.
Assign(map, key, value) == {r \in map : r[1] # key} \cup {<<key, value>>}

I2CDescription == [io |-> <<[name |-> "SDA", mode |-> "INOUT_MODE"],
                            [name |-> "SCL", mode |-> "INOUT_MODE"]>>,
                   rules |-> {<<"SDA", "SDA">>, <<"SCL", "SCL">>}]

SignalDescription(role) ==
    IF role = "initiator"
    THEN [io |-> <<[name |-> "IO_OUT", mode |-> "OUT_MODE"]>>, rules |-> {<<"IO_OUT", "IO_IN">>}]
    ELSE [io |-> <<[name |-> "IO_IN", mode |-> "IN_MODE"]>>, rules |-> {<<"IO_IN", "IO_OUT">>}]

\* Mutant: each element is wired to its namesake, as for I2C.
UartDescriptionStraight(role) ==
    IF role = "initiator"
    THEN [io |-> <<[name |-> "TX", mode |-> "OUT_MODE"]>>, rules |-> {<<"TX", "TX">>}]
    ELSE [io |-> <<[name |-> "RX", mode |-> "IN_MODE"]>>, rules |-> {<<"RX", "RX">>}]

UartDescription(role) ==
    IF role = "initiator"
    THEN [io |-> <<[name |-> "TX", mode |-> "OUT_MODE"]>>, rules |-> {<<"TX", "RX">>}]
    ELSE [io |-> <<[name |-> "RX", mode |-> "IN_MODE"]>>, rules |-> {<<"RX", "TX">>}]

\* The simple I2C initiator socket adds its elements and no rules; the sockets
\* of interrupts describe nothing.
Description(c, role) ==
    IF c = "I2CSimpleSocket" /\ role = "initiator" THEN [io |-> I2CDescription.io, rules |-> {}]
    ELSE IF c \in I2CClasses THEN I2CDescription
    ELSE IF c \in SignalClasses THEN SignalDescription(role)
    ELSE IF c \in UartClasses THEN UartDescription(role)
    ELSE [io |-> <<>>, rules |-> {}]  \* IRQClasses

\* A UART socket constructs its two halves, the other sockets are one each.
Construct(sockets) ==
    /\ sockets \cap made = {}
    /\ \E d \in Devices : IF class[d] \in UartClasses THEN sockets = {d} \X Roles
                          ELSE \E r \in Roles : sockets = {<<d, r>>}
    /\ made' = made \cup sockets
    /\ io' = [s \in Sockets |-> IF s \in sockets THEN Description(class[s[1]], s[2]).io ELSE io[s]]
    /\ rules' = [s \in Sockets |->
                   IF s \in sockets THEN Description(class[s[1]], s[2]).rules ELSE rules[s]]
    /\ UNCHANGED <<class, draft, bound, reported, undefined>>

-----------------------------------------------------------------------------
\* What a module does with the description of a socket, once all sockets are
\* constructed (a bound of the model).

Constructed(s) == s \in Edited /\ made = Sockets

\* A BaseIO of the author's: a new one, or a copy of a socket's.
NewBaseIO == /\ draft' = <<>>
             /\ UNCHANGED <<class, made, io, rules, bound, reported, undefined>>

GetBaseIO(s) == /\ Constructed(s)
                /\ draft' = io[s]
                /\ UNCHANGED <<class, made, io, rules, bound, reported, undefined>>

\* Mutant: only neighbours are compared.
AddIOElementNeighbour(e) ==
    /\ made = Sockets
    /\ Len(draft) < MaxElements
    /\ reported' = (reported \/ (draft # <<>> /\ Last(draft).name = e.name))
    /\ draft' = Append(draft, e)
    /\ UNCHANGED <<class, made, io, rules, bound, undefined>>

\* The error is only reported: the second element of a name is added too.
AddIOElement(e) ==
    /\ made = Sockets
    /\ Len(draft) < MaxElements
    /\ reported' = (reported \/ e.name \in NamesOf(draft))
    /\ draft' = Append(draft, e)
    /\ UNCHANGED <<class, made, io, rules, bound, undefined>>

\* addBaseIO replaces the list; the rules stay as they are.
AddBaseIO(s) ==
    /\ Constructed(s)
    /\ io' = [io EXCEPT ![s] = draft]
    /\ UNCHANGED <<class, made, rules, draft, bound, reported, undefined>>

\* Mutant: either element may be the known one.
AddBindingRuleEither(s, e1, e2) ==
    /\ Constructed(s)
    /\ reported' = (reported \/ {e1, e2} \cap NamesOf(io[s]) = {})
    /\ rules' = [rules EXCEPT ![s] = Assign(@, e1, e2)]
    /\ UNCHANGED <<class, made, io, draft, bound, undefined>>

\* Again the error is only reported, and the rule made.
AddBindingRule(s, e1, e2) ==
    /\ Constructed(s)
    /\ reported' = (reported \/ e1 \notin NamesOf(io[s]))
    /\ rules' = [rules EXCEPT ![s] = Assign(@, e1, e2)]
    /\ UNCHANGED <<class, made, io, draft, bound, undefined>>

\* getIOElement, getIOElementName, getIOElementMode: a bad index is reported and
\* then used.
GetIOElement(s, ind) ==
    /\ Constructed(s)
    /\ ind >= Len(io[s])
    /\ reported' = TRUE
    /\ undefined' = TRUE
    /\ UNCHANGED <<class, made, io, rules, draft, bound>>

\* Two sockets of one protocol are bound (SystemC's types allow no others); those
\* of two UARTs both ways.
ProtocolOf(d) == CHOOSE p \in Protocols : class[d] \in p

Bind(d, e) ==
    LET pairs == {<<<<d, "initiator">>, <<e, "target">>>>}
                 \cup IF class[d] \in UartClasses THEN {<<<<e, "initiator">>, <<d, "target">>>>} ELSE {}
    IN
    /\ d # e
    /\ ProtocolOf(d) = ProtocolOf(e)
    /\ made = Sockets
    /\ bound' = bound \cup pairs
    /\ UNCHANGED <<class, made, io, rules, draft, reported, undefined>>

-----------------------------------------------------------------------------
Init ==
    /\ class \in Platforms
    /\ made = {}
    /\ io = [s \in Sockets |-> <<>>]
    /\ rules = [s \in Sockets |-> {}]
    /\ draft = <<>>
    /\ bound = {}
    /\ reported = FALSE
    /\ undefined = FALSE

\* Once an element past the end is read anything may happen: the model stops.
Next ==
    /\ ~undefined
    /\ \/ \E d \in Devices, r \in SUBSET Roles : Construct({d} \X r)
       \/ NewBaseIO
       \/ \E s \in Edited : GetBaseIO(s) \/ AddBaseIO(s)
       \/ \E e \in OwnElements : AddIOElement(e)
       \/ \E s \in Edited, n1, n2 \in OwnNames : AddBindingRule(s, n1, n2)
       \/ \E s \in Edited, ind \in 0 .. MaxElements : GetIOElement(s, ind)
       \/ \E d, e \in Devices : Bind(d, e)

Spec == Init /\ [][Next]_vars

-----------------------------------------------------------------------------
\* Elements, rules, modes and flags are of their types.
TypeOK ==
    /\ class \in Platforms
    /\ made \subseteq Sockets
    /\ io \in [Sockets -> Seq(Element)]
    /\ rules \in [Sockets -> SUBSET (Names \X Names)]
    /\ \A s \in Sockets : \A r, q \in rules[s] : r[1] = q[1] => r = q
    /\ draft \in Seq(Element)
    /\ bound \subseteq made \X made
    /\ {reported, undefined} \subseteq BOOLEAN

\* The list of s begins with what its constructor has put there.
Extended(s) == IsPrefix(Description(class[s[1]], s[2]).io, io[s])

Fitting == {<<"IN_MODE", "OUT_MODE">>, <<"OUT_MODE", "IN_MODE">>, <<"INOUT_MODE", "INOUT_MODE">>}

\* A rule of socket s, from e, is one that socket t can follow: it leads to an
\* element of t whose mode fits, and the rule of t for that element, if there
\* is one, leads back.
Followed(s, t, e, f) ==
    /\ \E x \in Range(io[s]), y \in Range(io[t]) :
         x.name = e /\ y.name = f /\ <<x.mode, y.mode>> \in Fitting
    /\ \A r \in rules[t] : r[1] = f => r[2] = e

\* Whichever of the eight classes two bound sockets of one protocol are of, and
\* whatever their modules have added to the lists, each element the constructors
\* gave them is wired to one of the peer by a rule of the one or the other, and
\* the rules of the two agree: as long as the elements that modules add have names
\* of their own.
WiresMeet ==
    \A b \in bound :
        Extended(b[1]) /\ Extended(b[2]) =>
            \A d \in {b, <<b[2], b[1]>>} :
                LET s == d[1]  t == d[2] IN
                \A e \in NamesOf(Description(class[s[1]], s[2]).io) :
                    /\ (\E r \in rules[s] : r[1] = e) \/ (\E r \in rules[t] : r[2] = e)
                    /\ \A r \in rules[s] : r[1] = e => Followed(s, t, e, r[2])

\* Names are unique in the list of a socket, and its rules begin at its elements.
NoDoubles(list) == \A m, n \in 1 .. Len(list) : list[m].name = list[n].name => m = n

InOrder(s) == NoDoubles(io[s]) /\ \A r \in rules[s] : r[1] \in NamesOf(io[s])

\* Errors are only reported, and the list or rule they are about is kept. Still
\* a report is a reliable sign: the description of a socket goes out of order
\* without one only when its list is replaced by one that lacks an element.
OutOfOrderIsReported ==
    [][\A s \in made : InOrder(s) /\ ~InOrder(s)' =>
          reported' \/ ~(NamesOf(io[s]) \subseteq NamesOf(io'[s]))]_vars
=============================================================================
