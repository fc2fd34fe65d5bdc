-------------------------- MODULE IODescriptionProofs --------------------------
(***************************************************************************)
(* Proofs about IODescription: a description gets out of order only with a *)
(* report, or when its list is replaced by one that lacks an element; and  *)
(* bound sockets of one protocol are wired element to element.             *)
(***************************************************************************)
EXTENDS IODescription, TLAPS

\* As long as nothing is reported no list has two elements of one name, neither
\* a socket's nor the one in the hands of an author, who may put it in a socket.
ListsInv ==
    /\ class \in [Devices -> UNION Protocols]
    /\ made \subseteq Sockets
    /\ io \in [Sockets -> Seq(Element)]
    /\ rules \in [Sockets -> SUBSET (Names \X Names)]
    /\ draft \in Seq(Element)
    /\ reported \in BOOLEAN
    /\ ~reported => NoDoubles(draft) /\ \A s \in Sockets : NoDoubles(io[s])

\* What a constructor describes is a list without doubles (i2c_socket.h:44 and
\* its like).
LEMMA DescriptionInOrder ==
    ASSUME NEW c \in UNION Protocols, NEW role \in Roles
    PROVE  /\ Description(c, role).io \in Seq(Element)
           /\ Description(c, role).rules \in SUBSET (Names \X Names)
           /\ NoDoubles(Description(c, role).io)
<1>1. ASSUME NEW x \in Element, NEW y \in Element, x.name # y.name
      PROVE  <<x, y>> \in Seq(Element) /\ NoDoubles(<<x, y>>)
  <2>1. \A n \in 1 .. Len(<<x, y>>) : n = 1 \/ n = 2
    OBVIOUS
  <2> QED  BY <1>1, <2>1 DEF NoDoubles
<1>2. ASSUME NEW x \in Element PROVE <<x>> \in Seq(Element) /\ NoDoubles(<<x>>)
  BY DEF NoDoubles
<1>3. <<>> \in Seq(Element) /\ NoDoubles(<<>>)
  BY DEF NoDoubles
<1>4. /\ I2CDescription.io \in Seq(Element) /\ NoDoubles(I2CDescription.io)
      /\ I2CDescription.rules \in SUBSET (Names \X Names)
  <2> DEFINE sda == [name |-> "SDA", mode |-> "INOUT_MODE"]
             scl == [name |-> "SCL", mode |-> "INOUT_MODE"]
  <2>1. sda \in Element /\ scl \in Element /\ sda.name # scl.name
    BY DEF Element, Names, IOMode
  <2>2. <<sda, scl>> \in Seq(Element) /\ NoDoubles(<<sda, scl>>)
    BY <1>1, <2>1
  <2>3. /\ I2CDescription.io = <<sda, scl>>
        /\ I2CDescription.rules = {<<"SDA", "SDA">>, <<"SCL", "SCL">>}
    BY DEF I2CDescription
  <2>4. {<<"SDA", "SDA">>, <<"SCL", "SCL">>} \in SUBSET (Names \X Names)
    BY DEF Names
  <2> HIDE DEF sda, scl
  <2> QED  BY <2>2, <2>3, <2>4
<1>5. ASSUME NEW name \in {"IO_IN", "IO_OUT", "RX", "TX"}, NEW peer \in {"IO_IN", "IO_OUT", "RX", "TX"},
             NEW mode \in IOMode, NEW desc, desc = [io |-> <<[name |-> name, mode |-> mode]>>,
                                                   rules |-> {<<name, peer>>}]
      PROVE  /\ desc.io \in Seq(Element) /\ NoDoubles(desc.io)
             /\ desc.rules \in SUBSET (Names \X Names)
  <2>1. name \in Names /\ peer \in Names /\ [name |-> name, mode |-> mode] \in Element
    BY DEF Element, Names
  <2>2. desc.io = <<[name |-> name, mode |-> mode]>> /\ desc.rules = {<<name, peer>>}
    BY <1>5
  <2> QED  BY <1>2, <2>1, <2>2
<1>6. /\ SignalDescription(role).io \in Seq(Element) /\ NoDoubles(SignalDescription(role).io)
      /\ SignalDescription(role).rules \in SUBSET (Names \X Names)
      /\ UartDescription(role).io \in Seq(Element) /\ NoDoubles(UartDescription(role).io)
      /\ UartDescription(role).rules \in SUBSET (Names \X Names)
  <2>1. CASE role = "initiator"
    BY <1>5, <2>1 DEF SignalDescription, UartDescription, IOMode
  <2>2. CASE role = "target"
    BY <1>5, <2>2 DEF SignalDescription, UartDescription, IOMode
  <2> QED  BY <2>1, <2>2 DEF Roles
<1>7. \A d \in {[io |-> I2CDescription.io, rules |-> {}], I2CDescription, SignalDescription(role),
                UartDescription(role), [io |-> <<>>, rules |-> {}]} :
        d.io \in Seq(Element) /\ NoDoubles(d.io) /\ d.rules \in SUBSET (Names \X Names)
  <2>1. \A list : [io |-> list, rules |-> {}].io = list /\ [io |-> list, rules |-> {}].rules = {}
    OBVIOUS
  <2> QED  BY <1>3, <1>4, <1>6, <2>1
<1>8. Description(c, role) \in {[io |-> I2CDescription.io, rules |-> {}], I2CDescription,
                SignalDescription(role), UartDescription(role), [io |-> <<>>, rules |-> {}]}
  BY DEF Description
<1> QED  BY <1>7, <1>8

\* addIOElement (base_socket.cpp:62): without a report the new name was not there.
LEMMA AppendInOrder ==
    ASSUME NEW list \in Seq(Element), NEW e \in Element
    PROVE  /\ Append(list, e) \in Seq(Element)
           /\ NoDoubles(list) /\ e.name \notin NamesOf(list) => NoDoubles(Append(list, e))
BY DEF NoDoubles, NamesOf

LEMMA ListsInit == Init => ListsInv
<1> SUFFICES ASSUME Init PROVE ListsInv
  OBVIOUS
<1>1. class \in [Devices -> UNION Protocols]
  BY IODescriptionAssumption DEF Init, Platform
<1>2. <<>> \in Seq(Element) /\ NoDoubles(<<>>)
  BY DEF NoDoubles
<1>3. draft = <<>> /\ \A s \in Sockets : io[s] = <<>>
  BY DEF Init
<1>4. NoDoubles(draft) /\ \A s \in Sockets : NoDoubles(io[s])
  BY <1>2, <1>3
<1>5. io \in [Sockets -> Seq(Element)] /\ rules \in [Sockets -> SUBSET (Names \X Names)]
  BY <1>2 DEF Init
<1> QED  BY <1>1, <1>2, <1>4, <1>5 DEF Init, ListsInv

LEMMA ListsStep == ListsInv /\ [Next]_vars => ListsInv'
<1> SUFFICES ASSUME ListsInv, [Next]_vars PROVE ListsInv'
  OBVIOUS
<1> USE DEF ListsInv
<1>1. ASSUME NEW d \in Devices, NEW r \in SUBSET Roles, Construct({d} \X r) PROVE ListsInv'
  <2> DEFINE sockets == {d} \X r
  <2>1. \A s \in Sockets : /\ class[s[1]] \in UNION Protocols /\ s[2] \in Roles
    BY DEF Sockets
  <2>2. \A s \in Sockets : /\ Description(class[s[1]], s[2]).io \in Seq(Element)
                           /\ Description(class[s[1]], s[2]).rules \in SUBSET (Names \X Names)
                           /\ NoDoubles(Description(class[s[1]], s[2]).io)
    BY <2>1, DescriptionInOrder
  <2>3. \A s \in Sockets : /\ io'[s] \in Seq(Element)
                           /\ rules'[s] \in SUBSET (Names \X Names)
                           /\ ~reported => NoDoubles(io'[s])
    BY <1>1, <2>2 DEF Construct
  <2>4. io' \in [Sockets -> Seq(Element)] /\ rules' \in [Sockets -> SUBSET (Names \X Names)]
    BY <1>1, <2>3 DEF Construct
  <2>5. class' = class /\ draft' = draft /\ reported' = reported /\ made' \subseteq Sockets
    BY <1>1 DEF Construct, Sockets
  <2>6. ~reported' => NoDoubles(draft)' /\ \A s \in Sockets : NoDoubles(io[s])'
    BY <2>3, <2>5 DEF NoDoubles
  <2> QED  BY <2>4, <2>5, <2>6
<1>2. CASE NewBaseIO
  BY <1>2 DEF NewBaseIO, NoDoubles
<1>3. ASSUME NEW s \in Edited, GetBaseIO(s) PROVE ListsInv'
  BY <1>3, IODescriptionAssumption DEF GetBaseIO, NoDoubles
<1>4. ASSUME NEW s \in Edited, AddBaseIO(s) PROVE ListsInv'
  BY <1>4, IODescriptionAssumption DEF AddBaseIO, NoDoubles
<1>5. ASSUME NEW e \in OwnElements, AddIOElement(e) PROVE ListsInv'
  <2>1. e \in Element
    BY IODescriptionAssumption
  <2>2. /\ draft' \in Seq(Element)
        /\ ~reported' => NoDoubles(draft')
    BY <1>5, <2>1, AppendInOrder DEF AddIOElement
  <2> QED  BY <1>5, <2>2 DEF AddIOElement, NoDoubles
<1>6. ASSUME NEW s \in Edited, NEW n1 \in OwnNames, NEW n2 \in OwnNames, AddBindingRule(s, n1, n2)
      PROVE  ListsInv'
  <2>1. rules' \in [Sockets -> SUBSET (Names \X Names)]
    BY <1>6, IODescriptionAssumption DEF AddBindingRule, Assign, Names
  <2> QED  BY <1>6, <2>1 DEF AddBindingRule, NoDoubles
<1>7. ASSUME NEW s \in Edited, NEW ind \in 0 .. MaxElements, GetIOElement(s, ind) PROVE ListsInv'
  BY <1>7 DEF GetIOElement, NoDoubles
<1>8. ASSUME NEW d \in Devices, NEW e \in Devices, Bind(d, e) PROVE ListsInv'
  BY <1>8 DEF Bind, NoDoubles
<1>9. CASE UNCHANGED vars
  BY <1>9 DEF vars, NoDoubles
<1> QED  BY <1>1, <1>2, <1>3, <1>4, <1>5, <1>6, <1>7, <1>8, <1>9 DEF Next

\* The lists a module reads have no doubles unless it was told.
THEOREM ListsInvariant == Spec => []ListsInv
BY ListsInit, ListsStep, PTL DEF Spec

\* addIOElement, addBaseIO and addBindingRule (base_socket.cpp:62-108): an error is
\* the sign of a description out of order, but for a list that was replaced.
THEOREM DisorderIsReported == Spec => OutOfOrderIsReported
<1>1. ASSUME ListsInv, [Next]_vars
      PROVE  [\A s \in made : InOrder(s) /\ ~InOrder(s)' =>
                reported' \/ ~(NamesOf(io[s]) \subseteq NamesOf(io'[s]))]_vars
  <2> SUFFICES ASSUME Next, NEW s \in made, InOrder(s), ~InOrder(s)', ~reported',
                      NamesOf(io[s]) \subseteq NamesOf(io'[s])
               PROVE  FALSE
    BY <1>1
  <2>1. io'[s] # io[s] \/ rules'[s] # rules[s]
    BY DEF InOrder
  <2>2. s \in Sockets /\ io \in [Sockets -> Seq(Element)] /\ rules \in [Sockets -> SUBSET (Names \X Names)]
    BY <1>1 DEF ListsInv
  <2>3. ASSUME NEW d \in Devices, NEW r \in SUBSET Roles, Construct({d} \X r) PROVE FALSE
    <3>1. s \notin {d} \X r
      BY <2>3 DEF Construct
    <3> QED  BY <2>1, <2>2, <2>3, <3>1 DEF Construct
  <2>4. CASE NewBaseIO
    BY <2>1, <2>4 DEF NewBaseIO
  <2>5. ASSUME NEW t \in Edited, GetBaseIO(t) PROVE FALSE
    BY <2>1, <2>5 DEF GetBaseIO
  <2>6. ASSUME NEW t \in Edited, AddBaseIO(t) PROVE FALSE
    <3>1. s = t /\ io'[s] = draft /\ rules'[s] = rules[s] /\ ~reported
      BY <2>1, <2>2, <2>6 DEF AddBaseIO
    <3>2. NoDoubles(draft)
      BY <1>1, <3>1 DEF ListsInv
    <3>3. \A q \in rules[s] : q[1] \in NamesOf(io'[s])
      BY DEF InOrder
    <3>4. \A q \in rules'[s] : q[1] \in NamesOf(io[s])'
      BY <3>1, <3>3 DEF NamesOf
    <3>5. NoDoubles(io[s])'
      BY <3>1, <3>2 DEF NoDoubles
    <3> QED  BY <3>4, <3>5 DEF InOrder
  <2>7. ASSUME NEW e \in OwnElements, AddIOElement(e) PROVE FALSE
    BY <2>1, <2>7 DEF AddIOElement
  <2>8. ASSUME NEW t \in Edited, NEW n1 \in OwnNames, NEW n2 \in OwnNames, AddBindingRule(t, n1, n2)
        PROVE  FALSE
    <3>1. /\ s = t
          /\ io'[s] = io[s]
          /\ rules'[s] = {q \in rules[s] : q[1] # n1} \cup {<<n1, n2>>}
          /\ n1 \in NamesOf(io[s])
      BY <2>1, <2>2, <2>8 DEF AddBindingRule, Assign
    <3>2. \A q \in rules'[s] : q[1] \in NamesOf(io[s])
      BY <3>1 DEF InOrder
    <3>3. (\A q \in rules'[s] : q[1] \in NamesOf(io[s])') /\ NoDoubles(io[s])'
      BY <3>1, <3>2 DEF InOrder, NamesOf, NoDoubles
    <3> QED  BY <3>3 DEF InOrder
  <2>9. ASSUME NEW t \in Edited, NEW ind \in 0 .. MaxElements, GetIOElement(t, ind) PROVE FALSE
    BY <2>1, <2>9 DEF GetIOElement
  <2>10. ASSUME NEW d \in Devices, NEW e \in Devices, Bind(d, e) PROVE FALSE
    BY <2>1, <2>10 DEF Bind
  <2> QED  BY <2>3, <2>4, <2>5, <2>6, <2>7, <2>8, <2>9, <2>10 DEF Next
<1> QED  BY <1>1, ListsInvariant, PTL DEF Spec, OutOfOrderIsReported

-----------------------------------------------------------------------------
\* The elements of a list of one, and of two.
LEMMA ListOfOne ==
    ASSUME NEW x PROVE Range(<<x>>) = {x} /\ NamesOf(<<x>>) = {x.name}
BY DEF Range, NamesOf

LEMMA ListOfTwo ==
    ASSUME NEW x, NEW y PROVE Range(<<x, y>>) = {x, y} /\ NamesOf(<<x, y>>) = {x.name, y.name}
<1> DEFINE list == <<x, y>>
<1>1. DOMAIN list = {1, 2} /\ 1 .. Len(list) = {1, 2} /\ list[1] = x /\ list[2] = y
  OBVIOUS
<1> HIDE DEF list
<1>2. Range(list) = {x, y} /\ NamesOf(list) = {x.name, y.name}
  BY <1>1 DEF Range, NamesOf
<1> QED  BY <1>2 DEF list

LEMMA EmptyList == Range(<<>>) = {} /\ NamesOf(<<>>) = {}
BY DEF Range, NamesOf

\* The wires of a socket: what its constructor says of them, as sets.
El(n, m) == [name |-> n, mode |-> m]

WiresOf(c, role) ==
    IF c \in I2CClasses
    THEN [elements |-> {El("SDA", "INOUT_MODE"), El("SCL", "INOUT_MODE")},
          names |-> {"SDA", "SCL"},
          rules |-> IF c = "I2CSimpleSocket" /\ role = "initiator" THEN {}
                    ELSE {<<"SDA", "SDA">>, <<"SCL", "SCL">>}]
    ELSE IF c \in SignalClasses
    THEN IF role = "initiator"
         THEN [elements |-> {El("IO_OUT", "OUT_MODE")}, names |-> {"IO_OUT"},
               rules |-> {<<"IO_OUT", "IO_IN">>}]
         ELSE [elements |-> {El("IO_IN", "IN_MODE")}, names |-> {"IO_IN"},
               rules |-> {<<"IO_IN", "IO_OUT">>}]
    ELSE IF c \in UartClasses
    THEN IF role = "initiator"
         THEN [elements |-> {El("TX", "OUT_MODE")}, names |-> {"TX"}, rules |-> {<<"TX", "RX">>}]
         ELSE [elements |-> {El("RX", "IN_MODE")}, names |-> {"RX"}, rules |-> {<<"RX", "TX">>}]
    ELSE [elements |-> {}, names |-> {}, rules |-> {}]

LEMMA DescribedWires ==
    ASSUME NEW c \in UNION Protocols, NEW role \in Roles
    PROVE  /\ Range(Description(c, role).io) = WiresOf(c, role).elements
           /\ NamesOf(Description(c, role).io) = WiresOf(c, role).names
           /\ Description(c, role).rules = WiresOf(c, role).rules
<1> USE DEF I2CClasses, SignalClasses, UartClasses, IRQClasses
<1>1. \A n, m : El(n, m).name = n
  BY DEF El
<1>2. CASE c \in I2CClasses
  <2>1. Description(c, role).io = <<El("SDA", "INOUT_MODE"), El("SCL", "INOUT_MODE")>>
    BY <1>2 DEF Description, I2CDescription, El
  <2>2. Description(c, role).rules = WiresOf(c, role).rules
    BY <1>2 DEF Description, I2CDescription, WiresOf
  <2>3. /\ WiresOf(c, role).elements = {El("SDA", "INOUT_MODE"), El("SCL", "INOUT_MODE")}
        /\ WiresOf(c, role).names = {"SDA", "SCL"}
    BY <1>2 DEF WiresOf
  <2>4. /\ Range(<<El("SDA", "INOUT_MODE"), El("SCL", "INOUT_MODE")>>)
             = {El("SDA", "INOUT_MODE"), El("SCL", "INOUT_MODE")}
        /\ NamesOf(<<El("SDA", "INOUT_MODE"), El("SCL", "INOUT_MODE")>>)
             = {El("SDA", "INOUT_MODE").name, El("SCL", "INOUT_MODE").name}
    BY ListOfTwo
  <2>5. El("SDA", "INOUT_MODE").name = "SDA" /\ El("SCL", "INOUT_MODE").name = "SCL"
    BY <1>1
  <2> QED  BY <2>1, <2>2, <2>3, <2>4, <2>5
<1>3. ASSUME NEW n, NEW m, NEW rs, Description(c, role) = [io |-> <<El(n, m)>>, rules |-> rs],
             WiresOf(c, role) = [elements |-> {El(n, m)}, names |-> {n}, rules |-> rs]
      PROVE  /\ Range(Description(c, role).io) = WiresOf(c, role).elements
             /\ NamesOf(Description(c, role).io) = WiresOf(c, role).names
             /\ Description(c, role).rules = WiresOf(c, role).rules
  <2>1. Range(<<El(n, m)>>) = {El(n, m)} /\ NamesOf(<<El(n, m)>>) = {n}
    BY <1>1, ListOfOne
  <2> QED  BY <1>3, <2>1
<1>4. CASE c \in SignalClasses /\ role = "initiator"
  BY <1>3, <1>4 DEF Description, SignalDescription, WiresOf, El
<1>5. CASE c \in SignalClasses /\ role = "target"
  BY <1>3, <1>5 DEF Description, SignalDescription, WiresOf, El
<1>6. CASE c \in UartClasses /\ role = "initiator"
  BY <1>3, <1>6 DEF Description, UartDescription, WiresOf, El
<1>7. CASE c \in UartClasses /\ role = "target"
  BY <1>3, <1>7 DEF Description, UartDescription, WiresOf, El
<1>8. CASE c \in IRQClasses
  BY <1>8, EmptyList DEF Description, WiresOf
<1> QED  BY <1>2, <1>4, <1>5, <1>6, <1>7, <1>8 DEF Protocols, Roles

\* The constructors give each socket a map of rules, between names of theirs.
ConstructorNames == {"SDA", "SCL", "IO_IN", "IO_OUT", "RX", "TX"}

IsMap(rs) == \A r, q \in rs : r[1] = q[1] => r = q

LEMMA DescribedNames ==
    ASSUME NEW c \in UNION Protocols, NEW role \in Roles
    PROVE  /\ NamesOf(Description(c, role).io) \subseteq ConstructorNames
           /\ Description(c, role).rules \subseteq ConstructorNames \X ConstructorNames
           /\ IsMap(Description(c, role).rules)
<1>1. WiresOf(c, role).names \subseteq ConstructorNames
  BY DEF WiresOf, ConstructorNames
<1>2. /\ WiresOf(c, role).rules \subseteq ConstructorNames \X ConstructorNames
      /\ IsMap(WiresOf(c, role).rules)
  BY DEF WiresOf, ConstructorNames, IsMap
<1> QED  BY <1>1, <1>2, DescribedWires

\* The descriptions of an initiator and a target of one protocol fit together:
\* each element of the one is in a rule of the one or the other, a rule leads to
\* an element whose mode fits, and rules that meet there are the same wire.
FitTogether(D, E) ==
    /\ \A n \in NamesOf(D.io) : (\E r \in D.rules : r[1] = n) \/ (\E r \in E.rules : r[2] = n)
    /\ \A r \in D.rules :
         /\ \E x \in Range(D.io), y \in Range(E.io) :
              x.name = r[1] /\ y.name = r[2] /\ <<x.mode, y.mode>> \in Fitting
         /\ \A q \in E.rules : q[1] = r[2] => q[2] = r[1]

LEMMA DescriptionsMeet ==
    ASSUME NEW p \in Protocols, NEW c \in p, NEW d \in p,
           NEW r1 \in Roles, NEW r2 \in Roles, r1 # r2
    PROVE  FitTogether(Description(c, r1), Description(d, r2))
<1>1. c \in UNION Protocols /\ d \in UNION Protocols
  OBVIOUS
<1> DEFINE V == WiresOf(c, r1)
           W == WiresOf(d, r2)
           Meet == /\ \A n \in V.names : (\E r \in V.rules : r[1] = n) \/ (\E r \in W.rules : r[2] = n)
                   /\ \A r \in V.rules, q \in W.rules : q[1] = r[2] => q[2] = r[1]
                   /\ \A r \in V.rules : \E x \in V.elements, y \in W.elements :
                        x.name = r[1] /\ y.name = r[2] /\ <<x.mode, y.mode>> \in Fitting
<1>2. Meet
  <2> USE DEF I2CClasses, SignalClasses, UartClasses, IRQClasses
  <2>1. \A n, m : El(n, m).name = n /\ El(n, m).mode = m
    BY DEF El
  <2>2. CASE p = I2CClasses
    <3> DEFINE straight == {<<"SDA", "SDA">>, <<"SCL", "SCL">>}
    <3>1. /\ WiresOf(c, r1).names = {"SDA", "SCL"}
          /\ WiresOf(c, r1).elements = {El("SDA", "INOUT_MODE"), El("SCL", "INOUT_MODE")}
          /\ WiresOf(d, r2).elements = {El("SDA", "INOUT_MODE"), El("SCL", "INOUT_MODE")}
      BY <2>2 DEF WiresOf
    <3>2. /\ WiresOf(c, r1).rules \subseteq straight
          /\ WiresOf(d, r2).rules \subseteq straight
      BY <2>2 DEF WiresOf
    <3>3. WiresOf(c, r1).rules = straight \/ WiresOf(d, r2).rules = straight
      <4>1. ~(c = "I2CSimpleSocket" /\ r1 = "initiator") => WiresOf(c, r1).rules = straight
        BY <2>2 DEF WiresOf
      <4>2. ~(d = "I2CSimpleSocket" /\ r2 = "initiator") => WiresOf(d, r2).rules = straight
        BY <2>2 DEF WiresOf
      <4> QED  BY <4>1, <4>2
    <3>4. \A r \in straight : r[1] = r[2] /\ (r[1] = "SDA" \/ r[1] = "SCL")
      OBVIOUS
    <3>5. \A e \in {"SDA", "SCL"} : <<e, e>> \in straight
      OBVIOUS
    <3> HIDE DEF straight
    <3>6. \A e \in WiresOf(c, r1).names : \/ \E r \in WiresOf(c, r1).rules : r[1] = e
                                          \/ \E r \in WiresOf(d, r2).rules : r[2] = e
      BY <3>1, <3>3, <3>5
    <3>7. \A r \in WiresOf(c, r1).rules, q \in WiresOf(d, r2).rules : q[1] = r[2] => q[2] = r[1]
      BY <3>2, <3>4
    <3>8. ASSUME NEW r \in WiresOf(c, r1).rules
          PROVE  \E x \in WiresOf(c, r1).elements, y \in WiresOf(d, r2).elements :
                   x.name = r[1] /\ y.name = r[2] /\ <<x.mode, y.mode>> \in Fitting
      BY <2>1, <3>1, <3>2, <3>4 DEF Fitting
    <3> QED  BY <3>6, <3>7, <3>8
  <2>3. ASSUME NEW n1, NEW m1, NEW n2, NEW m2, <<m1, m2>> \in Fitting,
               WiresOf(c, r1).names = {n1},
               WiresOf(c, r1).rules = {<<n1, n2>>}, WiresOf(d, r2).rules = {<<n2, n1>>},
               WiresOf(c, r1).elements = {El(n1, m1)}, WiresOf(d, r2).elements = {El(n2, m2)}
        PROVE  Meet
    BY <2>1, <2>3
  <2> HIDE DEF Meet
  <2>4. CASE p = SignalClasses
    <3>1. CASE r1 = "initiator" /\ r2 = "target"
      BY <2>3, <2>4, <3>1 DEF WiresOf, Fitting
    <3>2. CASE r1 = "target" /\ r2 = "initiator"
      BY <2>3, <2>4, <3>2 DEF WiresOf, Fitting
    <3> QED  BY <3>1, <3>2 DEF Roles
  <2>5. CASE p = UartClasses
    <3>1. CASE r1 = "initiator" /\ r2 = "target"
      BY <2>3, <2>5, <3>1 DEF WiresOf, Fitting
    <3>2. CASE r1 = "target" /\ r2 = "initiator"
      BY <2>3, <2>5, <3>2 DEF WiresOf, Fitting
    <3> QED  BY <3>1, <3>2 DEF Roles
  <2>6. CASE p = IRQClasses
    BY <2>6 DEF WiresOf, Meet
  <2> QED  BY <2>2, <2>4, <2>5, <2>6 DEF Protocols
<1> DEFINE D == Description(c, r1)
           E == Description(d, r2)
<1>3. /\ Range(D.io) = V.elements /\ NamesOf(D.io) = V.names /\ D.rules = V.rules
      /\ Range(E.io) = W.elements /\ E.rules = W.rules
  BY <1>1, DescribedWires
<1> HIDE DEF D, E, V, W
<1>4. \A n \in NamesOf(D.io) : (\E r \in D.rules : r[1] = n) \/ (\E r \in E.rules : r[2] = n)
  BY <1>2, <1>3
<1>5. ASSUME NEW r \in D.rules
      PROVE  \E x \in Range(D.io), y \in Range(E.io) :
               x.name = r[1] /\ y.name = r[2] /\ <<x.mode, y.mode>> \in Fitting
  BY <1>2, <1>3
<1>6. ASSUME NEW r \in D.rules, NEW q \in E.rules, q[1] = r[2] PROVE q[2] = r[1]
  BY <1>2, <1>3, <1>6
<1>7. FitTogether(D, E)
  BY <1>4, <1>5, <1>6 DEF FitTogether
<1> QED  BY <1>7 DEF D, E

\* The rest of TypeOK is that rules are maps, and that only constructed sockets
\* are bound.
LEMMA TypesStep == ListsInv /\ ListsInv' /\ TypeOK /\ [Next]_vars => TypeOK'
<1> SUFFICES ASSUME ListsInv, ListsInv', TypeOK, [Next]_vars PROVE TypeOK'
  OBVIOUS
<1> DEFINE Rest == /\ class' \in Platforms
                   /\ \A s \in Sockets : IsMap(rules'[s])
                   /\ bound' \subseteq made' \X made'
                   /\ undefined' \in BOOLEAN
<1>1. class \in Platforms /\ bound \subseteq made \X made /\ undefined \in BOOLEAN /\ made \subseteq Sockets
  BY DEF TypeOK
<1>2. \A s \in Sockets : IsMap(rules[s])
  BY DEF TypeOK, IsMap
<1>3. Rest
  <2>1. ASSUME NEW d \in Devices, NEW r \in SUBSET Roles, Construct({d} \X r) PROVE Rest
    <3>1. \A s \in Sockets : class[s[1]] \in UNION Protocols /\ s[2] \in Roles
      BY DEF ListsInv, Sockets
    <3>2. \A s \in Sockets : IsMap(Description(class[s[1]], s[2]).rules)
      BY <3>1, DescribedNames
    <3>3. \A s \in Sockets : IsMap(rules'[s])
      BY <1>2, <2>1, <3>2 DEF Construct
    <3> QED  BY <1>1, <2>1, <3>3 DEF Construct
  <2>2. CASE NewBaseIO
    BY <1>1, <1>2, <2>2 DEF NewBaseIO
  <2>3. ASSUME NEW s \in Edited, GetBaseIO(s) \/ AddBaseIO(s) PROVE Rest
    BY <1>1, <1>2, <2>3 DEF GetBaseIO, AddBaseIO
  <2>4. ASSUME NEW e \in OwnElements, AddIOElement(e) PROVE Rest
    BY <1>1, <1>2, <2>4 DEF AddIOElement
  <2>5. ASSUME NEW s \in Edited, NEW n1 \in OwnNames, NEW n2 \in OwnNames, AddBindingRule(s, n1, n2)
        PROVE  Rest
    <3>1. s \in Sockets
      BY IODescriptionAssumption
    <3>2. IsMap(Assign(rules[s], n1, n2))
      BY <1>2, <3>1 DEF IsMap, Assign
    <3>3. \A t \in Sockets : IsMap(rules'[t])
      BY <1>2, <2>5, <3>1, <3>2 DEF AddBindingRule, ListsInv
    <3> QED  BY <1>1, <2>5, <3>3 DEF AddBindingRule
  <2>6. ASSUME NEW s \in Edited, NEW ind \in 0 .. MaxElements, GetIOElement(s, ind) PROVE Rest
    BY <1>1, <1>2, <2>6 DEF GetIOElement
  <2>7. ASSUME NEW d \in Devices, NEW e \in Devices, Bind(d, e) PROVE Rest
    <3>1. bound' \subseteq bound \cup (Sockets \X Sockets) /\ made = Sockets
      BY <2>7 DEF Bind, Sockets, Roles
    <3> QED  BY <1>1, <1>2, <2>7, <3>1 DEF Bind
  <2>8. CASE UNCHANGED vars
    BY <1>1, <1>2, <2>8 DEF vars
  <2> QED  BY <2>1, <2>2, <2>3, <2>4, <2>5, <2>6, <2>7, <2>8 DEF Next
<1>4. \A s \in Sockets : \A r, q \in rules'[s] : r[1] = q[1] => r = q
  BY <1>3 DEF IsMap
<1> QED  BY <1>3, <1>4 DEF TypeOK, ListsInv

\* The maps of rules stay maps whatever is assigned to them (base_socket.cpp:95).
THEOREM DescriptionTypes == Spec => []TypeOK
<1>1. Init => TypeOK
  <2>1. Init => ListsInv
    BY ListsInit
  <2> QED  BY <2>1 DEF Init, TypeOK, ListsInv
<1> QED  BY <1>1, TypesStep, ListsInvariant, PTL DEF Spec

-----------------------------------------------------------------------------
\* The constructor's rules of a socket are still there, and all others begin at an
\* element that a module has named; what is bound is an initiator and a target of
\* one protocol.
RulesKept(s, c, rs) ==
    /\ Description(c, s[2]).rules \subseteq rs
    /\ \A r \in rs : r[1] \notin OwnNames => r \in Description(c, s[2]).rules

MatedPair(b, d, e) == /\ b[1][2] \in Roles /\ b[2][2] \in Roles /\ b[1][2] # b[2][2]
                      /\ \E p \in Protocols : d \in p /\ e \in p

WireInv == /\ \A s \in made : RulesKept(s, class[s[1]], rules[s])
           /\ \A b \in bound : MatedPair(b, class[b[1][1]], class[b[2][1]])

LEMMA WireStep ==
    ASSUME OwnNames \cap ConstructorNames = {}
    PROVE  TypeOK /\ WireInv /\ [Next]_vars => WireInv'
<1> SUFFICES ASSUME TypeOK, WireInv, [Next]_vars PROVE WireInv'
  OBVIOUS
<1>1. /\ class \in [Devices -> UNION Protocols] /\ made \subseteq Sockets
      /\ rules \in [Sockets -> SUBSET (Names \X Names)]
  BY IODescriptionAssumption DEF TypeOK, Platform
<1>2. \A s \in made : RulesKept(s, class[s[1]], rules[s])
  BY DEF WireInv
<1>3. \A b \in bound : MatedPair(b, class[b[1][1]], class[b[2][1]])
  BY DEF WireInv
<1>4. CASE UNCHANGED <<class, made, rules, bound>>
  BY <1>2, <1>3, <1>4 DEF WireInv
<1>5. ASSUME NEW d \in Devices, NEW r \in SUBSET Roles, Construct({d} \X r) PROVE WireInv'
  <2>1. ASSUME NEW s \in made' PROVE RulesKept(s, class[s[1]], rules'[s])
    <3>1. s \in Sockets
      BY <1>1, <1>5 DEF Construct, Sockets
    <3>2. CASE s \in {d} \X r
      <4>1. rules'[s] = Description(class[s[1]], s[2]).rules
        BY <1>5, <3>1, <3>2 DEF Construct
      <4> QED  BY <4>1 DEF RulesKept
    <3>3. CASE s \notin {d} \X r
      <4>1. s \in made /\ rules'[s] = rules[s]
        BY <1>5, <3>1, <3>3 DEF Construct
      <4> QED  BY <1>2, <4>1
    <3> QED  BY <3>2, <3>3
  <2>2. class' = class /\ bound' = bound
    BY <1>5 DEF Construct
  <2> QED  BY <1>3, <2>1, <2>2 DEF WireInv
<1>6. ASSUME NEW t \in Edited, NEW n1 \in OwnNames, NEW n2 \in OwnNames, AddBindingRule(t, n1, n2)
      PROVE  WireInv'
  <2>1. ASSUME NEW s \in made PROVE RulesKept(s, class[s[1]], rules'[s])
    <3>1. RulesKept(s, class[s[1]], rules[s]) /\ s \in Sockets
      BY <1>1, <1>2
    <3>2. CASE s # t
      BY <1>1, <1>6, <3>1, <3>2 DEF AddBindingRule
    <3>3. CASE s = t
      <4>1. rules'[s] = {q \in rules[s] : q[1] # n1} \cup {<<n1, n2>>}
        BY <1>1, <1>6, <3>1, <3>3 DEF AddBindingRule, Assign
      <4>2. class[s[1]] \in UNION Protocols /\ s[2] \in Roles
        BY <1>1, <3>1 DEF Sockets
      <4>3. \A q \in Description(class[s[1]], s[2]).rules : q[1] \notin OwnNames
        <5>1. Description(class[s[1]], s[2]).rules \subseteq ConstructorNames \X ConstructorNames
          BY <4>2, DescribedNames
        <5> QED  BY <5>1
      <4> QED  BY <3>1, <4>1, <4>3 DEF RulesKept
    <3> QED  BY <3>2, <3>3
  <2>2. class' = class /\ bound' = bound /\ made' = made
    BY <1>6 DEF AddBindingRule
  <2> QED  BY <1>3, <2>1, <2>2 DEF WireInv
<1>7. ASSUME NEW d \in Devices, NEW e \in Devices, Bind(d, e) PROVE WireInv'
  <2>1. \E p \in Protocols : class[d] \in p /\ class[e] \in p
    <3>1. /\ \E p \in Protocols : class[d] \in p
          /\ \E p \in Protocols : class[e] \in p
      BY <1>1
    <3>2. class[d] \in ProtocolOf(d) /\ ProtocolOf(d) \in Protocols /\ class[e] \in ProtocolOf(e)
      BY <3>1 DEF ProtocolOf
    <3> QED  BY <1>7, <3>2 DEF Bind
  <2>2. ASSUME NEW b \in {<<<<d, "initiator">>, <<e, "target">>>>,
                          <<<<e, "initiator">>, <<d, "target">>>>}
        PROVE  MatedPair(b, class[b[1][1]], class[b[2][1]])
    BY <2>1 DEF MatedPair, Roles
  <2>3. /\ bound' \subseteq bound \cup {<<<<d, "initiator">>, <<e, "target">>>>,
                                        <<<<e, "initiator">>, <<d, "target">>>>}
        /\ class' = class /\ made' = made /\ rules' = rules
    BY <1>7 DEF Bind
  <2> QED  BY <1>2, <1>3, <2>2, <2>3 DEF WireInv
<1>8. ASSUME NEW s \in Edited, GetBaseIO(s) \/ AddBaseIO(s) PROVE WireInv'
  BY <1>4, <1>8 DEF GetBaseIO, AddBaseIO
<1>9. ASSUME NEW e \in OwnElements, AddIOElement(e) PROVE WireInv'
  BY <1>4, <1>9 DEF AddIOElement
<1>10. ASSUME NEW s \in Edited, NEW ind \in 0 .. MaxElements, GetIOElement(s, ind) PROVE WireInv'
  BY <1>4, <1>10 DEF GetIOElement
<1>11. CASE NewBaseIO \/ UNCHANGED vars
  BY <1>4, <1>11 DEF NewBaseIO, vars
<1> QED  BY <1>5, <1>6, <1>7, <1>8, <1>9, <1>10, <1>11 DEF Next

\* What a list begins with is in it.
LEMMA PrefixElements ==
    ASSUME NEW a \in Seq(Element), NEW b \in Seq(Element), IsPrefix(a, b)
    PROVE  Range(a) \subseteq Range(b)
<1>1. Len(a) <= Len(b) /\ SubSeq(a, 1, Len(a)) = SubSeq(b, 1, Len(a))
  BY DEF IsPrefix
<1>2. ASSUME NEW n \in 1 .. Len(a) PROVE a[n] = b[n]
  <2>1. SubSeq(a, 1, Len(a))[n] = a[n] /\ SubSeq(b, 1, Len(a))[n] = b[n]
    BY <1>1
  <2> QED  BY <1>1, <2>1
<1> QED  BY <1>1, <1>2 DEF Range

\* One direction of a bound pair.
LEMMA WiresOneWay ==
    ASSUME OwnNames \cap ConstructorNames = {}, TypeOK, WireInv,
           NEW s \in made, NEW t \in made, s[2] # t[2],
           NEW p \in Protocols, class[s[1]] \in p, class[t[1]] \in p,
           Extended(s), Extended(t), NEW e \in NamesOf(Description(class[s[1]], s[2]).io)
    PROVE  /\ (\E r \in rules[s] : r[1] = e) \/ (\E r \in rules[t] : r[2] = e)
           /\ \A r \in rules[s] : r[1] = e => Followed(s, t, e, r[2])
<1> DEFINE D == Description(class[s[1]], s[2])
           E == Description(class[t[1]], t[2])
<1>1. /\ s \in Sockets /\ t \in Sockets /\ s[2] \in Roles /\ t[2] \in Roles
      /\ class[s[1]] \in UNION Protocols /\ class[t[1]] \in UNION Protocols
      /\ io[s] \in Seq(Element) /\ io[t] \in Seq(Element)
  BY IODescriptionAssumption DEF TypeOK, Platform, Sockets
<1>2. FitTogether(D, E)
  BY <1>1, DescriptionsMeet
<1>3. /\ D.rules \subseteq rules[s] /\ E.rules \subseteq rules[t]
      /\ \A r \in rules[s] : r[1] \notin OwnNames => r \in D.rules
      /\ \A r \in rules[t] : r[1] \notin OwnNames => r \in E.rules
  BY DEF WireInv, RulesKept
<1>4. Range(D.io) \subseteq Range(io[s]) /\ Range(E.io) \subseteq Range(io[t])
  <2>1. D.io \in Seq(Element) /\ E.io \in Seq(Element)
    BY <1>1, DescriptionInOrder
  <2> QED  BY <1>1, <2>1, PrefixElements DEF Extended
<1>5. /\ e \notin OwnNames
      /\ \A r \in D.rules : r[2] \notin OwnNames
  <2>1. NamesOf(D.io) \subseteq ConstructorNames /\ D.rules \subseteq ConstructorNames \X ConstructorNames
    BY <1>1, DescribedNames
  <2> QED  BY <2>1
<1>6. e \in NamesOf(D.io)
  OBVIOUS
<1> HIDE DEF D, E
<1>7. ASSUME NEW r \in rules[s], r[1] = e PROVE Followed(s, t, e, r[2])
  <2>1. r \in D.rules
    BY <1>3, <1>5, <1>7
  <2>2. \E x \in Range(io[s]), y \in Range(io[t]) :
          x.name = e /\ y.name = r[2] /\ <<x.mode, y.mode>> \in Fitting
    BY <1>2, <1>4, <1>7, <2>1 DEF FitTogether
  <2>3. ASSUME NEW q \in rules[t], q[1] = r[2] PROVE q[2] = e
    BY <1>2, <1>3, <1>5, <1>7, <2>1, <2>3 DEF FitTogether
  <2> QED  BY <2>2, <2>3 DEF Followed
<1>8. (\E r \in rules[s] : r[1] = e) \/ (\E r \in rules[t] : r[2] = e)
  BY <1>2, <1>3, <1>6 DEF FitTogether
<1> QED  BY <1>7, <1>8

\* Bound sockets of one protocol are wired element to element, whatever classes they
\* are of and whatever modules do to their lists, as long as the elements that
\* modules add have names of their own.
THEOREM BoundSocketsAreWired ==
    ASSUME OwnNames \cap ConstructorNames = {}
    PROVE  Spec => []WiresMeet
<1>1. Init => WireInv
  BY DEF Init, WireInv
<1>2. TypeOK /\ WireInv /\ [Next]_vars => WireInv'
  BY WireStep
<1>3. TypeOK /\ WireInv => WiresMeet
  <2> SUFFICES ASSUME TypeOK, WireInv, NEW b \in bound, Extended(b[1]), Extended(b[2]),
                      NEW d \in {b, <<b[2], b[1]>>}
               PROVE  \A e \in NamesOf(Description(class[d[1][1]], d[1][2]).io) :
                        /\ \/ \E r \in rules[d[1]] : r[1] = e
                           \/ \E r \in rules[d[2]] : r[2] = e
                        /\ \A r \in rules[d[1]] : r[1] = e => Followed(d[1], d[2], e, r[2])
    BY DEF WiresMeet
  <2>1. b[1] \in made /\ b[2] \in made
    BY DEF TypeOK
  <2>2. MatedPair(b, class[b[1][1]], class[b[2][1]])
    BY DEF WireInv
  <2>3. PICK p \in Protocols : class[b[1][1]] \in p /\ class[b[2][1]] \in p
    BY <2>2 DEF MatedPair
  <2>4. b[1][2] # b[2][2]
    BY <2>2 DEF MatedPair
  <2>5. /\ d[1] \in made /\ d[2] \in made /\ d[1][2] # d[2][2]
        /\ class[d[1][1]] \in p /\ class[d[2][1]] \in p /\ Extended(d[1]) /\ Extended(d[2])
    BY <2>1, <2>3, <2>4
  <2> QED  BY <2>5, WiresOneWay
<1> QED  BY <1>1, <1>2, <1>3, DescriptionTypes, PTL DEF Spec
================================================================================
