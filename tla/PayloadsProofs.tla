---------------------------- MODULE PayloadsProofs ----------------------------
(***************************************************************************)
(* Theorems about payloads, their extensions and their copies, for any     *)
(* number of payloads, of extension types and of extension objects.        *)
(***************************************************************************)
EXTENDS Payloads, FiniteSetTheorems, TLAPS

-----------------------------------------------------------------------------
\* Every payload has a content, if only that of one that does not exist.
ContentInv == DOMAIN content = Payloads

\* The objects that exist are those somebody is to free ...
LiveInv == live = Attached \cup held \cup lost

\* ... one party each ...
ApartInv == /\ Attached \cap held = {}
            /\ Attached \cap lost = {}
            /\ held \cap lost = {}

\* ... and a slot shares its object with no other slot.
SlotInv ==
    \A p, q \in Payloads : \A i, j \in Slots :
        slots[p][i] # NoObject /\ slots[p][i] = slots[q][j] => p = q /\ i = j

OwnerInv == LiveInv /\ ApartInv /\ SlotInv

-----------------------------------------------------------------------------
\* Types.

LEMMA InitialValue == Initial \in Values
BY PayloadAssumption DEF Initial

\* A payload that ends.
LEMMA GoneType ==
  ASSUME TypeOK, ContentInv, NEW p \in Payloads, Gone(p)
  PROVE  /\ protocol' \in [Payloads -> Protocols \cup {NoProtocol}]
         /\ \A q \in Payloads :
              IF protocol'[q] = NoProtocol THEN content'[q] = <<>>
              ELSE content'[q] \in [Payload[protocol'[q]].fields -> Values]
         /\ DOMAIN content' = Payloads
         /\ sized' \subseteq {q \in Payloads : protocol'[q] # NoProtocol}
         /\ slots' \in [Payloads -> [Slots -> Objects \cup {NoObject}]]
         /\ \A q \in Payloads \ sized' : slots'[q] = NoSlots
         /\ lost' \subseteq Objects
<1>1. /\ protocol' = [protocol EXCEPT ![p] = NoProtocol]
      /\ content' = [content EXCEPT ![p] = <<>>]
      /\ sized' = sized \ {p}
      /\ slots' = [slots EXCEPT ![p] = NoSlots]
      /\ lost' = lost \cup ({slots[p][i] : i \in Slots} \ {NoObject})
  BY DEF Gone
<1>2. NoSlots \in [Slots -> Objects \cup {NoObject}]
  BY DEF NoSlots
<1>3. \A q \in Payloads :
        IF protocol'[q] = NoProtocol THEN content'[q] = <<>>
        ELSE content'[q] \in [Payload[protocol'[q]].fields -> Values]
  BY <1>1 DEF TypeOK, ContentInv
<1>4. DOMAIN content' = Payloads
  BY <1>1 DEF ContentInv
<1>5. {slots[p][i] : i \in Slots} \ {NoObject} \subseteq Objects
  BY DEF TypeOK
<1>6. \A q \in Payloads \ sized' : slots'[q] = NoSlots
  BY <1>1 DEF TypeOK
<1> QED BY <1>1, <1>2, <1>3, <1>4, <1>5, <1>6 DEF TypeOK

LEMMA LifeType ==
  ASSUME TypeOK, ContentInv, NEW p \in Payloads,
         \/ \E proto \in Protocols, b \in BOOLEAN : Construct(p, proto, b)
         \/ Destroy(p) \/ Acquire(p) \/ Release(p)
         \/ \E f \in DOMAIN content[p], v \in Values : SetField(p, f, v)
  PROVE  TypeOK' /\ ContentInv'
<1> USE DEF heapVars, baseVars
<1>1. ASSUME NEW proto \in Protocols, NEW b \in BOOLEAN, Construct(p, proto, b)
      PROVE  TypeOK' /\ ContentInv'
  <2>1. /\ protocol[p] = NoProtocol /\ protocol' = [protocol EXCEPT ![p] = proto]
        /\ content' = [content EXCEPT ![p] = [f \in Payload[proto].fields |-> Initial]]
        /\ mm' = [mm EXCEPT ![p] = FALSE] /\ count' = [count EXCEPT ![p] = 0]
        /\ copied' = NoCopy /\ UNCHANGED <<sized, slots, live, value, held, lost, stage>>
    BY <1>1 DEF Construct
  <2>2. proto # NoProtocol
    BY PayloadAssumption
  <2>3. ContentInv' /\ content'[p] = [f \in Payload[proto].fields |-> Initial]
        /\ \A q \in Payloads \ {p} : content'[q] = content[q]
    BY <2>1 DEF ContentInv
  <2>4. content'[p] \in [Payload[proto].fields -> Values]
    BY <2>3, InitialValue
  <2>5. protocol'[p] = proto /\ \A q \in Payloads \ {p} : protocol'[q] = protocol[q]
    BY <2>1 DEF TypeOK
  <2>6. \A q \in Payloads :
          IF protocol'[q] = NoProtocol THEN content'[q] = <<>>
          ELSE content'[q] \in [Payload[protocol'[q]].fields -> Values]
    BY <2>2, <2>3, <2>4, <2>5 DEF TypeOK
  <2>7. sized' \subseteq {q \in Payloads : protocol'[q] # NoProtocol}
    BY <2>1, <2>2, <2>5 DEF TypeOK
  <2>8. mm' \in [Payloads -> BOOLEAN] /\ count' \in [Payloads -> 0 .. MaxCount]
    BY <2>1, PayloadAssumption DEF TypeOK
  <2> QED BY <2>1, <2>3, <2>6, <2>7, <2>8 DEF TypeOK
<1>2. CASE Destroy(p)
  BY <1>2, GoneType DEF Destroy, TypeOK, ContentInv
<1>3. CASE Abort
  BY <1>3 DEF Abort, TypeOK, ContentInv
<1>4. CASE Acquire(p)
  <2>1. CASE ~mm[p]
    BY <1>3, <1>4, <2>1 DEF Acquire
  <2>2. CASE mm[p]
    <3>1. /\ count[p] < MaxCount /\ count' = [count EXCEPT ![p] = @ + 1] /\ copied' = NoCopy
          /\ UNCHANGED <<protocol, mm, content, sized, slots, live, value, held, lost, stage>>
      BY <1>4, <2>2 DEF Acquire
    <3>2. count' \in [Payloads -> 0 .. MaxCount]
      BY <3>1, PayloadAssumption DEF TypeOK
    <3> QED BY <3>1, <3>2 DEF TypeOK, ContentInv
  <2> QED BY <2>1, <2>2
<1>5. CASE Release(p)
  <2>1. CASE ~mm[p] \/ count[p] = 0
    BY <1>3, <1>5, <2>1 DEF Release
  <2>2. CASE ~(~mm[p] \/ count[p] = 0)
    <3>1. /\ count' = [count EXCEPT ![p] = @ - 1] /\ copied' = NoCopy
          /\ UNCHANGED <<mm, live, value, held, stage>>
          /\ Gone(p) \/ UNCHANGED <<protocol, content, sized, slots, lost>>
      BY <1>5, <2>2 DEF Release
    <3>2. count' \in [Payloads -> 0 .. MaxCount]
      BY <2>2, <3>1, PayloadAssumption DEF TypeOK
    <3> QED BY <3>1, <3>2, GoneType DEF TypeOK, ContentInv
  <2> QED BY <2>1, <2>2
<1>6. ASSUME NEW f \in DOMAIN content[p], NEW v \in Values, SetField(p, f, v)
      PROVE  TypeOK' /\ ContentInv'
  <2>1. /\ protocol[p] # NoProtocol /\ content' = [content EXCEPT ![p][f] = v]
        /\ copied' = NoCopy
        /\ UNCHANGED <<protocol, mm, count, sized, slots, live, value, held, lost, stage>>
    BY <1>6 DEF SetField, Exists
  <2>2. content'[p] = [content[p] EXCEPT ![f] = v] /\ ContentInv'
        /\ \A q \in Payloads \ {p} : content'[q] = content[q]
    BY <2>1 DEF ContentInv
  <2>3. content'[p] \in [Payload[protocol[p]].fields -> Values]
    BY <2>1, <2>2 DEF TypeOK
  <2> QED BY <2>1, <2>2, <2>3 DEF TypeOK
<1> QED BY <1>1, <1>2, <1>4, <1>5, <1>6

LEMMA SlotType ==
  ASSUME TypeOK, NEW p \in sized, NEW i \in Slots, NEW o \in Objects \cup {NoObject},
         slots' = [slots EXCEPT ![p][i] = o]
  PROVE  /\ slots' \in [Payloads -> [Slots -> Objects \cup {NoObject}]]
         /\ \A q \in Payloads \ sized : slots'[q] = NoSlots
         /\ slots[p][i] \in Objects \cup {NoObject}
<1>1. p \in Payloads
  BY DEF TypeOK
<1>2. [slots[p] EXCEPT ![i] = o] \in [Slots -> Objects \cup {NoObject}]
  BY <1>1 DEF TypeOK
<1> QED BY <1>1, <1>2 DEF TypeOK

LEMMA ExtensionType ==
  ASSUME TypeOK, ContentInv, NEW p \in Payloads,
         \/ ResizeExtensions(p) \/ GetExtension(p)
         \/ \E i \in Slots : ClearExtension(p, i) \/ ReleaseExtension(p, i)
         \/ \E i \in Slots, o \in Objects : SetExtension(p, i, o)
  PROVE  TypeOK' /\ ContentInv'
<1> USE DEF heapVars, baseVars
<1>1. CASE ResizeExtensions(p)
  BY <1>1 DEF ResizeExtensions, Exists, TypeOK, ContentInv
<1>2. CASE Abort
  BY <1>2 DEF Abort, TypeOK, ContentInv
<1>3. ASSUME NEW i \in Slots, ClearExtension(p, i), ~Abort PROVE TypeOK' /\ ContentInv'
  <2>1. p \in sized /\ slots[p][i] \in Objects \cup {NoObject}
    BY <1>3 DEF ClearExtension, TypeOK
  <2>2. slots' = [slots EXCEPT ![p][i] = NoObject] /\ copied' = NoCopy
        /\ UNCHANGED <<protocol, mm, count, content, sized, live, value, lost, stage>>
    BY <1>3, <2>1 DEF ClearExtension
  <2>3. held' \subseteq Objects
    BY <1>3, <2>1 DEF ClearExtension, TypeOK
  <2> QED BY <2>1, <2>2, <2>3, SlotType DEF TypeOK, ContentInv
<1>4. ASSUME NEW i \in Slots, ReleaseExtension(p, i), ~Abort PROVE TypeOK' /\ ContentInv'
  <2>1. p \in sized /\ (mm[p] \/ slots[p][i] \in Objects)
    BY <1>4 DEF ReleaseExtension, TypeOK
  <2>2. /\ copied' = NoCopy
        /\ UNCHANGED <<protocol, mm, count, content, sized, held, lost, stage>>
        /\ \/ UNCHANGED <<slots, live, value>>
           \/ /\ live' = live \ {slots[p][i]} /\ slots' = [slots EXCEPT ![p][i] = NoObject]
              /\ value' = [value EXCEPT ![slots[p][i]] = Initial]
    BY <1>4, <2>1 DEF ReleaseExtension
  <2>3. live' \subseteq Objects /\ value' \in [Objects -> Values]
    BY <2>2, InitialValue DEF TypeOK
  <2>4. /\ slots' \in [Payloads -> [Slots -> Objects \cup {NoObject}]]
        /\ \A q \in Payloads \ sized : slots'[q] = NoSlots
    BY <2>1, <2>2, SlotType DEF TypeOK
  <2> QED BY <2>2, <2>3, <2>4 DEF TypeOK, ContentInv
<1>5. ASSUME NEW i \in Slots, NEW o \in Objects, SetExtension(p, i, o), ~Abort
      PROVE  TypeOK' /\ ContentInv'
  <2>1. p \in sized /\ slots[p][i] \in Objects \cup {NoObject}
    BY <1>5 DEF SetExtension, TypeOK
  <2>2. slots' = [slots EXCEPT ![p][i] = o] /\ copied' = NoCopy
        /\ UNCHANGED <<protocol, mm, count, content, sized, live, value, lost, stage>>
    BY <1>5, <2>1 DEF SetExtension
  <2>3. held' \subseteq Objects
    BY <1>5, <2>1 DEF SetExtension, TypeOK
  <2> QED BY <2>1, <2>2, <2>3, SlotType DEF TypeOK, ContentInv
<1> QED BY <1>1, <1>2, <1>3, <1>4, <1>5 DEF GetExtension

LEMMA ObjectType ==
  ASSUME TypeOK, ContentInv, NEW o \in Objects,
         \/ DeleteExtension(o)
         \/ \E v \in Values : NewExtension(o, v) \/ WriteExtension(o, v)
  PROVE  TypeOK' /\ ContentInv'
BY InitialValue
   DEF DeleteExtension, NewExtension, WriteExtension, heapVars, baseVars, TypeOK, ContentInv

\* The copies.
LEMMA PresentType ==
  ASSUME TypeOK, NEW q \in Payloads
  PROVE  /\ Present(q) \subseteq Slots
         /\ \A i \in Present(q) : q \in sized /\ slots[q][i] \in Objects
         /\ \A i \in Slots \ Present(q) : slots[q][i] = NoObject
<1>1. q \notin sized => \A i \in Slots : slots[q][i] = NoObject
  BY DEF TypeOK, NoSlots
<1> QED BY <1>1 DEF Present, TypeOK

LEMMA CopyType ==
  ASSUME TypeOK, NEW p \in Payloads, NEW q \in Payloads, CopyExtensions(p, q),
         p \in sized \/ Present(q) = {}
  PROVE  /\ slots' \in [Payloads -> [Slots -> Objects \cup {NoObject}]]
         /\ \A r \in Payloads \ sized : slots'[r] = NoSlots
         /\ live' \subseteq Objects
         /\ value' \in [Objects -> Values]
<1> DEFINE cloned  == (Present(q) \ Present(p)) \cap Clonable
           updated == Present(q) \cap Present(p)
<1>1. PICK new \in [cloned -> Objects \ live] :
        /\ slots' = [slots EXCEPT ![p] =
                       [i \in Slots |-> IF i \in cloned THEN new[i] ELSE slots[p][i]]]
        /\ live' = live \cup {new[i] : i \in cloned}
        /\ value' = [o \in Objects |->
                       IF \E i \in cloned \cup updated : slots'[p][i] = o
                       THEN value[slots[q][CHOOSE i \in cloned \cup updated : slots'[p][i] = o]]
                       ELSE value[o]]
  BY DEF CopyExtensions
<1>2. cloned \subseteq Present(q) /\ updated \subseteq Present(q)
      /\ \A i \in Present(q) : slots[q][i] \in Objects
  BY PresentType
<1> HIDE DEF cloned, updated
<1>3. [i \in Slots |-> IF i \in cloned THEN new[i] ELSE slots[p][i]]
        \in [Slots -> Objects \cup {NoObject}]
  BY DEF TypeOK
<1>4. live' \subseteq Objects
  BY <1>1 DEF TypeOK
<1>5. value' \in [Objects -> Values]
  <2> SUFFICES ASSUME NEW o \in Objects
               PROVE  (IF \E i \in cloned \cup updated : slots'[p][i] = o
                       THEN value[slots[q][CHOOSE i \in cloned \cup updated : slots'[p][i] = o]]
                       ELSE value[o]) \in Values
    BY <1>1
  <2>1. CASE \E i \in cloned \cup updated : slots'[p][i] = o
    <3>1. (CHOOSE i \in cloned \cup updated : slots'[p][i] = o) \in Present(q)
      BY <1>2, <2>1
    <3> QED BY <1>2, <2>1, <3>1 DEF TypeOK
  <2>2. CASE ~\E i \in cloned \cup updated : slots'[p][i] = o
    BY <2>2 DEF TypeOK
  <2> QED BY <2>1, <2>2
<1>6. ASSUME NEW r \in Payloads \ sized PROVE slots'[r] = NoSlots
  <2>1. slots[r] = NoSlots /\ slots[r] \in [Slots -> Objects \cup {NoObject}]
    BY DEF TypeOK
  <2>2. r = p => cloned = {}
    BY DEF cloned
  <2>3. CASE r = p
    <3>1. slots'[p] = [i \in Slots |-> slots[p][i]]
      BY <1>1, <2>2, <2>3 DEF TypeOK
    <3> QED BY <2>1, <2>3, <3>1
  <2>4. CASE r # p
    BY <1>1, <2>1, <2>4 DEF TypeOK
  <2> QED BY <2>3, <2>4
<1> QED BY <1>1, <1>3, <1>4, <1>5, <1>6 DEF TypeOK

LEMMA DeepCopyType ==
  ASSUME TypeOK, ContentInv, NEW p \in Payloads, NEW q \in Payloads, DeepCopyFrom(p, q)
  PROVE  TypeOK' /\ ContentInv'
<1> USE DEF heapVars, baseVars
<1>1. CASE p \notin sized /\ Present(q) # {}
  BY <1>1 DEF DeepCopyFrom, Abort, TypeOK, ContentInv
<1>2. CASE ~(p \notin sized /\ Present(q) # {})
  <2> DEFINE F(f) == IF f \in Payload[protocol[p]].carried THEN content[q][f] ELSE content[p][f]
  <2>1. /\ protocol[p] # NoProtocol /\ protocol[q] = protocol[p]
        /\ content' = [content EXCEPT ![p] = [f \in DOMAIN content[p] |-> F(f)]]
        /\ CopyExtensions(p, q) /\ copied' = [to |-> p, from |-> q]
        /\ UNCHANGED <<protocol, mm, count, sized, held, lost, stage>>
    BY <1>2 DEF DeepCopyFrom, Exists, ContentInv
  <2>2. /\ content[p] \in [Payload[protocol[p]].fields -> Values]
        /\ content[q] \in [Payload[protocol[p]].fields -> Values]
    BY <2>1 DEF TypeOK
  <2>3. [f \in DOMAIN content[p] |-> F(f)] \in [Payload[protocol[p]].fields -> Values]
    BY <2>2
  <2> HIDE DEF F
  <2>4. /\ content'[p] \in [Payload[protocol[p]].fields -> Values] /\ ContentInv'
        /\ \A r \in Payloads \ {p} : content'[r] = content[r]
    BY <2>1, <2>3 DEF ContentInv
  <2>5. \A r \in Payloads :
          IF protocol'[r] = NoProtocol THEN content'[r] = <<>>
          ELSE content'[r] \in [Payload[protocol'[r]].fields -> Values]
    BY <2>1, <2>4 DEF TypeOK
  <2> QED BY <1>2, <2>1, <2>4, <2>5, CopyType DEF TypeOK
<1> QED BY <1>1, <1>2

LEMMA UpdateType ==
  ASSUME TypeOK, ContentInv, NEW p \in Payloads, NEW q \in Payloads, UpdateExtensionsFrom(p, q)
  PROVE  TypeOK' /\ ContentInv'
<1> USE DEF heapVars, baseVars
<1>1. CASE p \in sized /\ q \notin sized
  BY <1>1 DEF UpdateExtensionsFrom, Abort, TypeOK, ContentInv
<1>2. CASE ~(p \in sized /\ q \notin sized)
  <2> DEFINE both == Present(p) \cap Present(q)
             V(o) == IF \E i \in both : slots[p][i] = o
                     THEN value[slots[q][CHOOSE i \in both : slots[p][i] = o]]
                     ELSE value[o]
  <2>1. /\ value' = [o \in Objects |-> V(o)] /\ copied' = NoCopy
        /\ UNCHANGED <<protocol, mm, count, content, sized, slots, live, held, lost, stage>>
    BY <1>2 DEF UpdateExtensionsFrom
  <2>2. ASSUME NEW o \in Objects PROVE V(o) \in Values
    <3>1. CASE \E i \in both : slots[p][i] = o
      <4>1. (CHOOSE i \in both : slots[p][i] = o) \in Present(q)
        BY <3>1
      <4>2. slots[q][CHOOSE i \in both : slots[p][i] = o] \in Objects
        BY <4>1, PresentType
      <4> QED BY <3>1, <4>2 DEF TypeOK
    <3>2. CASE ~\E i \in both : slots[p][i] = o
      BY <3>2 DEF TypeOK
    <3> QED BY <3>1, <3>2
  <2> HIDE DEF V
  <2>3. value' \in [Objects -> Values]
    BY <2>1, <2>2
  <2> QED BY <2>1, <2>3 DEF TypeOK, ContentInv
<1> QED BY <1>1, <1>2

\* The state keeps its types, whatever is done to payloads and extensions.
THEOREM PayloadTypes == Spec => [](TypeOK /\ ContentInv)
<1>1. Init => TypeOK /\ ContentInv
  <2> SUFFICES ASSUME Init PROVE TypeOK /\ ContentInv
    OBVIOUS
  <2>1. NoSlots \in [Slots -> Objects \cup {NoObject}]
    BY DEF NoSlots
  <2>2. 0 \in 0 .. MaxCount
    BY PayloadAssumption
  <2> QED BY <2>1, <2>2, InitialValue DEF Init, TypeOK, ContentInv
<1>2. (TypeOK /\ ContentInv) /\ [Next]_vars => (TypeOK /\ ContentInv)'
  <2> SUFFICES ASSUME TypeOK, ContentInv, [Next]_vars PROVE TypeOK' /\ ContentInv'
    OBVIOUS
  <2>1. CASE UNCHANGED vars
    BY <2>1 DEF vars, baseVars, heapVars, TypeOK, ContentInv
  <2> QED BY <2>1, LifeType, ExtensionType, ObjectType, DeepCopyType, UpdateType
          DEF Next, SetAutoExtension
<1> QED BY <1>1, <1>2, PTL DEF Spec

-----------------------------------------------------------------------------
\* The owners of the extension objects.

LEMMA AttachedFacts ==
  ASSUME NEW p \in Payloads, NEW i \in Slots, slots[p][i] # NoObject
  PROVE  slots[p][i] \in Attached
BY DEF Attached

\* One slot changes: the object it gets was in no slot.
LEMMA SlotChanges ==
  ASSUME TypeOK, OwnerInv, NEW p \in Payloads, NEW i \in Slots,
         NEW o \in Objects \cup {NoObject}, o \notin Attached,
         slots' = [slots EXCEPT ![p][i] = o]
  PROVE  /\ Attached' = (Attached \ {slots[p][i]}) \cup ({o} \ {NoObject})
         /\ SlotInv'
<1>1. /\ slots'[p][i] = o
      /\ \A q \in Payloads : \A j \in Slots : q # p \/ j # i => slots'[q][j] = slots[q][j]
  BY DEF TypeOK
<1>2. SlotInv'
  <2> SUFFICES ASSUME NEW q \in Payloads, NEW r \in Payloads, NEW j \in Slots, NEW k \in Slots,
                      slots'[q][j] # NoObject, slots'[q][j] = slots'[r][k]
               PROVE  q = r /\ j = k
    BY DEF SlotInv
  <2>1. \A t \in Payloads : \A m \in Slots : slots[t][m] = o => o = NoObject
    BY AttachedFacts
  <2> QED BY <1>1, <2>1 DEF OwnerInv, SlotInv
<1>3. ASSUME NEW d \in Attached' PROVE d \in (Attached \ {slots[p][i]}) \cup ({o} \ {NoObject})
  <2>1. PICK q \in Payloads, j \in Slots : d = slots'[q][j] /\ d # NoObject
    BY DEF Attached
  <2>2. CASE q = p /\ j = i
    BY <1>1, <2>1, <2>2
  <2>3. CASE ~(q = p /\ j = i)
    <3>1. d = slots[q][j] /\ d \in Attached
      BY <1>1, <2>1, <2>3, AttachedFacts
    <3>2. d # slots[p][i]
      BY <2>1, <2>3, <3>1 DEF OwnerInv, SlotInv
    <3> QED BY <3>1, <3>2
  <2> QED BY <2>2, <2>3
<1>4. ASSUME NEW d \in (Attached \ {slots[p][i]}) \cup ({o} \ {NoObject}) PROVE d \in Attached'
  <2>1. CASE d = o /\ o # NoObject
    BY <1>1, <2>1 DEF Attached
  <2>2. CASE d \in Attached /\ d # slots[p][i]
    <3>1. PICK q \in Payloads, j \in Slots : d = slots[q][j] /\ d # NoObject
      BY <2>2 DEF Attached
    <3>2. slots'[q][j] = d
      BY <1>1, <2>2, <3>1
    <3> QED BY <3>1, <3>2 DEF Attached
  <2> QED BY <2>1, <2>2
<1> QED BY <1>2, <1>3, <1>4

LEMMA QuietOwners ==
  ASSUME OwnerInv, UNCHANGED <<slots, live, held, lost>>
  PROVE  OwnerInv'
BY DEF OwnerInv, LiveInv, ApartInv, SlotInv, Attached

\* The destructor leaves the objects of the payload behind.
LEMMA GoneOwners ==
  ASSUME TypeOK, OwnerInv, NEW p \in Payloads, Gone(p), UNCHANGED <<live, held>>
  PROVE  OwnerInv'
<1> DEFINE mine == {slots[p][i] : i \in Slots} \ {NoObject}
<1>1. /\ lost' = lost \cup mine
      /\ \A i \in Slots : slots'[p][i] = NoObject
      /\ \A q \in Payloads \ {p} : slots'[q] = slots[q]
  BY DEF Gone, TypeOK, NoSlots
<1>2. mine \subseteq Attached
  BY AttachedFacts
<1>3. Attached' = Attached \ mine
  <2>1. ASSUME NEW d \in Attached' PROVE d \in Attached \ mine
    <3>1. PICK q \in Payloads, i \in Slots : d = slots'[q][i] /\ d # NoObject
      BY DEF Attached
    <3>2. q # p /\ d = slots[q][i] /\ d \in Attached
      BY <1>1, <3>1, AttachedFacts
    <3>3. \A j \in Slots : d # slots[p][j]
      BY <3>1, <3>2 DEF OwnerInv, SlotInv
    <3> QED BY <3>2, <3>3
  <2>2. ASSUME NEW d \in Attached \ mine PROVE d \in Attached'
    <3>1. PICK q \in Payloads, i \in Slots : d = slots[q][i] /\ d # NoObject
      BY DEF Attached
    <3>2. q # p
      BY <2>2, <3>1
    <3> QED BY <1>1, <3>1, <3>2 DEF Attached
  <2> QED BY <2>1, <2>2
<1>4. SlotInv'
  BY <1>1 DEF OwnerInv, SlotInv
<1> HIDE DEF mine
<1>5. LiveInv' /\ ApartInv'
  BY <1>1, <1>2, <1>3 DEF OwnerInv, LiveInv, ApartInv
<1> QED BY <1>4, <1>5 DEF OwnerInv

LEMMA LifeOwners ==
  ASSUME TypeOK, OwnerInv, NEW p \in Payloads,
         \/ \E proto \in Protocols, b \in BOOLEAN : Construct(p, proto, b)
         \/ Destroy(p) \/ Acquire(p) \/ Release(p)
         \/ \E f \in DOMAIN content[p], v \in Values : SetField(p, f, v)
  PROVE  OwnerInv'
<1>1. \/ UNCHANGED <<slots, live, held, lost>>
      \/ Gone(p) /\ UNCHANGED <<live, held>>
  BY DEF Construct, Destroy, Acquire, Release, SetField, Abort, heapVars
<1> QED BY <1>1, QuietOwners, GoneOwners

LEMMA ExtensionOwners ==
  ASSUME TypeOK, OwnerInv, NEW p \in Payloads,
         \/ ResizeExtensions(p) \/ GetExtension(p)
         \/ \E i \in Slots : ClearExtension(p, i) \/ ReleaseExtension(p, i)
         \/ \E i \in Slots, o \in Objects : SetExtension(p, i, o)
  PROVE  OwnerInv'
<1>1. CASE UNCHANGED <<slots, live, held, lost>>
  BY <1>1, QuietOwners
<1>2. ASSUME NEW i \in Slots, ClearExtension(p, i) PROVE OwnerInv'
  <2>1. CASE p \notin sized
    BY <1>1, <1>2, <2>1 DEF ClearExtension, Abort, heapVars
  <2>2. CASE p \in sized
    <3>1. /\ slots' = [slots EXCEPT ![p][i] = NoObject]
          /\ held' = held \cup ({slots[p][i]} \ {NoObject})
          /\ UNCHANGED <<live, lost>>
      BY <1>2, <2>2 DEF ClearExtension
    <3>2. NoObject \notin Attached /\ (slots[p][i] # NoObject => slots[p][i] \in Attached)
      BY AttachedFacts DEF Attached
    <3>3. Attached' = Attached \ {slots[p][i]} /\ SlotInv'
      <4>1. NoObject \in Objects \cup {NoObject}
        OBVIOUS
      <4>2. /\ Attached' = (Attached \ {slots[p][i]}) \cup ({NoObject} \ {NoObject})
            /\ SlotInv'
        BY <3>1, <3>2, <4>1, SlotChanges
      <4> QED BY <4>2
    <3>4. LiveInv' /\ ApartInv'
      BY <3>1, <3>2, <3>3 DEF OwnerInv, LiveInv, ApartInv
    <3> QED BY <3>3, <3>4 DEF OwnerInv
  <2> QED BY <2>1, <2>2
<1>3. ASSUME NEW i \in Slots, ReleaseExtension(p, i) PROVE OwnerInv'
  <2>1. CASE UNCHANGED <<slots, live>>
    BY <1>1, <1>3, <2>1 DEF ReleaseExtension, Abort, heapVars
  <2>2. CASE ~UNCHANGED <<slots, live>>
    <3>1. /\ slots' = [slots EXCEPT ![p][i] = NoObject] /\ live' = live \ {slots[p][i]}
          /\ slots[p][i] # NoObject /\ UNCHANGED <<held, lost>>
      BY <1>3, <2>2 DEF ReleaseExtension, Abort, heapVars
    <3>2. NoObject \notin Attached /\ slots[p][i] \in Attached
      BY <3>1, AttachedFacts DEF Attached
    <3>3. Attached' = Attached \ {slots[p][i]} /\ SlotInv'
      <4>1. NoObject \in Objects \cup {NoObject}
        OBVIOUS
      <4>2. /\ Attached' = (Attached \ {slots[p][i]}) \cup ({NoObject} \ {NoObject})
            /\ SlotInv'
        BY <3>1, <3>2, <4>1, SlotChanges
      <4> QED BY <4>2
    <3>4. LiveInv' /\ ApartInv'
      BY <3>1, <3>2, <3>3 DEF OwnerInv, LiveInv, ApartInv
    <3> QED BY <3>3, <3>4 DEF OwnerInv
  <2> QED BY <2>1, <2>2
<1>4. ASSUME NEW i \in Slots, NEW o \in Objects, SetExtension(p, i, o) PROVE OwnerInv'
  <2>1. CASE p \notin sized
    BY <1>1, <1>4, <2>1 DEF SetExtension, Abort, heapVars
  <2>2. CASE p \in sized
    <3>1. /\ o \in held /\ slots' = [slots EXCEPT ![p][i] = o]
          /\ held' = (held \ {o}) \cup ({slots[p][i]} \ {NoObject})
          /\ UNCHANGED <<live, lost>>
      BY <1>4, <2>2 DEF SetExtension
    <3>2. o \notin Attached /\ o # NoObject /\ o \in live
          /\ (slots[p][i] # NoObject => slots[p][i] \in Attached) /\ NoObject \notin Attached
      BY <3>1, AttachedFacts, PayloadAssumption DEF Attached, OwnerInv, ApartInv, LiveInv
    <3>3. Attached' = (Attached \ {slots[p][i]}) \cup {o} /\ SlotInv'
      <4>1. o \in Objects \cup {NoObject}
        OBVIOUS
      <4>2. /\ Attached' = (Attached \ {slots[p][i]}) \cup ({o} \ {NoObject})
            /\ SlotInv'
        BY <3>1, <3>2, <4>1, SlotChanges
      <4> QED BY <3>2, <4>2
    <3>4. LiveInv' /\ ApartInv'
      BY <3>1, <3>2, <3>3 DEF OwnerInv, LiveInv, ApartInv
    <3> QED BY <3>3, <3>4 DEF OwnerInv
  <2> QED BY <2>1, <2>2
<1> QED BY <1>1, <1>2, <1>3, <1>4 DEF ResizeExtensions, GetExtension, Abort, heapVars

LEMMA ObjectOwners ==
  ASSUME OwnerInv, NEW o \in Objects,
         \/ DeleteExtension(o)
         \/ \E v \in Values : NewExtension(o, v) \/ WriteExtension(o, v)
  PROVE  OwnerInv'
<1>1. slots' = slots /\ lost' = lost
  BY DEF DeleteExtension, NewExtension, WriteExtension, heapVars
<1>2. Attached' = Attached /\ SlotInv'
  BY <1>1 DEF Attached, OwnerInv, SlotInv
<1>3. LiveInv' /\ ApartInv'
  BY <1>1, <1>2
     DEF DeleteExtension, NewExtension, WriteExtension, OwnerInv, LiveInv, ApartInv
<1> QED BY <1>2, <1>3 DEF OwnerInv

\* The clones of a deep copy belong to the destination alone.
LEMMA CopyOwners ==
  ASSUME TypeOK, OwnerInv, NEW p \in Payloads, NEW q \in Payloads, CopyExtensions(p, q),
         UNCHANGED <<held, lost>>
  PROVE  OwnerInv'
<1> DEFINE cloned == (Present(q) \ Present(p)) \cap Clonable
<1>1. PICK new \in [cloned -> Objects \ live] :
        /\ \A i, j \in cloned : new[i] = new[j] => i = j
        /\ slots' = [slots EXCEPT ![p] =
                       [i \in Slots |-> IF i \in cloned THEN new[i] ELSE slots[p][i]]]
        /\ live' = live \cup {new[i] : i \in cloned}
  BY DEF CopyExtensions
<1>2. cloned \subseteq Slots /\ \A i \in cloned : slots[p][i] = NoObject
  BY PresentType
<1> HIDE DEF cloned
<1>3. /\ \A r \in Payloads : \A i \in Slots :
            slots'[r][i] = IF r = p /\ i \in cloned THEN new[i] ELSE slots[r][i]
      /\ \A i \in cloned : new[i] \notin live /\ new[i] # NoObject
  BY <1>1, PayloadAssumption DEF TypeOK
<1>4. \A r \in Payloads : \A i \in Slots : slots[r][i] # NoObject => slots[r][i] \in live
  BY AttachedFacts DEF OwnerInv, LiveInv
<1>5. SlotInv'
  <2> SUFFICES ASSUME NEW r \in Payloads, NEW t \in Payloads, NEW i \in Slots, NEW j \in Slots,
                      slots'[r][i] # NoObject, slots'[r][i] = slots'[t][j]
               PROVE  r = t /\ i = j
    BY DEF SlotInv
  <2>1. CASE r = p /\ i \in cloned
    BY <1>1, <1>3, <1>4, <2>1
  <2>2. CASE t = p /\ j \in cloned
    BY <1>1, <1>3, <1>4, <2>2
  <2>3. CASE ~(r = p /\ i \in cloned) /\ ~(t = p /\ j \in cloned)
    BY <1>3, <2>3 DEF OwnerInv, SlotInv
  <2> QED BY <2>1, <2>2, <2>3
<1>6. Attached' = Attached \cup {new[i] : i \in cloned}
  <2>1. ASSUME NEW d \in Attached' PROVE d \in Attached \cup {new[i] : i \in cloned}
    <3>1. PICK r \in Payloads, i \in Slots : d = slots'[r][i] /\ d # NoObject
      BY DEF Attached
    <3>2. CASE r = p /\ i \in cloned
      BY <1>3, <3>1, <3>2
    <3>3. CASE ~(r = p /\ i \in cloned)
      BY <1>3, <3>1, <3>3, AttachedFacts
    <3> QED BY <3>2, <3>3
  <2>2. ASSUME NEW d \in Attached PROVE d \in Attached'
    <3>1. PICK r \in Payloads, i \in Slots : d = slots[r][i] /\ d # NoObject
      BY DEF Attached
    <3>2. slots'[r][i] = d
      BY <1>2, <1>3, <3>1
    <3> QED BY <3>1, <3>2 DEF Attached
  <2>3. ASSUME NEW i \in cloned PROVE new[i] \in Attached'
    <3>1. slots'[p][i] = new[i] /\ new[i] # NoObject /\ i \in Slots
      BY <1>2, <1>3
    <3> QED BY <3>1 DEF Attached
  <2> QED BY <2>1, <2>2, <2>3
<1>7. LiveInv' /\ ApartInv'
  BY <1>1, <1>3, <1>6 DEF OwnerInv, LiveInv, ApartInv
<1> QED BY <1>5, <1>7 DEF OwnerInv

\* The inductive invariant of the extension objects.
THEOREM PayloadInvariant == Spec => [](TypeOK /\ OwnerInv)
<1>1. Init => OwnerInv
  BY DEF Init, OwnerInv, LiveInv, ApartInv, SlotInv, Attached, NoSlots
<1>2. (TypeOK /\ ContentInv) /\ OwnerInv /\ [Next]_vars => OwnerInv'
  <2> SUFFICES ASSUME TypeOK, OwnerInv, [Next]_vars PROVE OwnerInv'
    OBVIOUS
  <2>1. CASE UNCHANGED vars
    BY <2>1, QuietOwners DEF vars, heapVars
  <2>2. ASSUME NEW p \in Payloads, NEW q \in Payloads,
               DeepCopyFrom(p, q) \/ UpdateExtensionsFrom(p, q)
        PROVE  OwnerInv'
    <3>1. \/ UNCHANGED <<slots, live, held, lost>>
          \/ CopyExtensions(p, q) /\ UNCHANGED <<held, lost>>
      BY <2>2 DEF DeepCopyFrom, UpdateExtensionsFrom, Abort, heapVars
    <3> QED BY <3>1, QuietOwners, CopyOwners
  <2> QED BY <2>1, <2>2, LifeOwners, ExtensionOwners, ObjectOwners DEF Next, SetAutoExtension
<1> QED BY <1>1, <1>2, PayloadTypes, PTL DEF Spec

\* An extension object that exists has one owner, and one that was freed none:
\* no copy shares an object and none is freed twice.
THEOREM OneOwner == Spec => []ExactlyOneOwner
<1>1. TypeOK /\ OwnerInv => ExactlyOneOwner
  <2> SUFFICES ASSUME TypeOK, OwnerInv, NEW o \in Objects
               PROVE  Owners(o) = IF o \in live THEN 1 ELSE 0
    BY DEF ExactlyOneOwner
  <2>1. Cardinality({}) = 0 /\ Cardinality({o}) = 1
    BY FS_EmptySet, FS_Singleton
  <2>2. Cardinality({o} \cap held) = IF o \in held THEN 1 ELSE 0
    <3>1. {o} \cap held = IF o \in held THEN {o} ELSE {}
      OBVIOUS
    <3> QED BY <2>1, <3>1
  <2>3. Cardinality({o} \cap lost) = IF o \in lost THEN 1 ELSE 0
    <3>1. {o} \cap lost = IF o \in lost THEN {o} ELSE {}
      OBVIOUS
    <3> QED BY <2>1, <3>1
  <2>4. Cardinality(SlotsOf(o)) = IF o \in Attached THEN 1 ELSE 0
    <3>1. CASE o \notin Attached
      <4>1. \A p \in Payloads : \A i \in Slots : slots[p][i] # o
        BY <3>1, AttachedFacts, PayloadAssumption
      <4>2. SlotsOf(o) = {}
        BY <4>1 DEF SlotsOf
      <4> QED BY <2>1, <3>1, <4>2
    <3>2. CASE o \in Attached
      <4>1. PICK p \in Payloads, i \in Slots : slots[p][i] = o /\ o # NoObject
        BY <3>2 DEF Attached
      <4>2. ASSUME NEW s \in SlotsOf(o) PROVE s = <<p, i>>
        <5>1. s[1] \in Payloads /\ s[2] \in Slots /\ s = <<s[1], s[2]>> /\ slots[s[1]][s[2]] = o
          BY DEF SlotsOf
        <5> QED BY <4>1, <5>1 DEF OwnerInv, SlotInv
      <4>3. <<p, i>> \in SlotsOf(o)
        BY <4>1 DEF SlotsOf
      <4>4. SlotsOf(o) = {<<p, i>>}
        BY <4>2, <4>3
      <4> QED BY <3>2, <4>4, FS_Singleton
    <3> QED BY <3>1, <3>2
  <2> QED BY <2>2, <2>3, <2>4 DEF Owners, OwnerInv, LiveInv, ApartInv
<1> QED BY <1>1, PayloadInvariant, PTL

-----------------------------------------------------------------------------
\* The deep copy, with every extension that can be cloned and its value; the
\* objects of the destination stay where they are and the source is left alone.
THEOREM DeepCopyBringsExtensions == Spec => CopyBringsExtensions
<1> DEFINE Brings(p, q) ==
      /\ slots'[q] = slots[q]
      /\ \A i \in Present(q) : value'[slots[q][i]] = value[slots[q][i]]
      /\ \A i \in Present(p) : slots'[p][i] = slots[p][i]
      /\ \A i \in Present(p) \ Present(q) : value'[slots[p][i]] = value[slots[p][i]]
      /\ \A i \in Present(q) :
           IF i \in Clonable \cup Present(p)
           THEN slots'[p][i] # NoObject /\ value'[slots'[p][i]] = value[slots[q][i]]
           ELSE slots'[p][i] = NoObject
<1>1. ASSUME TypeOK, OwnerInv, NEW p \in Payloads, NEW q \in Payloads, p # q,
             CopyExtensions(p, q)
      PROVE  Brings(p, q)
  <2> DEFINE cloned  == (Present(q) \ Present(p)) \cap Clonable
             updated == Present(q) \cap Present(p)
             both    == cloned \cup updated
             Slot(o) == CHOOSE i \in both : slots'[p][i] = o
  <2>1. PICK new \in [cloned -> Objects \ live] :
          /\ \A i, j \in cloned : new[i] = new[j] => i = j
          /\ slots' = [slots EXCEPT ![p] =
                         [i \in Slots |-> IF i \in cloned THEN new[i] ELSE slots[p][i]]]
          /\ value' = [o \in Objects |-> IF \E i \in both : slots'[p][i] = o
                                         THEN value[slots[q][Slot(o)]] ELSE value[o]]
    BY <1>1 DEF CopyExtensions
  <2>2. /\ cloned \subseteq Slots /\ cloned \cap Present(p) = {} /\ both \subseteq Present(q)
        /\ Present(p) \subseteq Slots /\ Present(q) \subseteq Slots
        /\ \A i \in Present(p) : slots[p][i] \in Objects
        /\ \A i \in Present(q) : slots[q][i] \in Objects
        /\ \A i \in Slots \ Present(p) : slots[p][i] = NoObject
    BY <1>1, PresentType
  <2>3. \A i \in Present(q) : i \in both <=> i \in Clonable \cup Present(p)
    OBVIOUS
  <2>4. \A i \in both : i \in cloned \/ i \in Present(p)
    OBVIOUS
  <2>5. \A i \in both : i \in Present(p) => i \in Present(q)
    OBVIOUS
  <2> HIDE DEF cloned, both, Slot
  <2>6. /\ slots'[q] = slots[q]
        /\ \A i \in Slots : slots'[p][i] = IF i \in cloned THEN new[i] ELSE slots[p][i]
    BY <1>1, <2>1 DEF TypeOK
  <2>7. /\ \A i \in cloned : new[i] \in Objects /\ new[i] \notin live /\ new[i] # NoObject
        /\ \A r \in Payloads : \A i \in Present(r) : slots[r][i] \in live /\ slots[r][i] # NoObject
    BY <1>1, <2>1, AttachedFacts, PresentType, PayloadAssumption DEF OwnerInv, LiveInv
  <2>8. \A i \in both : slots'[p][i] \in Objects /\ slots'[p][i] # NoObject
    BY <1>1, <2>2, <2>4, <2>6, <2>7
  <2>9. \A i, j \in both : slots'[p][i] = slots'[p][j] => i = j
    BY <1>1, <2>1, <2>2, <2>4, <2>6, <2>7 DEF OwnerInv, SlotInv
  <2>10. \A i \in both : value'[slots'[p][i]] = value[slots[q][i]]
    <3> TAKE i \in both
    <3>1. Slot(slots'[p][i]) = i
      BY <2>9 DEF Slot
    <3> QED BY <2>1, <2>8, <3>1
  <2>11. ASSUME NEW o \in Objects, \A i \in both : slots'[p][i] # o
         PROVE  value'[o] = value[o]
    BY <2>1, <2>11
  <2>12. ASSUME NEW i \in Present(q) PROVE value'[slots[q][i]] = value[slots[q][i]]
    <3>1. \A j \in both : slots'[p][j] # slots[q][i]
      BY <1>1, <2>2, <2>4, <2>6, <2>7 DEF OwnerInv, SlotInv
    <3> QED BY <2>2, <2>11, <3>1
  <2>13. ASSUME NEW i \in Present(p) \ Present(q) PROVE value'[slots[p][i]] = value[slots[p][i]]
    <3>1. \A j \in both : slots'[p][j] # slots[p][i]
      BY <1>1, <2>2, <2>4, <2>6, <2>7 DEF OwnerInv, SlotInv
    <3> QED BY <2>2, <2>11, <3>1
  <2>14. \A i \in Present(p) : slots'[p][i] = slots[p][i]
    BY <2>2, <2>6
  <2>15. \A i \in Present(q) \ both : slots'[p][i] = NoObject
    BY <2>2, <2>3, <2>6 DEF both
  <2> QED BY <2>3, <2>6, <2>8, <2>10, <2>12, <2>13, <2>14, <2>15
<1>2. TypeOK /\ OwnerInv /\ [Next]_vars
        => [copied' # NoCopy => Brings(copied'.to, copied'.from)]_vars
  <2> SUFFICES ASSUME TypeOK, OwnerInv, Next, copied' # NoCopy
               PROVE  Brings(copied'.to, copied'.from)
    OBVIOUS
  <2>1. PICK p \in Payloads, q \in Payloads : DeepCopyFrom(p, q)
    BY DEF Next, Construct, Destroy, Acquire, Release, ResizeExtensions, SetField, ClearExtension,
           ReleaseExtension, SetExtension, SetAutoExtension, GetExtension, UpdateExtensionsFrom,
           DeleteExtension, NewExtension, WriteExtension, Abort
  <2>2. p # q /\ CopyExtensions(p, q) /\ copied' = [to |-> p, from |-> q]
    BY <2>1 DEF DeepCopyFrom, Abort
  <2>3. Brings(p, q)
    BY <1>1, <2>2
  <2> HIDE DEF Brings
  <2> QED BY <2>2, <2>3
<1> QED BY <1>2, PayloadInvariant, PTL DEF Spec, CopyBringsExtensions
==============================================================================
