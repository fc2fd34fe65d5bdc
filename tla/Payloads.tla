------------------------------- MODULE Payloads -------------------------------
(***************************************************************************)
(* BasePayload with its extensions (src/src/core/tlm-2/base_payload/) and  *)
(* the payloads of the five protocols: construction, memory management,    *)
(* the ownership of the extension objects, and the two copies, which       *)
(* initiators, adapters and models use to keep or return a transaction.    *)
(* An extension type has a slot of its own in every payload; the slots     *)
(* exist once resizeExtensions() has been called.                          *)
(***************************************************************************)
EXTENDS Integers, FiniteSets

CONSTANTS
    Payloads,   \* the payload objects
    Protocols,  \* the protocols to explore
    Slots,      \* the extension types
    Clonable,   \* the extension types whose clone() returns an object
    Objects,    \* the extension objects the heap has room for
    Values,     \* the values of a field or of an extension
    MaxCount,   \* bound of mMMCount
    NoProtocol, NoObject, NoCopy

\* The payloads: their fields, each with its setters, and those deepCopyFrom()
\* carries over.  Fields that only ever travel together are one: "request" is
\* the command, the data pointer, the length and the address, or the interrupt's
\* number.
MemoryMappedPayload == [fields |-> {"request", "response", "dmi"}, carried |-> {"request", "response"}]
I2CPayload    == [fields |-> {"request", "response"}, carried |-> {"request", "response"}]
IRQPayload    == [fields |-> {"request", "response", "value"}, carried |-> {"request", "response"}]
UartPayload   == [fields |-> {"request", "response", "parity"}, carried |-> {"request", "response", "parity"}]
SignalPayload == [fields |-> {"response", "value"}, carried |-> {}]

Payload == [memory_mapped |-> MemoryMappedPayload, i2c |-> I2CPayload, irq |-> IRQPayload,
            uart |-> UartPayload, signal |-> SignalPayload]

Initial == CHOOSE v \in Values : TRUE

ASSUME PayloadAssumption ==
    /\ Protocols \subseteq DOMAIN Payload
    /\ Clonable \subseteq Slots
    /\ Values # {} /\ MaxCount \in Nat
    /\ NoProtocol \notin Protocols /\ NoObject \notin Objects

VARIABLES
    protocol,  \* the protocol of a payload that exists
    content,   \* its fields
    mm,        \* mMM # nullptr
    count,     \* mMMCount
    sized,     \* the payloads whose mExtensions has its slots
    slots,     \* mExtensions
    live,      \* the extension objects that exist
    value,     \* their values
    held,      \* the objects the user of the payloads has to free
    lost,      \* those that were in the slots of a payload that is gone
    copied,    \* the last deep copy: its destination and its source
    stage      \* "running" or "aborted"

heapVars == <<live, value, held, lost>>
baseVars == <<protocol, mm, count>>
vars == <<baseVars, content, sized, slots, heapVars, copied, stage>>

NoSlots == [i \in Slots |-> NoObject]
Exists(p) == stage = "running" /\ protocol[p] # NoProtocol
Attached == {slots[p][i] : p \in Payloads, i \in Slots} \ {NoObject}

\* A failed assertion, or a call through a null pointer.
Abort == /\ stage' = "aborted"
         /\ copied' = NoCopy
         /\ UNCHANGED <<baseVars, content, sized, slots, heapVars>>

Init ==
    /\ protocol = [p \in Payloads |-> NoProtocol]
    /\ content = [p \in Payloads |-> <<>>]
    /\ mm = [p \in Payloads |-> FALSE]
    /\ count = [p \in Payloads |-> 0]
    /\ sized = {}
    /\ slots = [p \in Payloads |-> NoSlots]
    /\ live = {}
    /\ value = [o \in Objects |-> Initial]
    /\ held = {}
    /\ lost = {}
    /\ copied = NoCopy
    /\ stage = "running"

-----------------------------------------------------------------------------
\* Life of a payload.

\* The constructor with a memory manager ignores its argument.
Construct(p, proto, withManager) ==
    /\ stage = "running"
    /\ protocol[p] = NoProtocol
    /\ protocol' = [protocol EXCEPT ![p] = proto]
    /\ content' = [content EXCEPT ![p] = [f \in Payload[proto].fields |-> Initial]]
    /\ mm' = [mm EXCEPT ![p] = FALSE]
    /\ count' = [count EXCEPT ![p] = 0]
    /\ copied' = NoCopy
    /\ UNCHANGED <<sized, slots, heapVars, stage>>

\* The destructor frees no extension.
Gone(p) ==
    /\ protocol' = [protocol EXCEPT ![p] = NoProtocol]
    /\ content' = [content EXCEPT ![p] = <<>>]
    /\ sized' = sized \ {p}
    /\ slots' = [slots EXCEPT ![p] = NoSlots]
    /\ lost' = lost \cup ({slots[p][i] : i \in Slots} \ {NoObject})

Destroy(p) ==
    /\ Exists(p)
    /\ Gone(p)
    /\ copied' = NoCopy
    /\ UNCHANGED <<mm, count, live, value, held, stage>>

Acquire(p) ==
    /\ Exists(p)
    /\ IF ~mm[p] THEN Abort
       ELSE /\ count[p] < MaxCount
            /\ count' = [count EXCEPT ![p] = @ + 1]
            /\ copied' = NoCopy
            /\ UNCHANGED <<protocol, mm, content, sized, slots, heapVars, stage>>

\* The last release gives the payload to its manager, which deletes it.
Release(p) ==
    /\ Exists(p)
    /\ IF ~mm[p] \/ count[p] = 0 THEN Abort
       ELSE /\ count' = [count EXCEPT ![p] = @ - 1]
            /\ IF count[p] = 1 THEN Gone(p)
               ELSE UNCHANGED <<protocol, content, sized, slots, lost>>
            /\ copied' = NoCopy
            /\ UNCHANGED <<mm, live, value, held, stage>>

\* set...()
SetField(p, f, v) ==
    /\ Exists(p)
    /\ f \in DOMAIN content[p]
    /\ content' = [content EXCEPT ![p][f] = v]
    /\ copied' = NoCopy
    /\ UNCHANGED <<baseVars, sized, slots, heapVars, stage>>

-----------------------------------------------------------------------------
\* Extensions, and the objects their user makes and frees.

NewExtension(o, v) ==
    /\ stage = "running"
    /\ o \notin live
    /\ live' = live \cup {o}
    /\ held' = held \cup {o}
    /\ value' = [value EXCEPT ![o] = v]
    /\ copied' = NoCopy
    /\ UNCHANGED <<baseVars, content, sized, slots, lost, stage>>

DeleteExtension(o) ==
    /\ stage = "running"
    /\ o \in held
    /\ held' = held \ {o}
    /\ live' = live \ {o}
    /\ value' = [value EXCEPT ![o] = Initial]
    /\ copied' = NoCopy
    /\ UNCHANGED <<baseVars, content, sized, slots, lost, stage>>

\* A model changes an extension through its pointer.
WriteExtension(o, v) ==
    /\ stage = "running"
    /\ o \in Attached
    /\ value' = [value EXCEPT ![o] = v]
    /\ copied' = NoCopy
    /\ UNCHANGED <<baseVars, content, sized, slots, live, held, lost, stage>>

ResizeExtensions(p) ==
    /\ Exists(p)
    /\ sized' = sized \cup {p}
    /\ copied' = NoCopy
    /\ UNCHANGED <<baseVars, content, slots, heapVars, stage>>

\* Mutant: the size of mExtensions is not asserted.
SetExtensionUnchecked(p, i, o) ==
    /\ Exists(p)
    /\ o \in held
    /\ slots' = [slots EXCEPT ![p][i] = o]
    /\ held' = (held \ {o}) \cup ({slots[p][i]} \ {NoObject})
    /\ copied' = NoCopy
    /\ UNCHANGED <<baseVars, content, sized, live, value, lost, stage>>

\* setExtension(): the caller gets the previous object back.
SetExtension(p, i, o) ==
    /\ Exists(p)
    /\ o \in held
    /\ IF p \notin sized THEN Abort
       ELSE /\ slots' = [slots EXCEPT ![p][i] = o]
            /\ held' = (held \ {o}) \cup ({slots[p][i]} \ {NoObject})
            /\ copied' = NoCopy
            /\ UNCHANGED <<baseVars, content, sized, live, value, lost, stage>>

\* setAutoExtension() also enters the slot in a cache, which nothing empties.
SetAutoExtension(p, i, o) == SetExtension(p, i, o)

\* getExtension(): without slots there is nothing to look at.
GetExtension(p) == Exists(p) /\ p \notin sized /\ Abort

\* clearExtension(): the caller keeps the object.
ClearExtension(p, i) ==
    /\ Exists(p)
    /\ IF p \notin sized THEN Abort
       ELSE /\ slots' = [slots EXCEPT ![p][i] = NoObject]
            /\ held' = held \cup ({slots[p][i]} \ {NoObject})
            /\ copied' = NoCopy
            /\ UNCHANGED <<baseVars, content, sized, live, value, lost, stage>>

\* Mutant: the slot keeps its pointer.
ReleaseExtensionKeepsPointer(p, i) ==
    /\ Exists(p)
    /\ IF p \notin sized \/ slots[p][i] = NoObject THEN Abort
       ELSE /\ live' = live \ {slots[p][i]}
            /\ value' = [value EXCEPT ![slots[p][i]] = Initial]
            /\ copied' = NoCopy
            /\ UNCHANGED <<baseVars, content, sized, slots, held, lost, stage>>

\* releaseExtension(): a managed payload frees it later, when its manager says so.
ReleaseExtension(p, i) ==
    /\ Exists(p)
    /\ IF p \notin sized \/ (~mm[p] /\ slots[p][i] = NoObject) THEN Abort
       ELSE /\ copied' = NoCopy
            /\ IF mm[p] THEN UNCHANGED <<slots, live, value>>
               ELSE /\ live' = live \ {slots[p][i]}
                    /\ value' = [value EXCEPT ![slots[p][i]] = Initial]
                    /\ slots' = [slots EXCEPT ![p][i] = NoObject]
            /\ UNCHANGED <<baseVars, content, sized, held, lost, stage>>

-----------------------------------------------------------------------------
\* Copies.

Present(q) == IF q \in sized THEN {i \in Slots : slots[q][i] # NoObject} ELSE {}

\* Mutants: the pointer is copied; every extension is cloned anew.
CopyExtensionsShares(p, q) ==
    /\ slots' = [slots EXCEPT ![p] =
                   [i \in Slots |-> IF i \in Present(q) THEN slots[q][i] ELSE slots[p][i]]]
    /\ UNCHANGED <<live, value>>

CopyExtensionsAlwaysClones(p, q) ==
    LET cloned == Present(q) \cap Clonable IN
    \E new \in [cloned -> Objects \ live] :
        /\ \A i, j \in cloned : new[i] = new[j] => i = j
        /\ slots' = [slots EXCEPT ![p] =
                       [i \in Slots |-> IF i \in cloned THEN new[i] ELSE slots[p][i]]]
        /\ live' = live \cup {new[i] : i \in cloned}
        /\ value' = [o \in Objects |->
                       IF \E i \in cloned : new[i] = o
                       THEN value[slots[q][CHOOSE i \in cloned : new[i] = o]] ELSE value[o]]

\* BasePayload::deepCopyFrom(): an object that is there takes the value over, an
\* empty slot gets a clone.  The heap's room is a bound of the model.
CopyExtensions(p, q) ==
    LET cloned  == (Present(q) \ Present(p)) \cap Clonable
        updated == Present(q) \cap Present(p)
    IN
    \E new \in [cloned -> Objects \ live] :
        /\ \A i, j \in cloned : new[i] = new[j] => i = j
        /\ slots' = [slots EXCEPT ![p] =
                       [i \in Slots |-> IF i \in cloned THEN new[i] ELSE slots[p][i]]]
        /\ live' = live \cup {new[i] : i \in cloned}
        /\ value' = [o \in Objects |->
                       IF \E i \in cloned \cup updated : slots'[p][i] = o
                       THEN value[slots[q][CHOOSE i \in cloned \cup updated : slots'[p][i] = o]]
                       ELSE value[o]]

\* deepCopyFrom(): a destination without slots is read past its end.
DeepCopyFrom(p, q) ==
    /\ Exists(p) /\ Exists(q)
    /\ p # q /\ protocol[p] = protocol[q]
    /\ IF p \notin sized /\ Present(q) # {} THEN Abort
       ELSE /\ content' = [content EXCEPT ![p] =
                             [f \in DOMAIN @ |-> IF f \in Payload[protocol[p]].carried
                                                 THEN content[q][f] ELSE @[f]]]
            /\ CopyExtensions(p, q)
            /\ copied' = [to |-> p, from |-> q]
            /\ UNCHANGED <<baseVars, sized, held, lost, stage>>

\* updateExtensionsFrom(): only objects that are on both sides, and the
\* destination may not have more slots than the source.
UpdateExtensionsFrom(p, q) ==
    /\ Exists(p) /\ Exists(q)
    /\ p # q /\ protocol[p] = protocol[q]
    /\ IF p \in sized /\ q \notin sized THEN Abort
       ELSE /\ value' = [o \in Objects |->
                           IF \E i \in Present(p) \cap Present(q) : slots[p][i] = o
                           THEN value[slots[q][CHOOSE i \in Present(p) \cap Present(q) :
                                                 slots[p][i] = o]]
                           ELSE value[o]]
            /\ copied' = NoCopy
            /\ UNCHANGED <<baseVars, content, sized, slots, live, held, lost, stage>>

-----------------------------------------------------------------------------
Next ==
    \/ \E p \in Payloads :
         \/ \E proto \in Protocols, b \in BOOLEAN : Construct(p, proto, b)
         \/ Destroy(p) \/ Acquire(p) \/ Release(p) \/ ResizeExtensions(p)
         \/ \E f \in DOMAIN content[p], v \in Values : SetField(p, f, v)
         \/ \E i \in Slots : ClearExtension(p, i) \/ ReleaseExtension(p, i)
         \/ \E i \in Slots, o \in Objects : SetExtension(p, i, o) \/ SetAutoExtension(p, i, o)
         \/ GetExtension(p)
         \/ \E q \in Payloads : DeepCopyFrom(p, q) \/ UpdateExtensionsFrom(p, q)
    \/ \E o \in Objects :
         \/ DeleteExtension(o)
         \/ \E v \in Values : NewExtension(o, v) \/ WriteExtension(o, v)

Spec == Init /\ [][Next]_vars

-----------------------------------------------------------------------------
TypeOK ==
    /\ protocol \in [Payloads -> Protocols \cup {NoProtocol}]
    /\ \A p \in Payloads :
         IF protocol[p] = NoProtocol THEN content[p] = <<>>
         ELSE content[p] \in [Payload[protocol[p]].fields -> Values]
    /\ mm \in [Payloads -> BOOLEAN]
    /\ count \in [Payloads -> 0 .. MaxCount]
    /\ sized \subseteq {p \in Payloads : protocol[p] # NoProtocol}
    /\ slots \in [Payloads -> [Slots -> Objects \cup {NoObject}]]
    /\ \A p \in Payloads \ sized : slots[p] = NoSlots
    /\ live \subseteq Objects /\ held \subseteq Objects /\ lost \subseteq Objects
    /\ value \in [Objects -> Values]
    /\ copied \in {NoCopy} \cup [to : Payloads, from : Payloads]
    /\ stage \in {"running", "aborted"}

\* The slots that hold an object, and how many are to free it.
SlotsOf(o) == {s \in Payloads \X Slots : slots[s[1]][s[2]] = o}
Owners(o) == Cardinality(SlotsOf(o)) + Cardinality({o} \cap held) + Cardinality({o} \cap lost)

\* An extension object that exists is in one slot of one payload, or with the
\* user, or was left by a payload that is gone; one that was freed is nowhere.
\* So no copy shares an object with its source, none is freed twice or used
\* after, and only the end of a payload loses one.
ExactlyOneOwner == \A o \in Objects : Owners(o) = IF o \in live THEN 1 ELSE 0

\* A deep copy brings every extension of the source that can be cloned, with its
\* value, to the destination; what else the destination has stays; an object
\* that is there is written, not replaced, as models keep pointers to it; the
\* source is left alone.
CopyBringsExtensions ==
    [][copied' # NoCopy =>
         LET p == copied'.to
             q == copied'.from
         IN
         /\ slots'[q] = slots[q]
         /\ \A i \in Present(q) : value'[slots[q][i]] = value[slots[q][i]]
         /\ \A i \in Present(p) : slots'[p][i] = slots[p][i]
         /\ \A i \in Present(p) \ Present(q) : value'[slots[p][i]] = value[slots[p][i]]
         /\ \A i \in Present(q) :
              IF i \in Clonable \cup Present(p)
              THEN slots'[p][i] # NoObject /\ value'[slots'[p][i]] = value[slots[q][i]]
              ELSE slots'[p][i] = NoObject]_vars

\* base_payload.h:98-99 and irq_payload.h:53 say of deepCopyFrom "Deep copy":
\* the destination has the fields of the source.
DeepCopyIsComplete ==
    [][copied' # NoCopy => content'[copied'.to] = content[copied'.from]]_vars
===============================================================================
