------------------------------ MODULE LinksProofs ------------------------------
(***************************************************************************)
(* Proofs about Links, for any platforms.                                  *)
(***************************************************************************)
EXTENDS Links, SequenceTheorems, FiniteSetTheorems, TLAPS

-----------------------------------------------------------------------------
\* A socket is of one class.
LEMMA ClassesAreApart ==
    /\ MMInits \cap MMTargets = {} /\ MMInits \cap GenericInits = {} /\ MMInits \cap GenericTargets = {}
    /\ MMInits \cap Bidirs = {} /\ MMTargets \cap GenericInits = {} /\ MMTargets \cap GenericTargets = {}
    /\ MMTargets \cap Bidirs = {} /\ GenericInits \cap GenericTargets = {} /\ GenericInits \cap Bidirs = {}
    /\ GenericTargets \cap Bidirs = {}
    /\ OuterInits \cap OuterTargets = {} /\ OuterInits \cap OuterMMInits = {}
    /\ OuterInits \cap OuterMMTargets = {} /\ OuterInits \cap OuterBidirs = {}
    /\ OuterTargets \cap OuterMMInits = {} /\ OuterTargets \cap OuterMMTargets = {}
    /\ OuterTargets \cap OuterBidirs = {} /\ OuterMMInits \cap OuterMMTargets = {}
    /\ OuterMMInits \cap OuterBidirs = {} /\ OuterMMTargets \cap OuterBidirs = {}
    /\ Sockets \cap Outers = {}
<1> DEFINE Apart(m, n) == Classes[m] \cap Classes[n] = {}
<1>1. \A m, n \in 1 .. 10 : m # n => Apart(m, n)
  BY LinksAssumption
<1>2. /\ Classes[1] = MMInits /\ Classes[2] = MMTargets /\ Classes[3] = GenericInits
      /\ Classes[4] = GenericTargets /\ Classes[5] = Bidirs /\ Classes[6] = OuterInits
      /\ Classes[7] = OuterTargets /\ Classes[8] = OuterMMInits /\ Classes[9] = OuterMMTargets
      /\ Classes[10] = OuterBidirs
  BY DEF Classes
<1> HIDE DEF Apart
<1>3. /\ Apart(1, 2) /\ Apart(1, 3) /\ Apart(1, 4) /\ Apart(1, 5) /\ Apart(2, 3) /\ Apart(2, 4)
      /\ Apart(2, 5) /\ Apart(3, 4) /\ Apart(3, 5) /\ Apart(4, 5)
      /\ Apart(6, 7) /\ Apart(6, 8) /\ Apart(6, 9) /\ Apart(6, 10) /\ Apart(7, 8) /\ Apart(7, 9)
      /\ Apart(7, 10) /\ Apart(8, 9) /\ Apart(8, 10) /\ Apart(9, 10)
  BY <1>1
<1>4. /\ Apart(1, 6) /\ Apart(1, 7) /\ Apart(1, 8) /\ Apart(1, 9) /\ Apart(1, 10)
      /\ Apart(2, 6) /\ Apart(2, 7) /\ Apart(2, 8) /\ Apart(2, 9) /\ Apart(2, 10)
      /\ Apart(3, 6) /\ Apart(3, 7) /\ Apart(3, 8) /\ Apart(3, 9) /\ Apart(3, 10)
      /\ Apart(4, 6) /\ Apart(4, 7) /\ Apart(4, 8) /\ Apart(4, 9) /\ Apart(4, 10)
      /\ Apart(5, 6) /\ Apart(5, 7) /\ Apart(5, 8) /\ Apart(5, 9) /\ Apart(5, 10)
  BY <1>1
<1>5. /\ MMInits \cap Outers = {} /\ MMTargets \cap Outers = {} /\ GenericInits \cap Outers = {}
      /\ GenericTargets \cap Outers = {} /\ Bidirs \cap Outers = {}
  BY <1>2, <1>4 DEF Apart, Outers
<1> QED  BY <1>2, <1>3, <1>5 DEF Apart, Sockets

LEMMA AdaptersAreApart ==
    /\ Adapters \cap (Sockets \cup Outers) = {}
    /\ NoEnd \notin Ends /\ NoEnd \notin Outers /\ Clog \notin Ends /\ Clog \notin Outers
    /\ Sockets \subseteq Ends /\ Adapters \subseteq Ends
    /\ \A s \in Adapted : Adapter(s) \in Adapters /\ Owner(Adapter(s)) = s
    /\ \A e \in Adapters : Owner(e) \in Adapted /\ e = Adapter(Owner(e))
    /\ \A e \in Sockets : Owner(e) = e
<1>1. \A s : Adapter(s).adapterOf = s
  BY DEF Adapter
<1>2. \A e \in Adapters : \E s \in Adapted : e = Adapter(s)
  BY DEF Adapters
<1>3. \A s \in Adapted : Adapter(s) \in Adapters
  BY DEF Adapters
<1>4. Adapters \cap (Sockets \cup Outers) = {} /\ {NoEnd, Clog} \cap (Ends \cup Outers) = {}
  BY LinksAssumption
<1>5. \A e \in Sockets : Owner(e) = e
  BY <1>4 DEF Owner
<1>6. \A s \in Adapted : Owner(Adapter(s)) = s
  BY <1>1, <1>3 DEF Owner
<1> QED  BY <1>2, <1>3, <1>4, <1>5, <1>6 DEF Ends

LEMMA DataAssumption ==
    LengthMod \in Nat \ {0} /\ Requests \subseteq [cmd : Command, data : Words, len : Nat]
BY LinksAssumption

-----------------------------------------------------------------------------
\* Payloads.
LEMMA StatusIsConverted ==
    /\ \A x \in {y[1] : y \in Status} : StatusFromGeneric(x) \in {y[2] : y \in Status}
    /\ \A x \in {y[2] : y \in Status} : StatusToGeneric(x) \in {y[1] : y \in Status}
BY DEF Status, StatusFromGeneric, StatusToGeneric

LEMMA CommandIsConverted ==
    /\ \A x \in {y[1] : y \in Command} : CommandFromGeneric(x) \in {y[2] : y \in Command}
    /\ \A x \in {y[2] : y \in Command} : CommandToGeneric(x) \in {y[1] : y \in Command}
BY DEF Command, CommandFromGeneric, CommandToGeneric

LEMMA PayloadIsConverted ==
    ASSUME NEW p \in Payload PROVE Convert(p) \in Payload
<1> DEFINE GC == {c[1] : c \in Command}
           MC == {c[2] : c \in Command}
           GS == {s[1] : s \in Status}
           MS == {s[2] : s \in Status}
           Generic == [generic : {TRUE}, cmd : GC, data : Words,
                       len : 0 .. LengthMod - 1, status : GS, dmi : BOOLEAN]
           Mapped  == [generic : {FALSE}, cmd : MC, data : Words,
                       len : Nat, status : MS, dmi : BOOLEAN]
<1>1. Payload = Generic \cup Mapped \cup [range : Words]
  BY DEF Payload
<1>2. /\ \A x \in GC : CommandFromGeneric(x) \in MC
      /\ \A x \in MC : CommandToGeneric(x) \in GC
      /\ \A x \in GS : StatusFromGeneric(x) \in MS
      /\ \A x \in MS : StatusToGeneric(x) \in GS
  BY StatusIsConverted, CommandIsConverted
<1> HIDE DEF GC, MC, GS, MS
<1>3. CASE p \in [range : Words]
  <2>1. IsRange(p)
    BY <1>3 DEF IsRange
  <2> QED  BY <2>1 DEF Convert
<1>4. CASE p \in Generic
  <2>1. ~IsRange(p)
    BY <1>4 DEF IsRange
  <2>2. /\ CommandFromGeneric(p.cmd) \in MC
        /\ StatusFromGeneric(p.status) \in MS
        /\ p.len \in Nat /\ p.generic
    <3>1. p.cmd \in GC /\ p.status \in GS
      BY <1>4
    <3>2. p.len \in Nat
      BY <1>4, DataAssumption
    <3>3. p.generic = TRUE
      BY <1>4
    <3>4. p.generic
      BY <3>3
    <3> QED  BY <3>1, <3>2, <3>4, <1>2
  <2>3. Convert(p) = [p EXCEPT !.generic = FALSE, !.cmd = CommandFromGeneric(@),
                               !.status = StatusFromGeneric(@)]
    BY <2>1, <2>2 DEF Convert
  <2>4. Convert(p) \in Mapped
    BY <1>4, <2>2, <2>3
  <2> QED  BY <1>1, <2>4
<1>5. CASE p \in Mapped
  <2>1. ~IsRange(p)
    BY <1>5 DEF IsRange
  <2>2. /\ CommandToGeneric(p.cmd) \in GC
        /\ StatusToGeneric(p.status) \in GS
        /\ p.len % LengthMod \in 0 .. LengthMod - 1 /\ p.generic = FALSE
    <3>1. p.cmd \in MC /\ p.status \in MS
      BY <1>5
    <3>2. p.len \in Nat
      BY <1>5
    <3>3. p.len % LengthMod \in 0 .. LengthMod - 1
      BY <3>2, DataAssumption
    <3>4. p.generic = FALSE
      BY <1>5
    <3> QED  BY <3>1, <3>3, <3>4, <1>2
  <2>3. Convert(p) = [p EXCEPT !.generic = TRUE, !.cmd = CommandToGeneric(@),
                               !.status = StatusToGeneric(@), !.len = @ % LengthMod]
    BY <2>1, <2>2 DEF Convert
  <2>4. Convert(p) \in Generic
    BY <1>5, <2>2, <2>3
  <2> QED  BY <1>1, <2>4
<1> QED  BY <1>1, <1>3, <1>4, <1>5

LEMMA NewPayloadType ==
    ASSUME NEW s \in Sockets, NEW r \in Requests PROVE NewPayload(s, r) \in Payload
<1>1. r.cmd \in Command /\ r.data \in Words /\ r.len \in Nat /\ r.len % LengthMod \in 0 .. LengthMod - 1
  BY LinksAssumption
<1>2. "TLM_INCOMPLETE_RESPONSE" \in {y[1] : y \in Status} /\ "MEM_MAP_OK_RESPONSE" \in {y[2] : y \in Status}
  BY DEF Status
<1> QED  BY <1>1, <1>2 DEF NewPayload, Payload

-----------------------------------------------------------------------------
\* Binding.

\* What may be asked for: an end of a link, or a socket of a module around.
Parties == Ends \cup Outers
Targets == MMTargets \cup OuterMMTargets
From == Initiators \cup Bidirs \cup OuterBidirs \cup GenericInits \cup OuterInits
        \cup {Adapter(i) : i \in Initiators}
To   == Targets \cup Bidirs \cup OuterBidirs \cup GenericTargets \cup OuterTargets
        \cup {Adapter(t) : t \in Targets}

\* A step of a platform's author binds one pair, or two sockets both ways, or
\* joins two ports, or gives a plain socket an interface, or is the last one.
BindsOne(x, y) ==
    /\ x \in From /\ y \in To
    /\ Bind({<<x, y>>})
    /\ bound' = bound \cup {i \in Initiators : x = Adapter(i)}

BindsBoth(a, b) ==
    /\ a \in Bidirs \cup OuterBidirs /\ b \in Bidirs \cup OuterBidirs /\ a # b
    /\ Bind({<<a, b>>, <<b, a>>})
    /\ UNCHANGED bound

Joins(e, o) ==
    /\ Join(e, o)
    /\ \/ o \in OuterInits /\ \E i \in Initiators : e = Adapter(i)
       \/ o \in OuterTargets /\ \E t \in MMTargets \cup OuterMMTargets : e = Adapter(t)
       \/ o \in OuterBidirs /\ e \in Bidirs
       \/ o \in OuterMMInits /\ e \in MMInits \cup Bidirs
       \/ o \in OuterMMTargets /\ e \in MMTargets \cup Bidirs

LEMMA FromAndTo == From \subseteq Parties /\ To \subseteq Parties
<1>1. Sockets \cup Outers \cup Adapters \subseteq Parties
  BY AdaptersAreApart DEF Parties
<1>2. \A s \in Adapted : Adapter(s) \in Adapters
  BY AdaptersAreApart
<1> QED  BY <1>1, <1>2 DEF From, To, Initiators, Targets, Adapted, Sockets, Outers

LEMMA BuildSteps ==
    ASSUME Build
    PROVE  \/ \E x, y : BindsOne(x, y)
           \/ \E a, b : BindsBoth(a, b)
           \/ \E e, o : Joins(e, o)
           \/ \E s \in platform.plain : \E sides \in SUBSET Sides(s) : Offer(s, sides)
           \/ EndBuilding
<1>1. \A i \in Initiators : \A x \in Sockets \cup Outers : x # Adapter(i)
  BY AdaptersAreApart DEF Adapted
<1>2. \A t \in Targets \cup GenericTargets \cup OuterTargets : Input(t) \in To
  BY DEF Input, To, Targets
<1>3. ASSUME NEW i \in Initiators \cup Bidirs \cup OuterBidirs,
             NEW t \in MMTargets \cup OuterMMTargets \cup Bidirs \cup OuterBidirs, BindInitiator(i, t)
      PROVE  \E x, y : BindsOne(x, y)
  <2>1. i \in From /\ t \in To
    BY DEF From, To, Targets
  <2>2. {j \in Initiators : i = Adapter(j)} = {}
    BY <1>1 DEF Initiators, Sockets, Outers
  <2> QED  BY <1>3, <2>1, <2>2 DEF BindInitiator, BindsOne
<1>4. ASSUME NEW i \in Initiators,
             NEW t \in GenericTargets \cup OuterTargets \cup MMTargets \cup OuterMMTargets,
             BindToGeneric(i, t)
      PROVE  \E x, y : BindsOne(x, y)
  <2>1. Adapter(i) \in From /\ Input(t) \in To
    BY <1>2 DEF From, Targets
  <2>2. {j \in Initiators : Adapter(i) = Adapter(j)} = {i}
    BY AdaptersAreApart DEF Adapted
  <2> QED  BY <1>4, <2>1, <2>2 DEF BindToGeneric, BindsOne
<1>5. ASSUME NEW g \in GenericInits \cup OuterInits,
             NEW t \in MMTargets \cup OuterMMTargets \cup OuterTargets \cup GenericTargets,
             BindFromGeneric(g, t)
      PROVE  \E x, y : BindsOne(x, y)
  <2>1. g \in From /\ Input(t) \in To
    BY <1>2 DEF From, Targets
  <2>2. {j \in Initiators : g = Adapter(j)} = {}
    BY <1>1 DEF Sockets, Outers
  <2> QED  BY <1>5, <2>1, <2>2 DEF BindFromGeneric, BindsOne
<1>6. ASSUME NEW a \in Bidirs \cup OuterBidirs, NEW b \in Bidirs \cup OuterBidirs,
             BindBidirectional(a, b)
      PROVE  BindsBoth(a, b)
  BY <1>6 DEF BindBidirectional, BindsBoth
<1>7. ASSUME NEW i \in Initiators, NEW g \in OuterInits, JoinGeneric(i, g)
      PROVE  \E e, o : Joins(e, o)
  BY <1>7 DEF JoinGeneric, Joins
<1>8. ASSUME NEW g \in OuterTargets, NEW t \in MMTargets \cup OuterMMTargets, JoinGenericTarget(g, t)
      PROVE  \E e, o : Joins(e, o)
  BY <1>8 DEF JoinGenericTarget, Joins, Input
<1>9. ASSUME NEW b \in Bidirs, NEW o \in OuterBidirs, BindHierarchical(b, o)
       PROVE  \E e, u : Joins(e, u)
  BY <1>9 DEF BindHierarchical, Joins
<1>10. ASSUME NEW e \in MMInits \cup Bidirs, NEW o \in OuterMMInits, JoinInitiator(e, o)
       PROVE  \E f, u : Joins(f, u)
  BY <1>10 DEF JoinInitiator, Joins
<1>11. ASSUME NEW o \in OuterMMTargets, NEW e \in MMTargets \cup Bidirs, JoinTarget(o, e)
       PROVE  \E f, u : Joins(f, u)
  BY <1>11 DEF JoinTarget, Joins
<1> QED
  BY <1>3, <1>4, <1>5, <1>6, <1>7, <1>8, <1>9, <1>10, <1>11, Zenon DEF Build

\* A socket stands for an end, its own or that of the socket it is joined with.
LEMMA CoreTypes ==
    ASSUME TypeOK
    PROVE  /\ \A e \in Ends : Core(e) = e
           /\ \A x \in Parties : Core(x) \in Ends \cup {NoEnd}
           /\ \A o \in Outers : Core(o) = inner[o]
<1>1. Ends \cap Outers = {}
  BY ClassesAreApart, AdaptersAreApart DEF Ends
<1> QED  BY <1>1 DEF TypeOK, Core, Parties

LEMMA OwnerType == \A e \in Ends : Owner(e) \in Sockets \cup Adapted
BY AdaptersAreApart DEF Ends

\* Both ports of the ends in pairs get one more peer, or none.
LEMMA PeersAppended ==
    ASSUME NEW peers \in [Ends -> Seq(Ends \cup {Clog})], NEW pairs \in SUBSET (Ends \X Ends)
    PROVE  /\ AppendPeers(peers, pairs) \in [Ends -> Seq(Ends \cup {Clog})]
           /\ \A e \in Ends :
                \/ AppendPeers(peers, pairs)[e] = peers[e] /\ \A p \in pairs : p[1] # e
                \/ \E p \in pairs : p[1] = e /\ AppendPeers(peers, pairs)[e] = Append(peers[e], p[2])
<1>1. ASSUME NEW e \in Ends
      PROVE  /\ AppendPeers(peers, pairs)[e] \in Seq(Ends \cup {Clog})
             /\ \/ AppendPeers(peers, pairs)[e] = peers[e] /\ \A p \in pairs : p[1] # e
                \/ \E p \in pairs : p[1] = e /\ AppendPeers(peers, pairs)[e] = Append(peers[e], p[2])
  <2>1. CASE \E p \in pairs : p[1] = e
    <3> DEFINE q == CHOOSE p \in pairs : p[1] = e
    <3>1. q \in pairs /\ q[1] = e
      BY <2>1
    <3>2. AppendPeers(peers, pairs)[e] = Append(peers[e], q[2])
      BY <2>1 DEF AppendPeers
    <3> HIDE DEF q
    <3>3. q[2] \in Ends \cup {Clog} /\ peers[e] \in Seq(Ends \cup {Clog})
      BY <3>1
    <3>4. Append(peers[e], q[2]) \in Seq(Ends \cup {Clog})
      BY <3>3, AppendProperties
    <3> QED  BY <3>1, <3>2, <3>4
  <2>2. CASE ~\E p \in pairs : p[1] = e
    BY <2>2 DEF AppendPeers
  <2> QED  BY <2>1, <2>2
<1> QED  BY <1>1 DEF AppendPeers

LEMMA SwappedType ==
    ASSUME NEW S, NEW pairs \in SUBSET (S \X S)
    PROVE  /\ Swapped(pairs) \in SUBSET (S \X S)
           /\ \A p \in Swapped(pairs) : <<p[2], p[1]>> \in pairs
           /\ \A p \in pairs : <<p[2], p[1]>> \in Swapped(pairs)
BY DEF Swapped

LEMMA ConnectTypes ==
    ASSUME TypeOK, NEW pairs \in SUBSET (Ends \X Ends), Connect(pairs)
    PROVE  outs' \in [Ends -> Seq(Ends \cup {Clog})] /\ backs' \in [Ends -> Seq(Ends \cup {Clog})]
BY PeersAppended, SwappedType DEF Connect, TypeOK

\* A binding that is made is one of ends.
LEMMA BindTypes ==
    ASSUME TypeOK, NEW pairs \in SUBSET (Parties \X Parties), Bind(pairs)
    PROVE  \/ /\ stage' = "aborted" /\ UNCHANGED <<outs, backs, wanted>>
           \/ /\ stage' = stage
              /\ {<<Core(p[1]), Core(p[2])>> : p \in pairs} \in SUBSET (Ends \X Ends)
              /\ Connect({<<Core(p[1]), Core(p[2])>> : p \in pairs})
              /\ {<<Owner(Core(p[1])), Owner(Core(p[2]))>> : p \in pairs}
                   \in SUBSET ((Sockets \cup Adapted) \X (Sockets \cup Adapted))
              /\ wanted' = wanted \cup {{<<Owner(Core(p[1])), Owner(Core(p[2]))>> : p \in pairs}}
<1> DEFINE cores == {<<Core(p[1]), Core(p[2])>> : p \in pairs}
           owners == {<<Owner(Core(p[1])), Owner(Core(p[2]))>> : p \in pairs}
<1>1. CASE \E c \in cores : ~Gives(c[1], "bw") \/ ~Gives(c[2], "fw")
  BY <1>1 DEF Bind, BindFor
<1>2. CASE \A c \in cores : Gives(c[1], "bw") /\ Gives(c[2], "fw")
  <2>1. ASSUME NEW p \in pairs PROVE Core(p[1]) \in Ends /\ Core(p[2]) \in Ends
    <3>1. <<Core(p[1]), Core(p[2])>> \in cores
      OBVIOUS
    <3>2. Core(p[1]) # NoEnd /\ Core(p[2]) # NoEnd
      BY <1>2, <3>1 DEF Gives
    <3> QED  BY <3>2, CoreTypes
  <2>2. cores \in SUBSET (Ends \X Ends)
    BY <2>1
  <2>3. owners \in SUBSET ((Sockets \cup Adapted) \X (Sockets \cup Adapted))
    BY <2>1, OwnerType
  <2>4. stage' = stage /\ Connect(cores) /\ wanted' = wanted \cup {owners}
    BY <1>2 DEF Bind, BindFor
  <2> QED  BY <2>2, <2>3, <2>4
<1> QED  BY <1>1, <1>2

LEMMA BuildTypes ==
    ASSUME TypeOK, Build PROVE TypeOK'
<1>1. ASSUME NEW pairs \in SUBSET (Parties \X Parties), Bind(pairs), bound' \subseteq Initiators
      PROVE  TypeOK'
  <2>1. UNCHANGED <<platform, offered, inner, elaborated, callback, index, stack, blocked>>
    BY <1>1 DEF Bind, BindFor, callVars
  <2>2. /\ outs' \in [Ends -> Seq(Ends \cup {Clog})] /\ backs' \in [Ends -> Seq(Ends \cup {Clog})]
        /\ wanted' \subseteq SUBSET ((Sockets \cup Adapted) \X (Sockets \cup Adapted))
        /\ stage' \in {"building", "elaborating", "running", "aborted"}
    <3>1. CASE stage' = "aborted" /\ UNCHANGED <<outs, backs, wanted>>
      BY <3>1 DEF TypeOK
    <3>2. CASE ~(stage' = "aborted" /\ UNCHANGED <<outs, backs, wanted>>)
      <4> DEFINE cores == {<<Core(p[1]), Core(p[2])>> : p \in pairs}
                 owners == {<<Owner(Core(p[1])), Owner(Core(p[2]))>> : p \in pairs}
      <4>1. /\ stage' = stage
            /\ cores \in SUBSET (Ends \X Ends)
            /\ Connect(cores)
            /\ owners \in SUBSET ((Sockets \cup Adapted) \X (Sockets \cup Adapted))
            /\ wanted' = wanted \cup {owners}
        BY <1>1, <3>2, BindTypes, Zenon
      <4> HIDE DEF cores, owners
      <4>2. /\ outs' \in [Ends -> Seq(Ends \cup {Clog})]
            /\ backs' \in [Ends -> Seq(Ends \cup {Clog})]
        BY <4>1, ConnectTypes
      <4> QED  BY <4>1, <4>2 DEF TypeOK
    <3> QED  BY <3>1, <3>2
  <2> QED  BY <1>1, <2>1, <2>2 DEF TypeOK
<1>2. ASSUME NEW x, NEW y, BindsOne(x, y) PROVE TypeOK'
  <2>1. {<<x, y>>} \in SUBSET (Parties \X Parties) /\ bound' \subseteq Initiators
    BY <1>2, FromAndTo DEF BindsOne, TypeOK
  <2> QED  BY <1>1, <1>2, <2>1 DEF BindsOne
<1>3. ASSUME NEW a, NEW b, BindsBoth(a, b) PROVE TypeOK'
  <2>1. {<<a, b>>, <<b, a>>} \in SUBSET (Parties \X Parties) /\ bound' \subseteq Initiators
    BY <1>3, AdaptersAreApart DEF BindsBoth, TypeOK, Parties, Sockets, Outers
  <2> QED  BY <1>1, <1>3, <2>1 DEF BindsBoth
<1>4. ASSUME NEW e, NEW o, Joins(e, o) PROVE TypeOK'
  <2>1. /\ e \in Ends /\ o \in Outers
        /\ o \in OuterInits => Owner(e) \in Initiators
    <3>1. \A i \in Initiators : Adapter(i) \in Ends /\ Owner(Adapter(i)) = i
      BY AdaptersAreApart DEF Adapted
    <3>2. \A t \in MMTargets \cup OuterMMTargets : Adapter(t) \in Ends
      BY AdaptersAreApart DEF Adapted
    <3>3. MMInits \cup Bidirs \cup MMTargets \subseteq Ends
      BY AdaptersAreApart DEF Sockets
    <3> QED  BY <1>4, <3>1, <3>2, <3>3, ClassesAreApart DEF Joins, Outers
  <2>2. CASE Abort
    BY <2>2 DEF Abort, bindVars, callVars, TypeOK
  <2>3. CASE ~Abort
    <3>1. /\ inner' = [inner EXCEPT ![o] = e]
          /\ bound' = IF o \in OuterInits THEN bound \cup {Owner(e)} ELSE bound
          /\ UNCHANGED <<platform, stage, outs, backs, offered, wanted, elaborated, callback, callVars>>
      BY <1>4, <2>3 DEF Joins, Join
    <3>2. inner' \in [Outers -> Ends \cup {NoEnd}] /\ bound' \subseteq Initiators
      BY <2>1, <3>1 DEF TypeOK
    <3> QED  BY <3>1, <3>2 DEF TypeOK, callVars
  <2> QED  BY <2>2, <2>3
<1>5. ASSUME NEW s \in platform.plain, NEW sides \in SUBSET Sides(s), Offer(s, sides) PROVE TypeOK'
  <2>1. s \in Sockets /\ Sides(s) \subseteq {"fw", "bw"}
    BY LinksAssumption DEF TypeOK, Platform, Sockets, Sides
  <2>2. CASE Abort
    BY <2>2 DEF Abort, bindVars, callVars, TypeOK
  <2>3. CASE ~Abort
    <3>1. /\ offered' = offered \cup ({s} \X sides)
          /\ UNCHANGED <<platform, stage, outs, backs, bound, inner, wanted, elaborated, callback, callVars>>
      BY <1>5, <2>3 DEF Offer
    <3> QED  BY <2>1, <3>1 DEF TypeOK, callVars
  <2> QED  BY <2>2, <2>3
<1>6. ASSUME EndBuilding PROVE TypeOK'
  BY <1>6 DEF EndBuilding, bindVars, callVars, TypeOK
<1> QED  BY <1>2, <1>3, <1>4, <1>5, <1>6, BuildSteps, Zenon

\* A socket's adapter is plugged, or it is bound with the socket.
LEMMA PlugTypes ==
    ASSUME TypeOK, NEW a \in Ends, Plug(a)
    PROVE  outs' \in [Ends -> Seq(Ends \cup {Clog})] /\ backs' \in [Ends -> Seq(Ends \cup {Clog})]
<1>1. /\ Append(outs[a], Clog) \in Seq(Ends \cup {Clog})
      /\ Append(backs[a], Clog) \in Seq(Ends \cup {Clog})
  BY AppendProperties DEF TypeOK
<1> QED  BY <1>1 DEF Plug, TypeOK

LEMMA ElaborateTypes ==
    ASSUME TypeOK, Elaborate PROVE TypeOK'
<1>1. ASSUME NEW s \in Adapted, BeforeEndOfElaboration(s) PROVE TypeOK'
  <2>1. /\ UNCHANGED <<platform, offered, bound, inner, wanted, callback, index, stack, blocked>>
        /\ elaborated' \subseteq Adapted
    BY <1>1 DEF BeforeEndOfElaboration, callVars, TypeOK
  <2>2. Adapter(s) \in Ends /\ s \in Parties
    BY AdaptersAreApart DEF Parties, Adapted, Initiators, Sockets, Outers
  <2>3. /\ outs' \in [Ends -> Seq(Ends \cup {Clog})] /\ backs' \in [Ends -> Seq(Ends \cup {Clog})]
        /\ stage' \in {"building", "elaborating", "running", "aborted"}
    <3>1. CASE Plug(Adapter(s)) /\ UNCHANGED stage
      BY <2>2, <3>1, PlugTypes DEF TypeOK
    <3>2. CASE stage' = "aborted" /\ UNCHANGED <<outs, backs>>
      BY <3>2 DEF TypeOK
    <3>3. ASSUME Core(s) # NoEnd, UNCHANGED stage,
                 Connect({<<Core(s), Adapter(s)>>}) \/ Connect({<<Adapter(s), Core(s)>>})
          PROVE  /\ outs' \in [Ends -> Seq(Ends \cup {Clog})]
                 /\ backs' \in [Ends -> Seq(Ends \cup {Clog})]
                 /\ stage' \in {"building", "elaborating", "running", "aborted"}
      <4>1. Core(s) \in Ends
        BY <2>2, <3>3, CoreTypes
      <4>2. {<<Core(s), Adapter(s)>>} \in SUBSET (Ends \X Ends)
            /\ {<<Adapter(s), Core(s)>>} \in SUBSET (Ends \X Ends)
        BY <2>2, <4>1
      <4> QED  BY <3>3, <4>2, ConnectTypes DEF TypeOK
    <3>4. CASE s \in Initiators
      BY <1>1, <3>1, <3>2, <3>3, <3>4 DEF BeforeEndOfElaboration, BeforeEndInitiator, Gives
    <3>5. CASE s \notin Initiators
      BY <1>1, <3>1, <3>2, <3>3, <3>5 DEF BeforeEndOfElaboration, BeforeEndTarget, Gives
    <3> QED  BY <3>4, <3>5
  <2> QED  BY <2>1, <2>3 DEF TypeOK
<1>2. ASSUME EndElaboration PROVE TypeOK'
  BY <1>2 DEF EndElaboration, Abort, bindVars, callVars, TypeOK
<1> QED  BY <1>1, <1>2 DEF Elaborate

-----------------------------------------------------------------------------
\* Calls.

\* A call has an end where it is, and a payload for every end it has reached.
GoodCall == {c \in CallRecord : c.route # <<>> /\ Len(c.trans) = Len(c.route)}
CallInv == stack \in Seq(GoodCall) /\ blocked \subseteq GoodCall

LEMMA CallsAreGood ==
    ASSUME CallInv, NEW c \in Calls PROVE c \in GoodCall
<1>1. \A n \in 1 .. Len(stack) : stack[n] \in GoodCall
  BY ElementOfSeq DEF CallInv
<1> QED  BY <1>1 DEF Calls, CallInv

LEMMA GivenType ==
    ASSUME NEW c \in GoodCall
    PROVE  /\ Len(c.route) \in Nat /\ Len(c.route) > 0 /\ Len(c.trans) = Len(c.route)
           /\ Here(c) \in Ends \cup {Clog} /\ Given(c) \in Payload
<1>1. c.route \in Seq(Ends \cup {Clog}) /\ c.trans \in Seq(Payload) /\ c.route # <<>>
      /\ Len(c.trans) = Len(c.route)
  BY DEF GoodCall, CallRecord
<1>2. Len(c.route) \in Nat /\ Len(c.route) > 0
  BY <1>1, EmptySeq, LenProperties
<1>3. Len(c.route) \in 1 .. Len(c.route)
  BY <1>2
<1>4. c.route[Len(c.route)] \in Ends \cup {Clog}
  BY <1>1, <1>3, ElementOfSeq
<1>5. c.trans[Len(c.route)] \in Payload
  BY <1>1, <1>3, ElementOfSeq
<1> QED  BY <1>1, <1>2, <1>4, <1>5 DEF Here, Given

\* The port of an end has peers that are ends, or plugs.
LEMMA PortType ==
    ASSUME TypeOK, NEW e \in Ends, NEW kind
    PROVE  /\ PortFor(e, kind) \in Seq(Ends \cup {Clog})
           /\ \A n \in 1 .. Len(PortFor(e, kind)) : PortFor(e, kind)[n] \in Ends \cup {Clog}
<1>1. PortFor(e, kind) \in Seq(Ends \cup {Clog})
  BY DEF PortFor, TypeOK
<1> QED  BY <1>1, ElementOfSeq

\* A call that goes on is a good one.
LEMMA BecomesGood ==
    ASSUME CallInv, NEW c, NEW d \in GoodCall, Becomes(c, d)
    PROVE  CallInv'
<1>1. CASE stack = <<>>
  BY <1>1 DEF Becomes, CallInv
<1>2. CASE stack # <<>>
  <2>1. stack' = <<d>> \o Tail(stack) /\ UNCHANGED blocked
    BY <1>2 DEF Becomes
  <2>2. Tail(stack) \in Seq(GoodCall)
    BY <1>2, HeadTailProperties DEF CallInv
  <2>3. <<d>> \o Tail(stack) \in Seq(GoodCall)
    BY <2>2, ConcatProperties
  <2> QED  BY <2>1, <2>3 DEF CallInv
<1> QED  BY <1>1, <1>2

LEMMA MakesCalls ==
    ASSUME TypeOK, CallInv, NEW s \in Sockets, NEW kind \in Kinds,
           NEW n \in 1 .. Len(PortFor(s, kind)), NEW p \in Payload, Call(s, n, kind, p)
    PROVE  CallInv'
<1> DEFINE c == [from |-> s, kind |-> kind, route |-> <<PortFor(s, kind)[n]>>,
                 trans |-> <<p>>, served |-> FALSE, ret |-> "none"]
<1>1. PortFor(s, kind)[n] \in Ends \cup {Clog}
  BY PortType, AdaptersAreApart
<1>2. c \in GoodCall
  <2>1. /\ <<PortFor(s, kind)[n]>> \in Seq(Ends \cup {Clog}) /\ <<p>> \in Seq(Payload)
        /\ Len(<<PortFor(s, kind)[n]>>) = 1 /\ Len(<<p>>) = 1
        /\ <<PortFor(s, kind)[n]>> # <<>>
    BY <1>1
  <2> QED  BY <2>1 DEF GoodCall, CallRecord
<1>3. \/ blocked' = blocked \cup {c} /\ UNCHANGED stack
      \/ stack' = <<c>> \o stack /\ UNCHANGED blocked
  BY DEF Call
<1> HIDE DEF c
<1>4. <<c>> \o stack \in Seq(GoodCall)
  BY <1>2, ConcatProperties DEF CallInv
<1> QED  BY <1>2, <1>3, <1>4 DEF CallInv

LEMMA AdapterForwards ==
    ASSUME TypeOK, CallInv, NEW c \in GoodCall, AdapterCalls(c)
    PROVE  /\ CallInv'
           /\ \/ Abort
              \/ \E d \in GoodCall :
                   /\ Becomes(c, d)
                   /\ d.from = c.from /\ d.kind = c.kind /\ d.served = c.served /\ d.ret = c.ret
                   /\ d.route = Append(c.route, PortFor(Here(c), c.kind)[1])
                   /\ PortFor(Here(c), c.kind)[1] \in Ends \cup {Clog}
                   /\ d.trans = Append(c.trans, Convert(Given(c)))
<1> DEFINE e == Here(c)
           q == PortFor(e, c.kind)[1]
           x == Convert(Given(c))
           d == [c EXCEPT !.route = Append(@, q), !.trans = Append(@, x)]
<1>1. CASE Abort
  BY <1>1 DEF Abort, callVars, CallInv
<1>2. CASE ~Abort
  <2>1. PortFor(e, c.kind) # <<>> /\ Becomes(c, d)
    BY <1>2 DEF AdapterCalls
  <2>2. q \in Ends \cup {Clog}
    <3>1. e \in Ends
      BY AdaptersAreApart DEF AdapterCalls
    <3>2. PortFor(e, c.kind) \in Seq(Ends \cup {Clog})
      BY <3>1, PortType
    <3>3. 1 \in 1 .. Len(PortFor(e, c.kind))
      BY <2>1, <3>2, EmptySeq, LenProperties
    <3> QED  BY <3>2, <3>3, ElementOfSeq
  <2>3. x \in Payload
    BY GivenType, PayloadIsConverted
  <2>4. d \in GoodCall
    <3> HIDE DEF q, x
    <3>1. c.route \in Seq(Ends \cup {Clog}) /\ c.trans \in Seq(Payload)
          /\ Len(c.trans) = Len(c.route)
      BY DEF GoodCall, CallRecord
    <3>2. /\ Append(c.route, q) \in Seq(Ends \cup {Clog})
          /\ Len(Append(c.route, q)) = Len(c.route) + 1
      BY <2>2, <3>1, AppendProperties
    <3>3. /\ Append(c.trans, x) \in Seq(Payload)
          /\ Len(Append(c.trans, x)) = Len(c.trans) + 1
      BY <2>3, <3>1, AppendProperties
    <3>4. Append(c.route, q) # <<>>
      BY <2>2, <3>1, AppendProperties
    <3>5. d \in CallRecord
      BY <3>2, <3>3 DEF GoodCall, CallRecord
    <3>6. d.route = Append(c.route, q) /\ d.trans = Append(c.trans, x)
      BY DEF GoodCall, CallRecord
    <3> QED  BY <3>1, <3>2, <3>3, <3>4, <3>5, <3>6 DEF GoodCall
  <2>5. /\ d.from = c.from /\ d.kind = c.kind /\ d.served = c.served /\ d.ret = c.ret
        /\ d.route = Append(c.route, q) /\ d.trans = Append(c.trans, Convert(Given(c)))
    BY DEF GoodCall, CallRecord
  <2>7. q = PortFor(Here(c), c.kind)[1]
    OBVIOUS
  <2> HIDE DEF d, q
  <2>6. CallInv'
    BY <2>1, <2>4, BecomesGood
  <2> QED  BY <2>1, <2>2, <2>4, <2>5, <2>6, <2>7
<1> QED  BY <1>1, <1>2

\* A callback changes the status and the DMI flag of a payload.
LEMMA AnswerType ==
    ASSUME NEW p \in Payload, ~IsRange(p),
           NEW answer \in [status : Status, dmi : BOOLEAN],
           NEW side \in {1, 2}, side = IF p.generic THEN 1 ELSE 2
    PROVE  [p EXCEPT !.status = answer.status[side], !.dmi = answer.dmi] \in Payload
<1>1. /\ answer.status[1] \in {y[1] : y \in Status}
      /\ answer.status[2] \in {y[2] : y \in Status}
      /\ answer.dmi \in BOOLEAN
  OBVIOUS
<1> DEFINE GC == {c[1] : c \in Command}
           MC == {c[2] : c \in Command}
           GS == {s[1] : s \in Status}
           MS == {s[2] : s \in Status}
           Generic == [generic : {TRUE}, cmd : GC, data : Words,
                       len : 0 .. LengthMod - 1, status : GS, dmi : BOOLEAN]
           Mapped  == [generic : {FALSE}, cmd : MC, data : Words,
                       len : Nat, status : MS, dmi : BOOLEAN]
<1>2. Payload = Generic \cup Mapped \cup [range : Words]
  BY DEF Payload
<1>3. answer.status[1] \in GS /\ answer.status[2] \in MS
  BY <1>1
<1> HIDE DEF GC, MC, GS, MS
<1>4. CASE p \in [range : Words]
  BY <1>4 DEF IsRange
<1>5. CASE p \in Generic
  <2>1. p.generic = TRUE
    BY <1>5
  <2>2. side = 1
    BY <2>1
  <2>3. [p EXCEPT !.status = answer.status[1], !.dmi = answer.dmi] \in Generic
    BY <1>1, <1>3, <1>5
  <2> QED  BY <1>2, <2>2, <2>3
<1>6. CASE p \in Mapped
  <2>1. p.generic = FALSE
    BY <1>6
  <2>2. side = 2
    BY <2>1
  <2>3. [p EXCEPT !.status = answer.status[2], !.dmi = answer.dmi] \in Mapped
    BY <1>1, <1>3, <1>6
  <2> QED  BY <1>2, <2>2, <2>3
<1> QED  BY <1>2, <1>4, <1>5, <1>6

LEMMA Serves ==
    ASSUME CallInv, NEW c \in GoodCall, NEW answer \in [status : Status, dmi : BOOLEAN],
           Serve(c, answer)
    PROVE  /\ CallInv'
           /\ \E d \in GoodCall :
                /\ Becomes(c, d)
                /\ d.from = c.from /\ d.kind = c.kind /\ d.route = c.route
                /\ d.served = TRUE /\ d.ret \in {"callback", "default"}
                /\ \/ d.trans = c.trans
                   \/ /\ ~IsRange(Given(c))
                      /\ \E status, dmi :
                           d.trans = [c.trans EXCEPT ![Len(c.trans)] =
                                         [Given(c) EXCEPT !.status = status, !.dmi = dmi]]
<1> DEFINE last == Len(c.trans)
           side == IF IsRange(Given(c)) THEN 0 ELSE IF Given(c).generic THEN 1 ELSE 2
           x == IF side = 0 THEN c.trans[last]
                ELSE [c.trans[last] EXCEPT !.status = answer.status[side], !.dmi = answer.dmi]
           d1 == [c EXCEPT !.served = TRUE, !.ret = "callback", !.trans[last] = x]
           d2 == [c EXCEPT !.served = TRUE, !.ret = "default"]
<1>1. Becomes(c, d1) \/ Becomes(c, d2)
  <2>1. \/ Becomes(c, [c EXCEPT !.served = TRUE, !.ret = "callback",
                                !.trans[last] = IF side = 0 THEN @
                                                ELSE [@ EXCEPT !.status = answer.status[side],
                                                              !.dmi = answer.dmi]])
        \/ Becomes(c, d2)
    BY DEF Serve
  <2> QED  BY <2>1
<1>2. x \in Payload
  <2>1. Given(c) \in Payload /\ c.trans[last] = Given(c)
    BY GivenType DEF Given
  <2>2. CASE IsRange(Given(c))
    BY <2>1, <2>2
  <2>3. CASE ~IsRange(Given(c))
    <3>1. side \in {1, 2} /\ side = (IF Given(c).generic THEN 1 ELSE 2)
      BY <2>3
    <3>2. x = [Given(c) EXCEPT !.status = answer.status[side], !.dmi = answer.dmi]
      BY <2>1, <3>1
    <3> HIDE DEF side, x
    <3> QED  BY <2>1, <2>3, <3>1, <3>2, AnswerType
  <2> QED  BY <2>2, <2>3
<1> HIDE DEF x
<1>3. c \in CallRecord /\ c.route # <<>> /\ Len(c.trans) = Len(c.route) /\ c.trans \in Seq(Payload)
  BY DEF GoodCall, CallRecord
<1>4. d1 \in GoodCall
  <2>1. [c.trans EXCEPT ![last] = x] \in Seq(Payload)
        /\ Len([c.trans EXCEPT ![last] = x]) = Len(c.trans)
    BY <1>2, <1>3, ExceptSeq
  <2>2. d1 = [c EXCEPT !.served = TRUE, !.ret = "callback",
                       !.trans = [c.trans EXCEPT ![last] = x]]
    OBVIOUS
  <2>3. d1.trans = [c.trans EXCEPT ![last] = x] /\ d1.route = c.route
    BY <1>3 DEF CallRecord
  <2>4. d1 \in CallRecord
    BY <1>3, <2>1, <2>2 DEF CallRecord
  <2> QED  BY <1>3, <2>1, <2>3, <2>4 DEF GoodCall
<1>5. d2 \in GoodCall
  BY <1>3 DEF GoodCall, CallRecord
<1>6. /\ d1.from = c.from /\ d1.kind = c.kind /\ d1.route = c.route /\ d1.served = TRUE
      /\ d1.ret = "callback" /\ d1.trans = [c.trans EXCEPT ![last] = x]
  BY <1>3 DEF CallRecord
<1>7. /\ d2.from = c.from /\ d2.kind = c.kind /\ d2.route = c.route /\ d2.served = TRUE
      /\ d2.ret = "default" /\ d2.trans = c.trans
  BY <1>3 DEF CallRecord
<1> HIDE DEF d1, d2
<1>8. \/ d1.trans = c.trans
      \/ /\ ~IsRange(Given(c))
         /\ \E status, dmi :
              d1.trans = [c.trans EXCEPT ![last] =
                             [Given(c) EXCEPT !.status = status, !.dmi = dmi]]
  <2>1. c.trans[last] = Given(c)
    BY <1>3 DEF Given
  <2>2. CASE IsRange(Given(c))
    <3>1. x = c.trans[last]
      BY <2>2 DEF x
    <3>2. [c.trans EXCEPT ![last] = c.trans[last]] = c.trans
      BY <1>3
    <3> QED  BY <1>6, <3>1, <3>2
  <2>3. CASE ~IsRange(Given(c))
    <3>1. x = [Given(c) EXCEPT !.status = answer.status[side], !.dmi = answer.dmi]
      BY <2>1, <2>3 DEF x
    <3> HIDE DEF side
    <3> QED  BY <1>6, <2>3, <3>1
  <2> QED  BY <2>2, <2>3
<1>9. CallInv'
  BY <1>1, <1>4, <1>5, BecomesGood
<1> QED  BY <1>1, <1>4, <1>5, <1>6, <1>7, <1>8, <1>9

LEMMA AdapterGoesBack ==
    ASSUME CallInv, NEW c \in GoodCall, AdapterReturns(c)
    PROVE  /\ CallInv'
           /\ \E d \in GoodCall :
                /\ Becomes(c, d)
                /\ d.from = c.from /\ d.kind = c.kind /\ d.served = c.served /\ d.ret = c.ret
                /\ Len(d.route) = Len(c.route) - 1 /\ d.route[1] = c.route[1]
                /\ \A n \in 1 .. Len(c.route) - 2 : d.trans[n] = c.trans[n]
                /\ d.trans[Len(c.route) - 1] = Convert(Given(c))
<1> DEFINE k == Len(c.route) - 1
           x == CopyBack(c)
           d == [c EXCEPT !.route = SubSeq(@, 1, k), !.trans = Append(SubSeq(@, 1, k - 1), x)]
<1>1. Becomes(c, d) /\ Len(c.route) > 1
  BY DEF AdapterReturns
<1>2. x \in Payload
  BY GivenType, PayloadIsConverted DEF CopyBack
<1> HIDE DEF x
<1>3. /\ c \in CallRecord /\ c.route \in Seq(Ends \cup {Clog}) /\ c.trans \in Seq(Payload)
      /\ Len(c.trans) = Len(c.route) /\ Len(c.route) \in Nat
  BY GivenType DEF GoodCall, CallRecord
<1>4. /\ k \in 1 .. Len(c.route) /\ k - 1 \in 0 .. Len(c.route)
  BY <1>1, <1>3
<1>5. /\ SubSeq(c.route, 1, k) \in Seq(Ends \cup {Clog})
      /\ Len(SubSeq(c.route, 1, k)) = k
  BY <1>3, <1>4, SubSeqProperties
<1>6. /\ SubSeq(c.trans, 1, k - 1) \in Seq(Payload)
      /\ Len(SubSeq(c.trans, 1, k - 1)) = k - 1
  BY <1>3, <1>4, SubSeqProperties
<1>7. /\ Append(SubSeq(c.trans, 1, k - 1), x) \in Seq(Payload)
      /\ Len(Append(SubSeq(c.trans, 1, k - 1), x)) = k
  BY <1>2, <1>3, <1>6, AppendProperties
<1>8. d \in GoodCall
  <2>1. d.route = SubSeq(c.route, 1, k) /\ d.trans = Append(SubSeq(c.trans, 1, k - 1), x)
    BY <1>3 DEF CallRecord
  <2>2. d \in CallRecord
    BY <1>3, <1>5, <1>7 DEF CallRecord
  <2>3. SubSeq(c.route, 1, k) # <<>>
    <3>1. Len(SubSeq(c.route, 1, k)) # 0
      BY <1>3, <1>4, <1>5
    <3>2. Len(<<>>) = 0
      BY EmptySeq
    <3> QED  BY <3>1, <3>2, Zenon
  <2> QED  BY <1>5, <1>7, <2>1, <2>2, <2>3 DEF GoodCall
<1>9. /\ d.from = c.from /\ d.kind = c.kind /\ d.served = c.served /\ d.ret = c.ret
      /\ d.route = SubSeq(c.route, 1, k) /\ d.trans = Append(SubSeq(c.trans, 1, k - 1), x)
  BY <1>3 DEF CallRecord
<1> HIDE DEF d
<1>10. d.route[1] = c.route[1]
  BY <1>3, <1>4, <1>9, SubSeqProperties
<1>11. /\ \A n \in 1 .. k - 1 : d.trans[n] = c.trans[n]
       /\ d.trans[k] = x
  <2>1. \A n \in 1 .. k - 1 : SubSeq(c.trans, 1, k - 1)[n] = c.trans[n]
    BY <1>3, <1>4, SubSeqProperties
  <2> QED  BY <1>2, <1>4, <1>6, <1>9, <2>1, AppendProperties
<1>12. CallInv'
  BY <1>1, <1>8, BecomesGood
<1>13. k - 1 = Len(c.route) - 2 /\ Len(d.route) = Len(c.route) - 1
  BY <1>3, <1>5, <1>9
<1> QED  BY <1>1, <1>8, <1>9, <1>10, <1>11, <1>12, <1>13 DEF x, CopyBack

LEMMA RunTypes ==
    ASSUME TypeOK, CallInv, Run PROVE TypeOK' /\ CallInv'
<1>1. ASSUME NEW b \in Bidirs, NEW n \in 0 .. Len(outs[b]) + Len(backs[b]), Select(b, n)
      PROVE  TypeOK' /\ CallInv'
  <2>1. n \in Nat
    <3>1. b \in Ends
      BY AdaptersAreApart DEF Sockets
    <3>2. Len(outs[b]) \in Nat /\ Len(backs[b]) \in Nat
      BY <3>1, LenProperties DEF TypeOK
    <3> QED  BY <3>2
  <2> QED  BY <1>1, <2>1 DEF Select, bindVars, TypeOK, CallInv
<1>2. ASSUME CallInv', \/ UNCHANGED <<platform, stage, bindVars, elaborated, callback, index>>
                       \/ Abort
      PROVE  TypeOK' /\ CallInv'
  <2>1. stack' \in Seq(CallRecord) /\ blocked' \subseteq CallRecord
    <3>1. GoodCall \subseteq CallRecord
      BY DEF GoodCall
    <3>2. \A S, T : S \subseteq T => Seq(S) \subseteq Seq(T)
      BY SeqMonotonic
    <3> QED  BY <1>2, <3>1, <3>2 DEF CallInv
  <2> QED  BY <1>2, <2>1 DEF TypeOK, bindVars, callVars, Abort
<1>3. ASSUME NEW s \in Sockets, NEW kind \in platform.kinds, NEW n \in 1 .. Len(PortFor(s, kind)),
             NEW p \in Arguments(s, kind), Call(s, n, kind, p)
      PROVE  TypeOK' /\ CallInv'
  <2>1. p \in Payload
    <3>1. [range : Words] \subseteq Payload
      BY DEF Payload
    <3> QED  BY <3>1, NewPayloadType DEF Arguments
  <2>2. kind \in Kinds
    BY LinksAssumption DEF TypeOK, Platform
  <2>3. CallInv'
    BY <1>3, <2>1, <2>2, MakesCalls
  <2> QED  BY <1>2, <1>3, <2>3 DEF Call
<1>4. ASSUME NEW c \in Calls, AdapterCalls(c) PROVE TypeOK' /\ CallInv'
  <2>1. CallInv'
    BY <1>4, CallsAreGood, AdapterForwards
  <2> QED  BY <1>2, <1>4, <2>1 DEF AdapterCalls
<1>5. ASSUME NEW c \in Calls, AdapterReturns(c) PROVE TypeOK' /\ CallInv'
  <2>1. CallInv'
    BY <1>5, CallsAreGood, AdapterGoesBack
  <2> QED  BY <1>2, <1>5, <2>1 DEF AdapterReturns
<1>6. ASSUME NEW c \in Calls, CallReturns(c) PROVE TypeOK' /\ CallInv'
  <2>1. CallInv'
    <3>1. CASE stack = <<>>
      BY <1>6, <3>1 DEF CallReturns, CallInv
    <3>2. CASE stack # <<>>
      <4>1. stack' = Tail(stack) /\ UNCHANGED blocked
        BY <1>6, <3>2 DEF CallReturns
      <4> QED  BY <3>2, <4>1, HeadTailProperties DEF CallInv
    <3> QED  BY <3>1, <3>2
  <2> QED  BY <1>2, <1>6, <2>1 DEF CallReturns
<1>7. ASSUME NEW c \in Calls, NEW a \in platform.answers, Serve(c, a) PROVE TypeOK' /\ CallInv'
  <2>1. a \in [status : Status, dmi : BOOLEAN]
    BY LinksAssumption DEF TypeOK, Platform
  <2>2. CallInv'
    BY <1>7, <2>1, CallsAreGood, Serves
  <2> QED  BY <1>2, <1>7, <2>2 DEF Serve
<1>8. ASSUME NEW b \in Bidirs, NEW kind, CallNobody(b, kind) PROVE TypeOK' /\ CallInv'
  <2>1. CallInv'
    BY <1>8 DEF CallNobody, Abort, callVars, CallInv
  <2> QED  BY <1>2, <1>8, <2>1 DEF CallNobody
<1> QED  BY <1>1, <1>3, <1>4, <1>5, <1>6, <1>7, <1>8, Zenon DEF Run

-----------------------------------------------------------------------------
LEMMA InitTypes == Init => TypeOK /\ CallInv
<1> SUFFICES ASSUME Init PROVE TypeOK /\ CallInv
  OBVIOUS
<1>1. offered \subseteq Sockets \X {"fw", "bw"}
  BY DEF Init, Sides
<1>2. <<>> \in Seq(Ends \cup {Clog}) /\ stack \in Seq(CallRecord) /\ stack \in Seq(GoodCall)
  BY EmptySeq DEF Init
<1> QED  BY <1>1, <1>2 DEF Init, TypeOK, CallInv

\* Every variable has its type, and every call is a good one, for any platforms.
THEOREM LinkTypes == Spec => [](TypeOK /\ CallInv)
<1>1. ASSUME TypeOK, CallInv, [Next]_vars PROVE TypeOK' /\ CallInv'
  <2>1. CASE Build
    <3>1. UNCHANGED <<stack, blocked>>
      BY <2>1 DEF Build, BindInitiator, BindToGeneric, BindFromGeneric, BindBidirectional, Bind,
                  BindFor, JoinGeneric, JoinGenericTarget, BindHierarchical, JoinInitiator,
                  JoinTarget, Join, Offer, EndBuilding, Abort, callVars
    <3> QED  BY <1>1, <2>1, <3>1, BuildTypes DEF CallInv
  <2>2. CASE Elaborate
    <3>1. UNCHANGED <<stack, blocked>>
      BY <2>2 DEF Elaborate, BeforeEndOfElaboration, EndElaboration, Abort, callVars
    <3> QED  BY <1>1, <2>2, <3>1, ElaborateTypes DEF CallInv
  <2>3. CASE Run
    BY <1>1, <2>3, RunTypes
  <2>4. ASSUME NEW s \in Sockets, NEW kind \in platform.kinds, Register(s, kind)
        PROVE  TypeOK' /\ CallInv'
    <3>1. kind \in Kinds
      BY <1>1, LinksAssumption DEF TypeOK, Platform
    <3> QED  BY <1>1, <2>4, <3>1 DEF Register, bindVars, callVars, TypeOK, CallInv
  <2>5. CASE UNCHANGED vars
    BY <1>1, <2>5 DEF vars, bindVars, callVars, TypeOK, CallInv
  <2> QED  BY <1>1, <2>1, <2>2, <2>3, <2>4, <2>5, Zenon DEF Next
<1> QED  BY <1>1, InitTypes, PTL DEF Spec

-----------------------------------------------------------------------------
\* Both ports of a bidirectional socket have the same peers.

\* What an outer socket may be joined with.
JoinsInv ==
    /\ \A o \in OuterInits : inner[o] \in {Adapter(i) : i \in Initiators} \cup {NoEnd}
    /\ \A o \in OuterTargets : inner[o] \in {Adapter(t) : t \in MMTargets \cup OuterMMTargets} \cup {NoEnd}
    /\ \A o \in OuterBidirs : inner[o] \in Bidirs \cup {NoEnd}
    /\ \A o \in OuterMMInits : inner[o] \in MMInits \cup Bidirs \cup {NoEnd}
    /\ \A o \in OuterMMTargets : inner[o] \in MMTargets \cup Bidirs \cup {NoEnd}

\* The adapter of a target that is not yet in place has the peers that were bound
\* to it, each by a binding of one pair.
AdapterInv ==
    \A t \in MMTargets \cup OuterMMTargets :
        backs[Adapter(t)] # <<>> /\ t \notin elaborated =>
            \E p \in UNION wanted : p[2] = t /\ {p} \in wanted

\* What PeersAligned asks of b.
BothWaysOnly(b) ==
    /\ \A i \in bound : Core(i) # b
    /\ \A w \in wanted : (\E p \in w : b \in {Core(p[1]), Core(p[2])}) => Cardinality(w) = 2

AlignInv == JoinsInv /\ AdapterInv /\ PeersAligned

\* Once it is joined, a socket stands for the same end for ever.
LEMMA CoreIsKept ==
    ASSUME TypeOK, NEW e, NEW o, Joins(e, o)
    PROVE  \A x : Core(x) # NoEnd => Core(x)' = Core(x)
<1>1. CASE Abort
  BY <1>1 DEF Abort, bindVars, Core
<1>2. CASE ~Abort
  <2>1. inner[o] = NoEnd /\ inner' = [inner EXCEPT ![o] = e]
    BY <1>2 DEF Joins, Join
  <2> QED  BY <2>1 DEF TypeOK, Core
<1> QED  BY <1>1, <1>2

LEMMA BothWaysKept ==
    ASSUME NEW b \in Bidirs, bound \subseteq bound', wanted \subseteq wanted',
           \A x : Core(x) = b => Core(x)' = b, BothWaysOnly(b)'
    PROVE  BothWaysOnly(b)
<1>1. ASSUME NEW i \in bound PROVE Core(i) # b
  <2>1. Core(i)' # b
    BY <1>1 DEF BothWaysOnly
  <2> QED  BY <2>1
<1>2. ASSUME NEW w \in wanted, NEW p \in w, b \in {Core(p[1]), Core(p[2])}
      PROVE  Cardinality(w) = 2
  <2>1. b \in {Core(p[1])', Core(p[2])'} /\ w \in wanted'
    BY <1>2
  <2> QED  BY <1>2, <2>1 DEF BothWaysOnly
<1> QED  BY <1>1, <1>2 DEF BothWaysOnly

\* A binding of one pair leaves out the sockets that are bound both ways only.
LEMMA OnePairIsNotBothWays ==
    ASSUME NEW b, NEW p, {p} \in wanted, BothWaysOnly(b)
    PROVE  Core(p[1]) # b /\ Core(p[2]) # b
<1>1. Cardinality({p}) = 1
  BY FS_Singleton
<1> QED  BY <1>1 DEF BothWaysOnly

\* The ports of an end that is not in pairs get nothing.
LEMMA OthersKeepPeers ==
    ASSUME TypeOK, NEW pairs \in SUBSET (Ends \X Ends), Connect(pairs), NEW e \in Ends
    PROVE  /\ (\A p \in pairs : p[1] # e) => outs'[e] = outs[e]
           /\ (\A p \in pairs : p[2] # e) => backs'[e] = backs[e]
<1>1. (\A p \in pairs : p[2] # e) => \A p \in Swapped(pairs) : p[1] # e
  BY DEF Swapped
<1> QED  BY <1>1 DEF Connect, AppendPeers

LEMMA BindOneAligns ==
    ASSUME TypeOK, AlignInv, NEW x, NEW y, BindsOne(x, y)
    PROVE  AlignInv'
<1> DEFINE cores == {<<Core(p[1]), Core(p[2])>> : p \in {<<x, y>>}}
           owners == {<<Owner(Core(p[1])), Owner(Core(p[2]))>> : p \in {<<x, y>>}}
           own == <<Owner(Core(x)), Owner(Core(y))>>
<1>1. {<<x, y>>} \in SUBSET (Parties \X Parties) /\ Bind({<<x, y>>})
  BY FromAndTo DEF BindsOne
<1>2. UNCHANGED <<inner, elaborated>> /\ bound \subseteq bound'
  BY <1>1 DEF Bind, BindFor, BindsOne
<1>3. \A z : Core(z)' = Core(z)
  BY <1>2 DEF Core
<1>4. cores = {<<Core(x), Core(y)>>} /\ owners = {own}
  OBVIOUS
<1>5. \/ UNCHANGED <<outs, backs, wanted>>
      \/ /\ cores \in SUBSET (Ends \X Ends) /\ Connect(cores)
         /\ wanted' = wanted \cup {owners}
  BY <1>1, BindTypes, Zenon
<1> HIDE DEF cores, owners, own
<1>6. CASE UNCHANGED <<outs, backs, wanted>>
  <2>1. ASSUME NEW b \in Bidirs, BothWaysOnly(b)' PROVE outs'[b] = backs'[b]
    <3>1. BothWaysOnly(b)
      BY <1>2, <1>3, <1>6, <2>1, BothWaysKept
    <3> QED  BY <1>6, <3>1 DEF AlignInv, PeersAligned, BothWaysOnly
  <2>2. PeersAligned'
    BY <2>1 DEF PeersAligned, BothWaysOnly
  <2>3. JoinsInv' /\ AdapterInv'
    BY <1>2, <1>6 DEF AlignInv, JoinsInv, AdapterInv
  <2> QED  BY <2>2, <2>3 DEF AlignInv
<1>7. CASE ~UNCHANGED <<outs, backs, wanted>>
  <2>1. /\ {<<Core(x), Core(y)>>} \in SUBSET (Ends \X Ends)
        /\ Connect({<<Core(x), Core(y)>>}) /\ wanted' = wanted \cup {{own}}
    BY <1>4, <1>5, <1>7
  <2>2. Core(x) \in Ends /\ Core(y) \in Ends
    BY <2>1
  <2>3. ASSUME NEW b \in Bidirs, BothWaysOnly(b)' PROVE outs'[b] = backs'[b]
    <3>1. BothWaysOnly(b)
      BY <1>2, <1>3, <2>1, <2>3, BothWaysKept
    <3>2. b \in Ends /\ Owner(b) = b /\ Core(b) = b
      BY AdaptersAreApart, CoreTypes DEF Sockets
    <3>3. Core(own[1]) # b /\ Core(own[2]) # b
      <4> DEFINE At(p) == b \in {Core(p[1]), Core(p[2])}
      <4>1. \A w \in wanted' : (\E p \in w : At(p)) => Cardinality(w) = 2
        BY <1>3, <2>3 DEF BothWaysOnly
      <4>2. {own} \in wanted' /\ own \in {own}
        BY <2>1
      <4> HIDE DEF At
      <4>3. At(own) => Cardinality({own}) = 2
        BY <4>1, <4>2, Zenon
      <4>4. ~At(own)
        BY <4>3, FS_Singleton
      <4> QED  BY <4>4 DEF At
    <3>4. Core(Owner(Core(x))) # b /\ Core(Owner(Core(y))) # b
      BY <3>3 DEF own
    <3>5. Core(x) # b /\ Core(y) # b
      BY <3>2, <3>4
    <3>6. outs'[b] = outs[b] /\ backs'[b] = backs[b]
      BY <2>1, <3>2, <3>5, OthersKeepPeers
    <3> QED  BY <3>1, <3>6 DEF AlignInv, PeersAligned, BothWaysOnly
  <2>4. PeersAligned'
    BY <2>3 DEF PeersAligned, BothWaysOnly
  <2>5. ASSUME NEW t \in MMTargets \cup OuterMMTargets, backs'[Adapter(t)] # <<>>, t \notin elaborated
        PROVE  \E p : p[2] = t /\ {p} \in wanted'
    <3>1. Adapter(t) \in Ends /\ Owner(Adapter(t)) = t
      BY AdaptersAreApart DEF Adapted
    <3>2. CASE Core(y) = Adapter(t)
      BY <2>1, <3>1, <3>2 DEF own
    <3>3. CASE Core(y) # Adapter(t)
      <4>1. backs'[Adapter(t)] = backs[Adapter(t)]
        BY <2>1, <3>1, <3>3, OthersKeepPeers
      <4> QED  BY <2>1, <2>5, <4>1 DEF AlignInv, AdapterInv
    <3> QED  BY <3>2, <3>3
  <2>6. JoinsInv' /\ AdapterInv'
    BY <1>2, <2>5 DEF AlignInv, JoinsInv, AdapterInv
  <2> QED  BY <2>4, <2>6 DEF AlignInv
<1> QED  BY <1>6, <1>7

LEMMA BindBothAligns ==
    ASSUME TypeOK, AlignInv, NEW a, NEW c, BindsBoth(a, c)
    PROVE  AlignInv'
<1> DEFINE pairs == {<<a, c>>, <<c, a>>}
           cores == {<<Core(p[1]), Core(p[2])>> : p \in pairs}
           owners == {<<Owner(Core(p[1])), Owner(Core(p[2]))>> : p \in pairs}
<1>1. pairs \in SUBSET (Parties \X Parties) /\ Bind(pairs)
  BY AdaptersAreApart DEF BindsBoth, Parties, Sockets, Outers
<1>2. UNCHANGED <<inner, elaborated, bound>>
  BY <1>1 DEF Bind, BindFor, BindsBoth
<1>3. \A z : Core(z)' = Core(z)
  BY <1>2 DEF Core
<1>4. cores = {<<Core(a), Core(c)>>, <<Core(c), Core(a)>>}
  OBVIOUS
<1>5. \/ UNCHANGED <<outs, backs, wanted>>
      \/ /\ cores \in SUBSET (Ends \X Ends) /\ Connect(cores)
         /\ wanted' = wanted \cup {owners}
  BY <1>1, BindTypes, Zenon
<1>6. Swapped(cores) = cores
  <2> DEFINE A == Core(a)  C == Core(c)
  <2>1. cores = {<<A, C>>, <<C, A>>}
    BY <1>4
  <2> HIDE DEF A, C, cores
  <2>2. Swapped({<<A, C>>, <<C, A>>}) = {<<A, C>>, <<C, A>>}
    BY DEF Swapped
  <2> QED  BY <2>1, <2>2
<1> HIDE DEF cores, owners
<1>7. \/ UNCHANGED <<outs, backs>>
      \/ outs' = AppendPeers(outs, cores) /\ backs' = AppendPeers(backs, cores)
  BY <1>5, <1>6 DEF Connect
<1>8. ASSUME NEW b \in Bidirs, BothWaysOnly(b)' PROVE outs'[b] = backs'[b]
  <2>1. BothWaysOnly(b)
    <3>1. bound \subseteq bound' /\ wanted \subseteq wanted'
      BY <1>2, <1>5
    <3>2. \A z : Core(z) = b => Core(z)' = b
      BY <1>3
    <3> QED  BY <1>8, <3>1, <3>2, BothWaysKept
  <2>2. outs[b] = backs[b] /\ b \in Ends
    BY <2>1, AdaptersAreApart DEF AlignInv, PeersAligned, BothWaysOnly, Sockets
  <2>3. AppendPeers(outs, cores)[b] = AppendPeers(backs, cores)[b]
    <3>1. CASE \E p \in cores : p[1] = b
      BY <2>2, <3>1 DEF AppendPeers
    <3>2. CASE ~\E p \in cores : p[1] = b
      BY <2>2, <3>2 DEF AppendPeers
    <3> QED  BY <3>1, <3>2
  <2> QED  BY <1>7, <2>2, <2>3
<1>9. ASSUME NEW t \in MMTargets \cup OuterMMTargets
      PROVE  backs'[Adapter(t)] = backs[Adapter(t)]
  <2>1. Core(a) \in Bidirs \cup {NoEnd} /\ Core(c) \in Bidirs \cup {NoEnd}
    BY ClassesAreApart DEF BindsBoth, AlignInv, JoinsInv, Core, Outers, Sockets
  <2>2. Adapter(t) \in Ends /\ Adapter(t) \notin Bidirs \cup {NoEnd}
    BY AdaptersAreApart DEF Adapted, Sockets
  <2>3. \A p \in cores : p[1] # Adapter(t)
    BY <1>4, <2>1, <2>2
  <2> QED  BY <1>7, <2>2, <2>3 DEF AppendPeers
<1>10. PeersAligned'
  BY <1>8 DEF PeersAligned, BothWaysOnly
<1>11. JoinsInv' /\ AdapterInv'
  BY <1>2, <1>5, <1>9 DEF AlignInv, JoinsInv, AdapterInv
<1> QED  BY <1>10, <1>11 DEF AlignInv

LEMMA JoinsAreTyped ==
    ASSUME TypeOK, JoinsInv, NEW e, NEW o, Joins(e, o)
    PROVE  JoinsInv'
<1>1. inner' = inner \/ inner' = [inner EXCEPT ![o] = e]
  BY DEF Joins, Join, Abort, bindVars
<1>2. /\ OuterInits \cap OuterTargets = {} /\ OuterInits \cap OuterMMInits = {}
      /\ OuterInits \cap OuterMMTargets = {} /\ OuterInits \cap OuterBidirs = {}
      /\ OuterTargets \cap OuterMMInits = {} /\ OuterTargets \cap OuterMMTargets = {}
      /\ OuterTargets \cap OuterBidirs = {} /\ OuterMMInits \cap OuterMMTargets = {}
      /\ OuterMMInits \cap OuterBidirs = {} /\ OuterMMTargets \cap OuterBidirs = {}
  BY ClassesAreApart
<1>3. inner \in [Outers -> Ends \cup {NoEnd}]
  BY DEF TypeOK
<1>4. CASE inner' = inner
  BY <1>4 DEF JoinsInv
<1>5. CASE inner' = [inner EXCEPT ![o] = e]
  BY <1>2, <1>3, <1>5 DEF JoinsInv, Joins, Outers
<1> QED  BY <1>1, <1>4, <1>5

LEMMA JoinAligns ==
    ASSUME TypeOK, AlignInv, NEW e, NEW o, Joins(e, o)
    PROVE  AlignInv'
<1>1. UNCHANGED <<outs, backs, wanted, elaborated>> /\ bound \subseteq bound'
  BY DEF Joins, Join, Abort, bindVars, callVars
<1>2. ASSUME NEW b \in Bidirs, BothWaysOnly(b)' PROVE outs'[b] = backs'[b]
  <2>1. \A x : Core(x) = b => Core(x)' = b
    BY CoreIsKept, AdaptersAreApart DEF Sockets
  <2>2. BothWaysOnly(b)
    BY <1>1, <1>2, <2>1, BothWaysKept
  <2> QED  BY <1>1, <2>2 DEF AlignInv, PeersAligned, BothWaysOnly
<1>3. PeersAligned'
  BY <1>2 DEF PeersAligned, BothWaysOnly
<1>4. AdapterInv'
  BY <1>1 DEF AlignInv, AdapterInv
<1>5. JoinsInv'
  BY JoinsAreTyped DEF AlignInv
<1> QED  BY <1>3, <1>4, <1>5 DEF AlignInv

LEMMA AlignmentSurvives ==
    ASSUME AlignInv, UNCHANGED <<outs, backs, bound, inner, wanted, elaborated>>
    PROVE  AlignInv'
BY DEF AlignInv, JoinsInv, AdapterInv, PeersAligned, Core

LEMMA ElaborateAligns ==
    ASSUME TypeOK, AlignInv, Elaborate PROVE AlignInv'
<1>1. ASSUME NEW s \in Adapted, BeforeEndOfElaboration(s) PROVE AlignInv'
  <2>1. UNCHANGED <<bound, inner, wanted>> /\ elaborated' = elaborated \cup {s} /\ s \notin elaborated
    BY <1>1 DEF BeforeEndOfElaboration
  <2>2. Adapter(s) \in Adapters /\ Adapter(s) \in Ends
    BY AdaptersAreApart
  <2>3. \A z : Core(z)' = Core(z)
    BY <2>1 DEF Core
  <2>4. ASSUME \A b \in Bidirs : BothWaysOnly(b) => outs'[b] = outs[b] /\ backs'[b] = backs[b],
               \A t \in MMTargets \cup OuterMMTargets :
                 t # s => backs'[Adapter(t)] = backs[Adapter(t)]
        PROVE  AlignInv'
    <3>1. ASSUME NEW b \in Bidirs, BothWaysOnly(b)' PROVE outs'[b] = backs'[b]
      <4>1. BothWaysOnly(b)
        BY <2>1, <2>3, <3>1, BothWaysKept
      <4> QED  BY <2>4, <4>1 DEF AlignInv, PeersAligned, BothWaysOnly
    <3>2. PeersAligned'
      BY <3>1 DEF PeersAligned, BothWaysOnly
    <3>3. JoinsInv' /\ AdapterInv'
      BY <2>1, <2>4 DEF AlignInv, JoinsInv, AdapterInv
    <3> QED  BY <3>2, <3>3 DEF AlignInv
  <2>5. CASE UNCHANGED <<outs, backs>>
    BY <2>4, <2>5
  <2>6. CASE Plug(Adapter(s))
    <3>1. \A e \in Ends : e # Adapter(s) => outs'[e] = outs[e] /\ backs'[e] = backs[e]
      BY <2>6 DEF Plug, TypeOK
    <3>2. \A b \in Bidirs : b \in Ends /\ b # Adapter(s)
      BY <2>2, AdaptersAreApart DEF Sockets
    <3>3. \A t \in MMTargets \cup OuterMMTargets :
            t # s => Adapter(t) \in Ends /\ Adapter(t) # Adapter(s)
      BY AdaptersAreApart DEF Adapted
    <3> QED  BY <2>4, <3>1, <3>2, <3>3
  <2>7. CASE /\ s \in Initiators /\ s \in bound /\ Core(s) # NoEnd
             /\ Connect({<<Core(s), Adapter(s)>>})
    <3>1. Core(s) \in Ends
      BY <2>7, CoreTypes, AdaptersAreApart DEF Parties, Initiators, Sockets, Outers
    <3>2. {<<Core(s), Adapter(s)>>} \in SUBSET (Ends \X Ends)
      BY <2>2, <3>1
    <3>3. ASSUME NEW b \in Bidirs, BothWaysOnly(b)
          PROVE  outs'[b] = outs[b] /\ backs'[b] = backs[b]
      <4>1. Core(s) # b /\ Adapter(s) # b /\ b \in Ends
        BY <2>2, <2>7, <3>3, AdaptersAreApart DEF BothWaysOnly, Sockets
      <4> QED  BY <2>7, <3>2, <4>1, OthersKeepPeers
    <3>4. ASSUME NEW t \in MMTargets \cup OuterMMTargets, t # s
          PROVE  backs'[Adapter(t)] = backs[Adapter(t)]
      <4>1. Adapter(t) # Adapter(s) /\ Adapter(t) \in Ends
        BY <3>4, AdaptersAreApart DEF Adapted
      <4> QED  BY <2>7, <3>2, <4>1, OthersKeepPeers
    <3> QED  BY <2>4, <3>3, <3>4
  <2>8. CASE /\ s \in MMTargets \cup OuterMMTargets /\ backs[Adapter(s)] # <<>> /\ Core(s) # NoEnd
             /\ Connect({<<Adapter(s), Core(s)>>})
    <3>1. Core(s) \in MMTargets \cup Bidirs /\ Core(s) \in Ends
      BY <2>8, ClassesAreApart, AdaptersAreApart DEF AlignInv, JoinsInv, Core, Sockets, Outers
    <3>2. {<<Adapter(s), Core(s)>>} \in SUBSET (Ends \X Ends)
      BY <2>2, <3>1
    <3>3. ASSUME NEW b \in Bidirs, BothWaysOnly(b)
          PROVE  outs'[b] = outs[b] /\ backs'[b] = backs[b]
      <4>1. PICK p : p[2] = s /\ {p} \in wanted
        BY <2>1, <2>8 DEF AlignInv, AdapterInv
      <4>2. Core(s) # b
        BY <3>3, <4>1, OnePairIsNotBothWays
      <4>3. Adapter(s) # b /\ b \in Ends
        BY <2>2, AdaptersAreApart DEF Sockets
      <4> QED  BY <2>8, <3>2, <4>2, <4>3, OthersKeepPeers
    <3>4. ASSUME NEW t \in MMTargets \cup OuterMMTargets, t # s
          PROVE  backs'[Adapter(t)] = backs[Adapter(t)]
      <4>1. Adapter(t) \in Ends /\ Core(s) # Adapter(t)
        BY <3>1, AdaptersAreApart DEF Adapted, Sockets
      <4> QED  BY <2>8, <3>2, <4>1, OthersKeepPeers
    <3> QED  BY <2>4, <3>3, <3>4
  <2>9. \/ UNCHANGED <<outs, backs>>
        \/ Plug(Adapter(s))
        \/ s \in Initiators /\ s \in bound /\ Core(s) # NoEnd /\ Connect({<<Core(s), Adapter(s)>>})
        \/ /\ s \in MMTargets \cup OuterMMTargets /\ PortSize(Adapter(s)) # 0 /\ Core(s) # NoEnd
           /\ Connect({<<Adapter(s), Core(s)>>})
    BY <1>1 DEF BeforeEndOfElaboration, BeforeEndInitiator, BeforeEndTarget, Gives, Adapted, Initiators
  <2>10. PortSize(Adapter(s)) # 0 => backs[Adapter(s)] # <<>>
    <3>1. Core(Adapter(s)) = Adapter(s)
      BY <2>2, CoreTypes
    <3>2. CASE backs[Adapter(s)] = <<>>
      <4>1. {n \in 1 .. Len(backs[Adapter(s)]) :
               \/ Core(Adapter(s)) = Adapter(s)
               \/ backs[Adapter(s)][n] # Adapter(Core(Adapter(s)))} = {}
        BY <3>2, EmptySeq
      <4> QED  BY <3>1, <4>1, FS_EmptySet DEF PortSize, Own
    <3> QED  BY <3>2
  <2> QED  BY <2>5, <2>6, <2>7, <2>8, <2>9, <2>10
<1>2. ASSUME EndElaboration PROVE AlignInv'
  BY <1>2, AlignmentSurvives DEF EndElaboration, Abort, bindVars
<1> QED  BY <1>1, <1>2 DEF Elaborate

LEMMA BuildAligns ==
    ASSUME TypeOK, AlignInv, Build PROVE AlignInv'
<1>1. ASSUME NEW s \in platform.plain, NEW sides \in SUBSET Sides(s), Offer(s, sides) PROVE AlignInv'
  BY <1>1, AlignmentSurvives DEF Offer, Abort, bindVars
<1>2. ASSUME EndBuilding PROVE AlignInv'
  BY <1>2, AlignmentSurvives DEF EndBuilding, bindVars
<1> QED  BY <1>1, <1>2, BuildSteps, BindOneAligns, BindBothAligns, JoinAligns, Zenon

LEMMA RunKeepsBindings ==
    ASSUME Run PROVE UNCHANGED <<platform, bindVars, elaborated>>
BY DEF Run, Select, Call, CallNobody, AdapterCalls, AdapterReturns, CallReturns, Serve, Abort

\* Whatever is bound and elaborated, the two ports of a bidirectional socket that
\* is bound with its like only have the same peers.
THEOREM PortsAreAligned == Spec => []PeersAligned
<1>1. Init => AlignInv
  <2> SUFFICES ASSUME Init PROVE AlignInv
    OBVIOUS
  <2>1. JoinsInv
    BY DEF Init, JoinsInv, Outers
  <2>2. \A t \in MMTargets \cup OuterMMTargets : Adapter(t) \in Ends
    BY AdaptersAreApart DEF Adapted
  <2>3. AdapterInv
    BY <2>2 DEF Init, AdapterInv
  <2>4. PeersAligned
    BY AdaptersAreApart DEF Init, PeersAligned, Sockets
  <2> QED  BY <2>1, <2>3, <2>4 DEF AlignInv
<1>2. ASSUME TypeOK, AlignInv, [Next]_vars PROVE AlignInv'
  <2>1. CASE Run
    BY <1>2, <2>1, RunKeepsBindings, AlignmentSurvives DEF bindVars
  <2>2. ASSUME NEW s \in Sockets, NEW kind \in platform.kinds, Register(s, kind) PROVE AlignInv'
    BY <1>2, <2>2, AlignmentSurvives DEF Register, bindVars
  <2>3. CASE UNCHANGED vars
    BY <1>2, <2>3, AlignmentSurvives DEF vars, bindVars
  <2> QED  BY <1>2, <2>1, <2>2, <2>3, BuildAligns, ElaborateAligns, Zenon DEF Next
<1>3. AlignInv => PeersAligned
  BY DEF AlignInv
<1> QED  BY <1>1, <1>2, <1>3, LinkTypes, PTL DEF Spec

-----------------------------------------------------------------------------
\* The bindings of the platform's author work.

\* The peers in a port, as a set.
PeersIn(port) == {port[n] : n \in 1 .. Len(port)}

\* The ends that a binding is made from, and those it is made to.
Callers == MMInits \cup Bidirs \cup GenericInits \cup {Adapter(i) : i \in Initiators}
Callees == MMTargets \cup Bidirs \cup GenericTargets \cup {Adapter(t) : t \in Targets}

\* Two ends are peers of each other, or none is of the other.
Mutual == \A e, q \in Ends : q \in PeersIn(outs[e]) <=> e \in PeersIn(backs[q])

\* What there is in a port: the ends that the author asked for, what elaboration
\* has put between a socket and its adapter, and plugs.
AskedFor(e, q) == /\ e \in Callers /\ q \in Callees
                  /\ <<Owner(e), Owner(q)>> \in UNION wanted
                  /\ e \in Adapters => Owner(e) \in bound

OutsExplained ==
    \A e \in Ends : \A q \in PeersIn(outs[e]) :
        \/ AskedFor(e, q)
        \/ \E i \in Initiators \cap bound \cap elaborated : e = Core(i) /\ q = Adapter(i)
        \/ \E t \in Targets \cap elaborated : e = Adapter(t) /\ q = Core(t)
        \/ q = Clog /\ \E s \in elaborated \ bound : e = Adapter(s)

PlugsExplained ==
    \A e \in Ends : Clog \in PeersIn(backs[e]) => e \in Adapters /\ Clog \in PeersIn(outs[e])

\* What the author asked for is there, and all of it is present.
WantedLinked ==
    \A w \in wanted : \A p \in w :
        /\ Present(p[1]) /\ Present(p[2])
        /\ \E e \in Callers, q \in Callees :
             /\ Owner(e) = p[1] /\ Owner(q) = p[2]
             /\ q \in PeersIn(outs[e])
             /\ e \in Adapters => p[1] \in bound

\* What elaboration has done for a socket.
InitiatorInPlace(i) == Core(i) \in Sockets /\ Adapter(i) \in PeersIn(outs[Core(i)])
TargetInPlace(t) == /\ Core(t) \in Sockets /\ Core(t) \in PeersIn(outs[Adapter(t)])
                    /\ PeersIn(backs[Adapter(t)]) # {}
TargetPlugged(t) == /\ Clog \in PeersIn(outs[Adapter(t)])
                    /\ JoinedBackward(Adapter(t)) \/ PeersIn(backs[Adapter(t)]) \subseteq {Clog}

InPlace ==
    /\ \A i \in Initiators \cap bound \cap elaborated : InitiatorInPlace(i)
    /\ \A t \in Targets \cap elaborated : TargetInPlace(t) \/ TargetPlugged(t)
    /\ \A i \in Initiators \cap bound :
         PeersIn(outs[Adapter(i)]) # {} \/ JoinedForward(Adapter(i))

JoinsPresent ==
    /\ \A o \in Outers : inner[o] # NoEnd => Present(Owner(inner[o]))
    /\ \A o \in OuterInits : inner[o] # NoEnd => Owner(inner[o]) \in bound
    /\ \A s \in elaborated : Present(s)

StagesInOrder ==
    /\ stage = "building" => elaborated = {}
    /\ stage = "running" => PortsWithin /\ \A s \in Adapted : Present(s) => s \in elaborated

WorkInv ==
    /\ JoinsInv
    /\ stage # "aborted" => /\ Mutual /\ OutsExplained /\ PlugsExplained /\ WantedLinked
                            /\ InPlace /\ JoinsPresent /\ StagesInOrder

LEMMA PeersFacts ==
    ASSUME NEW S, NEW port \in Seq(S)
    PROVE  /\ PeersIn(port) \subseteq S
           /\ \A x \in S : PeersIn(Append(port, x)) = PeersIn(port) \cup {x}
           /\ port = <<>> => PeersIn(port) = {}
           /\ port # <<>> => port[1] \in PeersIn(port) /\ Len(port) > 0
           /\ Len(port) = 1 => PeersIn(port) = {port[1]}
           /\ Len(port) \in Nat
<1>1. Len(port) \in Nat /\ \A n \in 1 .. Len(port) : port[n] \in S
  BY LenProperties, ElementOfSeq
<1>2. ASSUME NEW x \in S PROVE PeersIn(Append(port, x)) = PeersIn(port) \cup {x}
  <2>1. /\ Len(Append(port, x)) = Len(port) + 1
        /\ \A n \in 1 .. Len(port) : Append(port, x)[n] = port[n]
        /\ Append(port, x)[Len(port) + 1] = x
    BY AppendProperties
  <2>2. \A n : n \in 1 .. Len(port) + 1 <=> n \in 1 .. Len(port) \/ n = Len(port) + 1
    BY <1>1
  <2> QED  BY <2>1, <2>2 DEF PeersIn
<1>3. port # <<>> => Len(port) > 0
  BY <1>1, EmptySeq
<1>4. port = <<>> => Len(port) = 0
  BY EmptySeq
<1> QED  BY <1>1, <1>2, <1>3, <1>4 DEF PeersIn

\* No end is in two of the pairs, on the same side.
Functional(pairs) == \A p, r \in pairs : p[1] = r[1] \/ p[2] = r[2] => p = r

LEMMA ConnectAdds ==
    ASSUME TypeOK, NEW pairs \in SUBSET (Ends \X Ends), Functional(pairs), Connect(pairs)
    PROVE  \A e \in Ends :
             /\ \A q : q \in PeersIn(outs'[e]) <=> q \in PeersIn(outs[e]) \/ <<e, q>> \in pairs
             /\ \A q : q \in PeersIn(backs'[e]) <=> q \in PeersIn(backs[e]) \/ <<q, e>> \in pairs
<1>1. ASSUME NEW peers \in [Ends -> Seq(Ends \cup {Clog})], NEW ps \in SUBSET (Ends \X Ends),
             \A p, r \in ps : p[1] = r[1] => p = r, NEW e \in Ends
      PROVE  \A q : q \in PeersIn(AppendPeers(peers, ps)[e])
                      <=> q \in PeersIn(peers[e]) \/ <<e, q>> \in ps
  <2>1. CASE AppendPeers(peers, ps)[e] = peers[e] /\ \A p \in ps : p[1] # e
    BY <2>1
  <2>2. ASSUME NEW p \in ps, p[1] = e, AppendPeers(peers, ps)[e] = Append(peers[e], p[2])
        PROVE  \A q : q \in PeersIn(AppendPeers(peers, ps)[e])
                        <=> q \in PeersIn(peers[e]) \/ <<e, q>> \in ps
    <3>1. peers[e] \in Seq(Ends \cup {Clog}) /\ p[2] \in Ends \cup {Clog} /\ p = <<e, p[2]>>
      BY <2>2
    <3>2. PeersIn(Append(peers[e], p[2])) = PeersIn(peers[e]) \cup {p[2]}
      BY <3>1, PeersFacts
    <3>3. \A q : <<e, q>> \in ps <=> q = p[2]
      <4>1. ASSUME NEW q, <<e, q>> \in ps PROVE q = p[2]
        <5>1. <<e, q>> = p
          BY <1>1, <2>2, <4>1
        <5> QED  BY <5>1, <3>1
      <4> QED  BY <3>1, <4>1
    <3>4. PeersIn(AppendPeers(peers, ps)[e]) = PeersIn(peers[e]) \cup {p[2]}
      BY <2>2, <3>2
    <3> QED  BY <3>3, <3>4
  <2>3. \/ AppendPeers(peers, ps)[e] = peers[e] /\ \A p \in ps : p[1] # e
        \/ \E p \in ps : p[1] = e /\ AppendPeers(peers, ps)[e] = Append(peers[e], p[2])
    BY PeersAppended
  <2> QED  BY <2>1, <2>2, <2>3, Zenon
<1>2. ASSUME NEW e \in Ends
      PROVE  \A q : q \in PeersIn(outs'[e]) <=> q \in PeersIn(outs[e]) \/ <<e, q>> \in pairs
  <2>1. outs \in [Ends -> Seq(Ends \cup {Clog})] /\ outs' = AppendPeers(outs, pairs)
    BY DEF TypeOK, Connect
  <2>2. \A p, r \in pairs : p[1] = r[1] => p = r
    BY DEF Functional
  <2> QED  BY <1>1, <2>1, <2>2
<1>3. ASSUME NEW e \in Ends
      PROVE  \A q : q \in PeersIn(backs'[e]) <=> q \in PeersIn(backs[e]) \/ <<q, e>> \in pairs
  <2>1. backs \in [Ends -> Seq(Ends \cup {Clog})] /\ backs' = AppendPeers(backs, Swapped(pairs))
    BY DEF TypeOK, Connect
  <2>2. \A p, r \in Swapped(pairs) : p[1] = r[1] => p = r
    BY DEF Functional, Swapped
  <2>3. Swapped(pairs) \in SUBSET (Ends \X Ends)
    BY SwappedType
  <2>4. \A q : <<e, q>> \in Swapped(pairs) <=> <<q, e>> \in pairs
    BY DEF Swapped
  <2>5. \A q : q \in PeersIn(AppendPeers(backs, Swapped(pairs))[e])
                 <=> q \in PeersIn(backs[e]) \/ <<e, q>> \in Swapped(pairs)
    BY <1>1, <2>1, <2>2, <2>3
  <2> QED  BY <2>1, <2>4, <2>5
<1> QED  BY <1>2, <1>3

LEMMA MutualIsKept ==
    ASSUME TypeOK, Mutual, NEW pairs \in SUBSET (Ends \X Ends), Functional(pairs), Connect(pairs)
    PROVE  Mutual'
BY ConnectAdds DEF Mutual

LEMMA CoreOfParties ==
    ASSUME TypeOK, JoinsInv
    PROVE  /\ \A x \in From : Core(x) \in Callers \cup {NoEnd}
           /\ \A y \in To : Core(y) \in Callees \cup {NoEnd}
           /\ \A i \in Initiators : Core(i) \in MMInits \cup Bidirs \cup {NoEnd}
           /\ \A t \in Targets : Core(t) \in MMTargets \cup Bidirs \cup {NoEnd}
           /\ \A b \in Bidirs \cup OuterBidirs : Core(b) \in Bidirs \cup {NoEnd}
<1>1. \A e \in Ends : Core(e) = e
  BY CoreTypes
<1>2. \A o \in Outers : Core(o) = inner[o]
  BY CoreTypes
<1>3. Sockets \subseteq Ends /\ \A s \in Adapted : Adapter(s) \in Ends
  BY AdaptersAreApart
<1>4. \A x \in MMInits \cup Bidirs \cup GenericInits \cup MMTargets \cup GenericTargets : Core(x) = x
  BY <1>1, <1>3 DEF Sockets
<1>5. /\ \A i \in Initiators : Core(Adapter(i)) = Adapter(i)
      /\ \A t \in Targets : Core(Adapter(t)) = Adapter(t)
  BY <1>1, <1>3 DEF Adapted, Targets
<1>6. \A i \in Initiators : Core(i) \in MMInits \cup Bidirs \cup {NoEnd}
  BY <1>2, <1>4 DEF Initiators, JoinsInv, Outers
<1>7. \A t \in Targets : Core(t) \in MMTargets \cup Bidirs \cup {NoEnd}
  BY <1>2, <1>4 DEF Targets, JoinsInv, Outers
<1>8. \A b \in Bidirs \cup OuterBidirs : Core(b) \in Bidirs \cup {NoEnd}
  BY <1>2, <1>4 DEF JoinsInv, Outers
<1>9. \A o \in OuterInits : Core(o) \in {Adapter(i) : i \in Initiators} \cup {NoEnd}
  BY <1>2 DEF JoinsInv, Outers
<1>10. \A o \in OuterTargets : Core(o) \in {Adapter(t) : t \in Targets} \cup {NoEnd}
  BY <1>2 DEF JoinsInv, Outers, Targets
<1>11. \A x \in From : Core(x) \in Callers \cup {NoEnd}
  BY <1>4, <1>5, <1>6, <1>8, <1>9 DEF From, Callers
<1>12. \A y \in To : Core(y) \in Callees \cup {NoEnd}
  BY <1>4, <1>5, <1>7, <1>8, <1>10 DEF To, Callees
<1> QED  BY <1>6, <1>7, <1>8, <1>11, <1>12

LEMMA CallersAreEnds ==
    /\ Callers \subseteq Ends /\ Callees \subseteq Ends
    /\ \A e \in Callers \cap Adapters : Owner(e) \in Initiators /\ e = Adapter(Owner(e))
    /\ \A e \in Callees \cap Adapters : Owner(e) \in Targets /\ e = Adapter(Owner(e))
    /\ \A i \in Initiators : Adapter(i) \notin Callees
    /\ \A t \in Targets : Adapter(t) \notin Callers
<1>1. Initiators \subseteq Adapted /\ Targets \subseteq Adapted /\ Initiators \cap Targets = {}
  BY ClassesAreApart DEF Initiators, Targets, Adapted, Sockets, Outers
<1>2. /\ Sockets \subseteq Ends /\ Sockets \cap Adapters = {}
      /\ \A s \in Adapted : Adapter(s) \in Adapters /\ Adapter(s) \in Ends /\ Owner(Adapter(s)) = s
  BY AdaptersAreApart
<1>3. MMInits \cup Bidirs \cup GenericInits \cup MMTargets \cup GenericTargets \subseteq Sockets
  BY DEF Sockets
<1> QED  BY <1>1, <1>2, <1>3 DEF Callers, Callees

\* Only an adapter, or an initiator socket around that is joined with one, stands
\* for an adapter.
LEMMA AdapterCaller ==
    ASSUME TypeOK, JoinsInv, NEW x \in From, Core(x) \in Adapters
    PROVE  \/ x \in OuterInits /\ inner[x] = Core(x)
           \/ \E i \in Initiators : x = Adapter(i) /\ Core(x) = x /\ Owner(Core(x)) = i
<1>1. /\ \A e \in Ends : Core(e) = e
      /\ \A o \in Outers : Core(o) = inner[o]
  BY CoreTypes
<1>2. /\ Sockets \subseteq Ends /\ Sockets \cap Adapters = {} /\ NoEnd \notin Ends
      /\ Adapters \subseteq Ends
      /\ \A s \in Adapted : Adapter(s) \in Ends /\ Owner(Adapter(s)) = s
  BY AdaptersAreApart
<1>3. CASE x \in Initiators \cup Bidirs \cup OuterBidirs
  <2>1. Core(x) \in Sockets \cup {NoEnd}
    BY <1>3, CoreOfParties DEF Sockets
  <2> QED  BY <1>2, <2>1
<1>4. CASE x \in GenericInits
  BY <1>1, <1>2, <1>4 DEF Sockets
<1>5. CASE x \in OuterInits
  BY <1>1, <1>5 DEF Outers
<1>6. CASE x \in {Adapter(i) : i \in Initiators}
  BY <1>1, <1>2, <1>6 DEF Adapted
<1> QED  BY <1>3, <1>4, <1>5, <1>6 DEF From

\* A binding that is made links what the author asked for.
LEMMA BindWorks ==
    ASSUME TypeOK, WorkInv, NEW pairs \in SUBSET (From \X To), Bind(pairs),
           Functional({<<Core(p[1]), Core(p[2])>> : p \in pairs}),
           bound \subseteq bound', bound' \subseteq Initiators,
           \A p \in pairs : Core(p[1]) \in Adapters => Owner(Core(p[1])) \in bound',
           \A i \in bound' \ bound : \E p \in pairs : Core(p[1]) = Adapter(i)
    PROVE  WorkInv'
<1> DEFINE cores == {<<Core(p[1]), Core(p[2])>> : p \in pairs}
           owners == {<<Owner(Core(p[1])), Owner(Core(p[2]))>> : p \in pairs}
<1>1. /\ UNCHANGED <<platform, inner, elaborated>> /\ stage = "building"
      /\ \A p \in pairs : Present(Owner(p[1])) /\ Present(Owner(p[2]))
  BY DEF Bind, BindFor
<1>2. pairs \in SUBSET (Parties \X Parties)
  BY FromAndTo
<1>3. \/ stage' = "aborted"
      \/ /\ stage' = stage /\ cores \in SUBSET (Ends \X Ends) /\ Connect(cores)
         /\ wanted' = wanted \cup {owners}
  BY <1>2, BindTypes, Zenon
<1>4. JoinsInv'
  BY <1>1 DEF WorkInv, JoinsInv
<1>5. CASE stage' = "aborted"
  BY <1>4, <1>5 DEF WorkInv
<1>6. CASE stage' # "aborted"
  <2>1. /\ stage' = "building" /\ cores \in SUBSET (Ends \X Ends) /\ Connect(cores)
        /\ wanted' = wanted \cup {owners}
    BY <1>1, <1>3, <1>6
  <2>2. /\ JoinsInv /\ Mutual /\ OutsExplained /\ PlugsExplained /\ WantedLinked
        /\ InPlace /\ JoinsPresent /\ StagesInOrder
    BY <1>1 DEF WorkInv
  <2>3. elaborated = {} /\ elaborated' = {}
    BY <1>1, <2>2 DEF StagesInOrder
  <2>4. ASSUME NEW p \in pairs
        PROVE  /\ Core(p[1]) \in Callers /\ Core(p[2]) \in Callees
               /\ <<Core(p[1]), Core(p[2])>> \in cores
               /\ <<Owner(Core(p[1])), Owner(Core(p[2]))>> \in owners
               /\ Present(Owner(Core(p[1]))) /\ Present(Owner(Core(p[2])))
    <3>1. <<Core(p[1]), Core(p[2])>> \in cores /\ <<Owner(Core(p[1])), Owner(Core(p[2]))>> \in owners
      OBVIOUS
    <3>2. Core(p[1]) \in Ends /\ Core(p[2]) \in Ends
      BY <2>1, <3>1
    <3>3. Core(p[1]) \in Callers /\ Core(p[2]) \in Callees
      <4>1. p[1] \in From /\ p[2] \in To
        OBVIOUS
      <4> QED  BY <2>2, <3>2, <4>1, CoreOfParties, AdaptersAreApart
    <3>4. \A x \in Parties : Core(x) \in Ends /\ Present(Owner(x)) => Present(Owner(Core(x)))
      BY <2>2, CoreTypes, AdaptersAreApart DEF Parties, JoinsPresent
    <3> QED  BY <1>1, <1>2, <3>1, <3>2, <3>3, <3>4
  <2>5. \A c \in cores : \E p \in pairs : c = <<Core(p[1]), Core(p[2])>>
    OBVIOUS
  <2>6. \A w \in owners : \E p \in pairs : w = <<Owner(Core(p[1])), Owner(Core(p[2]))>>
    OBVIOUS
  <2>7. Functional(cores)
    OBVIOUS
  <2> HIDE DEF cores, owners
  <2>8. \A e \in Ends :
          /\ \A q : q \in PeersIn(outs'[e]) <=> q \in PeersIn(outs[e]) \/ <<e, q>> \in cores
          /\ \A q : q \in PeersIn(backs'[e]) <=> q \in PeersIn(backs[e]) \/ <<q, e>> \in cores
    BY <2>1, <2>7, ConnectAdds
  <2>9. Mutual'
    BY <2>1, <2>2, <2>7, MutualIsKept
  <2>10. OutsExplained'
    <3>1. ASSUME NEW e \in Ends, NEW q \in PeersIn(outs'[e]) PROVE AskedFor(e, q)'
      <4>1. CASE q \in PeersIn(outs[e])
        <5>1. AskedFor(e, q)
          BY <2>2, <2>3, <4>1 DEF OutsExplained
        <5> QED  BY <2>1, <5>1 DEF AskedFor
      <4>2. CASE <<e, q>> \in cores
        <5>1. PICK p \in pairs : <<e, q>> = <<Core(p[1]), Core(p[2])>>
          BY <2>5, <4>2
        <5>2. e = Core(p[1]) /\ q = Core(p[2])
          BY <5>1
        <5>3. <<Owner(e), Owner(q)>> \in UNION wanted'
          BY <2>1, <2>4, <5>2
        <5> QED  BY <2>4, <5>2, <5>3 DEF AskedFor
      <4> QED  BY <2>8, <3>1, <4>1, <4>2
    <3> QED  BY <3>1 DEF OutsExplained
  <2>11. PlugsExplained'
    <3>1. ASSUME NEW e \in Ends, Clog \in PeersIn(backs'[e])
          PROVE  e \in Adapters /\ Clog \in PeersIn(outs'[e])
      <4>1. <<Clog, e>> \notin cores
        BY <2>1, AdaptersAreApart
      <4>2. Clog \in PeersIn(backs[e])
        BY <2>8, <3>1, <4>1
      <4> QED  BY <2>2, <2>8, <4>2 DEF PlugsExplained
    <3> QED  BY <3>1 DEF PlugsExplained
  <2>12. WantedLinked'
    <3>1. ASSUME NEW w \in wanted', NEW p \in w
          PROVE  /\ Present(p[1])' /\ Present(p[2])'
                 /\ \E e \in Callers, q \in Callees :
                      /\ Owner(e) = p[1] /\ Owner(q) = p[2]
                      /\ q \in PeersIn(outs'[e])
                      /\ e \in Adapters => p[1] \in bound'
      <4>1. CASE w \in wanted
        <5>1. Present(p[1]) /\ Present(p[2])
          BY <2>2, <3>1, <4>1 DEF WantedLinked
        <5>2. PICK e \in Callers, q \in Callees :
                /\ Owner(e) = p[1] /\ Owner(q) = p[2]
                /\ q \in PeersIn(outs[e])
                /\ e \in Adapters => p[1] \in bound
          BY <2>2, <3>1, <4>1 DEF WantedLinked
        <5>3. q \in PeersIn(outs'[e])
          BY <2>8, <5>2, CallersAreEnds
        <5> QED  BY <1>1, <5>1, <5>2, <5>3 DEF Present
      <4>2. CASE w = owners
        <5>1. PICK r \in pairs : p = <<Owner(Core(r[1])), Owner(Core(r[2]))>>
          BY <2>6, <3>1, <4>2
        <5>2. p[1] = Owner(Core(r[1])) /\ p[2] = Owner(Core(r[2]))
          BY <5>1
        <5>3. Core(r[2]) \in PeersIn(outs'[Core(r[1])])
          BY <2>4, <2>8, CallersAreEnds
        <5> QED  BY <1>1, <2>4, <5>2, <5>3 DEF Present
      <4> QED  BY <2>1, <3>1, <4>1, <4>2
    <3> QED  BY <3>1 DEF WantedLinked
  <2>13. InPlace'
    <3>1. ASSUME NEW i \in Initiators, i \in bound'
          PROVE  PeersIn(outs'[Adapter(i)]) # {} \/ JoinedForward(Adapter(i))'
      <4>1. Adapter(i) \in Ends
        BY AdaptersAreApart DEF Adapted
      <4>2. CASE i \in bound
        <5>1. PeersIn(outs[Adapter(i)]) # {} \/ JoinedForward(Adapter(i))
          BY <2>2, <4>2 DEF InPlace
        <5>2. PeersIn(outs[Adapter(i)]) \subseteq PeersIn(outs'[Adapter(i)])
          BY <2>8, <4>1
        <5> QED  BY <1>1, <5>1, <5>2 DEF JoinedForward
      <4>3. CASE i \notin bound
        <5>1. PICK p \in pairs : Core(p[1]) = Adapter(i)
          BY <3>1, <4>3
        <5>2. <<Adapter(i), Core(p[2])>> \in cores
          BY <2>4, <5>1
        <5> QED  BY <2>8, <4>1, <5>2
      <4> QED  BY <4>2, <4>3
    <3> QED  BY <2>3, <3>1 DEF InPlace
  <2>14. JoinsPresent' /\ StagesInOrder'
    BY <1>1, <2>1, <2>2, <2>3 DEF JoinsPresent, StagesInOrder, Present
  <2> QED  BY <1>4, <2>9, <2>10, <2>11, <2>12, <2>13, <2>14 DEF WorkInv
<1> QED  BY <1>5, <1>6

LEMMA BindOneWorks ==
    ASSUME TypeOK, WorkInv, NEW x, NEW y, BindsOne(x, y)
    PROVE  WorkInv'
<1> DEFINE pairs == {<<x, y>>}
<1>1. /\ x \in From /\ y \in To /\ Bind(pairs)
      /\ bound' = bound \cup {i \in Initiators : x = Adapter(i)}
  BY DEF BindsOne
<1>2. pairs \in SUBSET (From \X To) /\ bound \subseteq bound' /\ bound' \subseteq Initiators
  BY <1>1 DEF TypeOK
<1>3. {<<Core(p[1]), Core(p[2])>> : p \in pairs} = {<<Core(x), Core(y)>>}
  OBVIOUS
<1>4. Functional({<<Core(p[1]), Core(p[2])>> : p \in pairs})
  BY <1>3 DEF Functional
<1>5. stage = "building"
  BY <1>1 DEF Bind, BindFor
<1>6. Core(x) \in Adapters => Owner(Core(x)) \in bound'
  <2>1. ASSUME x \in OuterInits, inner[x] = Core(x), Core(x) \in Adapters
        PROVE  Owner(Core(x)) \in bound'
    <3>1. inner[x] # NoEnd
      BY <2>1, AdaptersAreApart
    <3> QED  BY <1>2, <1>5, <2>1, <3>1 DEF WorkInv, JoinsPresent
  <2>2. ASSUME NEW i \in Initiators, x = Adapter(i), Owner(Core(x)) = i
        PROVE  Owner(Core(x)) \in bound'
    BY <1>1, <2>2
  <2> QED  BY <1>1, <2>1, <2>2, AdapterCaller DEF WorkInv
<1>7. \A p \in pairs : Core(p[1]) \in Adapters => Owner(Core(p[1])) \in bound'
  BY <1>6
<1>8. \A i \in bound' \ bound : \E p \in pairs : Core(p[1]) = Adapter(i)
  <2>1. ASSUME NEW i \in bound' \ bound PROVE Core(x) = Adapter(i)
    <3>1. i \in Initiators /\ x = Adapter(i)
      BY <1>1, <2>1
    <3> QED  BY <3>1, CoreTypes, AdaptersAreApart DEF Adapted
  <2> QED  BY <2>1
<1> HIDE DEF pairs
<1> QED  BY <1>1, <1>2, <1>4, <1>7, <1>8, BindWorks

LEMMA BindBothWorks ==
    ASSUME TypeOK, WorkInv, NEW a, NEW c, BindsBoth(a, c)
    PROVE  WorkInv'
<1> DEFINE pairs == {<<a, c>>, <<c, a>>}
           A == Core(a)
           C == Core(c)
<1>1. /\ a \in Bidirs \cup OuterBidirs /\ c \in Bidirs \cup OuterBidirs /\ Bind(pairs)
      /\ bound' = bound
  BY DEF BindsBoth
<1>2. pairs \in SUBSET (From \X To) /\ bound \subseteq bound' /\ bound' \subseteq Initiators
  BY <1>1 DEF TypeOK, From, To
<1>3. {<<Core(p[1]), Core(p[2])>> : p \in pairs} = {<<A, C>>, <<C, A>>}
  OBVIOUS
<1>4. A \notin Adapters /\ C \notin Adapters
  BY <1>1, CoreOfParties, AdaptersAreApart DEF WorkInv, Sockets, Ends
<1>5. \A p \in pairs : Core(p[1]) \in {A, C}
  OBVIOUS
<1> HIDE DEF A, C
<1>6. Functional({<<A, C>>, <<C, A>>})
  BY DEF Functional
<1>7. Functional({<<Core(p[1]), Core(p[2])>> : p \in pairs})
  BY <1>3, <1>6, Zenon
<1>8. \A p \in pairs : Core(p[1]) \in Adapters => Owner(Core(p[1])) \in bound'
  BY <1>4, <1>5
<1>9. \A i \in bound' \ bound : \E p \in pairs : Core(p[1]) = Adapter(i)
  BY <1>1
<1> HIDE DEF pairs
<1> QED  BY <1>1, <1>2, <1>7, <1>8, <1>9, BindWorks

LEMMA JoinWorks ==
    ASSUME TypeOK, WorkInv, NEW e, NEW o, Joins(e, o)
    PROVE  WorkInv'
<1>1. JoinsInv'
  BY JoinsAreTyped DEF WorkInv
<1>2. CASE stage' = "aborted"
  BY <1>1, <1>2 DEF WorkInv
<1>3. CASE stage' # "aborted"
  <2>1. /\ UNCHANGED <<platform, stage, outs, backs, wanted, elaborated>>
        /\ stage = "building"
        /\ Present(Owner(e)) /\ Present(o) /\ inner[o] = NoEnd
        /\ inner' = [inner EXCEPT ![o] = e]
        /\ bound' = IF o \in OuterInits THEN bound \cup {Owner(e)} ELSE bound
    BY <1>3 DEF Joins, Join, Abort
  <2>2. /\ Mutual /\ OutsExplained /\ PlugsExplained /\ WantedLinked
        /\ InPlace /\ JoinsPresent /\ StagesInOrder
    BY <2>1 DEF WorkInv
  <2>3. elaborated = {} /\ elaborated' = {} /\ bound \subseteq bound'
    BY <2>1, <2>2 DEF StagesInOrder
  <2>4. o \in Outers /\ inner \in [Outers -> Ends \cup {NoEnd}]
    BY DEF Joins, Outers, TypeOK
  <2>5. Mutual' /\ PlugsExplained' /\ StagesInOrder'
    BY <2>1, <2>2, <2>3 DEF Mutual, PlugsExplained, StagesInOrder
  <2>6. OutsExplained'
    BY <2>1, <2>2, <2>3 DEF OutsExplained, AskedFor
  <2>7. WantedLinked'
    <3>1. ASSUME NEW w \in wanted, NEW p \in w
          PROVE  /\ Present(p[1]) /\ Present(p[2])
                 /\ \E f \in Callers, q \in Callees :
                      /\ Owner(f) = p[1] /\ Owner(q) = p[2]
                      /\ q \in PeersIn(outs[f])
                      /\ f \in Adapters => p[1] \in bound'
      BY <2>2, <2>3 DEF WantedLinked
    <3> QED  BY <2>1, <3>1 DEF WantedLinked, Present
  <2>8. InPlace'
    <3>1. ASSUME NEW i \in Initiators, i \in bound'
          PROVE  PeersIn(outs'[Adapter(i)]) # {} \/ JoinedForward(Adapter(i))'
      <4>1. Adapter(i) # NoEnd /\ Owner(Adapter(i)) = i
        BY AdaptersAreApart DEF Adapted
      <4>2. CASE i \in bound
        <5>1. PeersIn(outs[Adapter(i)]) # {} \/ JoinedForward(Adapter(i))
          BY <2>2, <4>2 DEF InPlace
        <5>2. JoinedForward(Adapter(i)) => JoinedForward(Adapter(i))'
          BY <2>1, <2>4, <4>1 DEF JoinedForward, Outers
        <5> QED  BY <2>1, <5>1, <5>2
      <4>3. CASE i \notin bound
        <5>1. o \in OuterInits /\ i = Owner(e)
          BY <2>1, <3>1, <4>3
        <5>2. e \in {Adapter(j) : j \in Initiators}
          BY <5>1, ClassesAreApart DEF Joins
        <5>3. e = Adapter(i)
          BY <5>1, <5>2, AdaptersAreApart DEF Adapted
        <5> QED  BY <2>1, <2>4, <5>1, <5>3 DEF JoinedForward
      <4> QED  BY <4>2, <4>3
    <3> QED  BY <2>3, <3>1 DEF InPlace
  <2>9. JoinsPresent'
    BY <2>1, <2>2, <2>3, <2>4 DEF JoinsPresent, Present, Outers
  <2> QED  BY <1>1, <2>5, <2>6, <2>7, <2>8, <2>9 DEF WorkInv
<1> QED  BY <1>2, <1>3

\* No port changes.
LEMMA BindingsSurvive ==
    ASSUME WorkInv, stage # "aborted",
           UNCHANGED <<platform, outs, backs, bound, inner, wanted, elaborated>>
    PROVE  /\ JoinsInv' /\ Mutual' /\ OutsExplained' /\ PlugsExplained' /\ WantedLinked'
           /\ InPlace' /\ JoinsPresent'
<1>1. /\ JoinsInv /\ Mutual /\ OutsExplained /\ PlugsExplained /\ WantedLinked
      /\ InPlace /\ JoinsPresent
  BY DEF WorkInv
<1>2. \A x : /\ Core(x)' = Core(x) /\ JoinedForward(x)' = JoinedForward(x)
             /\ JoinedBackward(x)' = JoinedBackward(x) /\ Present(x)' = Present(x)
  BY DEF Core, JoinedForward, JoinedBackward, Present
<1>3. JoinsInv' /\ Mutual' /\ PlugsExplained'
  BY <1>1 DEF JoinsInv, Mutual, PlugsExplained
<1>4. OutsExplained'
  BY <1>1, <1>2 DEF OutsExplained, AskedFor
<1>5. WantedLinked'
  BY <1>1, <1>2 DEF WantedLinked
<1>6. InPlace'
  BY <1>1, <1>2 DEF InPlace, InitiatorInPlace, TargetInPlace, TargetPlugged
<1>7. JoinsPresent'
  BY <1>1, <1>2 DEF JoinsPresent
<1> QED  BY <1>3, <1>4, <1>5, <1>6, <1>7

LEMMA WorkSurvives ==
    ASSUME WorkInv, stage' \in {stage, "aborted"}, stage # "running" \/ UNCHANGED offered,
           UNCHANGED <<platform, outs, backs, bound, inner, wanted, elaborated>>
    PROVE  WorkInv'
<1>1. CASE stage' = "aborted"
  BY <1>1 DEF WorkInv, JoinsInv
<1>2. CASE stage' = stage /\ stage # "aborted"
  <2>1. StagesInOrder
    BY <1>2 DEF WorkInv
  <2>2. stage = "running" => PortsWithin' = PortsWithin
    BY DEF PortsWithin, Within, Own, Core, Present
  <2>3. StagesInOrder'
    BY <1>2, <2>1, <2>2 DEF StagesInOrder, Present
  <2> QED  BY <1>2, <2>3, BindingsSurvive DEF WorkInv
<1> QED  BY <1>1, <1>2

LEMMA BuildWorks ==
    ASSUME TypeOK, WorkInv, Build PROVE WorkInv'
<1>1. ASSUME NEW s \in platform.plain, NEW sides \in SUBSET Sides(s), Offer(s, sides) PROVE WorkInv'
  BY <1>1, WorkSurvives DEF Offer, Abort, bindVars
<1>2. ASSUME EndBuilding PROVE WorkInv'
  <2>1. /\ stage = "building" /\ stage' = "elaborating"
        /\ UNCHANGED <<platform, outs, backs, bound, inner, wanted, elaborated>>
    BY <1>2 DEF EndBuilding, bindVars
  <2> QED  BY <2>1, BindingsSurvive DEF WorkInv, StagesInOrder
<1> QED  BY <1>1, <1>2, BuildSteps, BindOneWorks, BindBothWorks, JoinWorks, Zenon

LEMMA PortSizeOfAdapter ==
    ASSUME TypeOK, NEW e \in Adapters
    PROVE  /\ PortSize(e) = IF JoinedBackward(e) THEN 0 ELSE Len(backs[e])
           /\ PortSize(e) # 0 <=> ~JoinedBackward(e) /\ PeersIn(backs[e]) # {}
<1>1. e \in Ends /\ Core(e) = e /\ e # NoEnd
  BY CoreTypes, AdaptersAreApart
<1>2. backs[e] \in Seq(Ends \cup {Clog}) /\ Len(backs[e]) \in Nat
  BY <1>1, LenProperties DEF TypeOK
<1>3. Cardinality(1 .. Len(backs[e])) = Len(backs[e])
  <2>1. \A n \in Nat : Cardinality(1 .. n) = n
    BY FS_Interval
  <2> QED  BY <1>2, <2>1
<1>4. {n \in 1 .. Len(backs[e]) : Core(e) = e \/ backs[e][n] # Adapter(Core(e))} = 1 .. Len(backs[e])
  BY <1>1
<1>5. Own(e, backs[e]) = Len(backs[e])
  BY <1>3, <1>4 DEF Own
<1>6. PortSize(e) = IF JoinedBackward(e) THEN 0 ELSE Len(backs[e])
  BY <1>1, <1>5 DEF PortSize
<1>7. Len(backs[e]) # 0 <=> PeersIn(backs[e]) # {}
  <2>1. CASE backs[e] = <<>>
    BY <1>2, <2>1, PeersFacts, EmptySeq
  <2>2. CASE backs[e] # <<>>
    <3>1. backs[e][1] \in PeersIn(backs[e]) /\ Len(backs[e]) > 0
      BY <1>2, <2>2, PeersFacts
    <3> QED  BY <1>2, <3>1
  <2> QED  BY <2>1, <2>2
<1> QED  BY <1>6, <1>7

\* A step of elaboration puts one more socket in place, if it explains what it adds
\* to the ports.
LEMMA ElaborateOne ==
    ASSUME TypeOK, WorkInv, stage # "aborted", stage # "building", stage' = stage,
           stage # "running",
           UNCHANGED <<platform, bound, inner, wanted>>,
           NEW s \in Adapted, elaborated' = elaborated \cup {s}, Present(s),
           NEW added \in SUBSET ((Ends \cup {Clog}) \X (Ends \cup {Clog})),
           \A e \in Ends :
             /\ \A q : q \in PeersIn(outs'[e]) <=> q \in PeersIn(outs[e]) \/ <<e, q>> \in added
             /\ \A q : q \in PeersIn(backs'[e]) <=> q \in PeersIn(backs[e]) \/ <<q, e>> \in added,
           \A e \in Ends : \A q : <<e, q>> \in added =>
             \/ s \in Initiators \cap bound /\ e = Core(s) /\ q = Adapter(s)
             \/ s \in Targets /\ e = Adapter(s) /\ q = Core(s)
             \/ q = Clog /\ s \notin bound /\ e = Adapter(s),
           \A e \in Ends : <<Clog, e>> \in added => e = Adapter(s) /\ <<e, Clog>> \in added,
           \A t \in Targets : \A q : <<q, Adapter(t)>> \in added => q = Clog,
           s \in Initiators \cap bound => InitiatorInPlace(s)',
           s \in Targets => TargetInPlace(s)' \/ TargetPlugged(s)'
    PROVE  WorkInv'
<1>1. /\ JoinsInv /\ Mutual /\ OutsExplained /\ PlugsExplained /\ WantedLinked
      /\ InPlace /\ JoinsPresent /\ StagesInOrder
  BY DEF WorkInv
<1>2. \A x : /\ Core(x)' = Core(x) /\ JoinedForward(x)' = JoinedForward(x)
             /\ JoinedBackward(x)' = JoinedBackward(x) /\ Present(x)' = Present(x)
  BY DEF Core, JoinedForward, JoinedBackward, Present
<1>3. \A e \in Ends : /\ PeersIn(outs[e]) \subseteq PeersIn(outs'[e])
                      /\ PeersIn(backs[e]) \subseteq PeersIn(backs'[e])
  OBVIOUS
<1>4. /\ \A t \in Adapted : Adapter(t) \in Ends /\ Adapter(t) \in Adapters
      /\ Sockets \subseteq Ends /\ Clog \notin Ends
  BY AdaptersAreApart
<1>5. JoinsInv'
  BY <1>1 DEF JoinsInv
<1>6. Mutual'
  BY <1>1 DEF Mutual
<1>7. OutsExplained'
  <2>1. ASSUME NEW e \in Ends, NEW q \in PeersIn(outs'[e])
        PROVE  \/ AskedFor(e, q)
               \/ \E i \in Initiators \cap bound \cap elaborated' : e = Core(i) /\ q = Adapter(i)
               \/ \E t \in Targets \cap elaborated' : e = Adapter(t) /\ q = Core(t)
               \/ q = Clog /\ \E u \in elaborated' \ bound : e = Adapter(u)
    <3>1. CASE q \in PeersIn(outs[e])
      BY <1>1, <3>1 DEF OutsExplained
    <3>2. CASE <<e, q>> \in added
      BY <3>2
    <3> QED  BY <2>1, <3>1, <3>2
  <2>2. \A e, q : AskedFor(e, q)' = AskedFor(e, q)
    BY DEF AskedFor
  <2> QED  BY <1>2, <2>1, <2>2 DEF OutsExplained
<1>8. PlugsExplained'
  <2>1. ASSUME NEW e \in Ends, Clog \in PeersIn(backs'[e])
        PROVE  e \in Adapters /\ Clog \in PeersIn(outs'[e])
    <3>1. CASE Clog \in PeersIn(backs[e])
      <4>1. e \in Adapters /\ Clog \in PeersIn(outs[e])
        BY <1>1, <3>1 DEF PlugsExplained
      <4> QED  BY <1>3, <4>1
    <3>2. CASE <<Clog, e>> \in added
      <4>1. e = Adapter(s) /\ <<e, Clog>> \in added
        BY <3>2
      <4>2. Clog \in PeersIn(outs'[e])
        BY <4>1
      <4> QED  BY <1>4, <4>1, <4>2
    <3> QED  BY <2>1, <3>1, <3>2
  <2> QED  BY <2>1 DEF PlugsExplained
<1>9. WantedLinked'
  <2>1. ASSUME NEW w \in wanted, NEW p \in w
        PROVE  /\ Present(p[1]) /\ Present(p[2])
               /\ \E e \in Callers, q \in Callees :
                    /\ Owner(e) = p[1] /\ Owner(q) = p[2]
                    /\ q \in PeersIn(outs'[e])
                    /\ e \in Adapters => p[1] \in bound
    BY <1>1, <1>3, CallersAreEnds DEF WantedLinked
  <2> QED  BY <1>2, <2>1 DEF WantedLinked
<1>10. InPlace'
  <2>1. ASSUME NEW i \in Initiators \cap bound \cap elaborated PROVE InitiatorInPlace(i)'
    <3>1. InitiatorInPlace(i)
      BY <1>1 DEF InPlace
    <3> QED  BY <1>2, <1>3, <1>4, <3>1 DEF InitiatorInPlace
  <2>2. ASSUME NEW t \in Targets \cap elaborated PROVE TargetInPlace(t)' \/ TargetPlugged(t)'
    <3>1. Adapter(t) \in Ends
      BY <1>4 DEF Targets, Adapted
    <3>2. CASE TargetInPlace(t)
      BY <1>2, <1>3, <3>1, <3>2 DEF TargetInPlace
    <3>3. CASE TargetPlugged(t)
      BY <1>2, <1>3, <3>1, <3>3 DEF TargetPlugged
    <3> QED  BY <1>1, <3>2, <3>3 DEF InPlace
  <2>3. ASSUME NEW i \in Initiators \cap bound
        PROVE  PeersIn(outs'[Adapter(i)]) # {} \/ JoinedForward(Adapter(i))'
    <3>1. Adapter(i) \in Ends
      BY <1>4 DEF Adapted
    <3>2. PeersIn(outs[Adapter(i)]) # {} \/ JoinedForward(Adapter(i))
      BY <1>1 DEF InPlace
    <3> QED  BY <1>2, <1>3, <3>1, <3>2
  <2> QED  BY <2>1, <2>2, <2>3 DEF InPlace
<1>11. JoinsPresent' /\ StagesInOrder'
  BY <1>1, <1>2 DEF JoinsPresent, StagesInOrder
<1> QED  BY <1>5, <1>6, <1>7, <1>8, <1>9, <1>10, <1>11 DEF WorkInv

LEMMA ElaborateWorks ==
    ASSUME TypeOK, WorkInv, Elaborate PROVE WorkInv'
<1>1. ASSUME NEW s \in Adapted, BeforeEndOfElaboration(s) PROVE WorkInv'
  <2>1. /\ stage = "elaborating" /\ Present(s)
        /\ UNCHANGED <<platform, bound, inner, wanted>> /\ elaborated' = elaborated \cup {s}
    BY <1>1 DEF BeforeEndOfElaboration
  <2>2. Adapter(s) \in Adapters /\ Adapter(s) \in Ends /\ Clog \notin Ends
    BY AdaptersAreApart
  <2>3. /\ JoinsInv /\ Initiators \cap Targets = {} /\ bound \subseteq Initiators
        /\ Adapted = Initiators \cup Targets
    BY ClassesAreApart DEF WorkInv, TypeOK, Initiators, Targets, Adapted, Sockets, Outers
  <2>4. \A x : /\ Core(x)' = Core(x) /\ JoinedBackward(x)' = JoinedBackward(x)
    BY <2>1 DEF Core, JoinedBackward
  <2>5. \A t \in Targets : Adapter(t) \in Ends /\ (Adapter(t) = Adapter(s) => t = s)
    BY AdaptersAreApart DEF Targets, Adapted
  <2>6. CASE stage' = "aborted"
    BY <2>1, <2>6 DEF WorkInv, JoinsInv
  <2>7. CASE /\ Plug(Adapter(s)) /\ UNCHANGED stage /\ s \notin bound
             /\ s \in Targets => PortSize(Adapter(s)) = 0
    <3> DEFINE added == {<<Adapter(s), Clog>>, <<Clog, Adapter(s)>>}
    <3>1. ASSUME NEW e \in Ends
          PROVE  /\ PeersIn(outs'[e]) = PeersIn(outs[e]) \cup (IF e = Adapter(s) THEN {Clog} ELSE {})
                 /\ PeersIn(backs'[e]) = PeersIn(backs[e]) \cup (IF e = Adapter(s) THEN {Clog} ELSE {})
      <4>1. outs[e] \in Seq(Ends \cup {Clog}) /\ backs[e] \in Seq(Ends \cup {Clog})
        BY DEF TypeOK
      <4>2. /\ outs'[e] = IF e = Adapter(s) THEN Append(outs[e], Clog) ELSE outs[e]
            /\ backs'[e] = IF e = Adapter(s) THEN Append(backs[e], Clog) ELSE backs[e]
        BY <2>2, <2>7 DEF Plug, TypeOK
      <4>3. /\ PeersIn(Append(outs[e], Clog)) = PeersIn(outs[e]) \cup {Clog}
            /\ PeersIn(Append(backs[e], Clog)) = PeersIn(backs[e]) \cup {Clog}
        BY <4>1, PeersFacts
      <4> QED  BY <4>2, <4>3
    <3>2. ASSUME NEW e \in Ends
          PROVE  /\ \A q : q \in PeersIn(outs'[e]) <=> q \in PeersIn(outs[e]) \/ <<e, q>> \in added
                 /\ \A q : q \in PeersIn(backs'[e]) <=> q \in PeersIn(backs[e]) \/ <<q, e>> \in added
      <4>1. \A q : <<e, q>> \in added <=> e = Adapter(s) /\ q = Clog
        BY <2>2
      <4>2. \A q : <<q, e>> \in added <=> e = Adapter(s) /\ q = Clog
        BY <2>2
      <4> HIDE DEF added
      <4> QED  BY <3>1, <4>1, <4>2
    <3>3. added \in SUBSET ((Ends \cup {Clog}) \X (Ends \cup {Clog}))
      BY <2>2
    <3>4. \A e \in Ends : \A q : <<e, q>> \in added => q = Clog /\ s \notin bound /\ e = Adapter(s)
      BY <2>2, <2>7
    <3>5. \A e \in Ends : <<Clog, e>> \in added => e = Adapter(s) /\ <<e, Clog>> \in added
      BY <2>2
    <3>6. \A t \in Targets : \A q : <<q, Adapter(t)>> \in added => q = Clog
      BY <2>2, <2>5
    <3>7. s \in Targets => TargetPlugged(s)'
      <4> SUFFICES ASSUME s \in Targets PROVE TargetPlugged(s)'
        OBVIOUS
      <4>1. Clog \in PeersIn(outs'[Adapter(s)])
        BY <2>2, <3>1
      <4>2. JoinedBackward(Adapter(s)) \/ PeersIn(backs[Adapter(s)]) = {}
        BY <2>2, <2>7, PortSizeOfAdapter
      <4>3. JoinedBackward(Adapter(s)) \/ PeersIn(backs'[Adapter(s)]) \subseteq {Clog}
        BY <2>2, <3>1, <4>2
      <4> QED  BY <2>4, <4>1, <4>3 DEF TargetPlugged
    <3> HIDE DEF added
    <3> QED  BY <2>1, <2>7, <3>2, <3>3, <3>4, <3>5, <3>6, <3>7, ElaborateOne
  <2>8. ASSUME NEW e \in Ends, NEW q \in Ends, Connect({<<e, q>>}), UNCHANGED stage,
               \/ s \in Initiators \cap bound /\ e = Core(s) /\ q = Adapter(s)
               \/ s \in Targets /\ e = Adapter(s) /\ q = Core(s) /\ PortSize(Adapter(s)) # 0
        PROVE  WorkInv'
    <3> DEFINE added == {<<e, q>>}
    <3>1. added \in SUBSET (Ends \X Ends) /\ Functional(added)
      BY DEF Functional
    <3>2. \A f \in Ends :
            /\ \A r : r \in PeersIn(outs'[f]) <=> r \in PeersIn(outs[f]) \/ <<f, r>> \in added
            /\ \A r : r \in PeersIn(backs'[f]) <=> r \in PeersIn(backs[f]) \/ <<r, f>> \in added
      BY <2>8, <3>1, ConnectAdds
    <3>3. \A f \in Ends : <<Clog, f>> \notin added
      BY <2>2
    <3>4. Core(s) \in Sockets
      <4>1. Core(s) \in Ends
        BY <2>8
      <4> QED  BY <2>3, <4>1, CoreOfParties, AdaptersAreApart DEF Sockets
    <3>5. \A t \in Targets : \A r : <<r, Adapter(t)>> \notin added
      BY <2>2, <2>3, <2>5, <2>8, <3>4, AdaptersAreApart DEF Targets, Adapted
    <3>6. s \in Initiators \cap bound => InitiatorInPlace(s)'
      <4> SUFFICES ASSUME s \in Initiators \cap bound PROVE InitiatorInPlace(s)'
        OBVIOUS
      <4>1. <<Core(s), Adapter(s)>> \in added
        BY <2>3, <2>8
      <4> QED  BY <2>4, <2>8, <3>2, <3>4, <4>1, AdaptersAreApart DEF InitiatorInPlace
    <3>7. s \in Targets => TargetInPlace(s)'
      <4> SUFFICES ASSUME s \in Targets PROVE TargetInPlace(s)'
        OBVIOUS
      <4>1. <<Adapter(s), Core(s)>> \in added /\ PortSize(Adapter(s)) # 0
        BY <2>3, <2>8
      <4>2. PeersIn(backs[Adapter(s)]) # {}
        BY <2>2, <4>1, PortSizeOfAdapter
      <4>3. PeersIn(backs'[Adapter(s)]) # {}
        BY <2>2, <3>2, <4>2
      <4> QED  BY <2>2, <2>4, <3>2, <3>4, <4>1, <4>3 DEF TargetInPlace
    <3>8. added \in SUBSET ((Ends \cup {Clog}) \X (Ends \cup {Clog}))
      OBVIOUS
    <3>9. \A f \in Ends : \A r : <<f, r>> \in added =>
             \/ s \in Initiators \cap bound /\ f = Core(s) /\ r = Adapter(s)
             \/ s \in Targets /\ f = Adapter(s) /\ r = Core(s)
      BY <2>8
    <3> HIDE DEF added
    <3> QED  BY <2>1, <2>8, <3>2, <3>3, <3>5, <3>6, <3>7, <3>8, <3>9, ElaborateOne
  <2>9. CASE s \in Initiators
    <3>1. CASE s \notin bound
      <4>1. Plug(Adapter(s)) /\ UNCHANGED stage
        BY <1>1, <2>9, <3>1 DEF BeforeEndOfElaboration, BeforeEndInitiator
      <4> QED  BY <2>3, <2>7, <2>9, <3>1, <4>1
    <3>2. CASE s \in bound /\ stage' # "aborted"
      <4>1. Connect({<<Core(s), Adapter(s)>>}) /\ UNCHANGED stage /\ Core(s) # NoEnd
        BY <1>1, <2>9, <3>2 DEF BeforeEndOfElaboration, BeforeEndInitiator, Gives
      <4>2. Core(s) \in Ends
        BY <2>3, <2>9, <4>1, CoreOfParties, AdaptersAreApart DEF Sockets
      <4> QED  BY <2>2, <2>8, <2>9, <3>2, <4>1, <4>2
    <3> QED  BY <2>6, <3>1, <3>2
  <2>10. CASE s \in Targets
    <3>1. s \notin Initiators /\ s \notin bound
      BY <2>3, <2>10
    <3>2. CASE PortSize(Adapter(s)) = 0
      <4>1. Plug(Adapter(s)) /\ UNCHANGED stage
        BY <1>1, <3>1, <3>2 DEF BeforeEndOfElaboration, BeforeEndTarget
      <4> QED  BY <2>7, <3>1, <3>2, <4>1
    <3>3. CASE PortSize(Adapter(s)) # 0 /\ stage' # "aborted"
      <4>1. Connect({<<Adapter(s), Core(s)>>}) /\ UNCHANGED stage /\ Core(s) # NoEnd
        BY <1>1, <3>1, <3>3 DEF BeforeEndOfElaboration, BeforeEndTarget, Gives
      <4>2. Core(s) \in Ends
        BY <2>3, <2>10, <4>1, CoreOfParties, AdaptersAreApart DEF Sockets
      <4> QED  BY <2>2, <2>8, <2>10, <3>3, <4>1, <4>2
    <3> QED  BY <2>6, <3>2, <3>3
  <2> QED  BY <2>3, <2>9, <2>10
<1>2. ASSUME EndElaboration PROVE WorkInv'
  <2>1. /\ stage = "elaborating"
        /\ UNCHANGED <<platform, outs, backs, offered, bound, inner, wanted, elaborated>>
    BY <1>2 DEF EndElaboration, Abort, bindVars
  <2>2. CASE stage' = "aborted"
    BY <2>1, <2>2, WorkSurvives
  <2>3. CASE stage' # "aborted"
    <3>1. /\ stage' = "running" /\ PortsWithin
          /\ \A s \in Adapted : Present(s) => s \in elaborated
      BY <1>2, <2>3 DEF EndElaboration, Abort
    <3>2. PortsWithin'
      BY <2>1, <3>1 DEF PortsWithin, Within, Own, Core, Present
    <3>3. StagesInOrder'
      BY <2>1, <3>1, <3>2 DEF StagesInOrder, Present
    <3> QED  BY <2>1, <3>3, BindingsSurvive DEF WorkInv
  <2> QED  BY <2>2, <2>3
<1> QED  BY <1>1, <1>2 DEF Elaborate

LEMMA RunWorks ==
    ASSUME WorkInv, Run \/ (\E s \in Sockets, kind \in platform.kinds : Register(s, kind))
                    \/ UNCHANGED vars
    PROVE  WorkInv'
<1>1. /\ stage' \in {stage, "aborted"}
      /\ UNCHANGED <<platform, outs, backs, offered, bound, inner, wanted, elaborated>>
  <2>1. CASE Run
    BY <2>1 DEF Run, Select, Call, CallNobody, AdapterCalls, AdapterReturns, CallReturns, Serve, Abort,
                bindVars
  <2>2. CASE \E s \in Sockets, kind \in platform.kinds : Register(s, kind)
    BY <2>2 DEF Register, bindVars
  <2>3. CASE UNCHANGED vars
    BY <2>3 DEF vars, bindVars
  <2> QED  BY <2>1, <2>2, <2>3
<1> QED  BY <1>1, WorkSurvives

LEMMA InitWorks == Init => WorkInv
<1> SUFFICES ASSUME Init PROVE WorkInv
  OBVIOUS
<1>1. \A e \in Ends : PeersIn(outs[e]) = {} /\ PeersIn(backs[e]) = {}
  BY EmptySeq DEF Init, PeersIn
<1>2. JoinsInv
  BY DEF Init, JoinsInv, Outers
<1>3. Mutual /\ OutsExplained /\ PlugsExplained
  BY <1>1 DEF Mutual, OutsExplained, PlugsExplained
<1>4. WantedLinked /\ InPlace /\ JoinsPresent /\ StagesInOrder
  BY DEF Init, WantedLinked, InPlace, JoinsPresent, StagesInOrder, Outers
<1> QED  BY <1>2, <1>3, <1>4 DEF WorkInv

THEOREM WorkInvariant == Spec => []WorkInv
<1>1. ASSUME TypeOK, WorkInv, [Next]_vars PROVE WorkInv'
  BY <1>1, BuildWorks, ElaborateWorks, RunWorks DEF Next
<1> QED  BY <1>1, InitWorks, LinkTypes, PTL DEF Spec

-----------------------------------------------------------------------------
\* What the ports of a running platform say about its bindings.

LEMMA HopOfSocket == \A s \in Sockets \cup {Clog} : \A kind : Hop(s, kind) = s
BY AdaptersAreApart DEF Hop, Ends

\* An adapter with one peer calls this peer.
LEMMA HopOfAdapter ==
    ASSUME TypeOK, NEW a \in Adapters, NEW kind
    PROVE  /\ PeersIn(PortFor(a, kind)) = {} => Hop(a, kind) = a
           /\ PeersIn(PortFor(a, kind)) # {} => Hop(a, kind) \in PeersIn(PortFor(a, kind))
           /\ \A q \in PeersIn(PortFor(a, kind)) :
                ~(Len(PortFor(a, kind)) > 1) => Hop(a, kind) = q
<1>1. PortFor(a, kind) \in Seq(Ends \cup {Clog})
  BY PortType, AdaptersAreApart
<1>2. CASE PortFor(a, kind) = <<>>
  BY <1>1, <1>2, PeersFacts DEF Hop
<1>3. CASE PortFor(a, kind) # <<>>
  <2>1. /\ Hop(a, kind) = PortFor(a, kind)[1]
        /\ PortFor(a, kind)[1] \in PeersIn(PortFor(a, kind))
        /\ Len(PortFor(a, kind)) > 0 /\ Len(PortFor(a, kind)) \in Nat
    BY <1>1, <1>3, PeersFacts DEF Hop
  <2>2. ASSUME ~(Len(PortFor(a, kind)) > 1), NEW q \in PeersIn(PortFor(a, kind))
        PROVE  Hop(a, kind) = q
    <3>1. Len(PortFor(a, kind)) = 1
      <4> DEFINE n == Len(PortFor(a, kind))
      <4>1. n > 0 /\ n \in Nat /\ ~(n > 1)
        BY <2>1, <2>2
      <4> HIDE DEF n
      <4>2. n = 1
        BY <4>1
      <4> QED  BY <4>2 DEF n
    <3>2. PeersIn(PortFor(a, kind)) = {PortFor(a, kind)[1]}
      BY <1>1, <3>1, PeersFacts
    <3> QED  BY <2>1, <2>2, <3>2
  <2> QED  BY <2>1, <2>2
<1> QED  BY <1>2, <1>3

LEMMA ReachedType ==
    ASSUME NEW s, NEW kind
    PROVE  /\ \A x \in PeersIn(PortFor(s, kind)) : Destination(x, kind) \in Reached(s, kind)
           /\ \A d \in Reached(s, kind) : \E x \in PeersIn(PortFor(s, kind)) : d = Destination(x, kind)
BY DEF PeersIn, Reached

\* A peer of an adapter is the one that the adapter calls, or it is overlooked.
LEMMA CalledOrOverlooked ==
    ASSUME TypeOK, NEW s, NEW kind, NEW a \in Adapters \cap PeersIn(PortFor(s, kind)),
           NEW q \in PeersIn(PortFor(a, kind))
    PROVE  Hop(a, kind) = q \/ Destination(q, kind) \in Overlooked(s, kind)
<1>1. PortFor(a, kind) \in Seq(Ends \cup {Clog})
  BY PortType, AdaptersAreApart
<1>2. PICK n \in 1 .. Len(PortFor(a, kind)) : q = PortFor(a, kind)[n]
  BY DEF PeersIn
<1>3. Len(PortFor(a, kind)) \in Nat /\ PortFor(a, kind) # <<>>
  BY <1>1, <1>2, PeersFacts
<1>4. CASE n = 1
  BY <1>2, <1>3, <1>4 DEF Hop
<1>5. CASE n # 1
  <2>1. n \in 2 .. Len(PortFor(a, kind))
    BY <1>2, <1>3, <1>5
  <2> QED  BY <1>2, <2>1 DEF Overlooked, PeersIn
<1> QED  BY <1>4, <1>5

\* When the platform runs, what is present has been elaborated, and the adapters
\* that are in place have one peer on the side of their socket.
LEMMA WhenRunning ==
    ASSUME TypeOK, WorkInv, stage = "running"
    PROVE  /\ JoinsInv /\ Mutual /\ OutsExplained /\ PlugsExplained /\ WantedLinked /\ InPlace
           /\ \A s \in elaborated : Present(s)
           /\ \A s \in Adapted : Present(s) => s \in elaborated
           /\ \A i \in Initiators : Present(i) => Len(backs[Adapter(i)]) = 1
           /\ \A i \in Initiators : Present(i) /\ outs[Adapter(i)] = <<>> => i \in platform.optional
           /\ \A t \in Targets : Present(t) => Len(outs[Adapter(t)]) = 1
<1>1. /\ JoinsInv /\ Mutual /\ OutsExplained /\ PlugsExplained /\ WantedLinked /\ InPlace
      /\ JoinsPresent /\ StagesInOrder
  BY DEF WorkInv
<1>2. PortsWithin /\ \A s \in Adapted : Present(s) => s \in elaborated
  BY <1>1 DEF StagesInOrder
<1>3. Len(<<>>) = 0
  BY EmptySeq
<1> QED  BY <1>1, <1>2, <1>3 DEF PortsWithin, Within, JoinsPresent, Targets

LEMMA PortOfKind ==
    \A e : PortFor(e, "b_transport") = outs[e] /\ PortFor(e, "nb_transport_bw") = backs[e]
BY DEF PortFor, FwKinds

LEMMA HopToOnePeer ==
    ASSUME TypeOK, NEW a \in Adapters
    PROVE  /\ Len(outs[a]) = 1 => \A q \in PeersIn(outs[a]) : Hop(a, "b_transport") = q
           /\ Len(backs[a]) = 1 => \A q \in PeersIn(backs[a]) : Hop(a, "nb_transport_bw") = q
<1>1. /\ \A q \in PeersIn(PortFor(a, "b_transport")) :
           ~(Len(PortFor(a, "b_transport")) > 1) => Hop(a, "b_transport") = q
      /\ \A q \in PeersIn(PortFor(a, "nb_transport_bw")) :
           ~(Len(PortFor(a, "nb_transport_bw")) > 1) => Hop(a, "nb_transport_bw") = q
  BY HopOfAdapter
<1>2. /\ \A q \in PeersIn(outs[a]) : ~(Len(outs[a]) > 1) => Hop(a, "b_transport") = q
      /\ \A q \in PeersIn(backs[a]) : ~(Len(backs[a]) > 1) => Hop(a, "nb_transport_bw") = q
  BY <1>1, PortOfKind
<1>3. \A n : n = 1 => ~(n > 1)
  OBVIOUS
<1> QED  BY <1>2, <1>3

\* An initiator and its adapter are linked both ways.
LEMMA InitiatorSide ==
    ASSUME TypeOK, WorkInv, stage = "running", NEW i \in Initiators \cap bound, Present(i)
    PROVE  /\ Core(i) \in Sockets
           /\ Adapter(i) \in PeersIn(outs[Core(i)])
           /\ Hop(Adapter(i), "nb_transport_bw") = Core(i)
<1>1. InitiatorInPlace(i)
  BY WhenRunning DEF Adapted, Initiators, InPlace
<1>2. Core(i) \in Sockets /\ Adapter(i) \in PeersIn(outs[Core(i)])
  BY <1>1 DEF InitiatorInPlace
<1>3. Adapter(i) \in Adapters /\ Adapter(i) \in Ends /\ Core(i) \in Ends
  BY <1>2, AdaptersAreApart DEF Adapted
<1>4. Core(i) \in PeersIn(backs[Adapter(i)])
  BY <1>2, <1>3, WhenRunning DEF Mutual
<1>5. Len(backs[Adapter(i)]) = 1
  BY WhenRunning
<1>6. Hop(Adapter(i), "nb_transport_bw") = Core(i)
  BY <1>3, <1>4, <1>5, HopToOnePeer
<1> QED  BY <1>2, <1>6

\* A target and its adapter are linked both ways, or the adapter is plugged because
\* the target is behind a socket around.
LEMMA TargetSide ==
    ASSUME TypeOK, WorkInv, stage = "running", NEW t \in Targets, Present(t),
           NEW e \in Ends, Adapter(t) \in PeersIn(outs[e])
    PROVE  \/ /\ Core(t) \in Sockets
              /\ Hop(Adapter(t), "b_transport") = Core(t)
              /\ Adapter(t) \in PeersIn(backs[Core(t)])
           \/ /\ JoinedBackward(Adapter(t))
              /\ Hop(Adapter(t), "b_transport") = Clog
<1>1. TargetInPlace(t) \/ TargetPlugged(t)
  BY WhenRunning DEF Adapted, Targets, InPlace
<1>2. Adapter(t) \in Adapters /\ Adapter(t) \in Ends /\ Clog \notin Ends
  BY AdaptersAreApart DEF Adapted, Targets
<1>3. \A q \in PeersIn(outs[Adapter(t)]) : Hop(Adapter(t), "b_transport") = q
  <2>1. Len(outs[Adapter(t)]) = 1
    BY WhenRunning
  <2> QED  BY <1>2, <2>1, HopToOnePeer
<1>4. CASE TargetInPlace(t)
  <2>1. Core(t) \in Sockets /\ Core(t) \in PeersIn(outs[Adapter(t)]) /\ Core(t) \in Ends
    BY <1>4, AdaptersAreApart DEF TargetInPlace
  <2>2. Adapter(t) \in PeersIn(backs[Core(t)])
    BY <1>2, <2>1, WhenRunning DEF Mutual
  <2> QED  BY <1>3, <2>1, <2>2
<1>5. CASE TargetPlugged(t)
  <2>1. e \in PeersIn(backs[Adapter(t)])
    BY <1>2, WhenRunning DEF Mutual
  <2>2. JoinedBackward(Adapter(t)) /\ Clog \in PeersIn(outs[Adapter(t)])
    BY <1>2, <1>5, <2>1 DEF TargetPlugged
  <2> QED  BY <1>3, <2>2
<1> QED  BY <1>1, <1>4, <1>5

LEMMA OwnAdapter ==
    ASSUME TypeOK, NEW s \in Adapted PROVE Adapter(s) \in AdaptersOf(Core(s))
BY DEF AdaptersOf

\* A binding works in both directions.
LEMMA BothDirections ==
    ASSUME TypeOK, WorkInv, stage = "running", NEW w \in wanted, NEW p \in w,
           ~Behind(Core(p[1])), ~Behind(Core(p[2]))
    PROVE  /\ \/ Core(p[2]) \in Reached(Core(p[1]), "b_transport")
              \/ Core(p[2]) \in Overlooked(Core(p[1]), "b_transport")
           /\ \/ Core(p[1]) \in Reached(Core(p[2]), "nb_transport_bw")
              \/ Core(p[1]) \in Overlooked(Core(p[2]), "nb_transport_bw")
<1> DEFINE c1 == Core(p[1])
           c2 == Core(p[2])
           F(x) == Hop(x, "b_transport")
           B(x) == Hop(x, "nb_transport_bw")
<1>1. Present(p[1]) /\ Present(p[2])
  BY WhenRunning DEF WantedLinked
<1>2. PICK e \in Callers, q \in Callees :
        /\ Owner(e) = p[1] /\ Owner(q) = p[2]
        /\ q \in PeersIn(outs[e])
        /\ e \in Adapters => p[1] \in bound
  BY WhenRunning DEF WantedLinked
<1>3. e \in Ends /\ q \in Ends /\ e \in PeersIn(backs[q])
  BY <1>2, CallersAreEnds, WhenRunning DEF Mutual
<1>4. \A s \in Sockets : F(s) = s /\ B(s) = s
  BY HopOfSocket
<1>5. /\ e \in Sockets /\ c1 = e
      \/ /\ e = Adapter(p[1]) /\ e \in Adapters /\ p[1] \in Initiators \cap bound
         /\ c1 \in Sockets /\ e \in PeersIn(outs[c1]) /\ B(e) = c1 /\ e \in AdaptersOf(c1)
  <2>1. CASE e \in Sockets
    BY <1>2, <1>3, <2>1, AdaptersAreApart, CoreTypes
  <2>2. CASE e \in Adapters
    <3>1. p[1] \in Initiators \cap bound /\ e = Adapter(p[1])
      BY <1>2, <2>2, CallersAreEnds
    <3>2. e \in AdaptersOf(c1)
      BY <3>1, OwnAdapter DEF Adapted
    <3> QED  BY <1>1, <2>2, <3>1, <3>2, InitiatorSide
  <2> QED  BY <1>3, <2>1, <2>2 DEF Ends
<1>6. /\ q \in Sockets /\ c2 = q
      \/ /\ q = Adapter(p[2]) /\ q \in Adapters /\ p[2] \in Targets
         /\ c2 \in Sockets /\ q \in PeersIn(backs[c2]) /\ F(q) = c2 /\ q \in AdaptersOf(c2)
  <2>1. CASE q \in Sockets
    BY <1>2, <1>3, <2>1, AdaptersAreApart, CoreTypes
  <2>2. CASE q \in Adapters
    <3>1. p[2] \in Targets /\ q = Adapter(p[2])
      BY <1>2, <2>2, CallersAreEnds
    <3>2. q \in AdaptersOf(c2)
      BY <3>1, OwnAdapter DEF Adapted, Targets
    <3>3. ~JoinedBackward(q)
      BY <3>2 DEF Behind
    <3> QED  BY <1>1, <1>2, <1>3, <2>2, <3>1, <3>2, <3>3, TargetSide
  <2> QED  BY <1>3, <2>1, <2>2 DEF Ends
<1>7. /\ \A x \in PeersIn(outs[c1]) : F(F(x)) \in Reached(c1, "b_transport")
      /\ \A x \in PeersIn(backs[c2]) : B(B(x)) \in Reached(c2, "nb_transport_bw")
  BY ReachedType, PortOfKind DEF Destination
<1>8. /\ \A a \in Adapters \cap PeersIn(outs[c1]) : \A x \in PeersIn(outs[a]) :
           F(a) = x \/ F(F(x)) \in Overlooked(c1, "b_transport")
      /\ \A a \in Adapters \cap PeersIn(backs[c2]) : \A x \in PeersIn(backs[a]) :
           B(a) = x \/ B(B(x)) \in Overlooked(c2, "nb_transport_bw")
  BY CalledOrOverlooked, PortOfKind DEF Destination
<1> HIDE DEF c1, c2, F, B
<1>9. F(F(q)) = c2 /\ B(B(e)) = c1
  BY <1>4, <1>5, <1>6
<1>10. c2 \in Reached(c1, "b_transport") \/ c2 \in Overlooked(c1, "b_transport")
  <2>1. CASE e \in Sockets /\ c1 = e
    BY <1>2, <1>7, <1>9, <2>1
  <2>2. CASE e \in Adapters /\ e \in PeersIn(outs[c1])
    <3>1. CASE F(e) = q
      <4>1. F(F(e)) = c2
        BY <1>4, <1>6, <3>1
      <4> QED  BY <1>7, <2>2, <4>1
    <3>2. CASE F(e) # q
      BY <1>2, <1>8, <1>9, <2>2, <3>2
    <3> QED  BY <3>1, <3>2
  <2> QED  BY <1>5, <2>1, <2>2
<1>11. c1 \in Reached(c2, "nb_transport_bw") \/ c1 \in Overlooked(c2, "nb_transport_bw")
  <2>1. CASE q \in Sockets /\ c2 = q
    BY <1>3, <1>7, <1>9, <2>1
  <2>2. CASE q \in Adapters /\ q \in PeersIn(backs[c2])
    <3>1. CASE B(q) = e
      <4>1. B(B(q)) = c1
        BY <1>4, <1>5, <3>1
      <4> QED  BY <1>7, <2>2, <4>1
    <3>2. CASE B(q) # e
      BY <1>3, <1>8, <1>9, <2>2, <3>2
    <3> QED  BY <3>1, <3>2
  <2> QED  BY <1>6, <2>1, <2>2
<1> QED  BY <1>10, <1>11 DEF c1, c2

\* A call over a link of the author's ends at a socket, or it ends in a plug
\* because the target is behind a socket around.
LEMMA ForwardEnd ==
    ASSUME TypeOK, WorkInv, stage = "running",
           NEW e \in Ends, NEW q \in PeersIn(outs[e]), AskedFor(e, q)
    PROVE  LET h == Hop(q, "b_transport") IN
           \/ h \in Sockets /\ h = Core(Owner(q))
           \/ h = Clog /\ Behind(Core(Owner(q)))
<1>1. q \in Callees /\ <<Owner(e), Owner(q)>> \in UNION wanted
  BY DEF AskedFor
<1>2. Present(Owner(q))
  <2>1. PICK w \in wanted : <<Owner(e), Owner(q)>> \in w
    BY <1>1
  <2>2. Present(<<Owner(e), Owner(q)>>[2])
    BY <2>1, WhenRunning DEF WantedLinked
  <2> QED  BY <2>2
<1>3. CASE q \in Sockets
  <2>1. Core(Owner(q)) = q
    BY <1>3, AdaptersAreApart, CoreTypes
  <2> QED  BY <1>3, <2>1, HopOfSocket
<1>4. CASE q \in Adapters
  <2>1. Owner(q) \in Targets /\ q = Adapter(Owner(q))
    BY <1>1, <1>4, CallersAreEnds
  <2>2. q \in AdaptersOf(Core(Owner(q)))
    BY <2>1, OwnAdapter DEF Adapted, Targets
  <2>3. \/ Hop(q, "b_transport") \in Sockets /\ Hop(q, "b_transport") = Core(Owner(q))
        \/ JoinedBackward(q) /\ Hop(q, "b_transport") = Clog
    BY <1>2, <2>1, TargetSide
  <2> QED  BY <2>2, <2>3 DEF Behind
<1> QED  BY <1>1, <1>3, <1>4, CallersAreEnds DEF Ends

LEMMA BackwardEnd ==
    ASSUME TypeOK, WorkInv, stage = "running",
           NEW e \in Ends, NEW q \in PeersIn(outs[e]), AskedFor(e, q)
    PROVE  Hop(e, "nb_transport_bw") \in Sockets /\ Hop(e, "nb_transport_bw") = Core(Owner(e))
<1>1. e \in Callers /\ <<Owner(e), Owner(q)>> \in UNION wanted /\ (e \in Adapters => Owner(e) \in bound)
  BY DEF AskedFor
<1>2. Present(Owner(e))
  <2>1. PICK w \in wanted : <<Owner(e), Owner(q)>> \in w
    BY <1>1
  <2>2. Present(<<Owner(e), Owner(q)>>[1])
    BY <2>1, WhenRunning DEF WantedLinked
  <2> QED  BY <2>2
<1>3. CASE e \in Sockets
  <2>1. Core(Owner(e)) = e
    BY <1>3, AdaptersAreApart, CoreTypes
  <2> QED  BY <1>3, <2>1, HopOfSocket
<1>4. CASE e \in Adapters
  <2>1. Owner(e) \in Initiators \cap bound /\ e = Adapter(Owner(e))
    BY <1>1, <1>4, CallersAreEnds
  <2> QED  BY <1>2, <2>1, InitiatorSide
<1> QED  BY <1>3, <1>4 DEF Ends

\* Where the forward calls of a socket end.
LEMMA ForwardReach ==
    ASSUME TypeOK, WorkInv, stage = "running", NEW s \in Sockets,
           NEW d \in Reached(s, "b_transport")
    PROVE  /\ d \in Sockets => <<s, d>> \in Linked
           /\ d = Clog => \E w \in Linked : w[1] = s /\ Behind(w[2])
           /\ d \in Adapters =>
                JoinedForward(d) /\ d.adapterOf \in platform.optional /\ outs[d] = <<>>
<1> DEFINE F(x) == Hop(x, "b_transport")
<1>1. PICK x \in PeersIn(outs[s]) : d = F(F(x))
  BY ReachedType, PortOfKind DEF Destination
<1>2. s \in Ends /\ Owner(s) = s /\ Core(s) = s /\ s \notin Adapters
      /\ Clog \notin Adapters /\ Sockets \cap Adapters = {} /\ Clog \notin Sockets
  BY AdaptersAreApart, CoreTypes DEF Ends
<1>3. \A y \in Sockets \cup {Clog} : F(y) = y
  BY HopOfSocket
<1> HIDE DEF F
<1>4. ASSUME NEW e \in Ends, NEW q \in PeersIn(outs[e]), AskedFor(e, q), Core(Owner(e)) = s,
             F(q) = d \/ F(F(q)) = d
      PROVE  /\ d \in Sockets => <<s, d>> \in Linked
             /\ d = Clog => \E w \in Linked : w[1] = s /\ Behind(w[2])
             /\ d \notin Adapters
  <2>1. \/ F(q) \in Sockets /\ F(q) = Core(Owner(q))
        \/ F(q) = Clog /\ Behind(Core(Owner(q)))
    <3>1. \/ Hop(q, "b_transport") \in Sockets /\ Hop(q, "b_transport") = Core(Owner(q))
          \/ Hop(q, "b_transport") = Clog /\ Behind(Core(Owner(q)))
      BY <1>4, ForwardEnd, Zenon
    <3> QED  BY <3>1 DEF F
  <2>2. d = F(q)
    BY <1>3, <1>4, <2>1
  <2>3. <<s, Core(Owner(q))>> \in Linked
    <3>1. <<Owner(e), Owner(q)>> \in UNION wanted
      BY <1>4 DEF AskedFor
    <3>2. <<Core(<<Owner(e), Owner(q)>>[1]), Core(<<Owner(e), Owner(q)>>[2])>> \in Linked
      BY <3>1 DEF Linked
    <3> QED  BY <1>4, <3>2
  <2>4. d = Clog => \E w \in Linked : w[1] = s /\ Behind(w[2])
    <3> SUFFICES ASSUME d = Clog PROVE \E w \in Linked : w[1] = s /\ Behind(w[2])
      OBVIOUS
    <3>1. Behind(Core(Owner(q)))
      BY <1>2, <2>1, <2>2
    <3>2. <<s, Core(Owner(q))>>[1] = s /\ <<s, Core(Owner(q))>>[2] = Core(Owner(q))
      OBVIOUS
    <3> QED  BY <2>3, <3>1, <3>2, Zenon
  <2>5. d \in Sockets => <<s, d>> \in Linked
    <3>1. d \in Sockets => d = Core(Owner(q))
      BY <1>2, <2>1, <2>2
    <3> QED  BY <2>3, <3>1, Zenon
  <2>6. d \notin Adapters
    BY <1>2, <2>1, <2>2
  <2> QED  BY <2>4, <2>5, <2>6
<1>5. \/ AskedFor(s, x)
      \/ \E i \in Initiators \cap bound \cap elaborated : s = Core(i) /\ x = Adapter(i)
  <2>1. \A u \in Adapted : Adapter(u) # s
    BY <1>2, AdaptersAreApart
  <2>2. elaborated \subseteq Adapted /\ Targets \subseteq Adapted
    BY DEF TypeOK, Targets, Adapted
  <2> QED  BY <1>2, <2>1, <2>2, WhenRunning DEF OutsExplained
<1>6. CASE AskedFor(s, x)
  BY <1>1, <1>2, <1>4, <1>6
<1>7. ASSUME NEW i \in Initiators \cap bound \cap elaborated, s = Core(i), x = Adapter(i)
      PROVE  /\ d \in Sockets => <<s, d>> \in Linked
             /\ d = Clog => \E w \in Linked : w[1] = s /\ Behind(w[2])
             /\ d \in Adapters =>
                JoinedForward(d) /\ d.adapterOf \in platform.optional /\ outs[d] = <<>>
  <2>1. /\ x \in Adapters /\ x \in Ends /\ Owner(x) = i /\ x.adapterOf = i /\ Present(i)
    BY <1>7, AdaptersAreApart, WhenRunning DEF Adapted, Adapter
  <2>2. CASE PeersIn(outs[x]) = {}
    <3>1. F(x) = x /\ d = x
      BY <1>1, <2>1, <2>2, HopOfAdapter, PortOfKind DEF F
    <3>2. JoinedForward(x)
      BY <1>7, <2>2, WhenRunning DEF InPlace
    <3>3. outs[x] = <<>>
      <4>1. outs[x] \in Seq(Ends \cup {Clog})
        BY <2>1 DEF TypeOK
      <4> QED  BY <2>2, <4>1, PeersFacts
    <3>4. i \in platform.optional
      BY <1>7, <2>1, <3>3, WhenRunning
    <3> QED  BY <1>2, <2>1, <3>1, <3>2, <3>3, <3>4
  <2>3. CASE PeersIn(outs[x]) # {}
    <3>1. F(x) \in PeersIn(outs[x])
      BY <2>1, <2>3, HopOfAdapter, PortOfKind DEF F
    <3>2. AskedFor(x, F(x))
      <4>1. \A j \in Initiators : Core(j) # x
        BY <2>1, WhenRunning, CoreOfParties, AdaptersAreApart DEF Sockets, Ends
      <4>2. \A t \in Targets : Adapter(t) # x
        BY <1>7, AdaptersAreApart, ClassesAreApart DEF Initiators, Targets, Adapted, Sockets, Outers
      <4>3. \A u \in elaborated \ bound : Adapter(u) # x
        BY <1>7, AdaptersAreApart DEF TypeOK, Adapted
      <4> QED  BY <2>1, <3>1, <4>1, <4>2, <4>3, WhenRunning DEF OutsExplained
    <3>3. Core(Owner(x)) = s
      BY <1>7, <2>1
    <3> QED  BY <1>1, <1>4, <2>1, <3>1, <3>2, <3>3
  <2> QED  BY <2>2, <2>3
<1> QED  BY <1>5, <1>6, <1>7

\* The backward calls of a socket end at sockets.
LEMMA BackwardReach ==
    ASSUME TypeOK, WorkInv, stage = "running", NEW s \in Sockets,
           NEW d \in Reached(s, "nb_transport_bw")
    PROVE  d \in Sockets /\ <<d, s>> \in Linked
<1> DEFINE B(x) == Hop(x, "nb_transport_bw")
<1>1. PICK x \in PeersIn(backs[s]) : d = B(B(x))
  BY ReachedType, PortOfKind DEF Destination
<1>2. /\ s \in Ends /\ s \notin Adapters /\ Core(s) = s
      /\ \A u \in Adapted : Adapter(u) \in Adapters /\ Adapter(u) \in Ends
      /\ Sockets \cap Adapters = {} /\ Clog \notin Ends
  BY AdaptersAreApart, CoreTypes
<1>3. \A y \in Sockets : B(y) = y
  BY HopOfSocket
<1> HIDE DEF B
<1>4. x \in Ends /\ s \in PeersIn(outs[x])
  <2>1. x # Clog
    BY <1>2, WhenRunning DEF PlugsExplained
  <2>2. backs[s] \in Seq(Ends \cup {Clog})
    BY <1>2 DEF TypeOK
  <2>3. x \in Ends
    BY <2>1, <2>2, PeersFacts
  <2> QED  BY <1>2, <2>3, WhenRunning DEF Mutual
<1>5. ASSUME NEW e \in Ends, NEW q \in PeersIn(outs[e]), AskedFor(e, q), Core(Owner(q)) = s
      PROVE  B(e) \in Sockets /\ <<B(e), s>> \in Linked
  <2>1. B(e) \in Sockets /\ B(e) = Core(Owner(e))
    BY <1>5, BackwardEnd DEF B
  <2>2. <<Owner(e), Owner(q)>> \in UNION wanted
    BY <1>5 DEF AskedFor
  <2>3. <<Core(<<Owner(e), Owner(q)>>[1]), Core(<<Owner(e), Owner(q)>>[2])>> \in Linked
    BY <2>2 DEF Linked
  <2> QED  BY <1>5, <2>1, <2>3
<1>6. \/ AskedFor(x, s)
      \/ \E t \in Targets \cap elaborated : x = Adapter(t) /\ s = Core(t)
  <2>1. \A u \in Initiators : Adapter(u) # s
    BY <1>2 DEF Adapted
  <2> QED  BY <1>2, <1>4, <2>1, WhenRunning DEF OutsExplained
<1>7. CASE AskedFor(x, s)
  <2>1. Core(Owner(s)) = s
    BY <1>2, AdaptersAreApart
  <2> QED  BY <1>1, <1>3, <1>4, <1>5, <1>7, <2>1
<1>8. ASSUME NEW t \in Targets \cap elaborated, x = Adapter(t), s = Core(t)
      PROVE  d \in Sockets /\ <<d, s>> \in Linked
  <2>1. x \in Adapters /\ x \in Ends /\ Present(t)
    BY <1>2, <1>8, WhenRunning DEF Targets, Adapted
  <2>2. Len(outs[x]) = 1
    BY <1>8, <2>1, WhenRunning
  <2>3. Clog \notin PeersIn(outs[x])
    <3>1. outs[x] \in Seq(Ends \cup {Clog})
      BY <2>1 DEF TypeOK
    <3>2. PeersIn(outs[x]) = {outs[x][1]}
      BY <2>2, <3>1, PeersFacts
    <3> QED  BY <1>2, <1>4, <3>2
  <2>4. PeersIn(backs[x]) # {}
    BY <1>8, <2>3, WhenRunning DEF InPlace, TargetInPlace, TargetPlugged
  <2>5. B(x) \in PeersIn(backs[x])
    BY <2>1, <2>4, HopOfAdapter, PortOfKind DEF B
  <2>6. B(x) \in Ends
    <3>1. B(x) # Clog
      BY <2>1, <2>3, <2>5, WhenRunning DEF PlugsExplained
    <3>2. backs[x] \in Seq(Ends \cup {Clog})
      BY <2>1 DEF TypeOK
    <3> QED  BY <2>5, <3>1, <3>2, PeersFacts
  <2>7. x \in PeersIn(outs[B(x)])
    BY <2>1, <2>5, <2>6, WhenRunning DEF Mutual
  <2>8. AskedFor(B(x), x)
    <3>1. \A u \in Initiators : Adapter(u) # x
      BY <1>8, AdaptersAreApart, ClassesAreApart DEF Initiators, Targets, Adapted, Sockets, Outers
    <3>2. \A u \in Targets : Core(u) # x
      BY <1>2, <2>1, WhenRunning, CoreOfParties, AdaptersAreApart DEF Sockets
    <3> QED  BY <1>2, <2>1, <2>6, <2>7, <3>1, <3>2, WhenRunning DEF OutsExplained
  <2>9. Core(Owner(x)) = s
    BY <1>8, AdaptersAreApart DEF Targets, Adapted
  <2> QED  BY <1>1, <1>3, <1>5, <2>6, <2>7, <2>8, <2>9
<1> QED  BY <1>6, <1>7, <1>8

\* On every platform, when elaboration has ended without an error, each binding of
\* the author works in both directions, or is one that an adapter overlooks for its
\* first peer; calls end where the author bound them, the first peers included, and
\* no call ends in a plug or an adapter, but for those that BindingsWork names.
THEOREM EveryBindingWorks == Spec => []BindingsWork
<1>1. ASSUME TypeOK, WorkInv PROVE BindingsWork
  <2> SUFFICES ASSUME stage = "running"
               PROVE  /\ \A b \in {w \in Linked : ~Behind(w[1]) /\ ~Behind(w[2])} :
                           /\ \/ b[2] \in Reached(b[1], "b_transport")
                              \/ b[2] \in Overlooked(b[1], "b_transport")
                           /\ \/ b[1] \in Reached(b[2], "nb_transport_bw")
                              \/ b[1] \in Overlooked(b[2], "nb_transport_bw")
                      /\ \A s \in Sockets :
                           /\ \A d \in Sockets \cap Reached(s, "b_transport") : <<s, d>> \in Linked
                           /\ \A d \in Sockets \cap Reached(s, "nb_transport_bw") : <<d, s>> \in Linked
                      /\ \A s \in Sockets, k \in {"b_transport", "nb_transport_bw"} :
                           /\ Clog \in Reached(s, k) => \E w \in Linked : w[1] = s /\ Behind(w[2])
                           /\ \A a \in Adapters \cap Reached(s, k) :
                                JoinedForward(a) /\ a.adapterOf \in platform.optional
    BY DEF BindingsWork
  <2>1. ASSUME NEW b \in Linked, ~Behind(b[1]), ~Behind(b[2])
        PROVE  /\ \/ b[2] \in Reached(b[1], "b_transport")
                  \/ b[2] \in Overlooked(b[1], "b_transport")
               /\ \/ b[1] \in Reached(b[2], "nb_transport_bw")
                  \/ b[1] \in Overlooked(b[2], "nb_transport_bw")
    <3>1. PICK p \in UNION wanted : b = <<Core(p[1]), Core(p[2])>>
      BY DEF Linked
    <3>2. b[1] = Core(p[1]) /\ b[2] = Core(p[2])
      BY <3>1
    <3>3. PICK w \in wanted : p \in w
      BY <3>1
    <3> QED  BY <1>1, <2>1, <3>2, <3>3, BothDirections
  <2>2. ASSUME NEW s \in Sockets
        PROVE  /\ Clog \in Reached(s, "b_transport") => \E w \in Linked : w[1] = s /\ Behind(w[2])
               /\ \A a \in Adapters \cap Reached(s, "b_transport") :
                    JoinedForward(a) /\ a.adapterOf \in platform.optional
    BY <1>1, ForwardReach
  <2>3. ASSUME NEW s \in Sockets
        PROVE  /\ Clog \notin Reached(s, "nb_transport_bw")
               /\ Adapters \cap Reached(s, "nb_transport_bw") = {}
    BY <1>1, BackwardReach, AdaptersAreApart DEF Ends
  <2>4. ASSUME NEW s \in Sockets
        PROVE  /\ \A d \in Sockets \cap Reached(s, "b_transport") : <<s, d>> \in Linked
               /\ \A d \in Sockets \cap Reached(s, "nb_transport_bw") : <<d, s>> \in Linked
    BY <1>1, ForwardReach, BackwardReach
  <2> QED  BY <2>1, <2>2, <2>3, <2>4
<1> QED  BY <1>1, LinkTypes, WorkInvariant, PTL

-----------------------------------------------------------------------------
\* The limit of a target socket, however its peers are spread over its own port and
\* that of its adapter.

\* The peers the author has bound, without the adapters and plugs of elaboration.
CallersIn(port) == PeersIn(port) \cap Callers

\* Every target around stands for an end of its own.  A target that has been
\* elaborated with peers at its adapter has had room for all of them: since then
\* neither of the two ports gets another one.
LimitInv ==
    stage # "aborted" =>
        /\ \A o \in OuterMMTargets : inner[o] # NoEnd => Present(o)
        /\ \A o, u \in OuterMMTargets : inner[o] # NoEnd /\ inner[o] = inner[u] => o = u
        /\ \A t \in Targets \cap elaborated :
             platform.limit[t] # 0 /\ Core(t) \in MMTargets /\ ~JoinedBackward(t) =>
               \/ JoinedBackward(Adapter(t)) \/ CallersIn(backs[Adapter(t)]) = {}
               \/ Cardinality(CallersIn(backs[Core(t)])) + Cardinality(CallersIn(backs[Adapter(t)]))
                    <= platform.limit[t]

\* There are no more peers than positions.
LEMMA PeersAtPositions ==
    ASSUME NEW S, NEW port \in Seq(S), NEW P \in SUBSET (1 .. Len(port)),
           NEW C, \A x \in C : \E n \in P : port[n] = x
    PROVE  /\ IsFiniteSet(C) /\ Cardinality(C) \in Nat /\ Cardinality(P) \in Nat
           /\ Cardinality(C) <= Cardinality(P)
<1> DEFINE Q == {n \in P : port[n] \in C}
           f == [n \in Q |-> port[n]]
<1>1. IsFiniteSet(1 .. Len(port))
  BY LenProperties, FS_Interval
<1>2. IsFiniteSet(P)
  BY <1>1, FS_Subset
<1>3. IsFiniteSet(Q) /\ Cardinality(Q) <= Cardinality(P)
  BY <1>2, FS_Subset
<1>4. f \in Surjection(Q, C)
  BY DEF Surjection
<1>5. IsFiniteSet(C) /\ Cardinality(C) <= Cardinality(Q)
  <2> HIDE DEF Q, f
  <2> QED  BY <1>3, <1>4, FS_Surjection
<1>6. Cardinality(C) \in Nat /\ Cardinality(P) \in Nat /\ Cardinality(Q) \in Nat
  BY <1>2, <1>3, <1>5, FS_CardinalityType
<1> HIDE DEF Q
<1> QED  BY <1>3, <1>5, <1>6

\* The callers in a port are finitely many.
LEMMA CallersAreFinite ==
    ASSUME NEW S, NEW port \in Seq(S)
    PROVE  /\ IsFiniteSet(CallersIn(port)) /\ Cardinality(CallersIn(port)) \in Nat
           /\ Cardinality(CallersIn(port)) <= Len(port)
<1>1. \A x \in CallersIn(port) : \E n \in 1 .. Len(port) : port[n] = x
  BY DEF CallersIn, PeersIn
<1>2. /\ IsFiniteSet(CallersIn(port)) /\ Cardinality(CallersIn(port)) \in Nat
      /\ Cardinality(CallersIn(port)) <= Cardinality(1 .. Len(port))
  BY <1>1, PeersAtPositions, Zenon
<1>3. Cardinality(1 .. Len(port)) = Len(port)
  <2>1. \A n \in Nat : Cardinality(1 .. n) = n
    BY FS_Interval
  <2> QED  BY <2>1, LenProperties
<1> QED  BY <1>2, <1>3

\* Those of a target's port are counted as its own.
LEMMA CallersAreOwn ==
    ASSUME TypeOK, JoinsInv, NEW t \in Targets, Core(t) \in MMTargets
    PROVE  /\ Cardinality(CallersIn(backs[Core(t)])) <= Own(t, backs[Core(t)])
           /\ Own(t, backs[Core(t)]) \in Nat
<1> DEFINE port == backs[Core(t)]
           P == {n \in 1 .. Len(port) : Core(t) = t \/ port[n] # Adapter(Core(t))}
<1>1. port \in Seq(Ends \cup {Clog})
  BY AdaptersAreApart DEF TypeOK, Sockets
<1>2. Adapter(Core(t)) \notin Callers
  BY CallersAreEnds DEF Targets
<1>3. \A x \in CallersIn(port) : \E n \in P : port[n] = x
  BY <1>2 DEF CallersIn, PeersIn
<1>4. Own(t, port) = Cardinality(P)
  BY DEF Own
<1>5. P \in SUBSET (1 .. Len(port))
  OBVIOUS
<1> HIDE DEF P, port
<1>6. /\ Cardinality(CallersIn(port)) <= Cardinality(P) /\ Cardinality(P) \in Nat
  BY <1>1, <1>3, <1>5, PeersAtPositions, Zenon
<1> QED  BY <1>4, <1>6 DEF port

\* Elaboration adds no caller to the ports that callers are bound to.
LEMMA CallersStay ==
    ASSUME TypeOK, JoinsInv, NEW s \in Adapted, BeforeEndOfElaboration(s), stage' # "aborted"
    PROVE  \A e \in Callees : CallersIn(backs'[e]) = CallersIn(backs[e])
<1>1. /\ Adapter(s) \in Ends /\ Clog \notin Ends /\ NoEnd \notin Ends /\ Sockets \subseteq Ends
      /\ Callers \subseteq Ends /\ Callees \subseteq Ends /\ Clog \notin Callers
  BY AdaptersAreApart, CallersAreEnds
<1>2. Adapted = Initiators \cup Targets
  BY DEF Initiators, Targets, Adapted
<1>3. CASE Plug(Adapter(s))
  <2>1. ASSUME NEW e \in Callees PROVE CallersIn(backs'[e]) = CallersIn(backs[e])
    <3>1. backs[e] \in Seq(Ends \cup {Clog})
      BY <1>1 DEF TypeOK
    <3>2. backs'[e] = IF e = Adapter(s) THEN Append(backs[e], Clog) ELSE backs[e]
      BY <1>1, <1>3 DEF Plug, TypeOK
    <3>3. PeersIn(Append(backs[e], Clog)) = PeersIn(backs[e]) \cup {Clog}
      BY <3>1, PeersFacts
    <3> QED  BY <1>1, <3>2, <3>3 DEF CallersIn
  <2> QED  BY <2>1
<1>4. ASSUME NEW x \in Ends, NEW y \in Ends, Connect({<<x, y>>}), x \notin Callers \/ y \notin Callees
      PROVE  \A e \in Callees : CallersIn(backs'[e]) = CallersIn(backs[e])
  <2> DEFINE added == {<<x, y>>}
  <2>1. added \in SUBSET (Ends \X Ends) /\ Functional(added)
    BY DEF Functional
  <2>2. \A e \in Ends : \A q : q \in PeersIn(backs'[e]) <=> q \in PeersIn(backs[e]) \/ <<q, e>> \in added
    BY <1>4, <2>1, ConnectAdds
  <2>3. \A e \in Callees : \A q \in Callers : <<q, e>> \notin added
    BY <1>4
  <2> HIDE DEF added
  <2> QED  BY <1>1, <2>2, <2>3 DEF CallersIn
<1>5. CASE s \in Initiators /\ ~Plug(Adapter(s))
  <2>1. Connect({<<Core(s), Adapter(s)>>}) /\ Core(s) # NoEnd
    BY <1>5 DEF BeforeEndOfElaboration, BeforeEndInitiator, Gives
  <2>2. Core(s) \in Ends /\ Adapter(s) \notin Callees
    BY <1>1, <1>5, <2>1, CoreOfParties, CallersAreEnds DEF Sockets
  <2> QED  BY <1>1, <1>4, <2>1, <2>2
<1>6. CASE s \notin Initiators /\ ~Plug(Adapter(s))
  <2>1. Connect({<<Adapter(s), Core(s)>>}) /\ Core(s) # NoEnd
    BY <1>6 DEF BeforeEndOfElaboration, BeforeEndTarget, Gives
  <2>2. Core(s) \in Ends /\ Adapter(s) \notin Callers
    BY <1>1, <1>2, <1>6, <2>1, CoreOfParties, CallersAreEnds DEF Sockets
  <2> QED  BY <1>1, <1>4, <2>1, <2>2
<1> QED  BY <1>3, <1>5, <1>6

\* The step that puts a target's adapter in place leaves no more callers than places.
LEMMA TargetHasRoom ==
    ASSUME TypeOK, JoinsInv, NEW t \in Targets, BeforeEndOfElaboration(t), stage' # "aborted",
           platform.limit[t] # 0, Core(t) \in MMTargets, ~JoinedBackward(t),
           ~JoinedBackward(Adapter(t))
    PROVE  \/ CallersIn(backs[Adapter(t)]) = {}
           \/ Cardinality(CallersIn(backs[Core(t)])) + Cardinality(CallersIn(backs[Adapter(t)]))
                <= platform.limit[t]
<1> DEFINE n == PortSize(Adapter(t))
           c == Cardinality(CallersIn(backs[Core(t)]))
           a == Cardinality(CallersIn(backs[Adapter(t)]))
           l == Len(backs[Adapter(t)])
<1>1. /\ t \notin Initiators /\ Adapter(t) \in Adapters /\ Adapter(t) \in Ends
      /\ Core(t) \in Ends /\ Core(t) # NoEnd
  BY AdaptersAreApart, ClassesAreApart DEF Targets, Initiators, Adapted, Sockets, Outers
<1>2. n = l /\ (n # 0 <=> PeersIn(backs[Adapter(t)]) # {})
  BY <1>1, PortSizeOfAdapter
<1>3. CASE n = 0
  BY <1>2, <1>3 DEF CallersIn
<1>4. CASE n # 0
  <2>1. ~(PortSize(t) + n > platform.limit[t])
    BY <1>1, <1>4 DEF BeforeEndOfElaboration, BeforeEndTarget
  <2>2. PortSize(t) = Own(t, backs[Core(t)])
    BY <1>1 DEF PortSize
  <2>3. c <= Own(t, backs[Core(t)]) /\ Own(t, backs[Core(t)]) \in Nat
    BY CallersAreOwn
  <2>4. backs[Adapter(t)] \in Seq(Ends \cup {Clog}) /\ backs[Core(t)] \in Seq(Ends \cup {Clog})
    BY <1>1 DEF TypeOK
  <2>5. a <= l /\ a \in Nat /\ c \in Nat
    BY <2>4, CallersAreFinite
  <2>6. l \in Nat
    BY <2>4, LenProperties
  <2>7. platform.limit[t] \in Nat
    BY LinksAssumption DEF TypeOK, Platform, Targets, Adapted
  <2> HIDE DEF n, c, a, l
  <2>8. a <= n /\ n \in Nat
    BY <1>2, <2>5, <2>6
  <2>9. c + a <= platform.limit[t]
    BY <2>1, <2>2, <2>3, <2>5, <2>7, <2>8
  <2> QED  BY <2>9 DEF c, a
<1> QED  BY <1>3, <1>4

LEMMA LimitsSurvive ==
    ASSUME LimitInv, UNCHANGED <<platform, backs, inner, elaborated>>, stage = "aborted" => stage' = "aborted"
    PROVE  LimitInv'
<1>1. \A x : Core(x)' = Core(x) /\ JoinedBackward(x)' = JoinedBackward(x) /\ Present(x)' = Present(x)
  BY DEF Core, JoinedBackward, Present
<1>2. CASE stage' = "aborted"
  BY <1>2 DEF LimitInv
<1>3. CASE stage # "aborted"
  <2>1. /\ \A o \in OuterMMTargets : inner[o] # NoEnd => Present(o)
        /\ \A o, u \in OuterMMTargets : inner[o] # NoEnd /\ inner[o] = inner[u] => o = u
    BY <1>3 DEF LimitInv
  <2>2. \A t \in Targets \cap elaborated :
          platform.limit[t] # 0 /\ Core(t) \in MMTargets /\ ~JoinedBackward(t) =>
            \/ JoinedBackward(Adapter(t)) \/ CallersIn(backs[Adapter(t)]) = {}
            \/ Cardinality(CallersIn(backs[Core(t)])) + Cardinality(CallersIn(backs[Adapter(t)]))
                 <= platform.limit[t]
    BY <1>3 DEF LimitInv
  <2>3. \A x : CallersIn(backs[x])' = CallersIn(backs[x])
    BY DEF CallersIn, PeersIn
  <2> QED  BY <1>1, <2>1, <2>2, <2>3, Zenon DEF LimitInv
<1> QED  BY <1>2, <1>3

LEMMA BuildKeepsLimits ==
    ASSUME TypeOK, WorkInv, LimitInv, Build
    PROVE  LimitInv'
<1>1. stage = "building" /\ UNCHANGED <<platform, elaborated>>
  BY DEF Build, BindInitiator, BindToGeneric, BindFromGeneric, BindBidirectional, Bind,
         BindFor, JoinGeneric, JoinGenericTarget, BindHierarchical, JoinInitiator,
         JoinTarget, Join, Offer, EndBuilding, Abort
<1>2. elaborated' = {}
  BY <1>1 DEF WorkInv, StagesInOrder
<1>3. CASE UNCHANGED inner
  BY <1>1, <1>2, <1>3 DEF LimitInv, Present
<1>4. ASSUME NEW e, NEW o, Joins(e, o), inner' # inner
      PROVE  LimitInv'
  <2>1. /\ inner' = [inner EXCEPT ![o] = e] /\ Present(o)
        /\ o \notin OuterInits \cup OuterMMInits => ~JoinedBackward(e)
    BY <1>4 DEF Joins, Join, Abort, bindVars
  <2>2. inner \in [Outers -> Ends \cup {NoEnd}] /\ OuterMMTargets \subseteq Outers
    BY DEF TypeOK, Outers
  <2>3. \A u \in OuterMMTargets : inner'[u] = IF u = o THEN e ELSE inner[u]
    BY <2>1, <2>2
  <2>4. o \in OuterMMTargets => \A u \in OuterMMTargets : inner[u] # e
    BY <2>1, ClassesAreApart DEF JoinedBackward
  <2>5. /\ \A u \in OuterMMTargets : inner[u] # NoEnd => Present(u)
        /\ \A u, v \in OuterMMTargets : inner[u] # NoEnd /\ inner[u] = inner[v] => u = v
    BY <1>1 DEF LimitInv
  <2>6. /\ \A u \in OuterMMTargets : inner'[u] # NoEnd => Present(u)'
        /\ \A u, v \in OuterMMTargets : inner'[u] # NoEnd /\ inner'[u] = inner'[v] => u = v
    BY <1>1, <2>1, <2>3, <2>4, <2>5 DEF Present
  <2> QED  BY <1>2, <2>6 DEF LimitInv
<1>5. ASSUME NEW x, NEW y, BindsOne(x, y) PROVE LimitInv'
  BY <1>3, <1>5 DEF BindsOne, Bind, BindFor
<1>6. ASSUME NEW x, NEW y, BindsBoth(x, y) PROVE LimitInv'
  BY <1>3, <1>6 DEF BindsBoth, Bind, BindFor
<1>7. ASSUME NEW s \in platform.plain, NEW sides \in SUBSET Sides(s), Offer(s, sides) PROVE LimitInv'
  BY <1>3, <1>7 DEF Offer, Abort, bindVars
<1>8. ASSUME EndBuilding PROVE LimitInv'
  BY <1>3, <1>8 DEF EndBuilding, bindVars
<1> QED  BY <1>3, <1>4, <1>5, <1>6, <1>7, <1>8, BuildSteps, Zenon

LEMMA ElaborateKeepsLimits ==
    ASSUME TypeOK, WorkInv, LimitInv, Elaborate
    PROVE  LimitInv'
<1>1. ASSUME NEW s \in Adapted, BeforeEndOfElaboration(s), stage' # "aborted" PROVE LimitInv'
  <2>1. /\ stage = "elaborating" /\ UNCHANGED <<platform, inner>>
        /\ elaborated' = elaborated \cup {s} /\ JoinsInv
    BY <1>1 DEF BeforeEndOfElaboration, WorkInv
  <2>2. \A e \in Callees : CallersIn(backs'[e]) = CallersIn(backs[e])
    BY <1>1, <2>1, CallersStay
  <2>3. \A x : Core(x)' = Core(x) /\ JoinedBackward(x)' = JoinedBackward(x) /\ Present(x)' = Present(x)
    BY <2>1 DEF Core, JoinedBackward, Present
  <2>4. ASSUME NEW t \in Targets, t \in elaborated \cup {s},
               platform.limit[t] # 0, Core(t) \in MMTargets, ~JoinedBackward(t),
               ~JoinedBackward(Adapter(t))
        PROVE  \/ CallersIn(backs'[Adapter(t)]) = {}
               \/ Cardinality(CallersIn(backs'[Core(t)])) + Cardinality(CallersIn(backs'[Adapter(t)]))
                    <= platform.limit[t]
    <3>1. Adapter(t) \in Callees /\ Core(t) \in Callees
      BY <2>4 DEF Callees
    <3>2. \/ CallersIn(backs[Adapter(t)]) = {}
          \/ Cardinality(CallersIn(backs[Core(t)])) + Cardinality(CallersIn(backs[Adapter(t)]))
               <= platform.limit[t]
      <4>1. CASE t \in elaborated
        BY <2>1, <2>4, <4>1 DEF LimitInv
      <4>2. CASE t = s
        BY <1>1, <2>1, <2>4, <4>2, TargetHasRoom
      <4> QED  BY <2>4, <4>1, <4>2
    <3>3. /\ CallersIn(backs'[Adapter(t)]) = CallersIn(backs[Adapter(t)])
          /\ CallersIn(backs'[Core(t)]) = CallersIn(backs[Core(t)])
      BY <2>2, <3>1
    <3> QED  BY <3>2, <3>3
  <2>5. /\ \A o \in OuterMMTargets : inner[o] # NoEnd => Present(o)
        /\ \A o, u \in OuterMMTargets : inner[o] # NoEnd /\ inner[o] = inner[u] => o = u
    BY <2>1 DEF LimitInv
  <2> QED  BY <2>1, <2>3, <2>4, <2>5 DEF LimitInv, CallersIn, PeersIn
<1>2. ASSUME EndElaboration PROVE LimitInv'
  BY <1>2, LimitsSurvive DEF EndElaboration, Abort, bindVars
<1>3. CASE stage' = "aborted"
  BY <1>3 DEF LimitInv
<1> QED  BY <1>1, <1>2, <1>3 DEF Elaborate

LEMMA LimitInvariant == Spec => []LimitInv
<1>1. Init => LimitInv
  BY DEF Init, LimitInv, Outers
<1>2. ASSUME TypeOK, WorkInv, LimitInv, [Next]_vars PROVE LimitInv'
  <2>1. CASE Run \/ (\E s \in Sockets, kind \in platform.kinds : Register(s, kind)) \/ UNCHANGED vars
    <3>1. /\ stage = "aborted" => stage' = "aborted"
          /\ UNCHANGED <<platform, backs, inner, elaborated>>
      BY <2>1 DEF Run, Select, Call, CallNobody, AdapterCalls, AdapterReturns, CallReturns, Serve,
                  Abort, Register, vars, bindVars
    <3> QED  BY <1>2, <3>1, LimitsSurvive
  <2> QED  BY <1>2, <2>1, BuildKeepsLimits, ElaborateKeepsLimits DEF Next
<1> QED  BY <1>1, <1>2, LinkTypes, WorkInvariant, PTL DEF Spec

\* The peers of a target are those that the author has bound to its own port, to its
\* adapter, or to the adapter of a target socket around.
LEMMA PeersOfTarget ==
    ASSUME TypeOK, WorkInv, stage = "running", NEW t \in MMTargets, NEW b \in Linked, b[2] = t
    PROVE  \E e \in Callers :
             /\ b = <<Core(Owner(e)), t>>
             /\ \/ Present(t) /\ e \in CallersIn(backs[t])
                \/ \E v \in Targets : Core(v) = t /\ Present(v) /\ e \in CallersIn(backs[Adapter(v)])
<1>1. PICK p \in UNION wanted : b = <<Core(p[1]), Core(p[2])>>
  BY DEF Linked
<1>2. Core(p[2]) = t /\ b = <<Core(p[1]), t>>
  BY <1>1
<1>3. PICK w \in wanted : p \in w
  BY <1>1
<1>4. Mutual /\ WantedLinked
  BY WhenRunning
<1>5. PICK e \in Callers, q \in Callees :
        Owner(e) = p[1] /\ Owner(q) = p[2] /\ q \in PeersIn(outs[e])
  BY <1>3, <1>4 DEF WantedLinked
<1>6. Present(p[2])
  BY <1>3, <1>4 DEF WantedLinked
<1>7. e \in CallersIn(backs[q])
  BY <1>4, <1>5, CallersAreEnds DEF Mutual, CallersIn
<1>8. CASE q \in Adapters
  <2>1. Owner(q) \in Targets /\ q = Adapter(Owner(q))
    BY <1>8, CallersAreEnds
  <2> QED  BY <1>2, <1>5, <1>6, <1>7, <2>1
<1>9. CASE q \notin Adapters
  <2>1. q \in Ends
    BY CallersAreEnds
  <2>2. Owner(q) = q
    BY <1>9 DEF Owner
  <2>3. q = t
    BY <1>2, <1>5, <2>1, <2>2, CoreTypes
  <2> QED  BY <1>2, <1>5, <1>6, <1>7, <2>2, <2>3
<1> QED  BY <1>8, <1>9

\* A target socket, inside or around, has as many callers as its limit at most, at its
\* own port and its adapter together, if no socket around has its peers.
LEMMA CallersWithinLimit ==
    ASSUME TypeOK, WorkInv, LimitInv, stage = "running", NEW u \in Targets, Present(u),
           platform.limit[u] # 0, Core(u) \in MMTargets, ~JoinedBackward(u),
           ~JoinedBackward(Adapter(u))
    PROVE  Cardinality(CallersIn(backs[Core(u)]) \cup CallersIn(backs[Adapter(u)]))
             <= platform.limit[u]
<1> DEFINE C == CallersIn(backs[Core(u)])
           A == CallersIn(backs[Adapter(u)])
<1>1. Core(u) \in Ends /\ Adapter(u) \in Ends
  BY AdaptersAreApart DEF Sockets, Targets, Adapted
<1>2. backs[Core(u)] \in Seq(Ends \cup {Clog}) /\ backs[Adapter(u)] \in Seq(Ends \cup {Clog})
  BY <1>1 DEF TypeOK
<1>3. /\ IsFiniteSet(C) /\ Cardinality(C) \in Nat
      /\ IsFiniteSet(A) /\ Cardinality(A) \in Nat
  BY <1>2, CallersAreFinite
<1>4. platform.limit[u] \in Nat
  BY LinksAssumption DEF TypeOK, Platform, Targets, Adapted
<1>5. u \in elaborated
  BY WhenRunning DEF Targets, Adapted
<1>6. A = {} \/ Cardinality(C) + Cardinality(A) <= platform.limit[u]
  BY <1>5 DEF LimitInv
<1>7. Own(u, backs[Core(u)]) <= platform.limit[u]
  <2>1. PortsWithin
    BY DEF WorkInv, StagesInOrder
  <2> QED  BY <2>1 DEF PortsWithin, Within, Targets
<1>8. Cardinality(C) <= Own(u, backs[Core(u)]) /\ Own(u, backs[Core(u)]) \in Nat
  BY CallersAreOwn DEF WorkInv
<1>9. CASE A = {}
  <2>1. Cardinality(C) <= platform.limit[u]
    BY <1>3, <1>4, <1>7, <1>8
  <2>2. C \cup A = C
    BY <1>9
  <2> QED  BY <2>1, <2>2
<1>10. CASE Cardinality(C) + Cardinality(A) <= platform.limit[u]
  <2> HIDE DEF C, A
  <2>1. /\ Cardinality(C \cup A) = Cardinality(C) + Cardinality(A) - Cardinality(C \cap A)
        /\ IsFiniteSet(C \cup A)
    BY <1>3, FS_Union
  <2>2. IsFiniteSet(C \cap A)
    BY <1>3, FS_Intersection
  <2>3. Cardinality(C \cap A) \in Nat /\ Cardinality(C \cup A) \in Nat
    BY <2>1, <2>2, FS_CardinalityType
  <2>4. Cardinality(C \cup A) <= platform.limit[u]
    BY <1>3, <1>4, <1>10, <2>1, <2>3
  <2> QED  BY <2>4 DEF C, A
<1> QED  BY <1>6, <1>9, <1>10

\* Whatever the order of binding and of elaboration, and whatever sockets there are:
\* no target of a running platform has more peers than its limit, but for those that
\* TargetWithinLimit leaves out.
THEOREM LimitIsKept == Spec => []TargetWithinLimit
<1>1. ASSUME TypeOK, WorkInv, LimitInv PROVE TargetWithinLimit
  <2> SUFFICES ASSUME stage = "running", NEW t \in MMTargets,
                      platform.limit[t] # 0, ~Behind(t),
                      \A o \in OuterMMTargets : inner[o] = t =>
                        platform.limit[o] = platform.limit[t] /\ backs[Adapter(t)] = <<Clog>>
               PROVE  Cardinality({b \in Linked : b[2] = t}) <= platform.limit[t]
    BY DEF TargetWithinLimit
  <2> DEFINE Peers == {b \in Linked : b[2] = t}
             K(u) == CallersIn(backs[Core(u)]) \cup CallersIn(backs[Adapter(u)])
  <2>1. /\ JoinsInv /\ t \in Ends /\ Core(t) = t /\ NoEnd # t /\ OuterMMTargets \subseteq Outers
        /\ \A o \in OuterMMTargets : Core(o) = inner[o] /\ o \notin Ends
    BY <1>1, AdaptersAreApart, ClassesAreApart, CoreTypes DEF WorkInv, Sockets, Outers, Ends
  <2>2. \A v \in Targets : Core(v) = t => ~JoinedBackward(Adapter(v))
    <3>1. \A v \in Targets : Core(v) = t => Adapter(v) \in AdaptersOf(t)
      BY DEF AdaptersOf, Targets, Adapted
    <3> QED  BY <3>1 DEF Behind
  <2>3. \A v \in Targets : Core(v) = t <=> v = t \/ (v \in OuterMMTargets /\ inner[v] = t)
    BY <1>1, <2>1, CoreTypes, AdaptersAreApart DEF Targets, Sockets
  <2>4. \E u \in Targets :
          /\ Core(u) = t /\ ~JoinedBackward(u) /\ platform.limit[u] = platform.limit[t]
          /\ \A v \in Targets : Core(v) = t /\ v # u =>
               v = t /\ Present(u) /\ CallersIn(backs[Adapter(t)]) = {}
    <3>1. CASE \E o \in OuterMMTargets : inner[o] = t
      <4>1. PICK o \in OuterMMTargets : inner[o] = t
        BY <3>1
      <4>2. Present(o) /\ \A v \in OuterMMTargets : inner[v] = t => v = o
        BY <1>1, <2>1, <4>1 DEF LimitInv
      <4>3. ~JoinedBackward(o)
        BY <1>1, <2>1, <4>1, ClassesAreApart, AdaptersAreApart DEF JoinedBackward, TypeOK, Outers
      <4>4. CallersIn(backs[Adapter(t)]) = {}
        <5>1. backs[Adapter(t)] = <<Clog>>
          BY <4>1
        <5>2. PeersIn(<<Clog>>) = {Clog}
          BY DEF PeersIn
        <5> QED  BY <5>1, <5>2, CallersAreEnds, AdaptersAreApart DEF CallersIn
      <4>5. o \in Targets /\ Core(o) = t /\ platform.limit[o] = platform.limit[t]
        BY <2>1, <4>1 DEF Targets
      <4> QED  BY <2>3, <4>2, <4>3, <4>4, <4>5
    <3>2. CASE \A o \in OuterMMTargets : inner[o] # t
      <4>1. ~JoinedBackward(t)
        <5>1. t \notin Adapters /\ t \notin Bidirs
          BY AdaptersAreApart, ClassesAreApart DEF Sockets
        <5>2. \A o \in OuterTargets \cup OuterBidirs : inner[o] # t
          BY <2>1, <5>1, AdaptersAreApart DEF JoinsInv, Adapted
        <5> QED  BY <3>2, <5>2 DEF JoinedBackward
      <4>2. t \in Targets
        BY DEF Targets
      <4> QED  BY <2>1, <2>3, <3>2, <4>1, <4>2
    <3> QED  BY <3>1, <3>2
  <2>5. PICK u \in Targets :
          /\ Core(u) = t /\ ~JoinedBackward(u) /\ platform.limit[u] = platform.limit[t]
          /\ \A v \in Targets : Core(v) = t /\ v # u =>
               v = t /\ Present(u) /\ CallersIn(backs[Adapter(t)]) = {}
    BY <2>4
  <2>6. ASSUME NEW b \in Peers
        PROVE  Present(u) /\ \E e \in K(u) : b = <<Core(Owner(e)), t>>
    <3>1. PICK e \in Callers :
            /\ b = <<Core(Owner(e)), t>>
            /\ \/ Present(t) /\ e \in CallersIn(backs[t])
               \/ \E v \in Targets : Core(v) = t /\ Present(v) /\ e \in CallersIn(backs[Adapter(v)])
      BY <1>1, PeersOfTarget
    <3>2. CASE Present(t) /\ e \in CallersIn(backs[t])
      <4>1. Present(u)
        BY <2>1, <2>5, <3>2 DEF Targets
      <4> QED  BY <2>5, <3>1, <3>2, <4>1
    <3>3. ASSUME NEW v \in Targets, Core(v) = t, Present(v), e \in CallersIn(backs[Adapter(v)])
          PROVE  Present(u) /\ \E x \in K(u) : b = <<Core(Owner(x)), t>>
      <4>1. v = u
        BY <2>5, <3>3
      <4> QED  BY <3>1, <3>3, <4>1
    <3> QED  BY <3>1, <3>2, <3>3
  <2>7. platform.limit[u] \in Nat
    BY <1>1, LinksAssumption DEF TypeOK, Platform, Targets, Adapted
  <2>8. CASE Peers = {}
    <3>1. Cardinality(Peers) = 0
      BY <2>8, FS_EmptySet
    <3> HIDE DEF Peers
    <3>2. Cardinality(Peers) <= platform.limit[t]
      BY <2>5, <2>7, <3>1
    <3> QED  BY <3>2 DEF Peers
  <2>9. CASE Peers # {}
    <3>1. Present(u)
      BY <2>6, <2>9
    <3>2. Cardinality(K(u)) <= platform.limit[t]
      BY <1>1, <2>2, <2>5, <3>1, CallersWithinLimit
    <3>3. IsFiniteSet(K(u))
      <4>1. Adapter(u) \in Ends
        BY AdaptersAreApart DEF Targets, Adapted
      <4>2. backs[Core(u)] \in Seq(Ends \cup {Clog}) /\ backs[Adapter(u)] \in Seq(Ends \cup {Clog})
        BY <1>1, <2>1, <2>5, <4>1 DEF TypeOK
      <4> QED  BY <4>2, CallersAreFinite, FS_Union
    <3> DEFINE Q == {e \in K(u) : <<Core(Owner(e)), t>> \in Peers}
               f == [e \in Q |-> <<Core(Owner(e)), t>>]
    <3>4. IsFiniteSet(Q) /\ Cardinality(Q) <= Cardinality(K(u))
      BY <3>3, FS_Subset
    <3>5. f \in Surjection(Q, Peers)
      <4> HIDE DEF Peers, K
      <4> QED  BY <2>6 DEF Surjection
    <3>6. IsFiniteSet(Peers) /\ Cardinality(Peers) <= Cardinality(Q)
      <4> HIDE DEF Q, f, Peers
      <4> QED  BY <3>4, <3>5, FS_Surjection
    <3>7. /\ Cardinality(Peers) \in Nat /\ Cardinality(Q) \in Nat /\ Cardinality(K(u)) \in Nat
      BY <3>3, <3>4, <3>6, FS_CardinalityType
    <3> HIDE DEF Peers, Q, K
    <3>8. Cardinality(Peers) <= platform.limit[t]
      BY <2>5, <2>7, <3>2, <3>4, <3>6, <3>7
    <3> QED  BY <3>8 DEF Peers
  <2> QED  BY <2>8, <2>9
<1> QED  BY <1>1, LinkTypes, WorkInvariant, LimitInvariant, PTL

-----------------------------------------------------------------------------
\* Links stand for direct links.

\* The two names of a command, or of a status, are those of one pair.
LEMMA CommandNames ==
    /\ \A c \in Command : CommandOf(c[1]) = c /\ CommandOf(c[2]) = c
    /\ \A c \in Command : CommandFromGeneric(c[1]) = c[2] /\ CommandToGeneric(c[2]) = c[1]
<1>1. \A c, e \in Command : (c[1] \in {e[1], e[2]} => e = c) /\ (c[2] \in {e[1], e[2]} => e = c)
  BY DEF Command
<1>2. ASSUME NEW c \in Command PROVE CommandOf(c[1]) = c /\ CommandOf(c[2]) = c
  BY <1>1 DEF CommandOf
<1>3. \A c \in Command : CommandFromGeneric(c[1]) = c[2] /\ CommandToGeneric(c[2]) = c[1]
  BY DEF Command, CommandFromGeneric, CommandToGeneric
<1> QED  BY <1>2, <1>3

\* The same of a status.
LEMMA StatusNames ==
    /\ \A s \in Status : StatusOf(s[1]) = s /\ StatusOf(s[2]) = s
    /\ \A s \in Status : StatusFromGeneric(s[1]) = s[2] /\ StatusToGeneric(s[2]) = s[1]
<1>1. \A s, e \in Status : (s[1] \in {e[1], e[2]} => e = s) /\ (s[2] \in {e[1], e[2]} => e = s)
  BY DEF Status
<1>2. ASSUME NEW s \in Status PROVE StatusOf(s[1]) = s /\ StatusOf(s[2]) = s
  BY <1>1 DEF StatusOf
<1>3. \A s \in Status : StatusFromGeneric(s[1]) = s[2] /\ StatusToGeneric(s[2]) = s[1]
  BY DEF Status, StatusFromGeneric, StatusToGeneric
<1> QED  BY <1>2, <1>3

\* A payload that is no range: the pairs its command and its status are of.
GenericPayload == [generic : {TRUE}, cmd : {c[1] : c \in Command}, data : Words,
                   len : 0 .. LengthMod - 1, status : {s[1] : s \in Status}, dmi : BOOLEAN]
MappedPayload  == [generic : {FALSE}, cmd : {c[2] : c \in Command}, data : Words,
                   len : Nat, status : {s[2] : s \in Status}, dmi : BOOLEAN]

\* A payload is a plain one, a memory-mapped one or a range.
LEMMA PayloadCases ==
    ASSUME NEW p \in Payload
    PROVE  \/ p \in [range : Words] /\ IsRange(p)
           \/ p \in GenericPayload /\ ~IsRange(p) /\ p.generic = TRUE
           \/ p \in MappedPayload /\ ~IsRange(p) /\ p.generic = FALSE
<1>1. Payload = GenericPayload \cup MappedPayload \cup [range : Words]
  BY DEF Payload, GenericPayload, MappedPayload
<1>2. CASE p \in [range : Words]
  BY <1>2 DEF IsRange
<1>3. CASE p \in GenericPayload
  BY <1>3 DEF IsRange, GenericPayload
<1>4. CASE p \in MappedPayload
  BY <1>4 DEF IsRange, MappedPayload
<1> QED  BY <1>1, <1>2, <1>3, <1>4

\* What a payload says is of the kind a direct link carries.
LEMMA RequestType ==
    ASSUME NEW p \in Payload PROVE Request(p) \in DirectRequests
<1>1. CASE p \in [range : Words] /\ IsRange(p)
  BY <1>1 DEF Request, DirectRequests
<1>2. ASSUME ~IsRange(p), NEW c \in Command, CommandOf(p.cmd) = c, p.data \in Words, p.len \in Nat
      PROVE  Request(p) \in DirectRequests
  <2>1. p.len % LengthMod \in 0 .. LengthMod - 1
    BY <1>2, DataAssumption
  <2>2. Request(p) = [cmd |-> c, data |-> p.data, len |-> p.len % LengthMod]
    BY <1>2 DEF Request
  <2> QED  BY <1>2, <2>1, <2>2 DEF DirectRequests
<1>3. CASE p \in GenericPayload /\ ~IsRange(p)
  <2>1. PICK c \in Command : p.cmd = c[1]
    BY <1>3 DEF GenericPayload
  <2>2. p.data \in Words /\ p.len \in Nat
    BY <1>3, DataAssumption DEF GenericPayload
  <2> QED  BY <1>2, <1>3, <2>1, <2>2, CommandNames
<1>4. CASE p \in MappedPayload /\ ~IsRange(p)
  <2>1. PICK c \in Command : p.cmd = c[2]
    BY <1>4 DEF MappedPayload
  <2>2. p.data \in Words /\ p.len \in Nat
    BY <1>4 DEF MappedPayload
  <2> QED  BY <1>2, <1>4, <2>1, <2>2, CommandNames
<1> QED  BY <1>1, <1>3, <1>4, PayloadCases

\* The same of its result.
LEMMA ResultType ==
    ASSUME NEW p \in Payload, NEW ret \in {"callback", "default"} PROVE Result(p, ret) \in DirectResults
<1>1. CASE p \in [range : Words] /\ IsRange(p)
  BY <1>1 DEF Result, DirectResults
<1>2. ASSUME ~IsRange(p), NEW s \in Status, StatusOf(p.status) = s, p.dmi \in BOOLEAN
      PROVE  Result(p, ret) \in DirectResults
  <2>1. Result(p, ret) = [status |-> s, dmi |-> p.dmi, ret |-> ret]
    BY <1>2 DEF Result
  <2> QED  BY <1>2, <2>1 DEF DirectResults
<1>3. CASE p \in GenericPayload /\ ~IsRange(p)
  <2>1. PICK s \in Status : p.status = s[1]
    BY <1>3 DEF GenericPayload
  <2>2. p.dmi \in BOOLEAN
    BY <1>3 DEF GenericPayload
  <2> QED  BY <1>2, <1>3, <2>1, <2>2, StatusNames
<1>4. CASE p \in MappedPayload /\ ~IsRange(p)
  <2>1. PICK s \in Status : p.status = s[2]
    BY <1>4 DEF MappedPayload
  <2>2. p.dmi \in BOOLEAN
    BY <1>4 DEF MappedPayload
  <2> QED  BY <1>2, <1>4, <2>1, <2>2, StatusNames
<1> QED  BY <1>1, <1>3, <1>4, PayloadCases

\* A payload and its conversion say the same.
LEMMA ConversionKeeps ==
    ASSUME NEW p \in Payload, NEW ret
    PROVE  Request(Convert(p)) = Request(p) /\ Result(Convert(p), ret) = Result(p, ret)
<1>1. CASE IsRange(p)
  BY <1>1 DEF Convert
<1>2. ASSUME ~IsRange(p), NEW q, ~IsRange(q), CommandOf(q.cmd) = CommandOf(p.cmd), q.data = p.data,
             q.len % LengthMod = p.len % LengthMod, StatusOf(q.status) = StatusOf(p.status),
             q.dmi = p.dmi
      PROVE  Request(q) = Request(p) /\ Result(q, ret) = Result(p, ret)
  BY <1>2 DEF Request, Result
<1>3. CASE p \in GenericPayload /\ ~IsRange(p) /\ p.generic = TRUE
  <2>1. PICK c \in Command : p.cmd = c[1]
    BY <1>3 DEF GenericPayload
  <2>2. PICK s \in Status : p.status = s[1]
    BY <1>3 DEF GenericPayload
  <2>3. Convert(p) = [p EXCEPT !.generic = FALSE, !.cmd = CommandFromGeneric(p.cmd),
                               !.status = StatusFromGeneric(p.status)]
    BY <1>3 DEF Convert
  <2>4. /\ Convert(p).cmd = c[2] /\ Convert(p).status = s[2] /\ Convert(p).data = p.data
        /\ Convert(p).len = p.len /\ Convert(p).dmi = p.dmi
    BY <1>3, <2>1, <2>2, <2>3, CommandNames, StatusNames DEF GenericPayload
  <2>5. ~IsRange(Convert(p))
    BY <1>3, <2>3 DEF GenericPayload, IsRange
  <2> QED  BY <1>2, <1>3, <2>1, <2>2, <2>4, <2>5, CommandNames, StatusNames
<1>4. CASE p \in MappedPayload /\ ~IsRange(p) /\ p.generic = FALSE
  <2>1. PICK c \in Command : p.cmd = c[2]
    BY <1>4 DEF MappedPayload
  <2>2. PICK s \in Status : p.status = s[2]
    BY <1>4 DEF MappedPayload
  <2>3. Convert(p) = [p EXCEPT !.generic = TRUE, !.cmd = CommandToGeneric(p.cmd),
                               !.status = StatusToGeneric(p.status), !.len = p.len % LengthMod]
    BY <1>4 DEF Convert
  <2>4. /\ Convert(p).cmd = c[1] /\ Convert(p).status = s[1] /\ Convert(p).data = p.data
        /\ Convert(p).len = p.len % LengthMod /\ Convert(p).dmi = p.dmi
    BY <1>4, <2>1, <2>2, <2>3, CommandNames, StatusNames DEF MappedPayload
  <2>5. ~IsRange(Convert(p))
    BY <1>4, <2>3 DEF MappedPayload, IsRange
  <2>6. (p.len % LengthMod) % LengthMod = p.len % LengthMod
    <3>1. p.len \in Nat
      BY <1>4 DEF MappedPayload
    <3> QED  BY <3>1, DataAssumption
  <2> QED  BY <1>2, <1>4, <2>1, <2>2, <2>4, <2>5, <2>6, CommandNames, StatusNames
<1> QED  BY <1>1, <1>3, <1>4, PayloadCases

\* The calls of one direction all go the same way.
LEMMA OneWayForEachKind ==
    /\ \A kind \in FwKinds : \A e :
         PortFor(e, kind) = outs[e] /\ Destination(e, kind) = Destination(e, "b_transport")
    /\ \A kind \in BwKinds : \A e :
         PortFor(e, kind) = backs[e] /\ Destination(e, kind) = Destination(e, "nb_transport_bw")
<1>1. /\ "b_transport" \in FwKinds /\ "nb_transport_bw" \in BwKinds
      /\ \A kind \in BwKinds : kind \notin FwKinds
  BY DEF FwKinds, BwKinds
<1>2. \A kind \in FwKinds : \A e :
        PortFor(e, kind) = outs[e] /\ Hop(e, kind) = Hop(e, "b_transport")
  BY <1>1 DEF PortFor, Hop
<1>3. \A kind \in BwKinds : \A e :
        PortFor(e, kind) = backs[e] /\ Hop(e, kind) = Hop(e, "nb_transport_bw")
  BY <1>1 DEF PortFor, Hop
<1> QED  BY <1>2, <1>3 DEF Destination

\* A call ends at an end or in a plug.
LEMMA DestinationType ==
    ASSUME TypeOK, NEW x \in Ends \cup {Clog}, NEW kind
    PROVE  Destination(x, kind) \in Ends \cup {Clog}
<1>1. ASSUME NEW e \in Ends \cup {Clog} PROVE Hop(e, kind) \in Ends \cup {Clog}
  <2>1. CASE e \in Sockets \cup {Clog}
    BY <2>1, HopOfSocket, AdaptersAreApart
  <2>2. CASE e \in Adapters
    <3>1. PortFor(e, kind) \in Seq(Ends \cup {Clog})
      BY <2>2, PortType, AdaptersAreApart
    <3>2. PeersIn(PortFor(e, kind)) \subseteq Ends \cup {Clog}
      BY <3>1, PeersFacts
    <3> QED  BY <2>2, <3>2, HopOfAdapter, AdaptersAreApart
  <2> QED  BY <2>1, <2>2 DEF Ends
<1> QED  BY <1>1 DEF Destination

\* The links of the platform's author are between sockets.
LEMMA DirectLinksType ==
    ASSUME TypeOK, JoinsInv PROVE directLinks \subseteq Sockets \X Sockets
<1>1. \A s \in Sockets \cup Adapted : Core(s) \in Sockets \cup {NoEnd}
  <2>1. \A s \in Sockets : Core(s) = s
    BY CoreTypes, AdaptersAreApart
  <2>2. \A s \in Initiators \cup Targets : Core(s) \in Sockets \cup {NoEnd}
    BY CoreOfParties DEF Sockets
  <2> QED  BY <2>1, <2>2 DEF Adapted, Targets
<1>2. ASSUME NEW w \in UNION wanted
      PROVE  /\ <<Core(w[1]), Core(w[2])>>[1] \in Sockets \cup {NoEnd}
             /\ <<Core(w[1]), Core(w[2])>>[2] \in Sockets \cup {NoEnd}
             /\ <<Core(w[1]), Core(w[2])>> = <<<<Core(w[1]), Core(w[2])>>[1], <<Core(w[1]), Core(w[2])>>[2]>>
  <2>1. w[1] \in Sockets \cup Adapted /\ w[2] \in Sockets \cup Adapted
    BY DEF TypeOK
  <2> QED  BY <1>1, <2>1
<1>3. \A w \in Linked : /\ w[1] \in Sockets \cup {NoEnd} /\ w[2] \in Sockets \cup {NoEnd}
                        /\ w = <<w[1], w[2]>>
  BY <1>2 DEF Linked
<1> QED  BY <1>3 DEF directLinks

\* A call that a socket makes ends where the author has linked it, or it is lost.
LEMMA CallsAreLinked ==
    ASSUME TypeOK, WorkInv, stage = "running",
           NEW s \in Sockets, NEW kind \in Kinds, NEW x \in PeersIn(PortFor(s, kind))
    PROVE  LET d == Destination(x, kind) IN
           \/ d \in Sockets /\ {<<s, d>>, <<d, s>>} \cap directLinks # {}
           \/ d \in Adapters /\ PortFor(d, kind) = <<>>
           \/ d = Clog /\ \E w \in Linked : w[1] = s /\ Behind(w[2])
<1> DEFINE d == Destination(x, kind)
<1>1. d \in Ends \cup {Clog}
  <2>1. PortFor(s, kind) \in Seq(Ends \cup {Clog})
    BY PortType, AdaptersAreApart
  <2> QED  BY <2>1, PeersFacts, DestinationType
<1>2. NoEnd \notin Sockets
  BY AdaptersAreApart
<1>3. CASE kind \in FwKinds
  <2>1. d = Destination(x, "b_transport") /\ x \in PeersIn(outs[s])
    BY <1>3, OneWayForEachKind
  <2>2. d \in Reached(s, "b_transport")
    BY <2>1, ReachedType, PortOfKind
  <2> HIDE DEF d
  <2>3. /\ d \in Sockets => <<s, d>> \in Linked
        /\ d \in Adapters => PortFor(d, kind) = <<>>
        /\ d = Clog => \E w \in Linked : w[1] = s /\ Behind(w[2])
    BY <1>3, <2>2, ForwardReach, OneWayForEachKind
  <2>4. d \in Sockets => <<s, d>> \in directLinks
    BY <1>2, <2>3 DEF directLinks
  <2>5. d \in Ends \cup {Clog}
    BY <1>1 DEF d
  <2>6. \/ d \in Sockets /\ {<<s, d>>, <<d, s>>} \cap directLinks # {}
        \/ d \in Adapters /\ PortFor(d, kind) = <<>>
        \/ d = Clog /\ \E w \in Linked : w[1] = s /\ Behind(w[2])
    BY <2>3, <2>4, <2>5 DEF Ends
  <2> QED  BY <2>6 DEF d
<1>4. CASE kind \in BwKinds
  <2>1. d = Destination(x, "nb_transport_bw") /\ x \in PeersIn(backs[s])
    BY <1>4, OneWayForEachKind
  <2>2. d \in Reached(s, "nb_transport_bw")
    BY <2>1, ReachedType, PortOfKind
  <2> HIDE DEF d
  <2>3. d \in Sockets /\ <<d, s>> \in Linked
    BY <2>2, BackwardReach
  <2>4. <<d, s>> \in directLinks
    BY <1>2, <2>3 DEF directLinks
  <2>5. d \in Sockets /\ {<<s, d>>, <<d, s>>} \cap directLinks # {}
    BY <2>3, <2>4
  <2> QED  BY <2>5 DEF d
<1> QED  BY <1>3, <1>4 DEF Kinds
\* What is so of each call, whatever end it has reached: the payloads on the way
\* all say the same request.
KeepsRequest(c) ==
    /\ \A n \in 1 .. Len(c.trans) : Request(c.trans[n]) = Request(c.trans[1])
    /\ c.served => c.ret # "none"

\* An end has one call at a time, which is in one place.
OneCallEach ==
    /\ \A m, n \in 1 .. Len(stack) : stack[m].from = stack[n].from => m = n
    /\ \A b \in blocked : \A n \in 1 .. Len(stack) : b.from # stack[n].from
    /\ \A b, d \in blocked : b.from = d.from => b = d

RequestInv ==
    /\ stage \in {"building", "elaborating"} => stack = <<>> /\ blocked = {}
    /\ OneCallEach
    /\ \A c \in Calls : KeepsRequest(c)

\* A call at work is the innermost one or, when there is none, a waiting one.
LEMMA WorkIsACall ==
    ASSUME CallInv, NEW c, AtWork(c), stack # <<>> \/ c \in Calls
    PROVE  /\ c \in Calls
           /\ stack # <<>> => c = stack[1] /\ Len(stack) \in Nat /\ Len(stack) > 0
           /\ stack = <<>> => c \in blocked /\ Calls = blocked
<1>1. Len(stack) \in Nat /\ (stack # <<>> => Len(stack) > 0) /\ (stack = <<>> => Len(stack) = 0)
  BY LenProperties, EmptySeq DEF CallInv
<1>2. CASE stack = <<>>
  BY <1>1, <1>2 DEF AtWork, Calls
<1>3. CASE stack # <<>>
  <2>1. c = stack[1]
    BY <1>3, HeadTailProperties DEF AtWork, CallInv
  <2> QED  BY <1>1, <1>3, <2>1 DEF Calls
<1> QED  BY <1>2, <1>3

\* When a call becomes another one, of the same end, all others are left alone.
LEMMA CallGoesOn ==
    ASSUME CallInv, OneCallEach, NEW c \in Calls, NEW d, Becomes(c, d), d.from = c.from
    PROVE  Calls' = (Calls \ {c}) \cup {d} /\ OneCallEach'
<1>1. AtWork(c)
  BY DEF Becomes
<1>2. CASE stack = <<>>
  <2>1. Len(stack) = 0 /\ Len(stack') = 0 /\ stack' = <<>> /\ blocked' = (blocked \ {c}) \cup {d}
    BY <1>2, EmptySeq DEF Becomes
  <2>2. c \in blocked /\ Calls = blocked /\ Calls' = blocked'
    BY <1>1, <1>2, <2>1, WorkIsACall DEF Calls
  <2>3. \A b, e \in blocked' : b.from = e.from => b = e
    BY <2>1, <2>2 DEF OneCallEach
  <2> QED  BY <2>1, <2>2, <2>3 DEF OneCallEach
<1>3. CASE stack # <<>>
  <2> DEFINE T == Tail(stack)
  <2>1. stack' = <<d>> \o T /\ blocked' = blocked /\ c = stack[1] /\ Len(stack) \in Nat /\ Len(stack) > 0
    BY <1>1, <1>3, WorkIsACall DEF Becomes
  <2>2. /\ T \in Seq(GoodCall) /\ Len(T) = Len(stack) - 1
        /\ \A n \in 1 .. Len(T) : T[n] = stack[n + 1]
    BY <1>3, HeadTailProperties DEF CallInv
  <2>3. T \in Seq(GoodCall \cup {d}) /\ <<d>> \in Seq(GoodCall \cup {d}) /\ Len(<<d>>) = 1 /\ <<d>>[1] = d
    <3>1. Seq(GoodCall) \subseteq Seq(GoodCall \cup {d})
      BY SeqMonotonic
    <3> QED  BY <2>2, <3>1
  <2> HIDE DEF T
  <2>4. /\ Len(stack') = Len(stack)
        /\ stack'[1] = d
        /\ \A n \in 2 .. Len(stack) : stack'[n] = stack[n]
    <3>1. /\ Len(<<d>> \o T) = 1 + Len(T)
          /\ \A n \in 1 .. 1 + Len(T) : (<<d>> \o T)[n] = IF n <= 1 THEN <<d>>[n] ELSE T[n - 1]
      BY <2>3, ConcatProperties
    <3>2. \A n \in 2 .. Len(stack) : T[n - 1] = stack[n]
      <4> TAKE n \in 2 .. Len(stack)
      <4>1. n - 1 \in 1 .. Len(T) /\ (n - 1) + 1 = n
        BY <2>1, <2>2
      <4> QED  BY <2>2, <4>1
    <3> QED  BY <2>1, <2>2, <2>3, <3>1, <3>2
  <2>5. OneCallEach'
    <3>1. \A n \in 1 .. Len(stack) : stack'[n].from = stack[n].from
      BY <2>1, <2>4
    <3> QED  BY <2>1, <2>4, <3>1 DEF OneCallEach
  <2>6. \A n \in 2 .. Len(stack) : stack[n] # c
    BY <2>1 DEF OneCallEach
  <2>7. c \notin blocked
    BY <2>1 DEF OneCallEach
  <2>8. Calls = {c} \cup {stack[n] : n \in 2 .. Len(stack)} \cup blocked
    BY <2>1 DEF Calls
  <2>9. Calls' = {d} \cup {stack[n] : n \in 2 .. Len(stack)} \cup blocked
    BY <2>1, <2>4 DEF Calls
  <2> QED  BY <2>5, <2>6, <2>7, <2>8, <2>9
<1> QED  BY <1>2, <1>3

\* A call that returns is the only one that goes.
LEMMA CallGoes ==
    ASSUME CallInv, OneCallEach, NEW c \in Calls, CallReturns(c)
    PROVE  Calls' = Calls \ {c} /\ OneCallEach'
<1>1. AtWork(c)
  BY DEF CallReturns
<1>2. CASE stack = <<>>
  <2>1. Len(stack) = 0 /\ stack' = <<>> /\ blocked' = blocked \ {c}
    BY <1>2, EmptySeq DEF CallReturns
  <2>2. c \in blocked /\ Calls = blocked /\ Calls' = blocked'
    BY <1>1, <1>2, <2>1, WorkIsACall DEF Calls
  <2> QED  BY <2>1, <2>2 DEF OneCallEach
<1>3. CASE stack # <<>>
  <2>1. stack' = Tail(stack) /\ blocked' = blocked /\ c = stack[1] /\ Len(stack) \in Nat /\ Len(stack) > 0
    BY <1>1, <1>3, WorkIsACall DEF CallReturns
  <2>2. /\ Len(stack') = Len(stack) - 1
        /\ \A n \in 1 .. Len(stack') : stack'[n] = stack[n + 1]
    BY <1>3, <2>1, HeadTailProperties DEF CallInv
  <2>3. \A n \in 1 .. Len(stack') : n + 1 \in 2 .. Len(stack)
    BY <2>1, <2>2
  <2>4. \A n \in 2 .. Len(stack) : n - 1 \in 1 .. Len(stack') /\ stack'[n - 1] = stack[n]
    <3> TAKE n \in 2 .. Len(stack)
    <3>1. n - 1 \in 1 .. Len(stack') /\ (n - 1) + 1 = n
      BY <2>1, <2>2
    <3> QED  BY <2>2, <3>1
  <2>5. OneCallEach'
    <3>1. \A m, n \in 1 .. Len(stack') : stack'[m].from = stack'[n].from => m = n
      <4> TAKE m, n \in 1 .. Len(stack')
      <4>1. m + 1 \in 1 .. Len(stack) /\ n + 1 \in 1 .. Len(stack) /\ m \in Int /\ n \in Int
        BY <2>1, <2>2
      <4>2. stack[m + 1].from = stack[n + 1].from => m + 1 = n + 1
        BY <4>1 DEF OneCallEach
      <4> QED  BY <2>2, <4>1, <4>2
    <3>2. \A b \in blocked : \A n \in 1 .. Len(stack') : b.from # stack'[n].from
      <4> TAKE b \in blocked
      <4> TAKE n \in 1 .. Len(stack')
      <4>1. n + 1 \in 1 .. Len(stack)
        BY <2>1, <2>2
      <4> QED  BY <2>2, <4>1 DEF OneCallEach
    <3> QED  BY <2>1, <3>1, <3>2 DEF OneCallEach
  <2>6. \A n \in 2 .. Len(stack) : stack[n] # c
    BY <2>1 DEF OneCallEach
  <2>7. c \notin blocked
    BY <2>1 DEF OneCallEach
  <2>8. Calls = {c} \cup {stack[n] : n \in 2 .. Len(stack)} \cup blocked
    BY <2>1 DEF Calls
  <2>9. Calls' = {stack[n] : n \in 2 .. Len(stack)} \cup blocked
    <3>1. \A n \in 1 .. Len(stack') : \E m \in 2 .. Len(stack) : stack'[n] = stack[m]
      BY <2>2, <2>3
    <3>2. \A m \in 2 .. Len(stack) : \E n \in 1 .. Len(stack') : stack'[n] = stack[m]
      BY <2>4
    <3>3. Calls' = {stack'[n] : n \in 1 .. Len(stack')} \cup blocked
      BY <2>1 DEF Calls
    <3>4. {stack'[n] : n \in 1 .. Len(stack')} = {stack[n] : n \in 2 .. Len(stack)}
      <4>1. {stack'[n] : n \in 1 .. Len(stack')} \subseteq {stack[n] : n \in 2 .. Len(stack)}
        BY <3>1
      <4>2. {stack[n] : n \in 2 .. Len(stack)} \subseteq {stack'[n] : n \in 1 .. Len(stack')}
        <5> SUFFICES ASSUME NEW m \in 2 .. Len(stack)
                     PROVE  stack[m] \in {stack'[n] : n \in 1 .. Len(stack')}
          OBVIOUS
        <5>1. PICK n \in 1 .. Len(stack') : stack'[n] = stack[m]
          BY <3>2
        <5> QED  BY <5>1
      <4> QED  BY <4>1, <4>2
    <3> QED  BY <3>3, <3>4
  <2> QED  BY <2>5, <2>6, <2>7, <2>8, <2>9
<1> QED  BY <1>2, <1>3

\* A call that is made is the first one of its end.
LEMMA CallComes ==
    ASSUME CallInv, OneCallEach, NEW s, NEW n, NEW kind, NEW p, Call(s, n, kind, p)
    PROVE  LET c == [from |-> s, kind |-> kind, route |-> <<PortFor(s, kind)[n]>>,
                     trans |-> <<p>>, served |-> FALSE, ret |-> "none"]
           IN  Calls' = Calls \cup {c} /\ OneCallEach'
<1> DEFINE c == [from |-> s, kind |-> kind, route |-> <<PortFor(s, kind)[n]>>,
                 trans |-> <<p>>, served |-> FALSE, ret |-> "none"]
<1>1. c.from = s /\ \A d \in Calls : d.from # s
  BY DEF Call
<1>2. \/ blocked' = blocked \cup {c} /\ UNCHANGED stack
      \/ stack' = <<c>> \o stack /\ UNCHANGED blocked
  BY DEF Call
<1> HIDE DEF c
<1>3. CASE blocked' = blocked \cup {c} /\ UNCHANGED stack
  <2>1. Calls' = Calls \cup {c}
    BY <1>3 DEF Calls
  <2>2. \A m \in 1 .. Len(stack) : stack[m].from # c.from
    BY <1>1 DEF Calls
  <2>3. \A b \in blocked : b.from # c.from
    BY <1>1 DEF Calls
  <2> QED  BY <1>3, <2>1, <2>2, <2>3 DEF OneCallEach, c
<1>4. CASE stack' = <<c>> \o stack /\ UNCHANGED blocked
  <2>1. stack \in Seq(GoodCall \cup {c}) /\ <<c>> \in Seq(GoodCall \cup {c}) /\ Len(<<c>>) = 1 /\ <<c>>[1] = c
    <3>1. Seq(GoodCall) \subseteq Seq(GoodCall \cup {c})
      BY SeqMonotonic
    <3> QED  BY <3>1 DEF CallInv
  <2>2. Len(stack) \in Nat
    BY <2>1, LenProperties
  <2>3. /\ Len(stack') = 1 + Len(stack)
        /\ stack'[1] = c
        /\ \A m \in 2 .. Len(stack') : m - 1 \in 1 .. Len(stack) /\ stack'[m] = stack[m - 1]
    <3>1. /\ Len(<<c>> \o stack) = 1 + Len(stack)
          /\ \A m \in 1 .. 1 + Len(stack) : (<<c>> \o stack)[m] = IF m <= 1 THEN <<c>>[m] ELSE stack[m - 1]
      BY <2>1, ConcatProperties
    <3> QED  BY <1>4, <2>1, <2>2, <3>1
  <2>4. \A m \in 1 .. Len(stack) : m + 1 \in 2 .. Len(stack') /\ stack'[m + 1] = stack[m]
    <3> TAKE m \in 1 .. Len(stack)
    <3>1. m + 1 \in 2 .. Len(stack') /\ (m + 1) - 1 = m
      BY <2>2, <2>3
    <3> QED  BY <2>3, <3>1
  <2>5. Calls' = Calls \cup {c}
    <3>1. \A m \in 1 .. Len(stack') : stack'[m] = c \/ \E k \in 1 .. Len(stack) : stack'[m] = stack[k]
      <4> TAKE m \in 1 .. Len(stack')
      <4>1. m = 1 \/ m \in 2 .. Len(stack')
        BY <2>2, <2>3
      <4> QED  BY <2>3, <4>1
    <3>2. 1 \in 1 .. Len(stack') /\ \A k \in 1 .. Len(stack) : \E m \in 1 .. Len(stack') : stack'[m] = stack[k]
      <4>1. \A k \in 2 .. Len(stack') : k \in 1 .. Len(stack')
        BY <2>2, <2>3
      <4> QED  BY <2>2, <2>3, <2>4, <4>1
    <3> QED  BY <1>4, <2>3, <3>1, <3>2 DEF Calls
  <2>6. \A m \in 1 .. Len(stack) : stack[m].from # c.from
    BY <1>1 DEF Calls
  <2>7. \A b \in blocked : b.from # c.from
    BY <1>1 DEF Calls
  <2>8. \A m \in 1 .. Len(stack') : m = 1 \/ m \in 2 .. Len(stack')
    BY <2>2, <2>3
  <2>9. \A m, k \in 1 .. Len(stack') : stack'[m].from = stack'[k].from => m = k
    <3> SUFFICES ASSUME NEW m \in 1 .. Len(stack'), NEW k \in 1 .. Len(stack'),
                        stack'[m].from = stack'[k].from
                 PROVE  m = k
      OBVIOUS
    <3>1. CASE m = 1 \/ k = 1
      BY <2>3, <2>6, <2>8, <3>1
    <3>2. CASE m # 1 /\ k # 1
      <4>1. m - 1 = k - 1
        BY <2>3, <2>8, <3>2 DEF OneCallEach
      <4> QED  BY <2>2, <2>3, <4>1
    <3> QED  BY <3>1, <3>2
  <2>10. \A b \in blocked : \A m \in 1 .. Len(stack') : b.from # stack'[m].from
    BY <2>3, <2>7, <2>8 DEF OneCallEach
  <2> QED  BY <1>4, <2>5, <2>9, <2>10 DEF OneCallEach, c
<1> QED  BY <1>2, <1>3, <1>4

\* As a call goes on it stays the same one for the caller: its ends, and what it asks.
SameCall(c, d) ==
    /\ d.from = c.from /\ d.kind = c.kind /\ d.route[1] = c.route[1]
    /\ Request(d.trans[1]) = Request(c.trans[1])

\* The payload the innermost end has says what the first one does.
LEMMA GivenAsksTheSame ==
    ASSUME NEW c \in GoodCall, KeepsRequest(c)
    PROVE  /\ Request(Given(c)) = Request(c.trans[1])
           /\ Request(Convert(Given(c))) = Request(c.trans[1])
           /\ c.trans[1] \in Payload
<1>1. /\ Len(c.trans) = Len(c.route) /\ Len(c.route) \in Nat /\ Len(c.route) > 0
      /\ Given(c) \in Payload
  BY GivenType
<1>2. Len(c.trans) \in 1 .. Len(c.trans) /\ 1 \in 1 .. Len(c.trans)
  BY <1>1
<1>3. Request(c.trans[Len(c.trans)]) = Request(c.trans[1])
  BY <1>2 DEF KeepsRequest
<1>4. Given(c) = c.trans[Len(c.trans)]
  BY <1>1 DEF Given
<1>5. c.trans[1] \in Payload
  <2>1. c.trans \in Seq(Payload)
    BY DEF GoodCall, CallRecord
  <2> QED  BY <1>2, <2>1, ElementOfSeq
<1> QED  BY <1>1, <1>3, <1>4, <1>5, ConversionKeeps

\* An adapter that forwards a call converts its payload.
LEMMA AdapterKeepsRequest ==
    ASSUME TypeOK, CallInv, NEW c \in GoodCall, KeepsRequest(c), AdapterCalls(c), ~Abort
    PROVE  \E d \in GoodCall : /\ Becomes(c, d) /\ SameCall(c, d) /\ KeepsRequest(d)
                               /\ ~c.served /\ d.served = c.served
                               /\ Here(d) = PortFor(Here(c), c.kind)[1]
<1>1. PICK d \in GoodCall :
        /\ Becomes(c, d)
        /\ d.from = c.from /\ d.kind = c.kind /\ d.served = c.served /\ d.ret = c.ret
        /\ d.route = Append(c.route, PortFor(Here(c), c.kind)[1])
        /\ PortFor(Here(c), c.kind)[1] \in Ends \cup {Clog}
        /\ d.trans = Append(c.trans, Convert(Given(c)))
  BY AdapterForwards
<1>2. PICK q \in Ends \cup {Clog} : q = PortFor(Here(c), c.kind)[1]
  BY <1>1
<1>3. /\ c.route \in Seq(Ends \cup {Clog}) /\ c.trans \in Seq(Payload)
      /\ Len(c.trans) = Len(c.route) /\ Len(c.route) \in Nat /\ Len(c.route) > 0
  BY GivenType DEF GoodCall, CallRecord
<1>4. d.route[1] = c.route[1] /\ Here(d) = q
  <2>1. /\ Len(d.route) = Len(c.route) + 1
        /\ \A n \in 1 .. Len(c.route) : d.route[n] = c.route[n]
        /\ d.route[Len(c.route) + 1] = q
    BY <1>1, <1>2, <1>3, AppendProperties
  <2> QED  BY <1>3, <2>1 DEF Here
<1>5. /\ Len(d.trans) = Len(c.trans) + 1
      /\ \A n \in 1 .. Len(c.trans) : d.trans[n] = c.trans[n]
      /\ d.trans[Len(c.trans) + 1] = Convert(Given(c))
  <2>1. Convert(Given(c)) \in Payload
    BY GivenType, PayloadIsConverted
  <2> QED  BY <1>1, <1>3, <2>1, AppendProperties
<1>6. d.trans[1] = c.trans[1]
  BY <1>3, <1>5
<1>7. \A n \in 1 .. Len(d.trans) : Request(d.trans[n]) = Request(d.trans[1])
  <2> TAKE n \in 1 .. Len(d.trans)
  <2>1. n \in 1 .. Len(c.trans) \/ n = Len(c.trans) + 1
    BY <1>3, <1>5
  <2> QED  BY <1>5, <1>6, <2>1, GivenAsksTheSame DEF KeepsRequest
<1>8. ~c.served
  BY DEF AdapterCalls
<1> QED  BY <1>1, <1>2, <1>4, <1>6, <1>7, <1>8 DEF SameCall, KeepsRequest

\* A callback changes the status and the DMI flag only.
LEMMA ServingKeepsRequest ==
    ASSUME CallInv, NEW c \in GoodCall, KeepsRequest(c),
           NEW answer \in [status : Status, dmi : BOOLEAN], Serve(c, answer)
    PROVE  \E d \in GoodCall : /\ Becomes(c, d) /\ SameCall(c, d) /\ KeepsRequest(d)
                               /\ ~c.served /\ d.served
<1>1. PICK d \in GoodCall :
        /\ Becomes(c, d)
        /\ d.from = c.from /\ d.kind = c.kind /\ d.route = c.route
        /\ d.served = TRUE /\ d.ret \in {"callback", "default"}
        /\ \/ d.trans = c.trans
           \/ /\ ~IsRange(Given(c))
              /\ \E status, dmi :
                   d.trans = [c.trans EXCEPT ![Len(c.trans)] =
                                 [Given(c) EXCEPT !.status = status, !.dmi = dmi]]
  BY Serves
<1>2. /\ c.trans \in Seq(Payload) /\ Len(c.trans) = Len(c.route) /\ Len(c.route) \in Nat
      /\ Len(c.route) > 0 /\ Given(c) \in Payload
  BY GivenType DEF GoodCall, CallRecord
<1>3. ~c.served
  BY DEF Serve
<1>4. CASE d.trans = c.trans
  BY <1>1, <1>3, <1>4 DEF SameCall, KeepsRequest
<1>5. ASSUME ~IsRange(Given(c)), NEW status, NEW dmi,
             d.trans = [c.trans EXCEPT ![Len(c.trans)] =
                           [Given(c) EXCEPT !.status = status, !.dmi = dmi]]
      PROVE  SameCall(c, d) /\ KeepsRequest(d)
  <2> DEFINE x == [Given(c) EXCEPT !.status = status, !.dmi = dmi]
  <2>1. Request(x) = Request(Given(c))
    <3>1. CASE Given(c) \in GenericPayload
      <4>1. /\ x.cmd = Given(c).cmd /\ x.data = Given(c).data /\ x.len = Given(c).len
            /\ ~IsRange(x)
        BY <3>1 DEF GenericPayload, IsRange
      <4> HIDE DEF x
      <4> QED  BY <1>5, <4>1 DEF Request
    <3>2. CASE Given(c) \in MappedPayload
      <4>1. /\ x.cmd = Given(c).cmd /\ x.data = Given(c).data /\ x.len = Given(c).len
            /\ ~IsRange(x)
        BY <3>2 DEF MappedPayload, IsRange
      <4> HIDE DEF x
      <4> QED  BY <1>5, <4>1 DEF Request
    <3> QED  BY <1>2, <1>5, <3>1, <3>2, PayloadCases
  <2> HIDE DEF x
  <2>2. /\ Len(d.trans) = Len(c.trans)
        /\ \A n \in 1 .. Len(c.trans) : d.trans[n] = IF n = Len(c.trans) THEN x ELSE c.trans[n]
    BY <1>2, <1>5 DEF x
  <2>3. \A n \in 1 .. Len(d.trans) : Request(d.trans[n]) = Request(c.trans[1])
    <3> TAKE n \in 1 .. Len(d.trans)
    <3>1. CASE n = Len(c.trans)
      BY <2>1, <2>2, <3>1, GivenAsksTheSame
    <3>2. CASE n # Len(c.trans)
      BY <2>2, <3>2 DEF KeepsRequest
    <3> QED  BY <3>1, <3>2
  <2>4. 1 \in 1 .. Len(d.trans)
    BY <1>2, <2>2
  <2> QED  BY <1>1, <2>3, <2>4 DEF SameCall, KeepsRequest
<1> QED  BY <1>1, <1>3, <1>4, <1>5

\* What an adapter gives back is what it was given.
LEMMA ReturningKeepsAnswer ==
    ASSUME CallInv, NEW c \in GoodCall, KeepsRequest(c), AdapterReturns(c)
    PROVE  \E d \in GoodCall : /\ Becomes(c, d) /\ SameCall(c, d) /\ KeepsRequest(d)
                               /\ c.served /\ d.served /\ d.ret = c.ret
                               /\ Request(Given(d)) = Request(Given(c))
                               /\ Result(Given(d), d.ret) = Result(Given(c), c.ret)
<1>1. PICK d \in GoodCall :
        /\ Becomes(c, d)
        /\ d.from = c.from /\ d.kind = c.kind /\ d.served = c.served /\ d.ret = c.ret
        /\ Len(d.route) = Len(c.route) - 1 /\ d.route[1] = c.route[1]
        /\ \A n \in 1 .. Len(c.route) - 2 : d.trans[n] = c.trans[n]
        /\ d.trans[Len(c.route) - 1] = Convert(Given(c))
  BY AdapterGoesBack
<1>2. /\ Len(c.trans) = Len(c.route) /\ Len(c.route) \in Nat /\ Len(c.route) > 1
      /\ Len(d.trans) = Len(d.route) /\ Given(c) \in Payload
  BY GivenType DEF AdapterReturns
<1>3. Given(d) = Convert(Given(c))
  BY <1>1, <1>2 DEF Given
<1>4. \A n \in 1 .. Len(d.trans) : Request(d.trans[n]) = Request(c.trans[1])
  <2> TAKE n \in 1 .. Len(d.trans)
  <2>1. n \in 1 .. Len(c.route) - 2 \/ n = Len(c.route) - 1
    BY <1>1, <1>2
  <2>2. n \in 1 .. Len(c.route) - 2 => n \in 1 .. Len(c.trans)
    BY <1>2
  <2> QED  BY <1>1, <2>1, <2>2, GivenAsksTheSame DEF KeepsRequest
<1>5. 1 \in 1 .. Len(d.trans)
  BY <1>1, <1>2
<1>6. SameCall(c, d) /\ KeepsRequest(d)
  BY <1>1, <1>4, <1>5 DEF SameCall, KeepsRequest
<1>7. c.served
  BY DEF AdapterReturns
<1>8. /\ Request(Given(d)) = Request(Given(c))
      /\ Result(Given(d), d.ret) = Result(Given(c), c.ret)
  BY <1>1, <1>2, <1>3, ConversionKeeps
<1> QED  BY <1>1, <1>6, <1>7, <1>8

\* Steps that make no call and do not go back to building.
LEMMA CallsStandStill ==
    ASSUME RequestInv, UNCHANGED <<stack, blocked>>,
           stage' \in {"building", "elaborating"} => stage \in {"building", "elaborating"}
    PROVE  RequestInv'
<1>1. Calls' = Calls
  BY DEF Calls
<1>2. OneCallEach'
  BY DEF RequestInv, OneCallEach
<1>3. stage' \in {"building", "elaborating"} => stack' = <<>> /\ blocked' = {}
  BY DEF RequestInv
<1> QED  BY <1>1, <1>2, <1>3 DEF RequestInv, KeepsRequest

\* A call that goes on leaves the others as they were.
LEMMA CallsAreReplaced ==
    ASSUME CallInv, RequestInv, NEW c \in Calls, NEW d, Becomes(c, d), SameCall(c, d), KeepsRequest(d),
           stage' = "running"
    PROVE  RequestInv'
<1>1. Calls' = (Calls \ {c}) \cup {d} /\ OneCallEach'
  BY CallGoesOn DEF RequestInv, SameCall
<1>2. \A e \in Calls' : KeepsRequest(e)
  BY <1>1 DEF RequestInv
<1> QED  BY <1>1, <1>2 DEF RequestInv, KeepsRequest

\* Every step of a running platform, one action after the other.
LEMMA RunKeepsRequests ==
    ASSUME TypeOK, CallInv, RequestInv, Run PROVE RequestInv'
<1>1. stage = "running"
  BY DEF Run
<1>2. ASSUME NEW b \in Bidirs, NEW n, Select(b, n) PROVE RequestInv'
  BY <1>1, <1>2, CallsStandStill DEF Select
<1>3. ASSUME Abort PROVE RequestInv'
  BY <1>1, <1>3, CallsStandStill DEF Abort, callVars
<1>4. ASSUME NEW s \in Sockets, NEW kind \in platform.kinds, NEW n \in 1 .. Len(PortFor(s, kind)),
             NEW p \in Arguments(s, kind), Call(s, n, kind, p)
      PROVE  RequestInv'
  <2> DEFINE c == [from |-> s, kind |-> kind, route |-> <<PortFor(s, kind)[n]>>,
                   trans |-> <<p>>, served |-> FALSE, ret |-> "none"]
  <2>1. stage' = "running"
    BY <1>1, <1>4 DEF Call
  <2>2. KeepsRequest(c)
    BY DEF KeepsRequest
  <2>3. Calls' = Calls \cup {c} /\ OneCallEach'
    BY <1>4, CallComes DEF RequestInv
  <2> HIDE DEF c
  <2>4. \A e \in Calls' : KeepsRequest(e)
    BY <2>2, <2>3 DEF RequestInv
  <2> QED  BY <2>1, <2>3, <2>4 DEF RequestInv, KeepsRequest
<1>5. ASSUME NEW c \in Calls, AdapterCalls(c) PROVE RequestInv'
  <2>1. CASE ~Abort
    <3>1. c \in GoodCall /\ KeepsRequest(c)
      BY CallsAreGood DEF RequestInv
    <3>2. PICK d \in GoodCall : Becomes(c, d) /\ SameCall(c, d) /\ KeepsRequest(d)
      BY <1>5, <2>1, <3>1, AdapterKeepsRequest
    <3>3. stage' = "running"
      BY <1>1, <1>5, <2>1 DEF AdapterCalls
    <3> QED  BY <3>2, <3>3, CallsAreReplaced
  <2> QED  BY <1>3, <2>1
<1>6. ASSUME NEW c \in Calls, AdapterReturns(c) PROVE RequestInv'
  <2>1. c \in GoodCall /\ KeepsRequest(c)
    BY CallsAreGood DEF RequestInv
  <2>2. PICK d \in GoodCall : Becomes(c, d) /\ SameCall(c, d) /\ KeepsRequest(d)
    BY <1>6, <2>1, ReturningKeepsAnswer
  <2>3. stage' = "running"
    BY <1>1, <1>6 DEF AdapterReturns
  <2> QED  BY <2>2, <2>3, CallsAreReplaced
<1>7. ASSUME NEW c \in Calls, CallReturns(c) PROVE RequestInv'
  <2>1. Calls' = Calls \ {c} /\ OneCallEach'
    BY <1>7, CallGoes DEF RequestInv
  <2>2. stage' = "running"
    BY <1>1, <1>7 DEF CallReturns
  <2> QED  BY <2>1, <2>2 DEF RequestInv, KeepsRequest
<1>8. ASSUME NEW c \in Calls, NEW a \in platform.answers, Serve(c, a) PROVE RequestInv'
  <2>1. a \in [status : Status, dmi : BOOLEAN]
    BY LinksAssumption DEF TypeOK, Platform
  <2>2. c \in GoodCall /\ KeepsRequest(c)
    BY CallsAreGood DEF RequestInv
  <2>3. PICK d \in GoodCall : Becomes(c, d) /\ SameCall(c, d) /\ KeepsRequest(d)
    BY <1>8, <2>1, <2>2, ServingKeepsRequest
  <2>4. stage' = "running"
    BY <1>1, <1>8 DEF Serve
  <2> QED  BY <2>3, <2>4, CallsAreReplaced
<1>9. ASSUME NEW b \in Bidirs, NEW kind, CallNobody(b, kind) PROVE RequestInv'
  BY <1>3, <1>9 DEF CallNobody
<1> QED  BY <1>2, <1>4, <1>5, <1>6, <1>7, <1>8, <1>9, Zenon DEF Run

\* While the platform is built and elaborated there are no calls to change.
LEMMA QuietSteps ==
    ASSUME Build \/ Elaborate
    PROVE  UNCHANGED <<stack, blocked>> /\ stage \in {"building", "elaborating"}
<1>1. CASE Build
  BY <1>1 DEF Build, BindInitiator, BindToGeneric, BindFromGeneric, BindBidirectional, Bind,
              BindFor, JoinGeneric, JoinGenericTarget, BindHierarchical, JoinInitiator,
              JoinTarget, Join, Offer, EndBuilding, Abort, callVars
<1>2. CASE Elaborate
  BY <1>2 DEF Elaborate, BeforeEndOfElaboration, EndElaboration, Abort, callVars
<1> QED  BY <1>1, <1>2

\* An end has one call at a time, and every payload on the way of a call, whatever
\* the conversions between, says the request that was made.
THEOREM RequestsAreKept == Spec => []RequestInv
<1>1. Init => RequestInv
  <2> SUFFICES ASSUME Init PROVE RequestInv
    OBVIOUS
  <2>1. Len(stack) = 0 /\ stack = <<>> /\ blocked = {}
    BY EmptySeq DEF Init
  <2> QED  BY <2>1 DEF RequestInv, OneCallEach, Calls
<1>2. ASSUME TypeOK, CallInv, RequestInv, [Next]_vars PROVE RequestInv'
  <2>1. CASE Build \/ Elaborate
    BY <1>2, <2>1, QuietSteps, CallsStandStill
  <2>2. CASE Run
    BY <1>2, <2>2, RunKeepsRequests
  <2>3. ASSUME NEW s \in Sockets, NEW kind \in platform.kinds, Register(s, kind) PROVE RequestInv'
    BY <1>2, <2>3, CallsStandStill DEF Register, callVars
  <2>4. CASE UNCHANGED vars
    BY <1>2, <2>4, CallsStandStill DEF vars, callVars
  <2> QED  BY <1>2, <2>1, <2>2, <2>3, <2>4, Zenon DEF Next
<1> QED  BY <1>1, <1>2, LinkTypes, PTL DEF Spec

-----------------------------------------------------------------------------
\* The way of a call.

\* A call that is not served goes where it went when it was made, and there it stays.
GoesOn(c) == LET d == Destination(c.route[1], c.kind) IN
             /\ Hop(d, c.kind) = d
             /\ ~c.served => Destination(Here(c), c.kind) = d
WayInv == \A c \in Calls : GoesOn(c)

\* The way of a call is told from the ports alone.
LEMMA WaysStay ==
    ASSUME UNCHANGED <<outs, backs>>
    PROVE  \A c : GoesOn(c)' <=> GoesOn(c)
BY DEF GoesOn, Destination, Hop, PortFor, Here

\* When it is made a call goes to a socket, to a plug, or to an adapter without peers,
\* none of which forwards it.
LEMMA CallsGoTheirWay ==
    ASSUME TypeOK, WorkInv, stage = "running",
           NEW s \in Sockets, NEW kind \in Kinds, NEW n \in 1 .. Len(PortFor(s, kind)), NEW p
    PROVE  GoesOn([from |-> s, kind |-> kind, route |-> <<PortFor(s, kind)[n]>>,
                   trans |-> <<p>>, served |-> FALSE, ret |-> "none"])
<1> DEFINE x == PortFor(s, kind)[n]
           d == Destination(x, kind)
<1>1. x \in PeersIn(PortFor(s, kind))
  BY DEF PeersIn
<1>2. d \in Sockets \cup {Clog} \/ (d \in Adapters /\ PortFor(d, kind) = <<>>)
  <2> HIDE DEF x
  <2> QED  BY <1>1, CallsAreLinked
<1>3. Hop(d, kind) = d
  <2> HIDE DEF d
  <2>1. CASE d \in Sockets \cup {Clog}
    BY <2>1, HopOfSocket
  <2>2. CASE d \in Adapters /\ PortFor(d, kind) = <<>>
    BY <2>2 DEF Hop
  <2> QED  BY <1>2, <2>1, <2>2
<1> QED  BY <1>3 DEF GoesOn, Here

\* The adapter's hop is the first one of those that are left.
LEMMA AdapterShowsTheWay ==
    ASSUME TypeOK, CallInv, NEW c \in GoodCall, GoesOn(c), AdapterCalls(c), ~Abort,
           NEW d, SameCall(c, d), d.served = c.served, Here(d) = PortFor(Here(c), c.kind)[1]
    PROVE  GoesOn(d)
<1> DEFINE k == c.kind
           e == Here(c)
           to == Destination(c.route[1], k)
<1>1. e \in Adapters /\ ~c.served /\ PortFor(e, k) # <<>>
  BY DEF AdapterCalls
<1>2. Here(d) = Hop(e, k)
  BY <1>1 DEF Hop
<1>3. Hop(to, k) = to /\ Hop(Hop(e, k), k) = to
  BY <1>1 DEF GoesOn, Destination
<1>4. Destination(Here(d), k) = to
  BY <1>2, <1>3 DEF Destination
<1> QED  BY <1>3, <1>4 DEF GoesOn, SameCall

\* On its way back a call's destination is told from where it began.
LEMMA ServedStaysThere ==
    ASSUME NEW c, GoesOn(c), NEW d, SameCall(c, d), d.served PROVE GoesOn(d)
BY DEF GoesOn, SameCall

\* A step brings at most one new call, or a call in a new state.
LEMMA WayOfTheNext ==
    ASSUME WayInv, UNCHANGED <<outs, backs>>, NEW c, NEW d, GoesOn(d), Calls' \subseteq Calls \cup {d}
    PROVE  WayInv'
<1>1. \A e \in Calls' : GoesOn(e)
  BY DEF WayInv
<1> QED  BY <1>1, WaysStay DEF WayInv

\* Every step of a running platform keeps the calls on their way.
LEMMA RunGoesTheWay ==
    ASSUME TypeOK, CallInv, RequestInv, WorkInv, WayInv, Run PROVE WayInv'
<1>1. stage = "running" /\ UNCHANGED <<outs, backs>>
  BY RunKeepsBindings DEF Run, bindVars
<1>2. ASSUME UNCHANGED <<stack, blocked>> PROVE WayInv'
  <2>1. Calls' = Calls
    BY <1>2 DEF Calls
  <2> QED  BY <1>1, <2>1, WaysStay DEF WayInv
<1>3. ASSUME NEW c \in Calls, NEW d, Becomes(c, d), SameCall(c, d), GoesOn(d) PROVE WayInv'
  <2>1. Calls' \subseteq Calls \cup {d}
    BY <1>3, CallGoesOn DEF RequestInv, SameCall
  <2> QED  BY <1>1, <1>3, <2>1, WayOfTheNext
<1>4. ASSUME NEW c \in Calls PROVE c \in GoodCall /\ KeepsRequest(c) /\ GoesOn(c)
  BY CallsAreGood DEF RequestInv, WayInv
<1>5. ASSUME NEW b \in Bidirs, NEW n, Select(b, n) PROVE WayInv'
  BY <1>2, <1>5 DEF Select
<1>6. ASSUME NEW s \in Sockets, NEW kind \in platform.kinds, NEW n \in 1 .. Len(PortFor(s, kind)),
             NEW p \in Arguments(s, kind), Call(s, n, kind, p)
      PROVE  WayInv'
  <2> DEFINE c == [from |-> s, kind |-> kind, route |-> <<PortFor(s, kind)[n]>>,
                   trans |-> <<p>>, served |-> FALSE, ret |-> "none"]
  <2>1. kind \in Kinds
    BY LinksAssumption DEF TypeOK, Platform
  <2>2. GoesOn(c)
    BY <1>1, <2>1, CallsGoTheirWay
  <2>3. Calls' \subseteq Calls \cup {c}
    BY <1>6, CallComes DEF RequestInv
  <2> HIDE DEF c
  <2> QED  BY <1>1, <2>2, <2>3, WayOfTheNext
<1>7. ASSUME NEW c \in Calls, AdapterCalls(c) PROVE WayInv'
  <2>1. CASE Abort
    BY <1>2, <2>1 DEF Abort, callVars
  <2>2. CASE ~Abort
    <3>1. PICK d \in GoodCall : /\ Becomes(c, d) /\ SameCall(c, d) /\ KeepsRequest(d)
                                /\ ~c.served /\ d.served = c.served
                                /\ Here(d) = PortFor(Here(c), c.kind)[1]
      BY <1>4, <1>7, <2>2, AdapterKeepsRequest
    <3>2. GoesOn(d)
      BY <1>4, <1>7, <2>2, <3>1, AdapterShowsTheWay
    <3> QED  BY <1>3, <3>1, <3>2
  <2> QED  BY <2>1, <2>2
<1>8. ASSUME NEW c \in Calls, AdapterReturns(c) PROVE WayInv'
  <2>1. PICK d \in GoodCall : Becomes(c, d) /\ SameCall(c, d) /\ d.served
    BY <1>4, <1>8, ReturningKeepsAnswer
  <2> QED  BY <1>3, <1>4, <2>1, ServedStaysThere
<1>9. ASSUME NEW c \in Calls, CallReturns(c) PROVE WayInv'
  <2>1. Calls' \subseteq Calls
    BY <1>9, CallGoes DEF RequestInv
  <2> QED  BY <1>1, <2>1, WaysStay DEF WayInv
<1>10. ASSUME NEW c \in Calls, NEW a \in platform.answers, Serve(c, a) PROVE WayInv'
  <2>1. a \in [status : Status, dmi : BOOLEAN]
    BY LinksAssumption DEF TypeOK, Platform
  <2>2. PICK d \in GoodCall : Becomes(c, d) /\ SameCall(c, d) /\ d.served
    BY <1>4, <1>10, <2>1, ServingKeepsRequest
  <2> QED  BY <1>3, <1>4, <2>2, ServedStaysThere
<1>11. ASSUME NEW b \in Bidirs, NEW kind, CallNobody(b, kind) PROVE WayInv'
  BY <1>2, <1>11 DEF CallNobody, Abort, callVars
<1> QED  BY <1>5, <1>6, <1>7, <1>8, <1>9, <1>10, <1>11, Zenon DEF Run

\* A call is served where it was going when it was made, whatever adapters are between:
\* at a socket it never goes any further, and each adapter forwards it one step of that way.
THEOREM WaysAreKept == Spec => []WayInv
<1>1. Init => WayInv
  <2> SUFFICES ASSUME Init PROVE WayInv
    OBVIOUS
  <2>1. Len(stack) = 0 /\ blocked = {}
    BY EmptySeq DEF Init
  <2> QED  BY <2>1 DEF WayInv, Calls
<1>2. ASSUME TypeOK, CallInv, RequestInv, WorkInv, WayInv, [Next]_vars PROVE WayInv'
  <2>1. CASE Build \/ Elaborate
    <3>1. UNCHANGED <<stack, blocked>> /\ stack = <<>> /\ blocked = {} /\ Len(<<>>) = 0
      BY <1>2, <2>1, QuietSteps, EmptySeq DEF RequestInv
    <3>2. Calls' = {}
      BY <3>1 DEF Calls
    <3> QED  BY <3>2 DEF WayInv
  <2>2. CASE Run
    BY <1>2, <2>2, RunGoesTheWay
  <2>3. ASSUME UNCHANGED <<outs, backs, stack, blocked>> PROVE WayInv'
    <3>1. Calls' = Calls
      BY <2>3 DEF Calls
    <3> QED  BY <1>2, <2>3, <3>1, WaysStay DEF WayInv
  <2>4. ASSUME NEW s \in Sockets, NEW kind \in platform.kinds, Register(s, kind) PROVE WayInv'
    BY <2>3, <2>4 DEF Register, bindVars, callVars
  <2>5. CASE UNCHANGED vars
    BY <2>3, <2>5 DEF vars, bindVars, callVars
  <2> QED  BY <1>2, <2>1, <2>2, <2>4, <2>5, Zenon DEF Next
<1> QED  BY <1>1, <1>2, LinkTypes, WorkInvariant, RequestsAreKept, PTL DEF Spec

-----------------------------------------------------------------------------
\* The call an end waits for, as the direct links see it.

\* What an end asks for, told from the end its call has reached first.
Asked(c) == [to |-> Destination(c.route[1], c.kind), kind |-> c.kind,
             request |-> Request(c.trans[1]), answer |-> AnswerTo(c)]

\* Both ways to tell where a call goes give the same.
LEMMA SeenAsAsked ==
    ASSUME NEW c, GoesOn(c) PROVE CallSeen(c) = Asked(c)
BY DEF CallSeen, Asked, GoesOn

\* An end has one call.
LEMMA OwnCall ==
    OneCallEach => \A c, d \in Calls : c.from = d.from => c = d
BY DEF OneCallEach, Calls

\* What an end waits for is its call, unless this one is lost.
LEMMA PendingCalls ==
    OneCallEach /\ WayInv =>
        /\ \A c \in Calls : c.from \in Sockets =>
             directPending[c.from] = IF Lost(c) THEN NoCall ELSE Asked(c)
        /\ \A s \in Sockets : (\A c \in Calls : c.from # s) => directPending[s] = NoCall
        /\ directPending = [s \in Sockets |-> directPending[s]]
<1> SUFFICES ASSUME OneCallEach, WayInv
             PROVE  /\ \A c \in Calls : c.from \in Sockets =>
                         directPending[c.from] = IF Lost(c) THEN NoCall ELSE Asked(c)
                    /\ \A s \in Sockets : (\A c \in Calls : c.from # s) => directPending[s] = NoCall
                    /\ directPending = [s \in Sockets |-> directPending[s]]
  OBVIOUS
<1>1. ASSUME NEW c \in Calls, NEW s \in Sockets, c.from = s
      PROVE  directPending[s] = IF Lost(c) THEN NoCall ELSE Asked(c)
  <2>1. \A e \in Calls : e.from = s => e = c
    BY <1>1, OwnCall
  <2>2. CallOf(s) = c
    BY <1>1, <2>1 DEF CallOf
  <2>3. (\A e \in Calls : e.from = s => Lost(e)) <=> Lost(c)
    BY <1>1, <2>1
  <2>4. CallSeen(c) = Asked(c)
    BY SeenAsAsked DEF WayInv
  <2> QED  BY <2>2, <2>3, <2>4 DEF directPending
<1>2. \A s \in Sockets : (\A c \in Calls : c.from # s) => directPending[s] = NoCall
  BY DEF directPending
<1>3. directPending = [s \in Sockets |-> directPending[s]]
  BY DEF directPending
<1> QED  BY <1>1, <1>2, <1>3

\* While the ports stay as they are, so does what is seen of a call.
LEMMA PendingAfterwards ==
    ASSUME OneCallEach', WayInv', UNCHANGED <<outs, backs, inner, wanted>>
    PROVE  /\ directLinks' = directLinks
           /\ \A c \in Calls' : c.from \in Sockets =>
                directPending'[c.from] = IF Lost(c) THEN NoCall ELSE Asked(c)
           /\ \A s \in Sockets : (\A c \in Calls' : c.from # s) => directPending'[s] = NoCall
           /\ directPending' = [s \in Sockets |-> directPending'[s]]
<1>1. (OneCallEach /\ WayInv =>
         /\ \A c \in Calls : c.from \in Sockets =>
              directPending[c.from] = IF Lost(c) THEN NoCall ELSE Asked(c)
         /\ \A s \in Sockets : (\A c \in Calls : c.from # s) => directPending[s] = NoCall
         /\ directPending = [s \in Sockets |-> directPending[s]])'
  BY PendingCalls, PTL
<1>2. \A e, kind : Destination(e, kind)' = Destination(e, kind)
  BY DEF Destination, Hop, PortFor
<1>3. Linked' = Linked /\ directLinks' = directLinks
  BY DEF Linked, Core, directLinks
<1>4. \A t : Behind(t)' <=> Behind(t)
  BY DEF Behind, AdaptersOf, Core, JoinedBackward
<1>5. \A c : (Lost(c)' <=> Lost(c)) /\ Asked(c)' = Asked(c)
  BY <1>2, <1>3, <1>4 DEF Lost, Asked, AnswerTo, Request, Result, Given
<1> QED  BY <1>1, <1>3, <1>5

\* An end whose call is the same waits for the same.
LEMMA OthersWait ==
    ASSUME OneCallEach, OneCallEach', WayInv, WayInv',
           UNCHANGED <<outs, backs, inner, wanted>>,
           NEW s \in Sockets, \A e : e.from = s => (e \in Calls <=> e \in Calls')
    PROVE  directPending'[s] = directPending[s]
<1>1. CASE \E c \in Calls : c.from = s
  <2>1. PICK c \in Calls : c.from = s
    BY <1>1
  <2>2. c \in Calls'
    BY <2>1
  <2>3. directPending[s] = (IF Lost(c) THEN NoCall ELSE Asked(c))
    BY <2>1, PendingCalls
  <2>4. directPending'[s] = (IF Lost(c) THEN NoCall ELSE Asked(c))
    BY <2>1, <2>2, PendingAfterwards
  <2> QED  BY <2>3, <2>4
<1>2. CASE \A c \in Calls : c.from # s
  BY <1>2, PendingCalls, PendingAfterwards
<1> QED  BY <1>1, <1>2

\* Only the end whose call comes, goes on or goes may see a difference.
LEMMA OneWaits ==
    ASSUME OneCallEach, OneCallEach', WayInv, WayInv',
           UNCHANGED <<outs, backs, inner, wanted>>,
           NEW s \in Sockets, \A e : e.from # s => (e \in Calls <=> e \in Calls')
    PROVE  /\ directPending' = [directPending EXCEPT ![s] = directPending'[s]]
           /\ UNCHANGED directLinks
<1>1. \A r \in Sockets : r # s => directPending'[r] = directPending[r]
  <2> TAKE r \in Sockets
  <2> HAVE r # s
  <2>1. \A e : e.from = r => (e \in Calls <=> e \in Calls')
    OBVIOUS
  <2> QED  BY <2>1, OthersWait
<1>2. /\ directPending' = [r \in Sockets |-> directPending'[r]]
      /\ directPending = [r \in Sockets |-> directPending[r]]
  BY PendingCalls, PendingAfterwards
<1>3. directPending' = [directPending EXCEPT ![s] = directPending'[s]]
  BY <1>1, <1>2
<1> QED  BY <1>3, PendingAfterwards

\* What is asked is neither of the values that stand for nothing.
LEMMA AskedType ==
    ASSUME TypeOK, NEW c \in GoodCall, KeepsRequest(c)
    PROVE  /\ Asked(c) \in [to : Ends \cup {Clog}, kind : Kinds, request : DirectRequests,
                               answer : DirectAnswers \cup {NoAnswer}]
           /\ c.served => AnswerTo(c) \in DirectAnswers
           /\ c.served => AnswerTo(c) \in [request : {Request(c.trans[1])}, result : DirectResults]
           /\ ~c.served => AnswerTo(c) = NoAnswer
<1>1. /\ c.from \in Sockets /\ c.kind \in Kinds /\ c.route \in Seq(Ends \cup {Clog})
      /\ c.ret \in {"none", "callback", "default"}
  BY DEF GoodCall, CallRecord
<1>2. Len(c.route) \in Nat /\ Len(c.route) > 0 /\ Given(c) \in Payload
  BY GivenType
<1>3. Destination(c.route[1], c.kind) \in Ends \cup {Clog}
  <2>1. 1 \in 1 .. Len(c.route)
    BY <1>2
  <2>2. c.route[1] \in Ends \cup {Clog}
    BY <1>1, <2>1, ElementOfSeq
  <2> QED  BY <2>2, DestinationType
<1>4. Request(c.trans[1]) \in DirectRequests /\ Request(Given(c)) = Request(c.trans[1])
  BY GivenAsksTheSame, RequestType
<1>5. ASSUME c.served
      PROVE  /\ AnswerTo(c) \in DirectAnswers
             /\ AnswerTo(c) \in [request : {Request(c.trans[1])}, result : DirectResults]
  <2>1. c.ret \in {"callback", "default"}
    BY <1>1, <1>5 DEF KeepsRequest
  <2>2. Result(Given(c), c.ret) \in DirectResults
    BY <1>2, <2>1, ResultType
  <2>3. AnswerTo(c) = [request |-> Request(Given(c)), result |-> Result(Given(c), c.ret)]
    BY <1>5 DEF AnswerTo
  <2> QED  BY <1>4, <2>2, <2>3 DEF DirectAnswers
<1>6. ~c.served => AnswerTo(c) = NoAnswer
  BY DEF AnswerTo
<1>7. AnswerTo(c) \in DirectAnswers \cup {NoAnswer}
  BY <1>5, <1>6
<1> QED  BY <1>1, <1>3, <1>4, <1>5, <1>6, <1>7 DEF Asked

-----------------------------------------------------------------------------
\* Every step of the sockets is one of the direct links, or none.

\* Only the answer of a call changes.
LEMMA SameCallAsked ==
    ASSUME NEW c, NEW d, SameCall(c, d)
    PROVE  /\ Lost(d) <=> Lost(c)
           /\ Asked(d) = [Asked(c) EXCEPT !.answer = AnswerTo(d)]
BY DEF SameCall, Lost, Asked

\* A call that goes on through the adapters is the same one, with the same answer.
LEMMA GoingOnIsUnseen ==
    ASSUME CallInv, RequestInv, WayInv, WayInv', NEW c \in Calls, NEW d, Becomes(c, d), SameCall(c, d),
           AnswerTo(d) = AnswerTo(c), UNCHANGED <<outs, backs, inner, wanted>>
    PROVE  UNCHANGED Direct!vars
<1>1. Calls' = (Calls \ {c}) \cup {d} /\ OneCallEach' /\ OneCallEach
  BY CallGoesOn DEF RequestInv, SameCall
<1>2. PICK s \in Sockets : s = c.from
  BY CallsAreGood DEF GoodCall, CallRecord
<1>3. d.from = s
  BY <1>2 DEF SameCall
<1>4. \A e : e.from # s => (e \in Calls <=> e \in Calls')
  BY <1>1, <1>2, <1>3
<1>5. /\ directPending' = [directPending EXCEPT ![s] = directPending'[s]]
      /\ UNCHANGED directLinks
  BY <1>1, <1>4, OneWaits
<1>6. directPending[s] = IF Lost(c) THEN NoCall ELSE Asked(c)
  BY <1>1, <1>2, PendingCalls
<1>7. directPending'[s] = IF Lost(d) THEN NoCall ELSE Asked(d)
  BY <1>1, <1>3, PendingAfterwards
<1>8. Asked(d) = Asked(c) /\ (Lost(d) <=> Lost(c))
  BY DEF Asked, Lost, SameCall
<1>9. directPending'[s] = directPending[s]
  BY <1>6, <1>7, <1>8
<1>10. directPending = [r \in Sockets |-> directPending[r]]
  BY <1>1, PendingCalls
<1>11. directPending' = directPending
  BY <1>5, <1>9, <1>10
<1> QED  BY <1>5, <1>11 DEF Direct!vars

\* A socket that serves a call answers it.
LEMMA ServingIsAnswer ==
    ASSUME TypeOK, CallInv, RequestInv, WayInv, WayInv', NEW c \in Calls, NEW d \in GoodCall, Becomes(c, d),
           SameCall(c, d), KeepsRequest(d), ~c.served, d.served,
           UNCHANGED <<outs, backs, inner, wanted>>
    PROVE  Direct!Next \/ UNCHANGED Direct!vars
<1>1. Calls' = (Calls \ {c}) \cup {d} /\ OneCallEach' /\ OneCallEach
  BY CallGoesOn DEF RequestInv, SameCall
<1>2. PICK s \in Sockets : s = c.from
  BY CallsAreGood DEF GoodCall, CallRecord
<1>3. d.from = s
  BY <1>2 DEF SameCall
<1>4. \A e : e.from # s => (e \in Calls <=> e \in Calls')
  BY <1>1, <1>2, <1>3
<1>5. /\ directPending' = [directPending EXCEPT ![s] = directPending'[s]]
      /\ UNCHANGED directLinks
  BY <1>1, <1>4, OneWaits
<1>6. directPending[s] = IF Lost(c) THEN NoCall ELSE Asked(c)
  BY <1>1, <1>2, PendingCalls
<1>7. directPending'[s] = IF Lost(d) THEN NoCall ELSE Asked(d)
  BY <1>1, <1>3, PendingAfterwards
<1>8. directPending = [r \in Sockets |-> directPending[r]]
  BY <1>1, PendingCalls
<1>9. CASE Lost(c)
  <2>1. directPending'[s] = directPending[s]
    BY <1>6, <1>7, <1>9, SameCallAsked
  <2>2. directPending' = directPending
    BY <1>5, <1>8, <2>1
  <2> QED  BY <1>5, <2>2 DEF Direct!vars
<1>10. CASE ~Lost(c)
  <2> DEFINE a == AnswerTo(d)
  <2>1. c \in GoodCall /\ KeepsRequest(c)
    BY CallsAreGood DEF RequestInv
  <2>2. directPending[s] = Asked(c) /\ directPending'[s] = [Asked(c) EXCEPT !.answer = a]
    BY <1>6, <1>7, <1>10, SameCallAsked
  <2>3. /\ Asked(c) # NoCall
        /\ Asked(c).answer = NoAnswer
        /\ Asked(c).request = Request(c.trans[1])
    <3>1. Asked(c) # NoCall
      BY <2>1, AskedType, DirectAssumption
    <3>2. Asked(c).answer = AnswerTo(c) /\ Asked(c).request = Request(c.trans[1])
      BY DEF Asked
    <3> QED  BY <2>1, <3>1, <3>2, AskedType
  <2>4. a \in [request : {Request(c.trans[1])}, result : DirectResults]
    BY AskedType DEF SameCall
  <2>5. directPending'[s].answer = a
    <3>1. [Asked(c) EXCEPT !.answer = a].answer = a
      BY DEF Asked
    <3> QED  BY <2>2, <3>1
  <2>6. directPending' = [directPending EXCEPT ![s].answer = a]
    BY <1>5, <1>8, <2>2
  <2> HIDE DEF a
  <2>7. Direct!Answer(s)
    BY <1>5, <2>2, <2>3, <2>4, <2>5, <2>6 DEF Direct!Answer
  <2> QED  BY <2>7 DEF Direct!Next
<1> QED  BY <1>9, <1>10

\* A call that returns to its socket ends there.
LEMMA ReturningIsEnd ==
    ASSUME TypeOK, CallInv, RequestInv, WayInv, WayInv', NEW c \in Calls, CallReturns(c),
           UNCHANGED <<outs, backs, inner, wanted>>
    PROVE  Direct!Next \/ UNCHANGED Direct!vars
<1>1. Calls' = Calls \ {c} /\ OneCallEach' /\ OneCallEach
  BY CallGoes DEF RequestInv
<1>2. PICK s \in Sockets : s = c.from
  BY CallsAreGood DEF GoodCall, CallRecord
<1>3. \A e : e.from # s => (e \in Calls <=> e \in Calls')
  BY <1>1, <1>2
<1>4. /\ directPending' = [directPending EXCEPT ![s] = directPending'[s]]
      /\ UNCHANGED directLinks
  BY <1>1, <1>3, OneWaits
<1>5. directPending[s] = IF Lost(c) THEN NoCall ELSE Asked(c)
  BY <1>1, <1>2, PendingCalls
<1>6. directPending'[s] = NoCall
  <2>1. \A e \in Calls' : e.from # s
    BY <1>1, <1>2, OwnCall
  <2> QED  BY <1>1, <2>1, PendingAfterwards
<1>7. directPending = [r \in Sockets |-> directPending[r]]
  BY <1>1, PendingCalls
<1>8. CASE Lost(c)
  <2>1. directPending' = directPending
    BY <1>4, <1>5, <1>6, <1>7, <1>8
  <2> QED  BY <1>4, <2>1 DEF Direct!vars
<1>9. CASE ~Lost(c)
  <2>1. c \in GoodCall /\ KeepsRequest(c) /\ c.served
    BY CallsAreGood DEF RequestInv, CallReturns
  <2>2. Asked(c) # NoCall
    BY <2>1, AskedType, DirectAssumption
  <2>3. Asked(c).answer # NoAnswer
    <3>1. Asked(c).answer = AnswerTo(c)
      BY DEF Asked
    <3> QED  BY <2>1, <3>1, AskedType, DirectAssumption
  <2>4. Direct!End(s)
    BY <1>4, <1>5, <1>6, <1>9, <2>2, <2>3 DEF Direct!End
  <2> QED  BY <2>4 DEF Direct!Next
<1> QED  BY <1>8, <1>9

\* A call that a socket makes is a request to the other end of one of its links.
LEMMA CallingIsRequest ==
    ASSUME TypeOK, CallInv, RequestInv, WorkInv, WayInv, WayInv', stage = "running",
           NEW s \in Sockets, NEW kind \in Kinds, NEW n \in 1 .. Len(PortFor(s, kind)),
           NEW p \in Payload, Call(s, n, kind, p), UNCHANGED <<outs, backs, inner, wanted>>
    PROVE  Direct!Next \/ UNCHANGED Direct!vars
<1> DEFINE c == [from |-> s, kind |-> kind, route |-> <<PortFor(s, kind)[n]>>,
                 trans |-> <<p>>, served |-> FALSE, ret |-> "none"]
           x == PortFor(s, kind)[n]
           to == Destination(x, kind)
<1>1. Calls' = Calls \cup {c} /\ OneCallEach' /\ OneCallEach
  BY CallComes DEF RequestInv
<1>2. \A e \in Calls : e.from # s
  BY DEF Call
<1>3. Asked(c) = [to |-> to, kind |-> kind, request |-> Request(p), answer |-> NoAnswer]
  BY DEF Asked, AnswerTo
<1>4. Lost(c) <=> \/ to \in Adapters
                  \/ to = Clog /\ \E w \in Linked : w[1] = s /\ Behind(w[2])
  BY DEF Lost
<1>5. c.from = s
  OBVIOUS
<1> HIDE DEF c
<1>6. \A e : e.from # s => (e \in Calls <=> e \in Calls')
  BY <1>1, <1>5
<1>7. /\ directPending' = [directPending EXCEPT ![s] = directPending'[s]]
      /\ UNCHANGED directLinks
  BY <1>1, <1>6, OneWaits
<1>8. directPending[s] = NoCall
  BY <1>1, <1>2, PendingCalls
<1>9. directPending'[s] = IF Lost(c) THEN NoCall ELSE Asked(c)
  BY <1>1, <1>5, PendingAfterwards
<1>10. directPending = [r \in Sockets |-> directPending[r]]
  BY <1>1, PendingCalls
<1>11. CASE Lost(c)
  <2>1. directPending' = directPending
    BY <1>7, <1>8, <1>9, <1>10, <1>11
  <2> QED  BY <1>7, <2>1 DEF Direct!vars
<1>12. CASE ~Lost(c)
  <2>1. x \in PeersIn(PortFor(s, kind))
    BY DEF PeersIn
  <2> HIDE DEF x
  <2>2. to \in Sockets /\ {<<s, to>>, <<to, s>>} \cap directLinks # {}
    BY <1>4, <1>12, <2>1, CallsAreLinked
  <2>3. Request(p) \in DirectRequests
    BY RequestType
  <2>4. directPending'[s] = Asked(c)
    BY <1>9, <1>12
  <2> HIDE DEF to
  <2>5. /\ Asked(c) \in [to : Sockets, kind : Kinds, request : DirectRequests, answer : {NoAnswer}]
        /\ Asked(c).to = to
    BY <1>3, <2>2, <2>3
  <2>6. Direct!Request(s)
    BY <1>7, <1>8, <2>2, <2>4, <2>5 DEF Direct!Request
  <2> QED  BY <2>6 DEF Direct!Next
<1> QED  BY <1>11, <1>12

\* A running platform: each action is the step its lemma names.
LEMMA RunIsDirect ==
    ASSUME TypeOK, CallInv, RequestInv, WorkInv, WayInv, WayInv', Run
    PROVE  Direct!Next \/ UNCHANGED Direct!vars
<1>1. stage = "running" /\ UNCHANGED <<outs, backs, inner, wanted>>
  BY RunKeepsBindings DEF Run, bindVars
<1>2. ASSUME UNCHANGED <<stack, blocked>> PROVE UNCHANGED Direct!vars
  <2>1. Calls' = Calls /\ OneCallEach /\ OneCallEach'
    BY <1>2 DEF Calls, RequestInv, OneCallEach
  <2>2. \A s \in Sockets : directPending'[s] = directPending[s]
    BY <1>1, <2>1, OthersWait
  <2>3. /\ directPending' = [s \in Sockets |-> directPending'[s]]
        /\ directPending = [s \in Sockets |-> directPending[s]]
        /\ directLinks' = directLinks
    BY <1>1, <2>1, PendingCalls, PendingAfterwards
  <2> QED  BY <2>2, <2>3 DEF Direct!vars
<1>3. ASSUME NEW b \in Bidirs, NEW n, Select(b, n) PROVE UNCHANGED Direct!vars
  BY <1>2, <1>3 DEF Select
<1>4. ASSUME NEW s \in Sockets, NEW kind \in platform.kinds, NEW n \in 1 .. Len(PortFor(s, kind)),
             NEW p \in Arguments(s, kind), Call(s, n, kind, p)
      PROVE  Direct!Next \/ UNCHANGED Direct!vars
  <2>1. p \in Payload
    <3>1. [range : Words] \subseteq Payload
      BY DEF Payload
    <3> QED  BY <3>1, NewPayloadType DEF Arguments
  <2>2. kind \in Kinds
    BY LinksAssumption DEF TypeOK, Platform
  <2> QED  BY <1>1, <1>4, <2>1, <2>2, CallingIsRequest
<1>5. ASSUME NEW c \in Calls PROVE c \in GoodCall /\ KeepsRequest(c)
  BY CallsAreGood DEF RequestInv
<1>6. ASSUME NEW c \in Calls, AdapterCalls(c) PROVE UNCHANGED Direct!vars
  <2>1. CASE Abort
    BY <1>2, <2>1 DEF Abort, callVars
  <2>2. CASE ~Abort
    <3>1. PICK d \in GoodCall : /\ Becomes(c, d) /\ SameCall(c, d) /\ KeepsRequest(d)
                                /\ ~c.served /\ d.served = c.served
      BY <1>5, <1>6, <2>2, AdapterKeepsRequest
    <3>2. AnswerTo(d) = AnswerTo(c)
      BY <3>1 DEF AnswerTo
    <3> QED  BY <1>1, <3>1, <3>2, GoingOnIsUnseen
  <2> QED  BY <2>1, <2>2
<1>7. ASSUME NEW c \in Calls, AdapterReturns(c) PROVE UNCHANGED Direct!vars
  <2>1. PICK d \in GoodCall : /\ Becomes(c, d) /\ SameCall(c, d) /\ KeepsRequest(d)
                              /\ c.served /\ d.served /\ d.ret = c.ret
                              /\ Request(Given(d)) = Request(Given(c))
                              /\ Result(Given(d), d.ret) = Result(Given(c), c.ret)
    BY <1>5, <1>7, ReturningKeepsAnswer
  <2>2. AnswerTo(d) = AnswerTo(c)
    BY <2>1 DEF AnswerTo
  <2> QED  BY <1>1, <2>1, <2>2, GoingOnIsUnseen
<1>8. ASSUME NEW c \in Calls, CallReturns(c) PROVE Direct!Next \/ UNCHANGED Direct!vars
  BY <1>1, <1>8, ReturningIsEnd
<1>9. ASSUME NEW c \in Calls, NEW a \in platform.answers, Serve(c, a)
      PROVE  Direct!Next \/ UNCHANGED Direct!vars
  <2>1. a \in [status : Status, dmi : BOOLEAN]
    BY LinksAssumption DEF TypeOK, Platform
  <2>2. PICK d \in GoodCall : /\ Becomes(c, d) /\ SameCall(c, d) /\ KeepsRequest(d)
                              /\ ~c.served /\ d.served
    BY <1>5, <1>9, <2>1, ServingKeepsRequest
  <2> QED  BY <1>1, <2>2, ServingIsAnswer
<1>10. ASSUME NEW b \in Bidirs, NEW kind, CallNobody(b, kind) PROVE UNCHANGED Direct!vars
  BY <1>2, <1>10 DEF CallNobody, Abort, callVars
<1> QED  BY <1>3, <1>4, <1>6, <1>7, <1>8, <1>9, <1>10, Zenon DEF Run

\* While the platform is built and elaborated, the links are.
LEMMA BuildingIsRebuild ==
    ASSUME RequestInv, UNCHANGED <<stack, blocked>>, stage \in {"building", "elaborating"},
           (TypeOK /\ JoinsInv)'
    PROVE  Direct!Next
<1>1. stack = <<>> /\ blocked = {} /\ Len(stack) = 0
  BY EmptySeq DEF RequestInv
<1>2. Calls = {} /\ Calls' = {}
  BY <1>1 DEF Calls
<1>3. /\ directPending = [s \in Sockets |-> NoCall]
      /\ directPending' = [s \in Sockets |-> NoCall]
  BY <1>2 DEF directPending
<1>4. directLinks' \subseteq Sockets \X Sockets
  <2>1. TypeOK /\ JoinsInv => directLinks \subseteq Sockets \X Sockets
    BY DirectLinksType
  <2>2. (TypeOK /\ JoinsInv => directLinks \subseteq Sockets \X Sockets)'
    BY <2>1, DirectLinksType, PTL
  <2> QED  BY <2>2
<1> QED  BY <1>3, <1>4 DEF Direct!Next, Direct!Rebuild

\* The sockets between two modules, with whatever adapters, conversions and sockets
\* around are between them, are as good as direct links: on every platform, a call
\* arrives where the author has linked its socket, with the request that was made,
\* and the one answer given there is what comes back.
THEOREM LinksAreDirect == Spec => DirectSpec
<1>1. ASSUME Init PROVE Direct!Init
  <2>1. Len(stack) = 0 /\ stack = <<>> /\ blocked = {} /\ wanted = {}
    BY <1>1, EmptySeq DEF Init
  <2>2. Calls = {}
    BY <2>1 DEF Calls
  <2>3. directLinks = {}
    BY <2>1 DEF directLinks, Linked
  <2>4. directPending = [s \in Sockets |-> NoCall]
    BY <2>2 DEF directPending
  <2> QED  BY <2>3, <2>4 DEF Direct!Init
<1>2. ASSUME TypeOK, CallInv, RequestInv, WorkInv, WayInv, (TypeOK /\ WorkInv /\ WayInv)', [Next]_vars
      PROVE  [Direct!Next]_(Direct!vars)
  <2>1. CASE Build \/ Elaborate
    <3>1. (TypeOK /\ JoinsInv)'
      BY <1>2 DEF WorkInv
    <3> QED  BY <1>2, <2>1, <3>1, QuietSteps, BuildingIsRebuild
  <2>2. CASE Run
    BY <1>2, <2>2, RunIsDirect
  <2>3. ASSUME UNCHANGED <<outs, backs, inner, wanted, stack, blocked>>
        PROVE  UNCHANGED Direct!vars
    <3>1. Calls' = Calls /\ OneCallEach /\ OneCallEach' /\ WayInv /\ WayInv'
      BY <1>2, <2>3 DEF Calls, RequestInv, OneCallEach
    <3>2. \A s \in Sockets : directPending'[s] = directPending[s]
      BY <2>3, <3>1, OthersWait
    <3>3. /\ directPending' = [s \in Sockets |-> directPending'[s]]
          /\ directPending = [s \in Sockets |-> directPending[s]]
          /\ directLinks' = directLinks
      BY <2>3, <3>1, PendingCalls, PendingAfterwards
    <3> QED  BY <3>2, <3>3 DEF Direct!vars
  <2>4. ASSUME NEW s \in Sockets, NEW kind \in platform.kinds, Register(s, kind)
        PROVE  UNCHANGED Direct!vars
    BY <2>3, <2>4 DEF Register, bindVars, callVars
  <2>5. CASE UNCHANGED vars
    BY <2>3, <2>5 DEF vars, bindVars, callVars
  <2> QED  BY <1>2, <2>1, <2>2, <2>4, <2>5, Zenon DEF Next
<1> QED  BY <1>1, <1>2, LinkTypes, WorkInvariant, RequestsAreKept, WaysAreKept, PTL
         DEF Spec, DirectSpec, Direct!Spec
=============================================================================
