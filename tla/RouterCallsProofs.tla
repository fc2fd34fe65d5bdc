--------------------------- MODULE RouterCallsProofs ---------------------------
(***************************************************************************)
(* Theorems about the calls that go through a GenericRouter: which target  *)
(* sees them and with what address, what initiators may access directly,   *)
(* and that initiators and targets agree on their exchanges, so that the   *)
(* router implements Interconnect.  For any platform, address width and    *)
(* number of sockets and payloads.                                         *)
(***************************************************************************)
EXTENDS GenericRouterProofs

-----------------------------------------------------------------------------
\* Addresses of nested calls.  Every forwarded call of a payload subtracts the
\* address of its target's location, whatever the calls outside it have done.

Carries(f, x) == f.trans = x /\ f.iface # "nb_transport_bw"

\* The address of x inside call f and, on its return, outside it.
Inside(rel, f, x, a)  == IF rel /\ Carries(f, x) THEN (a - f.base) % AddrMod ELSE a
Outside(rel, f, x, a) == IF rel /\ Carries(f, x) THEN (a + f.base) % AddrMod ELSE a

\* w lists the addresses of x from the innermost call of stack s outwards: it
\* starts with the address x carries and is the one its owner wrote, own, where
\* no call of x is left outside.
Trail(rel, s, x, a, own, w) ==
    /\ w \in [1 .. Len(s) + 1 -> Address]
    /\ w[1] = a
    /\ \A k \in 1 .. Len(s) : w[k] = Inside(rel, s[k], x, w[k + 1])
    /\ \A k \in 1 .. Len(s) + 1 :
         (\A j \in k .. Len(s) : ~Carries(s[j], x)) => w[k] = own

Nested(rel, s, x, a, own) ==
    \E w \in [1 .. Len(s) + 1 -> Address] : Trail(rel, s, x, a, own, w)

\* The two offsets undo each other, wrapping included.
LEMMA OffsetInverse ==
  ASSUME NEW a \in Address, NEW b \in Address
  PROVE  (((a - b) % AddrMod) + b) % AddrMod = a
<1>1. AddrMod \in Nat \ {0} /\ a \in 0 .. AddrMod - 1 /\ b \in 0 .. AddrMod - 1
  BY WidthAssumption DEF Address
<1>2. CASE b <= a
  <2>1. (a - b) % AddrMod = a - b
    BY <1>1, <1>2, NoOverflow
  <2> QED BY <1>1, <2>1, NoOverflow
<1>3. CASE a < b
  <2>1. (a - b) % AddrMod = a - b + AddrMod
    BY <1>1, <1>3
  <2>2. (a + AddrMod) % AddrMod = a
    BY <1>1
  <2> QED BY <1>1, <2>1, <2>2
<1> QED BY <1>1, <1>2, <1>3

LEMMA InsideOutside ==
  ASSUME NEW rel, NEW f \in Frame, NEW x, NEW a \in Address
  PROVE  /\ Inside(rel, f, x, a) \in Address
         /\ Outside(rel, f, x, Inside(rel, f, x, a)) = a
<1>1. f.base \in Address
  BY DEF Frame
<1>2. (a - f.base) % AddrMod \in Address
  BY <1>1, WidthAssumption DEF Address
<1>3. (((a - f.base) % AddrMod) + f.base) % AddrMod = a
  BY <1>1, OffsetInverse
<1> QED BY <1>2, <1>3 DEF Inside, Outside

\* Outside every call a payload carries what its owner wrote.
LEMMA NestedEmpty ==
  ASSUME NEW rel, NEW x, NEW a \in Address
  PROVE  Nested(rel, <<>>, x, a, a)
<1> DEFINE w == [k \in 1 .. 1 |-> a]
<1>1. w \in [1 .. 1 -> Address] /\ w[1] = a /\ Len(<<>>) = 0
  OBVIOUS
<1>2. Trail(rel, <<>>, x, a, a, w)
  BY <1>1 DEF Trail
<1> HIDE DEF w
<1> QED BY <1>1, <1>2 DEF Nested

\* A call is forwarded, or an answer made.
LEMMA NestedPush ==
  ASSUME NEW rel, NEW s \in Seq(Frame), NEW f \in Frame, NEW x,
         NEW a \in Address, NEW own, Nested(rel, s, x, a, own)
  PROVE  Nested(rel, <<f>> \o s, x, Inside(rel, f, x, a), own)
<1> DEFINE s1 == <<f>> \o s
<1>1. /\ s1 \in Seq(Frame) /\ Len(s1) = Len(s) + 1 /\ s1[1] = f
      /\ \A k \in 2 .. Len(s) + 1 : s1[k] = s[k - 1]
  BY PushType
<1>2. PICK w \in [1 .. Len(s) + 1 -> Address] : Trail(rel, s, x, a, own, w)
  BY DEF Nested
<1> DEFINE v == [k \in 1 .. Len(s) + 2 |-> IF k = 1 THEN Inside(rel, f, x, a) ELSE w[k - 1]]
<1>3. Len(s) \in Nat
  OBVIOUS
<1>4. \A k \in 2 .. Len(s) + 2 : k - 1 \in 1 .. Len(s) + 1 /\ v[k] = w[k - 1]
  BY <1>3
<1>5. v[1] = Inside(rel, f, x, a)
  BY <1>3
<1>6. v \in [1 .. Len(s) + 2 -> Address]
  BY <1>3, <1>4, <1>5, InsideOutside
<1> HIDE DEF s1, v
<1>7. \A k \in 1 .. Len(s) + 1 : v[k] = Inside(rel, s1[k], x, v[k + 1])
  <2> TAKE k \in 1 .. Len(s) + 1
  <2>1. CASE k = 1
    BY <1>1, <1>2, <1>3, <1>4, <1>5, <2>1 DEF Trail
  <2>2. CASE k # 1
    <3>1. k \in 2 .. Len(s) + 1 /\ k - 1 \in 1 .. Len(s) /\ k + 1 \in 2 .. Len(s) + 2
      BY <1>3, <2>2
    <3>2. v[k] = w[k - 1] /\ v[k + 1] = w[k] /\ s1[k] = s[k - 1]
      BY <1>1, <1>3, <1>4, <3>1
    <3>3. w[k - 1] = Inside(rel, s[k - 1], x, w[(k - 1) + 1])
      BY <1>2, <3>1 DEF Trail
    <3>4. (k - 1) + 1 = k
      BY <1>3
    <3> QED BY <3>2, <3>3, <3>4
  <2> QED BY <2>1, <2>2
<1>8. ASSUME NEW k \in 1 .. Len(s) + 2, \A j \in k .. Len(s) + 1 : ~Carries(s1[j], x)
      PROVE  v[k] = own
  <2>1. ASSUME NEW i \in 1 .. Len(s) + 1, i >= k - 1 PROVE w[i] = own
    <3>1. \A j \in i .. Len(s) : j + 1 \in k .. Len(s) + 1 /\ j + 1 \in 2 .. Len(s) + 1 /\ (j + 1) - 1 = j
      BY <1>3, <2>1
    <3>2. \A j \in i .. Len(s) : ~Carries(s[j], x)
      BY <1>1, <1>8, <3>1
    <3> QED BY <1>2, <3>2 DEF Trail
  <2>2. CASE k = 1
    <3>1. ~Carries(f, x)
      BY <1>1, <1>3, <1>8, <2>2
    <3>2. w[1] = own /\ w[1] = a
      BY <1>2, <1>3, <2>1, <2>2 DEF Trail
    <3> QED BY <1>5, <2>2, <3>1, <3>2 DEF Inside
  <2>3. CASE k # 1
    BY <1>3, <1>4, <2>1, <2>3
  <2> QED BY <2>2, <2>3
<1>9. Len(s1) = Len(s) + 1 /\ Len(s1) + 1 = Len(s) + 2
  BY <1>1, <1>3
<1>10. Trail(rel, s1, x, Inside(rel, f, x, a), own, v)
  BY <1>5, <1>6, <1>7, <1>8, <1>9 DEF Trail
<1> QED BY <1>6, <1>9, <1>10 DEF Nested, s1

\* A call returns: the handler adds the offset again.
LEMMA NestedPop ==
  ASSUME NEW rel, NEW s \in Seq(Frame), s # <<>>, NEW x,
         NEW a \in Address, NEW own, Nested(rel, s, x, a, own)
  PROVE  Nested(rel, Tail(s), x, Outside(rel, Head(s), x, a), own)
<1> DEFINE t == Tail(s)
<1>1. /\ Head(s) \in Frame /\ Head(s) = s[1] /\ t \in Seq(Frame)
      /\ 1 \in 1 .. Len(s) /\ Len(t) = Len(s) - 1
      /\ \A k \in 1 .. Len(s) - 1 : t[k] = s[k + 1]
  BY PopType
<1>2. PICK w \in [1 .. Len(s) + 1 -> Address] : Trail(rel, s, x, a, own, w)
  BY DEF Nested
<1> DEFINE v == [k \in 1 .. Len(s) |-> w[k + 1]]
<1>3. Len(s) \in Nat
  OBVIOUS
<1>4. \A k \in 1 .. Len(s) : k + 1 \in 1 .. Len(s) + 1 /\ v[k] = w[k + 1] /\ w[k + 1] \in Address
  BY <1>2, <1>3 DEF Trail
<1>5. v \in [1 .. Len(s) -> Address]
  BY <1>4
<1> HIDE DEF t, v
<1>6. v[1] = Outside(rel, Head(s), x, a)
  <2>1. a = Inside(rel, s[1], x, v[1]) /\ v[1] \in Address
    BY <1>1, <1>2, <1>4 DEF Trail
  <2> QED BY <1>1, <2>1, InsideOutside
<1>7. \A k \in 1 .. Len(s) - 1 : v[k] = Inside(rel, t[k], x, v[k + 1])
  <2> TAKE k \in 1 .. Len(s) - 1
  <2>1. k \in 1 .. Len(s) /\ k + 1 \in 1 .. Len(s)
    BY <1>3
  <2>2. w[k + 1] = Inside(rel, s[k + 1], x, w[(k + 1) + 1])
    BY <1>2, <2>1 DEF Trail
  <2> QED BY <1>1, <1>4, <2>1, <2>2
<1>8. ASSUME NEW k \in 1 .. Len(s), \A j \in k .. Len(s) - 1 : ~Carries(t[j], x)
      PROVE  v[k] = own
  <2>1. \A j \in k + 1 .. Len(s) : j - 1 \in k .. Len(s) - 1 /\ j - 1 \in 1 .. Len(s) - 1 /\ (j - 1) + 1 = j
    BY <1>3
  <2>2. \A j \in k + 1 .. Len(s) : ~Carries(s[j], x)
    BY <1>1, <1>8, <2>1
  <2>3. w[k + 1] = own
    BY <1>2, <1>4, <2>2 DEF Trail
  <2> QED BY <1>4, <2>3
<1>9. Len(t) + 1 = Len(s) /\ Len(t) = Len(s) - 1
  BY <1>1, <1>3
<1>10. Trail(rel, t, x, Outside(rel, Head(s), x, a), own, v)
  BY <1>5, <1>6, <1>7, <1>8, <1>9 DEF Trail
<1> QED BY <1>5, <1>9, <1>10 DEF Nested, t

\* Without a call of x on the stack x carries what its owner wrote.
LEMMA NestedOutsideAll ==
  ASSUME NEW rel, NEW s \in Seq(Frame), NEW x, NEW a, NEW own, Nested(rel, s, x, a, own),
         \A k \in 1 .. Len(s) : ~Carries(s[k], x)
  PROVE  a = own
<1>1. PICK w : Trail(rel, s, x, a, own, w)
  BY DEF Nested
<1> QED BY <1>1 DEF Trail

-----------------------------------------------------------------------------
\* The inductive invariant of the calls.

\* A blocked call is one of b_transport, and those on the stack are not.
KindInv ==
    /\ \A k \in 1 .. Len(stack) : stack[k].iface # "b_transport"
    /\ \A f \in blocked : f.iface = "b_transport"

\* A payload that waits in a target is in no other call and no exchange.
BlockedInv ==
    \A f \in blocked :
        /\ phase[f.trans] = "idle" /\ view[f.trans] = "idle"
        /\ addr[f.trans] = ToTarget(asked[f.trans], f.base)
        /\ \A g \in Calls : g.trans = f.trans => g = f

\* The router adds the address of the target's location when the call returns.
FrameInv ==
    \A f \in ForwardCalls :
        /\ location[f.target] # NoLocation
        /\ f.base = location[f.target].addr

NestInv ==
    \A x \in Transactions :
        (\A f \in blocked : f.trans # x) =>
            Nested(config.relative, stack, x, addr[x], asked[x])

\* A target holds an exchange from its request to its end, and the address of
\* the request is in its location.
HolderInv ==
    \A x \in Transactions :
        /\ holder[x] = NoOne <=> phase[x] = "idle"
        /\ holder[x] # NoOne =>
              /\ [loc |-> location[holder[x]], target |-> holder[x]] \in map
              /\ asked[x] \in Extent(location[holder[x]])

\* What does not hold for nested offsets: an address the router does not
\* translate stays, and one it translates has one call to see it.
AbsoluteInv == ~config.relative => addr = asked

StackInv ==
    ~config.reentrant =>
        /\ Len(stack) <= 2
        /\ Len(stack) = 2 => stack[1].iface = "nb_transport_bw"

ServiceInv ==
    NoNestedOffset => \A f \in ForwardCalls : asked[f.trans] \in Extent(location[f.target])

CallsInv == /\ KindInv /\ BlockedInv /\ FrameInv /\ NestInv /\ HolderInv
            /\ AbsoluteInv /\ StackInv /\ ServiceInv

\* Owners and targets, unless targets are shared: the table names the one owner
\* whose exchanges a target holds.
ViewInv ==
    NoNestedOffset /\ ~config.shared =>
        /\ view = phase
        /\ \A x \in Transactions : holder[x] # NoOne => latest[holder[x]] = Owner[x]

\* What initiators hold was lent by its target, which has a location.
DmiInv ==
    \A g \in grants :
        /\ location[g.from] # NoLocation
        /\ {g.lo, g.hi} \subseteq Extent(location[g.from])
        /\ g.lo <= g.hi
        /\ ~config.relative => [lo |-> g.lo, hi |-> g.hi] \in lent[g.from]

-----------------------------------------------------------------------------
\* What the steps of the proof have in common.

\* getOutputSocketMapIterator(): the entry found is that of a bound target whose
\* location holds the address, and there is no other.
LEMMA FindFacts ==
  ASSUME TypeOK, MapInv, LoopInv, NEW a \in Address, NEW e \in Find(a)
  PROVE  /\ e \in map /\ e \in Entry /\ e.loc.addr \in Address
         /\ e.target \in Targets /\ e.target # NoOne
         /\ e = [loc |-> location[e.target], target |-> e.target]
         /\ location[e.target] # NoLocation
         /\ a \in Extent(location[e.target])
<1>1. e \in map /\ e \in Entry /\ Equivalent(e.loc, Point(a))
  BY DEF Find, TypeOK
<1>2. PICK i \in 1 .. next - 1 : e = [loc |-> location[outputs[i]], target |-> outputs[i]]
  BY <1>1 DEF MapInv
<1>3. location[outputs[i]] # NoLocation /\ outputs[i] \in Targets
  BY <1>1, <1>2 DEF MapInv, Entry
<1>4. e.target = outputs[i] /\ e.loc = location[outputs[i]]
  BY <1>2
<1>5. e.loc \in LocationType /\ Fits(e.loc)
  BY <1>3, <1>4, LocationOfOutput
<1>6. a \in Extent(e.loc)
  BY <1>1, <1>5, PointLookup
<1> QED BY <1>1, <1>2, <1>3, <1>4, <1>5, <1>6, RouterAssumption DEF LocationType

\* The locations in the map are apart.
LEMMA EntryFound ==
  ASSUME TypeOK, MapInv, LoopInv, NEW a \in Address, NEW t \in Targets,
         [loc |-> location[t], target |-> t] \in map, a \in Extent(location[t])
  PROVE  /\ [loc |-> location[t], target |-> t] \in Find(a)
         /\ \A e \in Find(a) : e.target = t
<1> DEFINE d == [loc |-> location[t], target |-> t]
<1>1. PICK i \in 1 .. next - 1 : d = [loc |-> location[outputs[i]], target |-> outputs[i]]
  BY DEF MapInv
<1>2. outputs[i] = t /\ location[t] # NoLocation
  BY <1>1 DEF MapInv
<1>3. location[t] \in LocationType /\ Fits(location[t])
  BY <1>2, LocationOfOutput
<1>4. d \in Find(a)
  BY <1>3, PointLookup DEF Find
<1>5. ASSUME NEW e \in Find(a) PROVE e.target = t
  <2>1. PICK j \in 1 .. next - 1 : e = [loc |-> location[outputs[j]], target |-> outputs[j]]
    BY DEF MapInv, Find
  <2>2. a \in Extent(location[outputs[j]])
    BY <1>5, <2>1, FindFacts
  <2>3. Overlap(location[outputs[i]], location[outputs[j]])
    BY <1>2, <2>2 DEF Overlap
  <2>4. i = j
    BY <2>3 DEF MapInv
  <2> QED BY <1>2, <2>1, <2>4
<1> QED BY <1>4, <1>5

LEMMA CallsType ==
  ASSUME TypeOK, NEW f \in Calls
  PROVE  /\ f \in Frame /\ f.trans \in Transactions /\ f.init \in Initiators
         /\ f.target \in Targets /\ f.base \in Address
<1>1. f \in Frame
  <2>1. stack \in Seq(Frame) /\ blocked \subseteq Frame
    BY DEF TypeOK
  <2> QED BY <2>1 DEF Calls
<1> QED BY <1>1 DEF Frame

LEMMA CallsPush ==
  ASSUME TypeOK, NEW f \in Frame, stack' = <<f>> \o stack, blocked' = blocked
  PROVE  Calls' = Calls \cup {f}
<1>1. /\ Len(stack') = Len(stack) + 1 /\ stack'[1] = f /\ Len(stack) \in Nat
      /\ \A k \in 2 .. Len(stack) + 1 : stack'[k] = stack[k - 1]
  BY PushType DEF TypeOK
<1>2. ASSUME NEW g \in Calls' PROVE g \in Calls \cup {f}
  <2>1. CASE g \in blocked
    BY <2>1 DEF Calls
  <2>2. ASSUME NEW k \in 1 .. Len(stack'), g = stack'[k] PROVE g \in Calls \cup {f}
    <3>1. k = 1 \/ (k \in 2 .. Len(stack) + 1 /\ k - 1 \in 1 .. Len(stack))
      BY <1>1
    <3> QED BY <1>1, <2>2, <3>1 DEF Calls
  <2> QED BY <2>1, <2>2 DEF Calls
<1>3. ASSUME NEW g \in Calls PROVE g \in Calls'
  <2>1. ASSUME NEW k \in 1 .. Len(stack), g = stack[k] PROVE g \in Calls'
    <3>1. k + 1 \in 2 .. Len(stack) + 1 /\ k + 1 \in 1 .. Len(stack') /\ (k + 1) - 1 = k
      BY <1>1
    <3>2. stack'[k + 1] = g
      BY <1>1, <2>1, <3>1
    <3> QED BY <3>1, <3>2 DEF Calls
  <2> QED BY <2>1 DEF Calls
<1>4. f \in Calls'
  BY <1>1 DEF Calls
<1> QED BY <1>2, <1>3, <1>4

LEMMA CallsPop ==
  ASSUME TypeOK, stack # <<>>, stack' = Tail(stack), blocked' = blocked
  PROVE  /\ Calls' \subseteq Calls
         /\ Head(stack) \in Calls /\ Head(stack) \in Frame
         /\ \A k \in 1 .. Len(stack') : stack'[k] \in {stack[j] : j \in 1 .. Len(stack)}
<1>1. /\ Head(stack) = stack[1] /\ 1 \in 1 .. Len(stack) /\ Head(stack) \in Frame
      /\ Len(stack') = Len(stack) - 1 /\ Len(stack) \in Nat
      /\ \A k \in 1 .. Len(stack) - 1 : stack'[k] = stack[k + 1]
  BY PopType DEF TypeOK
<1>2. \A k \in 1 .. Len(stack') : k + 1 \in 1 .. Len(stack) /\ stack'[k] = stack[k + 1]
  BY <1>1
<1> QED BY <1>1, <1>2 DEF Calls

\* What the handlers do to an address, in the terms of Nested.
LEMMA OffsetIsInside ==
  ASSUME NEW f, NEW x, NEW a
  PROVE  /\ Carries(f, x) => /\ ToTarget(a, f.base) = Inside(config.relative, f, x, a)
                             /\ FromTarget(a, f.base) = Outside(config.relative, f, x, a)
         /\ ~Carries(f, x) => /\ a = Inside(config.relative, f, x, a)
                              /\ a = Outside(config.relative, f, x, a)
BY DEF ToTarget, FromTarget, Inside, Outside

\* A call is made: b holds the addresses before its offset.
LEMMA NestPushStep ==
  ASSUME TypeOK, NEW f \in Frame, NEW b \in [Transactions -> Address],
         stack' = <<f>> \o stack, config' = config, blocked' = blocked,
         \A x \in Transactions : (\A g \in blocked : g.trans # x) =>
            /\ Nested(config.relative, stack, x, b[x], asked'[x])
            /\ addr'[x] = Inside(config.relative, f, x, b[x])
  PROVE  NestInv'
<1>1. stack \in Seq(Frame)
  BY DEF TypeOK
<1>2. ASSUME NEW x \in Transactions, \A g \in blocked : g.trans # x
      PROVE  Nested(config.relative, stack', x, addr'[x], asked'[x])
  BY <1>1, <1>2, NestedPush
<1> QED BY <1>2 DEF NestInv

LEMMA NestPopStep ==
  ASSUME TypeOK, NestInv, stack # <<>>, stack' = Tail(stack),
         config' = config, blocked' = blocked, asked' = asked,
         \A x \in Transactions : (\A g \in blocked : g.trans # x) =>
            addr'[x] = Outside(config.relative, Head(stack), x, addr[x])
  PROVE  NestInv'
<1>1. stack \in Seq(Frame) /\ addr \in [Transactions -> Address]
  BY DEF TypeOK
<1>2. ASSUME NEW x \in Transactions, \A g \in blocked : g.trans # x
      PROVE  Nested(config.relative, stack', x, addr'[x], asked'[x])
  <2>1. Nested(config.relative, stack, x, addr[x], asked[x])
    BY <1>2 DEF NestInv
  <2> QED BY <1>1, <1>2, <2>1, NestedPop
<1> QED BY <1>2 DEF NestInv

-----------------------------------------------------------------------------
\* The invariant of the calls holds in every state, one lemma for each kind of
\* step.

LEMMA InitCalls == Init => CallsInv /\ ViewInv /\ DmiInv
<1> SUFFICES ASSUME Init PROVE CallsInv /\ ViewInv /\ DmiInv
  OBVIOUS
<1>1. stack = <<>> /\ Len(stack) = 0 /\ blocked = {} /\ Calls = {} /\ ForwardCalls = {}
  BY DEF Init, Calls, ForwardCalls
<1>2. \A x \in Transactions : /\ addr[x] = 0 /\ asked[x] = 0 /\ holder[x] = NoOne
                              /\ phase[x] = "idle" /\ view[x] = "idle"
  BY DEF Init
<1>3. 0 \in Address
  BY WidthAssumption DEF Address
<1>4. NestInv
  BY <1>1, <1>2, <1>3, NestedEmpty DEF NestInv
<1>5. KindInv /\ BlockedInv /\ FrameInv /\ StackInv /\ ServiceInv
  BY <1>1 DEF KindInv, BlockedInv, FrameInv, StackInv, ServiceInv
<1>6. HolderInv /\ AbsoluteInv
  BY <1>2 DEF Init, HolderInv, AbsoluteInv
<1>7. ViewInv /\ DmiInv
  BY <1>2 DEF Init, ViewInv, DmiInv
<1> QED BY <1>4, <1>5, <1>6, <1>7 DEF CallsInv

\* Elaboration, invalidations and stuttering leave calls and exchanges alone.
LEMMA QuietCalls ==
  ASSUME CallsInv, UNCHANGED <<config, location, addr, asked, stack, blocked, phase, view, holder>>,
         map \subseteq map'
  PROVE  CallsInv'
<1>1. Calls' = Calls /\ ForwardCalls' = ForwardCalls
  BY DEF Calls, ForwardCalls
<1>2. KindInv' /\ FrameInv' /\ NestInv' /\ AbsoluteInv' /\ StackInv'
  BY <1>1 DEF CallsInv, KindInv, FrameInv, NestInv, AbsoluteInv, StackInv
<1>3. BlockedInv'
  BY <1>1 DEF CallsInv, BlockedInv, ToTarget
<1>4. HolderInv'
  BY DEF CallsInv, HolderInv
<1>5. ServiceInv'
  BY <1>1 DEF CallsInv, ServiceInv, NoNestedOffset
<1> QED BY <1>2, <1>3, <1>4, <1>5 DEF CallsInv

\* A payload that is free is in no call and no exchange.
LEMMA FreeFacts ==
  ASSUME CallsInv, NEW x \in Transactions, Free(x)
  PROVE  /\ holder[x] = NoOne /\ phase[x] = "idle" /\ view[x] = "idle"
         /\ \A f \in Calls : f.trans # x
         /\ \A f \in blocked : f.trans # x
BY DEF CallsInv, HolderInv, Free, Calls

\* A call to an address that no target has.
LEMMA UnmappedCalls ==
  ASSUME TypeOK, CallsInv, NEW x \in Transactions, NEW a \in Address, NEW iface,
         StartCall(iface, x, a), ReturnUnmapped(x, a)
  PROVE  CallsInv'
<1>1. /\ stack = <<>> /\ asked' = [asked EXCEPT ![x] = a] /\ addr' = [addr EXCEPT ![x] = a]
      /\ UNCHANGED <<config, location, map, stack, blocked, phase, view, holder>>
  BY DEF StartCall, ReturnUnmapped, SetPayloadAddress, elabVars, tableVars, callVars, nbVars
<1>2. holder[x] = NoOne /\ \A f \in Calls : f.trans # x /\ f.trans \in Transactions
  BY FreeFacts DEF StartCall, TypeOK, Calls, Frame
<1>3. Calls' = Calls /\ ForwardCalls' = ForwardCalls /\ ForwardCalls \subseteq Calls /\ blocked \subseteq Calls
  BY <1>1 DEF Calls, ForwardCalls
<1>4. /\ addr'[x] = a /\ asked'[x] = a
      /\ \A y \in Transactions \ {x} : addr'[y] = addr[y] /\ asked'[y] = asked[y]
  BY <1>1 DEF TypeOK
<1>5. KindInv' /\ FrameInv' /\ StackInv'
  BY <1>1, <1>3 DEF CallsInv, KindInv, FrameInv, StackInv
<1>6. BlockedInv'
  BY <1>1, <1>2, <1>3, <1>4 DEF CallsInv, BlockedInv, ToTarget
<1>7. NestInv'
  BY <1>1, <1>4, NestedEmpty DEF CallsInv, NestInv
<1>8. HolderInv'
  BY <1>1, <1>2, <1>4 DEF CallsInv, HolderInv
<1>9. AbsoluteInv'
  BY <1>1 DEF CallsInv, AbsoluteInv
<1>10. ServiceInv'
  BY <1>1, <1>2, <1>3, <1>4 DEF CallsInv, ServiceInv, NoNestedOffset
<1> QED BY <1>5, <1>6, <1>7, <1>8, <1>9, <1>10 DEF CallsInv

\* A b_transport that a target takes, and its return.
LEMMA BTransportCalls ==
  ASSUME TypeOK, RouterInv, CallsInv, NEW x \in Transactions, NEW a \in Address, NEW e \in Find(a),
         StartCall("b_transport", x, a), SetPayloadAddress(x, ToTarget(a, e.loc.addr)),
         blocked' = blocked \cup {FrameOf("b_transport", x, e)},
         UNCHANGED <<config, location, map, stack, phase, view, holder>>
  PROVE  CallsInv'
<1> DEFINE f == FrameOf("b_transport", x, e)
<1>1. /\ f.iface = "b_transport" /\ f.trans = x /\ f.target = e.target /\ f.base = e.loc.addr
      /\ f.base = location[f.target].addr /\ location[f.target] # NoLocation
      /\ a \in Extent(location[f.target])
  BY FindFacts DEF FrameOf, RouterInv
<1>2. /\ stack = <<>> /\ asked' = [asked EXCEPT ![x] = a]
      /\ addr' = [addr EXCEPT ![x] = ToTarget(a, f.base)]
      /\ blocked' = blocked \cup {f}
  BY <1>1 DEF StartCall, SetPayloadAddress
<1> HIDE DEF f
<1>3. /\ holder[x] = NoOne /\ phase[x] = "idle" /\ view[x] = "idle"
      /\ \A g \in Calls : g.trans # x /\ g.trans \in Transactions
  BY FreeFacts DEF StartCall, TypeOK, Calls, Frame
<1>4. /\ Calls' = Calls \cup {f} /\ ForwardCalls' = ForwardCalls \cup {f}
      /\ ForwardCalls \subseteq Calls /\ blocked \subseteq Calls
  BY <1>1, <1>2 DEF Calls, ForwardCalls
<1>5. /\ addr'[x] = ToTarget(a, f.base) /\ asked'[x] = a
      /\ \A y \in Transactions \ {x} : addr'[y] = addr[y] /\ asked'[y] = asked[y]
  BY <1>2 DEF TypeOK
<1>6. KindInv' /\ FrameInv' /\ StackInv'
  BY <1>1, <1>2, <1>4 DEF CallsInv, KindInv, FrameInv, StackInv
<1>7. BlockedInv'
  BY <1>1, <1>2, <1>3, <1>4, <1>5 DEF CallsInv, BlockedInv, ToTarget
<1>8. NestInv'
  BY <1>1, <1>2, <1>5 DEF CallsInv, NestInv
<1>9. HolderInv'
  BY <1>3, <1>5 DEF CallsInv, HolderInv
<1>10. AbsoluteInv'
  BY <1>2 DEF CallsInv, AbsoluteInv, ToTarget
<1>11. ServiceInv'
  BY <1>1, <1>3, <1>4, <1>5 DEF CallsInv, ServiceInv, NoNestedOffset
<1> QED BY <1>6, <1>7, <1>8, <1>9, <1>10, <1>11 DEF CallsInv

LEMMA BTransportReturnCalls ==
  ASSUME TypeOK, CallsInv, NEW f \in blocked, BTransportReturn(f)
  PROVE  CallsInv'
<1> DEFINE x == f.trans
<1>1. /\ stack = <<>> /\ addr' = [addr EXCEPT ![x] = FromTarget(addr[x], f.base)]
      /\ blocked' = blocked \ {f}
      /\ UNCHANGED <<config, location, map, asked, stack, phase, view, holder>>
  BY DEF BTransportReturn, SetPayloadAddress, elabVars, tableVars, nbVars
<1>2. x \in Transactions /\ f.base \in Address /\ asked[x] \in Address
  BY DEF TypeOK, Frame
<1>3. /\ addr[x] = ToTarget(asked[x], f.base)
      /\ \A g \in Calls : g.trans = x => g = f
  BY DEF CallsInv, BlockedInv
<1>4. addr'[x] = asked[x]
  BY <1>1, <1>2, <1>3, OffsetInverse DEF TypeOK, ToTarget, FromTarget
<1>5. Calls' \subseteq Calls /\ ForwardCalls' \subseteq ForwardCalls /\ blocked' \subseteq blocked
  BY <1>1 DEF Calls, ForwardCalls
<1>6. \A g \in blocked' : g.trans # x
  BY <1>1, <1>3 DEF Calls
<1>7. \A y \in Transactions : y # x => addr'[y] = addr[y]
  BY <1>1 DEF TypeOK
<1>8. KindInv' /\ FrameInv' /\ StackInv'
  BY <1>1, <1>5 DEF CallsInv, KindInv, FrameInv, StackInv
<1>9. BlockedInv'
  <2>1. ASSUME NEW g \in blocked' PROVE addr'[g.trans] = addr[g.trans]
    BY <1>5, <1>6, <1>7, <2>1 DEF TypeOK, Frame
  <2> QED BY <1>1, <1>5, <2>1 DEF CallsInv, BlockedInv, ToTarget
<1>10. NestInv'
  <2>1. ASSUME NEW y \in Transactions, \A g \in blocked' : g.trans # y
        PROVE  Nested(config.relative, <<>>, y, addr'[y], asked[y])
    <3>1. CASE y = x
      BY <1>2, <1>4, <3>1, NestedEmpty
    <3>2. CASE y # x
      BY <1>1, <1>7, <2>1, <3>2 DEF CallsInv, NestInv
    <3> QED BY <3>1, <3>2
  <2> QED BY <1>1, <2>1 DEF NestInv
<1>11. HolderInv'
  BY <1>1 DEF CallsInv, HolderInv
<1>12. AbsoluteInv'
  BY <1>1 DEF CallsInv, AbsoluteInv, FromTarget, TypeOK
<1>13. ServiceInv'
  BY <1>1, <1>5 DEF CallsInv, ServiceInv, NoNestedOffset
<1> QED BY <1>8, <1>9, <1>10, <1>11, <1>12, <1>13 DEF CallsInv

\* A request that is forwarded by a call that may not wait.
LEMMA RequestCalls ==
  ASSUME TypeOK, RouterInv, CallsInv, NEW x \in Transactions, NEW a \in Address, NEW e \in Find(a),
         NEW iface \in AllInterfaces \ {"b_transport"},
         StartCall(iface, x, a), SetPayloadAddress(x, ToTarget(a, e.loc.addr)),
         stack' = <<FrameOf(iface, x, e)>> \o stack,
         UNCHANGED <<config, location, map, blocked>>,
         \/ UNCHANGED <<phase, view, holder>>
         \/ /\ phase' = [phase EXCEPT ![x] = "begin_req"]
            /\ view' = [view EXCEPT ![x] = "begin_req"]
            /\ holder' = [holder EXCEPT ![x] = e.target]
  PROVE  CallsInv'
<1> DEFINE f == FrameOf(iface, x, e)
<1>1. /\ f.iface = iface /\ f.trans = x /\ f.target = e.target /\ f.base = e.loc.addr
      /\ f.base = location[e.target].addr /\ location[e.target] # NoLocation
      /\ a \in Extent(location[e.target]) /\ f \in Frame
      /\ [loc |-> location[e.target], target |-> e.target] \in map
      /\ e.target \in Targets /\ e.target # NoOne
      /\ iface # "nb_transport_bw" /\ iface # "b_transport"
  BY FindFacts, FrameType DEF FrameOf, RouterInv, AllInterfaces
<1>2. /\ stack = <<>> /\ asked' = [asked EXCEPT ![x] = a]
      /\ addr' = [addr EXCEPT ![x] = ToTarget(a, f.base)]
      /\ stack' = <<f>> \o stack
  BY <1>1 DEF StartCall, SetPayloadAddress
<1> HIDE DEF f
<1>3. /\ holder[x] = NoOne /\ phase[x] = "idle" /\ view[x] = "idle"
      /\ \A g \in Calls : g.trans # x /\ g.trans \in Transactions
      /\ \A g \in blocked : g.trans # x
  BY FreeFacts DEF StartCall, TypeOK, Calls, Frame
<1>4. Calls' = Calls \cup {f}
  BY <1>1, <1>2, CallsPush
<1>5. /\ ForwardCalls' = ForwardCalls \cup {f}
      /\ ForwardCalls \subseteq Calls /\ blocked \subseteq Calls
  BY <1>1, <1>4 DEF Calls, ForwardCalls
<1>6. /\ addr'[x] = ToTarget(a, f.base) /\ asked'[x] = a
      /\ \A y \in Transactions \ {x} : addr'[y] = addr[y] /\ asked'[y] = asked[y]
  BY <1>2 DEF TypeOK
<1>7. stack' = <<f>> /\ Len(stack') = 1 /\ stack'[1] = f
  BY <1>1, <1>2
<1>8. KindInv' /\ FrameInv' /\ StackInv'
  BY <1>1, <1>5, <1>7 DEF CallsInv, KindInv, FrameInv, StackInv
<1>9. BlockedInv'
  <2> SUFFICES ASSUME NEW g \in blocked
               PROVE  /\ phase'[g.trans] = "idle" /\ view'[g.trans] = "idle"
                      /\ addr'[g.trans] = ToTarget(asked'[g.trans], g.base)
                      /\ \A h \in Calls' : h.trans = g.trans => h = g
    BY DEF BlockedInv, ToTarget
  <2>1. g.trans # x /\ g.trans \in Transactions /\ g \in Calls
    BY <1>3, <1>5
  <2>2. phase'[g.trans] = phase[g.trans] /\ view'[g.trans] = view[g.trans]
    BY <2>1 DEF TypeOK
  <2> QED BY <1>1, <1>4, <1>6, <2>1, <2>2 DEF CallsInv, BlockedInv
<1>10. NestInv'
  <2> DEFINE b == [addr EXCEPT ![x] = a]
  <2>1. b \in [Transactions -> Address] /\ b[x] = a /\ \A y \in Transactions \ {x} : b[y] = addr[y]
    BY DEF TypeOK
  <2> HIDE DEF b
  <2>2. ASSUME NEW y \in Transactions, \A g \in blocked : g.trans # y
        PROVE  /\ Nested(config.relative, stack, y, b[y], asked'[y])
               /\ addr'[y] = Inside(config.relative, f, y, b[y])
    <3>1. CASE y = x
      <4>1. Carries(f, x)
        BY <1>1 DEF Carries
      <4> QED BY <1>2, <1>6, <2>1, <3>1, <4>1, NestedEmpty, OffsetIsInside
    <3>2. CASE y # x
      <4>1. ~Carries(f, y)
        BY <1>1, <3>2 DEF Carries
      <4> QED BY <1>6, <2>1, <2>2, <3>2, <4>1, OffsetIsInside DEF CallsInv, NestInv
    <3> QED BY <3>1, <3>2
  <2> QED BY <1>1, <1>2, <2>1, <2>2, NestPushStep
<1>11. HolderInv'
  <2>1. ASSUME NEW y \in Transactions, y # x
        PROVE  holder'[y] = holder[y] /\ phase'[y] = phase[y] /\ asked'[y] = asked[y]
    BY <1>6, <2>1 DEF TypeOK
  <2>2. \/ holder'[x] = NoOne /\ phase'[x] = "idle"
        \/ holder'[x] = e.target /\ phase'[x] = "begin_req"
    BY <1>3 DEF TypeOK
  <2> QED BY <1>1, <1>6, <2>1, <2>2 DEF CallsInv, HolderInv
<1>12. AbsoluteInv'
  BY <1>2 DEF CallsInv, AbsoluteInv, ToTarget
<1>13. ServiceInv'
  BY <1>1, <1>3, <1>5, <1>6 DEF CallsInv, ServiceInv, NoNestedOffset
<1> QED BY <1>8, <1>9, <1>10, <1>11, <1>12, <1>13 DEF CallsInv

\* An END_RESP, from a process or from inside an answer.  An owner that answers
\* from a process gives the payload back as it wrote it.
LEMMA EndRespAddress ==
  ASSUME TypeOK, CallsInv, NEW x \in Transactions, view[x] # "idle", InitiatorRuns(Owner[x]),
         NoNestedOffset
  PROVE  addr[x] = asked[x]
<1>1. CASE ~config.relative
  BY <1>1 DEF CallsInv, AbsoluteInv
<1>2. CASE ~config.reentrant
  <2>1. stack = <<>> /\ Len(stack) = 0
    BY <1>2 DEF InitiatorRuns
  <2>2. \A f \in blocked : f.trans # x
    BY DEF CallsInv, BlockedInv
  <2>3. Nested(config.relative, <<>>, x, addr[x], asked[x])
    BY <2>1, <2>2 DEF CallsInv, NestInv
  <2>4. <<>> \in Seq(Frame) /\ \A k \in 1 .. Len(<<>>) : ~Carries((<<>>)[k], x)
    OBVIOUS
  <2> QED BY <2>3, <2>4, NestedOutsideAll
<1> QED BY <1>1, <1>2 DEF NoNestedOffset

LEMMA EndRespCalls ==
  ASSUME TypeOK, RouterInv, CallsInv, NEW x \in Transactions, EndResp(x)
  PROVE  CallsInv'
<1>1. /\ view[x] = "begin_resp" /\ view' = [view EXCEPT ![x] = "idle"]
      /\ InitiatorRuns(Owner[x]) /\ addr[x] \in Address
      /\ UNCHANGED <<config, location, map, asked, blocked>>
  BY DEF EndResp, tableVars, TypeOK
<1>2. \A g \in blocked : g.trans # x /\ g.trans \in Transactions
  BY <1>1 DEF CallsInv, BlockedInv, TypeOK, Frame
<1>3. \A g \in blocked : view'[g.trans] = "idle"
  BY <1>1, <1>2 DEF CallsInv, BlockedInv, TypeOK
<1>4. CASE UNCHANGED <<stage, addr, stack, latest, phase, holder>>
  <2>1. Calls' = Calls /\ ForwardCalls' = ForwardCalls
    BY <1>1, <1>4 DEF Calls, ForwardCalls
  <2>2. KindInv' /\ FrameInv' /\ NestInv' /\ AbsoluteInv' /\ StackInv'
    BY <1>1, <1>4, <2>1 DEF CallsInv, KindInv, FrameInv, NestInv, AbsoluteInv, StackInv
  <2>3. BlockedInv'
    BY <1>1, <1>3, <1>4, <2>1 DEF CallsInv, BlockedInv, ToTarget
  <2>4. HolderInv' /\ ServiceInv'
    BY <1>1, <1>4, <2>1 DEF CallsInv, HolderInv, ServiceInv, NoNestedOffset
  <2> QED BY <2>2, <2>3, <2>4 DEF CallsInv
<1>5. CASE ~UNCHANGED <<stage, addr, stack, latest, phase, holder>>
  <2>1. PICK e \in Find(addr[x]) :
          /\ ForwardNB(x, addr[x], e)
          /\ \/ /\ phase' = [phase EXCEPT ![x] = "idle"]
                /\ holder' = [holder EXCEPT ![x] = NoOne]
             \/ UNCHANGED <<phase, holder>>
    BY <1>5 DEF EndResp
  <2> DEFINE f == FrameOf("nb_transport", x, e)
  <2>2. /\ f.iface = "nb_transport" /\ f.trans = x /\ f.target = e.target /\ f.base = e.loc.addr
        /\ f.base = location[e.target].addr /\ location[e.target] # NoLocation
        /\ addr[x] \in Extent(location[e.target]) /\ f \in Frame
    BY <1>1, FindFacts, FrameType DEF FrameOf, RouterInv, AllInterfaces
  <2>3. /\ stack' = <<f>> \o stack
        /\ addr' = [addr EXCEPT ![x] = ToTarget(addr[x], f.base)]
    BY <2>1, <2>2 DEF ForwardNB, SetPayloadAddress
  <2> HIDE DEF f
  <2>4. Calls' = Calls \cup {f}
    BY <1>1, <2>2, <2>3, CallsPush
  <2>5. ForwardCalls' = ForwardCalls \cup {f} /\ ForwardCalls \subseteq Calls
    BY <2>2, <2>4 DEF ForwardCalls
  <2>6. /\ addr'[x] = ToTarget(addr[x], f.base)
        /\ \A y \in Transactions \ {x} : addr'[y] = addr[y]
    BY <2>3 DEF TypeOK
  <2>7. /\ Len(stack') = Len(stack) + 1 /\ stack'[1] = f /\ Len(stack) \in Nat
        /\ \A k \in 2 .. Len(stack) + 1 : stack'[k] = stack[k - 1]
    BY <2>2, <2>3, PushType DEF TypeOK
  <2>8. KindInv'
    <3>1. \A k \in 1 .. Len(stack') : k = 1 \/ (k \in 2 .. Len(stack) + 1 /\ k - 1 \in 1 .. Len(stack))
      BY <2>7
    <3> QED BY <1>1, <2>2, <2>7, <3>1 DEF CallsInv, KindInv
  <2>9. FrameInv'
    BY <1>1, <2>2, <2>5 DEF CallsInv, FrameInv
  <2>10. StackInv'
    <3>1. config.reentrant \/ Len(stack) = 0
      BY <1>1 DEF InitiatorRuns, TypeOK
    <3> QED BY <1>1, <2>7, <3>1 DEF StackInv
  <2>11. BlockedInv'
    <3>1. ASSUME NEW g \in blocked
          PROVE  phase'[g.trans] = "idle" /\ addr'[g.trans] = addr[g.trans]
      BY <1>2, <2>1, <2>6 DEF CallsInv, BlockedInv, TypeOK
    <3> QED BY <1>1, <1>2, <1>3, <2>2, <2>4, <3>1 DEF CallsInv, BlockedInv, ToTarget
  <2>12. NestInv'
    <3>1. ASSUME NEW y \in Transactions, \A g \in blocked : g.trans # y
          PROVE  /\ Nested(config.relative, stack, y, addr[y], asked'[y])
                 /\ addr'[y] = Inside(config.relative, f, y, addr[y])
      <4>1. Carries(f, y) <=> y = x
        BY <2>2 DEF Carries
      <4> QED BY <1>1, <2>6, <3>1, <4>1, OffsetIsInside DEF CallsInv, NestInv
    <3>2. addr \in [Transactions -> Address]
      BY DEF TypeOK
    <3> QED BY <1>1, <2>2, <2>3, <3>1, <3>2, NestPushStep
  <2>13. HolderInv'
    BY <1>1, <2>1 DEF CallsInv, HolderInv, TypeOK
  <2>14. AbsoluteInv'
    BY <1>1, <2>3 DEF CallsInv, AbsoluteInv, ToTarget, TypeOK
  <2>15. ServiceInv'
    <3>1. NoNestedOffset => asked[x] \in Extent(location[e.target])
      BY <1>1, <2>2, EndRespAddress
    <3> QED BY <1>1, <2>2, <2>5, <3>1 DEF CallsInv, ServiceInv, NoNestedOffset
  <2> QED BY <2>8, <2>9, <2>10, <2>11, <2>12, <2>13, <2>14, <2>15 DEF CallsInv
<1> QED BY <1>4, <1>5

\* A forward call returns: the target's answer, if there is one, moves the
\* exchange on.
LEMMA PopCalls ==
  ASSUME TypeOK, CallsInv, stack # <<>>, Head(stack).iface # "nb_transport_bw", PopCall,
         UNCHANGED <<config, location, map, asked, blocked>>,
         \/ UNCHANGED <<phase, view, holder>>
         \/ \E ph \in {"idle", "end_req", "begin_resp"} :
              LET x == Head(stack).trans IN
              /\ phase[x] = "begin_req"
              /\ phase' = [phase EXCEPT ![x] = ph]
              /\ view' = [view EXCEPT ![x] = ph]
              /\ holder' = IF ph = "idle" THEN [holder EXCEPT ![x] = NoOne] ELSE holder
  PROVE  CallsInv'
<1> DEFINE f == Head(stack)
           x == f.trans
<1>1. /\ stack' = Tail(stack)
      /\ addr' = [addr EXCEPT ![x] = FromTarget(addr[x], f.base)]
  BY DEF PopCall, SetPayloadAddress
<1>2. /\ Calls' \subseteq Calls /\ f \in Calls /\ f \in Frame
      /\ \A k \in 1 .. Len(stack') : stack'[k] \in {stack[j] : j \in 1 .. Len(stack)}
  BY <1>1, CallsPop
<1>3. /\ f = stack[1] /\ 1 \in 1 .. Len(stack) /\ Len(stack') = Len(stack) - 1 /\ Len(stack) \in Nat
      /\ x \in Transactions
  <2>1. stack \in Seq(Frame)
    BY DEF TypeOK
  <2> QED BY <1>1, <1>2, <2>1, PopType DEF Frame
<1>4. f.iface # "b_transport"
  BY <1>3 DEF CallsInv, KindInv
<1>5. \A g \in blocked : g.trans # x /\ g.trans \in Transactions
  BY <1>2, <1>4 DEF CallsInv, BlockedInv, KindInv, TypeOK, Frame
<1>6. Carries(f, x) /\ \A y \in Transactions : Carries(f, y) => y = x
  BY DEF Carries
<1>7. ForwardCalls' \subseteq ForwardCalls
  BY <1>2 DEF ForwardCalls
<1> HIDE DEF f, x
<1>8. addr'[x] = FromTarget(addr[x], f.base) /\ \A y \in Transactions : y # x => addr'[y] = addr[y]
  BY <1>1, <1>3 DEF TypeOK
<1>9. \A y \in Transactions : y # x => phase'[y] = phase[y] /\ view'[y] = view[y] /\ holder'[y] = holder[y]
  BY <1>3 DEF TypeOK, x, f
<1>10. KindInv' /\ FrameInv'
  BY <1>2, <1>7 DEF CallsInv, KindInv, FrameInv
<1>11. StackInv'
  BY <1>3 DEF CallsInv, StackInv
<1>12. BlockedInv'
  BY <1>2, <1>5, <1>8, <1>9 DEF CallsInv, BlockedInv, ToTarget
<1>13. NestInv'
  <2>1. ASSUME NEW y \in Transactions
        PROVE  addr'[y] = Outside(config.relative, Head(stack), y, addr[y])
    BY <1>6, <1>8, OffsetIsInside DEF f
  <2> QED BY <1>1, <2>1, NestPopStep DEF CallsInv
<1>14. HolderInv'
  <2>1. holder'[x] = NoOne <=> phase'[x] = "idle"
    BY <1>3 DEF CallsInv, HolderInv, TypeOK, x, f
  <2>2. holder'[x] # NoOne => holder'[x] = holder[x]
    BY <1>3 DEF TypeOK, x, f
  <2>3. \A y \in Transactions : holder'[y] # NoOne => holder'[y] = holder[y]
    BY <1>9, <2>2
  <2>4. \A y \in Transactions : holder'[y] = NoOne <=> phase'[y] = "idle"
    BY <1>9, <2>1 DEF CallsInv, HolderInv
  <2> QED BY <2>3, <2>4 DEF CallsInv, HolderInv
<1>15. AbsoluteInv'
  BY <1>1, <1>3 DEF CallsInv, AbsoluteInv, FromTarget, TypeOK
<1>16. ServiceInv'
  BY <1>7 DEF CallsInv, ServiceInv, NoNestedOffset
<1> QED BY <1>10, <1>11, <1>12, <1>13, <1>14, <1>15, <1>16 DEF CallsInv

\* An answer through nb_transport_bw, and its return.
LEMMA AnswerCalls ==
  ASSUME TypeOK, RouterInv, CallsInv, NEW x \in Transactions, NEW ph \in Phases,
         NBTransportBw(x, ph)
  PROVE  CallsInv'
<1> DEFINE t == holder[x]
           f == [iface |-> "nb_transport_bw", trans |-> x, init |-> latest[t],
                 target |-> t, base |-> 0]
<1>1. /\ t \in Targets /\ t # NoOne /\ latest[t] # NoOne /\ latest[t] \in Initiators
      /\ phase[x] # "idle" /\ ph # "idle"
  <2>1. t # NoOne /\ ph \in NextPhases(phase[x])
    BY DEF NBTransportBw
  <2>2. phase[x] \in {"begin_req", "end_req"} /\ ph # "idle"
    BY <2>1 DEF NextPhases, TypeOK, Phases
  <2> QED BY <2>1, <2>2 DEF TypeOK, RouterInv, TableInv
<1>2. /\ phase' = [phase EXCEPT ![x] = ph]
      /\ view' = [view EXCEPT ![x] = ph] \/ UNCHANGED view
      /\ stack' = <<f>> \o stack /\ TargetRuns(t)
      /\ UNCHANGED <<config, location, map, addr, asked, blocked, holder>>
  BY <1>1 DEF NBTransportBw, tableVars, payloadVars
<1>3. f \in Frame /\ f.iface = "nb_transport_bw" /\ f.trans = x
  BY <1>1, WidthAssumption DEF Frame, Address
<1> HIDE DEF f
<1>4. Calls' = Calls \cup {f}
  BY <1>2, <1>3, CallsPush
<1>5. ForwardCalls' = ForwardCalls
  BY <1>3, <1>4 DEF ForwardCalls
<1>6. \A g \in blocked : g.trans # x /\ g.trans \in Transactions
  BY <1>1 DEF CallsInv, BlockedInv, TypeOK, Frame
<1>7. /\ Len(stack') = Len(stack) + 1 /\ stack'[1] = f /\ Len(stack) \in Nat
      /\ \A k \in 2 .. Len(stack) + 1 : stack'[k] = stack[k - 1]
  BY <1>2, <1>3, PushType DEF TypeOK
<1>8. KindInv'
  <2>1. \A k \in 1 .. Len(stack') : k = 1 \/ (k \in 2 .. Len(stack) + 1 /\ k - 1 \in 1 .. Len(stack))
    BY <1>7
  <2> QED BY <1>2, <1>3, <1>7, <2>1 DEF CallsInv, KindInv
<1>9. StackInv'
  <2>1. stack # <<>> => Head(stack) = stack[1] /\ stack[1].iface # "nb_transport_bw"
    BY <1>2 DEF TargetRuns, TypeOK
  <2>2. Len(stack) # 0 => stack # <<>>
    BY DEF TypeOK
  <2>3. ASSUME ~config.reentrant PROVE Len(stack) <= 1
    <3>1. Len(stack) <= 2 /\ (Len(stack) = 2 => stack[1].iface = "nb_transport_bw")
      BY <2>3 DEF CallsInv, StackInv
    <3>2. Len(stack) # 2
      BY <2>1, <2>2, <3>1
    <3>3. \A n \in Nat : n <= 2 /\ n # 2 => n <= 1
      OBVIOUS
    <3>4. Len(stack) \in Nat
      BY <1>7
    <3>5. Len(stack) <= 2
      BY <3>1
    <3> QED BY <3>2, <3>3, <3>4, <3>5
  <2>4. f.iface = "nb_transport_bw" /\ config' = config
    BY <1>2, <1>3
  <2> QED BY <1>7, <2>3, <2>4 DEF StackInv
<1>10. BlockedInv'
  BY <1>2, <1>3, <1>4, <1>6 DEF CallsInv, BlockedInv, ToTarget, TypeOK
<1>11. NestInv'
  <2>1. ASSUME NEW y \in Transactions
        PROVE  ~Carries(f, y) /\ addr'[y] = Inside(config.relative, f, y, addr[y])
    BY <1>2, <1>3, OffsetIsInside DEF Carries
  <2>2. addr \in [Transactions -> Address]
    BY DEF TypeOK
  <2> QED BY <1>2, <1>3, <2>1, <2>2, NestPushStep DEF CallsInv, NestInv
<1>12. HolderInv'
  BY <1>1, <1>2 DEF CallsInv, HolderInv, TypeOK
<1>13. FrameInv' /\ AbsoluteInv' /\ ServiceInv'
  BY <1>2, <1>5 DEF CallsInv, FrameInv, AbsoluteInv, ServiceInv, NoNestedOffset
<1> QED BY <1>8, <1>9, <1>10, <1>11, <1>12, <1>13 DEF CallsInv

LEMMA AnswerReturnCalls ==
  ASSUME TypeOK, CallsInv, NEW c \in BOOLEAN, NBTransportBwReturn(c)
  PROVE  CallsInv'
<1> DEFINE f == Head(stack)
           x == f.trans
<1>1. /\ stack # <<>> /\ stack' = Tail(stack) /\ f.iface = "nb_transport_bw"
      /\ UNCHANGED <<config, location, map, addr, asked, blocked>>
      /\ \/ UNCHANGED <<phase, view, holder>>
         \/ /\ phase' = [phase EXCEPT ![x] = "idle"]
            /\ view' = [view EXCEPT ![x] = "idle"]
            /\ holder' = [holder EXCEPT ![x] = NoOne]
  BY DEF NBTransportBwReturn, InCall, elabVars, tableVars, payloadVars
<1>2. /\ Calls' \subseteq Calls /\ f \in Frame
      /\ \A k \in 1 .. Len(stack') : stack'[k] \in {stack[j] : j \in 1 .. Len(stack)}
  BY <1>1, CallsPop
<1>3. /\ Len(stack') = Len(stack) - 1 /\ Len(stack) \in Nat /\ x \in Transactions
  <2>1. stack \in Seq(Frame)
    BY DEF TypeOK
  <2>2. Len(stack') = Len(stack) - 1 /\ Len(stack) \in Nat
    BY <1>1, <2>1, PopType
  <2> QED BY <1>2, <2>2 DEF Frame
<1>4. ForwardCalls' \subseteq ForwardCalls
  BY <1>2 DEF ForwardCalls
<1>5. KindInv' /\ FrameInv' /\ AbsoluteInv' /\ ServiceInv'
  BY <1>1, <1>2, <1>4
     DEF CallsInv, KindInv, FrameInv, AbsoluteInv, ServiceInv, NoNestedOffset
<1>6. StackInv'
  BY <1>1, <1>3 DEF CallsInv, StackInv
<1> HIDE DEF x
<1>7. BlockedInv'
  BY <1>1, <1>2, <1>3 DEF CallsInv, BlockedInv, ToTarget, TypeOK, Frame
<1>8. NestInv'
  <2>1. ASSUME NEW y \in Transactions
        PROVE  addr'[y] = Outside(config.relative, Head(stack), y, addr[y])
    BY <1>1, OffsetIsInside DEF Carries
  <2> QED BY <1>1, <2>1, NestPopStep DEF CallsInv
<1>9. HolderInv'
  BY <1>1, <1>3 DEF CallsInv, HolderInv, TypeOK
<1> QED BY <1>5, <1>6, <1>7, <1>8, <1>9 DEF CallsInv

\* Every step of the router keeps the invariant.
LEMMA CallsStep ==
  ASSUME TypeOK, RouterInv, CallsInv, [Next]_vars
  PROVE  CallsInv'
<1>1. ASSUME UNCHANGED <<location, config, payloadVars, callVars, nbVars>>, map \subseteq map'
      PROVE  CallsInv'
  BY <1>1, QuietCalls DEF payloadVars, callVars, nbVars
<1>2. CASE UNCHANGED vars
  BY <1>1, <1>2 DEF vars, elabVars, tableVars
<1>3. CASE Elaborate
  <2>1. /\ UNCHANGED <<location, config, payloadVars, callVars, nbVars>>
        /\ map \subseteq map'
    BY <1>3 DEF Elaborate, Bind, EndBinding, ElaborateOutput, EndElaboration, tableVars
  <2> QED BY <1>1, <2>1
<1>4. ASSUME NEW x \in Transactions, NEW a \in Requests, BTransport(x, a)
      PROVE  CallsInv'
  <2>1. a \in Address
    BY RouterAssumption
  <2>2. CASE ReturnUnmapped(x, a)
    BY <1>4, <2>1, <2>2, UnmappedCalls DEF BTransport
  <2>3. CASE ~ReturnUnmapped(x, a)
    <3>1. PICK e \in Find(a) :
            /\ SetPayloadAddress(x, ToTarget(a, e.loc.addr))
            /\ blocked' = blocked \cup {FrameOf("b_transport", x, e)}
            /\ UNCHANGED <<elabVars, stack, nbVars, dmiVars>>
      BY <1>4, <2>3 DEF BTransport
    <3> QED BY <1>4, <2>1, <3>1, BTransportCalls DEF BTransport, elabVars, tableVars, nbVars
  <2> QED BY <2>2, <2>3
<1>5. ASSUME NEW f \in blocked, BTransportReturn(f) PROVE CallsInv'
  BY <1>5, BTransportReturnCalls
<1>6. ASSUME NEW x \in Transactions, NEW a \in Requests, NEW iface, SimpleCall(iface, x, a)
      PROVE  CallsInv'
  <2>1. a \in Address /\ iface \in AllInterfaces \ {"b_transport"} /\ StartCall(iface, x, a)
    BY <1>6, RouterAssumption DEF SimpleCall, AllInterfaces
  <2>2. CASE ReturnUnmapped(x, a)
    BY <2>1, <2>2, UnmappedCalls
  <2>3. CASE ~ReturnUnmapped(x, a)
    <3>1. PICK e \in Find(a) :
            /\ SetPayloadAddress(x, ToTarget(a, e.loc.addr))
            /\ stack' = <<FrameOf(iface, x, e)>> \o stack
            /\ UNCHANGED <<elabVars, blocked, nbVars, dmiVars>>
      BY <1>6, <2>3 DEF SimpleCall
    <3>2. UNCHANGED <<config, location, map, blocked, phase, view, holder>>
      BY <3>1 DEF elabVars, tableVars, nbVars
    <3> QED BY <2>1, <3>1, <3>2, RequestCalls
  <2> QED BY <2>2, <2>3
<1>7. ASSUME NEW x \in Transactions, NEW a \in Requests, BeginReq(x, a)
      PROVE  CallsInv'
  <2>1. /\ a \in Address /\ "nb_transport" \in AllInterfaces \ {"b_transport"}
        /\ StartCall("nb_transport", x, a)
    BY <1>7, RouterAssumption DEF BeginReq, AllInterfaces
  <2>2. CASE ReturnUnmapped(x, a)
    BY <2>1, <2>2, UnmappedCalls
  <2>3. CASE ~ReturnUnmapped(x, a)
    <3>1. PICK e \in Find(a) :
            /\ ForwardNB(x, a, e)
            /\ phase' = [phase EXCEPT ![x] = "begin_req"]
            /\ view' = [view EXCEPT ![x] = "begin_req"]
            /\ holder' = [holder EXCEPT ![x] = e.target]
            /\ UNCHANGED <<tableVars, blocked, dmiVars>>
      BY <1>7, <2>3 DEF BeginReq
    <3>2. /\ UNCHANGED <<config, location, map, blocked>>
          /\ SetPayloadAddress(x, ToTarget(a, e.loc.addr))
          /\ stack' = <<FrameOf("nb_transport", x, e)>> \o stack
      BY <3>1 DEF ForwardNB, tableVars
    <3> QED BY <2>1, <3>1, <3>2, RequestCalls
  <2> QED BY <2>2, <2>3
<1>8. ASSUME stack # <<>>, Head(stack).iface # "nb_transport_bw", PopCall,
             UNCHANGED <<elabVars, asked, blocked, nbVars>>
      PROVE  CallsInv'
  BY <1>8, PopCalls DEF elabVars, tableVars, nbVars
<1>9. CASE TransportDbgReturn \/ NBAccepted \/ DmiRefused \/ \E r \in Region : DmiGranted(r)
  <2>1. /\ stack # <<>> /\ Head(stack).iface # "nb_transport_bw" /\ PopCall
        /\ UNCHANGED <<elabVars, asked, blocked, nbVars>>
    BY <1>9 DEF TransportDbgReturn, NBAccepted, DmiRefused, DmiGranted, InCall
  <2> QED BY <1>8, <2>1
<1>10. ASSUME NEW ph \in {"idle", "end_req", "begin_resp"}, NBAnswered(ph)
       PROVE  CallsInv'
  <2>1. /\ stack # <<>> /\ Head(stack).iface # "nb_transport_bw" /\ PopCall
        /\ UNCHANGED <<config, location, map, asked, blocked>>
        /\ LET x == Head(stack).trans IN
           /\ phase[x] = "begin_req"
           /\ phase' = [phase EXCEPT ![x] = ph]
           /\ view' = [view EXCEPT ![x] = ph]
           /\ holder' = IF ph = "idle" THEN [holder EXCEPT ![x] = NoOne] ELSE holder
    BY <1>10 DEF NBAnswered, InCall, elabVars, tableVars
  <2> QED BY <2>1, PopCalls
<1>11. ASSUME NEW t \in Targets, NEW r \in Region, InvalidateDirectMemPtr(t, r)
       PROVE  CallsInv'
  BY <1>1, <1>11 DEF InvalidateDirectMemPtr, elabVars, tableVars
<1> QED BY <1>2, <1>3, <1>4, <1>5, <1>6, <1>7, <1>9, <1>10, <1>11, EndRespCalls, AnswerCalls,
           AnswerReturnCalls
        DEF Next, Blocking, NonBlocking, Debug, Dmi

\* The inductive invariant of the calls that are in progress.
THEOREM CallsInvariant == Spec => [](TypeOK /\ RouterInv /\ CallsInv)
<1>1. (TypeOK /\ RouterInv) /\ CallsInv /\ [Next]_vars => CallsInv'
  BY CallsStep
<1> QED BY <1>1, InitCalls, RouterInvariant, PTL DEF Spec

-----------------------------------------------------------------------------
\* What callers and targets may rely on.

\* The address in a forwarded call is what the frame says it is.
LEMMA ServedAddress ==
  ASSUME TypeOK, CallsInv, NoNestedOffset, NEW f \in ForwardCalls
  PROVE  addr[f.trans] = ToTarget(asked[f.trans], f.base)
<1> DEFINE x == f.trans
<1>0. f \in Frame /\ x \in Transactions /\ stack \in Seq(Frame)
  BY CallsType DEF TypeOK, ForwardCalls
<1>1. CASE f \in blocked
  BY <1>1 DEF CallsInv, BlockedInv
<1>2. CASE f \notin blocked /\ ~config.relative
  BY <1>2 DEF CallsInv, AbsoluteInv, ToTarget
<1>3. CASE f \notin blocked /\ config.relative
  <2>1. PICK k \in 1 .. Len(stack) : f = stack[k]
    BY <1>3 DEF ForwardCalls, Calls
  <2>2. f.iface # "nb_transport_bw" /\ f.iface # "b_transport" /\ f \in Calls
    BY <2>1 DEF ForwardCalls, CallsInv, KindInv
  <2>3. \A g \in blocked : g.trans # x
    BY <1>3, <2>2 DEF CallsInv, BlockedInv
  <2>4. PICK w : Trail(config.relative, stack, x, addr[x], asked[x], w)
    BY <1>0, <2>3 DEF CallsInv, NestInv, Nested
  <2>5. Len(stack) <= 2 /\ (Len(stack) = 2 => stack[1].iface = "nb_transport_bw")
    BY <1>3 DEF NoNestedOffset, CallsInv, StackInv
  <2>6. k = Len(stack) /\ Len(stack) \in Nat
    <3>1. Len(stack) = 2 => k # 1
      BY <2>1, <2>2, <2>5
    <3>2. \A n \in Nat : \A i \in 1 .. n : n <= 2 /\ (n = 2 => i # 1) => i = n
      OBVIOUS
    <3>3. Len(stack) \in Nat /\ Len(stack) <= 2
      BY <1>0, <2>5
    <3> QED BY <2>1, <3>1, <3>2, <3>3
  <2>7. w[k] = Inside(config.relative, f, x, w[k + 1]) /\ w[k + 1] = asked[x]
    BY <1>0, <2>1, <2>4, <2>6 DEF Trail
  <2>8. w[1] = w[k]
    <3>1. k = 1 \/ k = 2
      BY <1>0, <2>1, <2>5, <2>6
    <3>2. CASE k = 2
      <4>1. 1 \in 1 .. Len(stack) /\ stack[1].iface = "nb_transport_bw"
        BY <2>5, <2>6, <3>2
      <4>2. ~Carries(stack[1], x)
        BY <4>1 DEF Carries
      <4>3. w[1] = Inside(config.relative, stack[1], x, w[1 + 1])
        BY <2>4, <4>1 DEF Trail
      <4> QED BY <3>2, <4>2, <4>3 DEF Inside
    <3> QED BY <3>1, <3>2
  <2>9. w[1] = addr[x]
    BY <2>4 DEF Trail
  <2>10. Carries(f, x)
    BY <2>2 DEF Carries
  <2> QED BY <2>7, <2>8, <2>9, <2>10, OffsetIsInside
<1> QED BY <1>1, <1>2, <1>3

\* A forwarded call is in the target whose location holds the address its owner
\* asked for, and sees the offset of that address in it.
THEOREM CallsAreInTheirTarget == Spec => []CallsSeeTheirTarget
<1>1. TypeOK /\ CallsInv => CallsSeeTheirTarget
  <2> SUFFICES ASSUME TypeOK, CallsInv, NoNestedOffset, NEW f \in ForwardCalls
               PROVE  LET loc == location[f.target] IN
                      /\ asked[f.trans] \in Extent(loc)
                      /\ addr[f.trans] = (IF config.relative THEN asked[f.trans] - loc.addr
                                                             ELSE asked[f.trans])
    BY DEF CallsSeeTheirTarget
  <2> DEFINE loc == location[f.target]
             a   == asked[f.trans]
  <2>1. f \in Frame /\ a \in Address /\ f.target \in Targets
    BY CallsType DEF TypeOK, ForwardCalls
  <2>2. /\ a \in Extent(loc) /\ loc # NoLocation /\ f.base = loc.addr
    BY DEF CallsInv, ServiceInv, FrameInv
  <2>3. loc \in LocationType /\ Fits(loc)
    BY <2>1, <2>2, LocationOfOutput
  <2>4. loc.addr <= a /\ loc.addr \in Address
    BY <2>1, <2>2, <2>3, PointLookup DEF LocationType
  <2>5. (a - loc.addr) % AddrMod = a - loc.addr
    <3>1. a - loc.addr \in Nat /\ a - loc.addr < AddrMod /\ AddrMod \in Nat
      BY <2>1, <2>4, WidthAssumption DEF Address
    <3> QED BY <3>1, NoOverflow
  <2> QED BY <2>2, <2>5, ServedAddress DEF ToTarget
<1> QED BY <1>1, CallsInvariant, PTL

\* A payload that is not in a forwarded call carries the address its owner
\* wrote, however the calls it went through were nested: for every router, the
\* re-entrant ones that translate addresses included.
THEOREM AddressIsRestored == Spec => []AddressRestored
<1>1. CallsInv => AddressRestored
  <2> SUFFICES ASSUME CallsInv, NEW x \in Transactions, InService(x) = {}
               PROVE  addr[x] = asked[x]
    BY DEF AddressRestored
  <2>1. \A f \in Calls : f.trans = x => f.iface = "nb_transport_bw"
    BY DEF InService, ForwardCalls
  <2>2. \A f \in blocked : f.trans # x
    BY <2>1 DEF Calls, CallsInv, KindInv
  <2>3. \A k \in 1 .. Len(stack) : ~Carries(stack[k], x)
    BY <2>1 DEF Calls, Carries
  <2>4. Nested(config.relative, stack, x, addr[x], asked[x])
    BY <2>2 DEF CallsInv, NestInv
  <2>5. PICK w : Trail(config.relative, stack, x, addr[x], asked[x], w)
    BY <2>4 DEF Nested
  <2> QED BY <2>3, <2>5 DEF Trail
<1> QED BY <1>1, CallsInvariant, PTL

-----------------------------------------------------------------------------
\* Direct memory access.

\* A region a target may lend, translated with the address of its location,
\* lies in that location: no sum passes the end of the address space.
LEMMA TranslatedRegion ==
  ASSUME TypeOK, NEW t \in Targets, location[t] # NoLocation, NEW r \in RegionsOf(t)
  PROVE  LET lo == FromTarget(r.lo, location[t].addr)
             hi == FromTarget(r.hi, location[t].addr)
         IN  {lo, hi} \subseteq Extent(location[t]) /\ lo <= hi
<1> DEFINE l == location[t]
           b == l.addr
<1>1. l \in LocationType /\ Fits(l) /\ b \in Address
  BY LocationOfOutput DEF LocationType
<1>2. /\ EndAddress(l) = b + Bytes(l) - 1 /\ EndAddress(l) \in Address
      /\ Extent(l) = b .. EndAddress(l)
  BY <1>1, EndOfFitting, ExtentOfFitting
<1>3. /\ r.lo \in Address /\ r.hi \in Address /\ FirstOf(t) <= r.lo /\ r.lo <= r.hi
      /\ r.hi < FirstOf(t) + Bytes(l)
  BY DEF RegionsOf, Region
<1>4. Bytes(l) \in Nat /\ b \in Nat /\ AddrMod \in Nat /\ b + Bytes(l) <= AddrMod
  BY <1>1, WidthAssumption DEF Bytes, LocationType, Address, Size, Fits
<1> HIDE DEF l, b
<1>5. CASE config.relative
  <2>1. FirstOf(t) = 0
    <3>1. (b - b) % AddrMod = 0
      BY <1>4, WidthAssumption
    <3> QED BY <1>5, <3>1 DEF FirstOf, ToTarget, l, b
  <2>2. /\ r.lo + b \in Nat /\ r.hi + b \in Nat /\ r.lo + b <= r.hi + b
        /\ b <= r.lo + b /\ r.hi + b < b + Bytes(l) /\ r.lo \in Nat /\ r.hi \in Nat
    BY <1>3, <1>4, <2>1 DEF Address
  <2>3. (r.lo + b) % AddrMod = r.lo + b /\ (r.hi + b) % AddrMod = r.hi + b
    <3>1. r.lo + b < AddrMod /\ r.hi + b < AddrMod
      BY <1>4, <2>2
    <3>2. (r.lo + b) % AddrMod = r.lo + b
      BY <1>4, <2>2, <3>1, NoOverflow
    <3>3. (r.hi + b) % AddrMod = r.hi + b
      BY <1>4, <2>2, <3>1, NoOverflow
    <3> QED BY <3>2, <3>3
  <2>4. r.lo + b \in b .. EndAddress(l) /\ r.hi + b \in b .. EndAddress(l)
    BY <1>2, <1>4, <2>2
  <2> QED BY <1>2, <1>5, <2>2, <2>3, <2>4 DEF FromTarget, l, b
<1>6. CASE ~config.relative
  <2>1. FirstOf(t) = b
    BY <1>6 DEF FirstOf, ToTarget, l, b
  <2>2. r.lo \in b .. EndAddress(l) /\ r.hi \in b .. EndAddress(l)
    BY <1>2, <1>3, <1>4, <2>1 DEF Address
  <2> QED BY <1>2, <1>3, <1>6, <2>2 DEF FromTarget, l, b
<1> QED BY <1>5, <1>6

\* The steps that do not concern direct memory access.
LEMMA NoDmiStep ==
  ASSUME \/ UNCHANGED vars \/ Elaborate \/ Blocking \/ NonBlocking \/ Debug \/ DmiRefused
         \/ \E x \in Transactions, a \in Requests : SimpleCall("get_direct_mem_ptr", x, a)
  PROVE  UNCHANGED <<config, location, dmiVars>>
<1> USE DEF elabVars, tableVars
<1>1. CASE UNCHANGED vars
  BY <1>1 DEF vars
<1>2. CASE Elaborate
  BY <1>2 DEF Elaborate, Bind, EndBinding, ElaborateOutput, EndElaboration
<1>3. CASE Blocking
  BY <1>3 DEF Blocking, BTransport, BTransportReturn, ReturnUnmapped
<1>4. CASE NonBlocking
  BY <1>4 DEF NonBlocking, BeginReq, EndResp, NBAccepted, NBAnswered, NBTransportBw,
              NBTransportBwReturn, ReturnUnmapped
<1>5. CASE Debug \/ DmiRefused
  BY <1>5 DEF Debug, SimpleCall, TransportDbgReturn, DmiRefused, ReturnUnmapped
<1>6. CASE \E x \in Transactions, a \in Requests : SimpleCall("get_direct_mem_ptr", x, a)
  BY <1>6 DEF SimpleCall, ReturnUnmapped
<1> QED BY <1>1, <1>2, <1>3, <1>4, <1>5, <1>6

LEMMA DmiStep ==
  ASSUME TypeOK, CallsInv, DmiInv, [Next]_vars
  PROVE  DmiInv'
<1>1. CASE UNCHANGED <<config, location, dmiVars>>
  BY <1>1 DEF DmiInv, dmiVars
<1>2. ASSUME NEW r \in Region, DmiGranted(r) PROVE DmiInv'
  <2> DEFINE f == Head(stack)
             d == [init |-> f.init, from |-> f.target,
                   lo |-> FromTarget(r.lo, f.base), hi |-> FromTarget(r.hi, f.base)]
  <2>1. /\ stack # <<>> /\ f.iface = "get_direct_mem_ptr" /\ r \in RegionsOf(f.target)
        /\ lent' = [lent EXCEPT ![f.target] = @ \cup {r}]
        /\ grants' = grants \cup {d}
        /\ UNCHANGED <<config, location>>
    BY <1>2 DEF DmiGranted, InCall, elabVars, tableVars
  <2>2. f \in ForwardCalls
    <3>1. f = stack[1] /\ 1 \in 1 .. Len(stack)
      BY <2>1, PopType DEF TypeOK
    <3> QED BY <2>1, <3>1 DEF ForwardCalls, Calls
  <2>3. f.target \in Targets /\ location[f.target] # NoLocation /\ f.base = location[f.target].addr
    BY <2>2, CallsType DEF ForwardCalls, CallsInv, FrameInv
  <2>4. d.from = f.target /\ {d.lo, d.hi} \subseteq Extent(location[f.target]) /\ d.lo <= d.hi
    BY <2>1, <2>3, TranslatedRegion
  <2>5. ~config.relative => [lo |-> d.lo, hi |-> d.hi] = r
    BY DEF FromTarget, Region
  <2> HIDE DEF d, f
  <2>6. /\ r \in lent'[f.target]
        /\ \A t \in Targets : lent[t] \subseteq lent'[t]
    BY <2>1, <2>3 DEF TypeOK
  <2>7. ASSUME NEW g \in grants
        PROVE  /\ location[g.from] # NoLocation
               /\ {g.lo, g.hi} \subseteq Extent(location[g.from]) /\ g.lo <= g.hi
               /\ ~config.relative => [lo |-> g.lo, hi |-> g.hi] \in lent'[g.from]
    <3>1. g.from \in Targets
      BY DEF TypeOK
    <3> QED BY <2>6, <3>1 DEF DmiInv
  <2> QED BY <2>1, <2>3, <2>4, <2>5, <2>6, <2>7 DEF DmiInv
<1>3. ASSUME NEW t \in Targets, NEW r \in Region, InvalidateDirectMemPtr(t, r) PROVE DmiInv'
  <2>1. /\ lent' = [lent EXCEPT ![t] = {s \in @ : ~Meets(s, r.lo, r.hi)}]
        /\ grants' = {g \in grants : ~Meets(g, r.lo, r.hi)}
        /\ UNCHANGED <<config, location>>
    BY <1>3 DEF InvalidateDirectMemPtr, elabVars, tableVars
  <2>2. ASSUME NEW g \in grants', ~config.relative
        PROVE  [lo |-> g.lo, hi |-> g.hi] \in lent'[g.from]
    <3>1. g \in grants /\ ~Meets(g, r.lo, r.hi) /\ g.from \in Targets
      BY <2>1 DEF TypeOK
    <3>2. [lo |-> g.lo, hi |-> g.hi] \in lent[g.from]
      BY <2>2, <3>1 DEF DmiInv
    <3>3. ~Meets([lo |-> g.lo, hi |-> g.hi], r.lo, r.hi)
      BY <3>1 DEF Meets
    <3> QED BY <2>1, <3>1, <3>2, <3>3 DEF TypeOK
  <2> QED BY <2>1, <2>2 DEF DmiInv
<1> QED BY <1>1, <1>2, <1>3, NoDmiStep DEF Next, Dmi

THEOREM DmiInvariant == Spec => [](TypeOK /\ CallsInv /\ DmiInv)
<1>1. (TypeOK /\ RouterInv /\ CallsInv) /\ DmiInv /\ [Next]_vars => DmiInv'
  BY DmiStep
<1> QED BY <1>1, InitCalls, CallsInvariant, PTL DEF Spec

\* What an initiator may access directly lies in the location of the target
\* that lent it.
THEOREM DmiRegionsStayHome == Spec => []DmiStaysHome
<1>1. DmiInv => DmiStaysHome
  BY DEF DmiInv, DmiStaysHome
<1> QED BY <1>1, DmiInvariant, PTL

\* Without address translation an initiator only holds what its target lends,
\* whatever is invalidated while requests for direct access are in progress.
THEOREM AbsoluteDmiIsCoherent == Spec => []AbsoluteDmiCoherent
<1>1. TypeOK /\ DmiInv => AbsoluteDmiCoherent
  <2> SUFFICES ASSUME TypeOK, DmiInv, ~config.relative, NEW g \in grants
               PROVE  [lo |-> g.lo - BaseOf(g.from), hi |-> g.hi - BaseOf(g.from)] \in lent[g.from]
    BY DEF AbsoluteDmiCoherent, DmiCoherent
  <2>1. BaseOf(g.from) = 0 /\ g.lo \in Int /\ g.hi \in Int
    BY DEF BaseOf, TypeOK, Address
  <2>2. g.lo - 0 = g.lo /\ g.hi - 0 = g.hi
    BY <2>1
  <2> QED BY <2>1, <2>2 DEF DmiInv
<1> QED BY <1>1, DmiInvariant, PTL

-----------------------------------------------------------------------------
\* The exchanges of nb_transport.

\* An END_RESP that is given to the router with the address its owner wrote
\* goes to the target that holds the exchange, and to no other.
LEMMA EndRespFound ==
  ASSUME TypeOK, RouterInv, CallsInv, NoNestedOffset, NEW x \in Transactions,
         view[x] # "idle", holder[x] # NoOne, InitiatorRuns(Owner[x])
  PROVE  Find(addr[x]) # {} /\ \A e \in Find(addr[x]) : e.target = holder[x]
<1>1. /\ [loc |-> location[holder[x]], target |-> holder[x]] \in map
      /\ asked[x] \in Extent(location[holder[x]])
  BY DEF CallsInv, HolderInv
<1>2. addr[x] = asked[x] /\ addr[x] \in Address /\ holder[x] \in Targets
  BY EndRespAddress DEF TypeOK
<1>3. MapInv /\ LoopInv
  BY DEF RouterInv
<1> QED BY <1>1, <1>2, <1>3, EntryFound

LEMMA EndRespEnds ==
  ASSUME TypeOK, RouterInv, CallsInv, ViewInv, NoNestedOffset, ~config.shared,
         NEW x \in Transactions, EndResp(x)
  PROVE  /\ view[x] = "begin_resp" /\ phase[x] = "begin_resp" /\ holder[x] # NoOne
         /\ view' = [view EXCEPT ![x] = "idle"]
         /\ phase' = [phase EXCEPT ![x] = "idle"]
         /\ holder' = [holder EXCEPT ![x] = NoOne]
         /\ latest' = [latest EXCEPT ![holder[x]] = Owner[x]]
<1>1. /\ view = phase /\ view[x] = "begin_resp" /\ InitiatorRuns(Owner[x])
      /\ view' = [view EXCEPT ![x] = "idle"]
  BY DEF ViewInv, EndResp
<1>2. holder[x] # NoOne
  BY <1>1 DEF CallsInv, HolderInv
<1>3. PICK e \in Find(addr[x]) :
        /\ ForwardNB(x, addr[x], e)
        /\ IF e.target = holder[x]
           THEN /\ phase' = [phase EXCEPT ![x] = "idle"]
                /\ holder' = [holder EXCEPT ![x] = NoOne]
           ELSE UNCHANGED <<phase, holder>>
  BY <1>1, <1>2, EndRespFound DEF EndResp
<1>4. e.target = holder[x]
  BY <1>1, <1>2, EndRespFound
<1> QED BY <1>1, <1>2, <1>3, <1>4 DEF ForwardNB

LEMMA ViewStep ==
  ASSUME TypeOK, RouterInv, CallsInv, ViewInv, [Next]_vars
  PROVE  ViewInv'
<1> USE DEF elabVars, tableVars
<1>1. CASE UNCHANGED <<config, nbVars>>
  BY <1>1 DEF ViewInv, NoNestedOffset, nbVars
<1>2. ASSUME NEW x \in Transactions, NEW a \in Requests, BeginReq(x, a) PROVE ViewInv'
  <2>1. CASE ReturnUnmapped(x, a)
    BY <1>1, <2>1 DEF ReturnUnmapped
  <2>2. CASE ~ReturnUnmapped(x, a)
    <3>1. PICK e \in Find(a) :
            /\ MayRequest(x, e.target)
            /\ ForwardNB(x, a, e)
            /\ phase' = [phase EXCEPT ![x] = "begin_req"]
            /\ view' = [view EXCEPT ![x] = "begin_req"]
            /\ holder' = [holder EXCEPT ![x] = e.target]
            /\ UNCHANGED <<tableVars, blocked, dmiVars>>
      BY <1>2, <2>2 DEF BeginReq
    <3>2. /\ config' = config
          /\ latest' = [latest EXCEPT ![e.target] = Owner[x]]
          /\ ~config.shared => \A y \in Transactions : holder[y] = e.target => Owner[y] = Owner[x]
      BY <3>1 DEF ForwardNB, MayRequest
    <3>3. e.target \in Targets
      BY DEF Find, TypeOK, Entry
    <3>4. NoNestedOffset' /\ ~config'.shared => NoNestedOffset /\ ~config.shared
      BY <3>2 DEF NoNestedOffset
    <3>5. view = phase => view' = phase'
      BY <3>1
    <3>6. ASSUME NEW y \in Transactions, holder'[y] # NoOne, ~config.shared,
                 \A z \in Transactions : holder[z] # NoOne => latest[holder[z]] = Owner[z]
          PROVE  latest'[holder'[y]] = Owner[y]
      BY <3>1, <3>2, <3>3, <3>6 DEF TypeOK
    <3> QED BY <3>4, <3>5, <3>6 DEF ViewInv
  <2> QED BY <2>1, <2>2
<1>3. ASSUME NEW x \in Transactions, EndResp(x) PROVE ViewInv'
  <2> SUFFICES ASSUME NoNestedOffset, ~config.shared
               PROVE  /\ view' = phase'
                      /\ \A y \in Transactions : holder'[y] # NoOne => latest'[holder'[y]] = Owner[y]
    BY <1>3 DEF ViewInv, NoNestedOffset, EndResp
  <2> QED BY <1>3, EndRespEnds DEF ViewInv, TypeOK
<1>4. ASSUME NEW ph \in {"idle", "end_req", "begin_resp"}, NBAnswered(ph) PROVE ViewInv'
  BY <1>4 DEF NBAnswered, ViewInv, NoNestedOffset, TypeOK
<1>5. ASSUME NEW x \in Transactions, NEW ph \in Phases, NBTransportBw(x, ph) PROVE ViewInv'
  <2> SUFFICES ASSUME NoNestedOffset, ~config.shared
               PROVE  view' = phase' /\ UNCHANGED <<latest, holder>>
    BY <1>5 DEF ViewInv, NoNestedOffset, NBTransportBw
  <2>1. /\ view = phase /\ latest[holder[x]] = Owner[x] /\ Owner[x] # NoOne
    BY <1>5, RouterAssumption DEF ViewInv, NBTransportBw
  <2> QED BY <1>5, <2>1 DEF NBTransportBw
<1>6. ASSUME NEW c \in BOOLEAN, NBTransportBwReturn(c) PROVE ViewInv'
  BY <1>6 DEF NBTransportBwReturn, ViewInv, NoNestedOffset, TypeOK
<1>7. CASE UNCHANGED vars \/ Elaborate \/ Blocking \/ NBAccepted \/ Debug \/ Dmi
  <2>1. UNCHANGED <<config, nbVars>>
    <3>1. CASE UNCHANGED vars
      BY <3>1 DEF vars
    <3>2. CASE Elaborate
      BY <3>2 DEF Elaborate, Bind, EndBinding, ElaborateOutput, EndElaboration
    <3>3. CASE Blocking \/ NBAccepted
      BY <3>3 DEF Blocking, BTransport, BTransportReturn, ReturnUnmapped, NBAccepted
    <3>4. CASE Debug \/ Dmi
      BY <3>4 DEF Debug, Dmi, SimpleCall, TransportDbgReturn, DmiGranted, DmiRefused,
                  InvalidateDirectMemPtr, ReturnUnmapped
    <3> QED BY <1>7, <3>1, <3>2, <3>3, <3>4
  <2> QED BY <1>1, <2>1
<1> QED BY <1>2, <1>3, <1>4, <1>5, <1>6, <1>7 DEF Next, NonBlocking

THEOREM ViewInvariant == Spec => [](TypeOK /\ RouterInv /\ CallsInv /\ ViewInv)
<1>1. (TypeOK /\ RouterInv /\ CallsInv) /\ ViewInv /\ [Next]_vars => ViewInv'
  BY ViewStep
<1> QED BY <1>1, InitCalls, CallsInvariant, PTL DEF Spec

\* Unless targets are shared, the owner and the target of every exchange agree
\* on its phase: no answer and no END_RESP goes astray.
THEOREM OwnersAndTargetsAgree == Spec => []ViewsAgree
<1>1. ViewInv => ViewsAgree
  BY DEF ViewInv, ViewsAgree
<1> QED BY <1>1, ViewInvariant, PTL

-----------------------------------------------------------------------------
\* The router implements Interconnect, step by step.

\* The two variables of Interconnect that are not variables of the router.
memoryOf == [t \in Targets |-> IF location[t] = NoLocation THEN {} ELSE Extent(location[t])]

ServedIn(calls, h) ==
    [x \in Transactions |-> IF \E f \in calls : f.trans = x
                            THEN (CHOOSE f \in calls : f.trans = x).target
                            ELSE h[x]]
served == ServedIn(blocked, holder)

LEMMA ServedByHolder ==
  ASSUME NEW calls, NEW h, NEW x \in Transactions, \A f \in calls : f.trans # x
  PROVE  ServedIn(calls, h)[x] = h[x]
BY DEF ServedIn

LEMMA ServedByCall ==
  ASSUME NEW calls, NEW h, NEW f \in calls, f.trans \in Transactions,
         \A g \in calls : g.trans = f.trans => g = f
  PROVE  ServedIn(calls, h)[f.trans] = f.target
<1>1. (CHOOSE g \in calls : g.trans = f.trans) = f
  OBVIOUS
<1> QED BY <1>1 DEF ServedIn

\* Calls of other payloads do not matter.
LEMMA ServedElsewhere ==
  ASSUME NEW calls, NEW calls2, NEW h, NEW h2, NEW y \in Transactions,
         \A f, g \in calls : f.trans = g.trans => f = g,
         \A f : f.trans = y => (f \in calls2 <=> f \in calls),
         h2[y] = h[y]
  PROVE  ServedIn(calls2, h2)[y] = ServedIn(calls, h)[y]
<1>1. CASE \A f \in calls : f.trans # y
  <2>1. \A f \in calls2 : f.trans # y
    BY <1>1
  <2>2. ServedIn(calls2, h2)[y] = h2[y]
    BY <2>1, ServedByHolder
  <2>3. ServedIn(calls, h)[y] = h[y]
    BY <1>1, ServedByHolder
  <2> QED BY <2>2, <2>3
<1>2. ASSUME NEW f \in calls, f.trans = y
      PROVE  ServedIn(calls2, h2)[y] = ServedIn(calls, h)[y]
  <2>1. f \in calls2 /\ \A g \in calls2 : g.trans = f.trans => g = f
    BY <1>2
  <2>2. ServedIn(calls2, h2)[y] = f.target
    BY <1>2, <2>1, ServedByCall
  <2>3. ServedIn(calls, h)[y] = f.target
    BY <1>2, ServedByCall
  <2> QED BY <2>2, <2>3
<1> QED BY <1>1, <1>2

LEMMA ServedChanges ==
  ASSUME NEW x \in Transactions, NEW t, served'[x] = t,
         \A f, g \in blocked : f.trans = g.trans => f = g,
         \A f : f.trans # x => (f \in blocked' <=> f \in blocked),
         \A y \in Transactions \ {x} : holder'[y] = holder[y]
  PROVE  served' = [served EXCEPT ![x] = t]
<1>1. ASSUME NEW y \in Transactions \ {x} PROVE served'[y] = served[y]
  <2>1. \A f : f.trans = y => (f \in blocked' <=> f \in blocked)
    OBVIOUS
  <2>2. ServedIn(blocked', holder')[y] = ServedIn(blocked, holder)[y]
    BY <2>1, ServedElsewhere
  <2> QED BY <2>2 DEF served
<1>2. served = [y \in Transactions |-> served[y]] /\ served' = [y \in Transactions |-> served'[y]]
  BY DEF served, ServedIn
<1> QED BY <1>1, <1>2

\* A payload is served by the call it waits in, or by the target that holds it.
LEMMA ServedFacts ==
  ASSUME TypeOK, CallsInv
  PROVE  /\ \A x \in Transactions : (\A f \in blocked : f.trans # x) => served[x] = holder[x]
         /\ \A f \in blocked : /\ f.trans \in Transactions /\ served[f.trans] = f.target
                               /\ holder[f.trans] = NoOne /\ f.target # NoOne
<1>1. \A f \in blocked : f \in Calls
  BY DEF Calls
<1>2. ASSUME NEW f \in blocked
      PROVE  /\ f.trans \in Transactions /\ f.target # NoOne
             /\ phase[f.trans] = "idle" /\ \A g \in blocked : g.trans = f.trans => g = f
  BY <1>1, <1>2, CallsType, RouterAssumption DEF CallsInv, BlockedInv
<1>3. \A f \in blocked : holder[f.trans] = NoOne
  BY <1>2 DEF CallsInv, HolderInv
<1> QED BY <1>2, <1>3, ServedByHolder, ServedByCall DEF served

\* The steps of Interconnect in these terms.
LEMMA DirectRequest ==
  ASSUME NEW x \in Transactions, NEW a \in Address,
         view[x] = "idle", phase[x] = "idle", served[x] = NoOne,
         asked' = [asked EXCEPT ![x] = a], memoryOf' = memoryOf,
         \/ UNCHANGED <<view, phase, served>>
         \/ /\ \E t \in Targets : a \in memoryOf[t] /\ served' = [served EXCEPT ![x] = t]
            /\ \/ /\ view' = [view EXCEPT ![x] = "begin_req"]
                  /\ phase' = [phase EXCEPT ![x] = "begin_req"]
               \/ UNCHANGED <<view, phase>>
  PROVE  Direct!Next
BY DEF Direct!Next, Direct!Request, Direct!Idle, Direct!BothSee, memoryOf, served, ServedIn

LEMMA DirectAnswer ==
  ASSUME NEW x \in Transactions, NEW ph,
         \/ phase[x] = "begin_req" /\ ph = "end_req"
         \/ phase[x] \in {"begin_req", "end_req"} /\ ph = "begin_resp",
         view' = [view EXCEPT ![x] = ph], phase' = [phase EXCEPT ![x] = ph],
         UNCHANGED <<memoryOf, asked, served>>
  PROVE  Direct!Next
BY DEF Direct!Next, Direct!Accept, Direct!Respond, Direct!BothSee, memoryOf, served, ServedIn

LEMMA DirectFinish ==
  ASSUME NEW x \in Transactions, served[x] # NoOne, phase[x] # "end_req",
         view' = [view EXCEPT ![x] = "idle"], phase' = [phase EXCEPT ![x] = "idle"],
         served' = [served EXCEPT ![x] = NoOne], UNCHANGED <<memoryOf, asked>>
  PROVE  Direct!Next
BY DEF Direct!Next, Direct!Finish, Direct!BothSee, memoryOf, served, ServedIn

LEMMA DirectStutter ==
  ASSUME UNCHANGED <<memoryOf, asked, view, phase, served>>
  PROVE  UNCHANGED Direct!vars
BY DEF Direct!vars, memoryOf, served, ServedIn

\* The configuration is one of the platform's.
SetupInv == \E s \in Setups : config = s.config /\ location = s.location

LEMMA ServedNext ==
  ASSUME NEW x \in Transactions, \A f \in blocked' : f.trans # x
  PROVE  served'[x] = holder'[x]
BY ServedByHolder DEF served

\* What the router does to an exchange is done to its two ends at once.
LEMMA ServedExcept ==
  ASSUME TypeOK, CallsInv, NEW x \in Transactions, NEW t, blocked' = blocked,
         \A f \in blocked : f.trans # x, holder' = [holder EXCEPT ![x] = t]
  PROVE  served' = [served EXCEPT ![x] = t]
<1>1. \A f, g \in blocked : f.trans = g.trans => f = g
  BY DEF CallsInv, BlockedInv, Calls
<1>2. /\ holder'[x] = t /\ \A y \in Transactions \ {x} : holder'[y] = holder[y]
  BY DEF TypeOK
<1>3. \A f \in blocked' : f.trans # x
  OBVIOUS
<1>4. served'[x] = t
  BY <1>2, <1>3, ServedNext
<1> QED BY <1>1, <1>2, <1>4, ServedChanges

LEMMA DirectBlocking ==
  ASSUME TypeOK, RouterInv, CallsInv, Blocking
  PROVE  Direct!Next
<1> USE DEF elabVars, tableVars, nbVars
<1>0. \A f, g \in blocked : f.trans = g.trans => f = g
  BY DEF CallsInv, BlockedInv, Calls
<1>1. ASSUME NEW x \in Transactions, NEW a \in Requests, BTransport(x, a)
      PROVE  Direct!Next
  <2>1. /\ a \in Address /\ asked' = [asked EXCEPT ![x] = a] /\ Free(x)
    BY <1>1, RouterAssumption DEF BTransport, StartCall
  <2>2. /\ view[x] = "idle" /\ phase[x] = "idle" /\ holder[x] = NoOne
        /\ \A f \in blocked : f.trans # x
    BY <2>1, FreeFacts
  <2>3. served[x] = NoOne
    BY <2>2, ServedFacts
  <2>4. CASE ReturnUnmapped(x, a)
    <3>1. UNCHANGED <<view, phase, served, memoryOf>>
      BY <2>4 DEF ReturnUnmapped, callVars, served, memoryOf
    <3> QED BY <2>1, <2>2, <2>3, <3>1, DirectRequest
  <2>5. CASE ~ReturnUnmapped(x, a)
    <3>1. PICK e \in Find(a) :
            /\ blocked' = blocked \cup {FrameOf("b_transport", x, e)}
            /\ UNCHANGED <<elabVars, stack, nbVars, dmiVars>>
      BY <1>1, <2>5 DEF BTransport
    <3> DEFINE f == FrameOf("b_transport", x, e)
    <3>2. f.trans = x /\ f.target = e.target
      BY DEF FrameOf
    <3>3. e.target \in Targets /\ a \in memoryOf[e.target]
      BY <2>1, FindFacts DEF RouterInv, memoryOf
    <3>4. blocked' = blocked \cup {f} /\ UNCHANGED <<view, phase, memoryOf, holder>>
      BY <3>1 DEF memoryOf
    <3> HIDE DEF f
    <3>5. served'[x] = e.target
      <4>1. f \in blocked' /\ \A g \in blocked' : g.trans = f.trans => g = f
        BY <2>2, <3>2, <3>4
      <4> QED BY <3>2, <4>1, ServedByCall DEF served
    <3>6. \A g : g.trans # x => (g \in blocked' <=> g \in blocked)
      BY <3>2, <3>4
    <3>7. served' = [served EXCEPT ![x] = e.target]
      BY <1>0, <3>4, <3>5, <3>6, ServedChanges
    <3> QED BY <2>1, <2>2, <2>3, <3>3, <3>4, <3>7, DirectRequest
  <2> QED BY <2>4, <2>5
<1>2. ASSUME NEW f \in blocked, BTransportReturn(f)
      PROVE  Direct!Next
  <2> DEFINE x == f.trans
  <2>1. /\ blocked' = blocked \ {f}
        /\ UNCHANGED <<view, phase, memoryOf, holder, asked>>
    BY <1>2 DEF BTransportReturn, memoryOf
  <2>2. /\ x \in Transactions /\ served[x] # NoOne /\ holder[x] = NoOne
    BY ServedFacts
  <2>3. view[x] = "idle" /\ phase[x] = "idle"
    BY DEF CallsInv, BlockedInv
  <2>4. view' = [view EXCEPT ![x] = "idle"] /\ phase' = [phase EXCEPT ![x] = "idle"]
    BY <2>1, <2>2, <2>3 DEF TypeOK
  <2>5. served'[x] = NoOne
    <3>1. \A g \in blocked' : g.trans # x
      BY <1>0, <2>1
    <3> QED BY <2>1, <2>2, <3>1, ServedNext
  <2>6. \A g : g.trans # x => (g \in blocked' <=> g \in blocked)
    BY <2>1
  <2>7. served' = [served EXCEPT ![x] = NoOne]
    BY <1>0, <2>1, <2>2, <2>5, <2>6, ServedChanges
  <2> QED BY <2>1, <2>2, <2>3, <2>4, <2>7, DirectFinish
<1> QED BY <1>1, <1>2 DEF Blocking

LEMMA DirectSimpleCall ==
  ASSUME TypeOK, CallsInv, NEW x \in Transactions, NEW a \in Requests, NEW iface,
         SimpleCall(iface, x, a)
  PROVE  Direct!Next
<1>1. /\ a \in Address /\ asked' = [asked EXCEPT ![x] = a] /\ Free(x)
  BY RouterAssumption DEF SimpleCall, StartCall
<1>2. /\ view[x] = "idle" /\ phase[x] = "idle" /\ served[x] = NoOne
  BY <1>1, FreeFacts, ServedFacts
<1>3. UNCHANGED <<view, phase, served, memoryOf>>
  BY DEF SimpleCall, ReturnUnmapped, elabVars, tableVars, callVars, nbVars, served, memoryOf
<1> QED BY <1>1, <1>2, <1>3, DirectRequest

LEMMA DirectNonBlocking ==
  ASSUME TypeOK, RouterInv, CallsInv, ViewInv, NoNestedOffset, ~config.shared, NonBlocking
  PROVE  Direct!Next \/ UNCHANGED Direct!vars
<1> USE DEF elabVars, tableVars, payloadVars
<1>0. /\ view = phase
      /\ \A x \in Transactions : holder[x] # NoOne => latest[holder[x]] = Owner[x]
  BY DEF ViewInv
<1>1. ASSUME NEW x \in Transactions, phase[x] # "idle"
      PROVE  /\ \A f \in blocked : f.trans # x
             /\ holder[x] # NoOne /\ served[x] # NoOne
  BY <1>1, ServedFacts DEF CallsInv, BlockedInv, HolderInv
<1>2. ASSUME NEW x \in Transactions, NEW a \in Requests, BeginReq(x, a)
      PROVE  Direct!Next
  <2>1. /\ a \in Address /\ asked' = [asked EXCEPT ![x] = a] /\ Free(x)
    BY <1>2, RouterAssumption DEF BeginReq, StartCall
  <2>2. /\ view[x] = "idle" /\ phase[x] = "idle" /\ served[x] = NoOne
        /\ \A f \in blocked : f.trans # x
    BY <2>1, FreeFacts, ServedFacts
  <2>3. CASE ReturnUnmapped(x, a)
    <3>1. UNCHANGED <<view, phase, served, memoryOf>>
      BY <2>3 DEF ReturnUnmapped, callVars, nbVars, served, memoryOf
    <3> QED BY <2>1, <2>2, <3>1, DirectRequest
  <2>4. CASE ~ReturnUnmapped(x, a)
    <3>1. PICK e \in Find(a) :
            /\ phase' = [phase EXCEPT ![x] = "begin_req"]
            /\ view' = [view EXCEPT ![x] = "begin_req"]
            /\ holder' = [holder EXCEPT ![x] = e.target]
            /\ UNCHANGED <<tableVars, blocked, dmiVars>>
      BY <1>2, <2>4 DEF BeginReq
    <3>2. e.target \in Targets /\ a \in memoryOf[e.target]
      BY <2>1, FindFacts DEF RouterInv, memoryOf
    <3>3. served' = [served EXCEPT ![x] = e.target] /\ memoryOf' = memoryOf
      BY <2>2, <3>1, ServedExcept DEF memoryOf
    <3> QED BY <2>1, <2>2, <3>1, <3>2, <3>3, DirectRequest
  <2> QED BY <2>3, <2>4
<1>3. ASSUME NEW x \in Transactions, EndResp(x)
      PROVE  Direct!Next
  <2>1. /\ phase[x] = "begin_resp" /\ view' = [view EXCEPT ![x] = "idle"]
        /\ phase' = [phase EXCEPT ![x] = "idle"]
        /\ holder' = [holder EXCEPT ![x] = NoOne]
    BY <1>3, EndRespEnds
  <2>2. UNCHANGED <<memoryOf, asked, blocked>>
    BY <1>3 DEF EndResp, memoryOf
  <2>3. served[x] # NoOne /\ served' = [served EXCEPT ![x] = NoOne]
    BY <1>1, <2>1, <2>2, ServedExcept
  <2> QED BY <2>1, <2>2, <2>3, DirectFinish
<1>4. CASE NBAccepted
  <2>1. UNCHANGED <<memoryOf, asked, view, phase, served>>
    BY <1>4 DEF NBAccepted, nbVars, memoryOf, served
  <2> QED BY <2>1, DirectStutter
<1>5. ASSUME NEW ph \in {"idle", "end_req", "begin_resp"}, NBAnswered(ph)
      PROVE  Direct!Next
  <2> DEFINE x == Head(stack).trans
  <2>1. /\ phase[x] = "begin_req"
        /\ phase' = [phase EXCEPT ![x] = ph]
        /\ view' = [view EXCEPT ![x] = ph]
        /\ holder' = IF ph = "idle" THEN [holder EXCEPT ![x] = NoOne] ELSE holder
        /\ UNCHANGED <<memoryOf, asked, blocked>>
    BY <1>5 DEF NBAnswered, memoryOf
  <2>2. x \in Transactions
    BY <1>5, PopType DEF NBAnswered, InCall, TypeOK, Frame
  <2> HIDE DEF x
  <2>3. CASE ph = "idle"
    <3>1. served[x] # NoOne /\ served' = [served EXCEPT ![x] = NoOne]
      BY <1>1, <2>1, <2>2, <2>3, ServedExcept
    <3> QED BY <2>1, <2>2, <2>3, <3>1, DirectFinish
  <2>4. CASE ph # "idle"
    <3>1. served' = served
      BY <2>1, <2>4 DEF served
    <3> QED BY <2>1, <2>2, <2>4, <3>1, DirectAnswer
  <2> QED BY <2>3, <2>4
<1>6. ASSUME NEW x \in Transactions, NEW ph \in Phases, NBTransportBw(x, ph)
      PROVE  Direct!Next
  <2>1. latest[holder[x]] = Owner[x] /\ Owner[x] # NoOne /\ ph \in NextPhases(phase[x])
    BY <1>0, <1>6, RouterAssumption DEF NBTransportBw
  <2>2. \/ phase[x] = "begin_req" /\ ph = "end_req"
        \/ phase[x] \in {"begin_req", "end_req"} /\ ph = "begin_resp"
    BY <2>1 DEF NextPhases, TypeOK, Phases
  <2>3. /\ view' = [view EXCEPT ![x] = ph] /\ phase' = [phase EXCEPT ![x] = ph]
        /\ UNCHANGED <<memoryOf, asked, served>>
    BY <1>6, <2>1 DEF NBTransportBw, memoryOf, served
  <2> QED BY <2>2, <2>3, DirectAnswer
<1>7. ASSUME NEW c \in BOOLEAN, NBTransportBwReturn(c)
      PROVE  Direct!Next \/ UNCHANGED Direct!vars
  <2> DEFINE x == Head(stack).trans
  <2>1. UNCHANGED <<memoryOf, asked, blocked>>
    BY <1>7 DEF NBTransportBwReturn, memoryOf
  <2>2. CASE c
    <3>1. /\ phase[x] = "begin_resp"
          /\ phase' = [phase EXCEPT ![x] = "idle"]
          /\ view' = [view EXCEPT ![x] = "idle"]
          /\ holder' = [holder EXCEPT ![x] = NoOne]
      BY <1>0, <1>7, <2>2 DEF NBTransportBwReturn
    <3>2. x \in Transactions
      BY <1>7, PopType DEF NBTransportBwReturn, InCall, TypeOK, Frame
    <3> HIDE DEF x
    <3>3. served[x] # NoOne /\ served' = [served EXCEPT ![x] = NoOne]
      BY <1>1, <2>1, <3>1, <3>2, ServedExcept
    <3> QED BY <2>1, <3>1, <3>2, <3>3, DirectFinish
  <2>3. CASE ~c
    <3>1. UNCHANGED <<view, phase, served>>
      BY <1>7, <2>3 DEF NBTransportBwReturn, served
    <3> QED BY <2>1, <3>1, DirectStutter
  <2> QED BY <2>2, <2>3
<1> QED BY <1>2, <1>3, <1>4, <1>5, <1>6, <1>7 DEF NonBlocking

\* Everything else is invisible to whoever is connected.
LEMMA DirectQuiet ==
  ASSUME UNCHANGED vars \/ Elaborate \/ TransportDbgReturn \/ DmiRefused
         \/ (\E r \in Region : DmiGranted(r))
         \/ (\E t \in Targets, r \in Region : InvalidateDirectMemPtr(t, r))
  PROVE  UNCHANGED Direct!vars
<1>1. UNCHANGED <<location, asked, blocked, view, phase, holder>>
  BY DEF vars, elabVars, tableVars, payloadVars, callVars, nbVars, Elaborate, Bind, EndBinding,
         ElaborateOutput, EndElaboration, TransportDbgReturn, DmiRefused, DmiGranted,
         InvalidateDirectMemPtr
<1> QED BY <1>1, DirectStutter DEF memoryOf, served

\* Unless targets are shared, or owners answer in place through a router that
\* translates addresses, the router is as good as a direct connection.
THEOREM RouterImplementsInterconnect ==
  ASSUME \A s \in Setups : ~s.config.shared /\ ~(s.config.relative /\ s.config.reentrant)
  PROVE  Spec => Direct!Spec
<1>1. Init => Direct!Init
  <2> SUFFICES ASSUME Init PROVE Direct!Init
    OBVIOUS
  <2>1. \A l \in LocationType : Extent(l) \subseteq Address
    BY WidthAssumption DEF LocationType, Extent, Bytes, Address, Size
  <2>2. TypeOK /\ blocked = {}
    BY InitType DEF Init
  <2>3. memoryOf \in [Targets -> SUBSET Address]
    BY <2>1, <2>2 DEF TypeOK, LocationParam, memoryOf
  <2>4. served = [x \in Transactions |-> NoOne]
    BY <2>2 DEF Init, served, ServedIn
  <2> QED BY <2>2, <2>3, <2>4 DEF Init, TypeOK, Direct!Init, memoryOf, served, ServedIn
<1>2. Init => SetupInv
  BY DEF Init, SetupInv
<1>3. (TypeOK /\ RouterInv /\ CallsInv /\ ViewInv) /\ SetupInv /\ [Next]_vars => SetupInv'
  <2> SUFFICES ASSUME TypeOK, RouterInv, SetupInv, [Next]_vars PROVE SetupInv'
    OBVIOUS
  <2>1. UNCHANGED <<config, location>>
    BY HandlerStep DEF Next, Elaborate, Bind, EndBinding, ElaborateOutput, EndElaboration,
                       vars, elabVars, tableVars
  <2> QED BY <2>1 DEF SetupInv
<1>4. (TypeOK /\ RouterInv /\ CallsInv /\ ViewInv) /\ SetupInv /\ [Next]_vars
        => [Direct!Next]_(Direct!vars)
  <2> SUFFICES ASSUME TypeOK, RouterInv, CallsInv, ViewInv, SetupInv, [Next]_vars
               PROVE  Direct!Next \/ UNCHANGED Direct!vars
    OBVIOUS
  <2>1. NoNestedOffset /\ ~config.shared
    BY DEF SetupInv, NoNestedOffset
  <2> QED BY <2>1, DirectBlocking, DirectSimpleCall, DirectNonBlocking, DirectQuiet
          DEF Next, Debug, Dmi
<1> QED BY <1>1, <1>2, <1>3, <1>4, ViewInvariant, PTL DEF Spec, Direct!Spec
=============================================================================
