------------------------ MODULE GenericRouterProofs ------------------------
(***************************************************************************)
(* Theorems about GenericRouter, for any number of initiators, targets and *)
(* payloads, any platform and any address width.                           *)
(***************************************************************************)
EXTENDS GenericRouter, LocationProofs, SequenceTheorems

-----------------------------------------------------------------------------
\* The call stack.

LEMMA PushType ==
  ASSUME NEW s \in Seq(Frame), NEW f \in Frame
  PROVE  /\ <<f>> \o s \in Seq(Frame)
         /\ Len(<<f>> \o s) = Len(s) + 1
         /\ (<<f>> \o s)[1] = f
         /\ \A k \in 2 .. Len(s) + 1 : (<<f>> \o s)[k] = s[k - 1]
  OBVIOUS

LEMMA PopType ==
  ASSUME NEW s \in Seq(Frame), s # <<>>
  PROVE  /\ Head(s) \in Frame
         /\ Head(s) = s[1]
         /\ 1 \in 1 .. Len(s)
         /\ Tail(s) \in Seq(Frame)
         /\ Len(Tail(s)) = Len(s) - 1
         /\ \A k \in 1 .. Len(s) - 1 : Tail(s)[k] = s[k + 1]
  OBVIOUS

\* A frame the router pushes is one, and the addresses stay in their width.
LEMMA FrameType ==
  ASSUME NEW x \in Transactions, NEW iface \in AllInterfaces, NEW e \in Entry
  PROVE  FrameOf(iface, x, e) \in Frame
  BY RouterAssumption DEF FrameOf, Frame, Entry, LocationType

LEMMA OffsetType ==
  ASSUME NEW a \in Address, NEW b \in Address
  PROVE  ToTarget(a, b) \in Address /\ FromTarget(a, b) \in Address
<1>1. (a - b) % AddrMod \in Address /\ (a + b) % AddrMod \in Address
  BY WidthAssumption DEF Address
<1> QED BY <1>1 DEF ToTarget, FromTarget

-----------------------------------------------------------------------------
\* The state stays in its types, through every handler and every callback.
LEMMA InitType == Init => TypeOK
<1> SUFFICES ASSUME Init PROVE TypeOK
  OBVIOUS
<1>1. config \in Config /\ location \in [Targets -> LocationParam]
  BY RouterAssumption DEF Init, Setup
<1> QED BY <1>1, WidthAssumption
        DEF Init, TypeOK, Phases, Entry, Frame, Region, Address

LEMMA ElaborateType ==
  ASSUME TypeOK, Elaborate
  PROVE  TypeOK'
<1> USE DEF TypeOK
<1>1. CASE \E t \in Targets : Bind(t)
  BY <1>1 DEF Bind, tableVars, payloadVars, callVars, nbVars, dmiVars
<1>2. CASE EndBinding
  BY <1>2 DEF EndBinding, tableVars, payloadVars, callVars, nbVars, dmiVars
<1>3. CASE ElaborateOutput
  <2>1. CASE next <= Len(outputs) /\ location[outputs[next]] # NoLocation
    <3>1. outputs[next] \in Targets
      BY <2>1
    <3>2. location[outputs[next]] \in LocationType
      BY <2>1, <3>1 DEF LocationParam
    <3> QED BY <1>3, <3>1, <3>2
            DEF ElaborateOutput, Entry, payloadVars, callVars, nbVars, dmiVars
  <2>2. CASE ~(next <= Len(outputs) /\ location[outputs[next]] # NoLocation)
    BY <1>3, <2>2 DEF ElaborateOutput, payloadVars, callVars, nbVars, dmiVars
  <2> QED BY <2>1, <2>2
<1>4. CASE EndElaboration
  BY <1>4 DEF EndElaboration, tableVars, payloadVars, callVars, nbVars, dmiVars
<1> QED BY <1>1, <1>2, <1>3, <1>4 DEF Elaborate

LEMMA BlockingType ==
  ASSUME TypeOK, Blocking
  PROVE  TypeOK'
<1> USE DEF TypeOK, elabVars, tableVars, callVars, nbVars, dmiVars, payloadVars
<1>1. ASSUME NEW x \in Transactions, NEW a \in Requests, BTransport(x, a)
      PROVE  TypeOK'
  <2>1. a \in Address
    BY RouterAssumption
  <2>2. CASE ReturnUnmapped(x, a)
    BY <1>1, <2>1, <2>2 DEF BTransport, StartCall, ReturnUnmapped, SetPayloadAddress
  <2>3. CASE ~ReturnUnmapped(x, a)
    <3>1. PICK e \in Find(a) :
            /\ SetPayloadAddress(x, ToTarget(a, e.loc.addr))
            /\ blocked' = blocked \cup {FrameOf("b_transport", x, e)}
            /\ UNCHANGED <<elabVars, stack, nbVars, dmiVars>>
      BY <1>1, <2>3 DEF BTransport
    <3>2. e \in Entry /\ e.loc.addr \in Address
      BY DEF Find, Entry, LocationType
    <3>3. FrameOf("b_transport", x, e) \in Frame
      BY <3>2, FrameType DEF AllInterfaces
    <3>4. ToTarget(a, e.loc.addr) \in Address
      BY <2>1, <3>2, OffsetType
    <3> QED BY <1>1, <2>1, <3>1, <3>3, <3>4
            DEF BTransport, StartCall, SetPayloadAddress
  <2> QED BY <2>2, <2>3
<1>2. ASSUME NEW f \in blocked, BTransportReturn(f)
      PROVE  TypeOK'
  <2>1. f \in Frame /\ f.trans \in Transactions /\ f.base \in Address
    BY DEF Frame
  <2>2. FromTarget(addr[f.trans], f.base) \in Address
    BY <2>1, OffsetType
  <2> QED BY <1>2, <2>1, <2>2 DEF BTransportReturn, SetPayloadAddress
<1> QED BY <1>1, <1>2 DEF Blocking

\* What a forward handler does after the call keeps the stack and the payloads
\* in their types.
LEMMA PopCallType ==
  ASSUME TypeOK, stack # <<>>, PopCall
  PROVE  stack' \in Seq(Frame) /\ addr' \in [Transactions -> Address]
<1>1. Head(stack) \in Frame /\ Tail(stack) \in Seq(Frame)
  BY PopType DEF TypeOK
<1>2. Head(stack).trans \in Transactions /\ Head(stack).base \in Address
  BY <1>1 DEF Frame
<1>3. FromTarget(addr[Head(stack).trans], Head(stack).base) \in Address
  BY <1>2, OffsetType DEF TypeOK
<1> QED BY <1>1, <1>2, <1>3 DEF PopCall, SetPayloadAddress, TypeOK

LEMMA ForwardNBType ==
  ASSUME TypeOK, NEW x \in Transactions, NEW a \in Address, NEW e \in map,
         ForwardNB(x, a, e), stage = "running"
  PROVE  /\ stage' \in {"binding", "elaborating", "running", "aborted"}
         /\ latest' \in [Targets -> Initiators \cup {NoOne}]
         /\ addr' \in [Transactions -> Address]
         /\ stack' \in Seq(Frame)
         /\ e.target \in Targets
<1>1. e \in Entry /\ e.loc.addr \in Address /\ e.target \in Targets
  BY DEF TypeOK, Entry, LocationType
<1>2. FrameOf("nb_transport", x, e) \in Frame
  BY <1>1, FrameType DEF AllInterfaces
<1>3. ToTarget(a, e.loc.addr) \in Address
  BY <1>1, OffsetType
<1>4. stack' \in Seq(Frame)
  BY <1>2, PushType DEF ForwardNB, TypeOK
<1>5. Owner[x] \in Initiators
  BY RouterAssumption
<1> QED BY <1>1, <1>3, <1>4, <1>5 DEF ForwardNB, SetPayloadAddress, TypeOK

LEMMA NonBlockingType ==
  ASSUME TypeOK, NonBlocking
  PROVE  TypeOK'
<1> USE DEF elabVars, tableVars, callVars, nbVars, dmiVars, payloadVars
<1>1. ASSUME NEW x \in Transactions, NEW a \in Requests, BeginReq(x, a)
      PROVE  TypeOK'
  <2>1. a \in Address /\ stage = "running"
    BY <1>1, RouterAssumption DEF BeginReq, StartCall
  <2>2. CASE ReturnUnmapped(x, a)
    BY <1>1, <2>1, <2>2 DEF TypeOK, BeginReq, StartCall, ReturnUnmapped, SetPayloadAddress
  <2>3. CASE ~ReturnUnmapped(x, a)
    <3>1. PICK e \in Find(a) :
            /\ ForwardNB(x, a, e)
            /\ phase' = [phase EXCEPT ![x] = "begin_req"]
            /\ view' = [view EXCEPT ![x] = "begin_req"]
            /\ holder' = [holder EXCEPT ![x] = e.target]
            /\ UNCHANGED <<tableVars, blocked, dmiVars>>
      BY <1>1, <2>3 DEF BeginReq
    <3>2. e \in map
      BY DEF Find
    <3> QED BY <1>1, <2>1, <3>1, <3>2, ForwardNBType
            DEF TypeOK, BeginReq, StartCall, Phases
  <2> QED BY <2>2, <2>3
<1>2. ASSUME NEW x \in Transactions, EndResp(x)
      PROVE  TypeOK'
  <2>1. addr[x] \in Address /\ stage = "running"
    BY <1>2 DEF TypeOK, EndResp
  <2>2. CASE UNCHANGED <<stage, addr, stack, latest, phase, holder>>
    BY <1>2, <2>2 DEF TypeOK, EndResp, Phases
  <2>3. CASE ~UNCHANGED <<stage, addr, stack, latest, phase, holder>>
    <3>1. PICK e \in Find(addr[x]) :
            /\ ForwardNB(x, addr[x], e)
            /\ IF e.target = holder[x]
               THEN /\ phase' = [phase EXCEPT ![x] = "idle"]
                    /\ holder' = [holder EXCEPT ![x] = NoOne]
               ELSE UNCHANGED <<phase, holder>>
      BY <1>2, <2>3 DEF EndResp
    <3>2. e \in map
      BY DEF Find
    <3>3. phase' \in [Transactions -> Phases] /\ holder' \in [Transactions -> Targets \cup {NoOne}]
      BY <3>1 DEF TypeOK, Phases
    <3> QED BY <1>2, <2>1, <3>1, <3>2, <3>3, ForwardNBType DEF TypeOK, EndResp, Phases
  <2> QED BY <2>2, <2>3
<1>3. CASE NBAccepted
  BY <1>3, PopCallType DEF TypeOK, NBAccepted, InCall
<1>4. ASSUME NEW ph \in {"idle", "end_req", "begin_resp"}, NBAnswered(ph)
      PROVE  TypeOK'
  BY <1>4, PopCallType DEF TypeOK, NBAnswered, InCall, Phases
<1>5. ASSUME NEW x \in Transactions, NEW ph \in Phases, NBTransportBw(x, ph)
      PROVE  TypeOK'
  <2>1. holder[x] \in Targets
    BY <1>5 DEF TypeOK, NBTransportBw
  <2>2. CASE latest[holder[x]] = NoOne
    BY <1>5, <2>1, <2>2 DEF TypeOK, NBTransportBw
  <2>3. CASE latest[holder[x]] # NoOne
    <3> DEFINE f == [iface |-> "nb_transport_bw", trans |-> x,
                     init |-> latest[holder[x]], target |-> holder[x], base |-> 0]
    <3>1. f \in Frame
      BY <2>1, <2>3, WidthAssumption DEF TypeOK, Frame, Address
    <3>2. stack' = <<f>> \o stack
      BY <1>5, <2>3 DEF NBTransportBw
    <3>3. stack' \in Seq(Frame)
      BY <3>1, <3>2, PushType DEF TypeOK
    <3> HIDE DEF f
    <3> QED BY <1>5, <2>3, <3>3 DEF TypeOK, NBTransportBw
  <2> QED BY <2>2, <2>3
<1>6. ASSUME NEW c \in BOOLEAN, NBTransportBwReturn(c)
      PROVE  TypeOK'
  <2>1. Tail(stack) \in Seq(Frame) /\ Head(stack).trans \in Transactions
    BY <1>6, PopType DEF TypeOK, NBTransportBwReturn, InCall, Frame
  <2> QED BY <1>6, <2>1 DEF TypeOK, NBTransportBwReturn, Phases
<1> QED BY <1>1, <1>2, <1>3, <1>4, <1>5, <1>6 DEF NonBlocking

LEMMA SimpleCallType ==
  ASSUME TypeOK, NEW x \in Transactions, NEW a \in Requests, NEW iface,
         SimpleCall(iface, x, a)
  PROVE  TypeOK'
<1> USE DEF elabVars, tableVars, callVars, nbVars, dmiVars, payloadVars
<1>1. a \in Address /\ iface \in AllInterfaces
  BY RouterAssumption DEF SimpleCall, AllInterfaces
<1>2. CASE ReturnUnmapped(x, a)
  BY <1>1, <1>2 DEF TypeOK, SimpleCall, StartCall, ReturnUnmapped, SetPayloadAddress
<1>3. CASE ~ReturnUnmapped(x, a)
  <2>1. PICK e \in Find(a) :
          /\ SetPayloadAddress(x, ToTarget(a, e.loc.addr))
          /\ stack' = <<FrameOf(iface, x, e)>> \o stack
          /\ UNCHANGED <<elabVars, blocked, nbVars, dmiVars>>
    BY <1>3 DEF SimpleCall
  <2>2. e \in Entry /\ e.loc.addr \in Address
    BY DEF TypeOK, Find, Entry, LocationType
  <2>3. stack' \in Seq(Frame)
    BY <1>1, <2>1, <2>2, FrameType, PushType DEF TypeOK
  <2>4. ToTarget(a, e.loc.addr) \in Address
    BY <1>1, <2>2, OffsetType
  <2> QED BY <1>1, <2>1, <2>3, <2>4 DEF TypeOK, SimpleCall, StartCall, SetPayloadAddress
<1> QED BY <1>2, <1>3

LEMMA DebugType ==
  ASSUME TypeOK, Debug
  PROVE  TypeOK'
<1>1. CASE TransportDbgReturn
  BY <1>1, PopCallType
  DEF TypeOK, TransportDbgReturn, InCall, elabVars, tableVars, nbVars, dmiVars
<1> QED BY <1>1, SimpleCallType DEF Debug

LEMMA DmiType ==
  ASSUME TypeOK, Dmi
  PROVE  TypeOK'
<1> USE DEF elabVars, tableVars, callVars, nbVars, dmiVars, payloadVars
<1>1. ASSUME NEW r \in Region, DmiGranted(r)
      PROVE  TypeOK'
  <2> DEFINE f == Head(stack)
  <2>1. f \in Frame
    BY <1>1, PopType DEF TypeOK, DmiGranted, InCall
  <2>2. FromTarget(r.lo, f.base) \in Address /\ FromTarget(r.hi, f.base) \in Address
    BY <2>1, OffsetType DEF Frame, Region
  <2>3. [init |-> f.init, from |-> f.target,
         lo |-> FromTarget(r.lo, f.base), hi |-> FromTarget(r.hi, f.base)]
          \in [init : Initiators, from : Targets, lo : Address, hi : Address]
    BY <2>1, <2>2 DEF Frame
  <2>4. stack' \in Seq(Frame) /\ addr' \in [Transactions -> Address]
    BY <1>1, PopCallType DEF DmiGranted, InCall
  <2>5. lent' \in [Targets -> SUBSET Region]
    BY <1>1, <2>1 DEF TypeOK, DmiGranted
  <2>6. grants' \subseteq [init : Initiators, from : Targets, lo : Address, hi : Address]
    BY <1>1, <2>3 DEF TypeOK, DmiGranted
  <2> QED BY <1>1, <2>4, <2>5, <2>6 DEF TypeOK, DmiGranted
<1>2. CASE DmiRefused
  BY <1>2, PopCallType DEF TypeOK, DmiRefused, InCall
<1>3. ASSUME NEW t \in Targets, NEW r \in Region, InvalidateDirectMemPtr(t, r)
      PROVE  TypeOK'
  BY <1>3 DEF TypeOK, InvalidateDirectMemPtr
<1> QED BY <1>1, <1>2, <1>3, SimpleCallType DEF Dmi

\* TypeOK is an invariant of the router, for every value of its parameters.
THEOREM TypeCorrect == Spec => []TypeOK
<1>1. TypeOK /\ [Next]_vars => TypeOK'
  <2>1. ASSUME TypeOK, UNCHANGED vars PROVE TypeOK'
    BY <2>1 DEF TypeOK, vars, elabVars, tableVars, callVars, nbVars, dmiVars, payloadVars
  <2> QED BY <2>1, ElaborateType, BlockingType, NonBlockingType, DebugType, DmiType
          DEF Next
<1> QED BY <1>1, InitType, PTL DEF Spec

-----------------------------------------------------------------------------
\* The inductive invariant of elaboration and of the table of nb_transport_bw.

\* No socket is bound twice, and the loop of end_of_elaboration is within them.
LoopInv ==
    /\ \A i, j \in 1 .. Len(outputs) : outputs[i] = outputs[j] => i = j
    /\ next <= Len(outputs) + 1
    /\ stage = "binding" => next = 1
    /\ stage = "running" => next = Len(outputs) + 1

\* The map holds the locations of the sockets the loop has passed, and they
\* have no byte in common.
MapInv ==
    /\ map = {[loc |-> location[outputs[i]], target |-> outputs[i]] : i \in 1 .. next - 1}
    /\ \A i \in 1 .. next - 1 : location[outputs[i]] # NoLocation
    /\ \A i, j \in 1 .. next - 1 :
          i # j => ~Overlap(location[outputs[i]], location[outputs[j]])

\* Only elaboration exits, and for a reason.
AbortInv == stage = "aborted" => ~GoodPlatform

\* A target that holds an exchange has been called: the table has it.
TableInv == \A x \in Transactions : holder[x] # NoOne => latest[holder[x]] # NoOne

RouterInv == LoopInv /\ MapInv /\ AbortInv /\ TableInv

LEMMA LocationOfOutput ==
  ASSUME TypeOK, NEW t \in Targets, location[t] # NoLocation
  PROVE  location[t] \in LocationType /\ Fits(location[t])
<1>1. location[t] \in LocationParam
  BY DEF TypeOK
<1> QED BY <1>1 DEF LocationParam

LEMMA InitInv == Init => RouterInv
<1> SUFFICES ASSUME Init PROVE RouterInv
  OBVIOUS
<1>1. LoopInv
  BY DEF Init, LoopInv
<1>2. MapInv
  BY DEF Init, MapInv
<1> QED BY <1>1, <1>2 DEF Init, RouterInv, AbortInv, TableInv

LEMMA ElaborateInv ==
  ASSUME TypeOK, RouterInv, Elaborate
  PROVE  RouterInv'
<1> USE DEF RouterInv
<1>0. TableInv'
  <2>1. UNCHANGED nbVars
    BY DEF Elaborate, Bind, EndBinding, ElaborateOutput, EndElaboration
  <2> QED BY <2>1 DEF TableInv, nbVars
<1>1. ASSUME NEW t \in Targets, Bind(t) PROVE RouterInv'
  <2>1. /\ outputs' \in Seq(Targets) /\ Len(outputs') = Len(outputs) + 1
        /\ \A i \in 1 .. Len(outputs) : outputs'[i] = outputs[i]
        /\ outputs'[Len(outputs) + 1] = t
    BY <1>1 DEF Bind, TypeOK
  <2>2. LoopInv'
    BY <1>1, <2>1 DEF LoopInv, Bind, Bound
  <2>3. MapInv'
    BY <1>1 DEF MapInv, LoopInv, Bind
  <2>4. AbortInv'
    BY <1>1 DEF AbortInv, Bind
  <2> QED BY <1>0, <2>2, <2>3, <2>4
<1>2. CASE EndBinding
  <2>1. LoopInv' /\ AbortInv'
    BY <1>2 DEF LoopInv, AbortInv, EndBinding, tableVars
  <2>2. MapInv'
    BY <1>2 DEF MapInv, EndBinding, tableVars
  <2> QED BY <1>0, <2>1, <2>2
<1>3. CASE ElaborateOutput
  <2> DEFINE t == outputs[next]
             L(i) == location[outputs[i]]
  <2>0. /\ stage = "elaborating" /\ next \in 1 .. Len(outputs) /\ t \in Targets
        /\ UNCHANGED <<location, outputs>>
    BY <1>3 DEF ElaborateOutput, TypeOK
  <2>1. CASE location[t] # NoLocation /\ IsOutputLocationFree(location[t])
    <3>1. /\ map' = map \cup {[loc |-> location[t], target |-> t]}
          /\ next' = next + 1 /\ stage' = stage
      BY <1>3, <2>0, <2>1 DEF ElaborateOutput
    <3>2. 1 .. next' - 1 = (1 .. next - 1) \cup {next}
      BY <2>0, <3>1
    <3>3. ASSUME NEW i \in 1 .. next - 1
          PROVE  ~Overlap(L(i), location[t]) /\ ~Overlap(location[t], L(i))
      <4>1. [loc |-> L(i), target |-> outputs[i]] \in map /\ L(i) # NoLocation
        BY DEF MapInv
      <4>2. ~Equivalent(L(i), location[t])
        BY <2>1, <4>1 DEF IsOutputLocationFree
      <4>3. outputs[i] \in Targets
        BY <2>0 DEF TypeOK
      <4>4. ~Overlap(L(i), location[t])
        BY <2>0, <2>1, <4>1, <4>2, <4>3, LocationOfOutput, EquivalentIsOverlap
      <4> QED BY <4>4 DEF Overlap
    <3>4. MapInv'
      <4>1. map' = {[loc |-> L(i), target |-> outputs[i]] : i \in 1 .. next' - 1}
        BY <3>1, <3>2 DEF MapInv
      <4>2. \A i \in 1 .. next' - 1 : L(i) # NoLocation
        BY <2>1, <3>2 DEF MapInv
      <4>3. \A i, j \in 1 .. next' - 1 : i # j => ~Overlap(L(i), L(j))
        BY <3>2, <3>3 DEF MapInv
      <4> QED BY <2>0, <4>1, <4>2, <4>3 DEF MapInv
    <3>5. LoopInv' /\ AbortInv'
      BY <2>0, <3>1 DEF LoopInv, AbortInv
    <3> QED BY <1>0, <3>4, <3>5
  <2>2. CASE ~(location[t] # NoLocation /\ IsOutputLocationFree(location[t]))
    <3>1. stage' = "aborted" /\ UNCHANGED <<map, next>>
      BY <1>3, <2>2 DEF ElaborateOutput
    <3>2. ~GoodPlatform
      <4>1. t \in Bound
        BY <2>0 DEF Bound
      <4>2. CASE location[t] = NoLocation
        BY <4>1, <4>2 DEF GoodPlatform
      <4>3. CASE location[t] # NoLocation
        <5>1. PICK e \in map : Equivalent(e.loc, location[t])
          BY <2>2, <4>3 DEF IsOutputLocationFree
        <5>2. PICK i \in 1 .. next - 1 : e = [loc |-> L(i), target |-> outputs[i]]
          BY <5>1 DEF MapInv
        <5>3. L(i) # NoLocation /\ outputs[i] \in Targets /\ outputs[i] \in Bound
          BY <2>0 DEF MapInv, TypeOK, Bound
        <5>4. outputs[i] # t
          BY <2>0 DEF LoopInv
        <5>5. Overlap(L(i), location[t])
          BY <2>0, <4>3, <5>1, <5>2, <5>3, LocationOfOutput, EquivalentIsOverlap
        <5> QED BY <4>1, <5>3, <5>4, <5>5 DEF GoodPlatform
      <4> QED BY <4>2, <4>3
    <3>3. AbortInv'
      BY <2>0, <3>2 DEF AbortInv, GoodPlatform, Bound
    <3>4. LoopInv' /\ MapInv'
      BY <2>0, <3>1 DEF LoopInv, MapInv
    <3> QED BY <1>0, <3>3, <3>4
  <2> QED BY <2>1, <2>2
<1>4. CASE EndElaboration
  <2>1. LoopInv' /\ AbortInv'
    BY <1>4 DEF LoopInv, AbortInv, EndElaboration, tableVars, TypeOK
  <2>2. MapInv'
    BY <1>4 DEF MapInv, EndElaboration, tableVars
  <2> QED BY <1>0, <2>1, <2>2
<1> QED BY <1>1, <1>2, <1>3, <1>4 DEF Elaborate

\* A handler of a router that runs leaves elaboration's tables alone and does
\* not exit: the entry it found belongs to a bound socket, and the table of
\* nb_transport_bw has whom to answer.
LEMMA HandlerStep ==
  ASSUME TypeOK, RouterInv, Blocking \/ NonBlocking \/ Debug \/ Dmi
  PROVE  stage = "running" /\ stage' = stage /\ UNCHANGED tableVars /\ TableInv'
<1> USE DEF RouterInv, elabVars, nbVars
<1>1. CASE Blocking
  BY <1>1 DEF Blocking, BTransport, BTransportReturn, StartCall, ReturnUnmapped, TableInv
<1>2. CASE Debug
  BY <1>2 DEF Debug, SimpleCall, StartCall, ReturnUnmapped, TransportDbgReturn, InCall, TableInv
<1>3. CASE Dmi
  BY <1>3 DEF Dmi, SimpleCall, StartCall, ReturnUnmapped, DmiGranted, DmiRefused,
              InvalidateDirectMemPtr, InCall, TableInv
<1>4. CASE NonBlocking
  <2>0. ASSUME NEW e \in map PROVE e.target \in Bound /\ e.target \in Targets
    <3>1. PICK i \in 1 .. next - 1 : e = [loc |-> location[outputs[i]], target |-> outputs[i]]
      BY DEF MapInv
    <3> QED BY <3>1 DEF LoopInv, Bound, TypeOK
  <2>1. ASSUME NEW x \in Transactions, NEW a \in Requests, BeginReq(x, a)
        PROVE  stage = "running" /\ stage' = stage /\ UNCHANGED tableVars /\ TableInv'
    <3>1. CASE ReturnUnmapped(x, a)
      BY <2>1, <3>1 DEF BeginReq, StartCall, ReturnUnmapped, TableInv
    <3>2. CASE ~ReturnUnmapped(x, a)
      <4>1. PICK e \in Find(a) :
              /\ ForwardNB(x, a, e)
              /\ holder' = [holder EXCEPT ![x] = e.target]
              /\ UNCHANGED tableVars
        BY <2>1, <3>2 DEF BeginReq
      <4>2. e.target \in Bound /\ e.target \in Targets
        BY <2>0 DEF Find
      <4>3. Owner[x] # NoOne
        BY RouterAssumption
      <4> QED BY <2>1, <4>1, <4>2, <4>3 DEF BeginReq, StartCall, ForwardNB, TableInv, TypeOK
    <3> QED BY <3>1, <3>2
  <2>2. ASSUME NEW x \in Transactions, EndResp(x)
        PROVE  stage = "running" /\ stage' = stage /\ UNCHANGED tableVars /\ TableInv'
    <3>1. CASE UNCHANGED <<stage, addr, stack, latest, phase, holder>>
      BY <2>2, <3>1 DEF EndResp, TableInv
    <3>2. CASE ~UNCHANGED <<stage, addr, stack, latest, phase, holder>>
      <4>1. PICK e \in Find(addr[x]) :
              /\ ForwardNB(x, addr[x], e)
              /\ holder' = [holder EXCEPT ![x] = NoOne] \/ UNCHANGED holder
        BY <2>2, <3>2 DEF EndResp
      <4>2. e.target \in Bound /\ e.target \in Targets
        BY <2>0 DEF Find
      <4>3. Owner[x] # NoOne
        BY RouterAssumption
      <4> QED BY <2>2, <4>1, <4>2, <4>3 DEF EndResp, ForwardNB, TableInv, TypeOK
    <3> QED BY <3>1, <3>2
  <2>3. CASE NBAccepted
    BY <2>3 DEF NBAccepted, InCall, TableInv
  <2>4. ASSUME NEW ph \in {"idle", "end_req", "begin_resp"}, NBAnswered(ph)
        PROVE  stage = "running" /\ stage' = stage /\ UNCHANGED tableVars /\ TableInv'
    BY <2>4 DEF NBAnswered, InCall, TableInv, TypeOK
  <2>5. ASSUME NEW x \in Transactions, NEW ph \in Phases, NBTransportBw(x, ph)
        PROVE  stage = "running" /\ stage' = stage /\ UNCHANGED tableVars /\ TableInv'
    BY <2>5 DEF NBTransportBw, TableInv
  <2>6. ASSUME NEW c \in BOOLEAN, NBTransportBwReturn(c)
        PROVE  stage = "running" /\ stage' = stage /\ UNCHANGED tableVars /\ TableInv'
    BY <2>6 DEF NBTransportBwReturn, InCall, TableInv, TypeOK
  <2> QED BY <1>4, <2>1, <2>2, <2>3, <2>4, <2>5, <2>6 DEF NonBlocking
<1> QED BY <1>1, <1>2, <1>3, <1>4

LEMMA NextInv ==
  ASSUME TypeOK, RouterInv, [Next]_vars
  PROVE  RouterInv'
<1>1. CASE Elaborate
  BY <1>1, ElaborateInv
<1>2. CASE Blocking \/ NonBlocking \/ Debug \/ Dmi
  <2>1. stage' = stage /\ UNCHANGED tableVars /\ TableInv'
    BY <1>2, HandlerStep
  <2> QED BY <2>1 DEF RouterInv, LoopInv, MapInv, AbortInv, GoodPlatform, Bound, tableVars
<1>3. CASE UNCHANGED vars
  BY <1>3 DEF vars, elabVars, tableVars, nbVars, RouterInv, LoopInv, MapInv, AbortInv,
              TableInv, GoodPlatform, Bound
<1> QED BY <1>1, <1>2, <1>3 DEF Next

THEOREM RouterInvariant == Spec => [](TypeOK /\ RouterInv)
<1>1. (TypeOK /\ RouterInv) /\ (TypeOK' /\ [Next]_vars) => RouterInv'
  BY NextInv
<1> QED BY <1>1, InitInv, TypeCorrect, PTL DEF Spec

\* A platform is accepted exactly when its bound targets have locations that
\* share no byte, in whatever order they were bound.
THEOREM ElaborationIsSound == Spec => []ElaborationVerdict
<1>1. TypeOK /\ RouterInv => ElaborationVerdict
  <2> SUFFICES ASSUME TypeOK, RouterInv, stage = "running" PROVE GoodPlatform
    BY DEF RouterInv, AbortInv, ElaborationVerdict
  <2>1. Bound = {outputs[i] : i \in 1 .. next - 1}
    BY DEF Bound, RouterInv, LoopInv, TypeOK
  <2> QED BY <2>1 DEF GoodPlatform, RouterInv, MapInv
<1> QED BY <1>1, RouterInvariant, PTL

\* A router that runs never exits, whatever its initiators and targets do
\* within the protocol: no interleaving or nesting of calls makes it abort.
THEOREM RouterNeverExits == Spec => NeverExits
<1>1. TypeOK /\ RouterInv /\ [Next]_vars => [stage = "running" => stage' = "running"]_vars
  <2> SUFFICES ASSUME TypeOK, RouterInv, Next, stage = "running"
               PROVE  stage' = "running"
    OBVIOUS
  <2>1. CASE Elaborate
    BY <2>1 DEF Elaborate, Bind, EndBinding, ElaborateOutput, EndElaboration, RouterInv, LoopInv
  <2>2. CASE Blocking \/ NonBlocking \/ Debug \/ Dmi
    BY <2>2, HandlerStep
  <2> QED BY <2>1, <2>2 DEF Next
<1> QED BY <1>1, RouterInvariant, PTL DEF Spec, NeverExits
=============================================================================
