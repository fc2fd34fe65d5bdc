---------------------------- MODULE GenericRouter ----------------------------
(***************************************************************************)
(* GenericRouter (src/src/utils/tlm-2/routing/generic_router.h) together   *)
(* with the initiators bound to its input socket and the targets bound to  *)
(* its output socket.                                                      *)
(*                                                                         *)
(* SystemC processes are scheduled cooperatively: a call made through      *)
(* nb_transport, transport_dbg or the DMI interfaces runs to its end       *)
(* before another process does, but the callee may call back from inside   *)
(* it, so such calls form one stack.  b_transport may wait, so the calls   *)
(* blocked in a target are a set and everything else interleaves with      *)
(* them.  A router handler is two steps, before and after the call it      *)
(* forwards.                                                               *)
(***************************************************************************)
EXTENDS Location, Sequences

CONSTANTS
    Initiators,    \* sockets bound to inputSocket
    Targets,       \* sockets bound to outputSocket
    Transactions,  \* payload objects
    Owner,         \* Owner[x]: the initiator that uses payload x
    Requests,      \* the addresses initiators ask for
    Setups,        \* the configurations and location parameters to explore
    NoLocation, NoOne

AllInterfaces == {"b_transport", "nb_transport", "transport_dbg", "get_direct_mem_ptr"}

\* relative is setRelativeAddress_, TRUE in MemoryMappedRouter and FALSE in
\* I2CRouter.  The rest says how the router is used: through which interfaces,
\* whether a target may hold exchanges of several initiators at once, and whether
\* an initiator may answer from inside its nb_transport_bw.
Config == [relative : BOOLEAN, interfaces : SUBSET AllInterfaces,
           shared : BOOLEAN, reentrant : BOOLEAN]

\* A location that passes the end of the address space is not equivalent to
\* itself, so std::map has no defined behaviour for it: platforms have none.
LocationParam == {l \in LocationType : Fits(l)} \cup {NoLocation}

Setup == [config : Config, location : [Targets -> LocationParam]]

ASSUME RouterAssumption ==
    /\ Owner \in [Transactions -> Initiators]
    /\ Requests \subseteq Address
    /\ Setups \subseteq Setup
    /\ NoLocation \notin LocationType
    /\ NoOne \notin Initiators \cup Targets

VARIABLES
    config,    \* mSetRelativeAddress, and how the router is used
    stage,     \* "binding", "elaborating", "running", or "aborted" by exit()
    location,  \* the location parameter of each target
    outputs,   \* outputSocket.getSockets(), in bind order
    next,      \* the iterator of end_of_elaboration
    map,       \* mOutputSocketMap, a set of [loc, target] entries
    addr,      \* the address each payload carries
    asked,     \* the address its owner wrote into it
    stack,     \* the calls in progress, innermost first
    blocked,   \* the b_transport calls waiting in a target
    latest,    \* mLatestNBCommunication
    phase,     \* the phase of each exchange, as its target knows it
    view,      \* the phase of each exchange, as its owner knows it
    holder,    \* the target that took the request
    lent,      \* the DMI regions a target has granted, in its own addresses
    grants     \* the DMI regions initiators hold, in theirs

tableVars   == <<config, location, outputs, next, map>>
elabVars    == <<stage, tableVars>>
payloadVars == <<addr, asked>>
callVars    == <<stack, blocked>>
nbVars      == <<latest, phase, view, holder>>
dmiVars     == <<lent, grants>>
vars == <<elabVars, payloadVars, callVars, nbVars, dmiVars>>

Phases == {"idle", "begin_req", "end_req", "begin_resp"}
Entry  == [loc : LocationType, target : Targets]
Region == [lo : Address, hi : Address]
\* A call the router has forwarded: base is it->first.getAddress(), which the
\* handler adds again when the call returns.
Frame  == [iface : AllInterfaces \cup {"nb_transport_bw"}, trans : Transactions,
           init : Initiators, target : Targets, base : Address]

-----------------------------------------------------------------------------
\* Elaboration.

Bound == {outputs[i] : i \in 1 .. Len(outputs)}

\* Output sockets are bound in any order; SystemC refuses a second binding of
\* the same interface.
Bind(t) ==
    /\ stage = "binding"
    /\ t \notin Bound
    /\ outputs' = Append(outputs, t)
    /\ UNCHANGED <<config, stage, location, next, map, payloadVars, callVars, nbVars, dmiVars>>

\* The port policy SC_ONE_OR_MORE_BOUND wants at least one binding.
EndBinding ==
    /\ stage = "binding"
    /\ outputs # <<>>
    /\ stage' = "elaborating"
    /\ UNCHANGED <<tableVars, payloadVars, callVars, nbVars, dmiVars>>

\* Mutant: the keys are compared with operator==.
IsOutputLocationFreeByEq(loc) == \A e \in map : ~LocationEq(e.loc, loc)

\* isOutputLocationFree(): std::map::find() finds no equivalent key.
IsOutputLocationFree(loc) == \A e \in map : ~Equivalent(e.loc, loc)

\* One iteration of the loop of end_of_elaboration: both failures exit().
ElaborateOutput ==
    /\ stage = "elaborating"
    /\ next <= Len(outputs)
    /\ LET t == outputs[next] IN
       IF location[t] # NoLocation /\ IsOutputLocationFree(location[t])
       THEN /\ map' = map \cup {[loc |-> location[t], target |-> t]}
            /\ next' = next + 1
            /\ UNCHANGED stage
       ELSE /\ stage' = "aborted"
            /\ UNCHANGED <<map, next>>
    /\ UNCHANGED <<config, location, outputs, payloadVars, callVars, nbVars, dmiVars>>

EndElaboration ==
    /\ stage = "elaborating"
    /\ next > Len(outputs)
    /\ stage' = "running"
    /\ UNCHANGED <<tableVars, payloadVars, callVars, nbVars, dmiVars>>

-----------------------------------------------------------------------------
\* What the forward handlers share.

\* Mutant: lower_bound() instead of find(), its key not compared again.
FindLowerBound(a) ==
    {e \in map : /\ ~Less(e.loc, Point(a))
                 /\ \A d \in map : ~Less(d.loc, Point(a)) => d = e \/ Less(e.loc, d.loc)}

\* getOutputSocketMapIterator(): the entry whose key is equivalent to the
\* location that is just this address.
Find(a) == {e \in map : Equivalent(e.loc, Point(a))}

\* Mutant: the offset is not added back.
FromTargetNothing(a, base) == a

\* setAddress() before and after the forwarded call.
ToTarget(a, base)   == IF config.relative THEN (a - base) % AddrMod ELSE a
FromTarget(a, base) == IF config.relative THEN (a + base) % AddrMod ELSE a

Calls == {stack[k] : k \in 1 .. Len(stack)} \cup blocked

ForwardCalls == {f \in Calls : f.iface # "nb_transport_bw"}

\* A payload its owner may use for a new request.
Free(x) == /\ phase[x] = "idle"
           /\ view[x] = "idle"
           /\ \A f \in Calls : f.trans # x

FrameOf(iface, x, e) ==
    [iface |-> iface, trans |-> x, init |-> Owner[x], target |-> e.target,
     base |-> e.loc.addr]

SetPayloadAddress(x, a) == addr' = [addr EXCEPT ![x] = a]

\* The owner of x writes the address and calls the interface from a process.
StartCall(iface, x, a) ==
    /\ stage = "running"
    /\ iface \in config.interfaces
    /\ stack = <<>>
    /\ Free(x)
    /\ asked' = [asked EXCEPT ![x] = a]

\* An address without an entry: the handler returns at once.
ReturnUnmapped(x, a) ==
    /\ Find(a) = {}
    /\ SetPayloadAddress(x, a)
    /\ UNCHANGED <<elabVars, callVars, nbVars, dmiVars>>

-----------------------------------------------------------------------------
\* routerBTransport: the target may wait, other processes run meanwhile.
BTransport(x, a) ==
    /\ StartCall("b_transport", x, a)
    /\ \/ ReturnUnmapped(x, a)
       \/ \E e \in Find(a) :
            /\ SetPayloadAddress(x, ToTarget(a, e.loc.addr))
            /\ blocked' = blocked \cup {FrameOf("b_transport", x, e)}
            /\ UNCHANGED <<elabVars, stack, nbVars, dmiVars>>

BTransportReturn(f) ==
    /\ stage = "running"
    /\ stack = <<>>
    /\ SetPayloadAddress(f.trans, FromTarget(addr[f.trans], f.base))
    /\ blocked' = blocked \ {f}
    /\ UNCHANGED <<elabVars, asked, stack, nbVars, dmiVars>>

\* routerTransportDbg and routerGetDirectMemPtr, up to the call of the target.
SimpleCall(iface, x, a) ==
    /\ iface \in {"transport_dbg", "get_direct_mem_ptr"}
    /\ StartCall(iface, x, a)
    /\ \/ ReturnUnmapped(x, a)
       \/ \E e \in Find(a) :
            /\ SetPayloadAddress(x, ToTarget(a, e.loc.addr))
            /\ stack' = <<FrameOf(iface, x, e)>> \o stack
            /\ UNCHANGED <<elabVars, blocked, nbVars, dmiVars>>

\* The innermost call is a forward call through iface.
InCall(iface) == stage = "running" /\ stack # <<>> /\ Head(stack).iface = iface

\* Mutant: the handlers return without adding the offset.
PopCallAsIs == stack' = Tail(stack) /\ UNCHANGED addr

\* The handler's code after the call: the offset is added to the address the
\* payload carries by then.
PopCall ==
    /\ LET f == Head(stack) IN
       SetPayloadAddress(f.trans, FromTarget(addr[f.trans], f.base))
    /\ stack' = Tail(stack)

TransportDbgReturn ==
    /\ InCall("transport_dbg")
    /\ PopCall
    /\ UNCHANGED <<elabVars, asked, blocked, nbVars, dmiVars>>

-----------------------------------------------------------------------------
\* routerNBTransportFw, called by the owner of x with BEGIN_REQ or END_RESP.

\* The code runs in a process of initiator i, or, when initiators answer in
\* place, inside the nb_transport_bw call that i got.
InitiatorRuns(i) ==
    stack # <<>> =>
        config.reentrant /\ Head(stack).iface = "nb_transport_bw" /\ Head(stack).init = i

\* Mutants: the table gets the target instead of the initiator; it keeps its
\* first value, as map::insert would; it is not written before the call.
ForwardNBTable(x, a, e, table) ==
    /\ UNCHANGED stage
    /\ latest' = table
    /\ SetPayloadAddress(x, ToTarget(a, e.loc.addr))
    /\ stack' = <<FrameOf("nb_transport", x, e)>> \o stack

ForwardNBSwapped(x, a, e) ==
    ForwardNBTable(x, a, e, [latest EXCEPT ![e.target] = e.target])
ForwardNBInsert(x, a, e) ==
    ForwardNBTable(x, a, e, [latest EXCEPT ![e.target] = IF @ = NoOne THEN Owner[x] ELSE @])
ForwardNBForgets(x, a, e) == ForwardNBTable(x, a, e, latest)

\* mLatestNBCommunication[i] = id, written before the call is forwarded.  The
\* handler exits when it does not find the socket of the entry in getSockets().
ForwardNB(x, a, e) ==
    /\ stage' = IF e.target \in Bound THEN stage ELSE "aborted"
    /\ latest' = [latest EXCEPT ![e.target] = Owner[x]]
    /\ SetPayloadAddress(x, ToTarget(a, e.loc.addr))
    /\ stack' = <<FrameOf("nb_transport", x, e)>> \o stack

\* The base protocol lets a socket have one request without END_REQ.  Unless
\* targets are shared, the platform also gives a target to one initiator at a
\* time, which may have several exchanges with it.
MayRequest(x, t) ==
    /\ \A y \in Transactions : Owner[y] = Owner[x] => view[y] # "begin_req"
    /\ config.shared \/ \A y \in Transactions : holder[y] = t => Owner[y] = Owner[x]

\* BEGIN_REQ.  An unmapped address is answered with TLM_COMPLETED.
BeginReq(x, a) ==
    /\ StartCall("nb_transport", x, a)
    /\ \/ ReturnUnmapped(x, a)
       \/ \E e \in Find(a) :
            /\ MayRequest(x, e.target)
            /\ ForwardNB(x, a, e)
            /\ phase' = [phase EXCEPT ![x] = "begin_req"]
            /\ view' = [view EXCEPT ![x] = "begin_req"]
            /\ holder' = [holder EXCEPT ![x] = e.target]
            /\ UNCHANGED <<tableVars, blocked, dmiVars>>

\* END_RESP: routed by the address the payload carries now.  Only the target
\* that holds the exchange can end it.
EndResp(x) ==
    /\ stage = "running"
    /\ InitiatorRuns(Owner[x])
    /\ view[x] = "begin_resp"
    /\ view' = [view EXCEPT ![x] = "idle"]
    /\ \/ /\ Find(addr[x]) = {}
          /\ UNCHANGED <<stage, addr, stack, latest, phase, holder>>
       \/ \E e \in Find(addr[x]) :
            /\ ForwardNB(x, addr[x], e)
            /\ IF e.target = holder[x]
               THEN /\ phase' = [phase EXCEPT ![x] = "idle"]
                    /\ holder' = [holder EXCEPT ![x] = NoOne]
               ELSE UNCHANGED <<phase, holder>>
    /\ UNCHANGED <<tableVars, asked, blocked, dmiVars>>

\* The target returns TLM_ACCEPTED: the phase is as the calls inside left it.
NBAccepted ==
    /\ InCall("nb_transport")
    /\ PopCall
    /\ UNCHANGED <<elabVars, asked, blocked, nbVars, dmiVars>>

\* The target answers a request through the return value, TLM_UPDATED with
\* END_REQ or BEGIN_RESP, or TLM_COMPLETED ("idle").  It reaches the caller
\* without the router's table.
NBAnswered(ph) ==
    /\ InCall("nb_transport")
    /\ LET f == Head(stack) IN
       /\ phase[f.trans] = "begin_req" /\ holder[f.trans] = f.target
       /\ ph = "begin_resp" => \A y \in Transactions :
                                  holder[y] = f.target => phase[y] # "begin_resp"
       /\ phase' = [phase EXCEPT ![f.trans] = ph]
       /\ view' = [view EXCEPT ![f.trans] = ph]
       /\ holder' = IF ph = "idle" THEN [holder EXCEPT ![f.trans] = NoOne] ELSE holder
    /\ PopCall
    /\ UNCHANGED <<elabVars, asked, blocked, latest, dmiVars>>

-----------------------------------------------------------------------------
\* routerNBTransportBw, called by target t for a transaction it holds, from a
\* process of t or from inside a call t has received.
TargetRuns(t) ==
    stack # <<>> => Head(stack).iface # "nb_transport_bw" /\ Head(stack).target = t

NextPhases(ph) == CASE ph = "begin_req" -> {"end_req", "begin_resp"}
                    [] ph = "end_req"   -> {"begin_resp"}
                    [] OTHER            -> {}

\* The call goes to the initiator that last called t; without one the router
\* exits.  An initiator ignores a transaction that it does not own.
NBTransportBw(x, ph) ==
    LET t == holder[x] IN
    /\ stage = "running"
    /\ t # NoOne
    /\ TargetRuns(t)
    /\ ph \in NextPhases(phase[x])
    /\ ph = "begin_resp" =>
          \A y \in Transactions : holder[y] = t => phase[y] # "begin_resp"
    /\ phase' = [phase EXCEPT ![x] = ph]
    /\ IF latest[t] = NoOne
       THEN stage' = "aborted" /\ UNCHANGED <<stack, view>>
       ELSE /\ stack' = <<[iface |-> "nb_transport_bw", trans |-> x,
                           init |-> latest[t], target |-> t, base |-> 0]>> \o stack
            /\ view' = IF latest[t] = Owner[x] THEN [view EXCEPT ![x] = ph] ELSE view
            /\ UNCHANGED stage
    /\ UNCHANGED <<tableVars, payloadVars, blocked, latest, holder, dmiVars>>

\* The initiator returns TLM_ACCEPTED, or TLM_COMPLETED to a response.
NBTransportBwReturn(completed) ==
    /\ InCall("nb_transport_bw")
    /\ LET x == Head(stack).trans IN
       IF completed
       THEN /\ view[x] = "begin_resp" /\ Owner[x] = Head(stack).init
            /\ phase' = [phase EXCEPT ![x] = "idle"]
            /\ view' = [view EXCEPT ![x] = "idle"]
            /\ holder' = [holder EXCEPT ![x] = NoOne]
       ELSE UNCHANGED <<phase, view, holder>>
    /\ stack' = Tail(stack)
    /\ UNCHANGED <<elabVars, payloadVars, blocked, latest, dmiVars>>

-----------------------------------------------------------------------------
\* DMI.  A target grants regions of its own memory, in the addresses it sees.

BaseOf(t) == IF config.relative THEN location[t].addr ELSE 0
FirstOf(t) == ToTarget(location[t].addr, location[t].addr)

RegionsOf(t) == {r \in Region : /\ FirstOf(t) <= r.lo /\ r.lo <= r.hi
                                /\ r.hi < FirstOf(t) + Bytes(location[t])}

Meets(r, lo, hi) == r.lo <= hi /\ lo <= r.hi

\* Mutant: only the start of the region is translated.
DmiGrantedStartOnly(r) ==
    /\ InCall("get_direct_mem_ptr")
    /\ LET f == Head(stack) IN
       /\ r \in RegionsOf(f.target)
       /\ lent' = [lent EXCEPT ![f.target] = @ \cup {r}]
       /\ grants' = grants \cup {[init |-> f.init, from |-> f.target,
                                  lo |-> FromTarget(r.lo, f.base), hi |-> r.hi]}
    /\ PopCall
    /\ UNCHANGED <<elabVars, asked, blocked, nbVars>>

\* The rest of routerGetDirectMemPtr: the region is translated, wrapping.
DmiGranted(r) ==
    /\ InCall("get_direct_mem_ptr")
    /\ LET f == Head(stack) IN
       /\ r \in RegionsOf(f.target)
       /\ lent' = [lent EXCEPT ![f.target] = @ \cup {r}]
       /\ grants' = grants \cup
            {[init |-> f.init, from |-> f.target,
              lo |-> FromTarget(r.lo, f.base), hi |-> FromTarget(r.hi, f.base)]}
    /\ PopCall
    /\ UNCHANGED <<elabVars, asked, blocked, nbVars>>

\* A target that returns FALSE, or that allows nothing (is_none_allowed, whose
\* region is then left as it is): in both cases there is no region to use.
DmiRefused ==
    /\ InCall("get_direct_mem_ptr")
    /\ PopCall
    /\ UNCHANGED <<elabVars, asked, blocked, nbVars, dmiVars>>

\* Mutant: the range goes to the initiators that have a region that starts in
\* it, and not to those it cuts in the middle.
InvalidateStartsOnly(t, r) ==
    /\ stage = "running"
    /\ TargetRuns(t)
    /\ \E s \in lent[t] : Meets(s, r.lo, r.hi)
    /\ r \in RegionsOf(t)
    /\ lent' = [lent EXCEPT ![t] = {s \in @ : ~Meets(s, r.lo, r.hi)}]
    /\ grants' = {g \in grants : g.lo \notin r.lo .. r.hi}
    /\ UNCHANGED <<elabVars, payloadVars, callVars, nbVars>>

\* routerInvalidateDirectMemPtr: the target withdraws what it lent in a range
\* of its addresses; every initiator is told that range and drops what meets it.
InvalidateDirectMemPtr(t, r) ==
    /\ stage = "running"
    /\ TargetRuns(t)
    /\ \E s \in lent[t] : Meets(s, r.lo, r.hi)
    /\ r \in RegionsOf(t)
    /\ lent' = [lent EXCEPT ![t] = {s \in @ : ~Meets(s, r.lo, r.hi)}]
    /\ grants' = {g \in grants : ~Meets(g, r.lo, r.hi)}
    /\ UNCHANGED <<elabVars, payloadVars, callVars, nbVars>>

-----------------------------------------------------------------------------
Init ==
    /\ \E s \in Setups : config = s.config /\ location = s.location
    /\ stage = "binding"
    /\ outputs = <<>>
    /\ next = 1
    /\ map = {}
    /\ addr = [x \in Transactions |-> 0]
    /\ asked = [x \in Transactions |-> 0]
    /\ stack = <<>>
    /\ blocked = {}
    /\ latest = [t \in Targets |-> NoOne]
    /\ phase = [x \in Transactions |-> "idle"]
    /\ view = [x \in Transactions |-> "idle"]
    /\ holder = [x \in Transactions |-> NoOne]
    /\ lent = [t \in Targets |-> {}]
    /\ grants = {}

Elaborate == (\E t \in Targets : Bind(t)) \/ EndBinding \/ ElaborateOutput \/ EndElaboration

Blocking == \/ \E x \in Transactions, a \in Requests : BTransport(x, a)
            \/ \E f \in blocked : BTransportReturn(f)

NonBlocking ==
    \/ \E x \in Transactions, a \in Requests : BeginReq(x, a)
    \/ \E x \in Transactions : EndResp(x)
    \/ NBAccepted
    \/ \E ph \in {"idle", "end_req", "begin_resp"} : NBAnswered(ph)
    \/ \E x \in Transactions, ph \in Phases : NBTransportBw(x, ph)
    \/ \E c \in BOOLEAN : NBTransportBwReturn(c)

Debug == \/ \E x \in Transactions, a \in Requests : SimpleCall("transport_dbg", x, a)
         \/ TransportDbgReturn

Dmi == \/ \E x \in Transactions, a \in Requests : SimpleCall("get_direct_mem_ptr", x, a)
       \/ \E r \in Region : DmiGranted(r)
       \/ DmiRefused
       \/ \E t \in Targets, r \in Region : InvalidateDirectMemPtr(t, r)

Next == Elaborate \/ Blocking \/ NonBlocking \/ Debug \/ Dmi

Spec == Init /\ [][Next]_vars

\* The return of a call that is in progress.
Return == \/ TransportDbgReturn
          \/ NBAccepted
          \/ \E ph \in {"idle", "end_req", "begin_resp"} : NBAnswered(ph)
          \/ \E c \in BOOLEAN : NBTransportBwReturn(c)
          \/ \E r \in Region : DmiGranted(r)
          \/ DmiRefused

\* Calls that may not wait return.  The scheduler runs every process that is
\* ready before time advances, so a process is not starved by the calls others
\* make; that targets answer and owners end a response is what the base
\* protocol asks of them.  A blocking call may last for ever.
Fairness ==
    /\ WF_vars(Return)
    /\ \A x \in Transactions : /\ SF_vars(EndResp(x))
                               /\ SF_vars(NBTransportBw(x, "begin_resp"))

FairSpec == Spec /\ Fairness

-----------------------------------------------------------------------------
TypeOK ==
    /\ config \in Config
    /\ stage \in {"binding", "elaborating", "running", "aborted"}
    /\ location \in [Targets -> LocationParam]
    /\ outputs \in Seq(Targets)
    /\ next \in Nat \ {0}
    /\ map \subseteq Entry
    /\ addr \in [Transactions -> Address]
    /\ asked \in [Transactions -> Address]
    /\ stack \in Seq(Frame)
    /\ blocked \subseteq Frame
    /\ latest \in [Targets -> Initiators \cup {NoOne}]
    /\ phase \in [Transactions -> Phases]
    /\ view \in [Transactions -> Phases]
    /\ holder \in [Transactions -> Targets \cup {NoOne}]
    /\ lent \in [Targets -> SUBSET Region]
    /\ grants \subseteq [init : Initiators, from : Targets, lo : Address, hi : Address]

\* Elaboration accepts a platform exactly when every bound target has a
\* location and no two share a byte, in whatever order they were bound
\* (end_of_elaboration compares each with those before it only).
GoodPlatform ==
    /\ \A t \in Bound : location[t] # NoLocation
    /\ \A t, u \in Bound : t # u => ~Overlap(location[t], location[u])

ElaborationVerdict == /\ stage = "running" => GoodPlatform
                      /\ stage = "aborted" => ~GoodPlatform

\* A payload whose call is in progress carries a relative address: an initiator
\* that sends END_RESP from inside its nb_transport_bw gives it to the router as
\* it is.  What follows is promised to the other uses of the router.
NoNestedOffset == ~(config.relative /\ config.reentrant)

\* A forwarded call is in the target whose location holds the address its
\* owner asked for, and sees the offset of that address in the location (the
\* address itself when the router does not translate), for as long as it lasts
\* and whatever other calls do meanwhile.
InService(x) == {f \in ForwardCalls : f.trans = x}

CallsSeeTheirTarget ==
    NoNestedOffset => \A f \in ForwardCalls :
        LET loc == location[f.target] IN
        /\ asked[f.trans] \in Extent(loc)
        /\ addr[f.trans] = (IF config.relative THEN asked[f.trans] - loc.addr
                                        ELSE asked[f.trans])

\* A payload that is not in a forwarded call carries the address that its owner
\* wrote, however the calls it went through were nested and interleaved.
AddressRestored ==
    \A x \in Transactions : InService(x) = {} => addr[x] = asked[x]

\* The owner and the target of an exchange agree on its phase: no answer was
\* lost or given to another initiator, and no END_RESP went to another target.
\* Targets that hold exchanges of several initiators at once are not promised
\* it (see AnswersReachTheirOwner).
ViewsAgree == NoNestedOffset /\ ~config.shared => view = phase

\* generic_router.h:230 says of the table of routerNBTransportBw "Getting ID of
\* the initiator socket that initiated the exchange".
AnswersReachTheirOwner ==
    \A f \in Calls : f.iface = "nb_transport_bw" => f.init = Owner[f.trans]

\* A router that runs does not exit: the table always names an initiator for
\* the answer of a target that holds a request.
NeverExits == [][stage = "running" => stage' = "running"]_vars

\* What an initiator may access directly is memory that its target still lends,
\* in the target's own addresses.
DmiCoherent ==
    \A g \in grants :
        [lo |-> g.lo - BaseOf(g.from), hi |-> g.hi - BaseOf(g.from)] \in lent[g.from]

\* Without translation the range of an invalidation means the same on both sides.
AbsoluteDmiCoherent == ~config.relative => DmiCoherent

\* A region an initiator may access directly lies in the location of the target
\* that lent it, so the accesses it makes are those the router would have sent.
DmiStaysHome ==
    \A g \in grants : {g.lo, g.hi} \subseteq Extent(location[g.from]) /\ g.lo <= g.hi

\* Every request is answered and ended, for its target and for its owner.
ExchangesEnd ==
    \A x \in Transactions :
        phase[x] = "begin_req" ~> phase[x] = "idle" /\ view[x] = "idle"

-----------------------------------------------------------------------------
\* While targets are not shared, the router is as good as a
\* direct connection of every initiator with every target.
Direct == INSTANCE Interconnect WITH
    Addresses <- Address,
    memory <- [t \in Targets |-> IF location[t] = NoLocation THEN {}
                                                           ELSE Extent(location[t])],
    ownerPhase <- view,
    targetPhase <- phase,
    servedBy <- [x \in Transactions |->
                   IF \E f \in blocked : f.trans = x
                   THEN (CHOOSE f \in blocked : f.trans = x).target
                   ELSE holder[x]]

DirectSpec == Direct!FairSpec
=============================================================================
