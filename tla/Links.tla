-------------------------------- MODULE Links --------------------------------
(***************************************************************************)
(* The sockets between two modules: memory-mapped initiator and target     *)
(* sockets, each with a ProtocolAdapter that it uses when its peer is a    *)
(* plain TLM-2.0 socket, and bidirectional sockets, plain or simple.  The  *)
(* model goes from binding over elaboration, which puts the adapters in    *)
(* place, to the calls and their conversions                               *)
(* (src/src/core/tlm-2/protocol_adapter, src/src/protocols/memory_mapped,  *)
(* src/src/core/tlm-2/sockets/bidirectional_socket.h,                      *)
(* src/src/utils/tlm-2/sockets/simple_*.h).                                *)
(***************************************************************************)
EXTENDS Integers, Sequences, FiniteSets, TLC

CONSTANTS
    MMInits, MMTargets,            \* memory-mapped sockets
    GenericInits, GenericTargets,  \* plain TLM-2.0 sockets of other libraries
    Bidirs,                        \* bidirectional sockets
    OuterInits, OuterTargets,      \* plain, memory-mapped and bidirectional
    OuterMMInits, OuterMMTargets,  \* sockets of a module around, without
    OuterBidirs,                   \* interface until one inside is joined
    Platforms,                     \* what is there: see Platform
    Words,                         \* the data pointer and address of a request
    Requests,                      \* the requests to explore
    LengthMod,                     \* 2^w, w the width of a generic data length
    NoEnd, NoCall, NoAnswer, Clog

Sockets  == MMInits \cup MMTargets \cup GenericInits \cup GenericTargets \cup Bidirs
Outers   == OuterInits \cup OuterTargets \cup OuterMMInits \cup OuterMMTargets \cup OuterBidirs

\* The memory-mapped sockets, each of which has an adapter.
Initiators == MMInits \cup OuterMMInits
Adapted    == Initiators \cup MMTargets \cup OuterMMTargets
Adapter(s) == [adapterOf |-> s]
Adapters == {Adapter(s) : s \in Adapted}
Ends     == Sockets \cup Adapters

FwKinds == {"b_transport", "nb_transport_fw", "transport_dbg", "get_direct_mem_ptr"}
BwKinds == {"nb_transport_bw", "invalidate_direct_mem_ptr"}
Kinds   == FwKinds \cup BwKinds

\* The enumerators of the two protocols that mean the same.
Command == {<<"TLM_READ_COMMAND", "MEM_MAP_READ_COMMAND">>,
            <<"TLM_WRITE_COMMAND", "MEM_MAP_WRITE_COMMAND">>,
            <<"TLM_IGNORE_COMMAND", "MEM_MAP_IGNORE_COMMAND">>}
Status == {<<"TLM_OK_RESPONSE", "MEM_MAP_OK_RESPONSE">>,
           <<"TLM_INCOMPLETE_RESPONSE", "MEM_MAP_INCOMPLETE_RESPONSE">>,
           <<"TLM_GENERIC_ERROR_RESPONSE", "MEM_MAP_GENERIC_ERROR_RESPONSE">>,
           <<"TLM_ADDRESS_ERROR_RESPONSE", "MEM_MAP_ADDRESS_ERROR_RESPONSE">>,
           <<"TLM_COMMAND_ERROR_RESPONSE", "MEM_MAP_COMMAND_ERROR_RESPONSE">>,
           <<"TLM_BURST_ERROR_RESPONSE", "MEM_MAP_BURST_ERROR_RESPONSE">>,
           <<"TLM_BYTE_ENABLE_ERROR_RESPONSE", "MEM_MAP_BYTE_ENABLE_ERROR_RESPONSE">>}
NoStatus == <<"none", "none">>

\* The interfaces a socket offers to its peers.
Sides(s) == (IF s \in MMInits \cup Bidirs THEN {"bw"} ELSE {})
            \cup (IF s \in MMTargets \cup Bidirs THEN {"fw"} ELSE {})

\* N (0 is "no limit"), the sockets whose policy allows no binding, those that
\* are plain: their module implements the interfaces and binds them, where a
\* simple socket does this itself; the methods that are used and what callbacks
\* answer.
Platform == [present : SUBSET (Sockets \cup Outers), limit : [Sockets \cup Adapted -> Nat],
             optional : SUBSET (Sockets \cup Adapted),
             plain : SUBSET (MMInits \cup MMTargets \cup Bidirs), kinds : SUBSET Kinds,
             answers : SUBSET [status : Status, dmi : BOOLEAN]]

\* A socket is of one class, and is no adapter.
Classes == <<MMInits, MMTargets, GenericInits, GenericTargets, Bidirs,
             OuterInits, OuterTargets, OuterMMInits, OuterMMTargets, OuterBidirs>>

ASSUME LinksAssumption ==
    /\ \A m, n \in 1 .. 10 : m # n => Classes[m] \cap Classes[n] = {}
    /\ Adapters \cap (Sockets \cup Outers) = {}
    /\ {NoEnd, Clog} \cap (Ends \cup Outers) = {}
    /\ Platforms \subseteq Platform
    /\ LengthMod \in Nat \ {0}
    /\ Requests \subseteq [cmd : Command, data : Words, len : Nat]

VARIABLES
    platform,
    stage,      \* "building", "elaborating", "running", or "aborted"
    outs,       \* the peers of each end's forward port, in port order
    backs,      \* the peers of each end's backward port
    offered,    \* the interfaces the sockets have been bound to
    bound,      \* hasBeenBound
    inner,      \* the end an outer socket is joined with
    wanted,     \* what the platform's author has bound: sets of one pair, or
                \* of two that go both ways
    elaborated, \* the sockets whose before_end_of_elaboration has run
    callback,   \* the callbacks registered on each socket
    index,      \* mIndex of a bidirectional socket
    stack,      \* the non-blocking calls in progress, innermost first
    blocked     \* the b_transport calls in progress

bindVars == <<outs, backs, offered, bound, inner, wanted>>
callVars == <<index, stack, blocked>>
vars == <<platform, stage, bindVars, elaborated, callback, callVars>>

Present(s) == s \in platform.present
Abort == stage' = "aborted" /\ UNCHANGED <<platform, bindVars, elaborated, callback, callVars>>

-----------------------------------------------------------------------------
\* Payloads.  What the generic payload has besides, a streaming width, byte
\* enables and extensions, is not converted.  A range stands for the arguments
\* of invalidate_direct_mem_ptr, which an adapter passes on.

Payload == [generic : {TRUE}, cmd : {c[1] : c \in Command}, data : Words,
            len : 0 .. LengthMod - 1, status : {s[1] : s \in Status}, dmi : BOOLEAN]
           \cup
           [generic : {FALSE}, cmd : {c[2] : c \in Command}, data : Words,
            len : Nat, status : {s[2] : s \in Status}, dmi : BOOLEAN]
           \cup [range : Words]

\* Mutant: a case of the switch is missing.
StatusFromGenericNoBurst(s) ==
    CASE s = "TLM_OK_RESPONSE"                -> "MEM_MAP_OK_RESPONSE"
      [] s = "TLM_INCOMPLETE_RESPONSE"        -> "MEM_MAP_INCOMPLETE_RESPONSE"
      [] s = "TLM_ADDRESS_ERROR_RESPONSE"     -> "MEM_MAP_ADDRESS_ERROR_RESPONSE"
      [] s = "TLM_COMMAND_ERROR_RESPONSE"     -> "MEM_MAP_COMMAND_ERROR_RESPONSE"
      [] s = "TLM_BYTE_ENABLE_ERROR_RESPONSE" -> "MEM_MAP_BYTE_ENABLE_ERROR_RESPONSE"
      [] OTHER                                -> "MEM_MAP_GENERIC_ERROR_RESPONSE"

StatusFromGeneric(s) ==
    CASE s = "TLM_OK_RESPONSE"                -> "MEM_MAP_OK_RESPONSE"
      [] s = "TLM_INCOMPLETE_RESPONSE"        -> "MEM_MAP_INCOMPLETE_RESPONSE"
      [] s = "TLM_ADDRESS_ERROR_RESPONSE"     -> "MEM_MAP_ADDRESS_ERROR_RESPONSE"
      [] s = "TLM_COMMAND_ERROR_RESPONSE"     -> "MEM_MAP_COMMAND_ERROR_RESPONSE"
      [] s = "TLM_BURST_ERROR_RESPONSE"       -> "MEM_MAP_BURST_ERROR_RESPONSE"
      [] s = "TLM_BYTE_ENABLE_ERROR_RESPONSE" -> "MEM_MAP_BYTE_ENABLE_ERROR_RESPONSE"
      [] OTHER                                -> "MEM_MAP_GENERIC_ERROR_RESPONSE"

StatusToGeneric(s) ==
    CASE s = "MEM_MAP_OK_RESPONSE"                -> "TLM_OK_RESPONSE"
      [] s = "MEM_MAP_INCOMPLETE_RESPONSE"        -> "TLM_INCOMPLETE_RESPONSE"
      [] s = "MEM_MAP_ADDRESS_ERROR_RESPONSE"     -> "TLM_ADDRESS_ERROR_RESPONSE"
      [] s = "MEM_MAP_COMMAND_ERROR_RESPONSE"     -> "TLM_COMMAND_ERROR_RESPONSE"
      [] s = "MEM_MAP_BURST_ERROR_RESPONSE"       -> "TLM_BURST_ERROR_RESPONSE"
      [] s = "MEM_MAP_BYTE_ENABLE_ERROR_RESPONSE" -> "TLM_BYTE_ENABLE_ERROR_RESPONSE"
      [] OTHER                                    -> "TLM_GENERIC_ERROR_RESPONSE"

CommandFromGeneric(c) ==
    CASE c = "TLM_READ_COMMAND"  -> "MEM_MAP_READ_COMMAND"
      [] c = "TLM_WRITE_COMMAND" -> "MEM_MAP_WRITE_COMMAND"
      [] OTHER                   -> "MEM_MAP_IGNORE_COMMAND"

CommandToGeneric(c) ==
    CASE c = "MEM_MAP_READ_COMMAND"  -> "TLM_READ_COMMAND"
      [] c = "MEM_MAP_WRITE_COMMAND" -> "TLM_WRITE_COMMAND"
      [] OTHER                       -> "TLM_IGNORE_COMMAND"

IsRange(p) == "range" \in DOMAIN p

\* Mutant: lengths are copied as if both had the same width.
ConvertKeepsLength(p) ==
    IF IsRange(p) THEN p
    ELSE IF p.generic
    THEN [p EXCEPT !.generic = FALSE, !.cmd = CommandFromGeneric(@), !.status = StatusFromGeneric(@)]
    ELSE [p EXCEPT !.generic = TRUE, !.cmd = CommandToGeneric(@), !.status = StatusToGeneric(@)]

\* The two deepCopy() of the converter.  A generic length has 32 bits, a
\* memory-mapped one 64.
Convert(p) ==
    IF IsRange(p) THEN p
    ELSE IF p.generic
    THEN [p EXCEPT !.generic = FALSE, !.cmd = CommandFromGeneric(@), !.status = StatusFromGeneric(@)]
    ELSE [p EXCEPT !.generic = TRUE, !.cmd = CommandToGeneric(@), !.status = StatusToGeneric(@),
                   !.len = @ % LengthMod]

\* The payload socket s makes for a request, by its constructor and setters.
NewPayload(s, r) ==
    IF s \in GenericInits \cup GenericTargets
    THEN [generic |-> TRUE, cmd |-> r.cmd[1], data |-> r.data, len |-> r.len % LengthMod,
          status |-> "TLM_INCOMPLETE_RESPONSE", dmi |-> FALSE]
    ELSE [generic |-> FALSE, cmd |-> r.cmd[2], data |-> r.data, len |-> r.len,
          status |-> "MEM_MAP_OK_RESPONSE", dmi |-> FALSE]

-----------------------------------------------------------------------------
\* Binding.  A pair of sockets is bound once, and a port that is joined with an
\* outer one gets no other peers from its author (bounds of the model): the peers
\* bound to the outer port are listed as those of the inner one.

Core(s) == IF s \in Outers THEN inner[s] ELSE s
Owner(e) == IF e \in Adapters THEN e.adapterOf ELSE e

\* The forward port of e is joined, or its backward port.
JoinedForward(e)  == \E o \in OuterInits \cup OuterMMInits \cup OuterBidirs : inner[o] = e
JoinedBackward(e) == \E o \in OuterTargets \cup OuterMMTargets \cup OuterBidirs : inner[o] = e

\* operator generic_type&(): where a generic initiator is bound to.
Input(t) == IF t \in MMTargets \cup OuterMMTargets THEN Adapter(t) ELSE t

AppendPeers(peers, pairs) ==
    [e \in Ends |-> IF \E p \in pairs : p[1] = e
                    THEN Append(peers[e], (CHOOSE p \in pairs : p[1] = e)[2])
                    ELSE peers[e]]
Swapped(pairs) == {<<p[2], p[1]>> : p \in pairs}

\* tlm_base_initiator_socket::bind(), for each pair of an initiator and a
\* target: both ports get the other side's interface.
Connect(pairs) == /\ outs' = AppendPeers(outs, pairs)
                  /\ backs' = AppendPeers(backs, Swapped(pairs))

\* bind(ifs) of a socket, for one of its interfaces or both: an export takes only
\* one, and a simple socket's has it.
Offer(s, sides) ==
    /\ stage = "building"
    /\ Present(s) /\ sides # {}
    /\ IF \E side \in sides : <<s, side>> \in offered THEN Abort
       ELSE /\ offered' = offered \cup ({s} \X sides)
            /\ UNCHANGED <<platform, stage, outs, backs, bound, inner, wanted, elaborated,
                           callback, callVars>>

\* A socket that has no interface to give: an outer one without an inner one, a
\* plain one before its module has bound it.
Gives(e, side) == e # NoEnd /\ (e \in Sockets /\ side \in Sides(e) => <<e, side>> \in offered)

\* The binding of pairs, for an author who wants those of asked: an error when
\* one of the two has no interface.
BindFor(asked, pairs) ==
    LET cores  == {<<Core(p[1]), Core(p[2])>> : p \in pairs}
        owners == {<<Owner(Core(p[1])), Owner(Core(p[2]))>> : p \in asked}
    IN
    /\ stage = "building"
    /\ \A p \in asked : /\ Present(Owner(p[1])) /\ Present(Owner(p[2]))
                        /\ ~JoinedForward(p[1]) /\ ~JoinedBackward(p[2])
    /\ owners \cap UNION wanted = {}
    /\ IF \E c \in cores : ~Gives(c[1], "bw") \/ ~Gives(c[2], "fw")
       THEN stage' = "aborted" /\ UNCHANGED <<outs, backs, wanted>>
       ELSE Connect(cores) /\ wanted' = wanted \cup {owners} /\ UNCHANGED stage
    /\ UNCHANGED <<platform, offered, inner, elaborated, callback, callVars>>

Bind(pairs) == BindFor(pairs, pairs)

\* MemoryMappedInitiatorSocket::bind(): inherited for a socket of its protocol,
\* its own for a generic target, which gets the adapter.
BindInitiator(i, t) == Bind({<<i, t>>}) /\ UNCHANGED bound
BindToGeneric(i, t) == Bind({<<Adapter(i), Input(t)>>}) /\ bound' = bound \cup {i}
BindFromGeneric(g, t) == Bind({<<g, Input(t)>>}) /\ UNCHANGED bound

\* Mutant: only one direction is bound.
BindBidirectionalHalf(a, b) ==
    a # b /\ BindFor({<<a, b>>, <<b, a>>}, {<<a, b>>}) /\ UNCHANGED bound

\* bind() of a bidirectional socket with another one, both ways.
BindBidirectional(a, b) == a # b /\ Bind({<<a, b>>, <<b, a>>}) /\ UNCHANGED bound

\* The ports of the inner end that outer stands for are bound to those of outer,
\* which gets the interface of the inner end, if it has one.
Join(e, outer) ==
    /\ stage = "building"
    /\ Present(Owner(e)) /\ Present(outer)
    /\ IF \/ inner[outer] # NoEnd
          \/ outer \notin OuterTargets \cup OuterMMTargets /\ ~Gives(e, "bw")
          \/ outer \notin OuterInits \cup OuterMMInits /\ ~Gives(e, "fw")
       THEN Abort
       ELSE /\ outer \notin OuterTargets \cup OuterMMTargets => ~JoinedForward(e) /\ outs[e] = <<>>
            /\ outer \notin OuterInits \cup OuterMMInits => ~JoinedBackward(e) /\ backs[e] = <<>>
            /\ inner' = [inner EXCEPT ![outer] = e]
            /\ bound' = IF outer \in OuterInits THEN bound \cup {Owner(e)} ELSE bound
            /\ UNCHANGED <<platform, stage, outs, backs, offered, wanted, elaborated, callback,
                           callVars>>

\* bind() with a generic initiator socket of the module around, that of a generic
\* target socket around, and bindHierarchical().
JoinGeneric(i, g) == Join(Adapter(i), g)
JoinGenericTarget(g, t) == Join(Input(t), g)
BindHierarchical(b, o) == Join(b, o)

\* bind() with a memory-mapped socket of the module around, inherited, and the
\* bindHierarchical() of one direction of a bidirectional socket.
JoinInitiator(e, o) == Join(e, o)
JoinTarget(o, e) == Join(e, o)

-----------------------------------------------------------------------------
\* Elaboration.

\* inputSocketClog and outputSocketClog take the places of the peers.
Plug(a) == /\ outs' = [outs EXCEPT ![a] = Append(@, Clog)]
           /\ backs' = [backs EXCEPT ![a] = Append(@, Clog)]

\* before_end_of_elaboration() of an initiator socket.
BeforeEndInitiator(i) ==
    IF i \notin bound THEN Plug(Adapter(i)) /\ UNCHANGED stage
    ELSE IF ~Gives(Core(i), "bw") THEN stage' = "aborted" /\ UNCHANGED <<outs, backs>>
    ELSE Connect({<<Core(i), Adapter(i)>>}) /\ UNCHANGED stage

\* How many of the peers are those of the port of e itself: an inner port's adapter
\* is not one of the outer port's.
Own(e, peers) == Cardinality({n \in 1 .. Len(peers) : Core(e) = e \/ peers[n] # Adapter(Core(e))})

\* size() of the backward port, howManyInputBindings(): before elaboration is
\* over a port that takes its peers from another one has none.
PortSize(e) == IF JoinedBackward(e) \/ Core(e) = NoEnd THEN 0 ELSE Own(e, backs[Core(e)])

\* Mutants: the adapter always looks unused; its bindings are not counted.
BeforeEndTargetAlwaysPlugs(t) == Plug(Adapter(t)) /\ UNCHANGED stage

BeforeEndTargetCountsOwn(t) ==
    IF PortSize(Adapter(t)) = 0 THEN Plug(Adapter(t)) /\ UNCHANGED stage
    ELSE IF \/ platform.limit[t] # 0 /\ PortSize(t) + 1 > platform.limit[t]
            \/ ~Gives(Core(t), "fw")
         THEN stage' = "aborted" /\ UNCHANGED <<outs, backs>>
         ELSE Connect({<<Adapter(t), Core(t)>>}) /\ UNCHANGED stage

\* ... of a target socket: too many bindings exit().
BeforeEndTarget(t) ==
    LET n == PortSize(Adapter(t)) IN
    IF n = 0 THEN Plug(Adapter(t)) /\ UNCHANGED stage
    ELSE IF \/ platform.limit[t] # 0 /\ PortSize(t) + n > platform.limit[t]
            \/ ~Gives(Core(t), "fw")
         THEN stage' = "aborted" /\ UNCHANGED <<outs, backs>>
         ELSE Connect({<<Adapter(t), Core(t)>>}) /\ UNCHANGED stage

EndBuilding == /\ stage = "building"
               /\ stage' = "elaborating"
               /\ UNCHANGED <<platform, bindVars, elaborated, callback, callVars>>

BeforeEndOfElaboration(s) ==
    /\ stage = "elaborating"
    /\ Present(s) /\ s \notin elaborated
    /\ IF s \in Initiators THEN BeforeEndInitiator(s) ELSE BeforeEndTarget(s)
    /\ elaborated' = elaborated \cup {s}
    /\ UNCHANGED <<platform, offered, bound, inner, wanted, callback, callVars>>

\* SystemC then checks every port against its N and its policy.
Within(s, n, size) == /\ n # 0 => size <= n
                      /\ s \in platform.optional \/ size # 0

PortsWithin ==
    /\ \A s \in platform.plain : {s} \X Sides(s) \subseteq offered
    /\ \A o \in Outers : Present(o) => inner[o] # NoEnd
    /\ \A s \in Initiators \cup GenericInits \cup Bidirs :
         Present(s) => Within(s, platform.limit[s], Own(s, outs[Core(s)]))
    /\ \A s \in MMTargets \cup OuterMMTargets \cup GenericTargets \cup Bidirs :
         Present(s) => Within(s, platform.limit[s], Own(s, backs[Core(s)]))
    /\ \A i \in Initiators : Present(i) => /\ Within(i, platform.limit[i], Len(outs[Adapter(i)]))
                                           /\ Len(backs[Adapter(i)]) = 1
    /\ \A t \in MMTargets \cup OuterMMTargets :
         Present(t) => /\ Within(t, platform.limit[t], Len(backs[Adapter(t)]))
                       /\ Len(outs[Adapter(t)]) = 1

EndElaboration ==
    /\ stage = "elaborating"
    /\ \A s \in Adapted : Present(s) => s \in elaborated
    /\ IF PortsWithin
       THEN /\ stage' = "running"
            /\ UNCHANGED <<platform, bindVars, elaborated, callback, callVars>>
       ELSE Abort

-----------------------------------------------------------------------------
\* Callbacks of a simple socket.  Those of a plain one are the methods of the
\* module, and those of other libraries are not registered here.

CallbacksOf(s) == platform.kinds \cap ((IF s \in MMInits \cup Bidirs THEN BwKinds ELSE {})
                                       \cup (IF s \in MMTargets \cup Bidirs THEN FwKinds ELSE {}))

\* A second registration is ignored.
Register(s, k) ==
    /\ stage \in {"building", "elaborating", "running"}
    /\ stack = <<>>
    /\ Present(s) /\ s \notin platform.plain /\ k \in CallbacksOf(s)
    /\ callback' = [callback EXCEPT ![s] = @ \cup {k}]
    /\ UNCHANGED <<platform, stage, bindVars, elaborated, callVars>>

\* A clog answers everything with a default.
HasCallback(e, k) == /\ e # Clog
                     /\ \/ e \in GenericInits \cup GenericTargets \cup platform.plain
                        \/ k \in callback[e]

-----------------------------------------------------------------------------
\* Calls.  A call has the ends it has reached and, for each, the payload this
\* end was given: an adapter makes one on its stack for the next end.

CallRecord == [from : Sockets, kind : Kinds, route : Seq(Ends \cup {Clog}), trans : Seq(Payload),
               served : BOOLEAN, ret : {"none", "callback", "default"}]

Here(c)  == c.route[Len(c.route)]
Given(c) == c.trans[Len(c.trans)]
Calls == {stack[n] : n \in 1 .. Len(stack)} \cup blocked

\* Processes run when no non-blocking call is in progress; the socket that is
\* at work on one may also make calls.
Runs(s) == stack # <<>> => Here(Head(stack)) = s /\ ~Head(stack).served

PortFor(e, kind) == IF kind \in FwKinds THEN outs[e] ELSE backs[e]

\* operator[] of a bidirectional socket; the pointer it returns may be kept.  It
\* takes any number (a bound of the model: up to the first that no port has).
Select(b, n) ==
    /\ Runs(b)
    /\ n <= Len(outs[b]) \/ n <= Len(backs[b])
    /\ index' = [index EXCEPT ![b] = n]
    /\ UNCHANGED <<platform, stage, bindVars, elaborated, callback, stack, blocked>>

\* Socket s calls the n-th interface of its port; a bidirectional socket that
\* of its index (its get_direct_mem_ptr does not compile).  An end has one call
\* in progress (a bound of the model).
Arguments(s, kind) == IF kind = "invalidate_direct_mem_ptr" THEN [range : Words]
                      ELSE {NewPayload(s, r) : r \in Requests}

Call(s, n, kind, p) ==
    /\ Runs(s)
    /\ \A c \in Calls : c.from # s
    /\ n \in 1 .. Len(PortFor(s, kind))
    /\ s \in Bidirs => n = index[s] + 1 /\ kind # "get_direct_mem_ptr"
    /\ LET c == [from |-> s, kind |-> kind, route |-> <<PortFor(s, kind)[n]>>,
                 trans |-> <<p>>, served |-> FALSE, ret |-> "none"]
       IN IF kind = "b_transport"
          THEN blocked' = blocked \cup {c} /\ UNCHANGED stack
          ELSE stack' = <<c>> \o stack /\ UNCHANGED blocked
    /\ UNCHANGED <<platform, stage, bindVars, elaborated, callback, index>>

\* A bidirectional socket whose index is past the end of the port: an error of
\* the port's operator[].
CallNobody(b, kind) ==
    /\ Runs(b)
    /\ \A c \in Calls : c.from # b
    /\ index[b] + 1 > Len(PortFor(b, kind)) /\ kind # "get_direct_mem_ptr"
    /\ Abort

\* The call c goes on: a blocking one when its process is scheduled.
AtWork(c) == IF stack = <<>> THEN c \in blocked ELSE c = Head(stack)

\* It becomes d.
Becomes(c, d) ==
    /\ AtWork(c)
    /\ IF stack = <<>> THEN blocked' = (blocked \ {c}) \cup {d} /\ UNCHANGED stack
       ELSE stack' = <<d>> \o Tail(stack) /\ UNCHANGED blocked

\* The forward and backward handlers of an adapter, up to the call they make:
\* always to the first interface of the port, and an error when it has none.
AdapterCalls(c) ==
    /\ Here(c) \in Adapters
    /\ ~c.served
    /\ IF PortFor(Here(c), c.kind) = <<>> THEN AtWork(c) /\ Abort
       ELSE /\ Becomes(c, [c EXCEPT !.route = Append(@, PortFor(Here(c), c.kind)[1]),
                                    !.trans = Append(@, Convert(Given(c)))])
            /\ UNCHANGED <<platform, stage, bindVars, elaborated, callback, index>>

\* Mutant: the adapter's payload is a member, which the calls share.
CopyBackShared(c) ==
    LET a == c.route[Len(c.route) - 1] IN
    Convert(Given(CHOOSE d \in Calls :
                    /\ Len(d.route) = Len(c.route) /\ a = d.route[Len(d.route) - 1]))

\* The adapter's code after the call: the whole payload is copied back.
CopyBack(c) == Convert(Given(c))

\* The end that is not an adapter returns, with what its callback has done to
\* the payload, or untouched when there is none.
Serve(c, answer) ==
    LET last == Len(c.trans)
        side == IF IsRange(Given(c)) THEN 0 ELSE IF Given(c).generic THEN 1 ELSE 2
    IN
    /\ Here(c) \notin Adapters
    /\ ~c.served
    /\ IF HasCallback(Here(c), c.kind)
       THEN Becomes(c, [c EXCEPT !.served = TRUE, !.ret = "callback",
                                 !.trans[last] = IF side = 0 THEN @
                                                 ELSE [@ EXCEPT !.status = answer.status[side],
                                                               !.dmi = answer.dmi]])
       ELSE Becomes(c, [c EXCEPT !.served = TRUE, !.ret = "default"])
    /\ UNCHANGED <<platform, stage, bindVars, elaborated, callback, index>>

AdapterReturns(c) ==
    /\ c.served
    /\ Len(c.route) > 1
    /\ LET k == Len(c.route) - 1 IN
       Becomes(c, [c EXCEPT !.route = SubSeq(@, 1, k),
                            !.trans = Append(SubSeq(@, 1, k - 1), CopyBack(c))])
    /\ UNCHANGED <<platform, stage, bindVars, elaborated, callback, index>>

CallReturns(c) ==
    /\ c.served
    /\ Len(c.route) = 1
    /\ AtWork(c)
    /\ IF stack = <<>> THEN blocked' = blocked \ {c} /\ UNCHANGED stack
       ELSE stack' = Tail(stack) /\ UNCHANGED blocked
    /\ UNCHANGED <<platform, stage, bindVars, elaborated, callback, index>>

-----------------------------------------------------------------------------
Init ==
    /\ platform \in Platforms
    /\ stage = "building"
    /\ outs = [e \in Ends |-> <<>>]
    /\ backs = [e \in Ends |-> <<>>]
    /\ offered = UNION {{s} \X Sides(s) : s \in Sockets \ platform.plain}
    /\ bound = {}
    /\ inner = [o \in Outers |-> NoEnd]
    /\ wanted = {}
    /\ elaborated = {}
    /\ callback = [s \in Sockets |-> {}]
    /\ index = [b \in Bidirs |-> 0]
    /\ stack = <<>>
    /\ blocked = {}

Build ==
    \/ \E i \in Initiators \cup Bidirs \cup OuterBidirs,
          t \in MMTargets \cup OuterMMTargets \cup Bidirs \cup OuterBidirs : BindInitiator(i, t)
    \/ \E i \in Initiators,
          t \in GenericTargets \cup OuterTargets \cup MMTargets \cup OuterMMTargets : BindToGeneric(i, t)
    \/ \E g \in GenericInits \cup OuterInits,
          t \in MMTargets \cup OuterMMTargets \cup OuterTargets : BindFromGeneric(g, t)
    \/ \E g \in OuterInits, t \in GenericTargets : BindFromGeneric(g, t)
    \/ \E a, b \in Bidirs \cup OuterBidirs : BindBidirectional(a, b)
    \/ \E i \in Initiators, g \in OuterInits : JoinGeneric(i, g)
    \/ \E g \in OuterTargets, t \in MMTargets \cup OuterMMTargets : JoinGenericTarget(g, t)
    \/ \E b \in Bidirs, o \in OuterBidirs : BindHierarchical(b, o)
    \/ \E e \in MMInits \cup Bidirs, o \in OuterMMInits : JoinInitiator(e, o)
    \/ \E o \in OuterMMTargets, e \in MMTargets \cup Bidirs : JoinTarget(o, e)
    \/ \E s \in platform.plain : \E sides \in SUBSET Sides(s) : Offer(s, sides)
    \/ EndBuilding

Elaborate == (\E s \in Adapted : BeforeEndOfElaboration(s)) \/ EndElaboration

Run ==
    /\ stage = "running"
    /\ \/ \E b \in Bidirs : \E n \in 0 .. Len(outs[b]) + Len(backs[b]) : Select(b, n)
       \/ \E b \in Bidirs, k \in platform.kinds : CallNobody(b, k)
       \/ \E s \in Sockets, k \in platform.kinds :
            \E n \in 1 .. Len(PortFor(s, k)), p \in Arguments(s, k) : Call(s, n, k, p)
       \/ \E c \in Calls :
            \/ AdapterCalls(c) \/ AdapterReturns(c) \/ CallReturns(c)
            \/ \E a \in platform.answers : Serve(c, a)

Next == \/ Build \/ Elaborate \/ Run
        \/ \E s \in Sockets, k \in platform.kinds : Register(s, k)

Spec == Init /\ [][Next]_vars

-----------------------------------------------------------------------------
TypeOK ==
    /\ platform \in Platforms
    /\ stage \in {"building", "elaborating", "running", "aborted"}
    /\ outs \in [Ends -> Seq(Ends \cup {Clog})]
    /\ backs \in [Ends -> Seq(Ends \cup {Clog})]
    /\ offered \subseteq Sockets \X {"fw", "bw"}
    /\ bound \subseteq Initiators
    /\ inner \in [Outers -> Ends \cup {NoEnd}]
    /\ wanted \subseteq SUBSET ((Sockets \cup Adapted) \X (Sockets \cup Adapted))
    /\ elaborated \subseteq Adapted
    /\ callback \in [Sockets -> SUBSET Kinds]
    /\ index \in [Bidirs -> Nat]
    /\ stack \in Seq(CallRecord)
    /\ blocked \subseteq CallRecord

Hop(e, kind) == IF e \in Adapters /\ PortFor(e, kind) # <<>> THEN PortFor(e, kind)[1] ELSE e
\* The end that serves a call made to e: there are at most two adapters between.
Destination(e, kind) == Hop(Hop(e, kind), kind)

Reached(s, kind) == {Destination(PortFor(s, kind)[n], kind) : n \in 1 .. Len(PortFor(s, kind))}

\* The bindings of the platform's author, between the sockets inside.
Linked == {<<Core(w[1]), Core(w[2])>> : w \in UNION wanted}

\* The adapters through which calls to or from s go: its own and that of a
\* memory-mapped socket around.
AdaptersOf(s) == {Adapter(t) : t \in {t \in Adapted : s \in {t, Core(t)}}}

\* An adapter calls the first peer of its port: where the calls of s would end
\* that its adapters made to the others.
Overlooked(s, kind) ==
    LET used == Adapters \cap {PortFor(s, kind)[n] : n \in 1 .. Len(PortFor(s, kind))} IN
    UNION {{Destination(PortFor(a, kind)[n], kind) : n \in 2 .. Len(PortFor(a, kind))} : a \in used}

\* A target whose adapter is joined with a generic target socket around.
Behind(t) == \E a \in AdaptersOf(t) : JoinedBackward(a)

\* Once elaboration is over, every binding of the platform's author works in
\* both directions, through whatever adapters and joined sockets are between the
\* two, and calls end nowhere else.  Of the peers that share an adapter, and of
\* these alone, all but the first are out of reach; the first is one of those
\* the author bound, and works.  No call ends in a plug, nor in an adapter,
\* unless it is joined with an initiator socket around that nobody has bound;
\* for a target behind a socket around see PluggedIsUnused.
BindingsWork ==
    stage = "running" =>
        /\ \A b \in {w \in Linked : ~Behind(w[1]) /\ ~Behind(w[2])} :
             /\ b[2] \in Reached(b[1], "b_transport") \cup Overlooked(b[1], "b_transport")
             /\ b[1] \in Reached(b[2], "nb_transport_bw") \cup Overlooked(b[2], "nb_transport_bw")
        /\ \A s \in Sockets :
             /\ \A d \in Sockets \cap Reached(s, "b_transport") : <<s, d>> \in Linked
             /\ \A d \in Sockets \cap Reached(s, "nb_transport_bw") : <<d, s>> \in Linked
        /\ \A s \in Sockets, k \in {"b_transport", "nb_transport_bw"} :
             /\ Clog \in Reached(s, k) => \E w \in Linked : w[1] = s /\ Behind(w[2])
             /\ \A a \in Adapters \cap Reached(s, k) :
                  JoinedForward(a) /\ a.adapterOf \in platform.optional

\* memory_mapped_socket.h:163 says of the adapter whose ends are plugged "Adapter
\* is useless, we just clog the sockets to avoid SystemC errors": nobody is bound
\* to an adapter that has a plug.
PluggedIsUnused ==
    stage = "running" =>
        \A a \in Adapters : Clog \in {outs[a][n] : n \in 1 .. Len(outs[a])}
                                => backs[a] = <<Clog>>

\* A target socket that has a limit never has more peers than it, however they
\* are spread over its own port, its adapter, which takes one place, and a socket
\* around that has the same limit.  A target that is joined counts none of the
\* peers it gets through the socket around: with peers at its own adapter too, or
\* behind a generic target socket, it can have more (see the hazards).
TargetWithinLimit ==
    stage = "running" =>
        \A t \in MMTargets :
            /\ platform.limit[t] # 0 /\ ~Behind(t)
            /\ \A o \in OuterMMTargets : inner[o] = t =>
                 platform.limit[o] = platform.limit[t] /\ backs[Adapter(t)] = <<Clog>>
            => Cardinality({b \in Linked : b[2] = t}) <= platform.limit[t]

\* operator[] of a bidirectional socket selects one peer for both directions:
\* the ports have the same peers in the same order as long as all bindings of
\* the socket are with bidirectional sockets, and no initiator socket that it is
\* joined with has its adapter in use.
PeersAligned ==
    \A b \in Bidirs :
        /\ \A i \in bound : Core(i) # b
        /\ \A w \in wanted : (\E p \in w : b \in {Core(p[1]), Core(p[2])}) => Cardinality(w) = 2
        => outs[b] = backs[b]

-----------------------------------------------------------------------------
\* What a payload says, whichever protocol it is of.  Lengths are compared in
\* the width of the generic payload.
CommandOf(x) == CHOOSE c \in Command : x \in {c[1], c[2]}
StatusOf(x)  == CHOOSE s \in Status : x \in {s[1], s[2]}

Request(p) == IF IsRange(p) THEN p
              ELSE [cmd |-> CommandOf(p.cmd), data |-> p.data, len |-> p.len % LengthMod]

Result(p, ret) == IF IsRange(p) THEN [status |-> NoStatus, dmi |-> FALSE, ret |-> ret]
                  ELSE [status |-> StatusOf(p.status), dmi |-> p.dmi, ret |-> ret]

\* The sockets are as good as direct links: calls go only where the author
\* bound them, the request arrives as it was made, and the answer given there
\* is what the caller has in its payload when the call returns, however many
\* calls an adapter has at the same time.  Two kinds of calls are none: one that
\* ends in an adapter without peer, where the program stops, and one that ends in
\* the plug of a target behind a socket around (see PluggedIsUnused).
Lost(c) ==
    LET d == Destination(c.route[1], c.kind) IN
    \/ d \in Adapters
    \/ d = Clog /\ \E w \in Linked : w[1] = c.from /\ Behind(w[2])

DirectRequests == [cmd : Command, data : Words, len : 0 .. LengthMod - 1] \cup [range : Words]
DirectResults  == [status : Status \cup {NoStatus}, dmi : BOOLEAN, ret : {"callback", "default"}]
DirectAnswers  == [request : DirectRequests, result : DirectResults]

ASSUME DirectAssumption ==
    /\ NoAnswer \notin DirectAnswers
    /\ NoCall \notin [to : Ends \cup {Clog}, kind : Kinds, request : DirectRequests,
                      answer : DirectAnswers \cup {NoAnswer}]

AnswerTo(c) == IF c.served THEN [request |-> Request(Given(c)), result |-> Result(Given(c), c.ret)]
               ELSE NoAnswer
\* As long as a call is not served, where it goes is told from the end it has reached.
CallSeen(c) == [to |-> Destination(IF c.served THEN c.route[1] ELSE Here(c), c.kind), kind |-> c.kind,
                request |-> Request(c.trans[1]), answer |-> AnswerTo(c)]
CallOf(s) == CHOOSE c \in Calls : c.from = s

directLinks   == {w \in Linked : NoEnd \notin {w[1], w[2]}}
directPending == [s \in Sockets |-> IF \A c \in Calls : c.from = s => Lost(c) THEN NoCall
                                    ELSE CallSeen(CallOf(s))]

Direct == INSTANCE DirectLinks WITH
    Ends <- Sockets, Requests <- DirectRequests, Results <- DirectResults,
    links <- directLinks, pending <- directPending

DirectSpec == Direct!Spec
=============================================================================
