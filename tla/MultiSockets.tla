----------------------------- MODULE MultiSockets -----------------------------
(***************************************************************************)
(* MultiInitiatorSocket and MultiTargetSocket with the callback binders    *)
(* they hand out (src/src/utils/tlm-2/sockets/multi_*.h): binding, also    *)
(* hierarchical, callback registration, elaboration, and the calls that    *)
(* then arrive.  A multi socket gives every peer an interface of its own,  *)
(* a binder, which adds an identifier to each call; the module answers a   *)
(* peer through operator[] with that identifier.                           *)
(* A hierarchical binding joins the socket of an inner module, which has   *)
(* the callbacks, with the socket of an outer one, which has the peers.    *)
(***************************************************************************)
EXTENDS Integers, Sequences

CONSTANTS
    MultiInits, MultiTargets,  \* the multi sockets
    Inits, Targets,            \* ordinary sockets, which have one peer
    Kinds,                     \* the interface methods to explore
    IdMod,                     \* 2^w, w the width of std::size_t
    Platforms,                 \* the platforms to explore
    NoSocket, NoCallback, NoCall

FwKinds == {"b_transport", "nb_transport_fw", "transport_dbg", "get_direct_mem_ptr"}
BwKinds == {"nb_transport_bw", "invalidate_direct_mem_ptr"}

Multi   == MultiInits \cup MultiTargets
Single  == Inits \cup Targets
Sockets == Multi \cup Single

\* A platform has some of the sockets, and uses some of the methods.
Platform == [sockets : SUBSET Sockets, kinds : SUBSET Kinds]

ASSUME SocketsAssumption ==
    /\ MultiInits \cap MultiTargets = {} /\ Inits \cap Targets = {} /\ Multi \cap Single = {}
    /\ Kinds \subseteq FwKinds \cup BwKinds
    /\ IdMod \in Nat \ {0}
    /\ Platforms \subseteq Platform
    /\ NoSocket \notin Sockets

\* A callback a module registers on one of its sockets: early, when the socket
\* has not yet handed its callbacks to the binders (before_end_of_elaboration).
Callback == [socket : Multi, early : BOOLEAN]

ASSUME CallbackAssumption ==
    /\ NoCallback \notin Callback
    /\ NoCall \notin [kind : Kinds, from : Sockets, id : Nat, cb : Callback]

CallbackTable == [Kinds -> Callback \cup {NoCallback}]
NoCallbacks   == [k \in Kinds |-> NoCallback]

\* The n-th binder of a socket has the identifier n - 1 and serves one peer.
Binder == [peer : Sockets, cb : CallbackTable]

\* An interface a port is bound to: a binder of a multi socket, or the one of
\* an ordinary socket (n = 0).
Interface == [socket : Sockets, n : Nat]

VARIABLES
    present,    \* the sockets of the platform
    kinds,      \* the interface methods it uses
    stage,      \* "building", "elaborating", "running", or "aborted"
    outer,      \* mHierarchicalBind
    joined,     \* mBoundHierarchically
    exported,   \* the sockets whose export has an interface
    binders,    \* mBinders
    sockets,    \* mSockets; for a target socket, of interfaces
    port,       \* the interfaces the port of a multi target is bound to
    registered, \* the callback members
    elaborated, \* the sockets whose before_end_of_elaboration has run
    handed,     \* the identifiers bind() has returned
    call        \* the last call that reached a callback

platformVars == <<present, kinds>>
structVars == <<platformVars, outer, joined, exported, binders, sockets, port>>
vars == <<stage, structVars, registered, elaborated, handed, call>>

\* The methods of the interface that the peers of s call.
KindsOf(s) == kinds \cap (IF s \in MultiInits THEN BwKinds ELSE FwKinds)

\* getHierarchicalBind(): the end of the chain.
Root(s) == LET r[u \in Multi] == IF outer[u] = NoSocket THEN u ELSE r[outer[u]] IN r[s]

Abort == stage' = "aborted"
         /\ UNCHANGED <<structVars, registered, elaborated, handed, call>>

-----------------------------------------------------------------------------
\* Binding peers.

\* An ordinary socket has one peer; a pair of multi sockets is bound once (a
\* bound of the model).
Bindable(i, t) ==
    /\ {i, t} \subseteq present
    /\ i \in Multi \/ t \in Multi
    /\ \A s \in Multi : \A n \in 1 .. Len(binders[s]) :
         LET p == binders[s][n].peer IN
         /\ i \in Single => p # i
         /\ t \in Single => p # t
         /\ ~(s = i /\ p = t)

\* get_base_interface() of a multi socket creates a binder at each call.
InterfaceOf(s) == [socket |-> s, n |-> IF s \in Multi THEN Len(binders[s]) + 1 ELSE 0]
WithBinder(s, p) == Append(binders[s], [peer |-> p, cb |-> NoCallbacks])

\* tlm_base_initiator_socket::bind(): each port is bound to the other's interface.
Connect(i, t) ==
    /\ binders' = [s \in Multi |-> CASE s = i -> WithBinder(i, t)
                                     [] s = t -> WithBinder(t, i)
                                     [] OTHER -> binders[s]]
    /\ port' = [s \in MultiTargets |->
                  IF s = t THEN Append(port[t], InterfaceOf(i)) ELSE port[s]]

\* The socket that makes the binding: an inner multi initiator passes it on to
\* the outer one.
Binding(i) == IF i \in MultiInits THEN Root(i) ELSE i

\* bind() of an initiator socket with a target socket.
BindTo(i, t) ==
    LET r == Binding(i) IN
    /\ stage = "building"
    /\ Bindable(r, t)
    /\ Connect(r, t)
    /\ sockets' = IF r \in MultiInits
                  THEN [sockets EXCEPT ![r] = Append(@, [socket |-> t, n |-> 0])]
                  ELSE sockets
    /\ UNCHANGED <<platformVars, stage, outer, joined, exported, registered, elaborated, call>>

Bind(i, t) == BindTo(i, t) /\ UNCHANGED handed

\* Mutant: signed arithmetic.
BindWithIdSigned(i, t) ==
    /\ BindTo(i, t)
    /\ handed' = handed \cup {[socket |-> i, peer |-> t, id |-> Len(sockets'[i]) - 1]}

\* bind(s, id): the identifier comes from this socket's list.
BindWithId(i, t) ==
    /\ BindTo(i, t)
    /\ handed' = handed \cup
         {[socket |-> i, peer |-> t, id |-> (Len(sockets'[i]) - 1) % IdMod]}

\* bind() of a target socket with an initiator socket, inherited from TLM-2.0:
\* no multi initiator lists or passes on such a peer.
BindFromTarget(t, i) ==
    /\ stage = "building"
    /\ Bindable(i, t)
    /\ Connect(i, t)
    /\ UNCHANGED <<platformVars, stage, outer, joined, exported, sockets, registered, elaborated, handed, call>>

-----------------------------------------------------------------------------
\* Hierarchical binding.  An sc_export takes one interface, a second one is an
\* error that ends elaboration.

\* inside.bind(outside): the inner export gets the dummy binder unless inside is
\* itself an outer socket, and the outer export gets the inner one's interface.
JoinInitiators(inside, outside) ==
    /\ stage = "building"
    /\ {inside, outside} \subseteq present
    /\ inside # outside
    /\ IF (inside \in exported /\ ~joined[inside]) \/ outside \in exported
       THEN Abort
       ELSE /\ outer' = [outer EXCEPT ![inside] = outside]
            /\ joined' = [joined EXCEPT ![outside] = TRUE]
            /\ exported' = exported \cup {inside, outside}
            /\ UNCHANGED <<platformVars, stage, binders, sockets, port, registered, elaborated, handed, call>>

\* outside.bind(inside): the inner export always gets the dummy.
JoinTargets(outside, inside) ==
    /\ stage = "building"
    /\ {inside, outside} \subseteq present
    /\ inside # outside
    /\ IF inside \in exported \/ outside \in exported
       THEN Abort
       ELSE /\ outer' = [outer EXCEPT ![inside] = outside]
            /\ joined' = [joined EXCEPT ![outside] = TRUE]
            /\ exported' = exported \cup {inside, outside}
            /\ UNCHANGED <<platformVars, stage, binders, sockets, port, registered, elaborated, handed, call>>

\* A hierarchical binding with an ordinary socket exits.
JoinMono == stage = "building" /\ Abort

-----------------------------------------------------------------------------
\* register...(), at any time: from a constructor, from an elaboration callback
\* of a module, before or after that of the socket, or from a process of the
\* simulation ("running" stands for the callbacks end_of_elaboration and
\* start_of_simulation too).  A callback that is there stays.
Accepting == stage \in {"building", "elaborating", "running"}

Register(s, k) ==
    /\ Accepting
    /\ s \in present
    /\ k \in KindsOf(s)
    /\ registered[s][k] = NoCallback
    /\ registered' = [registered EXCEPT ![s][k] =
                        [socket |-> s, early |-> s \notin elaborated]]
    /\ UNCHANGED <<stage, structVars, elaborated, handed, call>>

RegisterAgain(s, k) ==
    /\ Accepting
    /\ s \in present
    /\ k \in KindsOf(s)
    /\ registered[s][k] # NoCallback
    /\ UNCHANGED vars

-----------------------------------------------------------------------------
\* Elaboration.

EndBuilding == /\ stage = "building"
               /\ stage' = "elaborating"
               /\ UNCHANGED <<structVars, registered, elaborated, handed, call>>

\* Every binder of the outermost socket gets copies of this socket's callbacks.
BindersFor(s) ==
    [binders EXCEPT ![Root(s)] = [n \in 1 .. Len(@) |-> [@[n] EXCEPT !.cb = registered[s]]]]

\* Mutants: the socket's own binders are served; its own list is kept.
BeforeEndInitiatorOwnBinders(s) ==
    /\ exported' = exported \cup {s}
    /\ IF joined[s] THEN UNCHANGED <<binders, sockets>>
       ELSE /\ binders' = [binders EXCEPT ![s] =
                             [n \in 1 .. Len(@) |-> [@[n] EXCEPT !.cb = registered[s]]]]
            /\ sockets' = [sockets EXCEPT ![s] = sockets[Root(s)]]
    /\ UNCHANGED port

BeforeEndInitiatorOwnList(s) ==
    /\ exported' = exported \cup {s}
    /\ IF joined[s] THEN UNCHANGED binders ELSE binders' = BindersFor(s)
    /\ UNCHANGED <<sockets, port>>

\* before_end_of_elaboration() of a multi initiator.
BeforeEndInitiator(s) ==
    /\ exported' = exported \cup {s}
    /\ IF joined[s] THEN UNCHANGED <<binders, sockets>>
       ELSE /\ binders' = BindersFor(s)
            /\ sockets' = [sockets EXCEPT ![s] = sockets[Root(s)]]
    /\ UNCHANGED port

\* before_end_of_elaboration() of a multi target: fillSocketList() appends the
\* port's interfaces to the list of the outermost socket.
BeforeEndTarget(s) ==
    LET r == Root(s)
        filled == [sockets EXCEPT ![r] = @ \o port[r]]
    IN
    /\ exported' = exported \cup {s}
    /\ IF joined[s] \/ binders[r] = <<>> THEN UNCHANGED <<binders, sockets>>
       ELSE /\ binders' = BindersFor(s)
            /\ sockets' = [filled EXCEPT ![s] = filled[r]]
    /\ UNCHANGED port

\* SystemC calls it once for each socket.
BeforeEndOfElaboration(s) ==
    /\ stage = "elaborating"
    /\ s \in present \ elaborated
    /\ IF s \in MultiInits THEN BeforeEndInitiator(s) ELSE BeforeEndTarget(s)
    /\ elaborated' = elaborated \cup {s}
    /\ UNCHANGED <<platformVars, stage, outer, joined, registered, handed, call>>

\* A socket that is part of the platform needs a peer, of its own or through
\* the outer one (SC_ONE_OR_MORE_BOUND).
Used(s) == outer[s] # NoSocket \/ joined[s] \/ binders[s] # <<>>
Bound(s) == binders[s] # <<>> \/ binders[Root(s)] # <<>>

AllBound == \A s \in Multi : Used(s) => Bound(s)

Elaborated == stage = "elaborating" /\ elaborated = Multi \cap present

EndElaboration ==
    /\ Elaborated
    /\ IF AllBound
       THEN /\ stage' = "running"
            /\ UNCHANGED <<structVars, registered, elaborated, handed, call>>
       ELSE Abort

-----------------------------------------------------------------------------
\* Calls.

\* The n-th binder of s is called: without a callback it exits.
Deliver(s, n, k, from) ==
    LET cb == binders[s][n].cb[k] IN
    IF cb = NoCallback THEN Abort
    ELSE /\ call' = [kind |-> k, from |-> from, id |-> n - 1, cb |-> cb]
         /\ UNCHANGED <<stage, structVars, registered, elaborated, handed>>

\* An ordinary socket calls the interface its port is bound to.
CallThroughPort(s, n, k) ==
    /\ stage = "running"
    /\ n \in 1 .. Len(binders[s])
    /\ binders[s][n].peer \in Single
    /\ k \in KindsOf(s)
    /\ Deliver(s, n, k, binders[s][n].peer)

\* operator[] of a multi target gives an interface, which may be a binder.
CallFromTarget(s, n, k) ==
    /\ stage = "running"
    /\ n \in 1 .. Len(sockets[s])
    /\ LET to == sockets[s][n] IN
       /\ to.socket \in MultiInits
       /\ k \in KindsOf(to.socket)
       /\ Deliver(to.socket, to.n, k, s)

\* operator[] of a multi initiator asks the target for an interface again: a
\* multi target makes a new binder, which has no callback yet, and exits.
CallFromInitiator(s, n) ==
    /\ stage = "running"
    /\ n \in 1 .. Len(sockets[s])
    /\ sockets[s][n].socket \in MultiTargets
    /\ Abort

-----------------------------------------------------------------------------
InitBuilding ==
    /\ \E p \in Platforms : present = p.sockets /\ kinds = p.kinds
    /\ stage = "building"
    /\ outer = [s \in Multi |-> NoSocket]
    /\ joined = [s \in Multi |-> FALSE]
    /\ exported = {}
    /\ binders = [s \in Multi |-> <<>>]
    /\ sockets = [s \in Multi |-> <<>>]
    /\ port = [s \in MultiTargets |-> <<>>]
    /\ elaborated = {}
    /\ handed = {}
    /\ call = NoCall

Init == InitBuilding /\ registered = [s \in Multi |-> NoCallbacks]

Build ==
    \/ \E i \in MultiInits \cup Inits, t \in MultiTargets \cup Targets :
         Bind(i, t) \/ BindFromTarget(t, i)
    \/ \E s, u \in MultiInits : JoinInitiators(s, u)
    \/ \E s, u \in MultiTargets : JoinTargets(s, u)
    \/ JoinMono
    \/ EndBuilding

AskId == \E i \in MultiInits, t \in MultiTargets \cup Targets : BindWithId(i, t)

Elaborate == (\E s \in Multi : BeforeEndOfElaboration(s)) \/ EndElaboration

\* The calls of ordinary sockets, and those that modules make through the
\* multi sockets in callers.
Run(callers) ==
    \/ \E s \in Multi, k \in Kinds : \E n \in 1 .. Len(binders[s]) : CallThroughPort(s, n, k)
    \/ \E s \in MultiTargets \cap callers, k \in Kinds :
         \E n \in 1 .. Len(sockets[s]) : CallFromTarget(s, n, k)
    \/ \E s \in MultiInits \cap callers :
         \E n \in 1 .. Len(sockets[s]) : CallFromInitiator(s, n)

Registering == \E s \in Multi, k \in Kinds : Register(s, k) \/ RegisterAgain(s, k)

Next == Build \/ AskId \/ Elaborate \/ Run(Multi) \/ Registering

Spec == Init /\ [][Next]_vars

-----------------------------------------------------------------------------
Id == 0 .. IdMod - 1

TypeOK ==
    /\ [sockets |-> present, kinds |-> kinds] \in Platforms
    /\ stage \in {"building", "elaborating", "running", "aborted"}
    /\ outer \in [Multi -> Multi \cup {NoSocket}]
    /\ joined \in [Multi -> BOOLEAN]
    /\ exported \subseteq Multi
    /\ binders \in [Multi -> Seq(Binder)]
    /\ sockets \in [Multi -> Seq(Interface)]
    /\ port \in [MultiTargets -> Seq(Interface)]
    /\ registered \in [Multi -> CallbackTable]
    /\ elaborated \subseteq Multi
    /\ handed \subseteq [socket : MultiInits, peer : MultiTargets \cup Targets, id : Id]
    /\ call \in {NoCall} \cup [kind : Kinds, from : Sockets, id : Nat, cb : Callback]

\* The list of an initiator has every peer, unless a target made the binding.
Listed(s) == Len(sockets[Root(s)]) = Len(binders[Root(s)])

\* The socket that the peers of a chain of joined sockets see.
Face(s) == IF s \in Multi THEN Root(s) ELSE s

\* The identifier a callback is given names the peer that called: answering
\* through operator[] with it goes back to the caller, however many sockets are
\* joined between the peer and the module (routerNBTransportFw and
\* routerNBTransportBw translate between the two numberings).
AnswersGoBack ==
    call # NoCall /\ Listed(call.cb.socket) =>
        LET to == sockets[call.cb.socket] IN
        call.id + 1 <= Len(to) /\ to[call.id + 1].socket = Face(call.from)

\* A callback registered before its socket's before_end_of_elaboration serves
\* every peer of the chain of joined sockets, with whatever order they were bound
\* and elaborated.  One registered later, if only by a module's
\* end_of_elaboration, is accepted in silence and serves none of them.
ServesEveryPeer ==
    stage = "running" =>
        \A s \in Multi, k \in Kinds : ~joined[s] /\ k \in KindsOf(s) =>
            \A n \in 1 .. Len(binders[Root(s)]) :
                binders[Root(s)][n].cb[k] =
                    IF registered[s][k] # NoCallback /\ registered[s][k].early
                    THEN registered[s][k] ELSE NoCallback

\* multi_initiator_socket.h:157-161 says of bind(s, id) "Bind returning assigned
\* ID ... @param id ID assigned to socket": the identifier that the calls of this
\* peer will carry.
BindReturnsAssignedId ==
    [][\A h \in handed' \ handed :
         LET peers == binders'[Root(h.socket)] IN
         Listed(h.socket) => h.id + 1 <= Len(peers) /\ peers[h.id + 1].peer = h.peer]_vars
=============================================================================
