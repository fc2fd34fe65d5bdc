----------------------------- MODULE RoutedSockets -----------------------------
(***************************************************************************)
(* A GenericRouter between the multi sockets it is made of: inputSocket is *)
(* a MultiTargetSocket, outputSocket a MultiInitiatorSocket, and either    *)
(* may be joined with a socket of the module around.  A call reaches the   *)
(* router as a callback with the identifier of a binder, and the router    *)
(* answers through lists and a table of identifiers; GenericRouter.tla has *)
(* names in their place.  Locations are left out: a target stands for the  *)
(* addresses it is mapped at.                                              *)
(***************************************************************************)
EXTENDS MultiSockets

CONSTANTS
    InputSocket, OutputSocket,  \* the members of the router
    Located                     \* the targets that have a location parameter

ASSUME RouterAssumption ==
    /\ InputSocket \in MultiTargets /\ OutputSocket \in MultiInits
    /\ Located \subseteq Targets
    /\ NoCall \notin [from : Sockets, kind : Kinds]

VARIABLES
    outputs,  \* the sockets mOutputSocketMap leads to
    latest,   \* mLatestNBCommunication, from an output's number to an input's
    waiting,  \* the call has reached the router, and its handler has not run
    reached,  \* the sockets the last handler has called
    exited    \* a handler of the router has called exit()

routerVars == <<outputs, latest, waiting, reached, exited>>
allVars == <<vars, routerVars>>

HasRouter == {InputSocket, OutputSocket} \subseteq present
RouterSockets == IF HasRouter THEN {InputSocket, OutputSocket} ELSE {}

\* The constructor registers a callback for every method, before anyone can
\* bind the sockets.
RouterCallbacks ==
    [s \in Multi |-> [k \in Kinds |->
        IF s \in RouterSockets /\ k \in KindsOf(s)
        THEN [socket |-> s, early |-> TRUE] ELSE NoCallback]]

-----------------------------------------------------------------------------
\* end_of_elaboration(): outputSocket.getSockets() is what the socket has taken
\* from the outermost one; a socket without a location is an exit, and so is an
\* unbound port.
CanRoute ==
    /\ Bound(InputSocket) /\ Bound(OutputSocket)
    /\ \A n \in 1 .. Len(sockets[OutputSocket]) : sockets[OutputSocket][n].socket \in Located

EndElaborationOfRouter ==
    /\ HasRouter
    /\ Elaborated
    /\ IF AllBound /\ CanRoute
       THEN /\ EndElaboration
            /\ outputs' = {sockets[OutputSocket][n].socket : n \in 1 .. Len(sockets[OutputSocket])}
       ELSE Abort /\ UNCHANGED outputs
    /\ UNCHANGED <<latest, waiting, reached, exited>>

-----------------------------------------------------------------------------
\* A call that reaches a callback of the router is handled at once; the other
\* calls are those of MultiSockets, which the router's own sockets do not make.
Call ==
    /\ ~waiting
    /\ Run(Multi \ RouterSockets)
    /\ waiting' = (stage' = "running" /\ call'.cb.socket \in RouterSockets)
    /\ UNCHANGED <<outputs, latest, reached, exited>>

\* A call of one of these kinds is in a callback of the router.
InHandler(called) == stage = "running" /\ waiting /\ call.kind \in called

\* The handler returns after it has called the sockets in s.
HandlerReturns(s) ==
    /\ waiting' = FALSE
    /\ reached' = s
    /\ UNCHANGED <<vars, outputs, exited>>

\* An exit() in a socket the handler calls: the handler does not return.
PeerExits == Abort /\ UNCHANGED routerVars

\* An exit() of the handler itself.
HandlerExits ==
    /\ Abort
    /\ waiting' = FALSE
    /\ exited' = TRUE
    /\ UNCHANGED <<outputs, latest, reached>>

\* The number of the first socket in the list that is t, from 0 on.
Positions(t) == {n \in 1 .. Len(sockets[OutputSocket]) : sockets[OutputSocket][n].socket = t}
NumberOf(t) == (CHOOSE n \in Positions(t) : \A m \in Positions(t) : n <= m) - 1

\* Mutant: map::insert() in place of operator[], which keeps the first initiator.
RememberFirst(t) ==
    latest' = [n \in {NumberOf(t)} \cup DOMAIN latest |->
                 IF n \in DOMAIN latest THEN latest[n] ELSE call.id]

\* mLatestNBCommunication[i] = id.
Remember(t) ==
    latest' = [n \in {NumberOf(t)} \cup DOMAIN latest |->
                 IF n = NumberOf(t) THEN call.id ELSE latest[n]]

\* The forward handlers, for an address in the location of t or in none.
RouteForward(t) ==
    /\ InHandler(FwKinds)
    /\ t \in outputs
    /\ IF call.kind # "nb_transport_fw" THEN HandlerReturns({t}) /\ UNCHANGED latest
       ELSE IF Positions(t) = {} THEN HandlerExits
       ELSE HandlerReturns({t}) /\ Remember(t)

RouteNowhere ==
    /\ InHandler(FwKinds)
    /\ HandlerReturns({})
    /\ UNCHANGED latest

\* A socket answers to kind: a multi initiator may have no callback for it.
Answers(to, kind) ==
    to.socket \in MultiInits => binders[to.socket][to.n].cb[kind] # NoCallback

\* routerNBTransportBw: inputSocket[mLatestNBCommunication[id]].
RouteNBTransportBw ==
    /\ InHandler({"nb_transport_bw"})
    /\ IF call.id \notin DOMAIN latest THEN HandlerExits
       ELSE LET to == sockets[InputSocket][latest[call.id] + 1] IN
            IF Answers(to, "nb_transport_bw")
            THEN HandlerReturns({to.socket}) /\ UNCHANGED latest
            ELSE PeerExits

\* routerInvalidateDirectMemPtr: all of inputSocket.getSockets().
RouteInvalidate ==
    /\ InHandler({"invalidate_direct_mem_ptr"})
    /\ LET all == {sockets[InputSocket][n] : n \in 1 .. Len(sockets[InputSocket])} IN
       IF \A to \in all : Answers(to, "invalidate_direct_mem_ptr")
       THEN HandlerReturns({to.socket : to \in all}) /\ UNCHANGED latest
       ELSE PeerExits

-----------------------------------------------------------------------------
RoutedInit ==
    /\ InitBuilding
    /\ registered = RouterCallbacks
    /\ outputs = {}
    /\ latest = <<>>
    /\ waiting = FALSE
    /\ reached = {}
    /\ exited = FALSE

Handler == \/ \E t \in Targets : RouteForward(t)
           \/ RouteNowhere \/ RouteNBTransportBw \/ RouteInvalidate

\* An identifier asked for while binding makes no difference to a router.
RoutedNext ==
    \/ Build /\ UNCHANGED routerVars
    \/ ~HasRouter /\ AskId /\ UNCHANGED routerVars
    \/ (\E s \in Multi : BeforeEndOfElaboration(s)) /\ UNCHANGED routerVars
    \/ ~HasRouter /\ EndElaboration /\ UNCHANGED routerVars
    \/ EndElaborationOfRouter
    \/ ~waiting /\ Registering /\ UNCHANGED routerVars
    \/ Call
    \/ Handler

RoutedSpec == RoutedInit /\ [][RoutedNext]_allVars

-----------------------------------------------------------------------------
Number == 0 .. Len(sockets[OutputSocket]) - 1

RoutedTypeOK ==
    /\ TypeOK
    /\ outputs \subseteq Located
    /\ DOMAIN latest \subseteq Number
    /\ \A n \in DOMAIN latest : latest[n] \in 0 .. Len(sockets[InputSocket]) - 1
    /\ waiting \in BOOLEAN
    /\ reached \subseteq Single \cup Multi
    /\ exited \in BOOLEAN

\* The lists of the router have all its peers, each in the place of its binder.
Regular == HasRouter /\ Listed(OutputSocket)

\* When its lists are complete, the router, with its identifiers, lists and
\* joined sockets, does what the table of names does: an answer reaches the
\* initiator that called this target last, an invalidation every initiator, and
\* the router exits only at an answer nobody asked for, as its error message
\* says (generic_router.h:234, "No nb_transport_fw was initiated by initiator").
Routing == Regular /\ outputs # {}

TablePeers == IF Routing THEN {binders[Root(InputSocket)][n].peer :
                                n \in 1 .. Len(binders[Root(InputSocket)])}
              ELSE {}

TableActive == IF Routing /\ waiting THEN [from |-> call.from, kind |-> call.kind] ELSE NoCall

TableCaller ==
    [t \in Targets |-> IF Routing /\ t \in outputs /\ NumberOf(t) \in DOMAIN latest
                       THEN sockets[InputSocket][latest[NumberOf(t)] + 1].socket ELSE NoSocket]

Table == INSTANCE ExchangeTable WITH
    Initiators <- Inits \cup MultiInits,
    NoOne <- NoSocket,
    peers <- TablePeers,
    active <- TableActive,
    caller <- TableCaller,
    reached <- IF Routing THEN reached ELSE {},
    stopped <- Routing /\ exited

TableSpec == Table!Spec
=============================================================================
