# A TLA+ model of hvcommunication

hvcommunication is a library of SystemC/TLM-2.0 communication parts: sockets,
payloads, protocol adapters, locations and routers, from which virtual platforms
are put together. This directory has a TLA+ model of it, configurations that
check the model with TLC, and proofs for TLAPS. All paths below are relative to
`src/src/` in the repository.

What makes the library hard is not any single function. Much of it runs during
*elaboration*, when sockets are bound in an order that each platform chooses;
calls nest, because a callee may call back before it returns; a blocking call may
wait while other processes use the same router or adapter; payload objects are
shared and changed by everybody on the way. The tests of the repository make one
platform each and call it in one order.

SystemC schedules its processes cooperatively. A call through `nb_transport`,
`transport_dbg` or a DMI interface may not wait, so such calls form one stack;
only `b_transport` waits, and everything else interleaves with those that do. All
models of calls (`GenericRouter`, `RoutedSockets`, `Links`) are built on that.

## 1. Inventory

| Part | State | Operations | Talks to |
|---|---|---|---|
| `location/location.h` | address, size, whether there is a size | constructors, conversion between widths, modifiers, `operator<`, `==`, `containsAddress`, CCI `pack`/`unpack` | routers, addressable sockets |
| `core/tlm-2/sockets/addressable_socket.h` | a CCI parameter with a location | construct (with a preset of the broker), `getLocation` | CCI broker, routers |
| `utils/tlm-2/routing` (generic router) | `mOutputSocketMap`, `mLatestNBCommunication`, whether addresses are made relative | `end_of_elaboration`, four forward and two backward handlers | multi sockets; initiators and targets |
| `protocols/*/*_router.h` | none | the router's two configurations | generic router |
| `utils/tlm-2/sockets/multi_*` | list of sockets, list of callback binders, the socket it is joined with | three `bind`s, hierarchical `bind`, registration, `before_end_of_elaboration`, `operator[]` | peers, the module's callbacks |
| `utils/tlm-2/sockets/simple_*` | one callback per interface method | registration (the first counts), defaults | peers, the module's callbacks |
| `core/tlm-2/sockets/bidirectional_socket.h` | an initiator and a target, `mIndex` | `bind` four ways, `bindHierarchical`, `operator[]`, calls | peers |
| `protocols/memory_mapped/*_socket.h` | an adapter, `hasBeenBound` | `bind` to sockets of both kinds, the cast to a plain target, `before_end_of_elaboration` | adapter, peers |
| `core/tlm-2/protocol_adapter`, converters | none that lasts; a payload per call | six handlers, two `deepCopy`s, plugs | both sides of the adapter |
| `core/tlm-2/base_payload` | manager, count, extension slots | acquire, release, attach, clear, release an extension, resize, deep copy, update | users of payloads |
| `protocols/*/*_payload.*` | the fields of the protocol | setters, `deepCopyFrom` | users of payloads |
| `core/tlm-2/sockets/base_socket.*` | a list of named IO elements, a map of binding rules | add, read, copy, replace | the sockets' constructors, modules, tools that draw or wire a platform |
| sockets of I2C, IRQ, signal, UART | the description of their wires; four parameters of a UART that nothing uses | constructors | IO description, base sockets |
| `initiator_socket.h`, `target_socket.h`, interfaces, `helpers.h` | none | aliases and pure interfaces | not modelled |

What makes each part correct:

* **Locations** are keys of a `std::map`: `operator<` has to order byte ranges and
  nothing else, also between instantiations of different width, or lookups and the
  overlap check are wrong. A location has to survive the trip through its parameter.
* **The router** accepts a platform exactly when its targets do not overlap, whatever
  the binding order; sends each call to the target that has the address; gives each
  payload back with the address it came with, however calls nest; gives each answer to
  the initiator that asked; never exits once it runs; loses no exchange; and keeps DMI
  regions where they belong.
* **Multi sockets** number their peers in two lists, filled at different times: an
  identifier has to name the same peer in both, through chains of joined sockets, and a
  callback has to serve each peer whatever socket of the chain it is bound to.
* **Links between sockets** (simple, bidirectional and memory-mapped sockets with
  their adapters) work in both directions, keep the limit of a target, and carry a
  request and its answer as a direct link would.
* **Payloads** leave each extension object with one owner, and copies are complete.
* **IO descriptions** of two sockets that are bound have to name the same wires, and an
  operation that leaves one inconsistent has to say so.

PROJECT.json lists the hazards at their lines, each with the properties that would
catch it, or the reason why there is none.

## 2. Modules

| Module | What it is |
|---|---|
| `Location` | the value type, as operators over a width (`AddrMod`, `SizeMod`) |
| `LocationObjects` | objects of two widths and the CCI parameter over their life |
| `GenericRouter` | the router with the initiators and targets around it |
| `Interconnect` | abstract: what a direct connection of initiators and targets does |
| `MultiSockets` | multi sockets and their peers from binding to calls |
| `RoutedSockets` | the router between its two multi sockets: its table of identifiers |
| `ExchangeTable` | abstract: a router that remembers callers by name |
| `Payloads` | base payload, extensions and the five protocol payloads |
| `Links` | memory-mapped, simple and bidirectional sockets, adapters, conversions |
| `DirectLinks` | abstract: a call, its one answer, no adapter and no copy |
| `IODescription` | elements and binding rules of the sockets of I2C, IRQ, signal and UART |
| `MCGenericRouter`, `MCRoutedSockets`, `MCLinks`, `MCIODescription` | platforms for TLC |
| `LocationProofs`, `LocationObjectsProofs` | theorems about locations, of one width and of two |
| `GenericRouterProofs`, `RouterCallsProofs` | theorems about the router: elaboration; calls, DMI, refinement |
| `RoutedSocketsProofs` | theorems about multi sockets, alone and around a router |
| `PayloadsProofs`, `IODescriptionProofs`, `LinksProofs` | theorems about those modules |

`GenericRouter` is built on `Location` and implements `Interconnect`; `RoutedSockets`
extends `MultiSockets` and implements `ExchangeTable`; `Links` implements `DirectLinks`. In
`GenericRouter` the router's multi sockets are the order of `getSockets()`, and
initiators and targets are named. That identifiers name peers is what `MultiSockets` is
about, and that the router's use of them does not mix names up is `TableSpec` of
`RoutedSockets`.

### Location, LocationObjects

A location is a record of `addr`, `size`, `hasSize`; `EndAddress` is inclusive and
computed modulo the width, as in the code, and `Equivalent` is what `std::map` makes of
`operator<`. `LocationObjects` has a narrow object, a wide object and a parameter value;
its actions are the constructors, modifiers, both conversions, `StoreParam`,
`PresetParam` (any value the broker may hold, malformed ones too) and `LoadParam`.

### GenericRouter

Elaboration: `Bind` (any order), `EndBinding`, one `ElaborateOutput` for each iteration
of the loop of `end_of_elaboration`, both of whose failures end in `aborted`, and
`EndElaboration`. `map` is `mOutputSocketMap`, `latest` is `mLatestNBCommunication`,
`addr[x]` is the address in payload `x` and `asked[x]` what its owner wrote there.

Calls: a handler is two steps, before and after the call it forwards. `stack` has the
calls that may not wait, `blocked` the `b_transport` calls that do. `BTransport`,
`BTransportReturn`, `SimpleCall` (debug and DMI), `BeginReq`, `EndResp`, `NBAccepted`,
`NBAnswered` (an answer in the return value), `NBTransportBw` and its return, `DmiGranted`,
`DmiRefused`, `InvalidateDirectMemPtr`. `phase` and `view` are an exchange's phase as its
target and its owner know it; they differ only if the router sent something astray.

`config` says how the router is configured and used: the `interfaces` in use, `relative`
(`setRelativeAddress_`: TRUE in the memory-mapped router, FALSE in the I2C router),
`shared` (a target may have exchanges of two initiators at once) and `reentrant` (an
initiator may send `END_RESP` from inside its `nb_transport_bw`). The environment keeps
the rules of the TLM-2.0 base protocol: one request without `END_REQ` per initiator, one
response at a time per target.

### MultiSockets

`sockets`, `binders`, `callbacks` and the joined socket of each multi socket, the
interface each peer's port is bound to, and `before_end_of_elaboration` of each socket in
any order. The actions are the three `bind`s (from either side), the three ways to join
sockets, registration of a callback at any time (in a constructor, in an elaboration callback
before or after that of the socket, in a process), and calls through ports and `operator[]`.
`platform` says which sockets there are and which methods are used (`kinds`).

### RoutedSockets, ExchangeTable

Two of the multi sockets, `InputSocket` and `OutputSocket`, are those of a generic router: it
registers all its callbacks in its constructor (`RouterCallbacks`), takes the sockets its output
is bound to into its map at the end of elaboration (`EndElaborationOfRouter`; one without a
location makes it exit), and its handlers work with identifiers as the code does: `latest` maps the number of an output to the number of an input, and
`RouteForward`, `RouteNowhere`, `RouteNBTransportBw` and `RouteInvalidate` are the
handlers, each asking `operator[]` for the peer. An answer nobody asked for, a number out of
the list or a peer without callback ends in `exited`. Addresses are left to `GenericRouter`:
here a call may be for any target, or none. `ExchangeTable` is the same router with names: who
called each target last, and where each call went.

### IODescription

Two devices, each with an initiator and a target socket of one of eight classes, whose
constructors put their elements and rules in place (`Description`). A module then edits the
description of one socket as the interface allows: `GetBaseIO` and `NewBaseIO` (a copy in
`draft`), `AddIOElement`, `AddBaseIO`, `AddBindingRule`, `GetIOElement`. An error is only
reported (`HV_ERR` logs; where the code wants to stop it calls `exit` besides), and the
operation carried out all the same, so a bad index is read: then the model stops.

### Payloads

Each protocol has the fields of its payload, grouped by what always travels together, and
those that its `deepCopyFrom` carries over. Extension objects
exist or not (`live`), are in slots, with the user (`held`), or were in the slots of a
payload that has ended (`lost`). A failed assertion and a call through a null pointer end
the program (`aborted`).

### Links

A socket's forward and backward ports are lists of peers (`outs`, `backs`); a
memory-mapped socket has an adapter as a second end. `wanted` is what the author of the
platform has bound, for the properties. A plain socket is bound to the interfaces of its
module when the module likes (`Offer`); a simple one has them from the start. `Build`:
`Offer`, `BindInitiator`, `BindToGeneric`,
`BindFromGeneric`, `BindBidirectional`, and the ways to join an end with a socket of the
module around: a plain one (`JoinGeneric`, `JoinGenericTarget`), a memory-mapped one of the
same direction, which has an adapter of its own (`JoinInitiator`, `JoinTarget`, also for one
direction of a bidirectional socket), a bidirectional one (`BindHierarchical`). Elaboration:
`BeforeEndOfElaboration` of each memory-mapped socket in any order, which connects its
adapter or plugs it (`Clog`), and `EndElaboration`, where SystemC checks sizes and
policies. `Run`: `Call`, `AdapterCalls` and `AdapterReturns` (a handler of an adapter before
and after the call it makes; one whose port has no peer stops the program), `Serve` (the callback or the default), `CallReturns`,
`Select` (`operator[]` of a bidirectional socket, with any number up to the first that no port
has) and `CallNobody` (a call with a number its port does not have, which is an error of the
port). Callbacks are registered at any time. A call record has the ends it has
reached and the payload each was given. `Convert` is the pair of `deepCopy`s with their
tables and the narrower data length.

## 3. Runs

Each run is finished by TLC; a passing run has no bound but the constants of its cfg.

| Run | Question | Size |
|---|---|---|
| `LocationObjects` | is `operator<` the order of byte ranges, within and across widths; does a parameter keep a location | 158 112 states |
| `RouterCalls` | which platforms are accepted; do calls see their target, do payloads come back, do views agree, are DMI regions right | 1 600 118 states |
| `RouterProgress` | does every exchange end; does the router implement `Interconnect` | 33 394 states, fairness |
| `RoutedSockets` | do identifiers name the peer that called; does a callback serve all; does a router between such sockets implement `ExchangeTable` | 1 450 153 states |
| `Links` | do bindings work, are limits kept, are adapters transparent | 995 807 states |
| `Payloads` | one owner for each object; copies bring extensions | 968 989 states |
| `IODescription` | do the descriptions of two bound sockets fit; is disorder reported | 311 240 states |
| `RouterAnswerMisrouted`, `RouterDmiStale`, `MultiSocketsBindId`, `PayloadCopy`, `LinksBehindSocket` | the findings of section 6 | |

Why the bounds are enough:

* *Locations*: widths 4 and 8 are the smallest where one type is narrower and each has
  sizes 0, 1, 2 and more, starts inside, and ends at the last address.
* *Router*: eight bytes hold two targets, a gap, an address whose offset is the address
  of the *other* target, and the first and last byte of a location. Two initiators with
  three payloads give one initiator two exchanges at a time and two initiators with one
  each, which is what tables of one entry per target can confuse. For elaboration three
  targets take six locations each (216 setups), among them one without size, none at all,
  one inside another and one that meets two others, so that overlaps are met in any order;
  the calls are explored on two targets with fixed locations. A setup of `Setups` is a
  pair of locations and of the way the router is configured and used.
* *Multi sockets*: chains of up to three joined sockets (longer ones cannot be
  elaborated), two peers on a side, identifiers modulo `IdMod` = 8, which shows the wrap. The routers
  have two callers (plain initiators or a multi initiator) and up to two targets, so that the
  table has two entries with two values to confuse, lists in any order, and a socket joined
  around either side.
* *IO description*: all pairs of classes of one protocol; one edited socket, a list of up
  to three elements, which is enough for two of one name that are not neighbours.
* *Payloads*: the properties of the passing run are about extensions, so it takes the two
  protocols whose fields differ most; copies have one source and one destination; one extension type can be cloned,
  the other cannot; three objects allow a clone next to two originals. `MaxCount` bounds
  `mMMCount`, which is never more than 0: see section 7.
* *Links*: each platform is one way of linking sockets: peers of both kinds at one
  target with two places for three and with no limit, an adapter to a plain target, directly
  or through a socket around, a target behind a generic socket around, alone or with peers of
  its own, two adapters in a row, a bidirectional socket behind an adapter, bidirectional sockets with each other,
  in a module, with one-way peers, plain sockets whose module binds its interfaces late, and memory-mapped sockets around an initiator, a target
  with two places, and the two directions of a bidirectional socket. A pair is bound once, a
  joined port has no peers of its own, and an end has one call in progress; an adapter still has several, one of
  each peer. `LengthMod` = 4 stands for the 32 bits of a plain payload's length, and one
  request is longer than that.

What the properties say:

* `OrderIsExtentOrder`, `MixedWidthOrder`, `ParamRoundTrip`, `LoadIsAllOrNothing`: for every
  pair of objects that can be made. `EqualityMissesInner` says what `operator==` answers, which is
  less than its comments promise: see section 6.
* `ElaborationVerdict`: running platforms have disjoint locations, aborted ones have not.
* `CallsSeeTheirTarget`, `AddressRestored`: a relation of an address in a payload, the
  address asked for, and the map, across all calls that meanwhile go through the router.
* `ViewsAgree`: the target and the owner of an exchange agree on its phase.
* `NeverExits`: of the router's `exit` calls none is reached once it runs.
* `AbsoluteDmiCoherent`, `DmiStaysHome`: a region an initiator holds is still lent, and lies
  in its target's location.
* `ExchangesEnd`, `DirectSpec` (router): liveness, and refinement of `Interconnect` with
  its fairness.
* `AnswersGoBack`, `ExactlyOneOwner`, `CopyBringsExtensions`: as above.
* `ServesEveryPeer`: which callbacks are in which binders once the platform runs, for both sorts: one
  that was registered before its socket's `before_end_of_elaboration` is in every binder of
  its chain, one that was registered later is in none. Later may still be during elaboration, in
  a module's `end_of_elaboration` or in its `before_end_of_elaboration` if that comes after the socket's.
* `TableSpec`: refinement of `ExchangeTable`. An answer reaches the initiator that called this
  target last, an invalidation all of them, and the router exits only at an answer nobody
  asked for. It is stated for platforms where no peer of the output was bound by
  `target.bind(initiator)` (`Listed`), which leaves the socket's own list short.
* `WiresMeet`: in two bound sockets of one protocol, each element the constructors made is wired
  by a rule of the one or the other, to an element of a fitting mode, and the rules agree,
  whatever modules add, as long as what they add has names of its own and no list is replaced by a
  shorter one.
  `OutOfOrderIsReported`: a description gets two elements of one name or a rule without element
  only with a report, or when its list is replaced by one that lacks an element.
* `BindingsWork`: after elaboration each wanted binding reaches the other end in both
  directions through whatever is between, those of direct peers beside a shared adapter included.
  What is out of reach is named, not left out: the peers of an adapter that is in use except its
  first (`Overlooked`). And calls end only where the author bound them, so that the first peer is
  a wanted one. No call ends in a plug, but for the case of
  `LinksBehindSocket`, nor in an adapter, but for one joined with an initiator socket around that
  nobody binds. `TargetWithinLimit` leaves out a target that has peers at its own
  adapter and is joined too, and one behind a generic target socket around. `PeersAligned` is
  about bidirectional sockets all of whose bindings go both ways, those of an adapter around
  included.
* `DirectSpec` (links): refinement of `DirectLinks`. A call goes only where the author
  bound it, is answered where it was going when it was made, the request that arrives is the one
  made, and the caller finds in its own payload the answer given at the other end. Two sorts of
  calls count as none (`Lost`): those that end in an adapter nobody is bound to, which nobody
  serves, and those that end in the plug of a target behind a socket around, which is the finding
  `LinksBehindSocket`.

`RouterCalls` states `CallsSeeTheirTarget` and `ViewsAgree` for all uses but a translating
router with nested `END_RESP` (`NoNestedOffset`). There the payload still has its relative
address and the router looks it up as an absolute one. No document promises that this
works; the run explores it for the other properties. In the same way `ViewsAgree` is not
promised for shared targets: that is the finding `RouterAnswerMisrouted`.

### Fairness

`RouterProgress` alone needs it (`FairSpec`): weak fairness on returning a call that may
not wait, which cooperative scheduling gives; strong fairness on a target answering and on
an owner ending a response, because the base protocol obliges both and because a
process that is ready runs before time advances, whatever calls of others disable it for a
moment. Blocking calls may last for ever. Safety runs assume no fairness. The runs that
set `CHECK_DEADLOCK FALSE` do so because a platform may abort, or have nothing to do.

## 4. Proofs

All obligations are checked by TLAPS (SMT, Zenon and, for the last temporal step of a theorem,
LS4). The theorems hold for every platform, width, number of sockets, payloads and calls, and every
configuration, under the assumptions named in the modules. TLC found the inductive invariants to
hold on the platforms of the runs before they were proved.

### Locations

* `EquivalentIsOverlap`, `PointLookup` (`LocationProofs`): for locations that fit the
  address space, keys that `std::map` cannot tell apart are the overlapping ones, and
  looking up an address finds a location exactly when it contains the address. They rest on a
  lemma on the end address, which says that it does not wrap.
* `LocationTypes`, `OrderOfExtents`, `EqualityIsOverlapButInner`, `OrderOfMixedWidths`,
  `ParamKeepsLocation`, `LoadTakesAllOrNothing` (`LocationObjectsProofs`): the properties of the run
  `LocationObjects`. `LocationProofs` is instantiated for the narrow and the wide type; what remains
  is that an extent is an interval, so that two of them are apart exactly when one ends before the
  other starts, and that widening keeps both ends.

### Router

* `TypeCorrect`: `TypeOK` is inductive; one lemma for each group of actions, lemmas
  for pushing and popping calls and for both offset operations.
* `RouterInvariant`: `TypeOK /\ RouterInv`. `ElaborationVerdict` is not inductive: that the
  platform has no overlap is established piecemeal by the loop. `RouterInv` adds what the
  loop keeps: the map has exactly the outputs before `next`, with their own locations,
  pairwise apart; a router that has aborted was stopped by its current output; and every target
  that holds a request has an entry in the table.
* `ElaborationIsSound`: `ElaborationVerdict` from it, by the two lemmas on locations.
* `RouterNeverExits`: the action property `NeverExits` from it: the target of an entry is
  among the bound sockets, and the table has an initiator for a target that answers.
* `CallsInvariant` (`RouterCallsProofs`): `CallsInv`, the invariant of calls in progress. A payload's
  address while calls are nested is told by a *trail* (`Nested`): going outwards from the innermost
  call, each forward call of that payload adds its target's address back, modulo the width, and
  outside all of them is what the owner wrote. A push and a pop lengthen and shorten the trail
  (`NestedPush`, `NestedPop`), because the two offsets are inverse, wrapping included. Besides:
  a payload in a waiting `b_transport` is in no other call (`BlockedInv`), a frame has the offset of
  its target (`FrameInv`), an exchange is held by the target whose location has its address
  (`HolderInv`), and what is true only without re-entrant answers (`StackInv`, `ServiceInv`).
* `CallsAreInTheirTarget`, `AddressIsRestored`: from it. The second holds without the
  restriction to `NoNestedOffset`.
* `DmiRegionsStayHome`, `AbsoluteDmiIsCoherent`: `DmiInv` says that each region held was lent by a
  target with a location and lies in it, in the initiators' addresses.
* `OwnersAndTargetsAgree`: `ViewInv` adds to `view = phase` that the table names the owner of
  whatever a target holds.
* `RouterImplementsInterconnect`: each step maps to a step of `Interconnect` or a stutter. The
  hypotheses on `Setups` are those of the run `RouterProgress`: no shared targets, no re-entrant
  answers to a translating router. Only the safety part is proved; that `FairSpec` implements the
  fairness of `Interconnect` is the run's.

### Multi sockets

* `MultiSocketsInvariant`, `RoutedSocketsInvariant`: `SocketsInv` is kept by every step of the multi
  sockets, alone and around a router. Its parts:
  `ChainsInv`, on chains of joined sockets (`Root` is a recursive function, and no induction over a
  chain can be done here, so the induction is on the joins: the chains have ends, whatever edges
  are taken away, because a join adds an edge into a socket nothing leads to, or replaces one);
  `InitsInv`, `PortsInv` and `TargetsInv`, on the two lists of each socket, position by position, before
  and after elaboration has copied them down the chain; `BindersInv` and `ServedInv`, on the callbacks
  in binders, which are copied when a binder is made and when its socket is elaborated, and not
  when a callback is registered after that; `StageInv` and `CallInv`, on what has been elaborated and on the last call.
* `RoutedIdentifiersAnswerBack`, `RoutedCallbacksServeEveryPeer` and, for multi sockets alone,
  `IdentifiersAnswerBack`, `CallbacksServeEveryPeer`, `MultiSocketsTyped`: `AnswersGoBack`,
  `ServesEveryPeer` and `TypeOK`, from it, for chains of any length.
* `RoutedSocketsTyped`: `RoutedTypeOK`. `RouterInv` says that the outputs are the list of the output
  socket, that a call waits only in a callback of the router, and that the table leads from a
  place in one list to a place in the other.
* `RouterImplementsTable`: the whole of `TableSpec`, which has no fairness. The end of elaboration is
  `Start`, a call that reaches the router is `Arrive` (its caller is a peer or an output:
  `CallerIsAround`), and each handler is its action of the table or, when the socket it calls exits, a
  stutter. What makes the identifiers as good as names is that an output is in the list once
  (`OutputsListedOnce`), so that its number is its own (`NumberOfListed`), and that the
  identifier of an answer is that number (`BackwardCaller`).

### Payloads

* `PayloadTypes`, `OneOwner`, `DeepCopyBringsExtensions` (`PayloadsProofs`). `ExactlyOneOwner` counts
  owners, which no step does; `OwnerInv` says what steps keep: what lives is attached, held or lost
  (`LiveInv`), these are disjoint (`ApartInv`), and no two slots have one object (`SlotInv`).

### IO descriptions

* `ListsInvariant` and, from it, `DisorderIsReported`: the action
  property `OutOfOrderIsReported`. It is not a matter of one call: `addBaseIO` copies a list
  that was built by earlier ones, so the invariant says that as long as nothing has been
  reported no list, an author's or a socket's, has two elements of one name. The
  constructors establish it, whatever the class.
* `DescriptionTypes`; `BoundSocketsAreWired`: `WiresMeet`, if the names that modules use are none of
  the six that the constructors use (`OwnNames \cap ConstructorNames = {}`). `WireInv`: a socket keeps
  the rules of its constructor, and all others begin at an element of a module. That any two classes
  of one protocol fit together is a fact about their descriptions (`FitTogether`).

### Links

* `LinkTypes`: `TypeOK` with `CallInv` (a call has a payload for each end of its route).
* `PortsAreAligned`: `PeersAligned`, with what a socket around may be joined with (`JoinsInv`) and
  that an adapter's peers are there by bindings of one pair (`AdapterInv`).
* `WorkInvariant`: `WorkInv`. Two ends are peers of each other or none is of the other (`Mutual`);
  each peer in a port has a reason, the author's wish, elaboration, or a plug (`OutsExplained`,
  `PlugsExplained`); each wish has its peer (`WantedLinked`); each socket that has been elaborated is
  in place or plugged, and only one without peers at its adapter, or behind a socket around, is
  plugged (`InPlace`).
* `EveryBindingWorks`: `BindingsWork`. A call follows at most two adapters. From the size checks of
  `EndElaboration` an adapter has one peer on the side of its socket; from `Mutual` and `InPlace` that
  peer is the socket, and from `WantedLinked` the peer asked for is on the other side, either as its
  first or as one of those the adapter overlooks (`CalledOrOverlooked`). That an end which is reached
  is one the author bound is `ForwardReach` and `BackwardReach`.
* `LimitIsKept`: `TargetWithinLimit`. `before_end_of_elaboration` counts peers at one moment, other
  sockets are elaborated later, and what counts is the end. `LimitInv`: for each target that has been
  elaborated with peers at its adapter, the callers in both ports together are within the limit.
  Elaboration puts no caller in such a port afterwards (`CallersStay`), and a running platform's peers
  are these callers (`PeersOfTarget`).

* `RequestsAreKept`: `RequestInv`. An end has one call in progress, in one place, and each payload on its
  way, plain or memory-mapped, says the request that was made. It rests on `ConversionKeeps`: what
  `deepCopy` writes into the other kind of payload says the same command, data, length (compared in
  the 32 bits of a plain payload) and status. What the answer was needs no invariant, since the end
  that has it gives it back with the same conversion, step by step.
* `WaysAreKept`: `WayInv`. A call is going to a destination (`Destination`: through at most two
  adapters), each adapter that forwards it takes it one step on that way, and at the end of it no
  socket passes it on.
* `LinksAreDirect`: the whole of `DirectSpec`, which has no fairness. Binding and elaboration are
  `Rebuild`, `Call` is a request, `Serve` an answer, `CallReturns` the end of it; what adapters do,
  registration and `operator[]` are stutters. That a request is made along a link is
  `CallsAreLinked`, from `WorkInv`: the way of a call ends at a peer the author asked for, and the
  links are those of both directions.

### Assumptions

`WidthAssumption`, `RouterAssumption`, `NarrowIsNarrower`, `SocketsAssumption`, `CallbackAssumption`,
`PayloadAssumption`, `IODescriptionAssumption`, `LinksAssumption`, `DirectAssumption`: locations do not pass the end of the
address space, every payload has an owner, a socket belongs to one class and is no adapter, widths are
positive, the values that stand for no socket, no callback, no call and no answer are none of these. TLC evaluates each in a passing run.

### What proving has changed in the model

Some properties that TLC had found to hold on small platforms could not be proved, because they were
false on others:

* `WiresMeet` asked that nothing had been reported. That is not what matters: a module that
  adds an element named as one of the constructors' breaks it without a report.
* `PeersAligned` did not think of an initiator's adapter around a bidirectional socket, which is one
  peer in one port; `TargetWithinLimit` not of a target behind a generic socket around. Both have
  a platform in the run `Links` now.
* A call that ran into the empty port of an adapter was not in the model; it ends the program.
* `NarrowIsNarrower` did not say that widths are positive.
* `TableSpec` was stated for platforms where every peer is bound to the outermost socket of its
  chain. The proof does not need that: a peer bound further inside has a binder
  without callbacks, so its calls never reach the router. The run checks the stronger form now.
* A multi initiator that another one was joined with may itself be joined twice: the second join replaces
  the first. That chains still end is why `ChainsInv` speaks of cut graphs.
* `DirectSpec` (links) was false on platforms with a target behind a socket around: such a call
  ends in a plug and still returns. No platform of the run had such a target and made calls; one has
  now, and the mapping leaves these calls out by name. The mapping also told where a call is going
  from the end it was made at, so that nothing said it is served there; it is told from the
  end the call has reached now, so that a call that strayed would break the refinement.

### Only model-checked

* `ExchangesEnd` and the fairness of `Interconnect`: liveness and ENABLED are out of the prover's
  reach.

## 5. Not modelled

* Locations that pass the end of the address space (`Fits` is false): their end is below
  their start, `operator<` is no order on them, and `std::map` has no defined behaviour.
* The wording of messages, stream output, names of commands and statuses, delays.
* A binding that a module makes inside its own `before_end_of_elaboration`: sockets are bound in
  constructors, as the tests do.
* What tells a refused DMI request from one that allows nothing: both are `DmiRefused`.
* `setMM` and `hasMM`, which have no definition. `HV_ASSERT` is taken as ending the program.
* Byte enables, the streaming width and extensions, which the converter does not copy
  ("FIXME Copy extensions too", memory_mapped_protocol_converters.h:27).
* `bind(socket, id)` on the sockets of a router: it binds as `bind(socket)` does, and the
  number it returns is looked at in platforms without a router.
* The parameters of a UART socket (valid bits, stop bits, enabled bits, baud rate): nothing reads
  them, and the registration of their callbacks is commented out.
* Destructors of sockets, pure interfaces (`initiator_socket.h`, `target_socket.h`,
  `fw_bw_transport_if.h`) and umbrella headers: they have no state or operation of their own.
  The template `getExtension<T>()` (extensions.h:104) returns a `T**` from a `static_cast<T*>` and
  does not compile when it is used.

## 6. Findings

Each is a violation run with a counterexample.

1. `RouterAnswerMisrouted`: `routerNBTransportBw` forwards to the initiator that called the
   target last; with exchanges of two initiators the answer goes to the wrong one
   (generic_router.h:237; the comment at 230 says otherwise).
2. `RouterDmiStale`: `routerInvalidateDirectMemPtr` passes a target's range on without
   translation, so initiators of a translating router keep withdrawn regions
   (generic_router.h:244).
3. `MultiSocketsBindId`: `bind(s, id)` of a joined socket returns `SIZE_MAX`
   (multi_initiator_socket.h:164).
4. `PayloadCopy`: `IRQPayload::deepCopyFrom` leaves the value out (irq_payload.cpp:78); the
   memory-mapped payload leaves out `mDMIAllowed`, the signal payload everything.
5. `LinksBehindSocket`: a memory-mapped target that a module offers through a plain target
   socket of its own counts no bindings before elaboration is over, because a port that
   takes its peers from an outer one is still empty. Its adapter is plugged as "useless" and
   swallows the calls of its peers (memory_mapped_socket.h:151, protocol_adapter.h:111).

Further observations, for which there is no violation run:

* `Location::operator==` contradicts its comments (location.h:171 and 182: "True if locations
  RECOVER ..., false otherwise"). It looks for an end of the other location inside this one
  (line 184), so of two that overlap it says no when this one lies strictly inside the other, and yes
  when the other is asked. `EqualityMissesInner`, checked and proved for every width, says
  that this is the one case it misses. The router does not use it.
* A callback that is registered at a multi socket after its `before_end_of_elaboration`, in a module's
  `end_of_elaboration` or once the simulation runs, is accepted without a warning and serves nobody
  (multi_initiator_socket.h:56-87 and 189-193, multi_target_socket.h:177-211).
* Three joined multi targets always fail to elaborate, and chains of multi initiators work
  only when joined from the inside out. A multi initiator bound to a multi target exits at
  its first call, because it asks for an interface again and gets one without callbacks.
* A target that is joined with a socket around has a port of size 0 until elaboration is over, so
  what its adapter brings is not counted against the peers it gets from around
  (memory_mapped_socket.h:155). In the same way an adapter behind a generic target socket is taken
  for unused, and what it brings is not counted: a target with a limit of three that has two
  peers of its own, and two more through such a socket, has four.
* A memory-mapped initiator that is joined with a plain initiator socket around puts its adapter in
  place even if nobody binds that socket (memory_mapped_socket.h:93); if its policy allows that, a
  call then ends in the adapter's empty port, which is an error of SystemC.
* `deepCopyFrom` returns true when an extension could not be cloned (base_payload.h:105: "true if
  success"). The simple I2C initiator socket describes its wires without rules, the plain one
  with them (i2c_simple_socket.h:45, i2c_socket.h:50).
* `BasePayload(MM)` drops its argument, so `acquire` and `release` fail their assertion
  always. Payload destructors leave extensions behind. A deep copy into a payload without
  slots reads past the end of `mExtensions`.
* `isResponseOk()` converts a status to `bool`, so error statuses, being negative, read as OK.
  A memory-mapped payload starts as OK, so a call nobody serves looks served.
* An adapter calls the first interface of its port only: with several plain initiators behind one
  memory-mapped target, answers and invalidations reach the first. The payload it gives
  to a target is a local variable: a target that answers later uses it after its end.
* An initiator's limit N is checked for its own port and its adapter's each, so it may have
  more than N peers in all.
* `get_direct_mem_ptr` of a bidirectional socket calls a method that does not exist
  (bidirectional_socket.h:194) and cannot be used; its target is instantiated with `N_INIT`
  and `POL_INIT` (line 140). A pointer kept from `operator[]` follows later selections.

## 7. Plan

Done: every part of the inventory that has state is modelled; abstract specifications for the
router, its table of identifiers and links; every safety property of the passing runs is proved,
and so are the three refinements, but for the fairness of `Interconnect`. What is left
is to model more:

1. Exchanges through an adapter with payload identity, where the lifetime of the
   adapter's payload shows; a router with memory-mapped sockets on both sides, that is
   `Links` and `GenericRouter` together.
2. `mMMCount` and managed payloads are in `Payloads` but unreachable, since no constructor
   keeps a manager: extend it if the library comes to define `setMM`.
