-------------------------- MODULE RoutedSocketsProofs --------------------------
(***************************************************************************)
(* Proofs about MultiSockets and RoutedSockets, for platforms of any       *)
(* number of sockets: types, that the identifier of a call leads back to   *)
(* the caller, that callbacks serve every peer, and that a router between  *)
(* multi sockets implements ExchangeTable.                                 *)
(***************************************************************************)
EXTENDS RoutedSockets, SequenceTheorems, TLAPS

-----------------------------------------------------------------------------
(***************************************************************************)
(* Chains of joined sockets.  getHierarchicalBind() follows a chain to its *)
(* end, and Root is a recursive function: that it has a value, and which,  *)
(* is a fact about the graph the joins have built.  A join adds an edge to *)
(* a socket nothing is joined with, but it may also replace an edge, so    *)
(* the invariant speaks of the graph with any set of edges taken away.     *)
(***************************************************************************)

\* f leads every socket to the end of its chain, when the chains end at the
\* sockets in S.
LeadsToEnds(f, S) ==
    f = [u \in Multi |-> IF outer[u] = NoSocket \/ u \in S THEN u ELSE f[outer[u]]]

\* The ends are of the same kind, a socket that no join has touched is alone,
\* and two sockets that nothing is joined into are on different chains.
Ends(f, S) ==
    /\ f \in [Multi -> Multi]
    /\ \A u \in Multi : f[u] \in S \/ outer[f[u]] = NoSocket
    /\ \A u \in Multi : f[u] \in MultiInits <=> u \in MultiInits
    /\ \A u \in Multi : f[u] \notin exported => f[u] = u
    /\ \A u, v \in Multi : ~joined[u] /\ ~joined[v] /\ f[u] = f[v] => u = v

\* Whatever edges are taken away, every chain has one end.
ChainsInv ==
    \A S \in SUBSET Multi :
        /\ \E f : LeadsToEnds(f, S) /\ Ends(f, S)
        /\ \A f, g : LeadsToEnds(f, S) /\ LeadsToEnds(g, S) => f = g

\* A join exports both sockets, and the inner socket of a joined target is not
\* joined itself.
JoinsInv ==
    /\ \A s \in Multi : outer[s] # NoSocket =>
         /\ {s, outer[s]} \subseteq exported \cap present
         /\ joined[outer[s]]
         /\ outer[s] \in MultiInits <=> s \in MultiInits
    /\ \A s \in Multi : joined[s] => s \in exported \cap present
    /\ \A t \in MultiTargets : joined[t] => \E s \in MultiTargets : ~joined[s] /\ outer[s] = t

\* The types of what chains are made of.
ShapeOK ==
    /\ present \subseteq Sockets
    /\ outer \in [Multi -> Multi \cup {NoSocket}]
    /\ joined \in [Multi -> BOOLEAN]
    /\ exported \subseteq Multi

\* Root(s) is the end of the chain of s.
LEMMA RootIsTheEnd ==
    ASSUME ChainsInv
    PROVE  /\ LeadsToEnds([s \in Multi |-> Root(s)], {})
           /\ Ends([s \in Multi |-> Root(s)], {})
<1> DEFINE Eqn(f) == f = [u \in Multi |-> IF outer[u] = NoSocket THEN u ELSE f[outer[u]]]
           r == CHOOSE f : Eqn(f)
<1>1. PICK f : LeadsToEnds(f, {}) /\ Ends(f, {})
  BY DEF ChainsInv
<1>2. Eqn(f)
  BY <1>1 DEF LeadsToEnds
<1>3. Eqn(r)
  <2> HIDE DEF Eqn
  <2> QED  BY <1>2
<1>4. LeadsToEnds(r, {})
  <2> HIDE DEF r
  <2> QED  BY <1>3 DEF LeadsToEnds
<1>5. r = f
  <2> HIDE DEF r
  <2> QED  BY <1>1, <1>4 DEF ChainsInv
<1>6. \A s \in Multi : Root(s) = r[s]
  BY DEF Root
<1>7. [s \in Multi |-> Root(s)] = f
  <2> HIDE DEF r
  <2>1. f = [s \in Multi |-> f[s]]
    BY <1>1 DEF Ends
  <2> QED  BY <2>1, <1>5, <1>6
<1> QED  BY <1>1, <1>7

\* What the proofs use of Root: it is an outermost socket of the same kind, the same
\* for the sockets of a chain, and different for the inner ends of two chains.
LEMMA RootFacts ==
    ASSUME ChainsInv
    PROVE  /\ \A s \in Multi : Root(s) \in Multi /\ outer[Root(s)] = NoSocket
           /\ \A s \in Multi : outer[s] = NoSocket => Root(s) = s
           /\ \A s \in Multi : outer[s] # NoSocket /\ outer[s] \in Multi => Root(s) = Root(outer[s])
           /\ \A s \in Multi : Root(Root(s)) = Root(s)
           /\ \A s \in Multi : Root(s) \in MultiInits <=> s \in MultiInits
           /\ \A s \in Multi : Root(s) \notin exported => Root(s) = s
           /\ \A s, u \in Multi : ~joined[s] /\ ~joined[u] /\ Root(s) = Root(u) => s = u
<1> DEFINE f == [s \in Multi |-> Root(s)]
<1>1. LeadsToEnds(f, {}) /\ Ends(f, {})
  BY RootIsTheEnd
<1>2. \A s \in Multi : f[s] = Root(s)
  OBVIOUS
<1> HIDE DEF f
<1>3. \A s \in Multi : Root(s) = IF outer[s] = NoSocket THEN s ELSE f[outer[s]]
  BY <1>1, <1>2 DEF LeadsToEnds
<1>4. \A s \in Multi : Root(s) \in Multi /\ outer[Root(s)] = NoSocket
  BY <1>1, <1>2 DEF Ends
<1> QED  BY <1>1, <1>2, <1>3, <1>4 DEF Ends

\* The ends of the chains after a join: those that led to the inner socket now
\* lead to the outer one.
LEMMA JoinMovesEnds ==
    ASSUME ShapeOK, JoinsInv, ChainsInv,
           NEW inside \in Multi, NEW outside \in Multi, inside # outside,
           inside \in MultiInits <=> outside \in MultiInits,
           outside \notin exported,
           outer' = [outer EXCEPT ![inside] = outside],
           joined' = [joined EXCEPT ![outside] = TRUE],
           exported' = exported \cup {inside, outside}
    PROVE  ChainsInv'
<1>1. /\ outer[outside] = NoSocket
      /\ NoSocket \notin Multi
      /\ \A u \in Multi : outer[u] # outside
  BY SocketsAssumption DEF JoinsInv, Sockets
<1>2. /\ \A u \in Multi : outer'[u] = IF u = inside THEN outside ELSE outer[u]
      /\ \A u \in Multi : joined'[u] <=> joined[u] \/ u = outside
  BY DEF ShapeOK
<1> SUFFICES ASSUME NEW S \in SUBSET Multi
             PROVE  /\ \E f : LeadsToEnds(f, S)' /\ Ends(f, S)'
                    /\ \A f, g : LeadsToEnds(f, S)' /\ LeadsToEnds(g, S)' => f = g
  BY DEF ChainsInv
<1>3. CASE inside \in S
  <2>1. \A f : LeadsToEnds(f, S)' <=> LeadsToEnds(f, S)
    <3> SUFFICES ASSUME NEW f PROVE LeadsToEnds(f, S)' <=> LeadsToEnds(f, S)
      OBVIOUS
    <3>1. \A u \in Multi :
            (IF outer'[u] = NoSocket \/ u \in S THEN u ELSE f[outer'[u]])
            = IF outer[u] = NoSocket \/ u \in S THEN u ELSE f[outer[u]]
      BY <1>2, <1>3
    <3> QED  BY <3>1 DEF LeadsToEnds
  <2>2. PICK f : LeadsToEnds(f, S) /\ Ends(f, S)
    BY DEF ChainsInv
  <2>3. Ends(f, S)'
    BY <1>2, <1>3, <2>2 DEF Ends
  <2>4. \A g, h : LeadsToEnds(g, S) /\ LeadsToEnds(h, S) => g = h
    BY DEF ChainsInv
  <2> QED  BY <2>1, <2>2, <2>3, <2>4
<1>4. CASE inside \notin S
  <2> DEFINE T == S \cup {inside}
  <2>1. PICK f : LeadsToEnds(f, T) /\ Ends(f, T)
    BY DEF ChainsInv
  <2> DEFINE g == [u \in Multi |-> IF f[u] = inside THEN outside ELSE f[u]]
  <2>2. /\ f \in [Multi -> Multi]
        /\ \A u \in Multi : f[u] = IF outer[u] = NoSocket \/ u \in T THEN u ELSE f[outer[u]]
    BY <2>1 DEF LeadsToEnds, Ends
  <2>3. \A u \in Multi : outer[u] # NoSocket => outer[u] \in Multi
    BY DEF ShapeOK
  <2>4. LeadsToEnds(g, S)'
    <3> SUFFICES ASSUME NEW u \in Multi
                 PROVE  g[u] = IF outer'[u] = NoSocket \/ u \in S THEN u ELSE g[outer'[u]]
      BY DEF LeadsToEnds
    <3>1. CASE u = inside
      <4>1. f[inside] = inside /\ f[outside] = outside
        BY <1>1, <2>2
      <4> QED  BY <1>1, <1>2, <1>4, <3>1, <4>1
    <3>2. CASE u # inside
      <4>1. CASE outer[u] = NoSocket \/ u \in S
        BY <1>2, <2>2, <3>2, <4>1
      <4>2. CASE ~(outer[u] = NoSocket \/ u \in S)
        <5>1. f[u] = f[outer[u]] /\ outer[u] \in Multi
          BY <2>2, <2>3, <3>2, <4>2
        <5> QED  BY <1>2, <3>2, <4>2, <5>1
      <4> QED  BY <4>1, <4>2
    <3> QED  BY <3>1, <3>2
  <2>5. Ends(g, S)'
    <3>1. g \in [Multi -> Multi]
      BY <2>2
    <3>2. \A u \in Multi : g[u] \in S \/ outer'[g[u]] = NoSocket
      BY <1>1, <1>2, <2>1, <2>2 DEF Ends
    <3>3. \A u \in Multi : g[u] \in MultiInits <=> u \in MultiInits
      BY <2>1 DEF Ends
    <3>4. \A u \in Multi : g[u] \notin exported' => g[u] = u
      BY <2>1 DEF Ends
    <3>5. \A u, v \in Multi : ~joined'[u] /\ ~joined'[v] /\ g[u] = g[v] => u = v
      <4> SUFFICES ASSUME NEW u \in Multi, NEW v \in Multi, ~joined'[u], ~joined'[v], g[u] = g[v]
                   PROVE  u = v
        OBVIOUS
      <4>1. f[u] # outside /\ f[v] # outside
        BY <1>2, <2>1 DEF Ends
      <4>2. f[u] = f[v]
        BY <4>1
      <4> QED  BY <1>2, <2>1, <4>2 DEF Ends
    <3> HIDE DEF g
    <3> QED  BY <3>1, <3>2, <3>3, <3>4, <3>5 DEF Ends
  <2>6. \A h, k : LeadsToEnds(h, S)' /\ LeadsToEnds(k, S)' => h = k
    <3> DEFINE Swap(e) == IF e = outside THEN inside ELSE IF e = inside THEN outside ELSE e
               Back(h) == [u \in Multi |-> IF u = outside THEN outside ELSE Swap(h[u])]
    <3>1. ASSUME NEW h, LeadsToEnds(h, S)'
          PROVE  LeadsToEnds(Back(h), T)
      <4>1. /\ h = [u \in Multi |-> h[u]]
            /\ \A u \in Multi : h[u] = IF outer'[u] = NoSocket \/ u \in S THEN u ELSE h[outer'[u]]
        BY <3>1 DEF LeadsToEnds
      <4>2. h[outside] = outside /\ h[inside] = outside
        BY <1>1, <1>2, <1>4, <4>1
      <4> SUFFICES ASSUME NEW u \in Multi
                   PROVE  Back(h)[u] = IF outer[u] = NoSocket \/ u \in T THEN u ELSE Back(h)[outer[u]]
        BY DEF LeadsToEnds
      <4>3. CASE u \in T \/ outer[u] = NoSocket
        <5>1. CASE u = inside
          BY <4>2, <5>1
        <5>2. CASE u # inside
          BY <1>2, <4>1, <4>3, <5>2
        <5> QED  BY <5>1, <5>2
      <4>4. CASE ~(u \in T \/ outer[u] = NoSocket)
        <5>1. h[u] = h[outer[u]] /\ outer[u] \in Multi /\ outer[u] # outside /\ u # outside
          BY <1>1, <1>2, <2>3, <4>1, <4>4
        <5> QED  BY <4>4, <5>1
      <4> QED  BY <4>3, <4>4
    <3> SUFFICES ASSUME NEW h, NEW k, LeadsToEnds(h, S)', LeadsToEnds(k, S)'
                 PROVE  h = k
      OBVIOUS
    <3>2. Back(h) = Back(k)
      <4>1. LeadsToEnds(Back(h), T) /\ LeadsToEnds(Back(k), T)
        BY <3>1
      <4> HIDE DEF Back, T
      <4>2. T \in SUBSET Multi
        BY DEF T
      <4> QED  BY <4>1, <4>2 DEF ChainsInv
    <3>3. h[outside] = outside /\ k[outside] = outside
      BY <1>1, <1>2, <1>4 DEF LeadsToEnds
    <3>4. \A u \in Multi : h[u] = k[u]
      <4> TAKE u \in Multi
      <4>1. Back(h)[u] = Back(k)[u]
        BY <3>2
      <4> QED  BY <3>3, <4>1
    <3> QED  BY <3>4 DEF LeadsToEnds
  <2> QED  BY <2>4, <2>5, <2>6
<1> QED  BY <1>3, <1>4
-----------------------------------------------------------------------------
(***************************************************************************)
(* The inductive invariant of MultiSockets, part by part.                  *)
(***************************************************************************)

\* The sockets a socket is bound to are of the other kind.
PeersOf(s) == IF s \in MultiInits THEN MultiTargets \cup Targets ELSE MultiInits \cup Inits

\* The modules whose callbacks are in binders: c is the inner end of its chain.
Serves(c) == c \in elaborated /\ ~joined[c]

\* A list of interfaces and a list of binders: each peer is listed once, and when
\* the lists are equally long the peers are in the same order.
Lists(l, b) ==
    /\ Len(l) <= Len(b)
    /\ Len(l) = Len(b) => \A n \in 1 .. Len(l) : l[n].socket = b[n].peer
    /\ \A n \in 1 .. Len(l) : \E m \in 1 .. Len(b) : l[n].socket = b[m].peer
    /\ \A n, m \in 1 .. Len(l) : l[n].socket = l[m].socket => n = m

\* The list of a multi initiator that bind() has filled.
OwnList(i) == Lists(sockets[i], binders[i])

\* A multi initiator has its own list until it takes that of the outermost one.
InitsInv ==
    /\ \A i \in MultiInits : ~Serves(i) \/ outer[i] = NoSocket => OwnList(i)
    /\ \A i \in MultiInits : Serves(i) => sockets[i] = sockets[Root(i)]

\* The n-th interface is the one of the n-th peer.
InOrder(l, b) == Len(l) = Len(b) /\ \A n \in 1 .. Len(l) : l[n].socket = b[n].peer

\* An interface of a multi initiator that t was given is a binder that serves t.
MadeFor(e, t, b) ==
    e.socket \in MultiInits => e.n \in 1 .. Len(b[e.socket]) /\ b[e.socket][e.n].peer = t

\* The port of a multi target is bound to its peers, in the order of its binders.
PortsInv ==
    \A t \in MultiTargets :
        /\ InOrder(port[t], binders[t])
        /\ \A n \in 1 .. Len(port[t]) : MadeFor(port[t][n], t, binders)

\* fillSocketList() runs once on each outermost target: the list is empty before.
TargetsInv ==
    /\ \A t \in MultiTargets : sockets[t] # <<>> =>
         /\ sockets[t] = port[Root(t)]
         /\ \E c \in MultiTargets : Serves(c) /\ Root(c) = Root(t)
    /\ \A c \in MultiTargets : Serves(c) =>
         sockets[c] = port[Root(c)] /\ sockets[Root(c)] = port[Root(c)]

\* A callback in a binder is one of the module at the inner end of the chain.
BindersInv ==
    /\ \A s \in Multi : binders[s] # <<>> => s \in present
    /\ \A s \in Multi : \A n \in 1 .. Len(binders[s]) : binders[s][n].peer \in PeersOf(s)
    /\ \A s \in Multi : \A n \in 1 .. Len(binders[s]), k \in Kinds :
         binders[s][n].cb[k] # NoCallback =>
             /\ Serves(binders[s][n].cb[k].socket)
             /\ Root(binders[s][n].cb[k].socket) = s
             /\ k \in KindsOf(s)

\* The callback of c for k that was registered before c gave its callbacks away.
EarlyOf(c, k) == IF registered[c][k] # NoCallback /\ registered[c][k].early
                 THEN registered[c][k] ELSE NoCallback

\* Every binder of the chain has the callbacks registered before they were given
\* away, and none of those registered later.
ServedInv ==
    \A c \in Multi : Serves(c) =>
        \A n \in 1 .. Len(binders[Root(c)]), k \in Kinds : binders[Root(c)][n].cb[k] = EarlyOf(c, k)

\* What each stage has: the callbacks of a socket that is not elaborated yet are
\* early ones, and the simulation runs when every socket of the platform is.
StageInv ==
    /\ \A s \in Multi, k \in Kinds : registered[s][k] # NoCallback =>
         registered[s][k].socket = s /\ k \in KindsOf(s)
    /\ \A s \in Multi \ elaborated, k \in Kinds : registered[s][k] # NoCallback =>
         registered[s][k].early
    /\ stage \in {"building", "elaborating"} => call = NoCall
    /\ stage = "building" => elaborated = {}
    /\ stage = "running" => elaborated = Multi \cap present
    /\ elaborated \subseteq present

\* The identifier of the call is the place of the binder that serves the caller,
\* which is an ordinary socket or a multi target that uses operator[].
CallInv ==
    call # NoCall =>
        /\ Serves(call.cb.socket)
        /\ call.id + 1 \in 1 .. Len(binders[Root(call.cb.socket)])
        /\ binders[Root(call.cb.socket)][call.id + 1].peer = Face(call.from)
        /\ call.kind \in KindsOf(call.cb.socket)
        /\ call.from \in Single \/ (call.from \in MultiTargets /\ call.cb.socket \in MultiInits)

\* The facts about lists of peers.
ListsInv == InitsInv /\ PortsInv /\ TargetsInv /\ BindersInv

\* The inductive invariant.
SocketsInv == /\ TypeOK
              /\ JoinsInv /\ ChainsInv
              /\ ListsInv
              /\ ServedInv /\ StageInv /\ CallInv

-----------------------------------------------------------------------------
\* The part of the type invariant that chains depend on.
LEMMA TypeOKHasShape == TypeOK => ShapeOK
BY SocketsAssumption DEF TypeOK, ShapeOK, Platform

\* Root depends on mHierarchicalBind alone.
LEMMA RootUnchanged ==
    ASSUME UNCHANGED outer
    PROVE  \A s : Root(s)' = Root(s)
BY DEF Root

\* Steps that join nothing.
LEMMA ChainsUnchanged ==
    ASSUME UNCHANGED <<present, outer, joined, exported>>
    PROVE  /\ JoinsInv => JoinsInv'
           /\ ChainsInv => ChainsInv'
<1>1. \A f, S : LeadsToEnds(f, S)' <=> LeadsToEnds(f, S)
  BY DEF LeadsToEnds
<1>2. \A f, S : Ends(f, S)' <=> Ends(f, S)
  BY DEF Ends
<1>3. ChainsInv => ChainsInv'
  BY <1>1, <1>2 DEF ChainsInv
<1>4. JoinsInv => JoinsInv'
  BY DEF JoinsInv
<1> QED  BY <1>3, <1>4

\* before_end_of_elaboration() exports the socket.
LEMMA ChainsAfterExport ==
    ASSUME UNCHANGED <<present, outer, joined>>, exported \subseteq exported'
    PROVE  /\ JoinsInv => JoinsInv'
           /\ ChainsInv => ChainsInv'
<1>1. \A f, S : LeadsToEnds(f, S)' <=> LeadsToEnds(f, S)
  BY DEF LeadsToEnds
<1>2. \A f, S : Ends(f, S) => Ends(f, S)'
  BY DEF Ends
<1>3. ChainsInv => ChainsInv'
  BY <1>1, <1>2 DEF ChainsInv
<1>4. JoinsInv => JoinsInv'
  BY DEF JoinsInv
<1> QED  BY <1>3, <1>4

\* Steps that neither bind, join nor elaborate keep the facts about lists.
LEMMA ListsUnchanged ==
    ASSUME UNCHANGED <<structVars, elaborated>>, ListsInv
    PROVE  ListsInv'
<1>1. \A s : Root(s)' = Root(s) /\ Serves(s)' = Serves(s) /\ OwnList(s)' = OwnList(s)
              /\ KindsOf(s)' = KindsOf(s)
  BY RootUnchanged DEF structVars, platformVars, Serves, OwnList, Lists, KindsOf
<1>2. InitsInv'
  BY <1>1 DEF ListsInv, InitsInv, structVars
<1>3. PortsInv'
  BY DEF ListsInv, PortsInv, InOrder, MadeFor, structVars
<1>4. TargetsInv'
  BY <1>1 DEF ListsInv, TargetsInv, structVars
<1>5. BindersInv'
  BY <1>1 DEF ListsInv, BindersInv, structVars, platformVars
<1> QED  BY <1>2, <1>3, <1>4, <1>5 DEF ListsInv

\* A stuttering step keeps the invariant.
LEMMA NothingChanges ==
    ASSUME SocketsInv, UNCHANGED vars
    PROVE  SocketsInv'
<1>1. \A s : Root(s)' = Root(s) /\ Serves(s)' = Serves(s) /\ KindsOf(s)' = KindsOf(s)
             /\ Face(s)' = Face(s)
  BY RootUnchanged DEF vars, structVars, platformVars, Serves, KindsOf, Face
<1>2. JoinsInv' /\ ChainsInv' /\ ListsInv'
  BY ChainsUnchanged, ListsUnchanged DEF vars, structVars, platformVars, SocketsInv
<1>3. TypeOK'
  BY DEF TypeOK, vars, structVars, platformVars, SocketsInv
<1>4. ServedInv'
  BY <1>1 DEF ServedInv, EarlyOf, vars, structVars, SocketsInv
<1>5. StageInv'
  BY <1>1 DEF StageInv, vars, structVars, platformVars, SocketsInv
<1>6. CallInv'
  BY <1>1 DEF CallInv, vars, structVars, SocketsInv
<1> QED  BY <1>2, <1>3, <1>4, <1>5, <1>6 DEF SocketsInv

\* EndBuilding, EndElaboration and every exit() change the stage alone.
LEMMA StageChanges ==
    ASSUME SocketsInv,
           \/ stage = "building" /\ stage' = "elaborating"
           \/ Elaborated /\ stage' = "running"
           \/ stage' = "aborted",
           UNCHANGED <<structVars, registered, elaborated, handed, call>>
    PROVE  SocketsInv'
<1>1. \A s : Root(s)' = Root(s) /\ Serves(s)' = Serves(s) /\ KindsOf(s)' = KindsOf(s)
             /\ Face(s)' = Face(s)
  BY RootUnchanged DEF structVars, platformVars, Serves, KindsOf, Face
<1>2. JoinsInv' /\ ChainsInv' /\ ListsInv'
  BY ChainsUnchanged, ListsUnchanged DEF structVars, platformVars, SocketsInv
<1>3. TypeOK'
  BY DEF TypeOK, structVars, platformVars, SocketsInv
<1>4. ServedInv'
  BY <1>1 DEF ServedInv, EarlyOf, structVars, SocketsInv
<1>5. StageInv'
  BY <1>1 DEF StageInv, structVars, platformVars, SocketsInv, Elaborated
<1>6. CallInv'
  BY <1>1 DEF CallInv, structVars, SocketsInv
<1> QED  BY <1>2, <1>3, <1>4, <1>5, <1>6 DEF SocketsInv

\* register...(): a callback registered once its socket is elaborated is in no
\* binder.
LEMMA RegisterKeepsInv ==
    ASSUME SocketsInv, NEW s \in Multi, NEW k \in Kinds, Register(s, k)
    PROVE  SocketsInv'
<1> USE DEF Register
<1>1. \A u : Root(u)' = Root(u) /\ Serves(u)' = Serves(u) /\ KindsOf(u)' = KindsOf(u)
             /\ Face(u)' = Face(u)
  BY RootUnchanged DEF structVars, platformVars, Serves, KindsOf, Face
<1>2. JoinsInv' /\ ChainsInv' /\ ListsInv'
  BY ChainsUnchanged, ListsUnchanged DEF structVars, platformVars, SocketsInv
<1> DEFINE new == [socket |-> s, early |-> s \notin elaborated]
<1>3. registered \in [Multi -> CallbackTable] /\ registered' = [registered EXCEPT ![s][k] = new]
  BY DEF SocketsInv, TypeOK
<1>4. new \in Callback
  BY DEF Callback
<1> HIDE DEF new
<1>5. /\ registered' \in [Multi -> CallbackTable]
      /\ \A u \in Multi, l \in Kinds :
           registered'[u][l] = IF u = s /\ l = k THEN new ELSE registered[u][l]
  BY <1>3, <1>4 DEF CallbackTable
<1>6. TypeOK'
  BY <1>5 DEF TypeOK, structVars, platformVars, SocketsInv
<1>7. ServedInv'
  <2>1. \A c \in Multi : Serves(c) => c \in elaborated
    BY DEF Serves
  <2>2. ASSUME NEW c \in Multi, NEW l \in Kinds, Serves(c)
        PROVE  EarlyOf(c, l)' = EarlyOf(c, l)
    <3>1. CASE c = s /\ l = k
      <4>1. registered'[s][k] = new /\ ~new.early
        BY <1>5, <2>1, <2>2, <3>1 DEF new
      <4> QED  BY <3>1, <4>1 DEF EarlyOf
    <3>2. CASE ~(c = s /\ l = k)
      BY <1>5, <3>2 DEF EarlyOf
    <3> QED  BY <3>1, <3>2
  <2>3. \A c \in Multi : Root(c)' = Root(c) /\ Serves(c)' = Serves(c)
    BY <1>1
  <2> QED  BY <2>2, <2>3 DEF ServedInv, structVars, SocketsInv
<1>8. StageInv'
  <2>1. new.socket = s /\ (s \notin elaborated => new.early)
    BY DEF new
  <2> QED  BY <1>1, <1>5, <2>1 DEF StageInv, structVars, platformVars, SocketsInv
<1>9. CallInv'
  BY <1>1 DEF CallInv, structVars, SocketsInv
<1> QED  BY <1>2, <1>6, <1>7, <1>8, <1>9 DEF SocketsInv

\* A call through the n-th binder of s, when that binder serves the caller.
LEMMA DeliverKeepsInv ==
    ASSUME SocketsInv, stage = "running",
           NEW s \in Multi, NEW n \in 1 .. Len(binders[s]), NEW k \in Kinds, NEW from \in Sockets,
           k \in KindsOf(s), binders[s][n].peer = Face(from),
           from \in Single \/ (from \in MultiTargets /\ s \in MultiInits),
           Deliver(s, n, k, from)
    PROVE  SocketsInv'
<1> DEFINE cb == binders[s][n].cb[k]
<1>1. CASE cb = NoCallback
  <2>1. stage' = "aborted" /\ UNCHANGED <<structVars, registered, elaborated, handed, call>>
    BY <1>1 DEF Deliver, Abort
  <2> QED  BY <2>1, StageChanges
<1>2. CASE cb # NoCallback
  <2>1. /\ call' = [kind |-> k, from |-> from, id |-> n - 1, cb |-> cb]
        /\ UNCHANGED <<stage, structVars, registered, elaborated, handed>>
    BY <1>2 DEF Deliver
  <2>2. \A u : Root(u)' = Root(u) /\ Serves(u)' = Serves(u) /\ KindsOf(u)' = KindsOf(u)
               /\ Face(u)' = Face(u)
    BY <2>1, RootUnchanged DEF structVars, platformVars, Serves, KindsOf, Face
  <2>3. JoinsInv' /\ ChainsInv' /\ ListsInv'
    BY <2>1, ChainsUnchanged, ListsUnchanged DEF structVars, platformVars, SocketsInv
  <2>4. /\ cb \in Callback /\ Len(binders[s]) \in Nat
        /\ cb.socket \in Multi
    <3>1. binders[s] \in Seq(Binder)
      BY DEF SocketsInv, TypeOK
    <3>2. binders[s][n] \in Binder
      BY <3>1, ElementOfSeq
    <3>3. cb \in Callback
      BY <1>2, <3>2 DEF Binder, CallbackTable
    <3> QED  BY <3>1, <3>3 DEF Callback
  <2>5. /\ Serves(cb.socket) /\ Root(cb.socket) = s
    BY <1>2 DEF SocketsInv, ListsInv, BindersInv
  <2>6. cb.socket \in MultiInits <=> s \in MultiInits
    BY <2>4, <2>5, RootFacts DEF SocketsInv
  <2> HIDE DEF cb
  <2>7. TypeOK'
    <3>1. call' \in [kind : Kinds, from : Sockets, id : Nat, cb : Callback]
      BY <2>1, <2>4
    <3> QED  BY <2>1, <3>1 DEF TypeOK, structVars, platformVars, SocketsInv
  <2>8. ServedInv'
    BY <2>1, <2>2 DEF ServedInv, EarlyOf, structVars, SocketsInv
  <2>9. StageInv'
    BY <2>1, <2>2 DEF StageInv, structVars, platformVars, SocketsInv
  <2>10. CallInv'
    <3>1. KindsOf(cb.socket) = KindsOf(s)
      BY <2>6 DEF KindsOf
    <3>2. /\ call'.cb = cb /\ call'.id + 1 = n /\ call'.kind = k /\ call'.from = from
          /\ binders' = binders
      BY <2>1 DEF structVars
    <3>3. PICK c : c = cb.socket
      OBVIOUS
    <3>4. /\ Serves(c)' /\ Root(c)' = s /\ KindsOf(c)' = KindsOf(s)
          /\ Face(from)' = Face(from)
      BY <2>2, <2>5, <3>1, <3>3
    <3>5. call'.cb.socket = c
      BY <3>2, <3>3
    <3>6. /\ Serves(call.cb.socket)' /\ Root(call.cb.socket)' = s
          /\ KindsOf(call.cb.socket)' = KindsOf(s) /\ Face(call.from)' = Face(from)
      BY <3>2, <3>4, <3>5
    <3> QED  BY <2>6, <3>2, <3>3, <3>5, <3>6 DEF CallInv
  <2> QED  BY <2>3, <2>7, <2>8, <2>9, <2>10 DEF SocketsInv
<1> QED  BY <1>1, <1>2

\* A call is an exit() of the caller's module, or goes through a binder that serves
\* the caller, which is an ordinary socket or a multi target that answers.
Delivers(s, n, k, from) ==
    /\ n \in 1 .. Len(binders[s])
    /\ k \in KindsOf(s)
    /\ binders[s][n].peer = Face(from)
    /\ from \in Single \/ (from \in MultiTargets /\ s \in MultiInits)
    /\ Deliver(s, n, k, from)

\* Every call of the simulation is one of these.
LEMMA RunDelivers ==
    ASSUME SocketsInv, NEW callers, Run(callers)
    PROVE  /\ stage = "running"
           /\ \/ Abort
              \/ \E s \in Multi, n \in Nat, k \in Kinds, from \in Sockets : Delivers(s, n, k, from)
<1> DEFINE Goal == \E s \in Multi, n \in Nat, k \in Kinds, from \in Sockets : Delivers(s, n, k, from)
<1>1. ASSUME NEW s \in Multi, NEW k \in Kinds, NEW n \in 1 .. Len(binders[s]),
             CallThroughPort(s, n, k)
      PROVE  stage = "running" /\ Goal
  <2>1. stage = "running" /\ k \in KindsOf(s) /\ binders[s][n].peer \in Single
        /\ Deliver(s, n, k, binders[s][n].peer)
    BY <1>1 DEF CallThroughPort
  <2>2. binders[s][n].peer \in Sockets /\ Face(binders[s][n].peer) = binders[s][n].peer
    BY <2>1, SocketsAssumption DEF Face, Sockets
  <2>3. n \in Nat /\ Delivers(s, n, k, binders[s][n].peer)
    BY <2>1, <2>2 DEF Delivers
  <2> QED  BY <2>1, <2>2, <2>3
<1>2. ASSUME NEW s \in MultiTargets, NEW k \in Kinds, NEW n \in 1 .. Len(sockets[s]),
             CallFromTarget(s, n, k)
      PROVE  stage = "running" /\ Goal
  <2> DEFINE i == sockets[s][n].socket
             m == sockets[s][n].n
  <2>1. /\ stage = "running" /\ i \in MultiInits /\ k \in KindsOf(i)
        /\ Deliver(i, m, k, s)
    BY <1>2 DEF CallFromTarget
  <2>2. s \in Multi /\ s \in Sockets /\ i \in Multi /\ Face(s) = Root(s)
    BY <2>1 DEF Multi, Sockets, Face
  <2>3. sockets[s] # <<>>
    BY DEF SocketsInv, TypeOK
  <2>4. sockets[s] = port[Root(s)] /\ Root(s) \in MultiTargets
    <3>1. Root(s) \in Multi /\ Root(s) \notin MultiInits
      BY <2>2, RootFacts, SocketsAssumption DEF SocketsInv
    <3> QED  BY <2>3, <3>1 DEF SocketsInv, ListsInv, TargetsInv, Multi
  <2>5. m \in 1 .. Len(binders[i]) /\ binders[i][m].peer = Root(s)
    BY <2>1, <2>4 DEF SocketsInv, ListsInv, PortsInv, InOrder, MadeFor
  <2> HIDE DEF i, m
  <2>6. m \in Nat /\ Delivers(i, m, k, s)
    BY <2>1, <2>2, <2>5 DEF Delivers
  <2> QED  BY <2>1, <2>2, <2>6
<1>3. ASSUME NEW s, NEW n, CallFromInitiator(s, n)
      PROVE  stage = "running" /\ Abort
  BY <1>3 DEF CallFromInitiator
<1> HIDE DEF Goal
<1>4. stage = "running" /\ (Abort \/ Goal)
  BY <1>1, <1>2, <1>3 DEF Run
<1> QED  BY <1>4 DEF Goal

\* The call that has reached a callback, or the exit() of a binder without one.
LEMMA DeliverCalls ==
    ASSUME SocketsInv, NEW s \in Multi, NEW n \in Nat, NEW k \in Kinds, NEW from \in Sockets,
           Delivers(s, n, k, from)
    PROVE  \/ Abort
           \/ /\ call' \in [kind : Kinds, from : Sockets, id : Nat, cb : Callback]
              /\ UNCHANGED <<stage, structVars, registered, elaborated, handed>>
<1> DEFINE cb == binders[s][n].cb[k]
<1>1. ~Abort => /\ cb # NoCallback
                /\ call' = [kind |-> k, from |-> from, id |-> n - 1, cb |-> cb]
                /\ UNCHANGED <<stage, structVars, registered, elaborated, handed>>
  BY DEF Delivers, Deliver
<1>2. cb # NoCallback => cb \in Callback
  <2>1. binders[s] \in Seq(Binder)
    BY DEF SocketsInv, TypeOK
  <2>2. binders[s][n] \in Binder
    BY <2>1, ElementOfSeq DEF Delivers
  <2> QED  BY <2>2 DEF Binder, CallbackTable
<1>3. n - 1 \in Nat
  <2>1. n \in 1 .. Len(binders[s]) /\ Len(binders[s]) \in Nat
    BY DEF Delivers, SocketsInv, TypeOK
  <2> QED  BY <2>1
<1> HIDE DEF cb
<1> QED  BY <1>1, <1>2, <1>3

\* Calls keep the invariant.
LEMMA RunKeepsInv ==
    ASSUME SocketsInv, NEW callers, Run(callers)
    PROVE  SocketsInv'
<1>1. stage = "running"
  BY RunDelivers
<1>2. CASE Abort
  BY <1>2, StageChanges DEF Abort
<1>3. ASSUME NEW s \in Multi, NEW n \in Nat, NEW k \in Kinds, NEW from \in Sockets,
             Delivers(s, n, k, from)
      PROVE  SocketsInv'
  BY <1>1, <1>3, DeliverKeepsInv DEF Delivers
<1> QED  BY <1>2, <1>3, RunDelivers
-----------------------------------------------------------------------------
\* While the platform is built, no module serves a binder.
LEMMA WhileBuilding ==
    ASSUME SocketsInv, stage = "building"
    PROVE  /\ \A s : ~Serves(s)
           /\ \A i \in MultiInits : OwnList(i)
           /\ \A t \in MultiTargets : sockets[t] = <<>>
           /\ \A s \in Multi : \A n \in 1 .. Len(binders[s]), k \in Kinds :
                binders[s][n].cb[k] = NoCallback
           /\ call = NoCall
<1>1. \A s : ~Serves(s)
  BY DEF SocketsInv, StageInv, Serves
<1> QED  BY <1>1 DEF SocketsInv, ListsInv, InitsInv, TargetsInv, BindersInv, StageInv

\* A hierarchical binding that succeeds, of either kind.
LEMMA JoinKeepsInv ==
    ASSUME SocketsInv, stage = "building",
           NEW inside \in Multi, NEW outside \in Multi, inside # outside,
           {inside, outside} \subseteq present,
           inside \in MultiInits <=> outside \in MultiInits,
           outside \notin exported,
           inside \in exported => inside \in MultiInits,
           outer' = [outer EXCEPT ![inside] = outside],
           joined' = [joined EXCEPT ![outside] = TRUE],
           exported' = exported \cup {inside, outside},
           UNCHANGED <<platformVars, stage, binders, sockets, port, registered, elaborated, handed, call>>
    PROVE  SocketsInv'
<1>1. ShapeOK
  BY TypeOKHasShape DEF SocketsInv
<1>2. ChainsInv'
  BY <1>1, JoinMovesEnds DEF SocketsInv
<1>3. /\ \A u \in Multi : outer'[u] = IF u = inside THEN outside ELSE outer[u]
      /\ \A u \in Multi : joined'[u] <=> joined[u] \/ u = outside
      /\ NoSocket \notin Multi
  BY <1>1, SocketsAssumption DEF ShapeOK, Sockets
<1>4. JoinsInv'
  <2>1. \A s \in Multi : outer'[s] # NoSocket =>
          /\ {s, outer'[s]} \subseteq exported' \cap present'
          /\ joined'[outer'[s]]
          /\ outer'[s] \in MultiInits <=> s \in MultiInits
    <3> TAKE s \in Multi
    <3> HAVE outer'[s] # NoSocket
    <3>1. CASE s = inside
      BY <1>3, <3>1 DEF platformVars
    <3>2. CASE s # inside
      <4>1. outer[s] # NoSocket /\ outer'[s] = outer[s] /\ outer[s] \in Multi
        BY <1>1, <1>3, <3>2 DEF ShapeOK
      <4> QED  BY <1>3, <4>1 DEF SocketsInv, JoinsInv, platformVars
    <3> QED  BY <3>1, <3>2
  <2>2. \A s \in Multi : joined'[s] => s \in exported' \cap present'
    BY <1>3 DEF SocketsInv, JoinsInv, platformVars
  <2>3. \A t \in MultiTargets : joined'[t] => \E s \in MultiTargets : ~joined'[s] /\ outer'[s] = t
    <3> TAKE t \in MultiTargets
    <3> HAVE joined'[t]
    <3>1. CASE t = outside
      <4>1. inside \in MultiTargets /\ ~joined[inside]
        BY <3>1, SocketsAssumption DEF SocketsInv, JoinsInv, Multi
      <4> QED  BY <1>3, <3>1, <4>1
    <3>2. CASE t # outside
      <4>1. PICK s \in MultiTargets : ~joined[s] /\ outer[s] = t
        BY <1>3, <3>2 DEF SocketsInv, JoinsInv, Multi
      <4>2. s \in Multi /\ s \in exported
        BY <1>3, <4>1 DEF SocketsInv, JoinsInv, Multi
      <4>3. s # inside /\ s # outside
        BY <4>2, SocketsAssumption
      <4> QED  BY <1>3, <4>1, <4>2, <4>3
    <3> QED  BY <3>1, <3>2
  <2> QED  BY <2>1, <2>2, <2>3 DEF JoinsInv
<1>5. TypeOK'
  <2>1. outer' \in [Multi -> Multi \cup {NoSocket}] /\ joined' \in [Multi -> BOOLEAN]
        /\ exported' \subseteq Multi
    BY <1>1 DEF ShapeOK
  <2> QED  BY <2>1 DEF TypeOK, SocketsInv, platformVars
<1>6. /\ \A s : ~Serves(s)'
      /\ \A s : KindsOf(s)' = KindsOf(s) /\ OwnList(s)' = OwnList(s)
  BY WhileBuilding DEF Serves, SocketsInv, StageInv, KindsOf, OwnList, Lists, platformVars
<1>7. ListsInv'
  <2>1. InitsInv'
    BY <1>6, WhileBuilding DEF InitsInv
  <2>2. PortsInv'
    BY DEF SocketsInv, ListsInv, PortsInv, InOrder, MadeFor
  <2>3. TargetsInv'
    BY <1>6, WhileBuilding DEF TargetsInv
  <2>4. BindersInv'
    BY WhileBuilding DEF SocketsInv, ListsInv, BindersInv, PeersOf, platformVars
  <2> QED  BY <2>1, <2>2, <2>3, <2>4 DEF ListsInv
<1>8. ServedInv'
  BY <1>6 DEF ServedInv
<1>9. StageInv'
  BY <1>6 DEF SocketsInv, StageInv, platformVars
<1>10. CallInv'
  BY WhileBuilding DEF CallInv
<1> QED  BY <1>2, <1>4, <1>5, <1>7, <1>8, <1>9, <1>10 DEF SocketsInv

\* The two hierarchical bindings keep the invariant.
LEMMA JoinsKeepInv ==
    /\ \A s, u \in MultiInits : SocketsInv /\ JoinInitiators(s, u) => SocketsInv'
    /\ \A s, u \in MultiTargets : SocketsInv /\ JoinTargets(s, u) => SocketsInv'
<1>1. ASSUME NEW s \in MultiInits, NEW u \in MultiInits, SocketsInv, JoinInitiators(s, u)
      PROVE  SocketsInv'
  <2>1. CASE (s \in exported /\ ~joined[s]) \/ u \in exported
    BY <1>1, <2>1, StageChanges DEF JoinInitiators, Abort
  <2>2. CASE ~((s \in exported /\ ~joined[s]) \/ u \in exported)
    <3>1. s \in Multi /\ u \in Multi
      BY DEF Multi
    <3> QED  BY <1>1, <2>2, <3>1, JoinKeepsInv DEF JoinInitiators
  <2> QED  BY <2>1, <2>2
<1>2. ASSUME NEW s \in MultiTargets, NEW u \in MultiTargets, SocketsInv, JoinTargets(s, u)
      PROVE  SocketsInv'
  <2>1. CASE u \in exported \/ s \in exported
    BY <1>2, <2>1, StageChanges DEF JoinTargets, Abort
  <2>2. CASE ~(u \in exported \/ s \in exported)
    <3>1. s \in Multi /\ u \in Multi /\ s \notin MultiInits /\ u \notin MultiInits
      BY SocketsAssumption DEF Multi
    <3>2. /\ stage = "building" /\ {u, s} \subseteq present /\ u # s
          /\ outer' = [outer EXCEPT ![u] = s]
          /\ joined' = [joined EXCEPT ![s] = TRUE]
          /\ exported' = exported \cup {u, s}
          /\ UNCHANGED <<platformVars, stage, binders, sockets, port, registered, elaborated, handed, call>>
      BY <1>2, <2>2 DEF JoinTargets
    <3> QED  BY <1>2, <2>2, <3>1, <3>2, JoinKeepsInv
  <2> QED  BY <2>1, <2>2
<1> QED  BY <1>1, <1>2
-----------------------------------------------------------------------------
\* The sockets of either side, and the peers they may have.
LEMMA MultiOrSingle ==
    /\ \A i \in MultiInits \cup Inits : i \in Multi <=> i \in MultiInits
    /\ \A t \in MultiTargets \cup Targets : t \in Multi <=> t \in MultiTargets
    /\ \A i \in MultiInits \cup Inits, t \in MultiTargets \cup Targets :
         i # t /\ i \in Sockets /\ t \in Sockets
    /\ \A s \in Multi : s \in MultiTargets <=> s \notin MultiInits
BY SocketsAssumption DEF Multi, Single, Sockets

\* q is p with e at the end.
Extends(p, q, e) ==
    /\ Len(p) \in Nat /\ Len(q) = Len(p) + 1
    /\ q[Len(p) + 1] = e
    /\ \A n \in 1 .. Len(p) : q[n] = p[n]

\* A list after Append.
LEMMA AppendExtends ==
    ASSUME NEW S, NEW p \in Seq(S), NEW e \in S
    PROVE  Append(p, e) \in Seq(S) /\ Extends(p, Append(p, e), e)
<1>1. Len(p) \in Nat
  OBVIOUS
<1> QED  BY <1>1, AppendProperties DEF Extends

\* What a list that has grown at its end holds.
LEMMA ExtendedAt ==
    ASSUME NEW p, NEW q, NEW e, Extends(p, q, e)
    PROVE  /\ \A n \in 1 .. Len(q) : \/ n \in 1 .. Len(p) /\ q[n] = p[n]
                                     \/ n = Len(p) + 1 /\ q[n] = e
           /\ \A n \in 1 .. Len(p) : n \in 1 .. Len(q) /\ q[n] = p[n]
           /\ Len(p) + 1 \in 1 .. Len(q)
<1> DEFINE P == Len(p)
           Q == Len(q)
<1>1. P \in Nat /\ Q = P + 1 /\ q[P + 1] = e /\ \A n \in 1 .. P : q[n] = p[n]
  BY DEF Extends
<1> HIDE DEF P, Q
<1>2. \A n \in 1 .. Q : n \in 1 .. P \/ n = P + 1
  BY <1>1
<1>3. P + 1 \in 1 .. Q /\ \A n \in 1 .. P : n \in 1 .. Q
  BY <1>1
<1>4. /\ \A n \in 1 .. Q : \/ n \in 1 .. P /\ q[n] = p[n]
                           \/ n = P + 1 /\ q[n] = e
      /\ \A n \in 1 .. P : n \in 1 .. Q /\ q[n] = p[n]
      /\ P + 1 \in 1 .. Q
  BY <1>1, <1>2, <1>3
<1> QED  BY <1>4 DEF P, Q

\* A target made the binding: the list of the initiator stays behind for good.
LEMMA ListsFallBehind ==
    ASSUME NEW l, NEW b, NEW c, NEW e, Len(l) \in Nat, Lists(l, b), Extends(b, c, e)
    PROVE  Lists(l, c)
<1>1. Len(b) \in Nat /\ Len(c) = Len(b) + 1
  BY DEF Extends
<1>2. Len(l) <= Len(c) /\ Len(l) # Len(c)
  BY <1>1 DEF Lists
<1>3. \A n \in 1 .. Len(l) : \E m \in 1 .. Len(c) : l[n].socket = c[m].peer
  <2> TAKE n \in 1 .. Len(l)
  <2>1. PICK m \in 1 .. Len(b) : l[n].socket = b[m].peer
    BY DEF Lists
  <2>2. m \in 1 .. Len(c) /\ c[m] = b[m]
    BY ExtendedAt
  <2> QED  BY <2>1, <2>2
<1> QED  BY <1>2, <1>3 DEF Lists

\* The initiator made the binding, to a peer it had no binder for.
LEMMA ListsGrow ==
    ASSUME NEW l, NEW k, NEW x, NEW b, NEW c, NEW e,
           Lists(l, b), Extends(l, k, x), Extends(b, c, e), x.socket = e.peer,
           \A m \in 1 .. Len(b) : b[m].peer # e.peer
    PROVE  Lists(k, c)
<1>1. /\ Len(l) \in Nat /\ Len(k) = Len(l) + 1
      /\ Len(b) \in Nat /\ Len(c) = Len(b) + 1 /\ c[Len(b) + 1] = e
  BY DEF Extends
<1>2. Len(k) <= Len(c) /\ (Len(k) = Len(c) => Len(l) = Len(b))
  BY <1>1 DEF Lists
<1>3. /\ \A n \in 1 .. Len(k) : \/ n \in 1 .. Len(l) /\ k[n] = l[n]
                                \/ n = Len(l) + 1 /\ k[n] = x
      /\ \A m \in 1 .. Len(b) : m \in 1 .. Len(c) /\ c[m] = b[m]
      /\ Len(b) + 1 \in 1 .. Len(c)
  BY ExtendedAt
<1>4. Len(k) = Len(c) => \A n \in 1 .. Len(k) : k[n].socket = c[n].peer
  <2> HAVE Len(k) = Len(c)
  <2> TAKE n \in 1 .. Len(k)
  <2>1. CASE n \in 1 .. Len(l) /\ k[n] = l[n]
    <3>1. l[n].socket = b[n].peer /\ n \in 1 .. Len(b)
      BY <1>2, <2>1 DEF Lists
    <3> QED  BY <1>3, <2>1, <3>1
  <2>2. CASE n = Len(l) + 1 /\ k[n] = x
    BY <1>1, <1>2, <2>2
  <2> QED  BY <1>3, <2>1, <2>2
<1>5. \A n \in 1 .. Len(k) : \E m \in 1 .. Len(c) : k[n].socket = c[m].peer
  <2> TAKE n \in 1 .. Len(k)
  <2>1. CASE n \in 1 .. Len(l) /\ k[n] = l[n]
    <3>1. PICK m \in 1 .. Len(b) : l[n].socket = b[m].peer
      BY <2>1 DEF Lists
    <3> QED  BY <1>3, <2>1, <3>1
  <2>2. CASE n = Len(l) + 1 /\ k[n] = x
    BY <1>1, <1>3, <2>2
  <2> QED  BY <1>3, <2>1, <2>2
<1>6. \A n, m \in 1 .. Len(k) : k[n].socket = k[m].socket => n = m
  <2>1. \A n \in 1 .. Len(l) : l[n].socket # x.socket
    BY DEF Lists
  <2>2. \A n, m \in 1 .. Len(l) : l[n].socket = l[m].socket => n = m
    BY DEF Lists
  <2> QED  BY <1>3, <2>1, <2>2
<1> QED  BY <1>2, <1>4, <1>5, <1>6 DEF Lists

\* A port and its binders grow together.
LEMMA InOrderGrows ==
    ASSUME NEW l, NEW k, NEW x, NEW b, NEW c, NEW e,
           InOrder(l, b), Extends(l, k, x), Extends(b, c, e), x.socket = e.peer
    PROVE  InOrder(k, c)
<1>1. /\ Len(l) \in Nat /\ Len(k) = Len(l) + 1
      /\ Len(b) \in Nat /\ Len(c) = Len(b) + 1 /\ c[Len(b) + 1] = e /\ Len(l) = Len(b)
  BY DEF Extends, InOrder
<1>2. /\ \A n \in 1 .. Len(k) : \/ n \in 1 .. Len(l) /\ k[n] = l[n]
                                \/ n = Len(l) + 1 /\ k[n] = x
      /\ \A m \in 1 .. Len(b) : m \in 1 .. Len(c) /\ c[m] = b[m]
  BY ExtendedAt
<1>3. ASSUME NEW n \in 1 .. Len(k)
      PROVE  k[n].socket = c[n].peer
  <2>1. CASE n \in 1 .. Len(l) /\ k[n] = l[n]
    BY <1>1, <1>2, <2>1 DEF InOrder
  <2>2. CASE n = Len(l) + 1 /\ k[n] = x
    BY <1>1, <2>2
  <2> QED  BY <1>2, <2>1, <2>2
<1> QED  BY <1>1, <1>3 DEF InOrder

\* Connect appends a binder to each multi socket of the two.
ServesPeer(p) == [peer |-> p, cb |-> NoCallbacks]

\* Connect(i, t) adds a binder to each multi socket of the pair, and an interface to
\* the port of a multi target.
LEMMA ConnectAppends ==
    ASSUME TypeOK, NEW i \in MultiInits \cup Inits, NEW t \in MultiTargets \cup Targets, Connect(i, t)
    PROVE  /\ binders' \in [Multi -> Seq(Binder)]
           /\ port' \in [MultiTargets -> Seq(Interface)]
           /\ \A s \in Multi : s \notin {i, t} => binders'[s] = binders[s]
           /\ i \in Multi => Extends(binders[i], binders'[i], ServesPeer(t))
           /\ t \in Multi => Extends(binders[t], binders'[t], ServesPeer(i))
           /\ \A s \in MultiTargets : s # t => port'[s] = port[s]
           /\ t \in MultiTargets => Extends(port[t], port'[t], InterfaceOf(i))
<1>1. /\ binders \in [Multi -> Seq(Binder)] /\ port \in [MultiTargets -> Seq(Interface)]
      /\ i # t /\ i \in Sockets /\ t \in Sockets
  BY MultiOrSingle DEF TypeOK
<1>2. ServesPeer(i) \in Binder /\ ServesPeer(t) \in Binder
  BY <1>1 DEF ServesPeer, Binder, NoCallbacks, CallbackTable
<1>3. /\ i \in Multi => binders'[i] = Append(binders[i], ServesPeer(t))
      /\ t \in Multi => binders'[t] = Append(binders[t], ServesPeer(i))
      /\ \A s \in Multi : s \notin {i, t} => binders'[s] = binders[s]
      /\ binders' = [s \in Multi |-> binders'[s]]
  BY <1>1 DEF Connect, WithBinder, ServesPeer
<1>4. i \in Multi => binders'[i] \in Seq(Binder) /\ Extends(binders[i], binders'[i], ServesPeer(t))
  <2> HAVE i \in Multi
  <2>1. binders[i] \in Seq(Binder)
    BY <1>1
  <2> QED  BY <1>2, <1>3, <2>1, AppendExtends
<1>5. t \in Multi => binders'[t] \in Seq(Binder) /\ Extends(binders[t], binders'[t], ServesPeer(i))
  <2> HAVE t \in Multi
  <2>1. binders[t] \in Seq(Binder)
    BY <1>1
  <2> QED  BY <1>2, <1>3, <2>1, AppendExtends
<1>6. binders' \in [Multi -> Seq(Binder)]
  <2>1. \A s \in Multi : binders'[s] \in Seq(Binder)
    BY <1>1, <1>3, <1>4, <1>5
  <2> QED  BY <1>3, <2>1
<1>7. InterfaceOf(i) \in Interface
  BY <1>1 DEF InterfaceOf, Interface
<1>8. /\ port' \in [MultiTargets -> Seq(Interface)]
      /\ \A s \in MultiTargets : s # t => port'[s] = port[s]
      /\ t \in MultiTargets => port'[t] = Append(port[t], InterfaceOf(i))
  <2>1. \A s \in MultiTargets : Append(port[s], InterfaceOf(i)) \in Seq(Interface)
    BY <1>1, <1>7
  <2> QED  BY <1>1, <2>1 DEF Connect
<1>9. t \in MultiTargets => Extends(port[t], port'[t], InterfaceOf(i))
  <2> HAVE t \in MultiTargets
  <2>1. port[t] \in Seq(Interface)
    BY <1>1
  <2> QED  BY <1>7, <1>8, <2>1, AppendExtends
<1> QED  BY <1>3, <1>4, <1>5, <1>6, <1>8, <1>9

\* A binding keeps the invariant when the initiator lists the target, or not.
LEMMA ConnectKeepsInv ==
    ASSUME SocketsInv, stage = "building",
           NEW i \in MultiInits \cup Inits, NEW t \in MultiTargets \cup Targets,
           Bindable(i, t), Connect(i, t),
           \/ UNCHANGED sockets
           \/ /\ i \in MultiInits
              /\ sockets' = [sockets EXCEPT ![i] = Append(@, [socket |-> t, n |-> 0])],
           handed' \subseteq [socket : MultiInits, peer : MultiTargets \cup Targets, id : Id],
           UNCHANGED <<platformVars, stage, outer, joined, exported, registered, elaborated, call>>
    PROVE  SocketsInv'
<1> DEFINE entry == [socket |-> t, n |-> 0]
<1>1. entry \in Interface /\ entry.socket = t
  BY MultiOrSingle DEF Interface
<1>2. /\ sockets \in [Multi -> Seq(Interface)] /\ sockets' \in [Multi -> Seq(Interface)]
      /\ \A s \in Multi : s # i => sockets'[s] = sockets[s]
      /\ \/ UNCHANGED sockets
         \/ i \in MultiInits /\ Extends(sockets[i], sockets'[i], entry)
  <2>1. sockets \in [Multi -> Seq(Interface)]
    BY DEF SocketsInv, TypeOK
  <2>2. CASE UNCHANGED sockets
    BY <2>1, <2>2
  <2>3. CASE i \in MultiInits /\ sockets' = [sockets EXCEPT ![i] = Append(@, entry)]
    <3> HIDE DEF entry
    <3>1. i \in Multi /\ sockets[i] \in Seq(Interface)
      BY <2>1, <2>3 DEF Multi
    <3>2. Append(sockets[i], entry) \in Seq(Interface) /\ Extends(sockets[i], Append(sockets[i], entry), entry)
      BY <1>1, <3>1, AppendExtends
    <3>3. sockets'[i] = Append(sockets[i], entry)
      BY <2>1, <2>3, <3>1
    <3> QED  BY <2>1, <2>3, <3>2, <3>3
  <2> QED  BY <2>2, <2>3
<1> HIDE DEF entry
<1>3. /\ \A s : ~Serves(s)'
      /\ \A s : KindsOf(s)' = KindsOf(s)
  BY WhileBuilding DEF Serves, KindsOf, platformVars
<1>4. /\ binders' \in [Multi -> Seq(Binder)]
      /\ port' \in [MultiTargets -> Seq(Interface)]
      /\ \A s \in Multi : s \notin {i, t} => binders'[s] = binders[s]
      /\ i \in Multi => Extends(binders[i], binders'[i], ServesPeer(t))
      /\ t \in Multi => Extends(binders[t], binders'[t], ServesPeer(i))
      /\ \A s \in MultiTargets : s # t => port'[s] = port[s]
      /\ t \in MultiTargets => Extends(port[t], port'[t], InterfaceOf(i))
  BY ConnectAppends DEF SocketsInv
<1>5. /\ \A p : ServesPeer(p).peer = p
      /\ \A p : \A k \in Kinds : ServesPeer(p).cb[k] = NoCallback
  BY DEF ServesPeer, NoCallbacks
<1>6. ASSUME NEW s \in Multi, NEW n \in 1 .. Len(binders'[s])
      PROVE  \/ n \in 1 .. Len(binders[s]) /\ binders'[s][n] = binders[s][n]
             \/ s = i /\ binders'[s][n] = ServesPeer(t)
             \/ s = t /\ binders'[s][n] = ServesPeer(i)
  <2>1. CASE s = i
    BY <1>4, <1>6, <2>1, ExtendedAt
  <2>2. CASE s = t
    BY <1>4, <1>6, <2>2, ExtendedAt
  <2>3. CASE s \notin {i, t}
    BY <1>4, <1>6, <2>3
  <2> QED  BY <2>1, <2>2, <2>3
<1>7. ASSUME NEW s \in Multi, NEW n \in 1 .. Len(binders[s])
      PROVE  n \in 1 .. Len(binders'[s]) /\ binders'[s][n] = binders[s][n]
  <2>1. CASE s = i
    BY <1>4, <1>7, <2>1, ExtendedAt
  <2>2. CASE s = t
    BY <1>4, <1>7, <2>2, ExtendedAt
  <2>3. CASE s \notin {i, t}
    BY <1>4, <1>7, <2>3
  <2> QED  BY <2>1, <2>2, <2>3
<1>8. TypeOK'
  BY <1>2, <1>4 DEF TypeOK, SocketsInv, platformVars
<1>9. JoinsInv' /\ ChainsInv'
  BY ChainsUnchanged DEF SocketsInv, platformVars
<1>10. ASSUME NEW j \in MultiInits
       PROVE  OwnList(j)'
  <2>1. j \in Multi /\ Lists(sockets[j], binders[j]) /\ j # t
    BY WhileBuilding, MultiOrSingle DEF Multi, OwnList
  <2>2. CASE j # i
    BY <1>2, <1>4, <2>1, <2>2 DEF OwnList
  <2>3. CASE j = i /\ UNCHANGED sockets
    <3>1. Len(sockets[j]) \in Nat
      BY <1>2, <2>1
    <3>2. Lists(sockets[j], binders'[j])
      BY <1>4, <2>1, <2>3, <3>1, ListsFallBehind
    <3> QED  BY <2>3, <3>2 DEF OwnList
  <2>4. CASE j = i /\ Extends(sockets[i], sockets'[i], entry)
    <3>1. \A m \in 1 .. Len(binders[j]) : binders[j][m].peer # ServesPeer(t).peer
      BY <1>5, <2>1, <2>4 DEF Bindable
    <3>2. Lists(sockets'[j], binders'[j])
      BY <1>1, <1>4, <1>5, <2>1, <2>4, <3>1, ListsGrow
    <3> QED  BY <3>2 DEF OwnList
  <2> QED  BY <1>2, <2>2, <2>3, <2>4
<1>11. InitsInv'
  BY <1>3, <1>10 DEF InitsInv
<1>12. ASSUME NEW e, NEW s, MadeFor(e, s, binders)
       PROVE  MadeFor(e, s, binders')
  <2> SUFFICES ASSUME e.socket \in MultiInits
               PROVE  e.n \in 1 .. Len(binders'[e.socket]) /\ binders'[e.socket][e.n].peer = s
    BY DEF MadeFor
  <2>1. e.socket \in Multi
    BY DEF Multi
  <2>2. e.n \in 1 .. Len(binders[e.socket]) /\ binders[e.socket][e.n].peer = s
    BY <1>12 DEF MadeFor
  <2> QED  BY <1>7, <2>1, <2>2
<1>13. PICK e : e = InterfaceOf(i)
  OBVIOUS
<1>14. e.socket = i /\ MadeFor(e, t, binders')
  <2>1. e.socket = i /\ (i \in Multi => e.n = Len(binders[i]) + 1)
    BY <1>13 DEF InterfaceOf
  <2> SUFFICES ASSUME i \in MultiInits
               PROVE  e.n \in 1 .. Len(binders'[i]) /\ binders'[i][e.n].peer = t
    BY <2>1 DEF MadeFor
  <2>2. i \in Multi
    BY DEF Multi
  <2>3. Extends(binders[i], binders'[i], ServesPeer(t))
    BY <1>4, <2>2
  <2>4. Len(binders[i]) + 1 \in 1 .. Len(binders'[i])
    BY <2>3, ExtendedAt
  <2>5. binders'[i][Len(binders[i]) + 1] = ServesPeer(t)
    BY <2>3 DEF Extends
  <2> QED  BY <1>5, <2>1, <2>2, <2>4, <2>5
<1>15. PortsInv'
  <2> SUFFICES ASSUME NEW s \in MultiTargets
               PROVE  /\ InOrder(port'[s], binders'[s])
                      /\ \A n \in 1 .. Len(port'[s]) : MadeFor(port'[s][n], s, binders')
    BY DEF PortsInv
  <2>1. s \in Multi /\ s # i
    BY MultiOrSingle DEF Multi
  <2>2. InOrder(port[s], binders[s]) /\ \A n \in 1 .. Len(port[s]) : MadeFor(port[s][n], s, binders)
    BY DEF SocketsInv, ListsInv, PortsInv
  <2>3. CASE s # t
    <3>1. port'[s] = port[s] /\ binders'[s] = binders[s]
      BY <1>4, <2>1, <2>3
    <3> QED  BY <1>12, <2>2, <3>1
  <2>4. CASE s = t
    <3>1. Extends(port[s], port'[s], e) /\ Extends(binders[s], binders'[s], ServesPeer(i))
      BY <1>4, <1>13, <2>1, <2>4
    <3>2. InOrder(port'[s], binders'[s])
      BY <1>5, <1>14, <2>2, <3>1, InOrderGrows
    <3>3. ASSUME NEW n \in 1 .. Len(port'[s])
          PROVE  MadeFor(port'[s][n], s, binders')
      <4>1. CASE n \in 1 .. Len(port[s]) /\ port'[s][n] = port[s][n]
        BY <1>12, <2>2, <4>1
      <4>2. CASE port'[s][n] = e
        BY <1>14, <2>4, <4>2
      <4> QED  BY <3>1, <4>1, <4>2, ExtendedAt
    <3> QED  BY <3>2, <3>3
  <2> QED  BY <2>3, <2>4
<1>16. TargetsInv'
  <2>1. \A u \in MultiTargets : sockets'[u] = <<>>
    BY <1>2, WhileBuilding, MultiOrSingle DEF Multi
  <2> QED  BY <1>3, <2>1 DEF TargetsInv
<1>17. BindersInv'
  <2>1. \A s \in Multi : binders'[s] # <<>> => s \in present'
    BY <1>4 DEF SocketsInv, ListsInv, BindersInv, Bindable, platformVars
  <2>2. \A s \in Multi : \A n \in 1 .. Len(binders'[s]) : binders'[s][n].peer \in PeersOf(s)
    <3> TAKE s \in Multi
    <3> TAKE n \in 1 .. Len(binders'[s])
    <3>1. CASE n \in 1 .. Len(binders[s]) /\ binders'[s][n] = binders[s][n]
      BY <3>1 DEF SocketsInv, ListsInv, BindersInv
    <3>2. CASE s = i /\ binders'[s][n] = ServesPeer(t)
      BY <1>5, <3>2, MultiOrSingle DEF PeersOf
    <3>3. CASE s = t /\ binders'[s][n] = ServesPeer(i)
      BY <1>5, <3>3, MultiOrSingle DEF PeersOf
    <3> QED  BY <1>6, <3>1, <3>2, <3>3
  <2>3. \A s \in Multi : \A n \in 1 .. Len(binders'[s]), k \in Kinds : binders'[s][n].cb[k] = NoCallback
    <3> TAKE s \in Multi
    <3> TAKE n \in 1 .. Len(binders'[s]), k \in Kinds
    <3>1. CASE n \in 1 .. Len(binders[s]) /\ binders'[s][n] = binders[s][n]
      <4>1. binders[s][n].cb[k] = NoCallback
        BY <3>1, WhileBuilding
      <4> QED  BY <3>1, <4>1
    <3>2. CASE binders'[s][n] = ServesPeer(t) \/ binders'[s][n] = ServesPeer(i)
      BY <1>5, <3>2
    <3> QED  BY <1>6, <3>1, <3>2
  <2> QED  BY <1>3, <2>1, <2>2, <2>3 DEF BindersInv
<1>18. ServedInv'
  BY <1>3 DEF ServedInv
<1>19. StageInv'
  BY <1>3 DEF SocketsInv, StageInv, platformVars
<1>20. CallInv'
  BY WhileBuilding DEF CallInv
<1> QED  BY <1>8, <1>9, <1>11, <1>15, <1>16, <1>17, <1>18, <1>19, <1>20 DEF SocketsInv, ListsInv

\* The ways to bind a pair of sockets.
LEMMA BindsKeepInv ==
    ASSUME SocketsInv,
           NEW i \in MultiInits \cup Inits, NEW t \in MultiTargets \cup Targets
    PROVE  /\ Bind(i, t) => SocketsInv'
           /\ i \in MultiInits /\ BindWithId(i, t) => SocketsInv'
           /\ BindFromTarget(t, i) => SocketsInv'
<1>1. handed \subseteq [socket : MultiInits, peer : MultiTargets \cup Targets, id : Id]
  BY DEF SocketsInv, TypeOK
<1>2. ASSUME BindTo(i, t), handed' \subseteq [socket : MultiInits, peer : MultiTargets \cup Targets, id : Id]
      PROVE  SocketsInv'
  <2>1. PICK r : r = Binding(i)
    OBVIOUS
  <2>2. r \in MultiInits \cup Inits /\ (r \in MultiInits => r \in Multi)
    <3>1. CASE i \in MultiInits
      <4>1. i \in Multi
        BY <3>1 DEF Multi
      <4>2. Root(i) \in MultiInits
        BY <3>1, <4>1, RootFacts DEF SocketsInv
      <4> QED  BY <2>1, <3>1, <4>2 DEF Binding, Multi
    <3>2. CASE i \notin MultiInits
      BY <2>1, <3>2 DEF Binding, Multi
    <3> QED  BY <3>1, <3>2
  <2>3. /\ stage = "building" /\ Bindable(r, t) /\ Connect(r, t)
        /\ sockets' = IF r \in MultiInits
                      THEN [sockets EXCEPT ![r] = Append(@, [socket |-> t, n |-> 0])]
                      ELSE sockets
        /\ UNCHANGED <<platformVars, stage, outer, joined, exported, registered, elaborated, call>>
    BY <1>2, <2>1 DEF BindTo
  <2> QED  BY <1>2, <2>2, <2>3, ConnectKeepsInv
<1>3. Bind(i, t) => SocketsInv'
  BY <1>1, <1>2 DEF Bind
<1>4. i \in MultiInits /\ BindWithId(i, t) => SocketsInv'
  <2> HAVE i \in MultiInits /\ BindWithId(i, t)
  <2> DEFINE id == (Len(sockets'[i]) - 1) % IdMod
  <2>1. i \in Multi
    BY DEF Multi
  <2>2. Len(sockets'[i]) \in Nat
    <3>1. sockets \in [Multi -> Seq(Interface)]
      BY DEF SocketsInv, TypeOK
    <3>2. [socket |-> t, n |-> 0] \in Interface
      BY MultiOrSingle DEF Interface
    <3>3. PICK r : r = Binding(i)
      OBVIOUS
    <3>4. sockets' = sockets \/ sockets' = [sockets EXCEPT ![r] = Append(@, [socket |-> t, n |-> 0])]
      BY <3>3 DEF BindWithId, BindTo
    <3>5. sockets'[i] \in Seq(Interface)
      <4>1. sockets[i] \in Seq(Interface)
        BY <2>1, <3>1
      <4>2. Append(sockets[i], [socket |-> t, n |-> 0]) \in Seq(Interface)
        BY <3>2, <4>1, AppendExtends
      <4>3. sockets'[i] \in {sockets[i], Append(sockets[i], [socket |-> t, n |-> 0])}
        BY <2>1, <3>1, <3>4
      <4> QED  BY <4>1, <4>2, <4>3
    <3> QED  BY <3>5
  <2>3. id \in Id
    <3> DEFINE L == Len(sockets'[i])
    <3>1. L - 1 \in Int /\ IdMod \in Nat /\ IdMod > 0
      BY <2>2, SocketsAssumption
    <3> HIDE DEF L
    <3>2. (L - 1) % IdMod \in 0 .. IdMod - 1
      BY <3>1
    <3> QED  BY <3>2 DEF L, Id
  <2>4. handed' = handed \cup {[socket |-> i, peer |-> t, id |-> id]} /\ BindTo(i, t)
    BY DEF BindWithId
  <2> HIDE DEF id
  <2> QED  BY <1>1, <1>2, <2>3, <2>4
<1>5. BindFromTarget(t, i) => SocketsInv'
  <2> HAVE BindFromTarget(t, i)
  <2>1. /\ stage = "building" /\ Bindable(i, t) /\ Connect(i, t) /\ UNCHANGED sockets
        /\ UNCHANGED <<platformVars, stage, outer, joined, exported, registered, elaborated, call>>
        /\ UNCHANGED handed
    BY DEF BindFromTarget
  <2> QED  BY <1>1, <2>1, ConnectKeepsInv
<1> QED  BY <1>3, <1>4, <1>5

-----------------------------------------------------------------------------
(***************************************************************************)
(* Elaboration.  The module at the inner end of a chain copies the list of *)
(* the outermost socket and gives that socket's binders its callbacks; no  *)
(* other module does so for the same chain.                                *)
(***************************************************************************)

\* The peers of the binders in c are those of the binders in b.
SamePeers(b, c) == Len(c) = Len(b) /\ \A n \in 1 .. Len(b) : c[n].peer = b[n].peer

\* Callbacks make no difference to which peers are listed.
LEMMA ListsOfSamePeers ==
    ASSUME NEW l, NEW b, NEW c, SamePeers(b, c)
    PROVE  /\ Lists(l, b) => Lists(l, c)
           /\ InOrder(l, b) => InOrder(l, c)
<1>1. Lists(l, b) => Lists(l, c)
  BY DEF Lists, SamePeers
<1>2. InOrder(l, b) => InOrder(l, c)
  BY DEF InOrder, SamePeers
<1> QED  BY <1>1, <1>2

\* The binders with the callbacks of f.
WithCallbacks(b, f) == [n \in 1 .. Len(b) |-> [b[n] EXCEPT !.cb = f]]

\* A list of binders after the callbacks were copied.
LEMMA CallbacksGiven ==
    ASSUME NEW b \in Seq(Binder), NEW f \in CallbackTable
    PROVE  /\ WithCallbacks(b, f) \in Seq(Binder)
           /\ SamePeers(b, WithCallbacks(b, f))
           /\ \A n \in 1 .. Len(b) : WithCallbacks(b, f)[n].cb = f
<1> DEFINE L == Len(b)
           c == WithCallbacks(b, f)
<1>1. L \in Nat /\ \A n \in 1 .. L : b[n] \in Binder
  BY ElementOfSeq
<1>2. c = [n \in 1 .. L |-> [b[n] EXCEPT !.cb = f]]
  BY DEF WithCallbacks
<1> HIDE DEF L, c
<1>3. \A n \in 1 .. L : c[n] \in Binder /\ c[n].peer = b[n].peer /\ c[n].cb = f
  BY <1>1, <1>2 DEF Binder
<1>4. c \in [1 .. L -> Binder]
  BY <1>2, <1>3
<1>5. c \in Seq(Binder)
  BY <1>1, <1>4, SeqDef
<1>6. Len(c) = L
  BY <1>1, <1>2, <1>5, LenProperties
<1> QED  BY <1>3, <1>5, <1>6 DEF SamePeers, L, c

\* What before_end_of_elaboration() does to binders, in every case.
GivesCallbacks(s) ==
    /\ binders' \in [Multi -> Seq(Binder)]
    /\ \A u \in Multi : SamePeers(binders[u], binders'[u])
    /\ \A u \in Multi : u # Root(s) \/ joined[s] => binders'[u] = binders[u]
    /\ ~joined[s] => \A n \in 1 .. Len(binders[Root(s)]) : binders'[Root(s)][n].cb = registered[s]

\* before_end_of_elaboration() of either kind changes the binders in the same way.
LEMMA BeforeEndGivesCallbacks ==
    ASSUME SocketsInv, NEW s \in Multi, BeforeEndOfElaboration(s)
    PROVE  GivesCallbacks(s)
<1>1. /\ binders \in [Multi -> Seq(Binder)] /\ registered[s] \in CallbackTable /\ Root(s) \in Multi
      /\ \A u \in Multi : SamePeers(binders[u], binders[u])
  BY RootFacts DEF SocketsInv, TypeOK, SamePeers
<1>2. CASE UNCHANGED binders /\ (joined[s] \/ binders[Root(s)] = <<>>)
  BY <1>1, <1>2 DEF GivesCallbacks
<1>3. CASE binders' = BindersFor(s) /\ ~joined[s]
  <2>1. binders' = [binders EXCEPT ![Root(s)] = WithCallbacks(binders[Root(s)], registered[s])]
    BY <1>3 DEF BindersFor, WithCallbacks
  <2> DEFINE b == binders[Root(s)]
             c == WithCallbacks(b, registered[s])
  <2>2. b \in Seq(Binder)
    BY <1>1
  <2>3. c \in Seq(Binder) /\ SamePeers(b, c) /\ \A n \in 1 .. Len(b) : c[n].cb = registered[s]
    BY <1>1, <2>2, CallbacksGiven
  <2>4. binders' = [binders EXCEPT ![Root(s)] = c]
    BY <2>1
  <2> HIDE DEF c
  <2>5. binders'[Root(s)] = c /\ \A u \in Multi : u # Root(s) => binders'[u] = binders[u]
    BY <1>1, <2>4
  <2>6. binders' \in [Multi -> Seq(Binder)]
    BY <1>1, <2>3, <2>4
  <2> QED  BY <1>1, <1>3, <2>3, <2>5, <2>6 DEF GivesCallbacks
<1>4. \/ UNCHANGED binders /\ (joined[s] \/ binders[Root(s)] = <<>>)
      \/ binders' = BindersFor(s) /\ ~joined[s]
  BY DEF BeforeEndOfElaboration, BeforeEndInitiator, BeforeEndTarget
<1> QED  BY <1>2, <1>3, <1>4

\* The parts of the invariant that the lists of targets and initiators leave alone.
LEMMA BeforeEndKeepsBinders ==
    ASSUME SocketsInv, NEW s \in Multi, BeforeEndOfElaboration(s), GivesCallbacks(s)
    PROVE  /\ JoinsInv' /\ ChainsInv'
           /\ PortsInv' /\ BindersInv' /\ ServedInv' /\ StageInv' /\ CallInv'
           /\ \A u : Root(u)' = Root(u)
           /\ \A u \in Multi : Serves(u)' <=> Serves(u) \/ (u = s /\ ~joined[s])
<1>1. /\ stage = "elaborating" /\ s \in present \ elaborated
      /\ elaborated' = elaborated \cup {s} /\ exported' = exported \cup {s}
      /\ UNCHANGED <<present, kinds, stage, outer, joined, port, registered, handed, call>>
  BY DEF BeforeEndOfElaboration, BeforeEndInitiator, BeforeEndTarget, platformVars
<1>2. JoinsInv' /\ ChainsInv'
  <2>1. exported \subseteq exported'
    BY <1>1
  <2> QED  BY <1>1, <2>1, ChainsAfterExport DEF SocketsInv
<1>3. /\ \A u : Root(u)' = Root(u) /\ KindsOf(u)' = KindsOf(u)
      /\ \A u : Serves(u)' <=> Serves(u) \/ (u = s /\ ~joined[s])
  BY <1>1, RootUnchanged DEF Serves, KindsOf
<1>4. PortsInv'
  <2> SUFFICES ASSUME NEW t \in MultiTargets
               PROVE  /\ InOrder(port[t], binders'[t])
                      /\ \A n \in 1 .. Len(port[t]) : MadeFor(port[t][n], t, binders')
    BY <1>1 DEF PortsInv
  <2>1. t \in Multi /\ SamePeers(binders[t], binders'[t])
    BY DEF Multi, GivesCallbacks
  <2>2. InOrder(port[t], binders[t]) /\ \A n \in 1 .. Len(port[t]) : MadeFor(port[t][n], t, binders)
    BY DEF SocketsInv, ListsInv, PortsInv
  <2>3. ASSUME NEW e, MadeFor(e, t, binders)
        PROVE  MadeFor(e, t, binders')
    <3> SUFFICES ASSUME e.socket \in MultiInits
                 PROVE  e.n \in 1 .. Len(binders'[e.socket]) /\ binders'[e.socket][e.n].peer = t
      BY DEF MadeFor
    <3>1. SamePeers(binders[e.socket], binders'[e.socket])
      BY DEF GivesCallbacks, Multi
    <3> QED  BY <2>3, <3>1 DEF MadeFor, SamePeers
  <2> QED  BY <2>1, <2>2, <2>3, ListsOfSamePeers
<1>5. BindersInv'
  <2>1. \A u \in Multi : binders'[u] # <<>> => u \in present'
    <3> TAKE u \in Multi
    <3>1. binders[u] \in Seq(Binder) /\ binders'[u] \in Seq(Binder) /\ Len(binders'[u]) = Len(binders[u])
      BY DEF SocketsInv, TypeOK, GivesCallbacks, SamePeers
    <3>2. binders'[u] # <<>> => binders[u] # <<>>
      BY <3>1, EmptySeq
    <3> QED  BY <1>1, <3>2 DEF SocketsInv, ListsInv, BindersInv
  <2>2. \A u \in Multi : \A n \in 1 .. Len(binders'[u]) : binders'[u][n].peer \in PeersOf(u)
    <3> TAKE u \in Multi
    <3> TAKE n \in 1 .. Len(binders'[u])
    <3>1. SamePeers(binders[u], binders'[u])
      BY DEF GivesCallbacks
    <3> QED  BY <3>1 DEF SamePeers, SocketsInv, ListsInv, BindersInv
  <2>3. ASSUME NEW u \in Multi, NEW n \in 1 .. Len(binders'[u]), NEW k \in Kinds,
               binders'[u][n].cb[k] # NoCallback
        PROVE  /\ k \in KindsOf(u)
               /\ \E c : /\ binders'[u][n].cb[k].socket = c
                        /\ Serves(c)' /\ Root(c)' = u
    <3>1. n \in 1 .. Len(binders[u])
      BY DEF GivesCallbacks, SamePeers
    <3>2. CASE u # Root(s) \/ joined[s]
      <4>1. binders'[u] = binders[u]
        BY <3>2 DEF GivesCallbacks
      <4>2. PICK c : c = binders[u][n].cb[k].socket
        OBVIOUS
      <4>3. Serves(c) /\ Root(c) = u /\ k \in KindsOf(u)
        BY <2>3, <3>1, <4>1, <4>2 DEF SocketsInv, ListsInv, BindersInv
      <4>4. Serves(c)' /\ Root(c)' = u
        BY <1>3, <4>3
      <4> QED  BY <4>1, <4>2, <4>3, <4>4
    <3>3. CASE u = Root(s) /\ ~joined[s]
      <4>1. binders'[u][n].cb = registered[s]
        BY <3>1, <3>3 DEF GivesCallbacks
      <4>2. registered[s][k].socket = s /\ k \in KindsOf(s)
        BY <2>3, <4>1 DEF SocketsInv, StageInv
      <4>3. s \in MultiInits <=> u \in MultiInits
        BY <3>3, RootFacts DEF SocketsInv
      <4>4. k \in KindsOf(u)
        BY <4>2, <4>3 DEF KindsOf
      <4>5. Serves(s)' /\ Root(s)' = u
        BY <1>3, <3>3
      <4> QED  BY <4>1, <4>2, <4>4, <4>5
    <3> QED  BY <3>2, <3>3
  <2>4. ASSUME NEW u \in Multi, NEW n \in 1 .. Len(binders'[u]), NEW k \in Kinds,
               binders'[u][n].cb[k] # NoCallback
        PROVE  /\ (Serves(binders[u][n].cb[k].socket))'
               /\ (Root(binders[u][n].cb[k].socket) = u)'
               /\ (k \in KindsOf(u))'
    <3>1. PICK c : binders'[u][n].cb[k].socket = c /\ Serves(c)' /\ Root(c)' = u
      BY <2>3, <2>4
    <3> QED  BY <1>3, <2>3, <2>4, <3>1
  <2> QED  BY <2>1, <2>2, <2>4 DEF BindersInv, PeersOf
<1>6. ServedInv'
  <2> SUFFICES ASSUME NEW c \in Multi, Serves(c)',
                      NEW n \in 1 .. Len(binders'[Root(c)]), NEW k \in Kinds
               PROVE  binders'[Root(c)][n].cb[k] = EarlyOf(c, k)
    <3>1. \A c \in Multi : \A k : Root(c)' = Root(c) /\ EarlyOf(c, k)' = EarlyOf(c, k)
      BY <1>1, <1>3 DEF EarlyOf
    <3> QED  BY <3>1 DEF ServedInv
  <2>1. Root(c) \in Multi /\ Root(s) \in Multi
    BY RootFacts DEF SocketsInv
  <2>2. n \in 1 .. Len(binders[Root(c)])
    BY <2>1 DEF GivesCallbacks, SamePeers
  <2>3. CASE c = s /\ ~joined[s]
    <3>1. binders'[Root(c)][n].cb = registered[s]
      BY <2>2, <2>3 DEF GivesCallbacks
    <3>2. registered[s][k] # NoCallback => registered[s][k].early
      BY DEF BeforeEndOfElaboration, SocketsInv, StageInv
    <3> QED  BY <2>3, <3>1, <3>2 DEF EarlyOf
  <2>4. CASE Serves(c)
    <3>1. Root(c) # Root(s) \/ joined[s]
      BY <1>1, <2>4, RootFacts DEF SocketsInv, Serves
    <3>2. binders'[Root(c)] = binders[Root(c)]
      BY <2>1, <3>1 DEF GivesCallbacks
    <3> QED  BY <2>2, <2>4, <3>2 DEF SocketsInv, ServedInv
  <2> QED  BY <1>3, <2>3, <2>4
<1>7. StageInv'
  BY <1>1, <1>3 DEF SocketsInv, StageInv
<1>8. CallInv'
  BY <1>1 DEF SocketsInv, StageInv, CallInv
<1> QED  BY <1>2, <1>3, <1>4, <1>5, <1>6, <1>7, <1>8

\* The list of an initiator becomes a copy of the outermost one's.
LEMMA BeforeEndInitiatorLists ==
    ASSUME SocketsInv, NEW s \in MultiInits, BeforeEndOfElaboration(s), GivesCallbacks(s),
           \A u : Root(u)' = Root(u),
           \A u \in Multi : Serves(u)' <=> Serves(u) \/ (u = s /\ ~joined[s])
    PROVE  /\ sockets' \in [Multi -> Seq(Interface)]
           /\ InitsInv' /\ TargetsInv'
<1>1. /\ s \in Multi /\ Root(s) \in MultiInits /\ Root(s) \in Multi
      /\ sockets \in [Multi -> Seq(Interface)]
  BY RootFacts DEF SocketsInv, TypeOK, Multi
<1>2. /\ UNCHANGED <<port, outer, joined>>
      /\ IF joined[s] THEN UNCHANGED sockets ELSE sockets' = [sockets EXCEPT ![s] = sockets[Root(s)]]
  BY DEF BeforeEndOfElaboration, BeforeEndInitiator
<1>3. /\ sockets' \in [Multi -> Seq(Interface)]
      /\ \A u \in Multi : u # s => sockets'[u] = sockets[u]
      /\ outer[s] = NoSocket => sockets' = sockets
      /\ ~joined[s] => sockets'[s] = sockets[Root(s)]
      /\ joined[s] => sockets' = sockets
  <2>1. outer[s] = NoSocket => Root(s) = s
    BY <1>1, RootFacts DEF SocketsInv
  <2> QED  BY <1>1, <1>2, <2>1
<1>4. InitsInv'
  <2>1. ASSUME NEW i \in MultiInits, ~Serves(i)' \/ outer[i] = NoSocket
        PROVE  OwnList(i)'
    <3>1. i \in Multi /\ SamePeers(binders[i], binders'[i])
      BY DEF Multi, GivesCallbacks
    <3>2. Lists(sockets[i], binders[i])
      BY <2>1, <3>1 DEF SocketsInv, ListsInv, InitsInv, OwnList
    <3>3. sockets'[i] = sockets[i]
      BY <1>3, <2>1, <3>1
    <3> QED  BY <3>1, <3>2, <3>3, ListsOfSamePeers DEF OwnList
  <2>2. ASSUME NEW i \in MultiInits, Serves(i)'
        PROVE  sockets'[i] = sockets'[Root(i)]
    <3>1. i \in Multi /\ Root(i) \in Multi /\ outer[Root(i)] = NoSocket
      BY RootFacts DEF SocketsInv, Multi
    <3>2. sockets'[Root(i)] = sockets[Root(i)]
      BY <1>3, <3>1
    <3>3. CASE i = s /\ ~joined[s]
      BY <1>3, <3>2, <3>3
    <3>4. CASE Serves(i) /\ i # s
      BY <1>3, <3>1, <3>2, <3>4 DEF SocketsInv, ListsInv, InitsInv
    <3>5. CASE Serves(i) /\ i = s
      BY <3>5 DEF Serves, BeforeEndOfElaboration
    <3> QED  BY <2>2, <3>1, <3>3, <3>4, <3>5
  <2> QED  BY <1>2, <2>1, <2>2 DEF InitsInv
<1>5. TargetsInv'
  <2>1. \A t \in MultiTargets : t \in Multi /\ t # s /\ sockets'[t] = sockets[t]
                                /\ Root(t) \in MultiTargets
    <3> TAKE t \in MultiTargets
    <3>1. t \in Multi /\ t # s /\ t \notin MultiInits
      BY SocketsAssumption DEF Multi
    <3>2. Root(t) \in Multi /\ Root(t) \notin MultiInits
      BY <3>1, RootFacts DEF SocketsInv
    <3> QED  BY <1>3, <3>1, <3>2 DEF Multi
  <2>2. \A t \in MultiTargets : Serves(t)' <=> Serves(t)
    BY <2>1
  <2> QED  BY <1>2, <2>1, <2>2 DEF SocketsInv, ListsInv, TargetsInv
<1> QED  BY <1>3, <1>4, <1>5

\* The list of the outermost target is filled, and copied.
LEMMA BeforeEndTargetLists ==
    ASSUME SocketsInv, NEW s \in MultiTargets, BeforeEndOfElaboration(s), GivesCallbacks(s),
           \A u : Root(u)' = Root(u),
           \A u \in Multi : Serves(u)' <=> Serves(u) \/ (u = s /\ ~joined[s])
    PROVE  /\ sockets' \in [Multi -> Seq(Interface)]
           /\ InitsInv' /\ TargetsInv'
<1> DEFINE r == Root(s)
<1>1. \A t \in MultiTargets : t \in Multi /\ t \notin MultiInits /\ Root(t) \in MultiTargets
  <2> TAKE t \in MultiTargets
  <2>1. t \in Multi /\ t \notin MultiInits
    BY SocketsAssumption DEF Multi
  <2>2. Root(t) \in Multi /\ Root(t) \notin MultiInits
    BY <2>1, RootFacts DEF SocketsInv
  <2> QED  BY <2>1, <2>2 DEF Multi
<1>2. /\ s \in Multi /\ r \in MultiTargets /\ r \in Multi /\ Root(r) = r
      /\ sockets \in [Multi -> Seq(Interface)] /\ port \in [MultiTargets -> Seq(Interface)]
  BY <1>1, RootFacts DEF SocketsInv, TypeOK
<1>3. /\ UNCHANGED <<port, outer, joined>> /\ ~Serves(s)
      /\ \/ UNCHANGED sockets /\ (joined[s] \/ binders[r] = <<>>)
         \/ /\ ~joined[s]
            /\ sockets' = [[sockets EXCEPT ![r] = sockets[r] \o port[r]] EXCEPT
                             ![s] = [sockets EXCEPT ![r] = sockets[r] \o port[r]][r]]
  BY SocketsAssumption DEF BeforeEndOfElaboration, BeforeEndTarget, Serves
<1>4. ~joined[s] => sockets[s] = <<>> /\ sockets[r] = <<>>
  <2> SUFFICES ASSUME ~joined[s], NEW t \in {s, r}, sockets[t] # <<>>
               PROVE  FALSE
    OBVIOUS
  <2>1. t \in MultiTargets /\ Root(t) = r
    BY <1>2
  <2>2. PICK c \in MultiTargets : Serves(c) /\ Root(c) = r
    BY <2>1 DEF SocketsInv, ListsInv, TargetsInv
  <2>3. c \in Multi /\ ~joined[c]
    BY <2>2 DEF Multi, Serves
  <2>4. c = s
    BY <1>2, <2>2, <2>3, RootFacts DEF SocketsInv
  <2> QED  BY <1>3, <2>2, <2>4
<1>5. binders[r] = <<>> => port[r] = <<>>
  <2> HAVE binders[r] = <<>>
  <2>1. Len(port[r]) = Len(binders[r]) /\ port[r] \in Seq(Interface)
    BY <1>2 DEF SocketsInv, ListsInv, PortsInv, InOrder
  <2>2. Len(port[r]) = 0
    BY <2>1
  <2> QED  BY <2>1, <2>2, EmptySeq
<1>6. /\ sockets' \in [Multi -> Seq(Interface)]
      /\ joined[s] => sockets' = sockets
      /\ ~joined[s] => sockets'[s] = port[r] /\ sockets'[r] = port[r]
      /\ \A u \in Multi : u # s /\ u # r => sockets'[u] = sockets[u]
  <2>1. CASE UNCHANGED sockets /\ (joined[s] \/ binders[r] = <<>>)
    BY <1>2, <1>4, <1>5, <2>1
  <2>2. CASE /\ ~joined[s]
             /\ sockets' = [[sockets EXCEPT ![r] = sockets[r] \o port[r]] EXCEPT
                              ![s] = [sockets EXCEPT ![r] = sockets[r] \o port[r]][r]]
    <3>1. port[r] \in Seq(Interface)
      BY <1>2
    <3>2. sockets[r] \o port[r] = port[r]
      BY <1>4, <2>2, <3>1, ConcatEmptySeq
    <3>3. sockets' = [[sockets EXCEPT ![r] = port[r]] EXCEPT ![s] = [sockets EXCEPT ![r] = port[r]][r]]
      BY <2>2, <3>2
    <3> HIDE DEF r
    <3> QED  BY <1>2, <2>2, <3>1, <3>3
  <2> QED  BY <1>3, <2>1, <2>2
<1>7. \A i \in MultiInits : i \in Multi /\ i # s /\ i # r /\ sockets'[i] = sockets[i]
                            /\ Root(i) \in MultiInits
  <2> TAKE i \in MultiInits
  <2>1. i \in Multi /\ i # s /\ i # r
    BY <1>2, SocketsAssumption DEF Multi
  <2> QED  BY <1>6, <2>1, RootFacts DEF SocketsInv
<1>8. InitsInv'
  <2>1. \A i \in MultiInits : Serves(i)' <=> Serves(i)
    BY <1>7
  <2>2. ASSUME NEW i \in MultiInits, ~Serves(i)' \/ outer[i] = NoSocket
        PROVE  OwnList(i)'
    <3>1. SamePeers(binders[i], binders'[i])
      BY <1>7 DEF GivesCallbacks
    <3>2. Lists(sockets[i], binders[i])
      BY <2>1, <2>2 DEF SocketsInv, ListsInv, InitsInv, OwnList
    <3> QED  BY <1>7, <3>1, <3>2, ListsOfSamePeers DEF OwnList
  <2>3. ASSUME NEW i \in MultiInits, Serves(i)'
        PROVE  sockets'[i] = sockets'[Root(i)]
    BY <1>7, <2>1, <2>3 DEF SocketsInv, ListsInv, InitsInv
  <2> QED  BY <1>3, <2>2, <2>3 DEF InitsInv
<1>9. TargetsInv'
  <2>1. ASSUME NEW t \in MultiTargets, sockets'[t] # <<>>
        PROVE  /\ sockets'[t] = port[Root(t)]
               /\ \E c \in MultiTargets : Serves(c)' /\ Root(c) = Root(t)
    <3>1. CASE ~joined[s] /\ t \in {s, r}
      <4>1. Root(t) = r /\ sockets'[t] = port[r]
        BY <1>2, <1>6, <3>1
      <4>2. Serves(s)' /\ Root(s) = r
        BY <1>2, <3>1
      <4> QED  BY <4>1, <4>2
    <3>2. CASE ~(~joined[s] /\ t \in {s, r})
      <4>1. sockets'[t] = sockets[t] /\ t \in Multi
        BY <1>1, <1>6, <3>2
      <4>2. PICK c \in MultiTargets : Serves(c) /\ Root(c) = Root(t)
        BY <2>1, <4>1 DEF SocketsInv, ListsInv, TargetsInv
      <4>3. Serves(c)'
        BY <1>1, <4>2
      <4> QED  BY <2>1, <4>1, <4>2, <4>3 DEF SocketsInv, ListsInv, TargetsInv
    <3> QED  BY <3>1, <3>2
  <2>2. ASSUME NEW c \in MultiTargets, Serves(c)'
        PROVE  sockets'[c] = port[Root(c)] /\ sockets'[Root(c)] = port[Root(c)]
    <3>1. c \in Multi /\ Root(c) \in Multi
      BY <1>1
    <3>2. CASE c = s /\ ~joined[s]
      BY <1>6, <3>2
    <3>3. CASE Serves(c)
      <4>1. c # s /\ ~joined[c]
        BY <1>3, <3>3 DEF Serves
      <4>2. sockets[c] = port[Root(c)] /\ sockets[Root(c)] = port[Root(c)]
        BY <3>3 DEF SocketsInv, ListsInv, TargetsInv
      <4>3. CASE joined[s]
        BY <1>6, <4>2, <4>3
      <4>4. CASE ~joined[s]
        <5>1. Root(c) # r
          BY <1>2, <3>1, <4>1, <4>4, RootFacts DEF SocketsInv
        <5>2. c # r /\ Root(c) # s
          BY <1>2, <3>1, <5>1, RootFacts DEF SocketsInv
        <5> QED  BY <1>6, <3>1, <4>1, <4>2, <5>1, <5>2
      <4> QED  BY <4>3, <4>4
    <3> QED  BY <2>2, <3>1, <3>2, <3>3
  <2>3. \A c \in MultiTargets : Root(c)' = Root(c) /\ c \in Multi
    BY <1>1
  <2> QED  BY <1>3, <2>1, <2>2, <2>3 DEF TargetsInv
<1> QED  BY <1>6, <1>8, <1>9

\* before_end_of_elaboration() keeps the invariant.
LEMMA BeforeEndKeepsInv ==
    ASSUME SocketsInv, NEW s \in Multi, BeforeEndOfElaboration(s)
    PROVE  SocketsInv'
<1>1. GivesCallbacks(s)
  BY BeforeEndGivesCallbacks
<1>2. /\ JoinsInv' /\ ChainsInv'
      /\ PortsInv' /\ BindersInv' /\ ServedInv' /\ StageInv' /\ CallInv'
      /\ \A u : Root(u)' = Root(u)
      /\ \A u \in Multi : Serves(u)' <=> Serves(u) \/ (u = s /\ ~joined[s])
  BY <1>1, BeforeEndKeepsBinders
<1>3. sockets' \in [Multi -> Seq(Interface)] /\ InitsInv' /\ TargetsInv'
  <2>1. CASE s \in MultiInits
    BY <1>1, <1>2, <2>1, BeforeEndInitiatorLists
  <2>2. CASE s \in MultiTargets
    BY <1>1, <1>2, <2>2, BeforeEndTargetLists
  <2> QED  BY <2>1, <2>2 DEF Multi
<1>4. TypeOK'
  <2>1. /\ elaborated' \subseteq Multi /\ exported' \subseteq Multi
        /\ UNCHANGED <<platformVars, stage, outer, joined, port, registered, handed, call>>
    BY DEF BeforeEndOfElaboration, BeforeEndInitiator, BeforeEndTarget, SocketsInv, TypeOK
  <2>2. binders' \in [Multi -> Seq(Binder)]
    BY <1>1 DEF GivesCallbacks
  <2> QED  BY <1>3, <2>1, <2>2 DEF SocketsInv, TypeOK, platformVars
<1> QED  BY <1>2, <1>3, <1>4 DEF SocketsInv, ListsInv
-----------------------------------------------------------------------------
\* A platform with no bindings satisfies the invariant.
LEMMA InitBuildingInv ==
    ASSUME InitBuilding,
           registered \in [Multi -> CallbackTable],
           \A s \in Multi, k \in Kinds : registered[s][k] # NoCallback =>
               registered[s][k].socket = s /\ k \in KindsOf(s) /\ registered[s][k].early
    PROVE  SocketsInv
<1>1. TypeOK
  <2>1. PICK p \in Platforms : present = p.sockets /\ kinds = p.kinds
    BY DEF InitBuilding
  <2>2. [sockets |-> present, kinds |-> kinds] \in Platforms
    BY <2>1, SocketsAssumption DEF Platform
  <2> QED  BY <2>2 DEF TypeOK, InitBuilding
<1>2. JoinsInv
  BY DEF JoinsInv, InitBuilding, Multi
<1>3. ChainsInv
  <2> SUFFICES ASSUME NEW S \in SUBSET Multi
               PROVE  /\ \E f : LeadsToEnds(f, S) /\ Ends(f, S)
                      /\ \A f, g : LeadsToEnds(f, S) /\ LeadsToEnds(g, S) => f = g
    BY DEF ChainsInv
  <2> DEFINE same == [u \in Multi |-> u]
  <2>1. \A f : LeadsToEnds(f, S) <=> f = same
    <3> TAKE f
    <3>1. \A u \in Multi : (IF outer[u] = NoSocket \/ u \in S THEN u ELSE f[outer[u]]) = u
      BY DEF InitBuilding
    <3> QED  BY <3>1 DEF LeadsToEnds
  <2>2. Ends(same, S)
    BY DEF Ends, InitBuilding
  <2> QED  BY <2>1, <2>2
<1>4. ListsInv
  <2>1. \A s \in Multi : Len(binders[s]) = 0 /\ Len(sockets[s]) = 0 /\ binders[s] = <<>> /\ sockets[s] = <<>>
    BY DEF InitBuilding
  <2>2. \A t \in MultiTargets : Len(port[t]) = 0
    BY DEF InitBuilding
  <2>3. \A s : ~Serves(s)
    BY DEF Serves, InitBuilding
  <2>4. InitsInv
    BY <2>1, <2>3 DEF InitsInv, OwnList, Lists, Multi
  <2>5. PortsInv
    BY <2>1, <2>2 DEF PortsInv, InOrder, Multi
  <2>6. TargetsInv
    BY <2>1, <2>3 DEF TargetsInv, Multi
  <2>7. BindersInv
    BY <2>1 DEF BindersInv
  <2> QED  BY <2>4, <2>5, <2>6, <2>7 DEF ListsInv
<1>5. ServedInv
  BY DEF ServedInv, Serves, InitBuilding
<1>6. StageInv
  BY DEF StageInv, InitBuilding
<1>7. CallInv
  BY DEF CallInv, InitBuilding
<1> QED  BY <1>1, <1>2, <1>3, <1>4, <1>5, <1>6, <1>7 DEF SocketsInv

\* Multi sockets alone start without callbacks...
LEMMA InitInv == Init => SocketsInv
<1> HAVE Init
<1>1. /\ registered \in [Multi -> CallbackTable]
      /\ \A s \in Multi, k \in Kinds : registered[s][k] = NoCallback
  BY DEF Init, CallbackTable, NoCallbacks
<1> QED  BY <1>1, InitBuildingInv DEF Init

\* ... and with those of the router's constructor.
LEMMA RoutedInitInv == RoutedInit => SocketsInv
<1> HAVE RoutedInit
<1> DEFINE own(s) == [socket |-> s, early |-> TRUE]
<1>1. \A s \in Multi, k \in Kinds : own(s) \in Callback /\ own(s).socket = s /\ own(s).early
  BY DEF Callback
<1>2. \A s \in Multi, k \in Kinds :
        registered[s][k] = IF s \in RouterSockets /\ k \in KindsOf(s) THEN own(s) ELSE NoCallback
  BY DEF RoutedInit, RouterCallbacks
<1>3. registered = [s \in Multi |-> [k \in Kinds |-> registered[s][k]]]
  BY DEF RoutedInit, RouterCallbacks
<1> HIDE DEF own
<1>4. registered \in [Multi -> CallbackTable]
  <2>1. \A s \in Multi, k \in Kinds : registered[s][k] \in Callback \cup {NoCallback}
    BY <1>1, <1>2
  <2> QED  BY <1>3, <2>1 DEF CallbackTable
<1> QED  BY <1>1, <1>2, <1>4, InitBuildingInv DEF RoutedInit

\* exit() anywhere.
LEMMA AbortKeepsInv == SocketsInv /\ Abort => SocketsInv'
BY StageChanges DEF Abort

\* The end of elaboration keeps the invariant.
LEMMA EndElaborationKeepsInv == SocketsInv /\ EndElaboration => SocketsInv'
BY StageChanges, AbortKeepsInv DEF EndElaboration

\* The steps that build the platform keep the invariant.
LEMMA BuildKeepsInv == SocketsInv /\ Build => SocketsInv'
<1> HAVE SocketsInv /\ Build
<1>1. CASE \E i \in MultiInits \cup Inits, t \in MultiTargets \cup Targets :
             Bind(i, t) \/ BindFromTarget(t, i)
  BY <1>1, BindsKeepInv
<1>2. CASE \/ \E s, u \in MultiInits : JoinInitiators(s, u)
           \/ \E s, u \in MultiTargets : JoinTargets(s, u)
  BY <1>2, JoinsKeepInv
<1>3. CASE JoinMono
  BY <1>3, AbortKeepsInv DEF JoinMono
<1>4. CASE EndBuilding
  BY <1>4, StageChanges DEF EndBuilding
<1> QED  BY <1>1, <1>2, <1>3, <1>4 DEF Build

\* bind(s, id) keeps the invariant.
LEMMA AskIdKeepsInv == SocketsInv /\ AskId => SocketsInv'
BY BindsKeepInv DEF AskId

\* Registering callbacks keeps the invariant.
LEMMA RegisteringKeepsInv == SocketsInv /\ Registering => SocketsInv'
<1> HAVE SocketsInv /\ Registering
<1>1. ASSUME NEW s \in Multi, NEW k \in Kinds, RegisterAgain(s, k)
      PROVE  SocketsInv'
  BY <1>1, NothingChanges DEF RegisterAgain
<1> QED  BY <1>1, RegisterKeepsInv DEF Registering

\* The invariant holds for the multi sockets on their own...
LEMMA NextKeepsInv == SocketsInv /\ [Next]_vars => SocketsInv'
<1> HAVE SocketsInv /\ [Next]_vars
<1>1. CASE Build
  BY <1>1, BuildKeepsInv
<1>2. CASE AskId
  BY <1>2, AskIdKeepsInv
<1>3. CASE Elaborate
  BY <1>3, BeforeEndKeepsInv, EndElaborationKeepsInv DEF Elaborate
<1>4. CASE Run(Multi)
  BY <1>4, RunKeepsInv
<1>5. CASE Registering
  BY <1>5, RegisteringKeepsInv
<1>6. CASE UNCHANGED vars
  BY <1>6, NothingChanges
<1> QED  BY <1>1, <1>2, <1>3, <1>4, <1>5, <1>6 DEF Next

\* ... and around a router, whose steps are theirs, exits, or leave them alone.
LEMMA RoutedNextKeepsInv == SocketsInv /\ [RoutedNext]_allVars => SocketsInv'
<1> HAVE SocketsInv /\ [RoutedNext]_allVars
<1>1. CASE Build \/ AskId \/ EndElaboration \/ Registering \/ \E s \in Multi : BeforeEndOfElaboration(s)
  BY <1>1, BuildKeepsInv, AskIdKeepsInv, EndElaborationKeepsInv, RegisteringKeepsInv, BeforeEndKeepsInv
<1>2. CASE EndElaborationOfRouter
  BY <1>2, EndElaborationKeepsInv, AbortKeepsInv DEF EndElaborationOfRouter
<1>3. CASE Call
  BY <1>3, RunKeepsInv DEF Call
<1>4. CASE Handler
  <2>1. UNCHANGED vars \/ Abort
    BY <1>4 DEF Handler, RouteForward, RouteNowhere, RouteNBTransportBw, RouteInvalidate,
                HandlerReturns, HandlerExits, PeerExits
  <2> QED  BY <2>1, NothingChanges, AbortKeepsInv
<1>5. CASE UNCHANGED vars
  BY <1>5, NothingChanges
<1> QED  BY <1>1, <1>2, <1>3, <1>4, <1>5 DEF RoutedNext, allVars
-----------------------------------------------------------------------------
(***************************************************************************)
(* What the invariant says of the calls that arrive.                       *)
(***************************************************************************)

\* A module at the inner end of a chain has the peers of the chain, each in the
\* place of its binder, unless a target has bound an initiator.
LEMMA ListOfModule ==
    ASSUME SocketsInv, NEW c \in Multi, Serves(c), Listed(c) \/ c \in MultiTargets
    PROVE  InOrder(sockets[c], binders[Root(c)])
<1>1. Root(c) \in Multi /\ outer[Root(c)] = NoSocket /\ (Root(c) \in MultiInits <=> c \in MultiInits)
  BY RootFacts DEF SocketsInv
<1>2. CASE c \in MultiInits
  <2>1. Listed(c)
    BY <1>2, SocketsAssumption
  <2>2. sockets[c] = sockets[Root(c)]
    BY <1>2 DEF SocketsInv, ListsInv, InitsInv
  <2>3. Lists(sockets[Root(c)], binders[Root(c)])
    BY <1>1, <1>2 DEF SocketsInv, ListsInv, InitsInv, OwnList
  <2> QED  BY <2>1, <2>2, <2>3 DEF Lists, InOrder, Listed
<1>3. CASE c \notin MultiInits
  <2>1. c \in MultiTargets /\ Root(c) \in MultiTargets
    BY <1>1, <1>3 DEF Multi
  <2>2. sockets[c] = port[Root(c)]
    BY <2>1 DEF SocketsInv, ListsInv, TargetsInv
  <2> QED  BY <2>1, <2>2 DEF SocketsInv, ListsInv, PortsInv
<1> QED  BY <1>2, <1>3

\* The callback that has run is one of a multi socket.
LEMMA CallIsTyped ==
    ASSUME TypeOK, call # NoCall
    PROVE  /\ call.kind \in Kinds /\ call.from \in Sockets /\ call.id \in Nat
           /\ call.cb \in Callback /\ call.cb.socket \in Multi
BY DEF TypeOK, Callback

\* The identifier of a call is the caller's place in the list that operator[] uses.
LEMMA CallsAnswerBack == SocketsInv => AnswersGoBack
<1> SUFFICES ASSUME SocketsInv, call # NoCall, Listed(call.cb.socket)
             PROVE  /\ call.id + 1 <= Len(sockets[call.cb.socket])
                    /\ sockets[call.cb.socket][call.id + 1].socket = Face(call.from)
  BY DEF AnswersGoBack
<1> DEFINE c == call.cb.socket
<1>1. c \in Multi /\ call.id \in Nat
  BY CallIsTyped DEF SocketsInv
<1>2. /\ Serves(c) /\ call.id + 1 \in 1 .. Len(binders[Root(c)])
      /\ binders[Root(c)][call.id + 1].peer = Face(call.from)
  BY DEF SocketsInv, CallInv
<1> HIDE DEF c
<1>3. InOrder(sockets[c], binders[Root(c)])
  <2>1. Listed(c)
    BY DEF c
  <2> QED  BY <1>1, <1>2, <2>1, ListOfModule
<1>4. Len(sockets[c]) \in Nat
  BY <1>1 DEF SocketsInv, TypeOK
<1>5. call.id + 1 <= Len(sockets[c]) /\ sockets[c][call.id + 1].socket = Face(call.from)
  BY <1>1, <1>2, <1>3, <1>4 DEF InOrder
<1> QED  BY <1>5 DEF c

\* Once the simulation runs, every binder has the callbacks of the inner end.
LEMMA EveryPeerServed == SocketsInv => ServesEveryPeer
<1> SUFFICES ASSUME SocketsInv, stage = "running",
                    NEW s \in Multi, NEW k \in Kinds, ~joined[s],
                    NEW n \in 1 .. Len(binders[Root(s)])
             PROVE  binders[Root(s)][n].cb[k] = EarlyOf(s, k)
  BY DEF ServesEveryPeer, EarlyOf
<1>1. CASE s \in present
  <2>1. Serves(s)
    BY <1>1 DEF SocketsInv, StageInv, Serves
  <2> QED  BY <2>1 DEF SocketsInv, ServedInv
<1>2. CASE s \notin present
  <2>1. outer[s] = NoSocket /\ Root(s) = s
    BY <1>2, RootFacts DEF SocketsInv, JoinsInv
  <2>2. binders[s] = <<>>
    BY <1>2 DEF SocketsInv, ListsInv, BindersInv
  <2> QED  BY <2>1, <2>2
<1> QED  BY <1>1, <1>2

\* Multi sockets alone: every reachable state satisfies the invariant.
THEOREM MultiSocketsInvariant == Spec => []SocketsInv
<1> QED  BY InitInv, NextKeepsInv, PTL DEF Spec

\* Multi sockets alone: the variables have their types.
THEOREM MultiSocketsTyped == Spec => []TypeOK
<1>1. SocketsInv => TypeOK
  BY DEF SocketsInv
<1> QED  BY <1>1, MultiSocketsInvariant, PTL

\* Multi sockets alone: the identifier of a call leads back to the caller.
THEOREM IdentifiersAnswerBack == Spec => []AnswersGoBack
BY CallsAnswerBack, MultiSocketsInvariant, PTL

\* Multi sockets alone: a callback registered before its socket hands them out
\* (before_end_of_elaboration) serves every peer of the chain, one registered
\* later, during elaboration or after, serves none.
THEOREM CallbacksServeEveryPeer == Spec => []ServesEveryPeer
BY EveryPeerServed, MultiSocketsInvariant, PTL

\* With a router among them, every reachable state satisfies the invariant.
THEOREM RoutedSocketsInvariant == RoutedSpec => []SocketsInv
<1> QED  BY RoutedInitInv, RoutedNextKeepsInv, PTL DEF RoutedSpec

\* With a router: the identifier of a call leads back to the caller.
THEOREM RoutedIdentifiersAnswerBack == RoutedSpec => []AnswersGoBack
BY CallsAnswerBack, RoutedSocketsInvariant, PTL

\* With a router: a callback registered before its socket hands them out serves
\* every peer of the chain, one registered later serves none.
THEOREM RoutedCallbacksServeEveryPeer == RoutedSpec => []ServesEveryPeer
BY EveryPeerServed, RoutedSocketsInvariant, PTL
-----------------------------------------------------------------------------
(***************************************************************************)
(* The router between the sockets: its outputs are the list of its output  *)
(* socket, and its table leads from a place in that list to a place in the *)
(* list of its input socket.                                               *)
(***************************************************************************)
OutputSockets == {sockets[OutputSocket][n].socket : n \in 1 .. Len(sockets[OutputSocket])}

\* Before the simulation the router has done nothing.
QuietInv ==
    stage \in {"building", "elaborating"} =>
        outputs = {} /\ ~waiting /\ latest = <<>> /\ reached = {} /\ ~exited

\* mOutputSocketMap leads to the sockets of the output socket's list.
OutputsInv ==
    outputs # {} =>
        /\ HasRouter /\ elaborated = Multi \cap present
        /\ outputs = OutputSockets /\ outputs \subseteq Located

\* The call that waits is in a callback of the router.
WaitingInv ==
    waiting => /\ HasRouter
               /\ call \in [kind : Kinds, from : Sockets, id : Nat, cb : Callback]
               /\ call.cb.socket \in {InputSocket, OutputSocket}

\* A place in a list, counted from 0.
Places(s) == {p \in Nat : p + 1 <= Len(sockets[s])}

\* The table leads from a place among the outputs to one among the initiators.
LatestInv ==
    /\ DOMAIN latest \subseteq Places(OutputSocket)
    /\ \A n \in DOMAIN latest : latest[n] \in Places(InputSocket)

\* The types of the router's flags.
RouterTypeOK == waiting \in BOOLEAN /\ exited \in BOOLEAN /\ reached \subseteq Sockets

\* The router's part of the invariant.
RouterInv == RouterTypeOK /\ QuietInv /\ OutputsInv /\ WaitingInv /\ LatestInv

\* The members of the router are multi sockets of either kind.
LEMMA RouterMembers ==
    /\ InputSocket \in Multi /\ InputSocket \notin MultiInits
    /\ OutputSocket \in Multi /\ OutputSocket \notin MultiTargets
    /\ InputSocket # OutputSocket
BY RouterAssumption, SocketsAssumption DEF Multi

\* The router's members initially.
LEMMA RoutedInitHasInv == RoutedInit => RouterInv
<1> HAVE RoutedInit
<1>1. DOMAIN latest = {}
  BY DEF RoutedInit
<1> QED  BY <1>1 DEF RoutedInit, RouterInv, RouterTypeOK, QuietInv, OutputsInv, WaitingInv, LatestInv

\* Steps before the simulation that leave the router alone.
LEMMA QuietSteps ==
    ASSUME RouterInv, stage \in {"building", "elaborating"}, UNCHANGED routerVars
    PROVE  RouterInv'
<1>1. outputs = {} /\ ~waiting /\ latest = <<>> /\ reached = {} /\ ~exited
  BY DEF RouterInv, QuietInv
<1>2. DOMAIN latest' = {} /\ latest' = latest
  BY <1>1 DEF routerVars
<1>3. LatestInv'
  BY <1>2 DEF LatestInv
<1> QED  BY <1>1, <1>3 DEF routerVars, RouterInv, RouterTypeOK, QuietInv, OutputsInv, WaitingInv

\* Steps that leave the router and the sockets alone, or end the simulation.
LEMMA IdleSteps ==
    ASSUME RouterInv, UNCHANGED <<structVars, elaborated, call, routerVars>>,
           stage' = stage \/ stage' = "aborted"
    PROVE  RouterInv'
<1>1. RouterTypeOK' /\ QuietInv'
  BY DEF RouterInv, RouterTypeOK, QuietInv, routerVars
<1>2. OutputsInv'
  BY DEF RouterInv, OutputsInv, OutputSockets, HasRouter, structVars, platformVars, routerVars
<1>3. WaitingInv'
  BY DEF RouterInv, WaitingInv, HasRouter, structVars, platformVars, routerVars
<1>4. LatestInv'
  BY DEF RouterInv, LatestInv, Places, structVars, routerVars
<1> QED  BY <1>1, <1>2, <1>3, <1>4 DEF RouterInv

\* end_of_elaboration() of the router.
LEMMA ElaboratedRouter ==
    ASSUME SocketsInv, RouterInv, EndElaborationOfRouter
    PROVE  RouterInv'
<1>1. /\ HasRouter /\ Elaborated /\ stage = "elaborating"
      /\ UNCHANGED <<structVars, elaborated, call, latest, waiting, reached, exited>>
      /\ stage' \in {"running", "aborted"}
      /\ \/ outputs' = outputs
         \/ outputs' = OutputSockets /\ CanRoute
  BY DEF EndElaborationOfRouter, EndElaboration, Abort, Elaborated, OutputSockets
<1>2. outputs = {} /\ ~waiting /\ latest = <<>> /\ reached = {} /\ ~exited
  BY <1>1 DEF RouterInv, QuietInv
<1>3. OutputsInv'
  <2>1. OutputSockets' = OutputSockets /\ HasRouter' /\ elaborated' = Multi \cap present'
    BY <1>1 DEF OutputSockets, HasRouter, structVars, platformVars, Elaborated
  <2>2. CanRoute => OutputSockets \subseteq Located
    BY DEF CanRoute, OutputSockets
  <2> QED  BY <1>1, <1>2, <2>1, <2>2 DEF OutputsInv
<1>4. RouterTypeOK' /\ QuietInv' /\ WaitingInv'
  BY <1>1, <1>2 DEF RouterInv, RouterTypeOK, QuietInv, WaitingInv
<1>5. LatestInv'
  <2>1. latest' = latest /\ DOMAIN latest' = {}
    BY <1>1, <1>2
  <2> QED  BY <2>1 DEF LatestInv
<1> QED  BY <1>3, <1>4, <1>5 DEF RouterInv

\* A call that arrives.
LEMMA RunChanges ==
    ASSUME SocketsInv, NEW callers, Run(callers)
    PROVE  /\ stage = "running"
           /\ UNCHANGED <<structVars, registered, elaborated, handed>>
           /\ \/ stage' = "aborted" /\ call' = call
              \/ stage' = "running"
                 /\ call' \in [kind : Kinds, from : Sockets, id : Nat, cb : Callback]
<1>1. Abort => stage' = "aborted" /\ UNCHANGED <<structVars, registered, elaborated, handed, call>>
  BY DEF Abort
<1>2. \A s \in Multi, n \in Nat, k \in Kinds, from \in Sockets : Delivers(s, n, k, from) =>
        \/ Abort
        \/ /\ call' \in [kind : Kinds, from : Sockets, id : Nat, cb : Callback]
           /\ UNCHANGED <<stage, structVars, registered, elaborated, handed>>
  BY DeliverCalls
<1> QED  BY <1>1, <1>2, RunDelivers

\* A call is left waiting only at a callback of the router.
LEMMA CallKeepsRouterInv ==
    ASSUME SocketsInv, RouterInv, Call
    PROVE  RouterInv'
<1>1. /\ ~waiting
      /\ Run(Multi \ RouterSockets)
      /\ waiting' = (stage' = "running" /\ call'.cb.socket \in RouterSockets)
      /\ UNCHANGED <<outputs, latest, reached, exited>>
  BY DEF Call
<1>2. /\ stage = "running"
      /\ UNCHANGED <<structVars, registered, elaborated, handed>>
      /\ \/ stage' = "aborted" /\ call' = call
         \/ stage' = "running"
            /\ call' \in [kind : Kinds, from : Sockets, id : Nat, cb : Callback]
  BY <1>1, RunChanges
<1>3. RouterTypeOK' /\ QuietInv'
  BY <1>1, <1>2 DEF RouterInv, RouterTypeOK, QuietInv
<1>4. OutputsInv'
  BY <1>1, <1>2 DEF RouterInv, OutputsInv, OutputSockets, HasRouter, structVars, platformVars
<1>5. WaitingInv'
  <2>1. HasRouter' = HasRouter
    BY <1>2 DEF HasRouter, structVars, platformVars
  <2> QED  BY <1>1, <1>2, <2>1 DEF WaitingInv, RouterSockets
<1>6. LatestInv'
  BY <1>1, <1>2 DEF RouterInv, LatestInv, Places, structVars
<1> QED  BY <1>3, <1>4, <1>5, <1>6 DEF RouterInv

\* The list of the output socket has every output once, in one place.
LEMMA OutputsListedOnce ==
    ASSUME SocketsInv
    PROVE  \A n, m \in 1 .. Len(sockets[OutputSocket]) :
             sockets[OutputSocket][n].socket = sockets[OutputSocket][m].socket => n = m
<1> DEFINE o == OutputSocket
<1>1. o \in MultiInits /\ o \in Multi /\ Root(o) \in MultiInits /\ outer[Root(o)] = NoSocket
  BY RouterAssumption, RootFacts DEF SocketsInv, Multi
<1> HIDE DEF o
<1>2. Lists(sockets[o], binders[o]) \/ Lists(sockets[o], binders[Root(o)])
  BY <1>1 DEF SocketsInv, ListsInv, InitsInv, OwnList
<1>3. \A n, m \in 1 .. Len(sockets[o]) : sockets[o][n].socket = sockets[o][m].socket => n = m
  BY <1>2 DEF Lists
<1> QED  BY <1>3 DEF o

\* The number of an output is its place in the list, counted from 0.
LEMMA NumberOfListed ==
    ASSUME SocketsInv, NEW n \in 1 .. Len(sockets[OutputSocket]),
           NEW t, t = sockets[OutputSocket][n].socket
    PROVE  NumberOf(t) = n - 1
<1>1. Positions(t) = {n}
  BY OutputsListedOnce DEF Positions
<1>2. n \in Nat
  BY RouterMembers DEF SocketsInv, TypeOK
<1>3. (CHOOSE m \in {n} : \A l \in {n} : m <= l) = n
  <2>1. \E m \in {n} : \A l \in {n} : m <= l
    BY <1>2
  <2> QED  BY <2>1
<1> QED  BY <1>1, <1>3 DEF NumberOf

\* A forward call is in the callbacks of the input socket: its identifier is the
\* place of an initiator that is an ordinary socket.
LEMMA WaitingForward ==
    ASSUME SocketsInv, RouterInv, waiting, call.kind \in FwKinds
    PROVE  /\ Serves(InputSocket) /\ InOrder(sockets[InputSocket], binders[Root(InputSocket)])
           /\ call.id \in Places(InputSocket)
           /\ call.id + 1 \in 1 .. Len(sockets[InputSocket])
           /\ sockets[InputSocket][call.id + 1].socket = call.from
<1> DEFINE c == call.cb.socket
<1>1. /\ call \in [kind : Kinds, from : Sockets, id : Nat, cb : Callback]
      /\ c \in {InputSocket, OutputSocket} /\ call # NoCall
  BY CallbackAssumption DEF RouterInv, WaitingInv
<1>2. /\ Serves(c) /\ call.id + 1 \in 1 .. Len(binders[Root(c)])
      /\ binders[Root(c)][call.id + 1].peer = Face(call.from)
      /\ call.kind \in KindsOf(c)
      /\ call.from \in Single \/ (call.from \in MultiTargets /\ c \in MultiInits)
  BY <1>1 DEF SocketsInv, CallInv
<1> HIDE DEF c
<1>3. c = InputSocket
  BY <1>1, <1>2, RouterAssumption DEF KindsOf, FwKinds, BwKinds
<1>4. Face(call.from) = call.from
  BY <1>2, <1>3, RouterMembers, SocketsAssumption DEF Face
<1>5. InOrder(sockets[InputSocket], binders[Root(InputSocket)])
  BY <1>2, <1>3, RouterMembers, RouterAssumption, ListOfModule
<1>6. call.id \in Nat /\ Len(sockets[InputSocket]) \in Nat
  BY <1>1, RouterMembers DEF SocketsInv, TypeOK
<1> QED  BY <1>2, <1>3, <1>4, <1>5, <1>6 DEF InOrder, Places

\* A backward call is in the callbacks of the output socket.
LEMMA WaitingBackward ==
    ASSUME SocketsInv, RouterInv, waiting, call.kind \in BwKinds
    PROVE  call.cb.socket = OutputSocket /\ Serves(OutputSocket)
<1>1. call.cb.socket \in {InputSocket, OutputSocket} /\ call # NoCall
  BY CallbackAssumption DEF RouterInv, WaitingInv
<1>2. Serves(call.cb.socket) /\ call.kind \in KindsOf(call.cb.socket)
  BY <1>1 DEF SocketsInv, CallInv
<1> QED  BY <1>1, <1>2, RouterMembers DEF KindsOf, FwKinds, BwKinds

\* The handlers of the router.
LEMMA HandlersKeepTypes ==
    ASSUME RouterInv, stage = "running", NEW s \in SUBSET Sockets,
           \/ HandlerReturns(s)
           \/ HandlerExits
    PROVE  RouterTypeOK' /\ QuietInv' /\ OutputsInv' /\ WaitingInv'
<1>1. UNCHANGED <<structVars, elaborated, outputs>> /\ waiting' = FALSE
      /\ stage' \in {"running", "aborted"}
  BY DEF HandlerReturns, HandlerExits, Abort, vars
<1>2. RouterTypeOK'
  BY DEF HandlerReturns, HandlerExits, RouterInv, RouterTypeOK
<1>3. OutputsInv'
  BY <1>1 DEF RouterInv, OutputsInv, OutputSockets, HasRouter, structVars, platformVars
<1> QED  BY <1>1, <1>2, <1>3 DEF WaitingInv, QuietInv

\* The handlers keep the router's part of the invariant.
LEMMA HandlerKeepsRouterInv ==
    ASSUME SocketsInv, RouterInv, Handler
    PROVE  RouterInv'
<1>1. \A s \in Multi : sockets[s] \in Seq(Interface) /\ Len(sockets[s]) \in Nat
                       /\ \A n \in 1 .. Len(sockets[s]) : sockets[s][n].socket \in Sockets
  <2> TAKE s \in Multi
  <2>1. sockets[s] \in Seq(Interface)
    BY DEF SocketsInv, TypeOK
  <2>2. \A n \in 1 .. Len(sockets[s]) : sockets[s][n] \in Interface
    BY <2>1, ElementOfSeq
  <2> QED  BY <2>1, <2>2 DEF Interface
<1>2. ASSUME NEW s \in SUBSET Sockets, stage = "running", HandlerReturns(s), UNCHANGED latest
      PROVE  RouterInv'
  <2>1. LatestInv'
    BY <1>2 DEF RouterInv, LatestInv, Places, HandlerReturns, vars, structVars
  <2> QED  BY <1>2, <2>1, HandlersKeepTypes DEF RouterInv
<1>3. ASSUME stage = "running", HandlerExits
      PROVE  RouterInv'
  <2>1. LatestInv'
    BY <1>3 DEF RouterInv, LatestInv, Places, HandlerExits, Abort, structVars
  <2>2. RouterTypeOK' /\ QuietInv' /\ OutputsInv' /\ WaitingInv'
    BY <1>3, HandlersKeepTypes
  <2> QED  BY <2>1, <2>2 DEF RouterInv
<1>4. ASSUME PeerExits
      PROVE  RouterInv'
  <2>1. UNCHANGED <<structVars, elaborated, call, routerVars>> /\ stage' = "aborted"
    BY <1>4 DEF PeerExits, Abort
  <2> QED  BY <2>1, IdleSteps
<1>5. ASSUME NEW t \in Targets, RouteForward(t)
      PROVE  RouterInv'
  <2>1. stage = "running" /\ waiting /\ call.kind \in FwKinds /\ t \in outputs
    BY <1>5 DEF RouteForward, InHandler
  <2>2. {t} \in SUBSET Sockets
    BY DEF Sockets, Single
  <2>3. CASE HandlerReturns({t}) /\ UNCHANGED latest
    BY <1>2, <2>1, <2>2, <2>3
  <2>4. CASE HandlerExits
    BY <1>3, <2>1, <2>4
  <2>5. CASE HandlerReturns({t}) /\ Remember(t)
    <3>1. PICK n \in 1 .. Len(sockets[OutputSocket]) : sockets[OutputSocket][n].socket = t
      BY <2>1 DEF RouterInv, OutputsInv, OutputSockets
    <3>2. NumberOf(t) = n - 1 /\ n - 1 \in Places(OutputSocket)
      BY <1>1, <3>1, NumberOfListed, RouterMembers DEF Places
    <3>3. call.id \in Places(InputSocket)
      BY <2>1, WaitingForward
    <3>4. /\ DOMAIN latest' = {n - 1} \cup DOMAIN latest
          /\ \A m \in DOMAIN latest' : latest'[m] \in {call.id} \cup {latest[l] : l \in DOMAIN latest \cap {m}}
      BY <2>5, <3>2 DEF Remember
    <3>5. Places(InputSocket)' = Places(InputSocket) /\ Places(OutputSocket)' = Places(OutputSocket)
      BY <2>5 DEF HandlerReturns, vars, structVars, Places
    <3>6. LatestInv'
      BY <3>2, <3>3, <3>4, <3>5 DEF RouterInv, LatestInv
    <3> QED  BY <2>1, <2>2, <2>5, <3>6, HandlersKeepTypes DEF RouterInv
  <2> QED  BY <1>5, <2>3, <2>4, <2>5 DEF RouteForward
<1>6. ASSUME RouteNowhere
      PROVE  RouterInv'
  BY <1>2, <1>6 DEF RouteNowhere, InHandler
<1>7. ASSUME RouteNBTransportBw
      PROVE  RouterInv'
  <2> DEFINE to == sockets[InputSocket][latest[call.id] + 1]
  <2>1. stage = "running"
    BY <1>7 DEF RouteNBTransportBw, InHandler
  <2>2. CASE HandlerExits
    BY <1>3, <2>1, <2>2
  <2>3. CASE call.id \in DOMAIN latest /\ HandlerReturns({to.socket}) /\ UNCHANGED latest
    <3>1. latest[call.id] \in Nat /\ latest[call.id] + 1 <= Len(sockets[InputSocket])
      BY <2>3 DEF RouterInv, LatestInv, Places
    <3>2. latest[call.id] + 1 \in 1 .. Len(sockets[InputSocket])
      BY <1>1, <3>1, RouterMembers
    <3>3. {to.socket} \in SUBSET Sockets
      BY <1>1, <3>2, RouterMembers
    <3> HIDE DEF to
    <3> QED  BY <1>2, <2>1, <2>3, <3>3
  <2>4. CASE PeerExits
    BY <1>4, <2>4
  <2> QED  BY <1>7, <2>2, <2>3, <2>4 DEF RouteNBTransportBw
<1>8. ASSUME RouteInvalidate
      PROVE  RouterInv'
  <2> DEFINE all == {sockets[InputSocket][n] : n \in 1 .. Len(sockets[InputSocket])}
             s == {to.socket : to \in all}
  <2>1. stage = "running"
        /\ \/ HandlerReturns(s) /\ UNCHANGED latest
           \/ PeerExits
    BY <1>8 DEF RouteInvalidate, InHandler
  <2>2. s \in SUBSET Sockets
    BY <1>1, RouterMembers
  <2> HIDE DEF s
  <2> QED  BY <1>2, <1>4, <2>1, <2>2
<1> QED  BY <1>5, <1>6, <1>7, <1>8 DEF Handler

\* The steps of the sockets while the platform is built and elaborated.
LEMMA PrologueStages ==
    /\ Build \/ AskId \/ EndElaboration => stage \in {"building", "elaborating"}
    /\ \A s \in Multi : BeforeEndOfElaboration(s) => stage \in {"building", "elaborating"}
<1>1. \A i, t : Bind(i, t) \/ BindFromTarget(t, i) \/ BindWithId(i, t) => stage = "building"
  BY DEF Bind, BindFromTarget, BindWithId, BindTo
<1>2. \A s, u : JoinInitiators(s, u) \/ JoinTargets(s, u) => stage = "building"
  BY DEF JoinInitiators, JoinTargets
<1>3. JoinMono \/ EndBuilding => stage = "building"
  BY DEF JoinMono, EndBuilding
<1> QED  BY <1>1, <1>2, <1>3 DEF Build, AskId, EndElaboration, Elaborated, BeforeEndOfElaboration

\* Every step keeps the router's part of the invariant.
LEMMA RoutedNextKeepsRouterInv ==
    ASSUME SocketsInv, RouterInv, [RoutedNext]_allVars
    PROVE  RouterInv'
<1>1. CASE UNCHANGED routerVars
           /\ (Build \/ AskId \/ EndElaboration \/ \E s \in Multi : BeforeEndOfElaboration(s))
  BY <1>1, PrologueStages, QuietSteps
<1>2. CASE EndElaborationOfRouter
  BY <1>2, ElaboratedRouter
<1>3. CASE Registering /\ UNCHANGED routerVars
  <2>1. UNCHANGED <<structVars, elaborated, call, routerVars, stage>>
    BY <1>3 DEF Registering, Register, RegisterAgain, vars
  <2> QED  BY <2>1, IdleSteps
<1>4. CASE Call
  BY <1>4, CallKeepsRouterInv
<1>5. CASE Handler
  BY <1>5, HandlerKeepsRouterInv
<1>6. CASE UNCHANGED allVars
  <2>1. UNCHANGED <<structVars, elaborated, call, routerVars, stage>>
    BY <1>6 DEF allVars, vars
  <2> QED  BY <2>1, IdleSteps
<1> QED  BY <1>1, <1>2, <1>3, <1>4, <1>5, <1>6 DEF RoutedNext

\* The invariant gives the types.
LEMMA RoutedTypes == SocketsInv /\ RouterInv => RoutedTypeOK
<1> HAVE SocketsInv /\ RouterInv
<1>1. \A s \in Multi : Len(sockets[s]) \in Nat
  BY DEF SocketsInv, TypeOK
<1>2. \A s \in Multi : Places(s) = 0 .. Len(sockets[s]) - 1
  BY <1>1 DEF Places
<1>3. outputs \subseteq Located
  BY DEF RouterInv, OutputsInv
<1> QED  BY <1>2, <1>3, RouterMembers
         DEF RoutedTypeOK, Number, RouterInv, RouterTypeOK, LatestInv, SocketsInv, Sockets

\* A router between multi sockets: the table of the router always leads from the
\* number of an output to the number of an initiator, and the outputs are located.
THEOREM RoutedSocketsTyped == RoutedSpec => []RoutedTypeOK
<1>1. RoutedInit => SocketsInv /\ RouterInv
  BY RoutedInitInv, RoutedInitHasInv
<1>2. SocketsInv /\ RouterInv /\ [RoutedNext]_allVars => (SocketsInv /\ RouterInv)'
  BY RoutedNextKeepsInv, RoutedNextKeepsRouterInv
<1> QED  BY <1>1, <1>2, RoutedTypes, PTL DEF RoutedSpec
-----------------------------------------------------------------------------
(***************************************************************************)
(* The router implements the table of names: every step of the sockets and *)
(* of the router is a step of ExchangeTable or changes nothing in it.      *)
(***************************************************************************)

\* Nothing changes for the table.
TableUnchanged == UNCHANGED <<TablePeers, TableActive, TableCaller>>
                  /\ (IF Routing THEN reached ELSE {})' = (IF Routing THEN reached ELSE {})
                  /\ (Routing /\ exited)' = (Routing /\ exited)

\* A step that changes nothing the table speaks of.
LEMMA TableStutters == TableUnchanged => [Table!Next]_(Table!vars)
BY DEF TableUnchanged, Table!vars

\* A router that does not route is nothing to the table.
LEMMA NotRouting ==
    ASSUME ~Routing
    PROVE  /\ TablePeers = {} /\ TableActive = NoCall
           /\ TableCaller = [t \in Targets |-> NoSocket]
           /\ (IF Routing THEN reached ELSE {}) = {}
           /\ (Routing /\ exited) = FALSE
BY DEF TablePeers, TableActive, TableCaller

\* The table is empty until the simulation runs.
LEMMA NotRoutingBefore ==
    ASSUME SocketsInv, RouterInv, stage \in {"building", "elaborating"}
    PROVE  ~Routing
BY DEF RouterInv, QuietInv, Routing

\* The initial states are initial states of the table.
LEMMA TableInit == RoutedInit => Table!Init
<1> HAVE RoutedInit
<1>1. ~Routing
  BY DEF RoutedInit, Routing
<1> QED  BY <1>1, NotRouting DEF Table!Init

\* Around a router that does not route, every step is a stutter of the table.
LEMMA NeverRouting ==
    ASSUME ~Routing, ~Routing'
    PROVE  [Table!Next]_(Table!vars)
<1>1. /\ TablePeers' = {} /\ TableActive' = NoCall
      /\ TableCaller' = [t \in Targets |-> NoSocket]
  BY DEF TablePeers, TableActive, TableCaller
<1>2. TableUnchanged
  BY <1>1, NotRouting DEF TableUnchanged
<1> QED  BY <1>2, TableStutters

\* What the table depends on.
LEMMA TableDependsOn ==
    ASSUME UNCHANGED <<structVars, outputs>>
    PROVE  /\ Routing' = Routing
           /\ \A t : NumberOf(t)' = NumberOf(t)
           /\ TablePeers' = TablePeers
           /\ UNCHANGED latest => TableCaller' = TableCaller
           /\ waiting' = FALSE => TableActive' = NoCall
           /\ UNCHANGED <<call, waiting>> => TableActive' = TableActive
<1>1. Routing' = Routing
  BY RootUnchanged DEF Routing, Regular, HasRouter, Listed, structVars, platformVars
<1>2. \A t : NumberOf(t)' = NumberOf(t)
  <2> TAKE t
  <2>1. Positions(t)' = Positions(t)
    BY DEF Positions, structVars
  <2> QED  BY <2>1 DEF NumberOf
<1>3. TablePeers' = TablePeers
  <2>1. binders' = binders /\ Root(InputSocket)' = Root(InputSocket)
    BY RootUnchanged DEF structVars
  <2> QED  BY <1>1, <2>1 DEF TablePeers
<1>4. UNCHANGED latest => TableCaller' = TableCaller
  BY <1>1, <1>2 DEF TableCaller, structVars
<1> QED  BY <1>1, <1>2, <1>3, <1>4 DEF TableActive

\* Steps in which the router does nothing: callbacks are registered, a module exits.
LEMMA IdleStepsOfTable ==
    ASSUME UNCHANGED <<structVars, call, routerVars>>
    PROVE  [Table!Next]_(Table!vars)
<1>1. UNCHANGED <<structVars, outputs>> /\ UNCHANGED <<call, waiting>>
      /\ UNCHANGED latest /\ UNCHANGED <<reached, exited>>
  BY DEF routerVars
<1>2. TableUnchanged
  BY <1>1, TableDependsOn DEF TableUnchanged
<1> QED  BY <1>2, TableStutters

\* end_of_elaboration() starts the table, with the peers of the input socket.
LEMMA StartOfTable ==
    ASSUME SocketsInv, RouterInv, EndElaborationOfRouter
    PROVE  [Table!Next]_(Table!vars)
<1>1. stage = "elaborating"
  BY DEF EndElaborationOfRouter, Elaborated
<1>2. ~Routing
  BY <1>1, NotRoutingBefore
<1>3. CASE ~Routing'
  BY <1>2, <1>3, NeverRouting
<1>4. CASE Routing'
  <2>1. UNCHANGED <<structVars, latest, waiting, reached, exited>>
    BY DEF EndElaborationOfRouter, EndElaboration, Abort
  <2>2. ~waiting /\ latest = <<>> /\ reached = {} /\ ~exited
    BY <1>1 DEF RouterInv, QuietInv
  <2>3. TablePeers' \in SUBSET (Inits \cup MultiInits)
    <3>1. binders' = binders /\ Root(InputSocket)' = Root(InputSocket)
      BY <2>1, RootUnchanged DEF structVars
    <3>2. Root(InputSocket) \in Multi /\ Root(InputSocket) \notin MultiInits
      BY RouterMembers, RootFacts DEF SocketsInv
    <3>3. \A n \in 1 .. Len(binders[Root(InputSocket)]) :
            binders[Root(InputSocket)][n].peer \in MultiInits \cup Inits
      BY <3>2 DEF SocketsInv, ListsInv, BindersInv, PeersOf
    <3> QED  BY <3>1, <3>3 DEF TablePeers
  <2>4. TableActive' = NoCall
    BY <2>1, <2>2 DEF TableActive
  <2>5. TableCaller' = [t \in Targets |-> NoSocket]
    <3>1. DOMAIN latest' = {}
      BY <2>1, <2>2
    <3> QED  BY <3>1 DEF TableCaller
  <2>6. Table!Start
    BY <1>2, <2>1, <2>2, <2>3, <2>4, <2>5, NotRouting DEF Table!Start
  <2> QED  BY <2>6 DEF Table!Next
<1> QED  BY <1>3, <1>4

\* Who calls an output's callback is the output.
LEMMA BackwardCaller ==
    ASSUME SocketsInv, RouterInv, Routing, waiting, call.kind \in BwKinds
    PROVE  /\ call.from \in outputs /\ call.from \in Targets
           /\ \A t : t = call.from => NumberOf(t) = call.id
<1>1. call.cb.socket = OutputSocket /\ call # NoCall
  BY CallbackAssumption, WaitingBackward DEF RouterInv, WaitingInv
<1>2. call.id \in Nat /\ call.from \in Sockets
  BY <1>1, CallIsTyped DEF SocketsInv
<1>3. /\ call.id + 1 <= Len(sockets[OutputSocket])
      /\ sockets[OutputSocket][call.id + 1].socket = Face(call.from)
  BY <1>1, CallsAnswerBack DEF AnswersGoBack, Routing, Regular
<1>4. call.id + 1 \in 1 .. Len(sockets[OutputSocket])
  <2>1. Len(sockets[OutputSocket]) \in Nat
    BY RouterMembers DEF SocketsInv, TypeOK
  <2> QED  BY <1>2, <1>3, <2>1
<1>5. Face(call.from) \in outputs /\ outputs \subseteq Targets
  BY <1>3, <1>4, RouterAssumption DEF RouterInv, OutputsInv, OutputSockets, Routing
<1>6. Face(call.from) = call.from
  <2>1. CASE call.from \in Multi
    BY <1>5, <2>1, RootFacts, SocketsAssumption DEF Face, SocketsInv, Single
  <2> QED  BY <2>1 DEF Face
<1>7. ASSUME NEW t, t = call.from
      PROVE  NumberOf(t) = call.id
  <2>1. PICK n \in 1 .. Len(sockets[OutputSocket]) :
          n = call.id + 1 /\ t = sockets[OutputSocket][n].socket
    BY <1>3, <1>4, <1>6, <1>7
  <2>2. NumberOf(t) = n - 1
    BY <2>1, NumberOfListed
  <2> QED  BY <1>2, <2>1, <2>2
<1> QED  BY <1>2, <1>5, <1>6, <1>7

\* The peers of the router are the sockets in the list of its input socket, also
\* when the router's own socket is an outer one, and another module has its calls.
LEMMA NoSelfJoin ==
    ASSUME ChainsInv, NEW s \in Multi, outer[s] = s, NoSocket \notin Multi
    PROVE  FALSE
<1>1. PICK f : LeadsToEnds(f, {s}) /\ Ends(f, {s})
  BY DEF ChainsInv
<1>2. f[s] = s
  BY <1>1 DEF LeadsToEnds
<1>3. \A u \in Multi : (IF outer[u] = NoSocket \/ u \in {s} THEN u ELSE f[outer[u]])
                       = IF outer[u] = NoSocket \/ u \in {} THEN u ELSE f[outer[u]]
  BY <1>2
<1>4. LeadsToEnds(f, {})
  BY <1>1, <1>3 DEF LeadsToEnds
<1>5. PICK g : LeadsToEnds(g, {}) /\ Ends(g, {})
  BY DEF ChainsInv
<1>6. f = g
  BY <1>4, <1>5 DEF ChainsInv
<1>7. outer[f[s]] = NoSocket
  BY <1>5, <1>6 DEF Ends
<1> QED  BY <1>2, <1>7

\* Once elaborated, a multi target of the platform lists the peers of its chain.
LEMMA ListOfTarget ==
    ASSUME SocketsInv, NEW t \in MultiTargets, t \in present, elaborated = Multi \cap present
    PROVE  InOrder(sockets[t], binders[Root(t)])
<1>1. t \in Multi /\ NoSocket \notin Multi /\ t \notin MultiInits
  BY SocketsAssumption DEF Multi, Sockets
<1>2. Root(t) \in MultiTargets
  BY <1>1, RootFacts DEF SocketsInv, Multi
<1>3. sockets[t] = port[Root(t)]
  <2>1. CASE ~joined[t]
    <3>1. Serves(t)
      BY <1>1, <2>1 DEF Serves
    <3> QED  BY <3>1 DEF SocketsInv, ListsInv, TargetsInv
  <2>2. CASE joined[t]
    <3>1. PICK s \in MultiTargets : ~joined[s] /\ outer[s] = t
      BY <2>2 DEF SocketsInv, JoinsInv
    <3>2. s \in Multi /\ s \in present /\ outer[s] # NoSocket
      BY <1>1, <3>1 DEF SocketsInv, JoinsInv, Multi
    <3>3. Serves(s) /\ Root(s) = Root(t)
      BY <1>1, <3>1, <3>2, RootFacts DEF SocketsInv, Serves
    <3>4. outer[t] = NoSocket
      <4> SUFFICES ASSUME outer[t] # NoSocket PROVE FALSE
        OBVIOUS
      <4>1. outer[t] \in Multi /\ joined[outer[t]] /\ outer[t] \notin MultiInits
        BY <1>1, TypeOKHasShape DEF SocketsInv, JoinsInv, ShapeOK
      <4>2. PICK u \in MultiTargets : ~joined[u] /\ outer[u] = outer[t]
        BY <4>1 DEF SocketsInv, JoinsInv, Multi
      <4>3. u \in Multi /\ Root(u) = Root(outer[t]) /\ Root(t) = Root(outer[t])
        BY <1>1, <4>1, <4>2, RootFacts DEF SocketsInv, Multi
      <4>4. u = s
        BY <3>1, <3>2, <3>3, <4>2, <4>3, RootFacts DEF SocketsInv
      <4>5. outer[t] = t
        BY <3>1, <4>2, <4>4
      <4> QED  BY <1>1, <4>5, NoSelfJoin DEF SocketsInv
    <3>5. Root(t) = t /\ sockets[Root(s)] = port[Root(s)]
      BY <1>1, <3>1, <3>3, <3>4, RootFacts DEF SocketsInv, ListsInv, TargetsInv
    <3> QED  BY <3>3, <3>5
  <2> QED  BY <2>1, <2>2
<1> QED  BY <1>2, <1>3 DEF SocketsInv, ListsInv, PortsInv

\* The peers of the table are those in the list of the input socket.
LEMMA PeersAreListed ==
    ASSUME SocketsInv, RouterInv, Routing
    PROVE  /\ TablePeers = {sockets[InputSocket][n].socket : n \in 1 .. Len(sockets[InputSocket])}
           /\ TablePeers \subseteq Inits \cup MultiInits
<1>1. InOrder(sockets[InputSocket], binders[Root(InputSocket)])
  <2>1. InputSocket \in present /\ elaborated = Multi \cap present
    BY DEF RouterInv, OutputsInv, Routing, Regular, HasRouter
  <2> QED  BY <2>1, RouterAssumption, ListOfTarget
<1>2. Root(InputSocket) \in Multi /\ Root(InputSocket) \notin MultiInits
  BY RouterMembers, RootFacts DEF SocketsInv
<1>3. \A n \in 1 .. Len(binders[Root(InputSocket)]) :
        binders[Root(InputSocket)][n].peer \in MultiInits \cup Inits
  BY <1>2 DEF SocketsInv, ListsInv, BindersInv, PeersOf
<1>4. TablePeers = {binders[Root(InputSocket)][n].peer : n \in 1 .. Len(binders[Root(InputSocket)])}
  BY DEF TablePeers
<1> QED  BY <1>1, <1>3, <1>4 DEF InOrder

\* Who has called the router is one of the sockets around it.
FromAround ==
    /\ call.kind \in Kinds
    /\ \/ call.kind \in FwKinds /\ call.from \in TablePeers /\ call.from \in Inits \cup MultiInits
       \/ call.kind \in BwKinds /\ call.from \in Targets

\* The call that waits comes from a peer of the input socket, or from an output.
LEMMA CallerIsAround == SocketsInv /\ RouterInv /\ Routing /\ waiting => FromAround
<1> HAVE SocketsInv /\ RouterInv /\ Routing /\ waiting
<1>1. call.kind \in Kinds
  BY DEF RouterInv, WaitingInv
<1>2. CASE call.kind \in FwKinds
  <2>1. call.id + 1 \in 1 .. Len(sockets[InputSocket])
        /\ sockets[InputSocket][call.id + 1].socket = call.from
    BY <1>2, WaitingForward
  <2> QED  BY <1>1, <1>2, <2>1, PeersAreListed DEF FromAround
<1>3. CASE call.kind \in BwKinds
  BY <1>1, <1>3, BackwardCaller DEF FromAround
<1> QED  BY <1>1, <1>2, <1>3, SocketsAssumption

\* The same in the next state.
LEMMA CallerIsAroundAfter == (SocketsInv /\ RouterInv /\ Routing /\ waiting => FromAround)'
BY CallerIsAround, PTL

\* A call that reaches the router arrives at the table; the others pass it by.
LEMMA ArrivalAtTable ==
    ASSUME SocketsInv, RouterInv, SocketsInv', RouterInv', Call
    PROVE  [Table!Next]_(Table!vars)
<1>1. ~waiting /\ Run(Multi \ RouterSockets) /\ UNCHANGED <<outputs, latest, reached, exited>>
  BY DEF Call
<1>2. UNCHANGED structVars
  BY <1>1, RunChanges
<1>3. Routing' = Routing /\ TablePeers' = TablePeers /\ TableCaller' = TableCaller
      /\ (waiting' = FALSE => TableActive' = NoCall)
  BY <1>1, <1>2, TableDependsOn
<1>4. TableActive = NoCall
  BY <1>1 DEF TableActive
<1>5. CASE ~Routing \/ waiting' = FALSE
  <2>1. TableActive' = NoCall
    BY <1>3, <1>5 DEF TableActive
  <2>2. TableUnchanged
    BY <1>1, <1>3, <1>4, <2>1 DEF TableUnchanged
  <2> QED  BY <2>2, TableStutters
<1>6. CASE Routing /\ waiting' # FALSE
  <2>1. Routing' /\ waiting'
    BY <1>3, <1>6 DEF RouterInv, RouterTypeOK
  <2>2. FromAround'
    BY <2>1, CallerIsAroundAfter
  <2>3. PICK from, kind : from = call'.from /\ kind = call'.kind
    OBVIOUS
  <2>4. TableActive' = [from |-> from, kind |-> kind]
    BY <2>1, <2>3 DEF TableActive
  <2>5. kind \in Table!Forwarded \cup {"nb_transport_bw", "invalidate_direct_mem_ptr"}
        /\ from \in Inits \cup MultiInits \cup Targets
        /\ from \in (IF kind \in Table!Forwarded THEN TablePeers ELSE Targets)
    BY <1>3, <2>2, <2>3 DEF FromAround, Table!Forwarded, FwKinds, BwKinds
  <2>6. Table!Arrive(from, kind)
    BY <1>1, <1>3, <1>4, <2>4, <2>5 DEF Table!Arrive
  <2> QED  BY <2>5, <2>6 DEF Table!Next
<1> QED  BY <1>5, <1>6

\* A call that waits is pending in the table, and a handler that returns ends it.
LEMMA PendingInTable ==
    ASSUME RouterInv, Routing, waiting
    PROVE  /\ TableActive = [from |-> call.from, kind |-> call.kind]
           /\ \A K : call.kind \in K => Table!Pending(K)
<1>1. call.from \in Sockets /\ call.kind \in Kinds
  BY DEF RouterInv, WaitingInv
<1>2. TableActive = [from |-> call.from, kind |-> call.kind] /\ TableActive # NoCall
  BY <1>1, RouterAssumption DEF TableActive
<1> QED  BY <1>2 DEF Table!Pending

\* A handler that returns ends the call in the table too.
LEMMA ReturnInTable ==
    ASSUME Routing, NEW s, HandlerReturns(s)
    PROVE  /\ Table!Handle(s) /\ Routing' /\ \A t : NumberOf(t)' = NumberOf(t)
           /\ UNCHANGED latest => TableCaller' = TableCaller
           /\ UNCHANGED <<structVars, outputs>>
<1>1. UNCHANGED <<structVars, outputs>> /\ waiting' = FALSE /\ reached' = s /\ exited' = exited
  BY DEF HandlerReturns, vars
<1>2. /\ Routing' = Routing /\ TablePeers' = TablePeers /\ TableActive' = NoCall
      /\ \A t : NumberOf(t)' = NumberOf(t)
      /\ UNCHANGED latest => TableCaller' = TableCaller
  BY <1>1, TableDependsOn
<1> QED  BY <1>1, <1>2 DEF Table!Handle

\* mLatestNBCommunication[i] = id is the table's entry for the socket of i.
LEMMA RememberedInTable ==
    ASSUME SocketsInv, RouterInv, Routing, waiting, call.kind = "nb_transport_fw",
           NEW t \in outputs, t \in Targets, HandlerReturns({t}), Remember(t)
    PROVE  TableCaller' = [TableCaller EXCEPT ![t] = call.from]
<1>1. Routing' /\ (\A u : NumberOf(u)' = NumberOf(u)) /\ UNCHANGED <<structVars, outputs>>
  BY ReturnInTable
<1>2. sockets' = sockets /\ outputs' = outputs
  BY <1>1 DEF structVars
<1>3. sockets[InputSocket][call.id + 1].socket = call.from
  BY WaitingForward DEF FwKinds
<1>4. /\ DOMAIN latest' = {NumberOf(t)} \cup DOMAIN latest
      /\ latest'[NumberOf(t)] = call.id
      /\ \A n \in DOMAIN latest : n # NumberOf(t) => latest'[n] = latest[n]
  BY DEF Remember
<1>5. ASSUME NEW u \in outputs, u # t
      PROVE  NumberOf(u) # NumberOf(t)
  <2>1. PICK n \in 1 .. Len(sockets[OutputSocket]) : sockets[OutputSocket][n].socket = t
    BY DEF RouterInv, OutputsInv, OutputSockets
  <2>2. PICK m \in 1 .. Len(sockets[OutputSocket]) : sockets[OutputSocket][m].socket = u
    BY DEF RouterInv, OutputsInv, OutputSockets
  <2>3. NumberOf(t) = n - 1 /\ NumberOf(u) = m - 1
    BY <2>1, <2>2, NumberOfListed
  <2>4. n # m /\ n \in Nat /\ m \in Nat
    BY <1>5, <2>1, <2>2, RouterMembers DEF SocketsInv, TypeOK
  <2> QED  BY <2>3, <2>4
<1>6. \A u \in Targets : TableCaller'[u] = IF u = t THEN call.from ELSE TableCaller[u]
  <2> TAKE u \in Targets
  <2>1. TableCaller'[u] = IF u \in outputs /\ NumberOf(u) \in DOMAIN latest'
                          THEN sockets[InputSocket][latest'[NumberOf(u)] + 1].socket ELSE NoSocket
    BY <1>1, <1>2 DEF TableCaller
  <2>2. TableCaller[u] = IF u \in outputs /\ NumberOf(u) \in DOMAIN latest
                         THEN sockets[InputSocket][latest[NumberOf(u)] + 1].socket ELSE NoSocket
    BY DEF TableCaller
  <2>3. CASE u = t
    BY <1>3, <1>4, <2>1, <2>3
  <2>4. CASE u # t /\ u \in outputs
    BY <1>4, <1>5, <2>1, <2>2, <2>4
  <2>5. CASE u # t /\ u \notin outputs
    BY <2>1, <2>2, <2>5
  <2> QED  BY <2>3, <2>4, <2>5
<1>7. /\ TableCaller = [u \in Targets |-> TableCaller[u]]
      /\ TableCaller' = [u \in Targets |-> TableCaller'[u]]
  BY DEF TableCaller
<1>8. TableCaller' = [u \in Targets |-> IF u = t THEN call.from ELSE TableCaller[u]]
  BY <1>6, <1>7
<1> QED  BY <1>7, <1>8

\* The forward handlers.
LEMMA ForwardInTable ==
    ASSUME SocketsInv, RouterInv, Routing, NEW t \in Targets, RouteForward(t)
    PROVE  Table!Forward(t)
<1>1. /\ waiting /\ call.kind \in FwKinds /\ t \in outputs
      /\ IF call.kind # "nb_transport_fw" THEN HandlerReturns({t}) /\ UNCHANGED latest
         ELSE IF Positions(t) = {} THEN HandlerExits
         ELSE HandlerReturns({t}) /\ Remember(t)
  BY DEF RouteForward, InHandler
<1>2. Positions(t) # {}
  <2>1. PICK n \in 1 .. Len(sockets[OutputSocket]) : sockets[OutputSocket][n].socket = t
    BY <1>1 DEF RouterInv, OutputsInv, OutputSockets
  <2> QED  BY <2>1 DEF Positions
<1>3. Table!Pending(Table!Forwarded)
  BY <1>1, PendingInTable DEF Table!Forwarded, FwKinds
<1>4. TableActive.kind = call.kind /\ TableActive.from = call.from
  BY <1>1, PendingInTable
<1>5. Table!Handle({t})
  BY <1>1, <1>2, ReturnInTable
<1>6. CASE call.kind = "nb_transport_fw"
  <2>1. TableCaller' = [TableCaller EXCEPT ![t] = call.from]
    BY <1>1, <1>2, <1>6, RememberedInTable
  <2> QED  BY <1>3, <1>4, <1>5, <1>6, <2>1 DEF Table!Forward
<1>7. CASE call.kind # "nb_transport_fw"
  <2>1. TableCaller' = TableCaller
    BY <1>1, <1>7, ReturnInTable
  <2> QED  BY <1>3, <1>4, <1>5, <1>7, <2>1 DEF Table!Forward
<1> QED  BY <1>6, <1>7

\* routerNBTransportBw: the answer goes to the last caller of the output, or the
\* router exits because there is none.
LEMMA AnswerInTable ==
    ASSUME SocketsInv, RouterInv, Routing, RouteNBTransportBw
    PROVE  [Table!Next]_(Table!vars)
<1>1. waiting /\ call.kind = "nb_transport_bw"
  BY DEF RouteNBTransportBw, InHandler
<1>2. call.from \in outputs /\ call.from \in Targets
      /\ \A t : t = call.from => NumberOf(t) = call.id
  BY <1>1, BackwardCaller DEF BwKinds
<1>3. PICK t \in Targets : t = call.from /\ t \in outputs /\ NumberOf(t) = call.id
  BY <1>2
<1>4. Table!Pending({"nb_transport_bw"}) /\ TableActive.from = t
  BY <1>1, <1>3, PendingInTable
<1>5. TableCaller[t] = IF call.id \in DOMAIN latest
                       THEN sockets[InputSocket][latest[call.id] + 1].socket ELSE NoSocket
  BY <1>3 DEF TableCaller
<1>6. CASE call.id \notin DOMAIN latest /\ HandlerExits
  <2>1. UNCHANGED <<structVars, outputs>> /\ waiting' = FALSE /\ UNCHANGED <<latest, reached>>
        /\ exited' = TRUE
    BY <1>6 DEF HandlerExits, Abort
  <2>2. /\ Routing' /\ TablePeers' = TablePeers /\ TableActive' = NoCall
        /\ TableCaller' = TableCaller
    BY <2>1, TableDependsOn
  <2>3. TableCaller[TableActive.from] = NoSocket
    BY <1>4, <1>5, <1>6
  <2>4. Table!StopAtAnswer
    BY <1>4, <2>1, <2>2, <2>3 DEF Table!StopAtAnswer
  <2> QED  BY <2>4 DEF Table!Next
<1>7. CASE /\ call.id \in DOMAIN latest
           /\ HandlerReturns({sockets[InputSocket][latest[call.id] + 1].socket})
           /\ UNCHANGED latest
  <2>1. PICK to : to = sockets[InputSocket][latest[call.id] + 1].socket
    OBVIOUS
  <2>2. to # NoSocket
    <3>1. latest[call.id] \in Nat /\ latest[call.id] + 1 <= Len(sockets[InputSocket])
      BY <1>7 DEF RouterInv, LatestInv, Places
    <3>2. sockets[InputSocket] \in Seq(Interface)
      BY RouterMembers DEF SocketsInv, TypeOK
    <3>3. latest[call.id] + 1 \in 1 .. Len(sockets[InputSocket])
      BY <3>1, <3>2
    <3>4. sockets[InputSocket][latest[call.id] + 1] \in Interface
      BY <3>2, <3>3, ElementOfSeq
    <3> QED  BY <2>1, <3>4, SocketsAssumption DEF Interface
  <2>3. TableCaller[TableActive.from] = to
    BY <1>4, <1>5, <1>7, <2>1
  <2>4. Table!Handle({to}) /\ TableCaller' = TableCaller
    BY <1>7, <2>1, ReturnInTable
  <2>5. Table!Answer
    BY <1>4, <2>2, <2>3, <2>4 DEF Table!Answer
  <2> QED  BY <2>5 DEF Table!Next
<1>8. CASE PeerExits
  BY <1>8, IdleStepsOfTable DEF PeerExits, Abort
<1> QED  BY <1>6, <1>7, <1>8 DEF RouteNBTransportBw

\* routerInvalidateDirectMemPtr: every initiator is told.
LEMMA InvalidateInTable ==
    ASSUME SocketsInv, RouterInv, Routing, RouteInvalidate
    PROVE  [Table!Next]_(Table!vars)
<1> DEFINE all == {sockets[InputSocket][n] : n \in 1 .. Len(sockets[InputSocket])}
           s == {to.socket : to \in all}
<1>1. /\ waiting /\ call.kind = "invalidate_direct_mem_ptr"
      /\ (HandlerReturns(s) /\ UNCHANGED latest) \/ PeerExits
  BY DEF RouteInvalidate, InHandler
<1>2. s = TablePeers
  BY PeersAreListed
<1> HIDE DEF s
<1>3. CASE HandlerReturns(s) /\ UNCHANGED latest
  <2>1. Table!Handle(s) /\ TableCaller' = TableCaller
    BY <1>3, ReturnInTable
  <2>2. Table!Pending({"invalidate_direct_mem_ptr"})
    BY <1>1, PendingInTable
  <2>3. Table!Invalidate
    BY <1>2, <2>1, <2>2 DEF Table!Invalidate
  <2> QED  BY <2>3 DEF Table!Next
<1>4. CASE PeerExits
  BY <1>4, IdleStepsOfTable DEF PeerExits, Abort
<1> QED  BY <1>1, <1>3, <1>4

\* Each handler of the router is a step of the table.
LEMMA HandlersInTable ==
    ASSUME SocketsInv, RouterInv, Handler
    PROVE  [Table!Next]_(Table!vars)
<1>1. CASE ~Routing
  <2>1. UNCHANGED <<structVars, outputs>>
    BY DEF Handler, RouteForward, RouteNowhere, RouteNBTransportBw, RouteInvalidate,
           HandlerReturns, HandlerExits, PeerExits, Abort, vars, routerVars
  <2> QED  BY <1>1, <2>1, TableDependsOn, NeverRouting
<1>2. CASE Routing
  <2>1. ASSUME NEW t \in Targets, RouteForward(t)
        PROVE  [Table!Next]_(Table!vars)
    BY <1>2, <2>1, ForwardInTable DEF Table!Next
  <2>2. ASSUME RouteNowhere
        PROVE  [Table!Next]_(Table!vars)
    <3>1. waiting /\ call.kind \in FwKinds /\ HandlerReturns({}) /\ UNCHANGED latest
      BY <2>2 DEF RouteNowhere, InHandler
    <3>2. Table!Pending(Table!Forwarded)
      BY <1>2, <3>1, PendingInTable DEF Table!Forwarded, FwKinds
    <3>3. Table!Handle({}) /\ TableCaller' = TableCaller
      BY <1>2, <3>1, ReturnInTable
    <3>4. Table!Unmapped
      BY <3>2, <3>3 DEF Table!Unmapped
    <3> QED  BY <3>4 DEF Table!Next
  <2> QED  BY <1>2, <2>1, <2>2, AnswerInTable, InvalidateInTable DEF Handler
<1> QED  BY <1>1, <1>2

\* Each step of the sockets and the router is a step of the table or a stutter.
LEMMA RoutedStepsInTable ==
    SocketsInv /\ RouterInv /\ (SocketsInv /\ RouterInv)' /\ [RoutedNext]_allVars
        => [Table!Next]_(Table!vars)
<1> HAVE SocketsInv /\ RouterInv /\ (SocketsInv /\ RouterInv)' /\ [RoutedNext]_allVars
<1>1. CASE UNCHANGED routerVars
           /\ (Build \/ AskId \/ EndElaboration \/ \E s \in Multi : BeforeEndOfElaboration(s))
  <2>1. stage \in {"building", "elaborating"}
    BY <1>1, PrologueStages
  <2>2. ~Routing /\ ~Routing'
    BY <1>1, <2>1 DEF RouterInv, QuietInv, Routing, routerVars
  <2> QED  BY <2>2, NeverRouting
<1>2. CASE EndElaborationOfRouter
  BY <1>2, StartOfTable
<1>3. CASE Registering /\ UNCHANGED routerVars
  <2>1. UNCHANGED <<structVars, call, routerVars>>
    BY <1>3 DEF Registering, Register, RegisterAgain, vars
  <2> QED  BY <2>1, IdleStepsOfTable
<1>4. CASE Call
  BY <1>4, ArrivalAtTable
<1>5. CASE Handler
  BY <1>5, HandlersInTable
<1>6. CASE UNCHANGED allVars
  BY <1>6, IdleStepsOfTable DEF allVars, vars
<1> QED  BY <1>1, <1>2, <1>3, <1>4, <1>5, <1>6 DEF RoutedNext

\* The router with its identifiers, lists, binders and joined sockets implements
\* the table of names: an answer reaches the initiator that called this target
\* last, an invalidation every initiator, and the only exit is an answer that
\* nobody asked for.
THEOREM RouterImplementsTable == RoutedSpec => TableSpec
<1>1. RoutedInit => Table!Init /\ SocketsInv /\ RouterInv
  BY TableInit, RoutedInitInv, RoutedInitHasInv
<1>2. SocketsInv /\ RouterInv /\ [RoutedNext]_allVars => (SocketsInv /\ RouterInv)'
  BY RoutedNextKeepsInv, RoutedNextKeepsRouterInv
<1> QED  BY <1>1, <1>2, RoutedStepsInTable, PTL DEF RoutedSpec, TableSpec, Table!Spec
=============================================================================
