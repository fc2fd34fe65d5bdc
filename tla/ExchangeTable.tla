----------------------------- MODULE ExchangeTable -----------------------------
(***************************************************************************)
(* What a router promises to the sockets around it, by name: it remembers  *)
(* for each target who made the last non-blocking call to it, gives the    *)
(* target's answer to that initiator, tells every initiator about an       *)
(* invalidation, and stops only at an answer that nobody asked for.        *)
(* There are no identifiers here: RoutedSockets maps those of the multi    *)
(* sockets to these names.                                                 *)
(***************************************************************************)
CONSTANTS
    Initiators, Targets,
    NoOne, NoCall

VARIABLES
    peers,    \* the initiators around the router, once it runs
    active,   \* the call that has reached the router: who makes it, and of what kind
    caller,   \* caller[t]: the initiator of the last nb_transport_fw sent to t
    reached,  \* the sockets the router called when it handled the last call
    stopped

vars == <<peers, active, caller, reached, stopped>>

Forwarded == {"b_transport", "nb_transport_fw", "transport_dbg", "get_direct_mem_ptr"}

Init == /\ peers = {}
        /\ active = NoCall
        /\ caller = [t \in Targets |-> NoOne]
        /\ reached = {}
        /\ stopped = FALSE

Start == /\ peers = {}
         /\ peers' \in SUBSET Initiators
         /\ UNCHANGED <<active, caller, reached, stopped>>

Arrive(from, kind) ==
    /\ active = NoCall
    /\ from \in (IF kind \in Forwarded THEN peers ELSE Targets)
    /\ active' = [from |-> from, kind |-> kind]
    /\ UNCHANGED <<peers, caller, reached, stopped>>

Pending(kinds) == active # NoCall /\ active.kind \in kinds

\* The call is dealt with, and the router has called the sockets in s.
Handle(s) == /\ active' = NoCall
             /\ reached' = s
             /\ UNCHANGED <<peers, stopped>>

Forward(t) ==
    /\ Pending(Forwarded)
    /\ Handle({t})
    /\ caller' = IF active.kind = "nb_transport_fw"
                 THEN [caller EXCEPT ![t] = active.from] ELSE caller

Unmapped == Pending(Forwarded) /\ Handle({}) /\ UNCHANGED caller

Answer == /\ Pending({"nb_transport_bw"})
          /\ caller[active.from] # NoOne
          /\ Handle({caller[active.from]})
          /\ UNCHANGED caller

Invalidate == Pending({"invalidate_direct_mem_ptr"}) /\ Handle(peers) /\ UNCHANGED caller

StopAtAnswer == /\ Pending({"nb_transport_bw"})
                /\ caller[active.from] = NoOne
                /\ active' = NoCall
                /\ stopped' = TRUE
                /\ UNCHANGED <<peers, caller, reached>>

Next == \/ Start
        \/ \E s \in Initiators \cup Targets, k \in Forwarded \cup
               {"nb_transport_bw", "invalidate_direct_mem_ptr"} : Arrive(s, k)
        \/ \E t \in Targets : Forward(t)
        \/ Unmapped \/ Answer \/ Invalidate \/ StopAtAnswer

Spec == Init /\ [][Next]_vars
=============================================================================
