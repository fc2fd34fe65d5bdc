----------------------------- MODULE DirectLinks -----------------------------
(***************************************************************************)
(* What a module may expect of the sockets between it and its peers: a     *)
(* call made over a link arrives at the other end with the request that    *)
(* was made, one answer is given there, and that answer comes back.  There *)
(* is no adapter here, no conversion and no copy of a payload.             *)
(***************************************************************************)
CONSTANTS Ends, Kinds, Requests, Results, NoCall, NoAnswer

VARIABLES links,    \* the pairs of ends that may call each other
          pending   \* the call each end waits for, and what its payload says

vars == <<links, pending>>

Init == /\ links \subseteq Ends \X Ends
        /\ pending = [e \in Ends |-> NoCall]

\* The links are made while there are no calls.
Rebuild == /\ \A e \in Ends : pending[e] = NoCall
           /\ links' \subseteq Ends \X Ends
           /\ UNCHANGED pending

Request(s) ==
    /\ pending[s] = NoCall
    /\ LET c == pending'[s] IN
       /\ c \in [to : Ends, kind : Kinds, request : Requests, answer : {NoAnswer}]
       /\ {<<s, c.to>>, <<c.to, s>>} \cap links # {}
       /\ pending' = [pending EXCEPT ![s] = c]
    /\ UNCHANGED links

\* The end that is called gives a result to the request that was made.
Answer(s) ==
    /\ pending[s] # NoCall
    /\ pending[s].answer = NoAnswer
    /\ LET a == pending'[s].answer IN
       /\ a \in [request : {pending[s].request}, result : Results]
       /\ pending' = [pending EXCEPT ![s].answer = a]
    /\ UNCHANGED links

End(s) ==
    /\ pending[s] # NoCall
    /\ pending[s].answer # NoAnswer
    /\ pending' = [pending EXCEPT ![s] = NoCall]
    /\ UNCHANGED links

Next == \/ Rebuild
        \/ \E s \in Ends : Request(s) \/ Answer(s) \/ End(s)

Spec == Init /\ [][Next]_vars
=============================================================================
