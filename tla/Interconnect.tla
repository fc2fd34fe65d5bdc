---------------------------- MODULE Interconnect ----------------------------
(***************************************************************************)
(* What initiators and targets may expect of whatever connects them: a     *)
(* request is served by the target whose memory holds its address, and     *)
(* each step of a non-blocking exchange is seen by both its ends at once.  *)
(* There is no table, no address translation and no call in transit here.  *)
(***************************************************************************)
CONSTANTS Targets, Transactions, Addresses, NoOne

VARIABLES memory,       \* the addresses each target answers to
          asked,        \* the address of each transaction
          ownerPhase,   \* the phase of an exchange, as its owner sees it ...
          targetPhase,  \* ... and as its target does
          servedBy      \* the target that is at work on a transaction

vars == <<memory, asked, ownerPhase, targetPhase, servedBy>>

Init == /\ memory \in [Targets -> SUBSET Addresses]
        /\ asked \in [Transactions -> Addresses]
        /\ ownerPhase = [x \in Transactions |-> "idle"]
        /\ targetPhase = [x \in Transactions |-> "idle"]
        /\ servedBy = [x \in Transactions |-> NoOne]

Idle(x) == ownerPhase[x] = "idle" /\ targetPhase[x] = "idle" /\ servedBy[x] = NoOne

BothSee(x, ph) == /\ ownerPhase' = [ownerPhase EXCEPT ![x] = ph]
                  /\ targetPhase' = [targetPhase EXCEPT ![x] = ph]

\* The owner asks for an address.  A target that takes the request, as a
\* blocking call or as an exchange, is one whose memory holds the address.
Request(x) ==
    /\ Idle(x)
    /\ \E a \in Addresses :
         /\ asked' = [asked EXCEPT ![x] = a]
         /\ \/ UNCHANGED <<ownerPhase, targetPhase, servedBy>>
            \/ /\ \E t \in Targets : /\ a \in memory[t]
                                     /\ servedBy' = [servedBy EXCEPT ![x] = t]
               /\ BothSee(x, "begin_req") \/ UNCHANGED <<ownerPhase, targetPhase>>
    /\ UNCHANGED memory

Accept(x) == /\ targetPhase[x] = "begin_req"
             /\ BothSee(x, "end_req")
             /\ UNCHANGED <<memory, asked, servedBy>>

Respond(x) == /\ targetPhase[x] \in {"begin_req", "end_req"}
              /\ BothSee(x, "begin_resp")
              /\ UNCHANGED <<memory, asked, servedBy>>

\* A blocking call returns; an exchange ends with its response, or at once.
Finish(x) == /\ servedBy[x] # NoOne
             /\ targetPhase[x] # "end_req"
             /\ BothSee(x, "idle")
             /\ servedBy' = [servedBy EXCEPT ![x] = NoOne]
             /\ UNCHANGED <<memory, asked>>

Next == \E x \in Transactions : Request(x) \/ Accept(x) \/ Respond(x) \/ Finish(x)

Spec == Init /\ [][Next]_vars

\* Exchanges go on to their end; a blocking call may last.
FairSpec ==
    /\ Spec
    /\ \A x \in Transactions :
        /\ WF_vars(Respond(x))
        /\ WF_vars(ownerPhase[x] = "begin_resp" /\ Finish(x))
=============================================================================
