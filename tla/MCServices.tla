----------------------------- MODULE MCServices -----------------------------
(* The two services that share no state with each other, in one model: a    *)
(* behaviour is about one of them, the focus it starts with, and the other  *)
(* stays as it started.                                                     *)
EXTENDS AgentRuns, PullRequests

VARIABLE
    focus       \* the service the behaviour is about

(* The idFactory hands out the ids in order, and (a bound) the last of the  *)
(* MaxCalls calls is for behaviours that leave an id unused.                *)
Bounded ==
    /\ \A i, j \in Ids : i < j /\ Stored(j) => Stored(i)
    /\ calls = MaxCalls => \E id \in Ids : ~Stored(id)

ServicesInit == focus \in {"agents", "pulls"} /\ AgentInit /\ PullInit

ServicesNext ==
    /\ UNCHANGED focus
    /\ \/ focus = "agents" /\ AgentNext /\ Bounded' /\ UNCHANGED pullVars
       \/ focus = "pulls" /\ PullNext /\ UNCHANGED agentVars

(* A pending await comes back, a dispatcher with nothing to do polls, and a *)
(* call of createPr() that has begun goes on, in the behaviours about them. *)
ServicesFairness ==
    /\ \A c \in Clients : WF_agentVars(focus = "agents" /\ Advance(c))
    /\ \A d \in Dispatchers : WF_agentVars(focus = "agents" /\ (Dequeue(d) \/ BeginStart(d)))
    /\ \A c \in Calls : WF_pullVars(focus = "pulls" /\ Step(c))

ServicesSpec ==
    ServicesInit /\ [][ServicesNext]_<<focus, agentVars, pullVars>> /\ ServicesFairness

=============================================================================
