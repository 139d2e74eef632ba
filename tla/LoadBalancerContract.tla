------------------------ MODULE LoadBalancerContract ------------------------
(***************************************************************************)
(* What the cloud provider promises of the calls EnsureLoadBalancer,       *)
(* UpdateLoadBalancer and EnsureLoadBalancerDeleted for one load balancer, *)
(* whatever its type: an abstract specification, which the modules of the  *)
(* load balancers implement and ServiceController relies on.               *)
(*                                                                         *)
(* A load balancer is the set of its parts (listeners, their targets and   *)
(* filters), and a call the set of parts it wants; a Delete wants none.  A *)
(* call only ever adds parts that it wants and removes parts that it does  *)
(* not want, in any order, and may fail at any time.  If it succeeds, the  *)
(* parts are those it wanted, unless a call that wanted others got in its  *)
(* way.                                                                    *)
(***************************************************************************)
CONSTANTS
    Caller,
    Part

VARIABLES
    have,       \* the parts NIFCLOUD holds
    status,     \* how the last call of each caller goes, or went
    want,       \* the parts each caller's call wants
    opposed     \* callers whose call met one that wanted other parts

vars == <<have, status, want, opposed>>

Calling == {c \in Caller : status[c] = "calling"}

Init ==
    /\ have \in SUBSET Part
    /\ status = [c \in Caller |-> "idle"]
    /\ want = [c \in Caller |-> {}]
    /\ opposed = {}

-----------------------------------------------------------------------------
Begin(c, parts) ==
    /\ c \notin Calling
    /\ status' = [status EXCEPT ![c] = "calling"]
    /\ want' = [want EXCEPT ![c] = parts]
    /\ UNCHANGED <<have, opposed>>

\* The load balancer comes closer to what the call wants, and does not vanish
\* on the way from some parts to others.
Work(c) ==
    /\ c \in Calling
    /\ have' \subseteq have \union want[c]
    /\ have \intersect want[c] \subseteq have'
    /\ c \notin opposed /\ want[c] # {} /\ have # {} => have' # {}
    /\ opposed' = opposed \union {d \in Calling : want[d] # want[c]}
    /\ UNCHANGED <<status, want>>

End(c, outcome) ==
    /\ status' = [status EXCEPT ![c] = outcome]
    /\ want' = [want EXCEPT ![c] = {}]
    /\ opposed' = opposed \ {c}
    /\ UNCHANGED have

Succeed(c) ==
    /\ c \in Calling
    /\ have = want[c] \/ c \in opposed
    /\ End(c, "ok")

\* A call may be refused before it begins.
Fail(c) == End(c, "error")

\* The caller has dealt with the outcome.
Forget(c) ==
    /\ c \notin Calling
    /\ status' = [status EXCEPT ![c] = "idle"]
    /\ UNCHANGED <<have, want, opposed>>

Next ==
    \E c \in Caller :
      \/ want'[c] \subseteq Part /\ Begin(c, want'[c])
      \/ Work(c)
      \/ Succeed(c)
      \/ Fail(c)
      \/ Forget(c)

Spec == Init /\ [][Next]_vars
=============================================================================
