------------------------------ MODULE Lifecycle ------------------------------
(***************************************************************************)
(* What a process promises to its supervisor and its load balancer: it     *)
(* takes connections only between its start and the beginning of its       *)
(* shutdown, and requests only on these; it never serves again once it has *)
(* begun to shut down; and it reports a clean stop only if it has served,  *)
(* and after the last connection has ended.                                *)
(***************************************************************************)
CONSTANT Connections

VARIABLES
    phase, \* "starting", "serving", "draining", and how it ended: "stopped" or "failed"
    open,  \* connections
    busy   \* connections with a request that is not answered

Init == phase = "starting" /\ open = {} /\ busy = {}

Serve == phase = "starting" /\ phase' = "serving" /\ UNCHANGED <<open, busy>>

Connect(c) == phase = "serving" /\ open' = open \cup {c} /\ UNCHANGED <<phase, busy>>

\* Clients whose connection is open may go on asking while the process drains.
Take(c) ==
    /\ phase \in {"serving", "draining"} /\ c \in open
    /\ busy' = busy \cup {c}
    /\ UNCHANGED <<phase, open>>

Answer(c) ==
    /\ c \in busy /\ busy' = busy \ {c}
    /\ open' \in {open, open \ {c}}
    /\ UNCHANGED phase

HangUp(c) == c \in open \ busy /\ open' = open \ {c} /\ UNCHANGED <<phase, busy>>

Drain == phase = "serving" /\ phase' = "draining" /\ UNCHANGED <<open, busy>>

Stop == phase = "draining" /\ open = {} /\ phase' = "stopped" /\ UNCHANGED <<open, busy>>

\* The process gives up, or is forced to, with requests cut off.
Fail == phase # "stopped" /\ phase' = "failed" /\ UNCHANGED <<open, busy>>

Next ==
    \/ Serve \/ Drain \/ Stop \/ Fail
    \/ \E c \in Connections : Connect(c) \/ Take(c) \/ Answer(c) \/ HangUp(c)

Spec == Init /\ [][Next]_<<phase, open, busy>>
=============================================================================
