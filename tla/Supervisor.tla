----------------------------- MODULE Supervisor ------------------------------
(***************************************************************************)
(* What the booter of main/sarah.c promises of its applications: it forks  *)
(* them only while it is up, never one that it still has, and leaves or    *)
(* starts again only when it has none.  Booter shows that the start, the   *)
(* reboot loop and the shutdown, with their failing forks and reused pids, *)
(* implement it.                                                           *)
(***************************************************************************)
CONSTANT Apps     \* the entries of _internal_apps[]

VARIABLES
    phase,  \* "dead", "starting", "up", "leaving" or "out"
    kids    \* the applications that the booter has forked and not yet reaped

Init == phase = "dead" /\ kids = {}

Start  == phase \in {"dead", "out"} /\ phase' = "starting" /\ UNCHANGED kids
Arrive == phase = "starting" /\ phase' = "up" /\ UNCHANGED kids
Quit   == phase = "up" /\ phase' = "leaving" /\ UNCHANGED kids

\* an application that was reaped, if any, makes room for one that is forked
Launch ==
    /\ phase = "up"
    /\ \E gone \in SUBSET kids, i \in Apps :
        /\ \A j, k \in gone : j = k
        /\ i \notin kids \ gone
        /\ kids' = (kids \ gone) \cup {i}
    /\ UNCHANGED phase

\* the fork may fail, and a shutdown does not fork
Reap ==
    /\ phase \in {"up", "leaving"}
    /\ \E i \in kids : kids' = kids \ {i}
    /\ UNCHANGED phase

\* nobody is left behind
Out == phase = "leaving" /\ kids = {} /\ phase' = "out" /\ UNCHANGED kids

\* the booter ends: after a shutdown, or killed, when init takes its children
Die == phase' = "dead" /\ kids' = {}

Next == Start \/ Arrive \/ Quit \/ Launch \/ Reap \/ Out \/ Die

Spec == Init /\ [][Next]_<<phase, kids>>
=============================================================================
