------------------------------- MODULE MCMcp -------------------------------
(* Instance of Mcp for TLC: calls, connections and responses are each      *)
(* interchangeable.                                                        *)
EXTENDS Mcp, TLC

CONSTANTS l1, s1, s2, s3, c1, c2, g1, g2, p1, p2

Interchangeable ==
    Permutations({c1, c2}) \cup Permutations({g1, g2}) \cup Permutations({p1, p2})

Traffic ==
    \/ \E k \in Conns : conn[k].state # "new"
    \/ \E c \in Calls : call[c].pc # "new"
    \/ \E p \in Posts : post[p].pc # "new"

\* Bounds: s1 connects and calls, s2 answers; logins and the signing of s3
\* (which share nothing with the rest but `Verifies`) run without traffic.
Bounded ==
    /\ \A k \in Conns : conn[k].of \notin {s2, s3}
    /\ \A c \in Calls : call[c].token \notin {s2, s3}
    /\ Traffic => session[s3].state = "none" /\ login[l1] = "new"
=============================================================================
