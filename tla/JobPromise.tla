---------------------------- MODULE JobPromise ----------------------------
(***************************************************************************)
(* What `@background` promises about the jobs of one process, seen through *)
(* `background.status(jobId)`: a job that was accepted runs at most once,  *)
(* its outcome never changes, and it is forgotten only after it ended or   *)
(* together with the process.                                              *)
(***************************************************************************)

CONSTANT Jobs

VARIABLE job  \* what background.status says about each id

States == {"unknown", "pending", "running", "done", "failed", "forgotten", "gone"}
Ended  == {"done", "failed"}

Init == job = [j \in Jobs |-> "unknown"]

Move(j, from, to) == job[j] \in from /\ job' = [job EXCEPT ![j] = to]

\* Accepting a job may drop the records of jobs that ended long ago.
Accept(j) ==
    /\ job[j] = "unknown"
    /\ \E old \in SUBSET {i \in Jobs : job[i] \in Ended} :
        job' = [i \in Jobs |-> IF i = j THEN "pending"
                               ELSE IF i \in old THEN "forgotten" ELSE job[i]]

Start(j) == Move(j, {"pending"}, "running")

End(j) == \E outcome \in Ended : Move(j, {"running"}, outcome)

\* Nothing of this is persisted.
ProcessExits ==
    /\ \E j \in Jobs : job[j] # "gone"
    /\ job' = [j \in Jobs |-> "gone"]

Next == ProcessExits \/ \E j \in Jobs : Accept(j) \/ Start(j) \/ End(j)

Spec == Init /\ [][Next]_job
=============================================================================
