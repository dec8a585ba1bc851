------------------------------ MODULE JobQueue ------------------------------
(***************************************************************************)
(* What the backend's queued jobs promise, whatever they do: sync runs of  *)
(* knowledge bases and model downloads.  Jobs are rows of a table, claimed *)
(* in submission order by the workers of one backend process; a worker may *)
(* let go of a job without finishing it, and a restart of the process      *)
(* fails the jobs that had been running for long.                          *)
(*                                                                         *)
(* A finished job is never run again, and nobody works on a job that       *)
(* another worker holds.                                                   *)
(***************************************************************************)
EXTENDS Naturals

CONSTANTS Workers, Nobody, MaxJobs

Jobs == 1..MaxJobs

VARIABLES
  status,   \* status of each job
  holder    \* the worker that runs the job, or Nobody

queue == <<status, holder>>

Final == {"done", "failed", "deleted"}
JobStatus == {"new", "queued", "running"} \cup Final

QueueTypeOK ==
  /\ status \in [Jobs -> JobStatus]
  /\ holder \in [Jobs -> Workers \cup {Nobody}]

QueueInit ==
  /\ status = [j \in Jobs |-> "new"]
  /\ holder = [j \in Jobs |-> Nobody]

Submit(j) ==
  /\ status[j] = "new"
  /\ \A i \in 1..(j - 1) : status[i] # "new"
  /\ status' = [status EXCEPT ![j] = "queued"]
  /\ UNCHANGED holder

Claim(w, j) ==
  /\ status[j] = "queued"
  /\ \A i \in 1..(j - 1) : status[i] # "queued"
  /\ \A i \in Jobs : holder[i] # w
  /\ status' = [status EXCEPT ![j] = "running"]
  /\ holder' = [holder EXCEPT ![j] = w]

Finish(j) ==
  /\ holder[j] # Nobody
  /\ \E s \in {"done", "failed"} : status' = [status EXCEPT ![j] = s]
  /\ holder' = [holder EXCEPT ![j] = Nobody]

\* The worker goes on with its loop and the job stays "running".
Abandon(j) ==
  /\ holder[j] # Nobody
  /\ holder' = [holder EXCEPT ![j] = Nobody]
  /\ UNCHANGED status

\* The rows go with the row they belong to; whoever runs one holds nothing.
Delete(S) ==
  /\ \A j \in S : status[j] # "new"
  /\ status' = [j \in Jobs |-> IF j \in S THEN "deleted" ELSE status[j]]
  /\ holder' = [j \in Jobs |-> IF j \in S THEN Nobody ELSE holder[j]]

\* The process restarts; the jobs up to k started too long ago.
Restart(k) ==
  /\ holder' = [j \in Jobs |-> Nobody]
  /\ status' = [j \in Jobs |-> IF status[j] = "running" /\ j <= k
                               THEN "failed" ELSE status[j]]

QueueNext ==
  \/ \E j \in Jobs : Submit(j) \/ Finish(j) \/ Abandon(j)
  \/ \E w \in Workers, j \in Jobs : Claim(w, j)
  \/ \E S \in SUBSET Jobs : Delete(S)
  \/ \E k \in 0..MaxJobs : Restart(k)

QueueSpec == QueueInit /\ [][QueueNext]_queue
=============================================================================
