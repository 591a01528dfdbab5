----------------------------- MODULE NkSchedLog -----------------------------
(***************************************************************************)
(* The work queue with a history variable: the submissions that are still  *)
(* pending, in the order in which the callers made them.  No step of the   *)
(* work queue depends on it.                                               *)
(***************************************************************************)
EXTENDS NkSched

VARIABLE log

logVars == <<vars, log>>

Entry == [tid : Tid, job : Job]

Logged(tid) == \E n \in DOMAIN log : log[n].tid = tid
LogPosition(tid) == CHOOSE n \in DOMAIN log : log[n].tid = tid

\* The pending submissions without the one of this task id.
Forget(tid) == IF Logged(tid) THEN RemoveAt(log, LogPosition(tid)) ELSE log

\* A submission takes the place of an earlier one of the same task id.
Note(tid, job) == Append(Forget(tid), [tid |-> tid, job |-> job])

LogInit == Init /\ log = << >>

SchedLogged ==
  \E tid \in Tid, job \in Job, delay \in Delay :
    /\ nk_sched(tid, job, delay)
    /\ log' = IF tid \in Tids(queue') THEN Note(tid, job) ELSE log

ReschedLogged ==
  \E tid \in Tid, job \in Job, delay \in Delay :
    /\ nk_resched(tid, job, delay)
    /\ log' = IF Queued(tid) THEN Note(tid, job) ELSE log

LogNext ==
  \/ SchedLogged
  \/ ReschedLogged
  \/ \E tid \in Tid : nk_unsched(tid) /\ log' = Forget(tid)
  \/ Dispatch /\ log' = Forget(current_tid')
  \/ (nk_alloc_tid \/ EnterLoop \/ TaskReturn \/ Tick) /\ UNCHANGED log

LogSpec == LogInit /\ [][LogNext]_logVars

\* Functions due at the same time are served first come, first served, and
\* the function that waits for a task id is the one submitted last
\* (nksched.md:42 and 121).
FirstComeFirstServed ==
  /\ Len(log) = Len(queue)
  /\ \A i \in DOMAIN queue :
       /\ Logged(queue[i].tid)
       /\ log[LogPosition(queue[i].tid)].job = queue[i].job
  /\ \A i, k \in DOMAIN queue :
       i < k /\ queue[i].left = queue[k].left
         => LogPosition(queue[i].tid) < LogPosition(queue[k].tid)

=============================================================================
