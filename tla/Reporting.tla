----------------------------- MODULE Reporting -------------------------------
(***************************************************************************)
(* build_run_summary (reporting.py), as "fwo show-run" calls it from a     *)
(* process of its own while a run may still be going on: three queries,    *)
(* each a transaction of its own, then a look at the two log files.  The   *)
(* engine's steps may come between any two of them.                        *)
(***************************************************************************)
EXTENDS Engine, SequencesExt

VARIABLES rpc,    \* where the reader stands
          seen    \* what its summary holds so far

readerVars == <<rpc, seen>>
reportVars == <<vars, rpc, seen>>

ReaderInit ==
  /\ rpc = "get_execution"
  /\ seen = [execution |-> NoExecution, attempts |-> <<>>, notes |-> <<>>,
             log |-> FALSE, jsonl |-> FALSE]

(* The orders SQLite may return rows in for an ORDER BY that does not tell *)
(* all of them apart: any that agrees with the keys.                       *)
Orders(rows, Before(_, _)) ==
  LET orders == {p \in [DOMAIN rows -> DOMAIN rows] :
                   \A i, j \in DOMAIN rows : i # j => p[i] # p[j]}
  IN { [i \in DOMAIN rows |-> rows[p[i]]] :
         p \in {q \in orders : \A i, j \in DOMAIN rows :
                   i < j => ~Before(rows[q[j]], rows[q[i]])} }

(* A slip: ORDER BY started_at alone                                       *)
StartedBefore(r, s) == r.startedAt < s.startedAt

(* ORDER BY started_at, attempt_number; the timestamps have seconds        *)
AttemptBefore(r, s) ==
  \/ r.startedAt < s.startedAt
  \/ r.startedAt = s.startedAt /\ r.attempt < s.attempt

(* ORDER BY sent_at                                                        *)
NoteBefore(m, n) == m.sentAt < n.sentAt

GetExecution ==
  /\ rpc = "get_execution"
  /\ IF execution = NoExecution
       THEN rpc' = "not_found" /\ UNCHANGED seen
       ELSE rpc' = "list_attempts" /\ seen' = [seen EXCEPT !.execution = execution]
  /\ UNCHANGED vars

ListStepAttempts ==
  /\ rpc = "list_attempts"
  /\ \E rows \in Orders(stepAttempts, AttemptBefore) :
        seen' = [seen EXCEPT !.attempts = rows]
  /\ rpc' = "list_notifications"
  /\ UNCHANGED vars

ListNotifications ==
  /\ rpc = "list_notifications"
  /\ \E rows \in Orders(notifications, NoteBefore) :
        seen' = [seen EXCEPT !.notes = rows]
  /\ rpc' = "look_for_log"
  /\ UNCHANGED vars

LookForLog ==
  /\ rpc = "look_for_log"
  /\ seen' = [seen EXCEPT !.log = (textLog # <<>>)]
  /\ rpc' = "look_for_jsonl"
  /\ UNCHANGED vars

(* A slip: the status is read last, after the lists.                       *)
LookForJsonlAndStatus ==
  /\ rpc = "look_for_jsonl"
  /\ seen' = [seen EXCEPT !.jsonl = (jsonlLog # <<>>), !.execution = execution]
  /\ rpc' = "reported"
  /\ UNCHANGED vars

LookForJsonl ==
  /\ rpc = "look_for_jsonl"
  /\ seen' = [seen EXCEPT !.jsonl = (jsonlLog # <<>>)]
  /\ rpc' = "reported"
  /\ UNCHANGED vars

Read == \/ GetExecution \/ ListStepAttempts \/ ListNotifications
        \/ LookForLog \/ LookForJsonl

Report ==
  /\ Init /\ ReaderInit
  /\ [][(Next /\ UNCHANGED readerVars) \/ Read]_reportVars

----------------------------------------------------------------------------
(* A summary that shows a final status is complete: it has every attempt   *)
(* and every notification the execution will ever have, one per notifier   *)
(* if it was escalated, and both log files, although the status was read   *)
(* before all of them (reporting.py:36-53) and written after them          *)
(* (engine.py:180).                                                        *)
FinalSummaryComplete ==
  rpc = "reported" /\ seen.execution.status \in FinalStatus =>
    /\ ToSet(seen.attempts) = ToSet(stepAttempts)
    /\ Len(seen.attempts) = Len(stepAttempts)
    /\ ToSet(seen.notes) = ToSet(notifications)
    /\ Len(seen.notes) = (IF seen.execution.status = "escalated"
                            THEN Len(Notifiers) ELSE 0)
    /\ seen.log /\ seen.jsonl

(* The clock was not set back between the attempts of step s that the      *)
(* summary has: each shows a time no earlier than those made before it.    *)
Forward(s) ==
  \A i, j \in 1..Len(seen.attempts) :
     i < j /\ stepAttempts[i].step = s /\ stepAttempts[j].step = s
       => stepAttempts[i].startedAt <= stepAttempts[j].startedAt

(* The attempts of one step are listed in the order they were made, unless *)
(* the wall clock was set back between them, and attempts of different     *)
(* steps in the order of their seconds, whatever the database does with    *)
(* equal keys (persistence.py:267, engine.py:380).  Attempts of different  *)
(* steps within one second may be listed in either order.                  *)
ListedInStepOrder ==
  rpc = "reported" =>
    \A i, j \in DOMAIN seen.attempts : i < j =>
       LET a == seen.attempts[i]  b == seen.attempts[j] IN
       IF a.step = b.step THEN Forward(a.step) => a.attempt < b.attempt
                          ELSE a.startedAt <= b.startedAt
=============================================================================
