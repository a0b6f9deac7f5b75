----------------------------- MODULE RowContract -----------------------------
(***************************************************************************)
(* What a client of the API may rely on about a row, whatever the queue,   *)
(* the workers and reconciliation do: one execution at a time, an outcome  *)
(* only from the execution at work or from a verdict that nobody reports   *)
(* any more, and a "done" that stays.                                      *)
(***************************************************************************)
CONSTANTS Rows

VARIABLES
    row,   \* status the API answers
    busy   \* rows an execution is at work on

Init == row = [r \in Rows |-> "absent"] /\ busy = {}

Becomes(r, s) == row' = [row EXCEPT ![r] = s]

\* One transaction inserts a row, or all the child rows of a sweep.
Create(new) ==
    /\ new # {} /\ \A r \in new : row[r] = "absent"
    /\ row' = [r \in Rows |-> IF r \in new THEN "queued" ELSE row[r]]
    /\ UNCHANGED busy

\* An execution takes a fresh or failed row that nobody else is at work on.
Take(r) ==
    /\ row[r] \in {"queued", "failed"} /\ r \notin busy
    /\ Becomes(r, "running") /\ busy' = busy \cup {r}

\* The execution at work records its outcome.
Report(r) ==
    /\ r \in busy
    /\ \E outcome \in {"done", "failed"} : Becomes(r, outcome)
    /\ busy' = busy \ {r}

\* The execution at work dies without a word.
Vanish(r) == r \in busy /\ busy' = busy \ {r} /\ UNCHANGED row

\* The row is failed, or put back in the queue, from outside.
GiveUp(r)  == row[r] \in {"queued", "running"} /\ Becomes(r, "failed") /\ UNCHANGED busy
PutBack(r) == row[r] = "running" /\ Becomes(r, "queued") /\ UNCHANGED busy

Next ==
    \/ \E new \in SUBSET Rows : Create(new)
    \/ \E r \in Rows : Take(r) \/ Report(r) \/ Vanish(r) \/ GiveUp(r) \/ PutBack(r)

Spec == Init /\ [][Next]_<<row, busy>>

\* What follows for a client: a row that says done says so for good, and says it
\* only because an execution at work on it has reported.
DoneIsFinal == [][\A r \in Rows : row[r] = "done" => row'[r] = "done"]_<<row, busy>>
DoneIsReported ==
    [][\A r \in Rows : row[r] # "done" /\ row'[r] = "done" => r \in busy]_<<row, busy>>

=============================================================================
