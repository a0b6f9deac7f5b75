-------------------------- MODULE RowContract_proofs --------------------------
(***************************************************************************)
(* What the row contract gives a client, once for every component that     *)
(* implements it.                                                          *)
(***************************************************************************)
EXTENDS RowContract, TLAPS

\* A row an execution is at work on is inserted, and nobody has called it done.
BusyIsOpen ==
    /\ row \in [Rows -> {"absent", "queued", "running", "done", "failed"}]
    /\ \A r \in Rows : r \in busy => row[r] \in {"queued", "running", "failed"}

LEMMA NextOpen == BusyIsOpen /\ [Next]_<<row, busy>> => BusyIsOpen'
<1> SUFFICES ASSUME BusyIsOpen, [Next]_<<row, busy>> PROVE BusyIsOpen'
  OBVIOUS
<1> USE DEF BusyIsOpen
<1>1. ASSUME NEW new \in SUBSET Rows, Create(new) PROVE BusyIsOpen'
  BY <1>1 DEF Create
<1>2. ASSUME NEW r \in Rows, Take(r) \/ Report(r) \/ Vanish(r) \/ GiveUp(r) \/ PutBack(r)
      PROVE  BusyIsOpen'
  BY <1>2 DEF Take, Report, Vanish, GiveUp, PutBack, Becomes
<1>3. CASE UNCHANGED <<row, busy>>
  BY <1>3
<1> QED BY <1>1, <1>2, <1>3 DEF Next

LEMMA StaysOpen == Spec => []BusyIsOpen
<1>1. Init => BusyIsOpen
  BY DEF Init, BusyIsOpen
<1> QED BY <1>1, NextOpen, PTL DEF Spec

\* A step of the contract leaves a done row alone and makes a row done only for
\* the execution at work on it.
LEMMA DoneSteps ==
    ASSUME BusyIsOpen, [Next]_<<row, busy>>, NEW r \in Rows
    PROVE  /\ row[r] = "done" => row'[r] = "done"
           /\ row[r] # "done" /\ row'[r] = "done" => r \in busy
<1> USE DEF BusyIsOpen
<1>1. ASSUME NEW new \in SUBSET Rows, Create(new)
      PROVE  /\ row[r] = "done" => row'[r] = "done"
             /\ row[r] # "done" => row'[r] # "done"
  BY <1>1 DEF Create
<1>2. ASSUME NEW q \in Rows, Take(q) \/ Report(q) \/ Vanish(q) \/ GiveUp(q) \/ PutBack(q)
      PROVE  /\ row[r] = "done" => row'[r] = "done"
             /\ row[r] # "done" /\ row'[r] = "done" => r \in busy
  BY <1>2 DEF Take, Report, Vanish, GiveUp, PutBack, Becomes
<1> QED BY <1>1, <1>2 DEF Next

\* Whatever implements the contract, a client that has seen done will always see
\* it: no claim, repair or late exception replaces it.
THEOREM DoneStays == Spec => DoneIsFinal
<1>1. BusyIsOpen /\ [Next]_<<row, busy>>
        => [\A r \in Rows : row[r] = "done" => row'[r] = "done"]_<<row, busy>>
  BY DoneSteps
<1> QED BY <1>1, StaysOpen, PTL DEF Spec, DoneIsFinal

\* ... and done is only ever said by the execution at work on the row: neither
\* the insert nor a repair makes a row done.
THEOREM DoneIsFirstHand == Spec => DoneIsReported
<1>1. BusyIsOpen /\ [Next]_<<row, busy>>
        => [\A r \in Rows : row[r] # "done" /\ row'[r] = "done" => r \in busy]_<<row, busy>>
  BY DoneSteps
<1> QED BY <1>1, StaysOpen, PTL DEF Spec, DoneIsReported

=============================================================================
