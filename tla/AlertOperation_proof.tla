------------------------ MODULE AlertOperation_proof ------------------------
(***************************************************************************)
(* Proofs about AlertOperation, for any requests and keys, any window of   *)
(* the check for duplicates and any number of failures.                    *)
(***************************************************************************)
EXTENDS AlertOperation, TLAPS

USE OperationAssumption

Labels == {"idle", "lookup", "create", "call", "complete", "fail", "count", "mark", "giveUp",
           "done", "dead"}

(* The types, without the relation of the last conjunct. *)
Types == /\ status \in [Requests -> {"none", "pending", "retrying", "failed", "success"}]
         /\ retries \in [Requests -> Nat]
         /\ nth \in [Requests -> Nat]
         /\ created \in Nat
         /\ aged \in Nat
         /\ pc \in [Requests -> Labels]
         /\ listed \subseteq Requests
         /\ tasks \subseteq Requests
         /\ dbFailed \subseteq Requests
         /\ callFailed \subseteq Requests
         /\ before \in [Requests -> SUBSET Requests]

(* Where a request is says what its row holds. *)
Recorded ==
    \A r \in Requests :
        /\ nth[r] = 0 <=> status[r] = "none"
        /\ pc[r] \in {"idle", "lookup", "create"} => status[r] = "none"
        /\ pc[r] \in {"call", "complete", "fail", "count", "mark", "giveUp"} => status[r] = "pending"
        /\ pc[r] \in {"idle", "lookup", "create", "call", "complete", "fail", "count", "giveUp"}
           => retries[r] = 0
        /\ pc[r] = "mark" => retries[r] = 1
        /\ pc[r] # "giveUp"

(* Whether its call of Alertmanager has failed. *)
Called ==
    \A r \in Requests :
        /\ pc[r] \in {"idle", "lookup", "create", "call", "complete"} => r \notin callFailed
        /\ pc[r] \in {"fail", "count", "mark", "giveUp"} => r \in callFailed

(* The requests that had ended when another began. *)
Preceding ==
    \A q \in Requests :
        /\ pc[q] = "idle" => before[q] = {}
        /\ \A r \in before[q] : pc[r] = "done" /\ r # q

(* What the check for duplicates has shown of a request that is to create its row. *)
Checked ==
    \A r, q \in Requests :
        /\ pc[q] = "create"
        /\ r \in Recent
        /\ KeyOf[r] = KeyOf[q]
        /\ r \in before[q]
        /\ status[r] # "failed"
        => q \in dbFailed \/ nth[r] + Window =< created

(* The inductive invariant. *)
Invariant == /\ Types /\ Recorded /\ Called
             /\ RetriedOnlyAfterError /\ StatusTellsOutcome
             /\ Preceding /\ Checked /\ SequentialRequestsOnce

-----------------------------------------------------------------------------
(* The invariant holds at the start. *)
LEMMA InitHolds == Init => Invariant
<1> SUFFICES ASSUME Init PROVE Invariant
  OBVIOUS
<1> USE DEF Init, Recent
<1>1. Types
  BY DEF Types, Labels
<1>2. Recorded /\ Called /\ Preceding
  BY DEF Recorded, Called, Preceding
<1>3. RetriedOnlyAfterError /\ StatusTellsOutcome
  BY DEF RetriedOnlyAfterError, StatusTellsOutcome
<1>4. Checked /\ SequentialRequestsOnce
  BY DEF Checked, SequentialRequestsOnce
<1> QED
  BY <1>1, <1>2, <1>3, <1>4 DEF Invariant

(* A step of one request, by the action that is taken. *)
LEMMA RequestSteps ==
    ASSUME NEW r \in Requests, Invariant, Begin(r) \/ Request(r)
    PROVE  /\ Types'
           /\ UNCHANGED <<aged, listed, tasks>>
           /\ \A q \in Requests \ {r} :
                 /\ pc'[q] = pc[q] /\ status'[q] = status[q] /\ retries'[q] = retries[q]
                 /\ nth'[q] = nth[q] /\ before'[q] = before[q]
                 /\ q \in callFailed' <=> q \in callFailed
                 /\ q \in dbFailed' <=> q \in dbFailed
           /\ created' >= created
           /\ callFailed \subseteq callFailed' /\ dbFailed \subseteq dbFailed'
           /\ pc[r] # "done"
<1> USE DEF Types, Labels, Step, Failing, rows, queue, history
<1> Types
  BY DEF Invariant
<1>1. CASE Begin(r)
  <2>1. Ended \subseteq Requests
    BY DEF Ended
  <2> QED
    BY <1>1, <2>1 DEF Begin
<1>2. CASE Lookup(r)
  BY <1>2 DEF Lookup
<1>3. CASE Create(r)
  BY <1>3 DEF Create
<1>4. CASE Call(r)
  BY <1>4 DEF Call
<1>5. CASE Complete(r)
  BY <1>5 DEF Complete
<1>6. CASE ReadRow(r)
  BY <1>6 DEF ReadRow
<1>7. CASE IncrementRetry(r)
  BY <1>7 DEF IncrementRetry
<1>8. CASE UpdateStatus(r)
  <2>1. PICK outcome \in {<<"mark", "retrying">>, <<"giveUp", "failed">>} :
           /\ Step(r, outcome[1], "done")
           /\ \/ status' = [status EXCEPT ![r] = outcome[2]] /\ UNCHANGED dbFailed
              \/ Failing(r) /\ UNCHANGED status
    BY <1>8 DEF UpdateStatus
  <2>2. CASE outcome = <<"mark", "retrying">>
    BY <1>8, <2>1, <2>2 DEF UpdateStatus
  <2>3. CASE outcome = <<"giveUp", "failed">>
    BY <1>8, <2>1, <2>3 DEF UpdateStatus
  <2> QED
    BY <2>1, <2>2, <2>3
<1> QED
  BY <1>1, <1>2, <1>3, <1>4, <1>5, <1>6, <1>7, <1>8 DEF Request

(* What is recorded of the request that takes the step. *)
LEMMA RowSteps ==
    ASSUME NEW r \in Requests, Invariant, Begin(r) \/ Request(r)
    PROVE  Recorded' /\ Called' /\ StatusTellsOutcome'
<1> USE DEF Types, Labels, Step, Failing, rows, queue, history, Recorded, Called, StatusTellsOutcome
<1>0. Types /\ Recorded /\ Called /\ StatusTellsOutcome
  BY DEF Invariant
<1>1. \A q \in Requests \ {r} :
         /\ pc'[q] = pc[q] /\ status'[q] = status[q] /\ retries'[q] = retries[q] /\ nth'[q] = nth[q]
         /\ q \in callFailed' <=> q \in callFailed
         /\ q \in dbFailed' <=> q \in dbFailed
  BY RequestSteps
<1>2. CASE Begin(r)
  BY <1>0, <1>1, <1>2 DEF Begin
<1>3. CASE Lookup(r)
  BY <1>0, <1>1, <1>3 DEF Lookup
<1>4. CASE Create(r)
  BY <1>0, <1>1, <1>4 DEF Create
<1>5. CASE Call(r)
  BY <1>0, <1>1, <1>5 DEF Call
<1>6. CASE Complete(r)
  BY <1>0, <1>1, <1>6 DEF Complete
<1>7. CASE ReadRow(r)
  BY <1>0, <1>1, <1>7 DEF ReadRow
<1>8. CASE IncrementRetry(r)
  BY <1>0, <1>1, <1>8 DEF IncrementRetry
<1>9. CASE UpdateStatus(r)
  <2>1. /\ Step(r, "mark", "done")
        /\ \/ status' = [status EXCEPT ![r] = "retrying"] /\ UNCHANGED dbFailed
           \/ Failing(r) /\ UNCHANGED status
    BY <1>0, <1>9 DEF UpdateStatus
  <2> QED
    BY <1>0, <1>1, <1>9, <2>1 DEF UpdateStatus
<1> QED
  BY <1>2, <1>3, <1>4, <1>5, <1>6, <1>7, <1>8, <1>9 DEF Request

(* A request that has ended stays so, and only a request that begins looks at those *)
(* that have.                                                                       *)
LEMMA PrecedingSteps ==
    ASSUME NEW r \in Requests, Invariant, Begin(r) \/ Request(r)
    PROVE  Preceding'
<1> USE DEF Types, Labels, Step, Preceding
<1>0. Types /\ Preceding
  BY DEF Invariant
<1>1. /\ \A q \in Requests \ {r} : pc'[q] = pc[q] /\ before'[q] = before[q]
      /\ pc[r] # "done"
  BY RequestSteps
<1>2. CASE Begin(r)
  BY <1>0, <1>1, <1>2 DEF Begin, Ended
<1>3. CASE Request(r)
  <2>1. pc[r] # "idle" /\ pc'[r] # "idle" /\ UNCHANGED before
    BY <1>0, <1>3 DEF Request, Lookup, Create, Call, Complete, ReadRow, IncrementRetry,
                      UpdateStatus, history
  <2> QED
    BY <1>0, <1>1, <2>1
<1> QED
  BY <1>2, <1>3

(* A check that is passed without a failure has seen every row that can be a duplicate; *)
(* the row that is then created comes after those it has seen.                          *)
LEMMA DuplicateSteps ==
    ASSUME NEW r \in Requests, Invariant, Begin(r) \/ Request(r)
    PROVE  Checked' /\ SequentialRequestsOnce'
<1> USE DEF Types, Labels
<1>0. /\ Types /\ Recorded /\ Preceding /\ Checked /\ SequentialRequestsOnce
      /\ Types' /\ Preceding'
  BY RequestSteps, PrecedingSteps DEF Invariant
<1>1. /\ UNCHANGED aged
      /\ \A q \in Requests \ {r} :
            /\ pc'[q] = pc[q] /\ status'[q] = status[q]
            /\ nth'[q] = nth[q] /\ before'[q] = before[q]
      /\ created' >= created
      /\ dbFailed \subseteq dbFailed'
      /\ pc[r] # "done"
  BY RequestSteps
<1>2. \A q \in Requests : r \notin before[q]
  BY <1>0, <1>1 DEF Preceding
<1>3. CASE Begin(r)
  <2>1. pc'[r] = "lookup" /\ nth'[r] = nth[r] /\ nth[r] = 0
    BY <1>0, <1>3 DEF Begin, Step, rows, Recorded
  <2>2. \A q \in Requests : r \notin Recent' /\ (q \in Recent' <=> q \in Recent)
    BY <1>0, <1>1, <2>1, <1>3 DEF Recent, Begin
  <2>3. \A p, q \in Requests : p \in before'[q] /\ p \in Recent' /\ (pc'[q] = "create" \/ q \in Recent')
           => p # r /\ q # r
    BY <2>1, <2>2
  <2>4. ASSUME NEW q \in Requests \ {r}, NEW p \in Requests \ {r}
        PROVE  /\ pc'[q] = pc[q] /\ nth'[q] = nth[q] /\ nth'[p] = nth[p] /\ status'[p] = status[p]
               /\ before'[q] = before[q]
               /\ p \in Recent' <=> p \in Recent
               /\ q \in Recent' <=> q \in Recent
    BY <1>1, <2>2
  <2>5. Checked'
    BY <1>0, <1>1, <2>3, <2>4 DEF Checked
  <2>6. SequentialRequestsOnce'
    BY <1>0, <1>1, <2>2, <2>3, <2>4 DEF SequentialRequestsOnce, Recent
  <2> QED
    BY <2>5, <2>6
<1>4. CASE Request(r)
  <2>1. UNCHANGED before
    BY <1>4 DEF Request, Lookup, Create, Call, Complete, ReadRow, IncrementRetry,
                UpdateStatus, history
  <2>2. \A p, q \in Requests : p \in before'[q]
           => /\ p # r /\ status'[p] = status[p] /\ nth'[p] = nth[p] /\ (p \in Recent' <=> p \in Recent)
    BY <1>0, <1>1, <1>2, <2>1 DEF Recent
  <2>3. ASSUME NEW q \in Requests \ {r}, NEW p \in Requests, p \in before'[q], p \in Recent',
               KeyOf[p] = KeyOf[q], status'[p] # "failed"
        PROVE  /\ pc'[q] = "create" => q \in dbFailed' \/ nth'[p] + Window =< created'
               /\ q \in Recent' => q \in dbFailed' \/ nth'[p] + Window < nth'[q]
    <3>1. p \in before[q] /\ p \in Recent /\ status[p] # "failed" /\ nth'[p] = nth[p]
      BY <2>1, <2>2, <2>3
    <3>2. q \in Recent' => q \in Recent
      BY <1>1 DEF Recent
    <3>3. pc[q] = "create" => q \in dbFailed \/ nth[p] + Window =< created
      BY <1>0, <2>3, <3>1 DEF Checked
    <3>4. q \in Recent => q \in dbFailed \/ nth[p] + Window < nth[q]
      BY <1>0, <2>3, <3>1 DEF SequentialRequestsOnce
    <3> QED
      BY <1>0, <1>1, <3>1, <3>2, <3>3, <3>4
  <2>4. ASSUME NEW p \in Requests, p \in before'[r], p \in Recent',
               KeyOf[p] = KeyOf[r], status'[p] # "failed"
        PROVE  /\ pc'[r] = "create" => r \in dbFailed' \/ nth'[p] + Window =< created'
               /\ r \in Recent' => r \in dbFailed' \/ nth'[p] + Window < nth'[r]
    <3>1. p \in before[r] /\ p \in Recent /\ status[p] # "failed" /\ nth'[p] = nth[p] /\ p # r
      BY <2>1, <2>2, <2>4
    <3>2. nth[p] # 0 /\ status[p] # "none"
      BY <1>0, <3>1 DEF Recent, Recorded
    <3>3. CASE Lookup(r)
      <4>1. nth'[r] = 0 /\ r \notin Recent'
        BY <1>0, <3>3 DEF Lookup, Step, rows, Recorded, Recent
      <4>2. CASE r \in dbFailed'
        BY <4>1, <4>2
      <4>3. CASE pc'[r] = "create" /\ Duplicates(r) = {}
        <5>1. p \notin Newest
          BY <2>4, <3>1, <4>3 DEF Duplicates
        <5>2. nth[p] + Window =< created
          BY <1>0, <3>2, <5>1 DEF Newest
        <5> QED
          BY <1>0, <1>1, <3>1, <4>1, <5>2
      <4>4. CASE pc'[r] # "create"
        BY <4>1, <4>4
      <4>5. r \in dbFailed' \/ (pc'[r] = "create" /\ Duplicates(r) = {}) \/ pc'[r] # "create"
        BY <1>0, <3>3 DEF Lookup, Step, Failing
      <4> QED
        BY <4>2, <4>3, <4>4, <4>5
    <3>4. CASE Create(r)
      <4>1. r \in dbFailed \/ nth[p] + Window =< created
        BY <1>0, <2>4, <3>1, <3>4 DEF Checked, Create, Step
      <4>2. pc'[r] # "create"
        BY <1>0, <3>4 DEF Create, Step
      <4>3. CASE nth'[r] = created + 1
        BY <1>0, <1>1, <3>1, <4>1, <4>2, <4>3
      <4>4. CASE r \in dbFailed'
        BY <4>4
      <4> QED
        BY <1>0, <3>4, <4>3, <4>4 DEF Create, Failing
    <3>5. CASE Call(r) \/ Complete(r) \/ ReadRow(r) \/ IncrementRetry(r) \/ UpdateStatus(r)
      <4>1. pc'[r] # "create" /\ nth'[r] = nth[r]
        BY <1>0, <3>5 DEF Call, Complete, ReadRow, IncrementRetry, UpdateStatus, Step, rows
      <4>2. r \in Recent' => r \in Recent
        BY <1>1, <4>1 DEF Recent
      <4>3. r \in Recent => r \in dbFailed \/ nth[p] + Window < nth[r]
        BY <1>0, <2>4, <3>1 DEF SequentialRequestsOnce
      <4> QED
        BY <1>1, <3>1, <4>1, <4>2, <4>3
    <3> QED
      BY <1>4, <3>3, <3>4, <3>5 DEF Request
  <2>5. Recent' \subseteq Requests
    BY DEF Recent
  <2> QED
    BY <2>3, <2>4, <2>5 DEF Checked, SequentialRequestsOnce
<1> QED
  BY <1>3, <1>4

-----------------------------------------------------------------------------
(* The other steps leave the rows and what their requests have seen alone. *)
LEMMA OtherSteps ==
    ASSUME Invariant,
           List \/ Age \/ Crash \/ (\E r \in Requests : Enqueue(r)) \/ UNCHANGED vars
    PROVE  Invariant'
<1> USE DEF Types, Labels
<1>0. /\ Types /\ Recorded /\ Called /\ RetriedOnlyAfterError /\ StatusTellsOutcome
      /\ Preceding /\ Checked /\ SequentialRequestsOnce
  BY DEF Invariant
<1>1. UNCHANGED <<rows, history>>
  BY DEF List, Age, Crash, Enqueue, vars, rows, history, queue
<1>2. \A r \in Requests :
        \/ pc'[r] = pc[r]
        \/ pc[r] \notin {"idle", "done"} /\ pc'[r] = "dead"
  <2>1. CASE Crash
    BY <1>0, <2>1 DEF Crash
  <2>2. CASE UNCHANGED pc
    BY <2>2
  <2> QED
    BY <2>1, <2>2 DEF List, Age, Enqueue, vars
<1>3. Types'
  <2>1. CASE List
    BY <1>0, <1>1, <2>1 DEF List, ListPending, Open, rows, history
  <2>2. CASE Age
    BY <1>0, <1>1, <2>2 DEF Age, rows, queue, history
  <2>3. CASE Crash
    BY <1>0, <1>1, <2>3 DEF Crash, rows, history
  <2>4. ASSUME NEW r \in Requests, Enqueue(r) PROVE Types'
    BY <1>0, <1>1, <2>4 DEF Enqueue, rows, history
  <2>5. CASE UNCHANGED vars
    BY <1>0, <2>5 DEF vars
  <2> QED
    BY <2>1, <2>2, <2>3, <2>4, <2>5
<1>4. Recorded' /\ Called' /\ StatusTellsOutcome'
  BY <1>0, <1>1, <1>2 DEF Recorded, Called, StatusTellsOutcome, rows, history
<1>5. RetriedOnlyAfterError'
  <2>1. CASE List
    <3>1. \A r \in listed' : r \in Requests /\ status[r] = "retrying"
      BY <2>1 DEF List, ListPending, Open, ShouldRetry
    <3> QED
      BY <1>0, <2>1, <3>1 DEF List, StatusTellsOutcome, RetriedOnlyAfterError, history
  <2>2. CASE Age \/ Crash \/ UNCHANGED vars
    BY <1>0, <2>2 DEF Age, Crash, vars, RetriedOnlyAfterError, queue, history
  <2>3. ASSUME NEW r \in Requests, Enqueue(r) PROVE RetriedOnlyAfterError'
    BY <1>0, <2>3 DEF Enqueue, RetriedOnlyAfterError, history
  <2> QED
    BY <2>1, <2>2, <2>3
<1>6. Preceding'
  BY <1>0, <1>1, <1>2 DEF Preceding, history
<1>7. aged' = aged \/ aged' = aged + 1
  BY DEF List, Age, Crash, Enqueue, vars
<1>8. Recent' \subseteq Recent
  <2>1. UNCHANGED nth
    BY <1>1 DEF rows
  <2> QED
    BY <1>0, <1>3, <1>7, <2>1 DEF Recent
<1>9. Checked' /\ SequentialRequestsOnce'
  <2>1. UNCHANGED <<status, nth, created, dbFailed, before>>
    BY <1>1 DEF rows, history
  <2>2. \A q \in Requests : pc'[q] = "create" => pc[q] = "create"
    BY <1>2
  <2>3. Checked'
    BY <1>0, <1>8, <2>1, <2>2 DEF Checked
  <2>4. SequentialRequestsOnce'
    BY <1>0, <1>8, <2>1 DEF SequentialRequestsOnce
  <2> QED
    BY <2>3, <2>4
<1> QED
  BY <1>3, <1>4, <1>5, <1>6, <1>9 DEF Invariant

(* And in every state. *)
LEMMA InvariantHolds == Spec => []Invariant
<1>1. Invariant /\ [Next]_vars => Invariant'
  <2> SUFFICES ASSUME Invariant, [Next]_vars PROVE Invariant'
    OBVIOUS
  <2>1. ASSUME NEW r \in Requests, Begin(r) \/ Request(r) PROVE Invariant'
    <3>1. RetriedOnlyAfterError'
      BY <2>1, RequestSteps DEF Invariant, RetriedOnlyAfterError
    <3> QED
      BY <2>1, <3>1, RequestSteps, RowSteps, PrecedingSteps, DuplicateSteps DEF Invariant
  <2> QED
    BY <2>1, OtherSteps DEF Next
<1> QED
  BY <1>1, InitHolds, PTL DEF Spec

-----------------------------------------------------------------------------
(* Every variable keeps its type, and a row has a date exactly when it exists. *)
THEOREM TypeCorrect == Spec => []TypeOK
<1>1. Invariant => TypeOK
  BY DEF Invariant, Types, Labels, Recorded, TypeOK
<1> QED
  BY <1>1, InvariantHolds, PTL

(* Of two requests with one key of which one follows the other, both are recorded only *)
(* if a read failed or Window rows came between.                                       *)
THEOREM SequentialOnce == Spec => []SequentialRequestsOnce
<1>1. Invariant => SequentialRequestsOnce
  BY DEF Invariant
<1> QED
  BY <1>1, InvariantHolds, PTL

(* Only an operation whose call returned an error is put on the retry queue. *)
THEOREM RetriesFollowErrors == Spec => []RetriedOnlyAfterError
<1>1. Invariant => RetriedOnlyAfterError
  BY DEF Invariant
<1> QED
  BY <1>1, InvariantHolds, PTL

(* The status of an operation agrees with what became of its call. *)
THEOREM StatusIsOutcome == Spec => []StatusTellsOutcome
<1>1. Invariant => StatusTellsOutcome
  BY DEF Invariant
<1> QED
  BY <1>1, InvariantHolds, PTL
=============================================================================
