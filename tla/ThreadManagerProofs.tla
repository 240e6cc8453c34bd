------------------------- MODULE ThreadManagerProofs -------------------------
(***************************************************************************)
(* The safety of ThreadManager for any number of callers and of restarts.  *)
(***************************************************************************)
EXTENDS ThreadManager, TLAPS

(* Workers are created in order; only created ones are told to stop or     *)
(* held.                                                                   *)
CreatedInOrder ==
    /\ \A g \in Workers : worker[g] = "none" <=> g > started
    /\ told \subseteq 1..started
    /\ worker_thread <= started

(* worker_finished speaks of the worker the manager holds.                 *)
FinishedIsCurrent ==
    worker_thread # 0 =>
        (worker_finished <=> worker[worker_thread] \in {"finished", "exited"})

(* A caller in join() has a thread to join.                                *)
HasThreadToJoin ==
    \A c \in Callers : pc[c] = "joining" => thread_to_join[c] \in Workers

Inv ==
    /\ TypeOK
    /\ CreatedInOrder
    /\ FinishedIsCurrent
    /\ HasThreadToJoin
    /\ HandleMatchesRunning
    /\ WorkerIsHeld
    /\ StopIsNotLost
    /\ JoinsAreBrief

(* Init establishes the invariant.                                         *)
LEMMA InitInv == Init => Inv
<1> SUFFICES ASSUME Init PROVE Inv
  OBVIOUS
<1> USE ThreadManagerAssumption DEF Init, Workers
<1>1. TypeOK
  <2>1. /\ running \in BOOLEAN
        /\ worker_finished \in BOOLEAN
        /\ stop_requested \in BOOLEAN
        /\ timed \in [Callers -> BOOLEAN]
    BY Zenon
  <2>2. /\ worker_thread \in 0..MaxStarts
        /\ started \in 0..MaxStarts
        /\ thread_to_join \in [Callers -> 0..MaxStarts]
        /\ told \subseteq Workers
    OBVIOUS
  <2> QED
    BY <2>1, <2>2 DEF TypeOK
<1>2. CreatedInOrder /\ FinishedIsCurrent /\ HasThreadToJoin
  BY DEF CreatedInOrder, FinishedIsCurrent, HasThreadToJoin
<1>3. HandleMatchesRunning /\ WorkerIsHeld /\ StopIsNotLost /\ JoinsAreBrief
  BY DEF HandleMatchesRunning, WorkerIsHeld, StopIsNotLost, JoinsAreBrief
<1> QED
  BY <1>1, <1>2, <1>3 DEF Inv

(* CompleteJoin moves out a worker that is past its function, once.        *)
LEMMA CompleteJoinInv ==
    ASSUME Inv, NEW c \in Callers, pc[c] # "joining", worker_finished, CompleteJoin(c)
    PROVE  Inv'
<1> USE ThreadManagerAssumption DEF Workers, Return
<1>1. TypeOK'
  <2>1. running' \in BOOLEAN /\ timed' \in [Callers -> BOOLEAN]
    <3>1. running' \in {running, FALSE} /\ timed' = [timed EXCEPT ![c] = FALSE]
      BY DEF CompleteJoin, ClearsRunning
    <3> QED
      BY <3>1, Zenon DEF Inv, TypeOK
  <2>2. /\ worker_thread' \in 0..MaxStarts
        /\ thread_to_join' \in [Callers -> 0..MaxStarts]
    <3>1. /\ worker_thread' \in {worker_thread, 0}
          /\ \/ thread_to_join' = thread_to_join
             \/ thread_to_join' = [thread_to_join EXCEPT ![c] = worker_thread]
      BY DEF CompleteJoin, MovedOut
    <3>2. worker_thread' \in 0..MaxStarts
      BY <3>1 DEF Inv, TypeOK
    <3>3. thread_to_join' \in [Callers -> 0..MaxStarts]
      BY <3>1 DEF Inv, TypeOK
    <3> QED
      BY <3>2, <3>3
  <2>3. /\ pc' \in [Callers -> {"idle", "waiting", "woken", "expired", "joining"}]
        /\ ret' \in [Callers -> {"none", "SUCCESS", "ALREADY_RUNNING",
                                 "NOT_RUNNING", "THREAD_CREATION_FAILED",
                                 "JOIN_FAILED", "JOIN_TIMEOUT"}]
    BY DEF Inv, TypeOK, CompleteJoin
  <2> QED
    BY <2>1, <2>2, <2>3 DEF Inv, TypeOK, CompleteJoin
<1>2. CASE ~running
  <2>1. /\ pc' = [pc EXCEPT ![c] = "idle"]
        /\ ret' = [ret EXCEPT ![c] = "NOT_RUNNING"]
        /\ UNCHANGED <<running, worker_thread, thread_to_join, worker_finished,
                       stop_requested, started, worker, told>>
    BY <1>2 DEF CompleteJoin
  <2>2. CreatedInOrder' /\ FinishedIsCurrent' /\ WorkerIsHeld' /\ StopIsNotLost'
    BY <2>1 DEF Inv, CreatedInOrder, FinishedIsCurrent, WorkerIsHeld, StopIsNotLost
  <2>3. HasThreadToJoin' /\ JoinsAreBrief'
    BY <2>1 DEF Inv, TypeOK, HasThreadToJoin, JoinsAreBrief
  <2>4. HandleMatchesRunning'
    BY <2>1 DEF Inv, TypeOK, HandleMatchesRunning
  <2> QED
    BY <1>1, <2>2, <2>3, <2>4 DEF Inv
<1>3. CASE running
  <2>1. worker_thread # 0 /\ worker_thread \in Workers
    BY <1>3 DEF Inv, TypeOK, HandleMatchesRunning
  <2>2. /\ thread_to_join' = [thread_to_join EXCEPT ![c] = worker_thread]
        /\ worker_thread' = 0
        /\ running' = FALSE
        /\ pc' = [pc EXCEPT ![c] = "joining"]
        /\ UNCHANGED <<ret, worker_finished, stop_requested, started, worker, told>>
    BY <1>3, <2>1 DEF CompleteJoin, MovedOut, ClearsRunning
  <2>3. worker[worker_thread] \in {"finished", "exited"}
    BY <2>1 DEF Inv, FinishedIsCurrent
  <2>4. CreatedInOrder' /\ FinishedIsCurrent' /\ HandleMatchesRunning'
    BY <2>2 DEF TypeOK, Inv, CreatedInOrder, FinishedIsCurrent, HandleMatchesRunning
  <2>5. WorkerIsHeld'
    BY <2>2, <2>3 DEF Inv, WorkerIsHeld
  <2>6. StopIsNotLost'
    BY <2>2 DEF Inv, StopIsNotLost
  <2>7. HasThreadToJoin'
    BY <2>1, <2>2 DEF Inv, TypeOK, HasThreadToJoin
  <2>8. JoinsAreBrief'
    BY <2>1, <2>2, <2>3 DEF Inv, TypeOK, HasThreadToJoin, JoinsAreBrief
  <2> QED
    BY <1>1, <2>4, <2>5, <2>6, <2>7, <2>8 DEF Inv
<1> QED
  BY <1>2, <1>3

(* A step of one caller that neither starts nor ends a join(), nor touches *)
(* what the manager keeps, preserves the invariant.                        *)
LEMMA CallerOnlyInv ==
    ASSUME Inv, TypeOK', NEW c \in Callers,
           pc[c] # "joining", pc'[c] # "joining", ret'[c] # "JOIN_FAILED",
           \A d \in Callers \ {c} : pc'[d] = pc[d] /\ ret'[d] = ret[d],
           UNCHANGED <<running, worker_finished, worker_thread, stop_requested,
                       started, worker, thread_to_join, told>>
    PROVE  Inv'
<1>1. CreatedInOrder' /\ FinishedIsCurrent' /\ WorkerIsHeld' /\ StopIsNotLost'
  BY DEF Inv, CreatedInOrder, FinishedIsCurrent, WorkerIsHeld, StopIsNotLost
<1>2. HasThreadToJoin' /\ JoinsAreBrief'
  BY DEF Inv, HasThreadToJoin, JoinsAreBrief
<1>3. HandleMatchesRunning'
  BY DEF Inv, HandleMatchesRunning
<1> QED
  BY <1>1, <1>2, <1>3 DEF Inv

(* Start creates the next worker; no other one is inside its function.     *)
LEMMA StartInv ==
    ASSUME Inv, NEW c \in Callers, Start(c)
    PROVE  Inv'
<1> USE ThreadManagerAssumption DEF Workers, Return
<1>1. /\ ~running
      /\ worker_thread = 0
      /\ started \in Nat
      /\ started + 1 \in Workers
      /\ pc[c] = "idle"
  BY DEF Start, AlreadyRunning, Inv, TypeOK, HandleMatchesRunning
<1>2. /\ stop_requested' = FALSE
      /\ worker_finished' = FALSE
      /\ started' = started + 1
      /\ worker_thread' = started + 1
      /\ worker' = [worker EXCEPT ![started + 1] = "run"]
      /\ running' = TRUE
      /\ pc' = [pc EXCEPT ![c] = "idle"]
      /\ ret' = [ret EXCEPT ![c] = "SUCCESS"]
      /\ UNCHANGED <<timed, thread_to_join, told>>
  BY DEF Start, FinishedReset
<1>3. TypeOK'
  <2>1. /\ running' \in BOOLEAN
        /\ worker_finished' \in BOOLEAN
        /\ stop_requested' \in BOOLEAN
    BY <1>2, Zenon
  <2>2. worker_thread' \in 0..MaxStarts /\ started' \in 0..MaxStarts
    BY <1>1, <1>2
  <2> QED
    BY <1>2, <2>1, <2>2 DEF Inv, TypeOK
<1>4. CreatedInOrder'
  <2>1. \A g \in Workers : worker'[g] = "none" <=> g > started'
    BY <1>1, <1>2 DEF Inv, TypeOK, CreatedInOrder
  <2>2. told' \subseteq 1..started'
    BY <1>1, <1>2 DEF Inv, CreatedInOrder
  <2> QED
    BY <1>1, <1>2, <2>1, <2>2 DEF CreatedInOrder
<1>5. FinishedIsCurrent'
  BY <1>1, <1>2 DEF Inv, TypeOK, FinishedIsCurrent
<1>6. HasThreadToJoin'
  BY <1>1, <1>2 DEF Inv, TypeOK, HasThreadToJoin
<1>7. HandleMatchesRunning'
  BY <1>1, <1>2 DEF Inv, TypeOK, HandleMatchesRunning
<1>8. WorkerIsHeld'
  BY <1>1, <1>2 DEF Inv, TypeOK, WorkerIsHeld
<1>9. StopIsNotLost'
  <2>1. \A g \in told : g \in Workers /\ g # started + 1 /\ worker[g] # "run"
    BY <1>1 DEF Inv, TypeOK, CreatedInOrder, WorkerIsHeld
  <2> QED
    BY <1>2, <2>1 DEF Inv, TypeOK, StopIsNotLost
<1>10. JoinsAreBrief'
  <2>1. worker[started + 1] = "none"
    BY <1>1 DEF Inv, CreatedInOrder
  <2>2. \A d \in Callers : pc'[d] = "joining" =>
            /\ pc[d] = "joining"
            /\ thread_to_join[d] # started + 1
    BY <1>1, <1>2, <2>1 DEF Inv, TypeOK, JoinsAreBrief
  <2>3. \A d \in Callers : pc'[d] = "joining" =>
            worker'[thread_to_join[d]] = worker[thread_to_join[d]]
    BY <1>2, <2>2 DEF Inv, TypeOK
  <2> QED
    BY <1>2, <2>2, <2>3 DEF Inv, JoinsAreBrief
<1> QED
  BY <1>3, <1>4, <1>5, <1>6, <1>7, <1>8, <1>9, <1>10 DEF Inv

(* A Start that cannot create the thread changes no worker.                *)
LEMMA StartFailsInv ==
    ASSUME Inv, NEW c \in Callers, StartFails(c)
    PROVE  Inv'
<1> USE DEF Workers, Return
<1>1. ~running /\ worker_thread = 0
  BY DEF StartFails, AlreadyRunning, Inv, HandleMatchesRunning
<1>2. /\ stop_requested' = FALSE
      /\ worker_finished' = FALSE
      /\ running' = FALSE
      /\ pc[c] = "idle"
      /\ pc' = [pc EXCEPT ![c] = "idle"]
      /\ ret' = [ret EXCEPT ![c] = "THREAD_CREATION_FAILED"]
      /\ UNCHANGED <<worker_thread, started, worker, timed, thread_to_join, told>>
  BY DEF StartFails, FinishedReset
<1>3. TypeOK'
  <2>1. /\ running' \in BOOLEAN
        /\ worker_finished' \in BOOLEAN
        /\ stop_requested' \in BOOLEAN
    BY <1>2, Zenon
  <2> QED
    BY <1>2, <2>1 DEF Inv, TypeOK
<1>4. CreatedInOrder' /\ FinishedIsCurrent' /\ WorkerIsHeld'
  BY <1>1, <1>2 DEF Inv, CreatedInOrder, FinishedIsCurrent, WorkerIsHeld
<1>5. HasThreadToJoin' /\ JoinsAreBrief'
  BY <1>2 DEF Inv, TypeOK, HasThreadToJoin, JoinsAreBrief
<1>6. HandleMatchesRunning'
  BY <1>1, <1>2 DEF Inv, TypeOK, HandleMatchesRunning
<1>7. StopIsNotLost'
  <2>1. \A g \in told : g \in Workers /\ worker[g] # "run"
    BY <1>1 DEF Inv, TypeOK, WorkerIsHeld
  <2> QED
    BY <1>2, <2>1 DEF StopIsNotLost
<1> QED
  BY <1>3, <1>4, <1>5, <1>6, <1>7 DEF Inv

(* Stop sets the token of the worker the manager holds.                    *)
LEMMA StopInv ==
    ASSUME Inv, NEW c \in Callers, Stop(c)
    PROVE  Inv'
<1> USE DEF Workers, Return
<1>1. /\ pc[c] = "idle"
      /\ pc' = [pc EXCEPT ![c] = "idle"]
      /\ UNCHANGED <<running, worker_finished, worker_thread, started, worker,
                     timed, thread_to_join>>
  BY DEF Stop
<1>2. \/ /\ running
         /\ stop_requested' = TRUE
         /\ told' = told \cup {worker_thread}
         /\ ret' = [ret EXCEPT ![c] = "SUCCESS"]
      \/ /\ ret' = [ret EXCEPT ![c] = "NOT_RUNNING"]
         /\ UNCHANGED <<stop_requested, told>>
  BY DEF Stop, Stoppable
<1>3. running => worker_thread \in 1..started /\ worker_thread \in Workers
  <2> SUFFICES ASSUME running
               PROVE  worker_thread \in 1..started /\ worker_thread \in Workers
    OBVIOUS
  <2>1. worker_thread # 0 /\ worker_thread \in Workers
    BY DEF Inv, TypeOK, HandleMatchesRunning
  <2> QED
    BY <2>1 DEF Inv, TypeOK, CreatedInOrder
<1>4. TypeOK'
  <2>1. stop_requested' \in BOOLEAN
    BY <1>2, Zenon DEF Inv, TypeOK
  <2>2. told' \subseteq Workers
    BY <1>2, <1>3 DEF Inv, TypeOK
  <2>3. ret' \in [Callers -> {"none", "SUCCESS", "ALREADY_RUNNING",
                             "NOT_RUNNING", "THREAD_CREATION_FAILED",
                             "JOIN_FAILED", "JOIN_TIMEOUT"}]
    BY <1>2 DEF Inv, TypeOK
  <2> QED
    BY <1>1, <2>1, <2>2, <2>3 DEF Inv, TypeOK
<1>5. CreatedInOrder'
  BY <1>1, <1>2, <1>3 DEF Inv, CreatedInOrder
<1>6. FinishedIsCurrent' /\ WorkerIsHeld'
  BY <1>1 DEF Inv, FinishedIsCurrent, WorkerIsHeld
<1>7. HasThreadToJoin' /\ JoinsAreBrief'
  BY <1>1 DEF Inv, TypeOK, HasThreadToJoin, JoinsAreBrief
<1>8. HandleMatchesRunning'
  BY <1>1, <1>2 DEF Inv, TypeOK, HandleMatchesRunning
<1>9. StopIsNotLost'
  BY <1>1, <1>2 DEF Inv, StopIsNotLost
<1> QED
  BY <1>4, <1>5, <1>6, <1>7, <1>8, <1>9 DEF Inv

(* Steps of a worker: its function returns, its epilogue reports that, it  *)
(* exits.                                                                  *)
LEMMA WorkerInv ==
    ASSUME Inv, NEW g \in Workers, WorkerStep(g)
    PROVE  Inv'
<1> USE DEF Workers
<1>1. CASE WorkerReturns(g)
  <2>1. /\ worker[g] = "run"
        /\ worker' = [worker EXCEPT ![g] = "returned"]
        /\ UNCHANGED <<running, worker_finished, worker_thread, stop_requested,
                       started, pc, timed, thread_to_join, ret, told>>
    BY <1>1 DEF WorkerReturns
  <2>2. TypeOK'
    BY <2>1 DEF Inv, TypeOK
  <2>3. CreatedInOrder' /\ FinishedIsCurrent' /\ HasThreadToJoin'
    BY <2>1 DEF Inv, TypeOK, CreatedInOrder, FinishedIsCurrent, HasThreadToJoin
  <2>4. HandleMatchesRunning' /\ WorkerIsHeld' /\ StopIsNotLost'
    BY <2>1 DEF Inv, TypeOK, HandleMatchesRunning, WorkerIsHeld, StopIsNotLost
  <2>5. JoinsAreBrief'
    BY <2>1 DEF Inv, TypeOK, HasThreadToJoin, JoinsAreBrief
  <2> QED
    BY <2>2, <2>3, <2>4, <2>5 DEF Inv
<1>2. CASE WorkerFinishes(g)
  <2>1. /\ worker[g] = "returned"
        /\ worker' = [worker EXCEPT ![g] = "finished"]
        /\ worker_finished' = TRUE
        /\ UNCHANGED <<running, worker_thread, stop_requested, started, timed,
                       thread_to_join, ret, told>>
    BY <1>2 DEF WorkerFinishes
  <2>2. pc' = [c \in Callers |-> IF pc[c] \in {"waiting", "expired"}
                                 THEN "woken" ELSE pc[c]]
    BY <1>2 DEF WorkerFinishes, NotifiedByAll
  <2>3. worker_thread = g
    BY <2>1 DEF Inv, WorkerIsHeld
  <2>4. TypeOK'
    <3>1. worker_finished' \in BOOLEAN
      BY <2>1, Zenon
    <3>2. pc' \in [Callers -> {"idle", "waiting", "woken", "expired", "joining"}]
      BY <2>2 DEF Inv, TypeOK
    <3> QED
      BY <2>1, <3>1, <3>2 DEF Inv, TypeOK
  <2>5. CreatedInOrder' /\ FinishedIsCurrent'
    BY <2>1, <2>3 DEF Inv, TypeOK, CreatedInOrder, FinishedIsCurrent
  <2>6. HandleMatchesRunning' /\ WorkerIsHeld' /\ StopIsNotLost'
    BY <2>1 DEF Inv, TypeOK, HandleMatchesRunning, WorkerIsHeld, StopIsNotLost
  <2>7. \A c \in Callers : pc'[c] = "joining" <=> pc[c] = "joining"
    BY <2>2 DEF Inv, TypeOK
  <2>8. HasThreadToJoin' /\ JoinsAreBrief'
    BY <2>1, <2>7 DEF Inv, TypeOK, HasThreadToJoin, JoinsAreBrief
  <2> QED
    BY <2>4, <2>5, <2>6, <2>8 DEF Inv
<1>3. CASE WorkerExits(g)
  <2>1. /\ worker[g] = "finished"
        /\ worker' = [worker EXCEPT ![g] = "exited"]
        /\ UNCHANGED <<running, worker_finished, worker_thread, stop_requested,
                       started, pc, timed, thread_to_join, ret, told>>
    BY <1>3 DEF WorkerExits
  <2>2. TypeOK'
    BY <2>1 DEF Inv, TypeOK
  <2>3. CreatedInOrder' /\ FinishedIsCurrent' /\ HasThreadToJoin'
    BY <2>1 DEF Inv, TypeOK, CreatedInOrder, FinishedIsCurrent, HasThreadToJoin
  <2>4. HandleMatchesRunning' /\ WorkerIsHeld' /\ StopIsNotLost'
    BY <2>1 DEF Inv, TypeOK, HandleMatchesRunning, WorkerIsHeld, StopIsNotLost
  <2>5. JoinsAreBrief'
    BY <2>1 DEF Inv, TypeOK, HasThreadToJoin, JoinsAreBrief
  <2> QED
    BY <2>2, <2>3, <2>4, <2>5 DEF Inv
<1> QED
  BY <1>1, <1>2, <1>3 DEF WorkerStep

(* A caller that parks, wakes up or gives up moves only itself.            *)
LEMMA WaitInv ==
    ASSUME Inv, NEW c \in Callers, pc[c] # "joining", NEW isTimed \in BOOLEAN,
           Wait(c, isTimed)
    PROVE  Inv'
<1>1. TypeOK'
  <2>1. timed' \in [Callers -> BOOLEAN]
    BY Zenon DEF Wait, Inv, TypeOK
  <2> QED
    BY <2>1 DEF Wait, Inv, TypeOK
<1>2. \A d \in Callers \ {c} : pc'[d] = pc[d] /\ ret'[d] = ret[d]
  BY DEF Wait, Inv, TypeOK
<1>3. pc'[c] = "waiting" /\ ret'[c] # "JOIN_FAILED"
  BY DEF Wait, Inv, TypeOK, HandleMatchesRunning
<1> QED
  BY <1>1, <1>2, <1>3, CallerOnlyInv DEF Wait

(* Every step preserves the invariant.                                     *)
LEMMA NextInv == Inv /\ [Next]_vars => Inv'
<1> SUFFICES ASSUME Inv, [Next]_vars PROVE Inv'
  OBVIOUS
<1> USE DEF Return
<1>1. ASSUME NEW c \in Callers, Start(c) \/ StartFails(c) \/ Stop(c)
      PROVE  Inv'
  BY <1>1, StartInv, StartFailsInv, StopInv
<1>2. ASSUME NEW c \in Callers, StartRejected(c)
      PROVE  Inv'
  <2>1. TypeOK'
    BY <1>2 DEF StartRejected, TokenAfterRejection, Inv, TypeOK
  <2> QED
    BY <1>2, <2>1, CallerOnlyInv DEF StartRejected, TokenAfterRejection, Inv, TypeOK
<1>3. ASSUME NEW c \in Callers, NEW isTimed \in BOOLEAN, Join(c, isTimed)
      PROVE  Inv'
  <2>1. CASE ~running
    <3>1. TypeOK'
      BY <1>3, <2>1 DEF Join, Inv, TypeOK
    <3> QED
      BY <1>3, <2>1, <3>1, CallerOnlyInv DEF Join, Inv, TypeOK
  <2>2. CASE running /\ worker_finished
    BY <1>3, <2>2, CompleteJoinInv DEF Join
  <2>3. CASE running /\ ~worker_finished
    BY <1>3, <2>3, WaitInv DEF Join
  <2> QED
    BY <2>1, <2>2, <2>3
<1>4. ASSUME NEW c \in Callers, JoinWakes(c)
      PROVE  Inv'
  <2>1. CASE worker_finished
    BY <1>4, <2>1, CompleteJoinInv DEF JoinWakes
  <2>2. CASE ~worker_finished
    <3>1. timed[c] \in BOOLEAN
      BY Zenon DEF Inv, TypeOK
    <3> QED
      BY <1>4, <2>2, <3>1, WaitInv DEF JoinWakes
  <2> QED
    BY <2>1, <2>2
<1>5. ASSUME NEW c \in Callers, WaitEnds(c)
      PROVE  Inv'
  <2>1. TypeOK'
    BY <1>5 DEF WaitEnds, Inv, TypeOK
  <2>2. ret'[c] # "JOIN_FAILED"
    BY <1>5 DEF WaitEnds, Inv, HandleMatchesRunning
  <2> QED
    BY <1>5, <2>1, <2>2, CallerOnlyInv DEF WaitEnds, Inv, TypeOK
<1>6. ASSUME NEW c \in Callers, JoinTimesOut(c)
      PROVE  Inv'
  <2>1. CASE worker_finished
    BY <1>6, <2>1, CompleteJoinInv DEF JoinTimesOut
  <2>2. CASE ~worker_finished
    <3>1. timed' \in [Callers -> BOOLEAN]
      BY <1>6, <2>2, Zenon DEF JoinTimesOut, Inv, TypeOK
    <3>2. TypeOK'
      BY <1>6, <2>2, <3>1 DEF JoinTimesOut, Inv, TypeOK
    <3> QED
      BY <1>6, <2>2, <3>2, CallerOnlyInv DEF JoinTimesOut, Inv, TypeOK
  <2> QED
    BY <2>1, <2>2
<1>7. ASSUME NEW c \in Callers, JoinReturns(c)
      PROVE  Inv'
  <2>1. /\ pc' = [pc EXCEPT ![c] = "idle"]
        /\ ret' = [ret EXCEPT ![c] = "SUCCESS"]
        /\ thread_to_join' = [thread_to_join EXCEPT ![c] = 0]
        /\ UNCHANGED <<running, worker_finished, worker_thread, stop_requested,
                       started, worker, timed, told>>
    BY <1>7 DEF JoinReturns
  <2>2. TypeOK'
    BY <2>1, ThreadManagerAssumption DEF Inv, TypeOK
  <2>3. CreatedInOrder' /\ FinishedIsCurrent' /\ WorkerIsHeld' /\ StopIsNotLost'
    BY <2>1 DEF Inv, CreatedInOrder, FinishedIsCurrent, WorkerIsHeld, StopIsNotLost
  <2>4. HasThreadToJoin' /\ JoinsAreBrief'
    BY <2>1 DEF Inv, TypeOK, HasThreadToJoin, JoinsAreBrief
  <2>5. HandleMatchesRunning'
    BY <2>1 DEF Inv, TypeOK, HandleMatchesRunning
  <2> QED
    BY <2>2, <2>3, <2>4, <2>5 DEF Inv
<1>8. ASSUME NEW g \in Workers, WorkerStep(g)
      PROVE  Inv'
  BY <1>8, WorkerInv
<1>9. CASE UNCHANGED vars
  BY <1>9 DEF vars, Inv, TypeOK, CreatedInOrder, FinishedIsCurrent, HasThreadToJoin,
              HandleMatchesRunning, WorkerIsHeld, StopIsNotLost, JoinsAreBrief
<1> QED
  BY <1>1, <1>2, <1>3, <1>4, <1>5, <1>6, <1>7, <1>8, <1>9 DEF Next, CallerStep

(* The invariant holds in every reachable state.                           *)
LEMMA SpecInv == Spec => []Inv
  BY InitInv, NextInv, PTL DEF Spec

-----------------------------------------------------------------------------
(* Every variable keeps its type.                                          *)
THEOREM TypeCorrect == Spec => []TypeOK
  BY SpecInv, PTL DEF Inv

(* Start never assigns over a joinable std::thread, JOIN_FAILED is dead.   *)
THEOREM HandleIsConsistent == Spec => []HandleMatchesRunning
  BY SpecInv, PTL DEF Inv

(* However callers race Start and Join, no second worker and no worker out *)
(* of the manager's reach ever runs.                                       *)
THEOREM OneWorker == Spec => []WorkerIsHeld
  BY SpecInv, PTL DEF Inv

(* No Start takes back the stop request of a worker that still runs.       *)
THEOREM StopIsKept == Spec => []StopIsNotLost
  BY SpecInv, PTL DEF Inv

(* join() is called once per thread, on a worker past its function.        *)
THEOREM JoinIsBrief == Spec => []JoinsAreBrief
  BY SpecInv, PTL DEF Inv
=============================================================================
