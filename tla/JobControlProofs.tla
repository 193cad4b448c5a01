--------------------------- MODULE JobControlProofs ---------------------------
(***************************************************************************)
(* Theorems about the control server, for any number of jobs and process   *)
(* ids.  Each names the requests and faults it needs to be without; what   *)
(* they break is told in the README.                                       *)
(***************************************************************************)
EXTENDS JobControlTypes, FiniteSetTheorems

\* The steps of a waiter that still has its process.
WaitSteps == {"wait", "drop"} \cup RecoverSteps

Child(t, p) == At(t, "record") /\ thread[t].child = p

-----------------------------------------------------------------------------
(* Every process has one goroutine: the launch that has just started it, or *)
(* its own waiter, which outlives it.                                        *)

Attached ==
    /\ \A t, u \in Threads, p \in Procs : Child(t, p) /\ Child(u, p) => t = u
    /\ \A t \in Threads, p \in Procs : Child(t, p) =>
          At(p, "idle") /\ proc[p].job = thread[t].job /\ proc[p].at # "none"
    /\ \A p \in Procs : Alive(p) => At(p, "wait") \/ \E t \in Threads : Child(t, p)
    /\ \A p \in Procs : proc[p].at # "none" =>
          thread[p].at \in WaitSteps \/ \E t \in Threads : Child(t, p)
    /\ \A p \in Procs : thread[p].at \in WaitSteps =>
          proc[p].at # "none" /\ thread[p].job = proc[p].job

\* While the server is not up only boot moves, and no process is left.
BootAlone ==
    server # "up" => /\ \A t \in Threads \ {"boot"} : thread[t] = Idle
                     /\ \A p \in Procs : proc[p] = NoProcess

\* While it is up boot is over.
BootOver == server = "up" => thread["boot"] = Idle

AttachInv == TypeInv /\ Attached /\ BootAlone /\ BootOver

\* A move of one goroutine that neither takes up a process nor gives one up.
Steady(t) ==
    /\ UNCHANGED <<server, proc>>
    /\ \A u \in Threads \ {t} : thread'[u] = thread[u]
    /\ ~At(t, "record") /\ thread'[t].at # "record"
    /\ t \in Procs =>
          /\ ~At(t, "idle")
          /\ thread[t].at \in WaitSteps <=> thread'[t].at \in WaitSteps
          /\ thread[t].at \in WaitSteps => thread'[t].job = thread[t].job
          /\ thread'[t].at # "wait" /\ (At(t, "wait") => ~Alive(t))

LEMMA SteadyAttached ==
    ASSUME TypeInv, Attached, NEW t \in Threads, Steady(t)
    PROVE  Attached'
<1>1. \A u \in Threads, p \in Procs : Child(u, p)' <=> Child(u, p)
  BY DEF Steady, Child, At
<1>2. \A p \in Procs : proc'[p] = proc[p] /\ (Alive(p)' <=> Alive(p))
  BY DEF Steady, Alive
<1>3. ASSUME NEW u \in Threads, NEW p \in Procs, Child(u, p)
      PROVE  thread'[u] = thread[u] /\ thread'[p] = thread[p]
  <2>1. At(p, "idle") /\ At(u, "record") /\ p \in Threads
    BY <1>3 DEF Attached, Child, Threads
  <2>2. u # t /\ p # t
    BY <2>1 DEF Steady
  <2> QED
    BY <2>1, <2>2 DEF Steady
<1>4. \A p \in Procs : thread'[p] = thread[p] \/ p = t
  BY DEF Steady, Threads
<1>5. ASSUME NEW p \in Procs, Alive(p)
      PROVE  At(p, "wait")' \/ \E u \in Threads : Child(u, p)'
  BY <1>1, <1>4, <1>5 DEF Attached, Steady, At
<1>6. ASSUME NEW p \in Procs
      PROVE  /\ thread'[p].at \in WaitSteps <=> thread[p].at \in WaitSteps
             /\ thread[p].at \in WaitSteps => thread'[p].job = thread[p].job
  BY <1>4, <1>6 DEF Steady
<1> QED
  BY <1>1, <1>2, <1>3, <1>5, <1>6 DEF Attached, At

\* What leaves the processes alone, and moves one goroutine that has none.
LEMMA SteadySteps ==
    ASSUME AttachInv, NEW t \in Threads,
           \/ ClaimRead(t) \/ ClaimReadFails(t)
           \/ SweepList(t) \/ (SweepDone(t) /\ t # "boot") \/ SpawnFails(t) \/ RecoverStale(t)
           \/ (t \in Procs /\ (Reap(t) \/ StallResume(t)))
           \/ (t = "queue" /\ Queue)
           \/ (t = "ui" /\ Operator) \/ (t = "boot" /\ BootNext)
    PROVE  Steady(t)
<1> USE DEF Steady, At
<1>0. /\ TypeInv /\ ThreadsOK /\ (t \in Procs => t \notin {"queue", "ui", "boot"})
      /\ \A u \in Threads : Idle.at = "idle"
  BY ControlAssumption DEF AttachInv, TypeInv, Idle
<1>1. CASE \/ ClaimRead(t) \/ ClaimReadFails(t) \/ SweepList(t)
           \/ (SweepDone(t) /\ t # "boot") \/ SpawnFails(t)
  <2>1. UNCHANGED <<server, proc>>
    BY <1>1 DEF ClaimRead, ClaimReadFails, SweepList, SweepDone, SpawnFails, GivesUp, ServerOnly
  <2>2. \/ Moves(t, "claimed", "sweep") \/ Ends(t, "claimed")
        \/ Moves(t, "sweep", "kill") \/ Moves(t, "kill", "spawn") \/ Ends(t, "spawn")
    BY <1>0, <1>1, LaunchMoves
  <2> QED
    BY <1>0, <2>1, <2>2 DEF Moves, Ends, Others, WaitSteps, RecoverSteps
<1>2. CASE RecoverStale(t)
  <2>1. UNCHANGED <<server, proc>>
    BY <1>2 DEF RecoverStale, RecoverRead, RecoverWrite, RecoverUnpause, RecoverFails, GivesUp,
       ServerOnly
  <2>2. \/ Moves(t, "read", "write") \/ Moves(t, "write", "unpause")
        \/ t = "ui" /\ \E from \in RecoverSteps : Ends(t, from)
        \/ Moves(t, "read", AfterRecovery(t)) \/ Moves(t, "unpause", AfterRecovery(t))
        \/ Moves(t, "read", AfterFailure(t)) \/ Moves(t, "write", AfterFailure(t))
    BY <1>0, <1>2, RecoverMoves DEF RecoverStale, RecoverSteps
  <2>3. IF t \in Procs THEN AfterRecovery(t) = "drop" /\ AfterFailure(t) = "drop"
        ELSE AfterRecovery(t) = "recoverAll" /\ AfterFailure(t) = "sweep"
    BY DEF AfterRecovery, AfterFailure
  <2> QED
    BY <1>0, <2>1, <2>2, <2>3 DEF Moves, Ends, Others, WaitSteps, RecoverSteps
<1>3. CASE t \in Procs /\ (Reap(t) \/ StallResume(t))
  <2>1. UNCHANGED <<server, proc>> /\ (Reap(t) => ~Alive(t))
    BY <1>3 DEF Reap, StallResume, ServerOnly, Alive, AliveSteps
  <2>2. \/ Moves(t, "wait", "read") /\ Reap(t)
        \/ Moves(t, "restartDelay", "claimed") \/ Ends(t, "restartDelay")
    BY <1>0, <1>3, WaiterMoves
  <2> QED
    BY <1>0, <2>1, <2>2 DEF Moves, Ends, Others, WaitSteps, RecoverSteps
<1>4. CASE t = "queue" /\ Queue
  <2>1. UNCHANGED <<server, proc>>
    BY <1>4 DEF Queue, QueuePoll, QueueResume, QueueClaimResume, QueueClaim, ServerOnly
  <2>2. \/ \E s \in {"delay", "queueWait"} : Moves(t, "idle", s)
        \/ \E j \in Jobs : Begins(t, "delay", "claimResume", j, FALSE)
        \/ Ends(t, "delay") \/ Moves(t, "claimResume", "claimed") \/ Ends(t, "claimResume")
        \/ \E j \in Jobs : Begins(t, "queueWait", "claimed", j, TRUE)
        \/ Ends(t, "queueWait")
    BY <1>0, <1>4, QueueMovesTo DEF Queue
  <2> QED
    BY <1>0, <1>4, <2>1, <2>2 DEF Moves, Ends, Begins, Others
<1>5. CASE t = "ui" /\ Operator
  <2>1. UNCHANGED <<server, proc>>
    BY <1>5 DEF Operator, Create, PauseJob, ResumeJob, StartPending, RecoverJob, RemoveJob,
       SetSchedulerPaused, ServerOnly
  <2>2. \/ UNCHANGED thread /\ At(t, "idle")
        \/ \E j \in Jobs, b \in BOOLEAN, s \in {"claimed", "sweep", "read"} : Begins(t, "idle", s, j, b)
    BY <1>0, <1>5, OperatorMoves DEF Operator, PauseJob, RemoveJob, SetSchedulerPaused,
       Handles, Create
  <2> QED
    BY <1>0, <1>5, <2>1, <2>2 DEF Begins, Others
<1>6. CASE t = "boot" /\ BootNext
  <2>1. UNCHANGED <<server, proc>>
    BY <1>6 DEF BootNext, ServerOnly
  <2> QED
    BY <1>0, <1>6, <2>1, BootMoves DEF Moves, Others
<1> QED
  BY <1>1, <1>2, <1>3, <1>4, <1>5, <1>6

LEMMA AttachedInvariant ==
    ASSUME "restart" \notin Faults
    PROVE  /\ Init => AttachInv
           /\ AttachInv /\ [Next]_vars => AttachInv'
<1>1. ASSUME Init PROVE AttachInv
  <2>1. /\ \A t \in Threads : thread[t] = Idle /\ thread[t].at = "idle"
        /\ \A p \in Procs : proc[p] = NoProcess /\ proc[p].at = "none"
        /\ server = "up" /\ "boot" \in Threads /\ Procs \subseteq Threads
    BY <1>1 DEF Init, Idle, NoProcess, Threads
  <2>2. Attached
    BY <2>1 DEF Attached, Child, At, Alive, AliveSteps, WaitSteps, RecoverSteps
  <2> QED
    BY <1>1, <2>1, <2>2, InitType DEF AttachInv, BootAlone, BootOver
<1>2. ASSUME AttachInv, [Next]_vars
      PROVE  Attached' /\ BootAlone' /\ BootOver'
  <2>0. TypeInv /\ ThreadsOK /\ ProcsOK /\ Attached /\ Procs \subseteq Threads
        /\ {"queue", "ui", "boot"} \subseteq Threads /\ Procs \cap {"queue", "ui", "boot"} = {}
        /\ Idle.at = "idle" /\ Idle.child = NoProc /\ NoProcess.at = "none"
    BY <1>2, ControlAssumption DEF AttachInv, TypeInv, Threads, Idle, NoProcess
  <2>1. ASSUME NEW t \in Threads, Steady(t), t = "boot" \/ server = "up"
        PROVE  Attached' /\ BootAlone' /\ (t # "boot" => BootOver')
    <3>1. Attached'
      BY <2>0, <2>1, SteadyAttached
    <3>2. BootAlone' /\ (t # "boot" => BootOver')
      BY <1>2, <2>0, <2>1 DEF Steady, BootAlone, BootOver, AttachInv
    <3> QED
      BY <3>1, <3>2
  <2>2. ASSUME NEW t \in Threads, t # "boot", ~At(t, "idle")
        PROVE  server = "up"
    BY <1>2, <2>0, <2>2 DEF AttachInv, BootAlone, At
  <2>3. ASSUME ~At("boot", "idle")
        PROVE  server # "up"
    BY <1>2, <2>0, <2>3 DEF AttachInv, BootOver, At
  <2>4. ASSUME NEW t \in Threads, Launch(t)
        PROVE  Attached' /\ BootAlone' /\ BootOver'
    <3>0. ~At(t, "idle") /\ (t = "boot" => server # "up")
      BY <2>3, <2>4 DEF Launch, ClaimRead, ClaimReadFails, SweepList, SweepRow, SweepDone, SpawnOK,
         SpawnFails, Record, At
    <3>1. CASE \/ ClaimRead(t) \/ ClaimReadFails(t) \/ SweepList(t)
               \/ (SweepDone(t) /\ t # "boot") \/ SpawnFails(t)
      <4>1. Steady(t) /\ UNCHANGED server
        BY <1>2, <3>1, SteadySteps DEF Steady
      <4> QED
        BY <2>1, <2>2, <3>0, <4>1 DEF BootOver
    <3>2. CASE SweepRow(t)
      <4>1. PICK r \in thread[t].todo : proc' = KillGroup(r[2])
        BY <3>2 DEF SweepRow
      <4>2. Moves(t, "kill", "kill") /\ UNCHANGED server
        BY <2>0, <3>2, LaunchMoves DEF SweepRow
      <4>3. ASSUME NEW p \in Procs
            PROVE  /\ proc'[p].job = proc[p].job
                   /\ proc'[p].at = proc[p].at \/ (Alive(p) /\ proc'[p].at = "dead")
        BY <2>0, <4>1, KillGroupDoes
      <4>4. \A u \in Threads, p \in Procs : Child(u, p)' <=> Child(u, p)
        <5>1. thread[t].child \notin Procs /\ thread[t].at = "kill"
          BY <2>0, <4>2, HasJob DEF Moves, At
        <5> QED
          BY <4>2, <5>1 DEF Moves, Others, Child, At
      <4>5. \A u \in Threads : thread'[u].at = thread[u].at /\ thread'[u].job = thread[u].job
        BY <4>2 DEF Moves, Others, At
      <4>6. Attached'
        BY <2>0, <4>3, <4>4, <4>5 DEF Attached, At, Alive, AliveSteps
      <4>7. BootAlone'
        <5>1. CASE server = "up"
          BY <4>2, <5>1 DEF BootAlone
        <5>2. CASE server # "up"
          <6>1. t = "boot" /\ \A p \in Procs : proc[p] = NoProcess /\ ~Alive(p)
            BY <1>2, <2>0, <2>2, <3>0, <5>2 DEF AttachInv, BootAlone, Alive, AliveSteps
          <6>2. \A p \in Procs : proc'[p] = proc[p]
            BY <2>0, <4>1, <6>1, KillGroupDoes
          <6> QED
            BY <1>2, <4>2, <6>1, <6>2 DEF AttachInv, BootAlone, Moves, Others
        <5> QED
          BY <5>1, <5>2
      <4>8. BootOver'
        BY <1>2, <2>0, <3>0, <4>2 DEF AttachInv, BootOver, Moves, Others
      <4> QED
        BY <4>6, <4>7, <4>8
    <3>3. CASE SweepDone(t) /\ t = "boot"
      <4>1. Ends("boot", "kill") /\ server' = "up" /\ UNCHANGED proc /\ server # "up"
        BY <2>0, <3>0, <3>3, LaunchMoves DEF SweepDone
      <4>2. /\ \A u \in Threads : thread'[u] = Idle
            /\ \A p \in Procs : proc'[p] = NoProcess
        BY <1>2, <4>1 DEF AttachInv, BootAlone, Ends, Others
      <4> QED
        BY <2>0, <4>1, <4>2 DEF Attached, BootAlone, BootOver, Child, At, Alive, AliveSteps,
           WaitSteps,
           RecoverSteps
    <3>4. CASE SpawnOK(t)
      <4>1. PICK p \in Procs :
               /\ Unused(p)
               /\ proc' = [proc EXCEPT ![p] = [at |-> "boot", job |-> thread[t].job, exit |-> "none"]]
               /\ thread' = [thread EXCEPT ![t].at = "record", ![t].child = p]
        BY <3>4 DEF SpawnOK
      <4>2. Moves(t, "spawn", "record") /\ UNCHANGED server /\ thread'[t].child = p
        <5>1. thread \in [Threads -> ThreadRecs]
          BY <2>0 DEF ThreadsOK
        <5>2. thread'[t].child = p
          BY <4>1, <5>1 DEF ThreadRecs
        <5> QED
          BY <2>0, <3>4, <5>2, LaunchMoves DEF SpawnOK
      <4>3. /\ proc'[p].at = "boot" /\ proc'[p].job = thread[t].job
            /\ \A q \in Procs \ {p} : proc'[q] = proc[q]
        BY <2>0, <4>1 DEF ProcsOK
      <4>4. /\ At(p, "idle") /\ p # t /\ \A u \in Threads : thread[u].child # p
        BY <4>1, <4>2 DEF Unused, Moves, At
      <4>5. /\ Child(t, p)' /\ \A u \in Threads \ {t}, q \in Procs : Child(u, q)' <=> Child(u, q)
            /\ \A q \in Procs : ~Child(t, q) /\ (Child(t, q)' => q = p)
        BY <4>2 DEF Moves, Others, Child, At
      <4>6. Attached'
        <5>1. \A u, v \in Threads, q \in Procs : (Child(u, q) /\ Child(v, q) => u = v)'
          BY <2>0, <4>4, <4>5 DEF Attached, Child
        <5>2. \A u \in Threads, q \in Procs : (Child(u, q) =>
                At(q, "idle") /\ proc[q].job = thread[u].job /\ proc[q].at # "none")'
          <6>1. ASSUME NEW u \in Threads, NEW q \in Procs, Child(u, q)', u # t
                PROVE  (At(q, "idle") /\ proc[q].job = thread[u].job /\ proc[q].at # "none")'
            <7>1. Child(u, q) /\ q # p /\ q # t
              BY <2>0, <4>2, <4>4, <4>5, <6>1 DEF Child, Attached, Moves, At
            <7> QED
              BY <2>0, <4>2, <4>3, <6>1, <7>1 DEF Attached, Moves, Others, At
          <6>2. (At(p, "idle") /\ proc[p].job = thread[t].job /\ proc[p].at # "none")'
            BY <2>0, <4>2, <4>3, <4>4 DEF Moves, Others, At
          <6> QED
            BY <4>5, <6>1, <6>2
        <5>3. ASSUME NEW q \in Procs \ {p}
              PROVE  /\ (Alive(q) => At(q, "wait") \/ \E u \in Threads : Child(u, q))'
                     /\ (proc[q].at # "none" =>
                           thread[q].at \in WaitSteps \/ \E u \in Threads : Child(u, q))'
                     /\ (thread[q].at \in WaitSteps =>
                           proc[q].at # "none" /\ thread[q].job = proc[q].job)'
          <6>1. thread'[q] = thread[q] \/ (q = t /\ thread[q].at = "spawn" /\ thread'[q].at = "record")
            BY <2>0, <4>2 DEF Moves, Others, At
          <6>2. \A u \in Threads : Child(u, q) => Child(u, q)'
            BY <4>5
          <6>3. "spawn" \notin WaitSteps /\ "record" \notin WaitSteps
            BY DEF WaitSteps, RecoverSteps
          <6>4. proc'[q] = proc[q]
            BY <4>3
          <6> QED
            BY <2>0, <6>1, <6>2, <6>3, <6>4 DEF Attached, Alive, At
        <5>4. thread'[p].at = "idle" /\ "idle" \notin WaitSteps
          BY <2>0, <4>2, <4>4 DEF Moves, Others, At, WaitSteps, RecoverSteps
        <5> QED
          BY <4>5, <5>1, <5>2, <5>3, <5>4 DEF Attached
      <4>7. server = "up" /\ t # "boot"
        BY <2>0, <2>2, <3>0, <4>2, WhoseSteps DEF Moves, At
      <4> QED
        BY <1>2, <2>0, <4>2, <4>6, <4>7 DEF AttachInv, BootAlone, BootOver, Moves, Others
    <3>5. CASE Record(t)
      <4> DEFINE p == thread[t].child
      <4>1. /\ p \in Procs /\ At(t, "record") /\ Child(t, p)
            /\ thread' = [thread EXCEPT ![t] = Idle,
                             ![p] = [Idle EXCEPT !.at = "wait", !.job = thread[t].job]]
            /\ UNCHANGED <<server, proc>>
        BY <2>0, <3>5, HasJob DEF Record, At, Child
      <4>2. At(p, "idle") /\ p # t /\ proc[p].job = thread[t].job /\ proc[p].at # "none"
        BY <2>0, <4>1 DEF Attached, At
      <4>3. /\ thread'[t] = Idle /\ thread'[p].at = "wait" /\ thread'[p].job = thread[t].job
            /\ thread'[p].child = NoProc
            /\ \A u \in Threads \ {t, p} : thread'[u] = thread[u]
        BY <2>0, <4>1, <4>2 DEF ThreadsOK, Idle
      <4>4. \A u \in Threads, q \in Procs : Child(u, q)' <=> Child(u, q) /\ u # t
        BY <2>0, <4>2, <4>3 DEF Child, At
      <4>5. \A u \in Threads : Child(u, p) => u = t
        BY <2>0, <4>1 DEF Attached
      <4>6. Attached'
        <5>1. ASSUME NEW u \in Threads, NEW q \in Procs, Child(u, q)'
              PROVE  (At(q, "idle") /\ proc[q].job = thread[u].job /\ proc[q].at # "none")'
          <6>0. Child(u, q) /\ u # t
            BY <4>4, <5>1
          <6>1. Child(u, q) /\ u # t /\ q # p /\ u # p /\ q # t
            <7>1. At(u, "record") /\ At(q, "idle")
              BY <2>0, <6>0 DEF Child, Attached
            <7> QED
              BY <4>1, <4>2, <4>5, <6>0, <7>1 DEF At
          <6> QED
            <7>1. proc' = proc /\ thread'[u] = thread[u] /\ thread'[q] = thread[q]
              BY <2>0, <4>1, <4>3, <6>1
            <7>2. At(q, "idle") /\ proc[q].job = thread[u].job /\ proc[q].at # "none"
              BY <2>0, <6>1 DEF Attached
            <7> QED
              BY <7>1, <7>2 DEF At
        <5>2. ASSUME NEW q \in Procs \ {p}
              PROVE  /\ (Alive(q) => At(q, "wait") \/ \E u \in Threads : Child(u, q))'
                     /\ (proc[q].at # "none" =>
                           thread[q].at \in WaitSteps \/ \E u \in Threads : Child(u, q))'
                     /\ (thread[q].at \in WaitSteps =>
                           proc[q].at # "none" /\ thread[q].job = proc[q].job)'
          <6>1. thread'[q] = thread[q] \/ (q = t /\ thread[q].at = "record" /\ thread'[q].at = "idle")
            BY <2>0, <4>1, <4>3 DEF At
          <6>2. \A u \in Threads : Child(u, q) => Child(u, q)'
            BY <4>1, <4>4 DEF Child
          <6>3. "idle" \notin WaitSteps /\ "record" \notin WaitSteps
            BY DEF WaitSteps, RecoverSteps
          <6>4. proc'[q] = proc[q]
            BY <4>1
          <6> QED
            BY <2>0, <6>1, <6>2, <6>3, <6>4 DEF Attached, Alive, At
        <5>3. proc'[p] = proc[p] /\ "wait" \in WaitSteps
          BY <4>1 DEF WaitSteps
        <5> QED
          BY <2>0, <4>2, <4>3, <4>4, <5>1, <5>2, <5>3 DEF Attached, At
      <4>7. server = "up" /\ t # "boot"
        BY <2>0, <2>2, <3>0, <4>1, WhoseSteps DEF At
      <4> QED
        BY <1>2, <2>0, <4>1, <4>3, <4>6, <4>7 DEF AttachInv, BootAlone, BootOver
    <3> QED
      BY <2>4, <3>1, <3>2, <3>3, <3>4, <3>5 DEF Launch
  <2>5. ASSUME NEW t \in Threads, RecoverStale(t)
        PROVE  Attached' /\ BootAlone' /\ BootOver'
    <3>1. ~At(t, "idle") /\ Steady(t) /\ UNCHANGED server
      BY <1>2, <2>5, SteadySteps DEF Steady, RecoverStale, RecoverRead, RecoverWrite,
         RecoverUnpause, RecoverFails, At
    <3> QED
      BY <2>1, <2>2, <2>3, <3>1 DEF BootOver
  <2>6. ASSUME NEW p \in Procs, Reap(p) \/ StallResume(p)
        PROVE  Attached' /\ BootAlone' /\ BootOver'
    <3>1. ~At(p, "idle") /\ Steady(p) /\ p \in Threads /\ p # "boot"
      BY <1>2, <2>0, <2>6, SteadySteps DEF Reap, StallResume, At
    <3> QED
      BY <2>1, <2>2, <3>1
  <2>7. ASSUME NEW p \in Procs, Drop(p)
        PROVE  Attached' /\ BootAlone' /\ BootOver'
    <3>1. /\ proc' = [proc EXCEPT ![p] = NoProcess] /\ UNCHANGED server
          /\ At(p, "drop") /\ Others(p) /\ thread'[p].at \in {"restartDelay", "idle"}
          /\ p \in Threads /\ p # "boot"
      BY <2>0, <2>7, WaiterMoves DEF Drop, Moves, Ends
    <3>2. \A u \in Threads, q \in Procs : (Child(u, q)' <=> Child(u, q)) /\ (Child(u, q) => q # p)
      BY <2>0, <3>1 DEF Child, At, Others, Attached
    <3>3. proc'[p] = NoProcess /\ \A q \in Procs \ {p} : proc'[q] = proc[q] /\ thread'[q] = thread[q]
      BY <2>0, <3>1 DEF ProcsOK, Others
    <3>4. Attached'
      <4>1. ASSUME NEW u \in Threads, NEW q \in Procs, Child(u, q)'
            PROVE  (At(q, "idle") /\ proc[q].job = thread[u].job /\ proc[q].at # "none")'
        <5>1. Child(u, q) /\ u # p /\ q # p
          BY <3>1, <3>2, <4>1 DEF Child, At
        <5> QED
          BY <2>0, <3>1, <3>3, <5>1 DEF Attached, At, Others
      <4>2. ASSUME NEW q \in Procs \ {p}
            PROVE  /\ (Alive(q) => At(q, "wait") \/ \E u \in Threads : Child(u, q))'
                   /\ (proc[q].at # "none" =>
                         thread[q].at \in WaitSteps \/ \E u \in Threads : Child(u, q))'
                   /\ (thread[q].at \in WaitSteps =>
                         proc[q].at # "none" /\ thread[q].job = proc[q].job)'
        BY <2>0, <3>2, <3>3 DEF Attached, Alive, At
      <4>3. /\ ~Alive(p)' /\ proc'[p].at = "none" /\ thread'[p].at \notin WaitSteps
        BY <2>0, <3>1, <3>3 DEF Alive, AliveSteps, WaitSteps, RecoverSteps
      <4> QED
        BY <2>0, <3>2, <4>1, <4>2, <4>3 DEF Attached
    <3>5. server = "up"
      BY <2>2, <3>1 DEF At
    <3> QED
      BY <1>2, <2>0, <3>1, <3>4, <3>5 DEF AttachInv, BootAlone, BootOver, Others
  <2>8. CASE Queue
    <3>1. Steady("queue")
      BY <1>2, <2>0, <2>8, SteadySteps
    <3>2. server = "up"
      BY <2>0, <2>2, <2>8 DEF Queue, QueuePoll, QueueResume, QueueClaimResume, QueueClaim, At
    <3> QED
      BY <2>0, <2>1, <3>1, <3>2
  <2>9. CASE Operator
    <3>1. Steady("ui")
      BY <1>2, <2>0, <2>9, SteadySteps
    <3>2. server = "up"
      BY <2>9 DEF Operator, Create, PauseJob, ResumeJob, StartPending, RecoverJob, RemoveJob,
         SetSchedulerPaused, Handles
    <3> QED
      BY <2>0, <2>1, <3>1, <3>2
  <2>10. CASE BootNext
    <3>1. Steady("boot") /\ server # "up" /\ UNCHANGED server
      BY <1>2, <2>0, <2>3, <2>10, SteadySteps DEF BootNext, At, Steady
    <3> QED
      BY <2>0, <2>1, <3>1 DEF BootOver
  <2>11. CASE ServerBoots
    <3>1. /\ server' = "boot" /\ UNCHANGED proc /\ \A u \in Threads \ {"boot"} : thread'[u] = thread[u]
          /\ thread'["boot"].at = "recoverAll" /\ server = "down"
      BY <2>0, <2>11 DEF ServerBoots, ThreadsOK, ThreadRecs
    <3>2. /\ \A u \in Threads \ {"boot"} : thread'[u] = Idle
          /\ \A p \in Procs : proc'[p] = NoProcess
      BY <1>2, <3>1 DEF AttachInv, BootAlone
    <3> QED
      BY <2>0, <3>1, <3>2 DEF Attached, BootAlone, BootOver, Child, At, Alive, AliveSteps,
         WaitSteps,
         RecoverSteps
  <2>12. CASE ServerDies
    <3>1. /\ \A u \in Threads : thread'[u] = Idle
          /\ \A p \in Procs : proc'[p] = NoProcess
          /\ server' = "down"
      BY <2>12 DEF ServerDies
    <3> QED
      BY <2>0, <3>1 DEF Attached, BootAlone, BootOver, Child, At, Alive, AliveSteps, WaitSteps,
         RecoverSteps
  <2>13. ASSUME NEW p \in Procs, Process(p) \/ ProcessFault(p)
         PROVE  Attached' /\ BootAlone' /\ BootOver'
    <3>1. ProcMoves(p)
      BY <2>0, <2>13, ProcessMoves
    <3>2. \A q \in Procs : /\ proc'[q].job = proc[q].job
                           /\ proc'[q].at # "none" <=> proc[q].at # "none"
                           /\ Alive(q)' => Alive(q)
      BY <3>1 DEF ProcMoves, Alive, AliveSteps
    <3>3. Attached'
      BY <2>0, <3>1, <3>2 DEF Attached, ProcMoves, Child, At
    <3>4. server = "up"
      BY <1>2, <2>0, <3>1 DEF AttachInv, BootAlone, ProcMoves, Alive, AliveSteps
    <3> QED
      BY <1>2, <3>1, <3>3, <3>4 DEF AttachInv, BootAlone, BootOver, ProcMoves
  <2>14. CASE UNCHANGED vars
    BY <1>2, <2>14 DEF vars, controlVars, AttachInv, Attached, BootAlone, BootOver, Child, At,
       Alive
  <2> QED
    BY <1>2, <2>4, <2>5, <2>6, <2>7, <2>8, <2>9, <2>10, <2>11, <2>12, <2>13, <2>14
       DEF Next, Waiter, Server
<1> QED
  BY <1>1, <1>2, NextType DEF AttachInv

-----------------------------------------------------------------------------
(* What can only be there because of a fault. *)

FaultsShow ==
    /\ "stall" \notin Faults => \A p \in Procs :
          proc[p].exit # "stall" /\ ~ProcAt(p, "stalled") /\ ~At(p, "restartDelay")
    /\ "timeout" \notin Faults =>
          /\ \A p \in Procs : proc[p].exit # "timeout"
          /\ \A j \in Jobs : ~timedOut[j]
          /\ thread["queue"].at \notin {"delay", "claimResume"}
    /\ "recovery" \notin Faults => \A p \in Procs : ~ProcAt(p, "recovery")

\* How a process may change in a step.
ProcChange(p) ==
    \/ proc'[p] = proc[p] \/ proc'[p] = NoProcess
    \/ /\ proc'[p].at = "boot" /\ proc'[p].exit = "none"
       /\ At(p, "idle") /\ \E t \in Threads : SpawnOK(t) /\ proc'[p].job = thread[t].job
    \/ /\ Alive(p) /\ proc'[p].at = "dead" /\ proc'[p].exit = "swept"
       /\ \E t \in Threads : At(t, "kill")
    \/ ProcMoves(p) /\ ProcessRow(p)

LEMMA ProcChanges ==
    ASSUME TypeInv, [Next]_vars, NEW p \in Procs
    PROVE  ProcChange(p)
<1>0. ProcsOK /\ proc \in [Procs -> ProcRecs]
  BY DEF TypeInv, ProcsOK
<1>1. ASSUME NEW t \in Threads, Launch(t)
      PROVE  ProcChange(p)
  <2>1. CASE SweepRow(t)
    <3>1. At(t, "kill") /\ \E r \in thread[t].todo : proc' = KillGroup(r[2])
      BY <2>1 DEF SweepRow
    <3> QED
      BY <1>0, <1>1, <3>1, KillGroupDoes DEF ProcChange
  <2>2. CASE SpawnOK(t)
    <3>1. PICK q \in Procs :
             /\ proc' = [proc EXCEPT ![q] = [at |-> "boot", job |-> thread[t].job, exit |-> "none"]]
             /\ At(q, "idle")
      BY <2>2 DEF SpawnOK, Unused
    <3>2. CASE q # p
      BY <1>0, <3>1, <3>2 DEF ProcChange
    <3>3. CASE q = p
      <4>1. proc'[p] = [at |-> "boot", job |-> thread[t].job, exit |-> "none"]
        BY <1>0, <3>1, <3>3
      <4> QED
        BY <1>1, <2>2, <3>1, <3>3, <4>1 DEF ProcChange
    <3> QED
      BY <3>2, <3>3
  <2>3. CASE \/ ClaimRead(t) \/ ClaimReadFails(t) \/ SweepList(t) \/ SweepDone(t)
             \/ SpawnFails(t) \/ Record(t)
    BY <2>3 DEF ClaimRead, ClaimReadFails, SweepList, SweepDone, SpawnFails, Record, GivesUp,
       ServerOnly, ProcChange
  <2> QED
    BY <1>1, <2>1, <2>2, <2>3 DEF Launch
<1>2. ASSUME NEW t \in Threads, RecoverStale(t)
      PROVE  ProcChange(p)
  BY <1>2 DEF RecoverStale, RecoverRead, RecoverWrite, RecoverUnpause, RecoverFails, GivesUp,
     ServerOnly, ProcChange
<1>3. ASSUME NEW q \in Procs, Waiter(q)
      PROVE  ProcChange(p)
  BY <1>0, <1>3 DEF Waiter, Reap, Drop, StallResume, ServerOnly, ProcChange
<1>4. CASE Queue \/ Operator \/ Server \/ UNCHANGED vars
  <2>1. UNCHANGED proc
    BY <1>4 DEF Queue, QueuePoll, QueueResume, QueueClaimResume, QueueClaim, Operator, Create,
       PauseJob,
       ResumeJob, StartPending, RecoverJob, RemoveJob, SetSchedulerPaused, Server, ServerBoots,
       BootNext,
       ServerOnly, vars, controlVars
  <2> QED
    BY <2>1 DEF ProcChange
<1>5. CASE ServerDies
  BY <1>0, <1>5 DEF ServerDies, ProcChange
<1>6. ASSUME NEW q \in Procs, Process(q) \/ ProcessFault(q)
      PROVE  ProcChange(p)
  <2>1. ProcMoves(q) /\ ProcessRow(q)
    BY <1>6, ProcessRows
  <2>2. p = q \/ proc'[p] = proc[p]
    BY <2>1 DEF ProcMoves
  <2> QED
    BY <2>1, <2>2 DEF ProcChange
<1> QED
  BY <1>1, <1>2, <1>3, <1>4, <1>5, <1>6 DEF Next

\* Who takes a job up again that had been stopped.
Resumes(j) ==
    \/ ResumeJob(j)
    \/ Moves("queue", "claimResume", "claimed") /\ thread["queue"].job = j
    \/ \E p \in Procs : Moves(p, "restartDelay", "claimed") /\ thread[p].job = j

\* What a step does to the statuses of the table, and who does it.
TableStep ==
    \/ UNCHANGED <<status, timedOut>>
    \/ \E j \in Jobs, n \in 1 .. 2 : CreateJobs(j, n)
    \/ \E j \in Jobs : status[j] = "pending" /\ Active = {} /\ Sets(j, "starting", FALSE)
    \/ \E j \in Jobs : Deletable(j) /\ Sets(j, "gone", FALSE) /\ UNCHANGED <<thread, proc>>
    \/ \E j \in Jobs, s \in {"starting", "running"} :
          Resumable(j) /\ Sets(j, s, FALSE) /\ Resumes(j)
    \/ \E t \in Threads :
          SpawnFails(t) /\ thread[t].start /\ Writes(thread[t].job, "failed", FALSE)
    \/ \E t \in Threads, s \in {"paused", "failed"} :
          RecoverWrite(t) /\ Writes(thread[t].job, s, FALSE)
    \/ \E p \in Procs :
          RecoverWrite(p) /\ proc[p].exit = "timeout" /\ Writes(thread[p].job, "paused", TRUE)
    \/ \E p \in Procs : ProcMoves(p) /\ ProcessRow(p)

LEMMA TableSteps ==
    ASSUME TypeInv, [Next]_vars
    PROVE  TableStep
<1>0. /\ TableTypeOK /\ ThreadsOK /\ Procs \subseteq Threads
      /\ {"queue", "ui", "boot"} \subseteq Threads
  BY DEF TypeInv, Threads
<1>1. ASSUME UNCHANGED <<status, timedOut>>
      PROVE  TableStep
  BY <1>1 DEF TableStep
<1>2. ASSUME UNCHANGED tableVars
      PROVE  TableStep
  BY <1>1, <1>2 DEF tableVars
<1>3. ASSUME NEW t \in Threads, Launch(t)
      PROVE  TableStep
  <2>1. CASE SpawnFails(t)
    <3>1. thread[t].job \in Jobs
      BY <1>0, <2>1, HasJob DEF SpawnFails, At
    <3>2. CASE thread[t].start /\ SetJobStatus(thread[t].job, "failed", FALSE)
      <4>1. SetStatus(thread[t].job, "failed", FALSE)
        BY <3>2 DEF SetJobStatus
      <4>2. Writes(thread[t].job, "failed", FALSE)
        BY <1>0, <3>1, <4>1, SetStatusWrites
      <4> QED
        BY <2>1, <3>2, <4>2 DEF TableStep
    <3> QED
      BY <1>2, <2>1, <3>2 DEF SpawnFails, GivesUp
  <2>2. CASE \/ ClaimRead(t) \/ ClaimReadFails(t) \/ SweepList(t) \/ SweepRow(t) \/ SweepDone(t)
             \/ SpawnOK(t) \/ Record(t)
    BY <1>2, <2>2 DEF ClaimRead, ClaimReadFails, SweepList, SweepRow, SweepDone, SpawnOK, Record,
       GivesUp
  <2> QED
    BY <1>3, <2>1, <2>2 DEF Launch
<1>4. ASSUME NEW t \in Threads, RecoverStale(t)
      PROVE  TableStep
  <2>1. CASE RecoverWrite(t)
    <3>1. thread[t].job \in Jobs
      BY <1>0, <2>1, HasJob DEF RecoverWrite, At
    <3>2. CASE TimedOut(t)
      <4>1. SetStatus(thread[t].job, "paused", TRUE)
        BY <2>1, <3>2 DEF RecoverWrite, SetJobStatus
      <4>2. Writes(thread[t].job, "paused", TRUE)
        BY <1>0, <3>1, <4>1, SetStatusWrites
      <4>3. t \in Procs /\ proc[t].exit = "timeout"
        BY <3>2 DEF TimedOut
      <4> QED
        BY <2>1, <4>2, <4>3 DEF TableStep
    <3>3. CASE ~TimedOut(t)
      <4>1. PICK s \in {"paused", "failed"} : SetJobStatus(thread[t].job, s, TimedOut(t))
        BY <2>1 DEF RecoverWrite
      <4>2. SetStatus(thread[t].job, s, FALSE)
        BY <2>1, <3>3, <4>1 DEF SetJobStatus, TimedOut
      <4>3. Writes(thread[t].job, s, FALSE)
        BY <1>0, <3>1, <4>2, SetStatusWrites
      <4> QED
        BY <2>1, <4>3 DEF TableStep
    <3> QED
      BY <3>2, <3>3
  <2>2. CASE RecoverRead(t) \/ RecoverUnpause(t) \/ RecoverFails(t)
    BY <1>1, <2>2 DEF RecoverRead, RecoverUnpause, RecoverFails, GivesUp, Unpause, tableVars
  <2> QED
    BY <1>4, <2>1, <2>2 DEF RecoverStale
<1>5. ASSUME NEW j \in Jobs, ClaimResume(j), Resumes(j)
      PROVE  TableStep
  <2>1. Resumable(j) /\ \E s \in {"starting", "running"} : Sets(j, s, FALSE)
    BY <1>0, <1>5, StatementWrites
  <2> QED
    BY <1>5, <2>1 DEF TableStep
<1>6. ASSUME NEW j \in Jobs, ClaimNextPending(j) \/ ClaimPending(j)
      PROVE  TableStep
  <2>1. status[j] = "pending" /\ Active = {} /\ Sets(j, "starting", FALSE)
    BY <1>0, <1>6, StatementWrites
  <2> QED
    BY <2>1 DEF TableStep
<1>7. ASSUME NEW p \in Procs, Waiter(p)
      PROVE  TableStep
  <2>1. CASE Reap(p) \/ Drop(p)
    BY <1>2, <2>1 DEF Reap, Drop
  <2>2. CASE StallResume(p)
    <3>1. CASE ClaimResume(thread[p].job) /\ Moves(p, "restartDelay", "claimed")
      <4>1. thread[p].job \in Jobs
        BY <1>0, <3>1, HasJob DEF Moves, At
      <4> QED
        BY <1>5, <3>1, <4>1 DEF Resumes
    <3> QED
      BY <1>0, <1>2, <2>2, <3>1, WaiterMoves
  <2> QED
    BY <1>7, <2>1, <2>2 DEF Waiter
<1>8. CASE Queue
  <2>1. CASE QueuePoll \/ QueueResume
    BY <1>2, <2>1 DEF QueuePoll, QueueResume
  <2>2. CASE QueueClaimResume
    <3>1. CASE ClaimResume(thread["queue"].job) /\ Moves("queue", "claimResume", "claimed")
      <4>1. thread["queue"].job \in Jobs
        BY <1>0, <3>1, HasJob DEF Moves, At
      <4> QED
        BY <1>5, <3>1, <4>1 DEF Resumes
    <3> QED
      BY <1>0, <1>2, <2>2, <3>1, QueueMovesTo
  <2>3. CASE QueueClaim
    BY <1>0, <1>2, <1>6, <2>3, QueueMovesTo
  <2> QED
    BY <1>8, <2>1, <2>2, <2>3 DEF Queue
<1>9. CASE Operator
  <2>1. ASSUME NEW n \in 1 .. 2, Create(n)
        PROVE  TableStep
    BY <2>1 DEF Create, TableStep
  <2>2. ASSUME NEW j \in Jobs, ResumeJob(j)
        PROVE  TableStep
    BY <1>5, <2>2 DEF ResumeJob, Resumes
  <2>3. ASSUME NEW j \in Jobs, StartPending(j)
        PROVE  TableStep
    BY <1>6, <2>3 DEF StartPending
  <2>4. ASSUME NEW j \in Jobs, RemoveJob(j)
        PROVE  TableStep
    <3>1. UNCHANGED <<thread, proc>> /\ DeleteJob(j)
      BY <2>4 DEF RemoveJob, ServerOnly
    <3>2. Deletable(j) /\ Sets(j, "gone", FALSE)
      BY <1>0, <3>1, StatementWrites
    <3> QED
      BY <3>1, <3>2 DEF TableStep
  <2>5. ASSUME NEW j \in Jobs, PauseJob(j) \/ RecoverJob(j)
        PROVE  TableStep
    BY <1>1, <2>5 DEF PauseJob, RecoverJob, RequestPause, tableVars
  <2>6. CASE SetSchedulerPaused
    BY <1>2, <2>6 DEF SetSchedulerPaused
  <2> QED
    BY <1>9, <2>1, <2>2, <2>3, <2>4, <2>5, <2>6 DEF Operator
<1>10. CASE ServerDies \/ Server \/ UNCHANGED vars
  BY <1>2, <1>10 DEF ServerDies, Server, ServerBoots, BootNext, vars
<1>11. ASSUME NEW p \in Procs, Process(p) \/ ProcessFault(p)
       PROVE  TableStep
  BY <1>11, ProcessRows DEF TableStep
<1> QED
  BY <1>3, <1>4, <1>7, <1>8, <1>9, <1>10, <1>11 DEF Next

\* Only the recovery by a waiter whose process exceeded its deadline writes
\* JobTimeoutError, and it writes it in its own job's row, if that is there.
LEMMA TimeoutWritten ==
    ASSUME TypeInv, [Next]_vars, NEW j \in Jobs, timedOut'[j]
    PROVE  \/ timedOut[j] /\ (status'[j] = status[j] \/ status[j] = "none")
           \/ \E p \in Procs : /\ RecoverWrite(p) /\ proc[p].exit = "timeout"
                              /\ thread[p].job = j /\ Exists(j)
<1>0. TableTypeOK /\ ThreadsOK /\ timedOut \in [Jobs -> BOOLEAN]
  BY DEF TypeInv, TableTypeOK
<1>1. ASSUME NEW k, NEW s, Writes(k, s, FALSE)
      PROVE  timedOut[j] /\ status'[j] = status[j]
  BY <1>1 DEF Writes, Sets
<1>2. ASSUME NEW k, NEW s, Sets(k, s, FALSE)
      PROVE  timedOut[j] /\ status'[j] = status[j]
  BY <1>2 DEF Sets
<1>3. ASSUME NEW p \in Procs, RecoverWrite(p), proc[p].exit = "timeout",
             Writes(thread[p].job, "paused", TRUE), ~(thread[p].job = j /\ Exists(j))
      PROVE  timedOut[j] /\ status'[j] = status[j]
  BY <1>3 DEF Writes, Sets
<1>4. ASSUME NEW p \in Procs, ProcessRow(p)
      PROVE  timedOut[j] /\ status'[j] = status[j]
  <2>1. NoRow \/ \E s : Row(p, s)
    BY <1>4 DEF ProcessRow, ProcEnd
  <2> QED
    BY <1>1, <2>1 DEF NoRow, Row
<1>5. ASSUME NEW k \in Jobs, NEW n \in 1 .. 2, CreateJobs(k, n)
      PROVE  timedOut[j] /\ (status'[j] = status[j] \/ status[j] = "none")
  BY <1>0, <1>5, CreateWrites
<1> QED
  BY <1>1, <1>2, <1>3, <1>4, <1>5, TableSteps DEF TableStep

\* The job that is to be launched first is created as starting, or claimed.
StartsNow(j) ==
    /\ status[j] \in {"none", "pending"} /\ Active = {} /\ status'[j] = "starting"
    /\ timedOut'[j] => timedOut[j] /\ status[j] = "none"

LaunchGoesOn(t) ==
    \/ Moves(t, "claimed", "sweep")
    \/ Moves(t, "sweep", "kill") /\ SweepList(t)
    \/ Moves(t, "kill", "kill") /\ SweepRow(t)
    \/ Moves(t, "kill", "spawn") \/ Moves(t, "spawn", "record")

\* How a goroutine of the server moves, apart from boot.
Turn(t) ==
    \/ thread'[t] = Idle /\ (t \in Procs /\ thread[t].at \in WaitSteps => Drop(t))
    \/ LaunchGoesOn(t) /\ UNCHANGED <<status, timedOut>>
    \/ Moves(t, "read", "write") /\ thread[t].job \in Active /\ UNCHANGED <<status, timedOut>>
    \/ Moves(t, "wait", "read") \/ Moves(t, "write", "unpause")
    \/ \E from \in RecoverSteps : Moves(t, from, "drop")
    \/ Moves(t, "drop", "restartDelay") /\ proc[t].exit = "stall" /\ Drop(t)
    \/ /\ \E from \in {"restartDelay", "claimResume"} : Moves(t, from, "claimed")
       /\ Resumable(thread[t].job) /\ (At(t, "restartDelay") => DelayOver(thread[t].job))
       /\ \E s \in {"starting", "running"} : Sets(thread[t].job, s, FALSE)
    \/ /\ t = "queue"
       /\ \/ Moves(t, "idle", "delay") /\ \E j \in Jobs : NextTimeout(j)
          \/ Moves(t, "idle", "queueWait")
          \/ /\ UNCHANGED <<status, timedOut>>
             /\ \E j \in Jobs : /\ NextTimeout(j) /\ DelayOver(j)
                               /\ Begins(t, "delay", "claimResume", j, FALSE)
    \/ \E j \in Jobs, from \in {"idle", "queueWait"}, to \in {"claimed", "sweep"} :
          Begins(t, from, to, j, TRUE) /\ StartsNow(j)
    \/ \E j \in Jobs : \/ "resume" \in Requests /\ Begins(t, "idle", "claimed", j, FALSE)
                       \/ "recover" \in Requests /\ Begins(t, "idle", "read", j, FALSE)

\* Boot writes the row of a job that it has read to be active, and sweeps.
BootTurn ==
    \/ thread'["boot"].at \notin {"write", "kill"}
    \/ thread'["boot"].at = "kill" /\ (SweepList("boot") \/ SweepRow("boot"))
    \/ Moves("boot", "read", "write") /\ thread["boot"].job \in Active /\ UNCHANGED status

GoroutineStep ==
    \/ UNCHANGED thread
    \/ ServerDies /\ \A t \in Threads : thread'[t] = Idle
    \/ Others("boot") /\ BootTurn
    \/ \E t \in Threads \ {"boot"} : Others(t) /\ Turn(t)
    \/ \E t \in Threads : Record(t)

LEMMA GoroutineSteps ==
    ASSUME TypeInv, [Next]_vars
    PROVE  GoroutineStep
<1>0. /\ ThreadsOK /\ TableTypeOK /\ Procs \subseteq Threads /\ {"queue", "ui", "boot"} \subseteq Threads
      /\ Procs \cap {"queue", "ui", "boot"} = {}
  BY ControlAssumption DEF TypeInv, Threads
<1>1. ASSUME NEW t \in Threads \ {"boot"}, Others(t), Turn(t)
      PROVE  GoroutineStep
  BY <1>1 DEF GoroutineStep
<1>11. ASSUME Others("boot"), thread'["boot"].at \notin {"write", "kill"}
       PROVE  GoroutineStep
  BY <1>11 DEF GoroutineStep, BootTurn
<1>2. ASSUME NEW t \in Threads, Launch(t)
      PROVE  GoroutineStep
  <2>1. CASE t = "boot" /\ ~Record(t)
    <3>1. /\ Others("boot")
          /\ \/ thread'["boot"].at \in {"sweep", "spawn", "record", "idle"}
             \/ thread'["boot"].at = "kill" /\ (SweepList("boot") \/ SweepRow("boot"))
      BY <1>0, <1>2, <2>1, LaunchMoves DEF Launch, Moves, Ends, Idle
    <3> QED
      BY <1>11, <3>1 DEF GoroutineStep, BootTurn
  <2>2. CASE /\ t # "boot"
             /\ ClaimRead(t) \/ SweepList(t) \/ SweepRow(t) \/ SweepDone(t) \/ SpawnOK(t)
    <3>1. LaunchGoesOn(t) /\ Others(t)
      BY <1>0, <2>2, LaunchMoves DEF LaunchGoesOn, Moves
    <3>2. UNCHANGED <<status, timedOut>>
      BY <2>2 DEF ClaimRead, SweepList, SweepRow, SweepDone, SpawnOK, tableVars
    <3>3. Turn(t)
      BY <3>1, <3>2 DEF Turn
    <3> QED
      BY <1>1, <2>2, <3>1, <3>3
  <2>3. CASE t # "boot" /\ (ClaimReadFails(t) \/ SpawnFails(t))
    BY <1>0, <1>1, <2>3, LaunchMoves DEF Ends, Turn, At, WaitSteps, RecoverSteps
  <2>4. CASE Record(t)
    BY <2>4 DEF GoroutineStep
  <2> QED
    BY <1>2, <2>1, <2>2, <2>3, <2>4 DEF Launch
<1>3. ASSUME NEW t \in Threads, RecoverStale(t)
      PROVE  GoroutineStep
  <2>1. CASE t = "boot"
    <3>0. {AfterRecovery("boot"), AfterFailure("boot")} \subseteq {"drop", "recoverAll", "sweep"}
      BY DEF AfterRecovery, AfterFailure
    <3>1. CASE RecoverRead("boot") /\ Moves("boot", "read", "write") /\ thread["boot"].job \in Active
      BY <3>1 DEF RecoverRead, tableVars, Moves, BootTurn, GoroutineStep
    <3>2. CASE ~(/\ RecoverRead("boot") /\ Moves("boot", "read", "write")
                 /\ thread["boot"].job \in Active)
      <4>1. Others("boot") /\ thread'["boot"].at \in {"unpause", "drop", "recoverAll", "sweep"}
        BY <1>0, <1>3, <2>1, <3>0, <3>2, RecoverMoves DEF RecoverStale, Moves
      <4> QED
        BY <1>11, <4>1
    <3> QED
      BY <3>1, <3>2
  <2>2. CASE t # "boot"
    <3>0. t = "ui" \/ (AfterRecovery(t) = "drop" /\ AfterFailure(t) = "drop")
      BY <1>0, <1>3, <2>2, WhoseSteps DEF RecoverStale, RecoverRead, RecoverWrite,
         RecoverUnpause, RecoverFails, At, RecoverSteps, AfterRecovery, AfterFailure
    <3>1. CASE RecoverRead(t)
      <4>1. UNCHANGED <<status, timedOut>>
        BY <3>1 DEF RecoverRead, tableVars
      <4>2. \/ Moves(t, "read", "write") /\ thread[t].job \in Active
            \/ thread'[t] = Idle /\ Others(t) /\ t \notin Procs
            \/ Moves(t, "read", "drop")
        BY <1>0, <3>0, <3>1, RecoverMoves DEF Ends
      <4>3. Turn(t) /\ Others(t)
        BY <4>1, <4>2 DEF Turn, Moves, RecoverSteps
      <4> QED
        BY <1>1, <2>2, <4>3
    <3>2. CASE RecoverWrite(t) \/ RecoverUnpause(t) \/ RecoverFails(t)
      <4>1. \/ Moves(t, "write", "unpause") \/ \E from \in RecoverSteps : Moves(t, from, "drop")
            \/ thread'[t] = Idle /\ Others(t) /\ t \notin Procs
        BY <1>0, <3>0, <3>2, RecoverMoves DEF Ends, RecoverSteps
      <4>2. Turn(t) /\ Others(t)
        BY <4>1 DEF Turn, Moves
      <4> QED
        BY <1>1, <2>2, <4>2
    <3> QED
      BY <1>3, <3>1, <3>2 DEF RecoverStale
  <2> QED
    BY <2>1, <2>2
<1>4. ASSUME NEW p \in Procs, Waiter(p)
      PROVE  GoroutineStep
  <2>0. p \in Threads \ {"boot"}
    BY <1>0
  <2>1. CASE Reap(p)
    BY <1>0, <1>1, <2>0, <2>1, WaiterMoves DEF Moves, Turn
  <2>2. CASE Drop(p)
    <3>1. Stops(p) => thread'[p] = Idle
      BY <1>0 DEF Stops, ThreadsOK
    <3>2. /\ Others(p) /\ (proc[p].exit = "stall" \/ Stops(p))
          /\ Moves(p, "drop", "restartDelay") \/ thread'[p] = Idle
      BY <1>0, <2>2, WaiterMoves DEF Drop, Moves, Ends
    <3> QED
      BY <1>1, <2>0, <2>2, <3>1, <3>2 DEF Turn
  <2>3. CASE StallResume(p)
    <3>1. CASE ClaimResume(thread[p].job) /\ Moves(p, "restartDelay", "claimed")
      <4>1. thread[p].job \in Jobs
        BY <1>0, <3>1, HasJob DEF Moves, At
      <4>2. /\ Resumable(thread[p].job) /\ DelayOver(thread[p].job)
            /\ \E s \in {"starting", "running"} : Sets(thread[p].job, s, FALSE)
        BY <1>0, <2>3, <3>1, <4>1, StatementWrites DEF StallResume
      <4> QED
        BY <1>1, <2>0, <3>1, <4>2 DEF Turn, Moves
    <3>2. CASE Ends(p, "restartDelay")
      BY <1>1, <2>0, <3>2 DEF Turn, Ends, At, WaitSteps, RecoverSteps
    <3> QED
      BY <1>0, <2>3, <3>1, <3>2, WaiterMoves
  <2> QED
    BY <1>4, <2>1, <2>2, <2>3 DEF Waiter
<1>5. CASE Queue
  <2>0. "queue" \in Threads \ {"boot"}
    BY <1>0
  <2>1. CASE QueuePoll
    <3>1. (\E j \in Jobs : NextTimeout(j)) \/ Goes("queue", "queueWait")
      BY <2>1 DEF QueuePoll
    <3>2. Goes("queue", "queueWait") => thread'["queue"].at = "queueWait"
      BY <1>0 DEF Goes, ThreadsOK, ThreadRecs
    <3>3. \/ Moves("queue", "idle", "delay") \/ Moves("queue", "idle", "queueWait")
      BY <1>0, <2>1, QueueMovesTo
    <3> QED
      BY <1>1, <2>0, <3>1, <3>2, <3>3 DEF Turn, Moves
  <2>2. CASE QueueResume
    <3>1. UNCHANGED <<status, timedOut>>
      BY <2>2 DEF QueueResume, tableVars
    <3>2. \/ \E j \in Jobs : /\ NextTimeout(j) /\ DelayOver(j)
                            /\ Begins("queue", "delay", "claimResume", j, FALSE)
          \/ Ends("queue", "delay")
      BY <1>0, <2>2, QueueMovesTo
    <3> QED
      BY <1>0, <1>1, <2>0, <3>1, <3>2 DEF Turn, Begins, Ends
  <2>3. CASE QueueClaimResume
    <3>1. CASE ClaimResume(thread["queue"].job) /\ Moves("queue", "claimResume", "claimed")
      <4>1. thread["queue"].job \in Jobs
        BY <1>0, <3>1, HasJob DEF Moves, At
      <4>2. /\ Resumable(thread["queue"].job)
            /\ \E s \in {"starting", "running"} : Sets(thread["queue"].job, s, FALSE)
        BY <1>0, <3>1, <4>1, StatementWrites
      <4> QED
        BY <1>0, <1>1, <2>0, <3>1, <4>2 DEF Turn, Moves, At
    <3>2. CASE Ends("queue", "claimResume")
      BY <1>0, <1>1, <2>0, <3>2 DEF Turn, Ends
    <3> QED
      BY <1>0, <2>3, <3>1, <3>2, QueueMovesTo
  <2>4. CASE QueueClaim
    <3>1. ASSUME NEW j \in Jobs, ClaimNextPending(j)
          PROVE  StartsNow(j)
      BY <1>0, <3>1, StatementWrites DEF StartsNow, Sets
    <3>2. \/ \E j \in Jobs : StartsNow(j) /\ Begins("queue", "queueWait", "claimed", j, TRUE)
          \/ Ends("queue", "queueWait")
      BY <1>0, <2>4, <3>1, QueueMovesTo
    <3> QED
      BY <1>0, <1>1, <2>0, <3>2 DEF Turn, Begins, Ends
  <2> QED
    BY <1>5, <2>1, <2>2, <2>3, <2>4 DEF Queue
<1>6. CASE Operator
  <2>0. "ui" \in Threads \ {"boot"}
    BY <1>0
  <2>1. ASSUME NEW j \in Jobs, StartsNow(j), NEW s \in {"claimed", "sweep"},
               Begins("ui", "idle", s, j, TRUE)
        PROVE  GoroutineStep
    BY <1>1, <2>0, <2>1 DEF Turn, Begins
  <2>2. ASSUME NEW n \in 1 .. 2, Create(n)
        PROVE  GoroutineStep
    <3>0. Jobs # {}
      BY <2>2 DEF Create
    <3>1. PICK k \in Jobs :
             /\ CreateJobs(k, n)
             /\ IF Active = {}
                THEN \E s \in {"claimed", "sweep"} : Begins("ui", "idle", s, k, TRUE)
                ELSE UNCHANGED thread
      BY <1>0, <2>2, <3>0, OperatorMoves
    <3>2. CASE Active = {}
      <4>1. StartsNow(k)
        BY <1>0, <3>1, <3>2, CreateWrites DEF StartsNow
      <4> QED
        BY <2>1, <3>1, <3>2, <4>1
    <3>3. CASE Active # {}
      BY <3>1, <3>3 DEF GoroutineStep
    <3> QED
      BY <3>2, <3>3
  <2>3. ASSUME NEW j \in Jobs, StartPending(j)
        PROVE  GoroutineStep
    <3>1. ClaimPending(j) /\ Begins("ui", "idle", "claimed", j, TRUE)
      BY <1>0, <2>3, OperatorMoves
    <3>2. StartsNow(j)
      BY <1>0, <3>1, StatementWrites DEF StartsNow, Sets
    <3> QED
      BY <2>1, <3>1, <3>2
  <2>4. ASSUME NEW j \in Jobs, ResumeJob(j) \/ RecoverJob(j)
        PROVE  GoroutineStep
    <3>1. /\ ResumeJob(j) => "resume" \in Requests
          /\ RecoverJob(j) => "recover" \in Requests
      BY DEF ResumeJob, RecoverJob, Handles
    <3>2. \/ "resume" \in Requests /\ Begins("ui", "idle", "claimed", j, FALSE)
          \/ "recover" \in Requests /\ Begins("ui", "idle", "read", j, FALSE)
      BY <1>0, <2>4, <3>1, OperatorMoves
    <3>3. Others("ui")
      BY <3>2 DEF Begins
    <3>4. Turn("ui")
      BY <3>2 DEF Turn
    <3> QED
      BY <1>1, <2>0, <3>3, <3>4
  <2>5. ASSUME UNCHANGED thread
        PROVE  GoroutineStep
    BY <2>5 DEF GoroutineStep
  <2> QED
    BY <1>6, <2>2, <2>3, <2>4, <2>5 DEF Operator, PauseJob, RemoveJob, SetSchedulerPaused
<1>7. CASE Server
  <2>1. CASE ServerBoots
    BY <1>0, <1>11, <2>1 DEF ServerBoots, Others, ThreadsOK, ThreadRecs
  <2>2. CASE BootNext
    BY <1>0, <1>11, <2>2, BootMoves DEF Moves
  <2> QED
    BY <1>7, <2>1, <2>2 DEF Server
<1>8. CASE ServerDies
  BY <1>8 DEF ServerDies, GoroutineStep
<1>9. ASSUME NEW p \in Procs, Process(p) \/ ProcessFault(p)
      PROVE  GoroutineStep
  BY <1>9, ProcessRows DEF ProcMoves, GoroutineStep
<1>10. CASE UNCHANGED vars
  BY <1>10 DEF vars, controlVars, GoroutineStep
<1> QED
  BY <1>2, <1>3, <1>4, <1>5, <1>6, <1>7, <1>8, <1>9, <1>10 DEF Next

\* What leads into the waits of minutes: a stall of the process, a job that timed
\* out.
LEMMA WhatLeadsThere ==
    ASSUME TypeInv, [Next]_vars
    PROVE  /\ \A p \in Procs :
                 At(p, "restartDelay")' => At(p, "restartDelay") \/ proc[p].exit = "stall"
           /\ thread'["queue"].at \in {"delay", "claimResume"} =>
                 \/ thread["queue"].at \in {"delay", "claimResume"}
                 \/ \E j \in Jobs : NextTimeout(j)
<1> DEFINE Led(u) ==
              /\ At(u, "restartDelay")' => At(u, "restartDelay") \/ proc[u].exit = "stall"
              /\ thread'[u].at \in {"delay", "claimResume"} =>
                    \/ thread[u].at \in {"delay", "claimResume"}
                    \/ \E j \in Jobs : NextTimeout(j)
<1>0. /\ ThreadsOK /\ Idle.at = "idle" /\ Procs \subseteq Threads \ {"boot"}
      /\ "queue" \in Threads \ {"boot"}
  BY ControlAssumption DEF TypeInv, Idle, Threads
<1>1. ASSUME NEW u \in Threads, thread'[u] = thread[u] \/ thread'[u].at \in {"idle", "wait"}
      PROVE  Led(u)
  BY <1>0, <1>1 DEF At
<1>2. ASSUME NEW u \in Threads, Turn(u)
      PROVE  Led(u)
  BY <1>0, <1>2 DEF Turn, LaunchGoesOn, Moves, Begins, At
<1>3. ASSUME NEW t \in Threads, Record(t), NEW u \in Threads
      PROVE  thread'[u] = thread[u] \/ thread'[u].at \in {"idle", "wait"}
  <2>1. thread[t].child \in Procs
    BY <1>0, <1>3, HasJob DEF Record, At
  <2>2. thread' = [thread EXCEPT ![t] = Idle,
                     ![thread[t].child] = [Idle EXCEPT !.at = "wait", !.job = thread[t].job]]
    BY <1>3 DEF Record
  <2> QED
    BY <1>0, <2>1, <2>2 DEF ThreadsOK, Idle
<1>4. ASSUME NEW u \in Threads \ {"boot"}
      PROVE  Led(u)
  <2>1. CASE \E t \in Threads \ {"boot"} : Others(t) /\ Turn(t)
    BY <1>1, <1>2, <1>4, <2>1 DEF Others
  <2>2. CASE \E t \in Threads : Record(t)
    BY <1>1, <1>3, <1>4, <2>2
  <2>3. CASE UNCHANGED thread \/ (\A t \in Threads : thread'[t] = Idle) \/ Others("boot")
    BY <1>0, <1>1, <1>4, <2>3 DEF Others
  <2> QED
    BY <2>1, <2>2, <2>3, GoroutineSteps DEF GoroutineStep
<1> QED
  BY <1>0, <1>4

LEMMA FaultsInvariant ==
    /\ Init => FaultsShow
    /\ TypeInv /\ FaultsShow /\ [Next]_vars => FaultsShow'
<1>1. Init => FaultsShow
  BY DEF Init, FaultsShow, Idle, NoProcess, ProcAt, At, Threads
<1>2. ASSUME TypeInv, FaultsShow, [Next]_vars
      PROVE  FaultsShow'
  <2>0. ThreadsOK /\ ProcsOK
    BY <1>2 DEF TypeInv
  <2>1. ASSUME NEW p \in Procs
        PROVE  /\ proc'[p].at = "stalled" => ProcAt(p, "stalled") \/ "stall" \in Faults
               /\ proc'[p].at = "recovery" => ProcAt(p, "recovery") \/ "recovery" \in Faults
               /\ proc'[p].exit = "stall" => proc[p].exit = "stall" \/ ProcAt(p, "stalled")
               /\ proc'[p].exit = "timeout" => proc[p].exit = "timeout" \/ "timeout" \in Faults
    BY <1>2, ProcChanges DEF ProcChange, ProcessRow, ProcStep, ProcEnd, ProcAt, NoProcess
  <2>2. ASSUME NEW j \in Jobs, timedOut'[j], "timeout" \notin Faults
        PROVE  FALSE
    BY <1>2, <2>2, TimeoutWritten DEF FaultsShow
  <2>3. \A p \in Procs : At(p, "restartDelay")' => At(p, "restartDelay") \/ proc[p].exit = "stall"
    BY <1>2, WhatLeadsThere
  <2>4. thread'["queue"].at \in {"delay", "claimResume"} =>
           thread["queue"].at \in {"delay", "claimResume"} \/ \E j \in Jobs : timedOut[j]
    BY <1>2, WhatLeadsThere DEF NextTimeout, Timeouts
  <2> QED
    BY <1>2, <2>1, <2>2, <2>3, <2>4 DEF FaultsShow, ProcAt
<1> QED
  BY <1>1, <1>2

-----------------------------------------------------------------------------
(* An active job that the server has not given up always has a goroutine:    *)
(* one on its way to launch it, or the waiter of its process, until that has *)
(* looked at the row and written it.                                         *)

Keeps(t, j) == Launching(t, j) \/ Watches(t, j)

OwnerUp == server = "up" => \A j \in Active \ abandoned : \E t \in Threads : Keeps(t, j)

\* Boot has listed the active jobs, and serves no request before it has
\* recovered every one of them.
Listed(j) == <<j, NoProc>> \in thread["boot"].todo

BootOwns ==
    /\ At("boot", "recoverAll") => \A j \in Active \ abandoned : Listed(j)
    /\ At("boot", "read") \/ At("boot", "write") =>
          \A j \in Active \ abandoned : Listed(j) \/ j = thread["boot"].job
    /\ At("boot", "unpause") => \A j \in Active \ abandoned : Listed(j)
    /\ At("boot", "sweep") \/ At("boot", "kill") => Active \subseteq abandoned

OwnInv == OwnerUp /\ BootOwns

LEMMA ActiveAfter ==
    ASSUME NEW j \in Jobs, NEW s, NEW b, Writes(j, s, b)
    PROVE  /\ s \notin {"starting", "running"} => Active' = Active \ {j}
           /\ s \in {"starting", "running"} => Active' \subseteq Active \cup {j}
<1>1. CASE Exists(j)
  BY <1>1 DEF Writes, Sets, Active, With
<1>2. CASE ~Exists(j)
  BY <1>2 DEF Writes, Exists, JobStatuses, Active, With
<1> QED
  BY <1>1, <1>2

LEMMA ClaimActivates ==
    ASSUME TableTypeOK, NEW j \in Jobs, ClaimResume(j) \/ ClaimNextPending(j) \/ ClaimPending(j)
    PROVE  Active' \subseteq Active \cup {j}
<1>1. PICK s \in {"starting", "running"} : Sets(j, s, FALSE)
  BY StatementWrites
<1> QED
  BY <1>1 DEF Sets, Active, With

LEMMA ActiveSame == UNCHANGED status => Active' = Active
  BY DEF Active, With

\* A step of one goroutine keeps an owner for every job that its own job, or one
\* that another goroutine keeps, is not.
LEMMA OwnersKept ==
    ASSUME \A j \in Active \ abandoned : \E t \in Threads : Keeps(t, j),
           abandoned \subseteq abandoned', NEW t \in Threads, Others(t),
           \A j \in Active' \ abandoned' : \/ j \in Active /\ ~Keeps(t, j)
                                           \/ Keeps(t, j)'
    PROVE  \A j \in Active' \ abandoned' : \E u \in Threads : Keeps(u, j)'
<1>1. \A u \in Threads \ {t}, j \in Jobs : Keeps(u, j)' <=> Keeps(u, j)
  BY DEF Others, Keeps, Launching, Watches
<1> QED
  BY <1>1 DEF Active, With

\* The read after a claim, and what follows it, takes a job off the list of those
\* given up; everything else leaves the list alone or adds to it.
LEMMA GivenUpStay ==
    ASSUME [Next]_vars
    PROVE  abandoned \subseteq abandoned' \/ \E t \in Threads : ClaimRead(t)
<1>1. ASSUME NEW t \in Threads, Launch(t)
      PROVE  abandoned \subseteq abandoned' \/ ClaimRead(t)
  BY <1>1 DEF Launch, ClaimReadFails, SweepList, SweepRow, SweepDone, SpawnOK, SpawnFails, Record,
     GivesUp, ServerOnly
<1>2. ASSUME NEW t \in Threads, RecoverStale(t)
      PROVE  abandoned \subseteq abandoned'
  BY <1>2 DEF RecoverStale, RecoverRead, RecoverWrite, RecoverUnpause, RecoverFails, GivesUp,
     ServerOnly
<1>3. ASSUME NEW p \in Procs, Waiter(p)
      PROVE  UNCHANGED abandoned
  BY <1>3 DEF Waiter, Reap, Drop, StallResume, ServerOnly
<1>4. CASE Queue \/ Operator
  BY <1>4 DEF Queue, QueuePoll, QueueResume, QueueClaimResume, QueueClaim, Operator, Create,
     PauseJob, ResumeJob, StartPending, RecoverJob, RemoveJob, SetSchedulerPaused, ServerOnly
<1>5. CASE ServerDies \/ Server \/ UNCHANGED vars
  BY <1>5 DEF ServerDies, Server, ServerBoots, BootNext, ServerOnly, vars, controlVars
<1>6. ASSUME NEW p \in Procs, Process(p) \/ ProcessFault(p)
      PROVE  UNCHANGED abandoned
  <2>1. CASE Process(p)
    BY <2>1 DEF Process, Boot, Discovered, DiscoveryFails, StartQueued, Settle, PauseEnds,
       RunFails, RecoveryOver, StallExit, Leave, ProcGoes, ProcExits
  <2>2. CASE ProcessFault(p)
    BY <2>2 DEF ProcessFault, RecoveryWait, Stall, Timeout, Crash, ProcGoes, ProcExits
  <2> QED
    BY <1>6, <2>1, <2>2
<1> QED
  BY <1>1, <1>2, <1>3, <1>4, <1>5, <1>6 DEF Next

LEMMA OwnersInvariant ==
    ASSUME "restart" \notin Faults
    PROVE  /\ Init => OwnerUp /\ BootOwns
           /\ AttachInv /\ OwnInv /\ [Next]_vars => OwnerUp' /\ BootOwns'
<1>1. ASSUME Init PROVE OwnerUp /\ BootOwns
  <2>1. Active = {} /\ thread["boot"].at = "idle"
    BY <1>1 DEF Init, Active, With, Idle, Threads
  <2> QED
    BY <2>1 DEF OwnerUp, BootOwns, At
<1>2. ASSUME AttachInv, OwnInv, NEW t \in Threads, ClaimRead(t)
      PROVE  OwnerUp' /\ BootOwns'
  <2>1. /\ Moves(t, "claimed", "sweep") /\ UNCHANGED <<server, status>>
        /\ abandoned' = abandoned \ {thread[t].job}
        /\ t # "boot" /\ "boot" \in Threads /\ thread[t].job \in Jobs
    BY <1>2, LaunchMoves, WhoseSteps, HasJob DEF ClaimRead, AttachInv, TypeInv, tableVars, Threads,
       Moves, At, LaunchSteps
  <2>2. \A j \in Jobs : (j = thread[t].job => Keeps(t, j)') /\ (Keeps(t, j) => j = thread[t].job)
    BY <2>1 DEF Moves, Keeps, Launching, Watches, LaunchSteps
  <2>3. \A u \in Threads, j \in Jobs : Keeps(u, j) => Keeps(u, j)'
    BY <2>1, <2>2 DEF Moves, Others, Keeps, Launching, Watches
  <2>4. server = "up" /\ thread'["boot"].at = "idle"
    BY <1>2, <2>1 DEF AttachInv, BootAlone, BootOver, Moves, Others, At, Idle
  <2>5. ASSUME NEW j \in Active' \ abandoned'
        PROVE  \E u \in Threads : Keeps(u, j)'
    <3>1. j \in Jobs /\ (j = thread[t].job \/ j \in Active \ abandoned)
      BY <2>1, ActiveSame DEF Active, With
    <3>2. CASE j = thread[t].job
      BY <1>2, <2>2, <3>1, <3>2
    <3>3. CASE j \in Active \ abandoned
      <4>1. PICK u \in Threads : Keeps(u, j)
        BY <1>2, <2>4, <3>3 DEF OwnInv, OwnerUp
      <4> QED
        BY <2>3, <3>1, <4>1
    <3> QED
      BY <3>1, <3>2, <3>3
  <2> QED
    BY <2>4, <2>5 DEF OwnerUp, BootOwns, At
<1>3. ASSUME AttachInv, OwnInv, [Next]_vars, abandoned \subseteq abandoned',
             ~\E t \in Threads : ClaimRead(t)
      PROVE  OwnerUp' /\ BootOwns'
  <2>0. /\ TypeInv /\ TableTypeOK /\ ThreadsOK /\ ProcsOK /\ Attached /\ AttachInv'
        /\ Idle.at = "idle" /\ Idle.job = NoJob /\ NoJob \notin Jobs /\ Procs \subseteq Threads
        /\ {"queue", "ui", "boot"} \subseteq Threads /\ Procs \cap {"queue", "ui", "boot"} = {}
    BY <1>3, AttachedInvariant, ControlAssumption DEF AttachInv, TypeInv, Threads, Idle
  <2>1. ASSUME UNCHANGED <<server, thread, status>>
        PROVE  OwnerUp' /\ BootOwns'
    BY <1>3, <2>1, ActiveSame
       DEF OwnInv, OwnerUp, BootOwns, Keeps, Launching, Watches, At, Listed
  <2>2. CASE server' = "up" /\ server = "up"
    <3>1. BootOwns'
      <4>1. thread'["boot"].at = "idle"
        BY <2>0, <2>2 DEF AttachInv, BootOver
      <4> QED
        BY <4>1 DEF BootOwns, At
    <3>2. ASSUME NEW t \in Threads, Others(t),
                 \A j \in Active' \ abandoned' : (j \in Active /\ ~Keeps(t, j)) \/ Keeps(t, j)'
          PROVE  OwnerUp'
      BY <1>3, <2>2, <3>2, OwnersKept DEF OwnInv, OwnerUp
    <3>3. ASSUME UNCHANGED <<thread>>, Active' \subseteq Active
          PROVE  OwnerUp'
      BY <1>3, <2>2, <3>3 DEF OwnInv, OwnerUp, Keeps, Launching, Watches
    <3>4. ASSUME NEW t \in Threads, NEW j \in Jobs, Others(t), thread'[t].at \in {"claimed", "sweep"},
                 thread'[t].job = j, ~\E k \in Active : Keeps(t, k) /\ k # j,
                 Active' \subseteq Active \cup {j}
          PROVE  OwnerUp'
      <4>1. Keeps(t, j)'
        BY <3>4 DEF Keeps, Launching, LaunchSteps
      <4> QED
        BY <3>2, <3>4, <4>1
    <3>5. ASSUME NEW t \in Threads, Launch(t)
          PROVE  OwnerUp'
      <4>0. t # "boot"
        BY <1>3, <2>0, <2>2, <3>5 DEF AttachInv, BootOver, Launch, ClaimRead, ClaimReadFails,
           SweepList, SweepRow, SweepDone, SpawnOK, SpawnFails, Record, At
      <4>1. CASE SweepList(t) \/ SweepRow(t) \/ SweepDone(t) \/ SpawnOK(t)
        <5>1. \E from, to \in LaunchSteps : Moves(t, from, to)
          BY <2>0, <4>0, <4>1, LaunchMoves DEF LaunchSteps
        <5>2. UNCHANGED status
          BY <4>1 DEF SweepList, SweepRow, SweepDone, SpawnOK, tableVars
        <5>3. \A j \in Jobs : Keeps(t, j) => Keeps(t, j)'
          BY <5>1 DEF Moves, Keeps, Launching, Watches, At
        <5> QED
          BY <3>2, <5>1, <5>2, <5>3, ActiveSame DEF Moves, Active, With
      <4>2. CASE SpawnFails(t) \/ ClaimReadFails(t)
        <5>1. thread[t].job \in Jobs /\ Others(t)
          BY <2>0, <4>0, <4>2, LaunchMoves, HasJob
             DEF SpawnFails, ClaimReadFails, At, LaunchSteps, Ends
        <5>2. \A j \in Jobs : Keeps(t, j) => j = thread[t].job
          BY DEF Keeps, Launching, Watches
        <5>3. CASE SetJobStatus(thread[t].job, "failed", FALSE)
          <6>1. PICK b \in BOOLEAN : Writes(thread[t].job, "failed", b)
            BY <2>0, <5>1, <5>3, SetStatusWrites DEF SetJobStatus
          <6>2. Active' = Active \ {thread[t].job}
            BY <5>1, <6>1, ActiveAfter
          <6> QED
            BY <3>2, <5>1, <5>2, <6>2 DEF Active, With
        <5>4. CASE GivesUp({thread[t].job})
          <6>1. UNCHANGED status /\ thread[t].job \in abandoned'
            BY <5>4 DEF GivesUp, tableVars
          <6> QED
            BY <3>2, <5>1, <5>2, <6>1, ActiveSame DEF Active, With
        <5> QED
          BY <4>2, <5>3, <5>4 DEF SpawnFails, ClaimReadFails
      <4>3. CASE Record(t)
        <5>0. PICK p \in Procs : p = thread[t].child
          BY <2>0, <4>3, HasJob DEF Record, At
        <5>1. /\ At(t, "record") /\ Child(t, p) /\ UNCHANGED status
              /\ thread' = [thread EXCEPT ![t] = Idle,
                               ![p] = [Idle EXCEPT !.at = "wait", !.job = thread[t].job]]
          BY <4>3, <5>0 DEF Record, At, Child, tableVars
        <5>2. At(p, "idle") /\ p # t
          BY <2>0, <5>1 DEF Attached, At
        <5>3. /\ thread'[p].at = "wait" /\ thread'[p].job = thread[t].job
              /\ \A u \in Threads \ {t, p} : thread'[u] = thread[u]
          BY <2>0, <5>1, <5>2 DEF ThreadsOK, Idle
        <5>4. ASSUME NEW j \in Active, NEW u \in Threads, Keeps(u, j)
              PROVE  \E v \in Threads : Keeps(v, j)'
          <6>1. u # p
            BY <2>0, <5>2, <5>4 DEF Keeps, Launching, Watches, LaunchSteps, At
          <6>2. CASE u = t
            <7>1. Keeps(p, j)'
              BY <5>3, <5>4, <6>2 DEF Keeps, Launching, Watches
            <7> QED
              BY <2>0, <5>1, <7>1
          <6>3. CASE u # t
            BY <5>3, <5>4, <6>1, <6>3 DEF Keeps, Launching, Watches
          <6> QED
            BY <6>2, <6>3
        <5> QED
          BY <1>3, <2>2, <5>1, <5>4, ActiveSame DEF OwnInv, OwnerUp
      <4> QED
        BY <1>3, <3>5, <4>1, <4>2, <4>3 DEF Launch
    <3>6. ASSUME NEW t \in Threads, RecoverStale(t)
          PROVE  OwnerUp'
      <4>1. CASE RecoverRead(t)
        <5>1. /\ Others(t) /\ UNCHANGED status /\ At(t, "read")
              /\ \/ thread[t].job \notin Active
                 \/ Moves(t, "read", "write")
          BY <2>0, <4>1, RecoverMoves DEF RecoverRead, Moves, Ends, tableVars
        <5>2. \A j \in Jobs : Keeps(t, j) => thread[t].job = j
          BY DEF Keeps, Launching, Watches
        <5>3. Moves(t, "read", "write") => \A j \in Jobs : Keeps(t, j) => Keeps(t, j)'
          BY <5>1 DEF Moves, Keeps, Launching, Watches
        <5> QED
          BY <3>2, <5>1, <5>2, <5>3, ActiveSame DEF Active, With
      <4>2. CASE RecoverWrite(t)
        <5>1. /\ Others(t) /\ At(t, "write") /\ thread[t].job \in Jobs
          BY <2>0, <4>2, RecoverMoves, HasJob DEF RecoverWrite, Moves, At
        <5>2. PICK s \in {"paused", "failed"}, b \in BOOLEAN : SetStatus(thread[t].job, s, b)
          BY <4>2 DEF RecoverWrite, SetJobStatus, TimedOut
        <5>3. Active' = Active \ {thread[t].job}
          BY <2>0, <5>1, <5>2, SetStatusWrites, ActiveAfter
        <5> QED
          BY <3>2, <5>1, <5>3 DEF Keeps, Launching, Watches
      <4>3. CASE RecoverUnpause(t)
        <5>1. Others(t) /\ At(t, "unpause") /\ UNCHANGED status
          BY <2>0, <4>3, RecoverMoves DEF RecoverUnpause, Moves, Ends, Unpause
        <5> QED
          BY <3>2, <5>1, ActiveSame DEF At, Keeps, Launching, Watches, LaunchSteps
      <4>4. CASE RecoverFails(t)
        <5>1. Others(t) /\ UNCHANGED status
          BY <2>0, <4>4, RecoverMoves DEF RecoverFails, Moves, Ends, GivesUp, tableVars
        <5>2. thread[t].job \in abandoned' \/ t = "boot"
          BY <4>4 DEF RecoverFails, GivesUp
        <5>3. \A j \in Jobs : Keeps(t, j) => j = thread[t].job /\ t # "boot"
          BY <1>3, <2>0, <2>2 DEF Keeps, Launching, Watches, AttachInv, BootOver
        <5> QED
          BY <3>2, <5>1, <5>2, <5>3, ActiveSame DEF Active, With
      <4> QED
        BY <3>6, <4>1, <4>2, <4>3, <4>4 DEF RecoverStale
    <3>7. ASSUME NEW p \in Procs, Waiter(p)
          PROVE  OwnerUp'
      <4>0. p \in Threads
        BY <2>0
      <4>1. CASE Reap(p)
        <5>1. Moves(p, "wait", "read") /\ UNCHANGED status
          BY <2>0, <4>1, WaiterMoves DEF Reap, tableVars
        <5>2. \A j \in Jobs : Keeps(p, j) => Keeps(p, j)'
          BY <5>1 DEF Moves, Keeps, Launching, Watches, LaunchSteps, At
        <5> QED
          BY <3>2, <4>0, <5>1, <5>2, ActiveSame DEF Moves, Active, With
      <4>2. CASE Drop(p)
        <5>1. Others(p) /\ At(p, "drop") /\ UNCHANGED status
          BY <2>0, <4>2, WaiterMoves DEF Drop, Moves, Ends, tableVars
        <5> QED
          BY <3>2, <4>0, <5>1, ActiveSame DEF At, Keeps, Launching, Watches, LaunchSteps
      <4>3. CASE StallResume(p)
        <5>1. /\ Others(p) /\ At(p, "restartDelay") /\ thread[p].job \in Jobs
              /\ \A k \in Jobs : ~Keeps(p, k)
          BY <2>0, <4>0, <4>3, HasJob, WaiterMoves
             DEF Moves, Ends, At, Keeps, Launching, Watches, LaunchSteps
        <5>2. CASE ClaimResume(thread[p].job) /\ Moves(p, "restartDelay", "claimed")
          <6>1. Active' \subseteq Active \cup {thread[p].job}
            BY <2>0, <5>1, <5>2, ClaimActivates
          <6> QED
            BY <3>4, <4>0, <5>1, <5>2, <6>1 DEF Moves, Active, With
        <5>3. CASE UNCHANGED tableVars
          BY <3>2, <4>0, <5>1, <5>3, ActiveSame DEF tableVars, Active, With
        <5> QED
          BY <2>0, <4>3, <5>2, <5>3, WaiterMoves
      <4> QED
        BY <3>7, <4>1, <4>2, <4>3 DEF Waiter
    <3>8. ASSUME Queue
          PROVE  OwnerUp'
      <4>0. "queue" \in Threads
        BY <2>0
      <4>1. /\ Others("queue") /\ \A k \in Jobs : ~Keeps("queue", k)
            /\ At("queue", "claimResume") => thread["queue"].job \in Jobs
        BY <2>0, <3>8, HasJob, QueueMovesTo
           DEF Queue, Moves, Ends, Begins, At, Keeps, Launching, Watches, LaunchSteps
      <4>2. CASE UNCHANGED tableVars
        BY <3>2, <4>0, <4>1, <4>2, ActiveSame DEF tableVars, Active, With
      <4>3. ASSUME NEW j \in Jobs, ClaimResume(j) \/ ClaimNextPending(j),
                   thread'["queue"].at = "claimed", thread'["queue"].job = j
            PROVE  OwnerUp'
        <5>1. Active' \subseteq Active \cup {j}
          BY <2>0, <4>3, ClaimActivates
        <5> QED
          BY <3>4, <4>0, <4>1, <4>3, <5>1 DEF Active, With
      <4>4. CASE QueuePoll \/ QueueResume
        BY <4>2, <4>4 DEF QueuePoll, QueueResume
      <4>5. CASE QueueClaimResume \/ QueueClaim
        BY <2>0, <4>1, <4>2, <4>3, <4>5, QueueMovesTo DEF Moves, Begins, QueueClaimResume,
           QueueClaim
      <4> QED
        BY <3>8, <4>4, <4>5 DEF Queue
    <3>9. ASSUME Operator
          PROVE  OwnerUp'
      <4>0. "ui" \in Threads /\ At("ui", "idle") /\ \A k \in Jobs : ~Keeps("ui", k)
        BY <2>0, <3>9 DEF Operator, Create, PauseJob, ResumeJob, StartPending, RecoverJob,
           RemoveJob,
           SetSchedulerPaused, Handles, At, Keeps, Launching, Watches, LaunchSteps
      <4>1. ASSUME NEW n \in 1 .. 2, Create(n)
            PROVE  OwnerUp'
        <5>0. Jobs # {}
          BY <4>1 DEF Create
        <5>1. PICK k \in Jobs :
                 /\ CreateJobs(k, n)
                 /\ IF Active = {}
                    THEN \E s \in {"claimed", "sweep"} : Begins("ui", "idle", s, k, TRUE)
                    ELSE UNCHANGED thread
          BY <2>0, <4>1, <5>0, OperatorMoves
        <5>2. CASE Active = {}
          <6>1. Active' \subseteq Active \cup {k}
            BY <2>0, <5>1, <5>2, CreateWrites DEF Active, With
          <6> QED
            BY <3>4, <4>0, <5>1, <5>2, <6>1 DEF Begins
        <5>3. CASE Active # {}
          <6>1. Active' \subseteq Active
            BY <2>0, <5>1, <5>3, CreateWrites DEF Active, With
          <6> QED
            BY <3>3, <5>1, <5>3, <6>1
        <5> QED
          BY <5>2, <5>3
      <4>2. ASSUME NEW j \in Jobs, ResumeJob(j) \/ StartPending(j)
            PROVE  OwnerUp'
        <5>1. /\ ClaimResume(j) \/ ClaimPending(j)
              /\ \E b \in BOOLEAN : Begins("ui", "idle", "claimed", j, b)
          BY <2>0, <4>2, OperatorMoves
        <5>2. Active' \subseteq Active \cup {j}
          BY <2>0, <5>1, ClaimActivates
        <5> QED
          BY <3>4, <4>0, <5>1, <5>2 DEF Begins, Active, With
      <4>3. ASSUME NEW j \in Jobs, RecoverJob(j)
            PROVE  OwnerUp'
        <5>1. UNCHANGED tableVars /\ Others("ui")
          BY <2>0, <4>3, OperatorMoves DEF Begins
        <5> QED
          BY <3>2, <4>0, <5>1, ActiveSame DEF tableVars, Active, With
      <4>4. ASSUME NEW j \in Jobs, PauseJob(j) \/ RemoveJob(j)
            PROVE  OwnerUp'
        <5>1. UNCHANGED thread /\ (RequestPause(j) \/ DeleteJob(j))
          BY <4>4 DEF PauseJob, RemoveJob
        <5>2. Active' \subseteq Active
          BY <2>0, <5>1, StatementWrites DEF Sets, Active, With
        <5> QED
          BY <3>3, <5>1, <5>2
      <4>5. CASE SetSchedulerPaused
        BY <2>1, <2>2, <4>5 DEF SetSchedulerPaused, tableVars
      <4> QED
        BY <3>9, <4>1, <4>2, <4>3, <4>4, <4>5 DEF Operator
    <3>10. ASSUME NEW p \in Procs, Process(p) \/ ProcessFault(p)
           PROVE  OwnerUp'
      <4>1. ProcMoves(p) /\ ProcessRow(p) /\ UNCHANGED thread /\ Alive(p) /\ proc[p].job \in Jobs
        BY <2>0, <3>10, ProcessRows DEF ProcMoves
      <4>2. \E t \in Threads : Keeps(t, proc[p].job)
        <5>1. CASE At(p, "wait")
          <6>1. Keeps(p, proc[p].job)
            BY <2>0, <5>1 DEF Attached, At, WaitSteps, Keeps, Watches
          <6> QED
            BY <2>0, <6>1
        <5>2. ASSUME NEW t \in Threads, Child(t, p)
              PROVE  Keeps(t, proc[p].job)
          BY <2>0, <5>2 DEF Attached, Child, At, Keeps, Launching, LaunchSteps
        <5> QED
          BY <2>0, <4>1, <5>1, <5>2 DEF Attached
      <4>3. Active' \subseteq Active \cup {proc[p].job}
        <5>1. NoRow \/ \E s : Row(p, s)
          BY <4>1 DEF ProcessRow, ProcEnd
        <5>2. ASSUME NEW s, Row(p, s)
              PROVE  Active' \subseteq Active \cup {proc[p].job}
          BY <4>1, <5>2, ActiveAfter DEF Row
        <5> QED
          BY <5>1, <5>2, ActiveSame DEF NoRow
      <4> QED
        BY <1>3, <2>2, <4>1, <4>2, <4>3 DEF OwnInv, OwnerUp, Keeps, Launching, Watches
    <3>11. CASE UNCHANGED vars
      BY <2>1, <3>11 DEF vars, controlVars, tableVars
    <3>12. ASSUME ServerDies \/ Server
           PROVE  FALSE
      <4>1. thread["boot"].at = "idle"
        BY <1>3, <2>0, <2>2 DEF AttachInv, BootOver
      <4> QED
        BY <2>2, <3>12, <4>1 DEF ServerDies, Server, ServerBoots, BootNext, At
    <3>13. OwnerUp'
      BY <1>3, <3>5, <3>6, <3>7, <3>8, <3>9, <3>10, <3>11, <3>12 DEF Next
    <3> QED
      BY <3>1, <3>13
  <2>3. CASE server = "up" /\ server' # "up"
    <3>1. ASSUME NEW t \in Threads, SweepDone(t)
          PROVE  UNCHANGED server
      BY <1>3, <2>0, <2>3, <3>1 DEF AttachInv, BootOver, SweepDone, At
    <3>2. ServerDies
      BY <1>3, <2>3, <3>1 DEF Next, Launch, ClaimReadFails, SweepList, SweepRow, SpawnOK,
         SpawnFails, Record, GivesUp, RecoverFails,
         RecoverStale, RecoverRead, RecoverWrite, RecoverUnpause, Waiter, Reap, Drop, StallResume,
         Queue, QueuePoll, QueueResume, QueueClaimResume, QueueClaim, Operator, Create, PauseJob,
         ResumeJob, StartPending, RecoverJob, RemoveJob, SetSchedulerPaused, Server, ServerBoots,
         BootNext, ServerOnly, Process, ProcessFault, Boot, Discovered, DiscoveryFails,
         StartQueued,
         Settle, PauseEnds, RunFails, RecoveryOver, StallExit, Leave, RecoveryWait, Stall,
         Timeout,
         Crash, ProcGoes, ProcExits, vars, controlVars
    <3>3. thread'["boot"].at = "idle"
      BY <2>0, <3>2 DEF ServerDies
    <3> QED
      BY <2>3, <3>3 DEF OwnerUp, BootOwns, At
  <2>4. CASE server # "up"
    <3>0. /\ \A t \in Threads \ {"boot"} : thread[t].at = "idle"
          /\ \A p \in Procs : ~Alive(p)
      BY <1>3, <2>0, <2>4 DEF AttachInv, BootAlone, NoProcess, Alive, AliveSteps
    <3>1. ASSUME NEW t \in Threads, Launch(t)
          PROVE  OwnerUp' /\ BootOwns'
      <4>1. t = "boot" /\ thread[t].at \in {"sweep", "kill"}
        BY <2>0, <3>0, <3>1, WhoseSteps DEF Launch, ClaimRead, ClaimReadFails, SweepList, SweepRow,
           SweepDone, SpawnOK, SpawnFails, Record, At
      <4>2. SweepList(t) \/ SweepRow(t) \/ SweepDone(t)
        BY <3>1, <4>1 DEF Launch, ClaimRead, ClaimReadFails, SpawnOK, SpawnFails, Record, At
      <4>3. Active \subseteq abandoned /\ Active' \subseteq abandoned'
        BY <1>3, <4>1, <4>2, ActiveSame DEF OwnInv, BootOwns, At, SweepList, SweepRow, SweepDone,
           tableVars
      <4> QED
        BY <4>3 DEF OwnerUp, BootOwns
    <3>2. ASSUME NEW t \in Threads, RecoverStale(t)
          PROVE  OwnerUp' /\ BootOwns'
      <4>1. /\ t = "boot" /\ thread[t].at \in RecoverSteps /\ AfterRecovery(t) = "recoverAll"
            /\ t # "ui"
        BY <2>0, <3>0, <3>2 DEF RecoverStale, RecoverRead, RecoverWrite, RecoverUnpause,
           RecoverFails, At, RecoverSteps, AfterRecovery
      <4>2. UNCHANGED server /\ \A j \in Jobs : Listed(j)' <=> Listed(j)
        BY <2>0, <3>2, <4>1 DEF RecoverStale, RecoverRead, RecoverWrite, RecoverUnpause,
           RecoverFails, GivesUp, Goes, ServerOnly, Listed, ThreadsOK, ThreadRecs
      <4>3. CASE RecoverRead(t)
        <5>1. /\ UNCHANGED status
              /\ \/ thread["boot"].job \notin Active /\ Moves("boot", "read", "recoverAll")
                 \/ Moves("boot", "read", "write")
          BY <2>0, <4>1, <4>3, RecoverMoves DEF RecoverRead, tableVars
        <5> QED
          BY <1>3, <2>4, <4>2, <5>1, ActiveSame DEF OwnInv, OwnerUp, BootOwns, Moves, At,
             Active, With
      <4>4. CASE RecoverWrite(t)
        <5>1. Moves("boot", "write", "unpause") /\ thread["boot"].job \in Jobs
          BY <2>0, <4>1, <4>4, RecoverMoves, HasJob DEF RecoverWrite, At
        <5>2. PICK s \in {"paused", "failed"}, b \in BOOLEAN : SetStatus(thread["boot"].job, s, b)
          BY <4>1, <4>4 DEF RecoverWrite, SetJobStatus, TimedOut
        <5>3. Active' = Active \ {thread["boot"].job}
          BY <2>0, <5>1, <5>2, SetStatusWrites, ActiveAfter
        <5> QED
          BY <1>3, <2>4, <4>2, <5>1, <5>3 DEF OwnInv, OwnerUp, BootOwns, Moves, At, Active, With
      <4>5. CASE RecoverUnpause(t)
        <5>1. Moves("boot", "unpause", "recoverAll") /\ UNCHANGED status
          BY <2>0, <4>1, <4>5, RecoverMoves DEF RecoverUnpause, Unpause
        <5> QED
          BY <1>3, <2>4, <4>2, <5>1, ActiveSame DEF OwnInv, OwnerUp, BootOwns, Moves, At,
             Active, With
      <4>6. CASE RecoverFails(t)
        <5>1. thread'["boot"].at = "sweep" /\ UNCHANGED status /\ abandoned' = abandoned \cup Active
          BY <2>0, <4>1, <4>6, RecoverMoves, ControlAssumption
             DEF RecoverFails, AfterFailure, GivesUp, Moves, tableVars
        <5> QED
          BY <2>4, <4>2, <5>1, ActiveSame DEF OwnerUp, BootOwns, At
      <4> QED
        BY <3>2, <4>3, <4>4, <4>5, <4>6 DEF RecoverStale
    <3>3. CASE BootNext
      <4>1. UNCHANGED <<server, status>> /\ At("boot", "recoverAll")
        BY <3>3 DEF BootNext, ServerOnly, tableVars
      <4>2. CASE thread["boot"].todo = {} /\ Moves("boot", "recoverAll", "sweep")
        <5>1. Active' \subseteq abandoned'
          BY <1>3, <4>1, <4>2, ActiveSame DEF OwnInv, BootOwns, Listed
        <5> QED
          BY <2>4, <4>1, <4>2, <5>1 DEF OwnerUp, BootOwns, Moves, At
      <4>3. ASSUME NEW r \in thread["boot"].todo,
                   /\ thread'["boot"].at = "read" /\ thread'["boot"].job = r[1]
                   /\ thread'["boot"].todo = thread["boot"].todo \ {r}
            PROVE  OwnerUp' /\ BootOwns'
        <5>1. ASSUME NEW j \in Active \ abandoned
              PROVE  Listed(j)' \/ j = thread'["boot"].job
          BY <1>3, <4>1, <4>3, <5>1 DEF OwnInv, BootOwns, Listed
        <5> QED
          BY <1>3, <2>4, <4>1, <4>3, <5>1, ActiveSame DEF OwnerUp, BootOwns, At
      <4> QED
        BY <2>0, <3>3, <4>2, <4>3, BootMoves
    <3>4. CASE ServerBoots
      <4>1. /\ server' = "boot" /\ UNCHANGED status /\ thread'["boot"].at = "recoverAll"
            /\ thread'["boot"].todo = {<<j, NoProc>> : j \in Active}
        BY <2>0, <3>4 DEF ServerBoots, ThreadsOK, ThreadRecs, tableVars
      <4> QED
        BY <4>1, ActiveSame DEF OwnerUp, BootOwns, At, Listed
    <3>5. CASE ServerDies
      <4>1. thread'["boot"].at = "idle" /\ server' = "down"
        BY <2>0, <3>5 DEF ServerDies
      <4> QED
        BY <4>1 DEF OwnerUp, BootOwns, At
    <3>6. CASE UNCHANGED vars
      BY <2>1, <3>6 DEF vars, controlVars, tableVars
    <3>7. ASSUME NEW p \in Procs, Waiter(p) \/ Process(p) \/ ProcessFault(p)
          PROVE  FALSE
      <4>1. ~(Process(p) \/ ProcessFault(p))
        BY <2>0, <3>0, ProcessMoves DEF ProcMoves
      <4> QED
        BY <2>0, <3>0, <3>7, <4>1 DEF Waiter, Reap, Drop, StallResume, At
    <3>8. ~Queue /\ ~Operator
      BY <2>0, <2>4, <3>0 DEF Queue, QueuePoll, QueueResume, QueueClaimResume, QueueClaim, At,
         Operator, Create, PauseJob, ResumeJob, StartPending, RecoverJob, RemoveJob,
         SetSchedulerPaused, Handles
    <3> QED
      BY <1>3, <3>1, <3>2, <3>3, <3>4, <3>5, <3>6, <3>7, <3>8 DEF Next, Server
  <2> QED
    BY <2>2, <2>3, <2>4
<1> QED
  BY <1>1, <1>2, <1>3, GivenUpStay

\* No active job is left with nobody to end it, whatever the operator asks for and
\* however its process ends: by the deadline, a stall, a crash, a failure or a reboot
\* of the machine; but for the jobs that the server has given up after an error of
\* its own, which are exactly those of `abandoned`.  A server that restarts alone is
\* excluded: its processes live on, and nobody waits for them.
THEOREM ActiveJobsAreOwned ==
    ASSUME "restart" \notin Faults
    PROVE  Spec => []ActiveIsOwned
<1> DEFINE Inv == AttachInv /\ OwnInv
<1>1. Init => Inv
  BY AttachedInvariant, OwnersInvariant DEF OwnInv
<1>2. Inv /\ [Next]_vars => Inv'
  BY AttachedInvariant, OwnersInvariant DEF OwnInv
<1>3. Inv => ActiveIsOwned
  BY DEF OwnInv, OwnerUp, Keeps, ActiveIsOwned
<1> QED
  BY <1>1, <1>2, <1>3, PTL DEF Spec

-----------------------------------------------------------------------------
(* One goroutine for each job, and what it and its process may take for      *)
(* granted about the row: without the operator's resume and recover-stale,   *)
(* which act on a job that somebody else may hold, and without the wait      *)
(* after a bot block, which shows as a paused job.                           *)

NoInterference ==
    /\ "resume" \notin Requests /\ "recover" \notin Requests
    /\ "restart" \notin Faults /\ "recovery" \notin Faults

Goroutines == Threads \ {"boot"}

Holds(t, j) == j \in Jobs /\ thread[t].job = j

OneThread == \A t, u \in Goroutines, j \in Jobs : Holds(t, j) /\ Holds(u, j) => t = u

Known == \A t \in Goroutines, j \in Jobs : Holds(t, j) => status[j] \notin {"none", "pending"}

\* A job that timed out is with the waiter that wrote so, with the queue that is
\* about to claim it, or with nobody.
TimeoutsHeld ==
    \A j \in Jobs : timedOut[j] =>
        /\ status[j] \notin {"none", "pending"}
        /\ \A t \in Goroutines : Holds(t, j) =>
              \/ t = "queue" /\ At(t, "claimResume")
              \/ t \in Procs /\ thread[t].at \in {"unpause", "drop"} /\ proc[t].exit = "timeout"

\* What is launched is active, and so is what a recovery is about to write.
HoldsActive ==
    /\ \A t \in Goroutines :
          thread[t].at \in {"claimed", "sweep", "kill", "spawn"} => thread[t].job \in Active
    /\ \A t \in Threads : At(t, "write") => thread[t].job \in Active

\* A process at work knows the status of its job.
ProcKnows ==
    \A p \in Procs :
        /\ ProcAt(p, "boot") => proc[p].job \in Active
        /\ ProcAt(p, "discover") \/ ProcAt(p, "queued") => status[proc[p].job] = "starting"
        /\ ProcAt(p, "work") => status[proc[p].job] = "running"

HolderInv == OneThread /\ Known /\ TimeoutsHeld /\ HoldsActive /\ ProcKnows

\* The goroutine a live process has.
HasProcess(t, p) == (t = p /\ At(t, "wait")) \/ Child(t, p)

LEMMA HolderOf ==
    ASSUME TypeInv, Attached, NEW p \in Procs, Alive(p)
    PROVE  \E t \in Goroutines : HasProcess(t, p) /\ Holds(t, proc[p].job)
<1>1. ThreadsOK /\ proc[p].job \in Jobs /\ p \in Goroutines
  BY ControlAssumption DEF TypeInv, ProcsOK, Alive, AliveSteps, Goroutines, Threads
<1>2. CASE At(p, "wait")
  BY <1>1, <1>2 DEF Attached, WaitSteps, At, HasProcess, Holds
<1>3. ASSUME NEW t \in Threads, Child(t, p)
      PROVE  t \in Goroutines /\ HasProcess(t, p) /\ Holds(t, proc[p].job)
  <2>1. t # "boot"
    BY <1>1, <1>3, WhoseSteps DEF Child, At
  <2> QED
    BY <1>1, <1>3, <2>1 DEF Attached, Goroutines, HasProcess, Holds
<1> QED
  BY <1>2, <1>3 DEF Attached

\* A goroutine has one process.
LEMMA ProcessOf ==
    ASSUME TypeInv, NEW t \in Goroutines, NEW p \in Procs, NEW q \in Procs,
           HasProcess(t, p), HasProcess(t, q)
    PROVE  p = q
  BY DEF HasProcess, Child, At

\* What a step does to the status of one job, and who does it.
RowChange(j) ==
    \/ status'[j] = status[j]
    \/ status[j] = "none" /\ status'[j] \in {"pending", "starting"}
    \/ status[j] = "pending" /\ status'[j] = "starting"
    \/ Deletable(j) /\ status'[j] = "gone" /\ UNCHANGED <<thread, proc>>
    \/ Resumable(j) /\ status'[j] \in {"starting", "running"} /\ Resumes(j)
    \/ /\ Exists(j) /\ status'[j] \in {"paused", "failed"}
       /\ \E t \in Threads : thread[t].job = j /\ (SpawnFails(t) \/ RecoverWrite(t))
    \/ /\ Exists(j) /\ status'[j] \in {"running", "done", "paused", "blocked", "failed"}
       /\ \E p \in Procs : proc[p].job = j /\ ProcMoves(p) /\ ProcessRow(p)

LEMMA RowChanges ==
    ASSUME TypeInv, [Next]_vars, NEW j \in Jobs
    PROVE  RowChange(j)
<1>0. TableTypeOK
  BY DEF TypeInv
<1>1. CASE UNCHANGED <<status, timedOut>>
  BY <1>1 DEF RowChange
<1>2. ASSUME NEW k \in Jobs, NEW n \in 1 .. 2, CreateJobs(k, n)
      PROVE  RowChange(j)
  BY <1>0, <1>2, CreateWrites DEF RowChange
<1>3. ASSUME NEW k \in Jobs, status[k] = "pending", Sets(k, "starting", FALSE)
      PROVE  RowChange(j)
  <2>1. status'[j] = status[j] \/ (k = j /\ status'[j] = "starting")
    BY <1>3 DEF Sets
  <2> QED
    BY <1>3, <2>1 DEF RowChange
<1>4. ASSUME NEW k \in Jobs, Deletable(k), Sets(k, "gone", FALSE), UNCHANGED <<thread, proc>>
      PROVE  RowChange(j)
  <2>1. status'[j] = status[j] \/ (k = j /\ status'[j] = "gone")
    BY <1>4 DEF Sets
  <2> QED
    BY <1>4, <2>1 DEF RowChange
<1>5. ASSUME NEW k \in Jobs, NEW s \in {"starting", "running"},
             Resumable(k), Sets(k, s, FALSE), Resumes(k)
      PROVE  RowChange(j)
  <2>1. status'[j] = status[j] \/ (k = j /\ status'[j] = s)
    BY <1>5 DEF Sets
  <2> QED
    BY <1>5, <2>1 DEF RowChange
<1>6. ASSUME NEW t \in Threads, NEW s \in {"paused", "failed"}, SpawnFails(t) \/ RecoverWrite(t),
             Writes(thread[t].job, s, FALSE) \/ Writes(thread[t].job, s, TRUE)
      PROVE  RowChange(j)
  <2>1. status'[j] = status[j] \/ (thread[t].job = j /\ Exists(j) /\ status'[j] = s)
    BY <1>6 DEF Writes, Sets
  <2> QED
    BY <1>6, <2>1 DEF RowChange
<1>7. CASE \E t \in Threads : SpawnFails(t) /\ thread[t].start /\ Writes(thread[t].job, "failed", FALSE)
  BY <1>6, <1>7
<1>8. CASE \E t \in Threads, s \in {"paused", "failed"} :
              RecoverWrite(t) /\ Writes(thread[t].job, s, FALSE)
  BY <1>6, <1>8
<1>9. CASE \E p \in Procs : /\ RecoverWrite(p) /\ proc[p].exit = "timeout"
                            /\ Writes(thread[p].job, "paused", TRUE)
  <2>1. PICK p \in Procs : RecoverWrite(p) /\ Writes(thread[p].job, "paused", TRUE)
    BY <1>9
  <2>2. p \in Threads
    BY DEF Threads
  <2> QED
    BY <1>6, <2>1, <2>2
<1>10. ASSUME NEW p \in Procs, ProcMoves(p), ProcessRow(p)
       PROVE  RowChange(j)
  <2>1. NoRow \/ \E s \in {"running", "done", "paused", "blocked", "failed"} : Row(p, s)
    BY <1>10 DEF ProcessRow, ProcEnd
  <2>2. CASE NoRow
    BY <1>1, <2>2 DEF NoRow
  <2>3. ASSUME NEW s \in {"running", "done", "paused", "blocked", "failed"}, Row(p, s)
        PROVE  RowChange(j)
    <3>1. status'[j] = status[j] \/ (proc[p].job = j /\ Exists(j) /\ status'[j] = s)
      BY <2>3 DEF Row, Writes, Sets
    <3> QED
      BY <1>10, <3>1 DEF RowChange
  <2> QED
    BY <2>1, <2>2, <2>3
<1> QED
  BY <1>1, <1>2, <1>3, <1>4, <1>5, <1>7, <1>8, <1>9, <1>10, TableSteps DEF TableStep

LEMMA StaysKnown ==
    ASSUME TypeInv, [Next]_vars, NEW j \in Jobs, status[j] \notin {"none", "pending"}
    PROVE  status'[j] \notin {"none", "pending"}
  BY RowChanges DEF RowChange

\* While a goroutine holds a job, nobody else writes its row: the goroutine itself,
\* its process, or the operator who deletes a job that is not active.
HolderWrites(t, j) ==
    \/ SpawnFails(t) \/ RecoverWrite(t)
    \/ Moves(t, "claimResume", "claimed") \/ Moves(t, "restartDelay", "claimed")
    \/ \E p \in Procs : ProcMoves(p) /\ ProcessRow(p) /\ HasProcess(t, p)

LEMMA HeldStatus ==
    ASSUME NoInterference, AttachInv, HolderInv, [Next]_vars,
           NEW t \in Goroutines, NEW j \in Jobs, Holds(t, j)
    PROVE  \/ status'[j] = status[j]
           \/ j \notin Active /\ status'[j] = "gone" /\ UNCHANGED <<thread, proc>>
           \/ HolderWrites(t, j)
<1>0. /\ TypeInv /\ TableTypeOK /\ ThreadsOK /\ Attached /\ Procs \subseteq Goroutines
      /\ "queue" \in Goroutines /\ NoJob \notin Jobs /\ t \in Threads
      /\ status[j] \notin {"none", "pending"}
  BY ControlAssumption DEF AttachInv, TypeInv, Goroutines, Threads, HolderInv, Known
<1>1. thread["boot"].at = "idle"
  <2>1. server = "up"
    BY <1>0 DEF AttachInv, BootAlone, Holds, Idle, Goroutines
  <2> QED
    BY <2>1 DEF AttachInv, BootOver, Idle
<1>2. ASSUME NEW u \in Goroutines, Holds(u, j)
      PROVE  u = t
  BY <1>2 DEF HolderInv, OneThread
<1>3. CASE Resumes(j)
  <2>1. PICK u \in Goroutines :
           Holds(u, j) /\ (Moves(u, "claimResume", "claimed") \/ Moves(u, "restartDelay", "claimed"))
    BY <1>0, <1>3 DEF Resumes, ResumeJob, Handles, NoInterference, Holds
  <2> QED
    BY <1>2, <2>1 DEF HolderWrites
<1>4. ASSUME NEW u \in Threads, SpawnFails(u) \/ RecoverWrite(u), thread[u].job = j
      PROVE  HolderWrites(t, j)
  <2>1. u \in Goroutines
    BY <1>1, <1>4 DEF SpawnFails, RecoverWrite, At, Goroutines
  <2>2. u = t
    BY <1>2, <1>4, <2>1 DEF Holds
  <2> QED
    BY <1>4, <2>2 DEF HolderWrites
<1>5. ASSUME NEW p \in Procs, ProcMoves(p), ProcessRow(p), proc[p].job = j
      PROVE  HolderWrites(t, j)
  <2>1. PICK u \in Goroutines : HasProcess(u, p) /\ Holds(u, j)
    BY <1>0, <1>5, HolderOf DEF ProcMoves
  <2>2. u = t
    BY <1>2, <2>1
  <2> QED
    BY <1>5, <2>1, <2>2 DEF HolderWrites
<1>6. RowChange(j)
  BY <1>0, RowChanges
<1> QED
  BY <1>0, <1>3, <1>4, <1>5, <1>6 DEF RowChange, Deletable

\* A job comes to a goroutine from the launch that started its process, or from
\* nobody: it had not been started yet, or it had timed out and been let go.
Free(j) == \A u \in Goroutines : ~Holds(u, j)

JobComes(t, j) ==
    \/ Holds(t, j)
    \/ \E u \in Goroutines : Record(u) /\ Holds(u, j)
    \/ Free(j) /\ StartsNow(j)
    \/ /\ Free(j) /\ t = "queue" /\ thread'[t].at = "claimResume" /\ timedOut[j]
       /\ DelayOver(j) /\ UNCHANGED status

LEMMA JobsCome ==
    ASSUME NoInterference, AttachInv, HolderInv, [Next]_vars,
           NEW t \in Goroutines, NEW j \in Jobs, Holds(t, j)'
    PROVE  JobComes(t, j)
<1>0. /\ TypeInv /\ ThreadsOK /\ Attached /\ NoJob \notin Jobs /\ Idle.job = NoJob /\ t \in Threads
      /\ Procs \subseteq Threads
  BY ControlAssumption DEF AttachInv, TypeInv, Idle, Goroutines, Threads
<1>1. CASE thread'[t] = thread[t]
  BY <1>1 DEF Holds, JobComes
<1>2. CASE thread'[t] = Idle
  BY <1>0, <1>2 DEF Holds
<1>3. ASSUME NEW u \in Threads, Record(u)
      PROVE  JobComes(t, j)
  <2>1. PICK c \in Procs : c = thread[u].child
    BY <1>0, <1>3, HasJob DEF Record, At
  <2>2. thread' = [thread EXCEPT ![u] = Idle, ![c] = [Idle EXCEPT !.at = "wait", !.job = thread[u].job]]
    BY <1>3, <2>1 DEF Record
  <2>3. thread'[t] \in {thread[t], Idle} \/ (t = c /\ thread'[t].job = thread[u].job)
    BY <1>0, <2>2 DEF ThreadsOK, Idle
  <2>4. u \in Goroutines
    BY <1>0, <1>3, WhoseSteps DEF Record, At, Goroutines
  <2> QED
    BY <1>1, <1>2, <1>3, <2>3, <2>4 DEF Holds, JobComes
<1>4. ASSUME Turn(t)
      PROVE  JobComes(t, j)
  <2>1. CASE thread'[t].job = thread[t].job
    BY <2>1 DEF Holds, JobComes
  <2>2. ASSUME NEW k \in Jobs, StartsNow(k), thread'[t].job = k
        PROVE  JobComes(t, j)
    BY <2>2 DEF Holds, JobComes, Free, StartsNow, HolderInv, Known
  <2>3. ASSUME NEW k \in Jobs, NextTimeout(k), DelayOver(k), UNCHANGED <<status, timedOut>>,
               Begins(t, "delay", "claimResume", k, FALSE), t = "queue"
        PROVE  JobComes(t, j)
    <3>1. timedOut[k] /\ thread'[t].job = k /\ thread'[t].at = "claimResume" /\ At(t, "delay")
      BY <2>3 DEF NextTimeout, Timeouts, Begins
    <3>2. ASSUME NEW u \in Goroutines, Holds(u, k)
          PROVE  FALSE
      <4>1. thread[u].at \in {"claimResume", "unpause", "drop"} /\ (At(u, "claimResume") => u = "queue")
        BY <1>0, <3>1, <3>2 DEF HolderInv, TimeoutsHeld, At
      <4> QED
        BY <2>3, <3>1, <3>2, <4>1 DEF DelayOver, At, RecoverSteps, Goroutines, Holds
    <3> QED
      BY <2>3, <3>1, <3>2 DEF Holds, JobComes, Free
  <2>4. CASE thread'[t].job # thread[t].job /\ thread'[t] # Idle
    <3>1. ~LaunchGoesOn(t) /\ \A from, to \in ThreadSteps : ~Moves(t, from, to)
      BY <2>4 DEF LaunchGoesOn, Moves
    <3>2. \/ \E k \in Jobs, from, to \in ThreadSteps :
                Begins(t, from, to, k, TRUE) /\ StartsNow(k)
          \/ /\ t = "queue" /\ UNCHANGED <<status, timedOut>>
             /\ \E k \in Jobs : /\ NextTimeout(k) /\ DelayOver(k)
                               /\ Begins(t, "delay", "claimResume", k, FALSE)
      BY <1>4, <2>4, <3>1 DEF Turn, Moves, NoInterference, ThreadSteps, LaunchSteps
    <3> QED
      BY <2>2, <2>3, <3>2 DEF Begins
  <2> QED
    BY <1>2, <2>1, <2>4
<1> QED
  BY <1>0, <1>1, <1>2, <1>3, <1>4, GoroutineSteps DEF GoroutineStep, Others, Goroutines

\* A launch that records its process hands the job over to the waiter.
LEMMA RecordHands ==
    ASSUME TypeInv, Attached, NEW w \in Threads, Record(w)
    PROVE  \E c \in Procs :
              /\ Child(w, c) /\ c # w /\ At(c, "idle") /\ w # "boot"
              /\ thread'[c].at = "wait" /\ thread'[c].job = thread[w].job
              /\ thread'[w] = Idle
              /\ \A x \in Threads \ {w, c} : thread'[x] = thread[x]
              /\ UNCHANGED <<status, timedOut, proc>>
<1>0. ThreadsOK /\ Procs \subseteq Threads /\ At(w, "record")
  BY DEF TypeInv, Threads, Record
<1>1. PICK c \in Procs : c = thread[w].child
  BY <1>0, HasJob DEF At
<1>2. Child(w, c) /\ At(c, "idle") /\ c # w /\ w # "boot"
  BY <1>0, <1>1, WhoseSteps DEF Child, Attached, At
<1>3. /\ thread' = [thread EXCEPT ![w] = Idle, ![c] = [Idle EXCEPT !.at = "wait", !.job = thread[w].job]]
      /\ UNCHANGED <<status, timedOut, proc>>
  BY <1>1 DEF Record, tableVars
<1>4. /\ thread'[c].at = "wait" /\ thread'[c].job = thread[w].job /\ thread'[w] = Idle
      /\ \A x \in Threads \ {w, c} : thread'[x] = thread[x]
  BY <1>0, <1>2, <1>3 DEF ThreadsOK, Idle
<1> QED
  BY <1>2, <1>3, <1>4

\* Two goroutines change together only there, and when the server dies.
LEMMA OneMoves ==
    ASSUME TypeInv, [Next]_vars, NEW t \in Goroutines, NEW u \in Goroutines, t # u,
           thread'[t] # thread[t], thread'[u] # thread[u]
    PROVE  (thread'[t] = Idle /\ thread'[u] = Idle) \/ \E w \in Threads : Record(w)
  BY GoroutineSteps DEF GoroutineStep, Others, Goroutines

LEMMA OneThreadKept ==
    ASSUME NoInterference, AttachInv, HolderInv, [Next]_vars
    PROVE  OneThread'
<1>0. TypeInv /\ Attached /\ NoJob \notin Jobs /\ Idle.job = NoJob /\ Goroutines \subseteq Threads
  BY ControlAssumption DEF AttachInv, Idle, Goroutines
<1>1. ASSUME NEW w \in Threads, Record(w), NEW x \in Goroutines, NEW j \in Jobs, Holds(x, j)',
             thread'[x] # thread[x]
      PROVE  Child(w, x) /\ Holds(w, j) /\ w \in Goroutines
  <2>1. PICK c \in Procs :
           /\ Child(w, c) /\ w # "boot"
           /\ thread'[c].job = thread[w].job /\ thread'[w] = Idle
           /\ \A y \in Threads \ {w, c} : thread'[y] = thread[y]
    BY <1>0, <1>1, RecordHands
  <2>2. x # w /\ x \in Threads
    BY <1>0, <1>1, <2>1 DEF Holds
  <2>3. x = c
    BY <1>1, <2>1, <2>2
  <2> QED
    BY <1>1, <2>1, <2>3 DEF Holds, Goroutines
<1>2. ASSUME NEW t \in Goroutines, NEW u \in Goroutines, NEW j \in Jobs, Holds(t, j)', Holds(u, j)',
             t # u, thread'[t] # thread[t], thread'[u] = thread[u]
      PROVE  FALSE
  <2>1. Holds(u, j)
    BY <1>2 DEF Holds
  <2>2. ~Holds(t, j)
    BY <1>2, <2>1 DEF HolderInv, OneThread
  <2>3. PICK w \in Goroutines : Record(w) /\ Holds(w, j)
    BY <1>2, <2>1, <2>2, JobsCome DEF JobComes, Free
  <2>4. w = u
    BY <2>1, <2>3 DEF HolderInv, OneThread
  <2>5. thread'[u] = Idle
    BY <1>0, <2>3, <2>4, RecordHands
  <2> QED
    BY <1>0, <1>2, <2>5 DEF Holds
<1>3. ASSUME NEW t \in Goroutines, NEW u \in Goroutines, NEW j \in Jobs, Holds(t, j)', Holds(u, j)',
             t # u, thread'[t] # thread[t], thread'[u] # thread[u]
      PROVE  FALSE
  <2>1. PICK w \in Threads : Record(w)
    BY <1>0, <1>3, OneMoves DEF Holds
  <2>2. Child(w, t) /\ Child(w, u)
    BY <1>1, <1>3, <2>1
  <2> QED
    BY <1>3, <2>2 DEF Child
<1>4. ASSUME NEW t \in Goroutines, NEW u \in Goroutines, NEW j \in Jobs, Holds(t, j)', Holds(u, j)',
             t # u, thread'[t] = thread[t], thread'[u] = thread[u]
      PROVE  FALSE
  BY <1>4 DEF HolderInv, OneThread, Holds
<1> QED
  BY <1>2, <1>3, <1>4 DEF OneThread

LEMMA KnownKept ==
    ASSUME NoInterference, AttachInv, HolderInv, [Next]_vars
    PROVE  Known'
<1> SUFFICES ASSUME NEW t \in Goroutines, NEW j \in Jobs, Holds(t, j)'
             PROVE  status'[j] \notin {"none", "pending"}
  BY DEF Known
<1>0. TypeInv
  BY DEF AttachInv
<1>1. ASSUME NEW u \in Goroutines, Holds(u, j)
      PROVE  status'[j] \notin {"none", "pending"}
  BY <1>0, <1>1, StaysKnown DEF HolderInv, Known
<1>2. CASE StartsNow(j)
  BY <1>2 DEF StartsNow
<1>3. CASE timedOut[j] /\ UNCHANGED status
  BY <1>3 DEF HolderInv, TimeoutsHeld
<1> QED
  BY <1>1, <1>2, <1>3, JobsCome DEF JobComes

\* A waiter that has still to let go of its process finds it as it ended.
LEMMA ExitStays ==
    ASSUME TypeInv, Attached, Attached', [Next]_vars, NEW p \in Procs,
           thread[p].at \in {"unpause", "drop"}, thread'[p].at \in {"unpause", "drop"}
    PROVE  proc'[p].exit = proc[p].exit
<1>1. ~Alive(p) /\ ~Alive(p)'
  BY DEF Attached, Child, At
<1>2. proc'[p].at # "none"
  BY DEF Attached, WaitSteps, RecoverSteps
<1>3. proc'[p] # NoProcess /\ ~ProcMoves(p) /\ proc'[p].at # "boot"
  BY <1>1, <1>2 DEF NoProcess, ProcMoves, Alive, AliveSteps
<1> QED
  BY <1>1, <1>3, ProcChanges DEF ProcChange

LEMMA TimeoutsHeldKept ==
    ASSUME NoInterference, AttachInv, AttachInv', HolderInv, OneThread', [Next]_vars
    PROVE  TimeoutsHeld'
<1> DEFINE InHand(t) == \/ t = "queue" /\ At(t, "claimResume")
                        \/ t \in Procs /\ thread[t].at \in {"unpause", "drop"} /\ proc[t].exit = "timeout"
<1>0. /\ TypeInv /\ Attached /\ Attached' /\ ThreadsOK /\ NoJob \notin Jobs /\ Idle.job = NoJob
      /\ Goroutines \subseteq Threads /\ Procs \subseteq Goroutines /\ "queue" \notin Procs
  BY ControlAssumption DEF AttachInv, TypeInv, Idle, Goroutines, Threads
<1>1. ASSUME NEW j \in Jobs, timedOut'[j], NEW t \in Goroutines, Holds(t, j)', Holds(t, j),
             InHand(t)
      PROVE  InHand(t)'
  <2>1. CASE thread'[t] = thread[t]
    BY <1>0, <1>1, <2>1, ExitStays DEF At
  <2>2. CASE Turn(t)
    <3>1. CASE t = "queue" /\ At(t, "claimResume")
      BY <1>0, <1>1, <2>2, <3>1 DEF Turn, LaunchGoesOn, Moves, Begins, Holds, Sets, At, RecoverSteps
    <3>2. CASE t \in Procs /\ thread[t].at \in {"unpause", "drop"} /\ proc[t].exit = "timeout"
      <4>1. thread'[t].at \in {"unpause", "drop"}
        BY <1>0, <1>1, <2>2, <3>2 DEF Turn, LaunchGoesOn, Moves, Begins, Holds, At, RecoverSteps
      <4> QED
        BY <1>0, <3>2, <4>1, ExitStays
    <3> QED
      BY <1>1, <3>1, <3>2
  <2>3. ASSUME NEW w \in Threads, Record(w)
        PROVE  thread'[t] = thread[t]
    <3>1. t # w /\ ~At(t, "idle")
      BY <1>1, <2>3 DEF Record, At
    <3> QED
      BY <1>0, <1>1, <2>3, <3>1, RecordHands
  <2> QED
    BY <1>0, <1>1, <2>1, <2>2, <2>3, GoroutineSteps DEF GoroutineStep, Others, Goroutines, Holds
<1>2. ASSUME NEW j \in Jobs, timedOut'[j], timedOut[j], NEW t \in Goroutines, Holds(t, j)'
      PROVE  InHand(t)'
  <2>1. \A u \in Goroutines : Holds(u, j) => InHand(u)
    BY <1>2 DEF HolderInv, TimeoutsHeld
  <2>2. CASE Holds(t, j)
    BY <1>1, <1>2, <2>1, <2>2
  <2>3. ~\E u \in Goroutines : Record(u) /\ Holds(u, j)
    BY <2>1 DEF Record, At
  <2>4. ~StartsNow(j)
    BY <1>2 DEF StartsNow, HolderInv, TimeoutsHeld
  <2>5. CASE t = "queue" /\ thread'[t].at = "claimResume"
    BY <2>5 DEF At
  <2> QED
    BY <1>2, <2>2, <2>3, <2>4, <2>5, JobsCome DEF JobComes
<1>3. ASSUME NEW j \in Jobs, NEW p \in Procs, RecoverWrite(p), proc[p].exit = "timeout",
             thread[p].job = j,
             NEW t \in Goroutines, Holds(t, j)'
      PROVE  InHand(t)'
  <2>1. Moves(p, "write", "unpause") /\ UNCHANGED proc
    BY <1>0, <1>3, RecoverMoves DEF RecoverWrite, ServerOnly
  <2>2. t = p
    BY <1>0, <1>3, <2>1 DEF OneThread, Holds, Moves
  <2> QED
    BY <1>3, <2>1, <2>2 DEF Moves
<1>4. ASSUME NEW j \in Jobs, timedOut'[j]
      PROVE  /\ status'[j] \notin {"none", "pending"}
             /\ \A t \in Goroutines : Holds(t, j)' => InHand(t)'
  <2>1. status[j] \notin {"none", "pending"} => status'[j] \notin {"none", "pending"}
    BY <1>0, StaysKnown
  <2>2. CASE timedOut[j]
    BY <1>2, <1>4, <2>1, <2>2 DEF HolderInv, TimeoutsHeld
  <2>3. CASE ~timedOut[j]
    <3>1. PICK p \in Procs : RecoverWrite(p) /\ proc[p].exit = "timeout" /\ thread[p].job = j
      BY <1>0, <1>4, <2>3, TimeoutWritten
    <3>2. status[j] \notin {"none", "pending"}
      BY <1>0, <3>1 DEF HolderInv, Known, Holds
    <3> QED
      BY <1>3, <2>1, <3>1, <3>2
  <2> QED
    BY <2>2, <2>3
<1> QED
  BY <1>4 DEF TimeoutsHeld

\* A goroutine that stays where it is, launching or about to write a recovery,
\* stays with an active job.
LEMMA StaysActive ==
    ASSUME NoInterference, AttachInv, HolderInv, [Next]_vars,
           NEW t \in Goroutines, thread[t].at \in {"claimed", "sweep", "kill", "spawn", "write"},
           thread'[t] = thread[t]
    PROVE  thread[t].job \in Active'
<1>0. TypeInv /\ ThreadsOK /\ t \in Threads /\ t # "boot" /\ TypeInv /\ Idle.at = "idle"
  BY DEF AttachInv, TypeInv, Goroutines, Idle
<1>1. thread[t].job \in Active /\ Holds(t, thread[t].job)
  BY <1>0, HasJob DEF HolderInv, HoldsActive, At, Holds
<1>2. ~HolderWrites(t, thread[t].job)
  <2>1. ~SpawnFails(t) /\ ~RecoverWrite(t)
    BY <1>0, LaunchMoves, RecoverMoves DEF Ends, Moves, At
  <2>2. \A p \in Procs : ~HasProcess(t, p)
    BY DEF HasProcess, Child, At
  <2> QED
    BY <2>1, <2>2 DEF HolderWrites, Moves, At
<1>3. status'[thread[t].job] = status[thread[t].job]
  BY <1>1, <1>2, HeldStatus DEF Holds
<1> QED
  BY <1>1, <1>3 DEF Active, With

\* While boot is at work the table changes by its own hand only.
LEMMA BootStaysActive ==
    ASSUME NoInterference, AttachInv, HolderInv, [Next]_vars,
           At("boot", "write"), thread'["boot"] = thread["boot"]
    PROVE  thread["boot"].job \in Active'
<1>0. /\ TypeInv /\ ThreadsOK /\ "boot" \in Threads /\ Idle.at = "idle" /\ Procs \subseteq Goroutines
      /\ "queue" \in Goroutines /\ Goroutines \subseteq Threads
  BY ControlAssumption DEF AttachInv, TypeInv, Threads, Goroutines, Idle
<1>1. thread["boot"].job \in Active /\ thread["boot"].job \in Jobs
  BY <1>0, HasJob DEF HolderInv, HoldsActive, At
<1>2. server # "up"
  BY <1>0 DEF AttachInv, BootOver, At
<1>3. /\ \A t \in Goroutines : At(t, "idle")
      /\ \A p \in Procs : ~Alive(p)
  BY <1>0, <1>2 DEF AttachInv, BootAlone, Goroutines, At, Alive, NoProcess, AliveSteps
<1>4. ASSUME NEW t \in Threads, SpawnFails(t) \/ RecoverWrite(t)
      PROVE  FALSE
  <2>1. t = "boot"
    BY <1>3, <1>4 DEF SpawnFails, RecoverWrite, At, Goroutines
  <2> QED
    BY <1>0, <1>4, <2>1, LaunchMoves, RecoverMoves DEF Ends, Moves, At
<1>5. \A j \in Jobs : ~Resumes(j)
  BY <1>0, <1>3 DEF Resumes, ResumeJob, Handles, NoInterference, Moves, At
<1>6. status'[thread["boot"].job] = status[thread["boot"].job]
  BY <1>0, <1>1, <1>3, <1>4, <1>5, RowChanges DEF RowChange, Deletable, ProcMoves, Active, With
<1> QED
  BY <1>1, <1>6 DEF Active, With

LEMMA HoldsActiveKept ==
    ASSUME NoInterference, AttachInv, HolderInv, [Next]_vars
    PROVE  HoldsActive'
<1>0. /\ TypeInv /\ Attached /\ ThreadsOK /\ NoJob \notin Jobs /\ Idle.at = "idle"
      /\ Goroutines \subseteq Threads /\ "boot" \in Threads
  BY ControlAssumption DEF AttachInv, TypeInv, Idle, Goroutines, Threads
<1>1. ASSUME NEW t \in Goroutines, thread'[t].at \in {"claimed", "sweep", "kill", "spawn", "write"}, Turn(t)
      PROVE  thread'[t].job \in Active'
  <2>1. CASE thread'[t].job \in Active /\ UNCHANGED status
    BY <2>1, ActiveSame
  <2>2. ASSUME NEW j \in Jobs, NEW s \in {"starting", "running"}, status'[j] = s,
               thread'[t].job = j
        PROVE  thread'[t].job \in Active'
    BY <2>2 DEF Active, With
  <2>3. CASE LaunchGoesOn(t) /\ UNCHANGED <<status, timedOut>>
    BY <2>1, <2>3 DEF HolderInv, HoldsActive, LaunchGoesOn, Moves, At
  <2>4. CASE Moves(t, "read", "write") /\ thread[t].job \in Active /\ UNCHANGED <<status, timedOut>>
    BY <2>1, <2>4 DEF Moves
  <2>5. CASE /\ \E from \in {"restartDelay", "claimResume"} : Moves(t, from, "claimed")
             /\ \E s \in {"starting", "running"} : Sets(thread[t].job, s, FALSE)
    <3>1. thread[t].job \in Jobs /\ thread'[t].job = thread[t].job
      BY <1>0, <2>5, HasJob DEF Moves, At
    <3>2. PICK s \in {"starting", "running"} : status'[thread[t].job] = s
      BY <2>5, <3>1 DEF Sets
    <3> QED
      BY <2>2, <3>1, <3>2
  <2>6. CASE \E j \in Jobs, from \in {"idle", "queueWait"}, to \in {"claimed", "sweep"} :
                Begins(t, from, to, j, TRUE) /\ StartsNow(j)
    BY <2>2, <2>6 DEF Begins, StartsNow
  <2> QED
    BY <1>0, <1>1, <2>3, <2>4, <2>5, <2>6 DEF Turn, Moves, Begins, NoInterference
<1>2. ASSUME NEW t \in Goroutines, thread'[t].at \in {"claimed", "sweep", "kill", "spawn", "write"}
      PROVE  thread'[t].job \in Active'
  <2>1. CASE thread'[t] = thread[t]
    BY <1>2, <2>1, StaysActive
  <2>2. ASSUME NEW w \in Threads, Record(w)
        PROVE  thread'[t] = thread[t]
    BY <1>0, <1>2, <2>2, RecordHands
  <2> QED
    BY <1>0, <1>1, <1>2, <2>1, <2>2, GoroutineSteps DEF GoroutineStep, Others, Goroutines
<1>3. ASSUME thread'["boot"].at = "write"
      PROVE  thread'["boot"].job \in Active'
  <2>1. CASE thread'["boot"] = thread["boot"]
    BY <1>3, <2>1, BootStaysActive DEF At
  <2>2. CASE Moves("boot", "read", "write") /\ thread["boot"].job \in Active /\ UNCHANGED status
    BY <2>2, ActiveSame DEF Moves
  <2>3. ASSUME NEW w \in Threads, Record(w)
        PROVE  thread'["boot"] = thread["boot"]
    BY <1>0, <1>3, <2>3, RecordHands
  <2> QED
    BY <1>0, <1>3, <2>1, <2>2, <2>3, GoroutineSteps DEF GoroutineStep, Others, BootTurn
<1> QED
  BY <1>2, <1>3 DEF HoldsActive, At, Goroutines

LEMMA ProcKnowsKept ==
    ASSUME NoInterference, AttachInv, HolderInv, FaultsShow, [Next]_vars
    PROVE  ProcKnows'
<1> DEFINE Knows(p) == /\ ProcAt(p, "boot") => proc[p].job \in Active
                       /\ ProcAt(p, "discover") \/ ProcAt(p, "queued") => status[proc[p].job] = "starting"
                       /\ ProcAt(p, "work") => status[proc[p].job] = "running"
<1>0. TypeInv /\ TableTypeOK /\ ThreadsOK /\ Attached /\ Goroutines \subseteq Threads
  BY DEF AttachInv, TypeInv, Goroutines
<1>1. \A p \in Procs : Knows(p)
  BY DEF HolderInv, ProcKnows
<1>2. ASSUME NEW p \in Procs, proc'[p] = proc[p],
             proc[p].at \in {"boot", "discover", "queued", "work"}
      PROVE  Knows(p)'
  <2>0. Alive(p) /\ proc[p].job \in Jobs
    BY <1>0, <1>2 DEF Alive, AliveSteps, TypeInv, ProcsOK
  <2>1. PICK t \in Goroutines : HasProcess(t, p) /\ Holds(t, proc[p].job)
    BY <1>0, <2>0, HolderOf
  <2>2. proc[p].job \in Active
    BY <1>1, <1>2, <2>0 DEF ProcAt, Active, With
  <2>3. ~SpawnFails(t) /\ ~RecoverWrite(t) /\ ~At(t, "claimResume") /\ ~At(t, "restartDelay")
    BY <2>1 DEF HasProcess, Child, At, SpawnFails, RecoverWrite
  <2>4. ASSUME NEW q \in Procs, ProcMoves(q), ProcessRow(q), HasProcess(t, q)
        PROVE  FALSE
    <3>1. q = p
      BY <1>0, <2>1, <2>4, ProcessOf
    <3>2. proc'[p].at # proc[p].at
      BY <2>0, <2>4, <3>1 DEF ProcessRow, ProcStep, ProcEnd, ProcAt, Alive, AliveSteps
    <3> QED
      BY <1>2, <3>2
  <2>5. ~HolderWrites(t, proc[p].job)
    BY <2>3, <2>4 DEF HolderWrites, Moves
  <2>6. status'[proc[p].job] = status[proc[p].job]
    BY <2>0, <2>1, <2>2, <2>5, HeldStatus
  <2> QED
    BY <1>1, <1>2, <2>0, <2>6 DEF ProcAt, Active, With
<1>3. ASSUME NEW p \in Procs, NEW t \in Threads, SpawnOK(t), proc'[p].job = thread[t].job,
             proc'[p].at = "boot"
      PROVE  Knows(p)'
  <2>1. t \in Goroutines
    BY <1>0, <1>3, WhoseSteps DEF SpawnOK, At, Goroutines
  <2>2. thread[t].job \in Active /\ UNCHANGED status
    BY <1>3, <2>1 DEF HolderInv, HoldsActive, SpawnOK, At, tableVars
  <2> QED
    BY <1>3, <2>2, ActiveSame DEF ProcAt
<1>4. ASSUME NEW p \in Procs, ProcMoves(p), ProcessRow(p)
      PROVE  Knows(p)'
  <2>0. proc'[p].job = proc[p].job /\ proc[p].job \in Jobs
    BY <1>4 DEF ProcMoves
  <2>1. CASE NoRow /\ ProcAt(p, "boot") /\ proc'[p].at = "discover" /\ status[proc[p].job] = "starting"
    BY <2>0, <2>1 DEF NoRow, ProcAt
  <2>2. CASE NoRow /\ ProcAt(p, "discover") /\ proc'[p].at = "queued"
    BY <1>1, <2>0, <2>2 DEF NoRow, ProcAt
  <2>3. CASE Row(p, "running") /\ (ProcAt(p, "boot") \/ ProcAt(p, "queued")) /\ proc'[p].at = "work"
    <3>1. Exists(proc[p].job)
      BY <1>1, <2>3 DEF Exists, JobStatuses, Active, With
    <3> QED
      BY <2>0, <2>3, <3>1 DEF Row, Writes, Sets, ProcAt
  <2>4. CASE proc'[p].at \notin {"boot", "discover", "queued", "work"}
    BY <2>4 DEF ProcAt
  <2>5. ~ProcAt(p, "recovery")
    BY DEF FaultsShow, NoInterference
  <2>6. \/ NoRow /\ ProcAt(p, "boot") /\ proc'[p].at = "discover" /\ status[proc[p].job] = "starting"
        \/ NoRow /\ ProcAt(p, "discover") /\ proc'[p].at = "queued"
        \/ Row(p, "running") /\ (ProcAt(p, "boot") \/ ProcAt(p, "queued")) /\ proc'[p].at = "work"
        \/ proc'[p].at \notin {"boot", "discover", "queued", "work"}
    BY <1>4, <2>5 DEF ProcessRow, ProcStep, ProcEnd, ProcAt
  <2> QED
    BY <2>1, <2>2, <2>3, <2>4, <2>6
<1>5. ASSUME NEW p \in Procs
      PROVE  Knows(p)'
  <2>1. CASE proc'[p].at \notin {"boot", "discover", "queued", "work"}
    BY <2>1 DEF ProcAt
  <2> QED
    BY <1>0, <1>2, <1>3, <1>4, <2>1, ProcChanges DEF ProcChange, NoProcess
<1> QED
  BY <1>5 DEF ProcKnows

LEMMA HolderInvariant ==
    ASSUME NoInterference
    PROVE  /\ Init => HolderInv
           /\ AttachInv /\ AttachInv' /\ FaultsShow /\ HolderInv /\ [Next]_vars => HolderInv'
<1>1. Init => HolderInv
  BY ControlAssumption DEF Init, HolderInv, OneThread, Known, TimeoutsHeld, HoldsActive,
     ProcKnows, Holds, Idle,
     NoProcess, ProcAt, At, Goroutines, Threads
<1>2. ASSUME AttachInv, AttachInv', FaultsShow, HolderInv, [Next]_vars
      PROVE  HolderInv'
  <2>1. OneThread' /\ Known'
    BY <1>2, OneThreadKept, KnownKept
  <2>2. TimeoutsHeld'
    BY <1>2, <2>1, TimeoutsHeldKept
  <2>3. HoldsActive' /\ ProcKnows'
    BY <1>2, HoldsActiveKept, ProcKnowsKept
  <2> QED
    BY <2>1, <2>2, <2>3 DEF HolderInv
<1> QED
  BY <1>1, <1>2

-----------------------------------------------------------------------------
(* Every step is a step in the life of the jobs, or none at all. *)

Lives == [j \in Jobs |-> Phase(status[j])]

LifeStep == [Life!Next]_Lives

LEMMA PhaseCases ==
    /\ Phase("none") = "none" /\ Phase("done") = "done" /\ Phase("gone") = "gone"
    /\ Phase("pending") = "waiting"
    /\ \A s \in {"starting", "running"} : Phase(s) = "active"
    /\ \A s \in {"paused", "blocked", "failed"} : Phase(s) = "stopped"
  BY DEF Phase

\* The one job that changes.
LEMMA OneLife ==
    ASSUME NEW j \in Jobs, NEW s, \A k \in Jobs : status'[k] = IF k = j THEN s ELSE status[k]
    PROVE  /\ Lives \in [Jobs -> {Phase(status[k]) : k \in Jobs}]
           /\ Lives' = [Lives EXCEPT ![j] = Phase(s)] /\ Lives[j] = Phase(status[j])
<1>1. \A k \in Jobs : Lives[k] = Phase(status[k]) /\ Lives'[k] = Phase(status'[k])
  BY DEF Lives
<1>2. Lives' = [k \in Jobs |-> Lives'[k]] /\ Lives = [k \in Jobs |-> Lives[k]]
  BY DEF Lives
<1> QED
  BY <1>1, <1>2

LEMMA NobodyActive ==
    ASSUME TableTypeOK
    PROVE  Active = {} <=> Life!Nobody
<1>1. \A j \in Jobs : j \in Active <=> Phase(status[j]) = "active"
  BY DEF TableTypeOK, JobStatuses, Active, With, Phase
<1>2. \A j \in Jobs : Lives[j] = Phase(status[j])
  BY DEF Lives
<1> QED
  BY <1>1, <1>2 DEF Life!Nobody, Lives, Active, With

\* What the owner of an active job writes in its row.
LEMMA ActiveWrites ==
    ASSUME NEW j \in Active, NEW s \in {"running", "done", "paused", "blocked", "failed"},
           NEW b, Writes(j, s, b)
    PROVE  LifeStep
<1>1. j \in Jobs /\ status[j] \in {"starting", "running"}
  BY DEF Active, With
<1>2. \A k \in Jobs : status'[k] = IF k = j THEN s ELSE status[k]
  BY <1>1 DEF Writes, Sets, Exists, JobStatuses
<1>3. /\ Lives' = [Lives EXCEPT ![j] = Phase(s)] /\ Lives[j] = "active"
      /\ Lives \in [Jobs -> {Phase(status[k]) : k \in Jobs}]
  BY <1>1, <1>2, OneLife, PhaseCases
<1>4. CASE s = "running"
  BY <1>3, <1>4, PhaseCases DEF LifeStep
<1>5. CASE s = "done"
  <2>1. Life!Finish(j)
    BY <1>3, <1>5, PhaseCases DEF Life!Finish, Lives
  <2> QED
    BY <1>1, <2>1 DEF LifeStep, Life!Next
<1>6. CASE s \in {"paused", "blocked", "failed"}
  <2>1. Life!Stop(j)
    BY <1>3, <1>6, PhaseCases DEF Life!Stop, Lives
  <2> QED
    BY <1>1, <2>1 DEF LifeStep, Life!Next
<1> QED
  BY <1>4, <1>5, <1>6

LEMMA CreateLives ==
    ASSUME TableTypeOK, NEW k \in Jobs, NEW n \in 1 .. 2, CreateJobs(k, n)
    PROVE  LifeStep
<1>0. PICK S \in SUBSET Jobs, first \in SUBSET Jobs :
         S = {j \in Jobs : status'[j] # status[j]} /\ first = IF Active = {} THEN {k} ELSE {}
  OBVIOUS
<1>1. /\ status[k] = "none" /\ status'[k] \in {"starting", "pending"}
      /\ \A j \in Jobs :
            \/ status'[j] = status[j]
            \/ /\ status[j] = "none"
               /\ status'[j] = IF j \in first THEN "starting" ELSE "pending"
      /\ status'[k] = IF k \in first THEN "starting" ELSE "pending"
  BY <1>0, CreateWrites
<1>2. \A j \in S : Lives[j] = "none"
  BY <1>0, <1>1, PhaseCases DEF Lives
<1>3. first \in SUBSET S /\ (first # {} => Life!Nobody /\ Life!Cardinality(first) = 1)
  <2>1. Life!Cardinality(first) = Cardinality(first)
    BY DEF Life!Cardinality, Cardinality
  <2>2. first # {} => Cardinality(first) = 1
    BY <1>0, FS_Singleton
  <2>3. first \in SUBSET S /\ (first # {} => Life!Nobody)
    BY <1>0, <1>1, NobodyActive
  <2> QED
    BY <2>1, <2>2, <2>3
<1>4. \A j \in Jobs : Phase(status'[j]) = IF j \in first THEN "active"
                                          ELSE IF j \in S THEN "waiting" ELSE Lives[j]
  BY <1>0, <1>1, PhaseCases DEF Lives
<1>5. Lives' = [j \in Jobs |-> IF j \in first THEN "active"
                              ELSE IF j \in S THEN "waiting" ELSE Lives[j]]
  BY <1>4 DEF Lives
<1>6. Life!Create(S)
  <2>1. \A j \in S : [i \in Jobs |-> Phase(status[i])][j] = "none"
    BY <1>2 DEF Lives
  <2>2. [i \in Jobs |-> Phase(status[i])]' =
           [j \in Jobs |-> IF j \in first THEN "active" ELSE IF j \in S THEN "waiting"
                           ELSE [i \in Jobs |-> Phase(status[i])][j]]
    BY <1>5 DEF Lives
  <2> QED
    BY <1>3, <2>1, <2>2, Zenon DEF Life!Create
<1>7. S \in SUBSET Jobs /\ S # {}
  BY <1>0, <1>1
<1> QED
  BY <1>6, <1>7 DEF LifeStep, Life!Next

LEMMA JobsLive ==
    ASSUME NoInterference, AttachInv, FaultsShow, HolderInv, [Next]_vars
    PROVE  LifeStep
<1>0. /\ TypeInv /\ TableTypeOK /\ ThreadsOK /\ Attached /\ Procs \subseteq Threads \ {"boot"}
      /\ "queue" \in Threads \ {"boot"}
  BY ControlAssumption DEF AttachInv, TypeInv, Threads
<1>1. ASSUME UNCHANGED status
      PROVE  LifeStep
  BY <1>1 DEF LifeStep, Lives
<1>2. ASSUME NEW j \in Jobs, status[j] = "pending", Active = {}, Sets(j, "starting", FALSE)
      PROVE  LifeStep
  <2>0. \A k \in Jobs : status'[k] = IF k = j THEN "starting" ELSE status[k]
    BY <1>2 DEF Sets
  <2>1. Lives' = [Lives EXCEPT ![j] = "active"] /\ Lives[j] = "waiting"
    BY <1>2, <2>0, OneLife, PhaseCases
  <2>2. Life!Start(j)
    BY <1>0, <1>2, <2>1, NobodyActive DEF Life!Start, Lives
  <2> QED
    BY <1>2, <2>2 DEF LifeStep, Life!Next
<1>3. ASSUME NEW j \in Jobs, Deletable(j), Sets(j, "gone", FALSE)
      PROVE  LifeStep
  <2>0. \A k \in Jobs : status'[k] = IF k = j THEN "gone" ELSE status[k]
    BY <1>3 DEF Sets
  <2>1. Lives' = [Lives EXCEPT ![j] = "gone"] /\ Lives[j] = Phase(status[j])
    BY <1>3, <2>0, OneLife, PhaseCases
  <2>2. Phase(status[j]) \in {"waiting", "stopped", "done"}
    BY <1>3, PhaseCases DEF Deletable, Exists, JobStatuses, Active, With
  <2>3. Life!Delete(j)
    BY <2>1, <2>2 DEF Life!Delete, Lives
  <2> QED
    BY <1>3, <2>3 DEF LifeStep, Life!Next
<1>4. ASSUME NEW j \in Jobs, NEW s \in {"starting", "running"},
             Resumable(j), Sets(j, s, FALSE), Resumes(j)
      PROVE  LifeStep
  <2>0. \A k \in Jobs : status'[k] = IF k = j THEN s ELSE status[k]
    BY <1>4 DEF Sets
  <2>1. PICK t \in Goroutines : Holds(t, j)
    BY <1>0, <1>4 DEF Resumes, ResumeJob, Handles, NoInterference, Holds, Goroutines
  <2>2. status[j] \in {"paused", "blocked", "failed"}
    BY <1>4, <2>1 DEF HolderInv, Known, Resumable, Exists, JobStatuses
  <2>3. Lives' = [Lives EXCEPT ![j] = "active"] /\ Lives[j] = "stopped"
    <3>1. Phase(s) = "active" /\ Phase(status[j]) = "stopped"
      BY <1>4, <2>2, PhaseCases
    <3>2. Lives' = [Lives EXCEPT ![j] = Phase(s)] /\ Lives[j] = Phase(status[j])
      BY <1>4, <2>0, OneLife
    <3> QED
      BY <3>1, <3>2
  <2>4. Life!Resume(j)
    BY <2>3 DEF Life!Resume, Lives
  <2> QED
    BY <1>4, <2>4 DEF LifeStep, Life!Next
<1>5. ASSUME NEW t \in Threads, NEW s \in {"paused", "failed"}, SpawnFails(t) \/ RecoverWrite(t),
             Writes(thread[t].job, s, FALSE) \/ Writes(thread[t].job, s, TRUE)
      PROVE  LifeStep
  <2>1. thread[t].job \in Active
    BY <1>0, <1>5, WhoseSteps DEF HolderInv, HoldsActive, SpawnFails, RecoverWrite, At, Goroutines
  <2> QED
    BY <1>5, <2>1, ActiveWrites
<1>6. ASSUME NEW p \in Procs, ProcMoves(p), ProcessRow(p)
      PROVE  LifeStep
  <2>1. CASE NoRow
    BY <1>1, <2>1 DEF NoRow
  <2>2. ASSUME proc[p].at \in {"boot", "discover", "queued", "work"},
               NEW s \in {"running", "done", "paused", "blocked", "failed"}, Row(p, s)
        PROVE  LifeStep
    <3>1. proc[p].job \in Active
      BY <1>6, <2>2 DEF HolderInv, ProcKnows, ProcAt, ProcMoves, Active, With
    <3> QED
      BY <2>2, <3>1, ActiveWrites DEF Row
  <2>3. ~ProcAt(p, "recovery")
    BY DEF FaultsShow, NoInterference
  <2>4. \/ NoRow
        \/ /\ proc[p].at \in {"boot", "discover", "queued", "work"}
           /\ \E s \in {"running", "done", "paused", "blocked", "failed"} : Row(p, s)
    BY <1>6, <2>3 DEF ProcessRow, ProcStep, ProcEnd, ProcAt
  <2> QED
    BY <2>1, <2>2, <2>4
<1>7. CASE \E t \in Threads : SpawnFails(t) /\ thread[t].start /\ Writes(thread[t].job, "failed", FALSE)
  BY <1>5, <1>7
<1>8. CASE \E t \in Threads, s \in {"paused", "failed"} :
              RecoverWrite(t) /\ Writes(thread[t].job, s, FALSE)
  BY <1>5, <1>8
<1>9. CASE \E p \in Procs : /\ RecoverWrite(p) /\ proc[p].exit = "timeout"
                            /\ Writes(thread[p].job, "paused", TRUE)
  BY <1>0, <1>5, <1>9
<1>10. CASE \E j \in Jobs, n \in 1 .. 2 : CreateJobs(j, n)
  BY <1>0, <1>10, CreateLives
<1> QED
  BY <1>0, <1>1, <1>2, <1>3, <1>4, <1>6, <1>7, <1>8, <1>9, <1>10, TableSteps DEF TableStep

LEMMA LivesInit == Init => Life!Init
  BY PhaseCases DEF Init, Life!Init, Lives

\* The control server implements JobLife.
THEOREM JobsLiveTheirLives ==
    ASSUME NoInterference
    PROVE  Spec => LifeCycle
<1> DEFINE Inv == AttachInv /\ FaultsShow /\ HolderInv
<1>1. Init => Inv
  BY AttachedInvariant, FaultsInvariant, HolderInvariant DEF NoInterference
<1>2. Inv /\ [Next]_vars => Inv'
  <2>1. AttachInv /\ [Next]_vars => AttachInv'
    BY AttachedInvariant DEF NoInterference
  <2>2. AttachInv => TypeInv
    BY DEF AttachInv
  <2> QED
    BY <2>1, <2>2, FaultsInvariant, HolderInvariant
<1>3. Inv /\ [Next]_vars => LifeStep
  BY JobsLive
<1> QED
  BY <1>1, <1>2, <1>3, LivesInit, PTL DEF Spec, LifeCycle, Life!Spec, LifeStep, Lives

-----------------------------------------------------------------------------
(* Where no job stalls or times out, and so none is taken up again by itself,  *)
(* jobs run one at a time.                                                     *)

Serial == NoInterference /\ Faults \cap {"stall", "timeout"} = {}

OneActive == \A j, k \in Active : j = k

\* A job becomes active only when no other is.
LEMMA ActiveGrows ==
    ASSUME Serial, AttachInv, FaultsShow, HolderInv, [Next]_vars
    PROVE  Active' \subseteq Active \/ (Active = {} /\ \E j \in Jobs : Active' \subseteq {j})
<1> DEFINE Goal == Active' \subseteq Active \/ (Active = {} /\ \E j \in Jobs : Active' \subseteq {j})
<1>0. TypeInv /\ TableTypeOK /\ ThreadsOK /\ NoInterference /\ Procs \subseteq Threads
  BY DEF AttachInv, TypeInv, Serial, Threads
<1>1. CASE UNCHANGED status
  BY <1>1, ActiveSame
<1>2. ASSUME NEW k \in Jobs, NEW n \in 1 .. 2, CreateJobs(k, n)
      PROVE  Goal
  <2>1. \A j \in Jobs :
           \/ status'[j] = status[j]
           \/ status'[j] = IF j = k /\ Active = {} THEN "starting" ELSE "pending"
    BY <1>0, <1>2, CreateWrites
  <2>2. CASE Active = {}
    <3>1. Active' \subseteq {k}
      BY <2>1, <2>2 DEF Active, With
    <3> QED
      BY <1>2, <2>2, <3>1
  <2>3. CASE Active # {}
    BY <2>1, <2>3 DEF Active, With
  <2> QED
    BY <2>2, <2>3
<1>3. ASSUME NEW j \in Jobs, Active = {}, Sets(j, "starting", FALSE)
      PROVE  Goal
  <2>1. Active' \subseteq {j}
    BY <1>3 DEF Sets, Active, With
  <2> QED
    BY <1>3, <2>1
<1>4. ASSUME NEW j \in Jobs, Sets(j, "gone", FALSE)
      PROVE  Goal
  BY <1>4 DEF Sets, Active, With
<1>5. \A j \in Jobs : ~Resumes(j)
  <2>1. ~At("queue", "claimResume") /\ \A p \in Procs : ~At(p, "restartDelay")
    BY DEF FaultsShow, Serial, At
  <2> QED
    BY <1>0, <2>1 DEF Resumes, ResumeJob, Handles, NoInterference, Moves
<1>6. ASSUME NEW t \in Threads, NEW s \in {"paused", "failed"}, SpawnFails(t) \/ RecoverWrite(t),
             Writes(thread[t].job, s, FALSE) \/ Writes(thread[t].job, s, TRUE)
      PROVE  Goal
  <2>1. thread[t].job \in Jobs
    BY <1>0, <1>6, HasJob DEF SpawnFails, RecoverWrite, At
  <2>2. s \notin {"starting", "running"}
    BY <1>6
  <2>3. Active' = Active \ {thread[t].job}
    BY <1>6, <2>1, <2>2, ActiveAfter
  <2> QED
    BY <2>3
<1>7. ASSUME NEW p \in Procs, ProcMoves(p), ProcessRow(p)
      PROVE  Goal
  <2>1. CASE NoRow
    BY <1>1, <2>1 DEF NoRow
  <2>2. ASSUME NEW s \in {"done", "paused", "blocked", "failed"}, Row(p, s)
        PROVE  Goal
    <3>1. s \notin {"starting", "running"} /\ proc[p].job \in Jobs
      BY <1>7, <2>2 DEF ProcMoves
    <3>2. Active' = Active \ {proc[p].job}
      BY <2>2, <3>1, ActiveAfter DEF Row
    <3> QED
      BY <3>2
  <2>3. ASSUME proc[p].at \in {"boot", "queued"}, Row(p, "running")
        PROVE  Goal
    <3>1. proc[p].job \in Active
      BY <1>7, <2>3 DEF HolderInv, ProcKnows, ProcAt, ProcMoves, Active, With
    <3>2. Active' \subseteq Active \cup {proc[p].job}
      BY <1>7, <2>3, ActiveAfter DEF Row, ProcMoves
    <3> QED
      BY <3>1, <3>2
  <2>4. ~ProcAt(p, "recovery")
    BY <1>0 DEF FaultsShow, NoInterference
  <2>5. \/ NoRow \/ \E s \in {"done", "paused", "blocked", "failed"} : Row(p, s)
        \/ proc[p].at \in {"boot", "queued"} /\ Row(p, "running")
    BY <1>7, <2>4 DEF ProcessRow, ProcStep, ProcEnd, ProcAt
  <2> QED
    BY <2>1, <2>2, <2>3, <2>5
<1>8. CASE \E t \in Threads : SpawnFails(t) /\ thread[t].start /\ Writes(thread[t].job, "failed", FALSE)
  BY <1>6, <1>8
<1>9. CASE \E t \in Threads, s \in {"paused", "failed"} :
              RecoverWrite(t) /\ Writes(thread[t].job, s, FALSE)
  BY <1>6, <1>9
<1>10. CASE \E p \in Procs : /\ RecoverWrite(p) /\ proc[p].exit = "timeout"
                             /\ Writes(thread[p].job, "paused", TRUE)
  BY <1>0, <1>6, <1>10
<1> QED
  BY <1>0, <1>1, <1>2, <1>3, <1>4, <1>5, <1>7, <1>8, <1>9, <1>10, TableSteps DEF TableStep

\* A launch is alone: no process is at work, and nobody else is launching.
LEMMA LaunchAlone ==
    ASSUME TypeInv, Attached, HolderInv, OneActive, NEW t \in Goroutines,
           thread[t].at \in {"sweep", "kill", "spawn"}
    PROVE  /\ \A u \in Goroutines : thread[u].at \in {"sweep", "kill", "spawn"} => u = t
           /\ \A p \in Procs : proc[p].at \notin {"boot", "discover", "queued", "work"}
<1>0. thread[t].job \in Active /\ thread[t].job \in Jobs
  BY DEF HolderInv, HoldsActive, Active, With
<1>1. ASSUME NEW u \in Goroutines, thread[u].at \in {"sweep", "kill", "spawn"}
      PROVE  u = t
  <2>1. thread[u].job = thread[t].job
    BY <1>0, <1>1 DEF HolderInv, HoldsActive, OneActive
  <2> QED
    BY <1>0, <2>1 DEF HolderInv, OneThread, Holds
<1>2. ASSUME NEW p \in Procs, proc[p].at \in {"boot", "discover", "queued", "work"}
      PROVE  FALSE
  <2>1. Alive(p) /\ proc[p].job \in Jobs
    BY <1>2 DEF Alive, AliveSteps, TypeInv, ProcsOK
  <2>2. proc[p].job \in Active
    BY <1>2, <2>1 DEF HolderInv, ProcKnows, ProcAt, Active, With
  <2>3. proc[p].job = thread[t].job
    BY <1>0, <2>2 DEF OneActive
  <2>4. PICK u \in Goroutines : HasProcess(u, p) /\ Holds(u, proc[p].job)
    BY <2>1, HolderOf
  <2>5. u = t
    BY <1>0, <2>3, <2>4 DEF HolderInv, OneThread, Holds
  <2> QED
    BY <2>4, <2>5 DEF HasProcess, Child, At
<1> QED
  BY <1>1, <1>2

-----------------------------------------------------------------------------
(* A process that is alive and waited for has its row, whoever else is swept, *)
(* stalls, times out or is launched meanwhile.                                *)

Waited(p) == Alive(p) /\ At(p, "wait")

\* A row is of a process whose waiter has still to drop it, ...
RowsHeld ==
    server = "up" => \A j \in Jobs : registry[j] # NoProc =>
        thread[registry[j]].at \in WaitSteps /\ thread[registry[j]].job = j

\* ... or, before the server is up, boot has listed it and will drop it.
BootSweeps ==
    At("boot", "kill") => \A j \in Jobs :
        registry[j] # NoProc => <<j, registry[j]>> \in thread["boot"].todo

\* Whoever has a job whose row is in a listing is not on its way to launch it.
Settled(u) == thread[u].at \in WaitSteps \cup {"restartDelay"}

\* What a launch has listed is not out of date: the job has no newer process.
ListedIsLast ==
    \A t \in Goroutines : At(t, "kill") => \A r \in thread[t].todo :
        /\ status[r[1]] \notin {"none", "pending"}
        /\ \A u \in Goroutines : Holds(u, r[1]) => Settled(u)
        /\ \A p \in Procs : Waited(p) /\ proc[p].job = r[1] => r[2] = p

RegistryInv == RegistryCoversLive /\ RowsHeld /\ BootSweeps /\ ListedIsLast

RegistryStep ==
    \/ UNCHANGED registry
    \/ \E t \in Threads : SweepRow(t) \/ Record(t)
    \/ \E p \in Procs : Drop(p)

LEMMA RegistrySteps ==
    ASSUME TypeInv, [Next]_vars
    PROVE  RegistryStep
<1>1. ASSUME NEW t \in Threads, Launch(t) \/ RecoverStale(t)
      PROVE  RegistryStep
  BY <1>1 DEF Launch, ClaimRead, ClaimReadFails, SweepList, SweepDone, SpawnOK, SpawnFails,
     RecoverStale, RecoverRead, RecoverWrite, RecoverUnpause, RecoverFails, GivesUp, ServerOnly,
     RegistryStep
<1>2. ASSUME NEW p \in Procs, Waiter(p)
      PROVE  RegistryStep
  BY <1>2 DEF Waiter, Reap, StallResume, ServerOnly, RegistryStep
<1>3. CASE Queue \/ Operator \/ Server \/ ServerDies \/ UNCHANGED vars
  <2>1. UNCHANGED registry
    BY <1>3 DEF Queue, QueuePoll, QueueResume, QueueClaimResume, QueueClaim, Operator, Create,
       PauseJob, ResumeJob, StartPending, RecoverJob, RemoveJob, SetSchedulerPaused, Server,
       ServerBoots, BootNext, ServerDies, ServerOnly, vars, controlVars
  <2> QED
    BY <2>1 DEF RegistryStep
<1>4. ASSUME NEW p \in Procs, Process(p) \/ ProcessFault(p)
      PROVE  RegistryStep
  BY <1>4, ProcessRows DEF ProcMoves, RegistryStep
<1> QED
  BY <1>1, <1>2, <1>3, <1>4 DEF Next

\* A process that is alive and waited for has been so before, or has just been
\* recorded.
LEMMA WaitedSince ==
    ASSUME TypeInv, Attached, [Next]_vars, NEW p \in Procs, Waited(p)'
    PROVE  \/ Waited(p) /\ proc'[p].job = proc[p].job
           \/ \E t \in Threads : Record(t) /\ Child(t, p) /\ UNCHANGED proc
<1>0. ThreadsOK /\ Procs \subseteq Threads /\ Idle.at = "idle" /\ p # "boot"
  BY ControlAssumption DEF TypeInv, Threads, Idle
<1>1. ASSUME NEW t \in Threads, Record(t)
      PROVE  (At(p, "wait") \/ Child(t, p)) /\ UNCHANGED proc
  BY <1>0, <1>1, RecordHands DEF Waited, At
<1>2. CASE \A t \in Threads : ~Record(t)
  <2>1. ~Turn(p) \/ At(p, "wait")
    BY <1>0 DEF Turn, LaunchGoesOn, Moves, Begins, Waited, At
  <2>2. At(p, "wait")
    BY <1>0, <1>2, <2>1, GoroutineSteps DEF GoroutineStep, ServerDies, Others, Waited, At
  <2>3. Alive(p) /\ proc'[p].job = proc[p].job
    BY <2>2, ProcChanges DEF ProcChange, ProcMoves, NoProcess, Waited, Alive, AliveSteps, At
  <2> QED
    BY <2>2, <2>3 DEF Waited
<1>3. ASSUME NEW t \in Threads, Record(t), At(p, "wait"), UNCHANGED proc
      PROVE  Waited(p) /\ proc'[p].job = proc[p].job
  BY <1>3 DEF Waited, Alive
<1> QED
  BY <1>1, <1>2, <1>3

\* A waiter keeps its process until it drops the row.
LEMMA WaiterStays ==
    ASSUME TypeInv, Attached, [Next]_vars, NEW q \in Procs, thread[q].at \in WaitSteps,
           ~Drop(q), ~ServerDies
    PROVE  thread'[q].at \in WaitSteps /\ thread'[q].job = thread[q].job
<1>0. ThreadsOK /\ q \in Threads /\ q # "boot" /\ Idle.at = "idle"
  BY ControlAssumption DEF TypeInv, Threads, Idle
<1>1. CASE Turn(q)
  BY <1>0, <1>1 DEF Turn, LaunchGoesOn, Moves, Begins, At, WaitSteps, RecoverSteps
<1>2. ASSUME NEW w \in Threads, Record(w)
      PROVE  thread'[q] = thread[q]
  <2>1. At(w, "record")
    BY <1>2 DEF Record
  <2> QED
    BY <1>0, <1>2, <2>1, RecordHands DEF At, WaitSteps, RecoverSteps
<1> QED
  BY <1>0, <1>1, <1>2, GoroutineSteps DEF GoroutineStep, Others

\* Who has a job and does not launch it goes on to do so after a delay only.
LEMMA SettledStays ==
    ASSUME NoInterference, AttachInv, [Next]_vars, NEW u \in Goroutines, NEW j \in Jobs,
           Holds(u, j), Settled(u), Holds(u, j)'
    PROVE  Settled(u)' \/ DelayOver(j)
<1>0. /\ TypeInv /\ ThreadsOK /\ Attached /\ u \in Threads /\ NoJob \notin Jobs
      /\ Idle.job = NoJob
  BY ControlAssumption DEF AttachInv, TypeInv, Goroutines, Idle
<1>1. thread'[u] # Idle
  BY <1>0 DEF Holds
<1>2. CASE Turn(u)
  BY <1>0, <1>1, <1>2 DEF Turn, LaunchGoesOn, Moves, Begins, At, Settled, WaitSteps,
     RecoverSteps, Holds, NoInterference
<1>3. ASSUME NEW w \in Threads, Record(w)
      PROVE  thread'[u] = thread[u]
  <2>1. At(w, "record")
    BY <1>3 DEF Record
  <2> QED
    BY <1>0, <1>1, <1>3, <2>1, RecordHands DEF At, Settled, WaitSteps, RecoverSteps
<1> QED
  BY <1>0, <1>1, <1>2, <1>3, GoroutineSteps
     DEF GoroutineStep, ServerDies, Others, Goroutines, Settled

\* A row is listed by the sweep that is going on, or was so before.
LEMMA ListedSince ==
    ASSUME TypeInv, Attached, [Next]_vars, NEW t \in Goroutines, At(t, "kill")',
           NEW r \in thread'[t].todo
    PROVE  SweepList(t) \/ (At(t, "kill") /\ r \in thread[t].todo)
<1>0. /\ ThreadsOK /\ thread \in [Threads -> ThreadRecs] /\ t \in Threads /\ t # "boot"
      /\ Idle.at = "idle"
  BY DEF TypeInv, ThreadsOK, Goroutines, Idle
<1>1. CASE Turn(t)
  <2>1. SweepList(t) \/ SweepRow(t)
    BY <1>0, <1>1 DEF Turn, LaunchGoesOn, Moves, Begins, At
  <2> QED
    BY <1>0, <2>1 DEF SweepRow, ThreadRecs, At
<1>2. ASSUME NEW w \in Threads, Record(w)
      PROVE  thread'[t] = thread[t]
  BY <1>0, <1>2, RecordHands DEF At
<1> QED
  BY <1>0, <1>1, <1>2, GoroutineSteps DEF GoroutineStep, ServerDies, Others, Goroutines, At

LEMMA CoversLiveKept ==
    ASSUME AttachInv, HolderInv, RegistryInv, [Next]_vars, "registryStore" \notin Faults
    PROVE  RegistryCoversLive'
<1>0. /\ TypeInv /\ ThreadsOK /\ ProcsOK /\ Attached /\ Procs \subseteq Goroutines
      /\ Goroutines \subseteq Threads /\ thread \in [Threads -> ThreadRecs]
      /\ registry \in [Jobs -> Procs \cup {NoProc}]
  BY ControlAssumption DEF AttachInv, TypeInv, ThreadsOK, ServerOK, Goroutines, Threads
<1>1. ASSUME NEW p \in Procs, NEW t \in Threads, Record(t), Child(t, p), UNCHANGED proc
      PROVE  registry'[proc'[p].job] = p
  <2>1. thread[t].job \in Jobs /\ proc[p].job = thread[t].job
    BY <1>0, <1>1, HasJob DEF Attached, Child, At
  <2> QED
    BY <1>0, <1>1, <2>1 DEF Record, Child
<1>2. ASSUME NEW p \in Procs, Waited(p)', Waited(p), proc'[p].job = proc[p].job
      PROVE  registry'[proc'[p].job] = p
  <2>1. /\ proc[p].job \in Jobs /\ Holds(p, proc[p].job) /\ registry[proc[p].job] = p
        /\ p \in Goroutines
    BY <1>0, <1>2 DEF RegistryInv, RegistryCoversLive, Waited, ProcsOK, Alive, AliveSteps,
       Attached, WaitSteps, At, Holds
  <2>2. ASSUME NEW t \in Goroutines, Holds(t, proc[p].job)
        PROVE  t = p
    BY <2>1, <2>2 DEF HolderInv, OneThread
  <2>3. ASSUME NEW t \in Threads, Record(t)
        PROVE  registry'[proc[p].job] = registry[proc[p].job]
    <3>1. t \in Goroutines /\ thread[t].job \in Jobs /\ ~At(t, "wait")
      BY <1>0, <2>3, WhoseSteps, HasJob DEF Record, At, Goroutines
    <3>2. thread[t].job # proc[p].job
      BY <1>2, <2>2, <3>1 DEF Holds, Waited
    <3> QED
      BY <1>0, <2>1, <2>3, <3>1, <3>2 DEF Record
  <2>4. ASSUME NEW t \in Threads, SweepRow(t)
        PROVE  registry'[proc[p].job] = registry[proc[p].job]
    <3>1. PICK r \in thread[t].todo :
             /\ registry' = [registry EXCEPT ![r[1]] = NoProc] /\ proc' = KillGroup(r[2])
             /\ At(t, "kill")
      BY <2>4 DEF SweepRow, DropsRow
    <3>2. r[1] # proc[p].job
      <4>1. CASE t = "boot"
        <5>1. server # "up"
          BY <3>1, <4>1 DEF AttachInv, BootOver, At, Idle
        <5> QED
          BY <1>2, <5>1 DEF AttachInv, BootAlone, Waited, Alive, NoProcess, AliveSteps
      <4>2. ASSUME t # "boot", r[1] = proc[p].job
            PROVE  FALSE
        <5>1. r[2] = p
          BY <1>2, <3>1, <4>2 DEF RegistryInv, ListedIsLast, Goroutines
        <5> QED
          BY <1>0, <1>2, <3>1, <5>1, KillGroupDoes DEF Waited, Alive, AliveSteps
      <4> QED
        BY <4>1, <4>2
    <3> QED
      BY <1>0, <2>1, <3>1, <3>2
  <2>5. ASSUME NEW q \in Procs, Drop(q)
        PROVE  registry'[proc[p].job] = registry[proc[p].job]
    <3>1. q \in Goroutines /\ thread[q].job \in Jobs /\ ~At(q, "wait")
      BY <1>0, <2>5, HasJob DEF Drop, At
    <3>2. thread[q].job # proc[p].job
      BY <1>2, <2>2, <3>1 DEF Holds, Waited
    <3> QED
      BY <1>0, <2>1, <2>5, <3>1, <3>2 DEF Drop, DropsRow
  <2> QED
    BY <1>0, <1>2, <2>1, <2>3, <2>4, <2>5, RegistrySteps DEF RegistryStep
<1> QED
  BY <1>0, <1>1, <1>2, WaitedSince DEF RegistryCoversLive, Waited

\* Boot's sweep ends, and the server serves.
LEMMA ServerComesUp ==
    ASSUME TypeInv, [Next]_vars, server # "up", server' = "up"
    PROVE  At("boot", "kill") /\ thread["boot"].todo = {}
<1>1. \E t \in Threads : SweepDone(t) /\ t = "boot"
  <2>1. ASSUME NEW p \in Procs, Process(p) \/ ProcessFault(p)
        PROVE  UNCHANGED server
    BY <2>1, ProcessRows DEF ProcMoves
  <2> QED
    BY <2>1 DEF Next, Launch, ClaimRead, ClaimReadFails, SweepList, SweepRow, SweepDone, SpawnOK,
       SpawnFails, Record, RecoverStale, RecoverRead, RecoverWrite, RecoverUnpause,
       RecoverFails, GivesUp, Waiter, Reap, Drop, StallResume, Queue, QueuePoll, QueueResume,
       QueueClaimResume, QueueClaim, Operator, Create, PauseJob, ResumeJob, StartPending,
       RecoverJob, RemoveJob, SetSchedulerPaused, Server, ServerBoots, BootNext, ServerDies,
       ServerOnly, vars, controlVars
<1> QED
  BY <1>1 DEF SweepDone

LEMMA RowsHeldKept ==
    ASSUME AttachInv, RegistryInv, [Next]_vars, "registryStore" \notin Faults, server' = "up",
           NEW j \in Jobs, registry'[j] # NoProc
    PROVE  thread'[registry'[j]].at \in WaitSteps /\ thread'[registry'[j]].job = j
<1>0. /\ TypeInv /\ ThreadsOK /\ Attached /\ registry \in [Jobs -> Procs \cup {NoProc}]
      /\ thread \in [Threads -> ThreadRecs]
  BY DEF AttachInv, TypeInv, ThreadsOK, ServerOK
<1>1. ASSUME NEW t \in Threads, Record(t), registry'[j] # registry[j]
      PROVE  thread'[registry'[j]].at \in WaitSteps /\ thread'[registry'[j]].job = j
  <2>1. PICK c \in Procs : /\ Child(t, c) /\ thread'[c].at = "wait"
                           /\ thread'[c].job = thread[t].job
    BY <1>0, <1>1, RecordHands
  <2>2. j = thread[t].job /\ registry'[j] = c
    BY <1>0, <1>1, <2>1 DEF Record, Child
  <2> QED
    BY <2>1, <2>2 DEF WaitSteps
<1>2. ASSUME registry'[j] = registry[j]
      PROVE  thread'[registry'[j]].at \in WaitSteps /\ thread'[registry'[j]].job = j
  <2>0. registry[j] \in Procs
    BY <1>0, <1>2
  <2>1. CASE server = "up"
    <3>1. thread[registry[j]].at \in WaitSteps /\ thread[registry[j]].job = j
      BY <1>2, <2>1 DEF RegistryInv, RowsHeld
    <3>2. ~Drop(registry[j])
      BY <1>0, <1>2, <3>1 DEF Drop, DropsRow
    <3>3. ~ServerDies
      BY DEF ServerDies
    <3> QED
      BY <1>0, <1>2, <2>0, <3>1, <3>2, <3>3, WaiterStays
  <2>2. CASE server # "up"
    <3>1. At("boot", "kill") /\ thread["boot"].todo = {}
      BY <1>0, <2>2, ServerComesUp
    <3> QED
      BY <1>2, <3>1 DEF RegistryInv, BootSweeps
  <2> QED
    BY <2>1, <2>2
<1>3. registry'[j] = registry[j] \/ \E t \in Threads : Record(t)
  BY <1>0, RegistrySteps DEF RegistryStep, SweepRow, Drop, DropsRow
<1> QED
  BY <1>1, <1>2, <1>3

LEMMA BootSweepsKept ==
    ASSUME AttachInv, RegistryInv, [Next]_vars, "registryStore" \notin Faults
    PROVE  BootSweeps'
<1> SUFFICES ASSUME At("boot", "kill")'
             PROVE  \A j \in Jobs : registry'[j] # NoProc =>
                       <<j, registry'[j]>> \in thread'["boot"].todo
  BY DEF BootSweeps
<1>0. /\ TypeInv /\ ThreadsOK /\ Attached /\ registry \in [Jobs -> Procs \cup {NoProc}]
      /\ thread \in [Threads -> ThreadRecs] /\ "boot" \in Threads /\ Procs \subseteq Threads
      /\ "boot" \notin Procs /\ Idle.at = "idle"
  BY ControlAssumption DEF AttachInv, TypeInv, ThreadsOK, ServerOK, Threads, Idle
<1>1. CASE SweepList("boot")
  <2>1. thread'["boot"].todo = Registered /\ UNCHANGED registry
    BY <1>0, <1>1 DEF SweepList, ServerOnly
  <2> QED
    BY <2>1 DEF Registered
<1>2. CASE SweepRow("boot")
  <2>1. PICK r \in thread["boot"].todo :
           /\ thread'["boot"].todo = thread["boot"].todo \ {r}
           /\ registry' = [registry EXCEPT ![r[1]] = NoProc] /\ At("boot", "kill")
    BY <1>0, <1>2 DEF SweepRow, DropsRow
  <2>2. ASSUME NEW j \in Jobs, registry'[j] # NoProc
        PROVE  <<j, registry'[j]>> \in thread'["boot"].todo
    <3>1. r[1] \in Jobs
      BY <1>0, <2>1 DEF ThreadRecs
    <3>2. j # r[1] /\ registry'[j] = registry[j]
      BY <1>0, <2>1, <2>2, <3>1
    <3>3. <<j, registry[j]>> \in thread["boot"].todo /\ <<j, registry[j]>> # r
      BY <2>1, <2>2, <3>2 DEF RegistryInv, BootSweeps
    <3> QED
      BY <2>1, <3>2, <3>3
  <2> QED
    BY <2>2
<1>3. CASE thread'["boot"] = thread["boot"] /\ ~SweepRow("boot")
  <2>1. At("boot", "kill") /\ server # "up"
    BY <1>0, <1>3 DEF AttachInv, BootOver, At
  <2>2. \A t \in Threads \ {"boot"} : thread[t].at = "idle"
    BY <1>0, <2>1 DEF AttachInv, BootAlone
  <2>3. UNCHANGED registry
    BY <1>0, <1>3, <2>1, <2>2, RegistrySteps DEF RegistryStep, SweepRow, Record, Drop, At
  <2> QED
    BY <1>3, <2>1, <2>3 DEF RegistryInv, BootSweeps
<1>4. CASE \E t \in Threads : Record(t)
  BY <1>0, <1>3, <1>4, RecordHands DEF SweepRow, Record, At
<1> QED
  BY <1>0, <1>1, <1>2, <1>3, <1>4, GoroutineSteps
     DEF GoroutineStep, BootTurn, ServerDies, Others, Moves, At

LEMMA ListedIsLastKept ==
    ASSUME NoInterference, AttachInv, HolderInv, RegistryInv, [Next]_vars,
           "registryStore" \notin Faults, NEW t \in Goroutines, At(t, "kill")',
           NEW r \in thread'[t].todo
    PROVE  /\ status'[r[1]] \notin {"none", "pending"}
           /\ \A u \in Goroutines : Holds(u, r[1])' => Settled(u)'
           /\ \A p \in Procs : Waited(p)' /\ proc'[p].job = r[1] => r[2] = p
<1>0. /\ TypeInv /\ ThreadsOK /\ ProcsOK /\ Attached /\ Procs \subseteq Goroutines
      /\ Goroutines \subseteq Threads /\ thread \in [Threads -> ThreadRecs]
      /\ registry \in [Jobs -> Procs \cup {NoProc}] /\ NoJob \notin Jobs /\ Idle.at = "idle"
  BY ControlAssumption DEF AttachInv, TypeInv, ThreadsOK, ServerOK, Goroutines, Threads, Idle
<1>1. CASE SweepList(t)
  <2>1. /\ At(t, "sweep") /\ UNCHANGED <<status, proc, registry>>
        /\ thread' = [thread EXCEPT ![t].at = "kill", ![t].todo = Registered]
    BY <1>1 DEF SweepList, ServerOnly, tableVars
  <2>2. \A u \in Threads \ {t} : thread'[u] = thread[u]
    BY <1>0, <2>1
  <2>3. thread'[t].job = thread[t].job /\ thread'[t].todo = Registered
    BY <1>0, <2>1 DEF ThreadRecs
  <2>4. PICK j \in Jobs : r = <<j, registry[j]>> /\ registry[j] # NoProc
    BY <2>3 DEF Registered
  <2>5. server = "up"
    BY <1>0, <2>1 DEF AttachInv, BootAlone, At, Goroutines
  <2>6. /\ registry[j] \in Goroutines /\ Holds(registry[j], j)
        /\ thread[registry[j]].at \in WaitSteps
    BY <1>0, <2>4, <2>5 DEF RegistryInv, RowsHeld, Holds
  <2>7. status'[r[1]] \notin {"none", "pending"}
    BY <2>1, <2>4, <2>6 DEF HolderInv, Known
  <2>8. ASSUME NEW u \in Goroutines, Holds(u, r[1])'
        PROVE  Settled(u)'
    <3>1. Holds(u, j)
      BY <1>0, <2>2, <2>3, <2>4, <2>8 DEF Holds
    <3>2. u = registry[j]
      BY <2>6, <3>1 DEF HolderInv, OneThread
    <3>3. u # t
      BY <2>1, <2>6, <3>2 DEF At, WaitSteps, RecoverSteps
    <3> QED
      BY <1>0, <2>2, <2>6, <3>2, <3>3 DEF Settled
  <2>9. ASSUME NEW p \in Procs, Waited(p)', proc'[p].job = r[1]
        PROVE  r[2] = p
    <3>1. p # t
      BY <2>9 DEF Waited, At
    <3>2. Waited(p) /\ proc[p].job = j
      BY <1>0, <2>1, <2>2, <2>4, <2>9, <3>1 DEF Waited, At, Alive
    <3> QED
      BY <2>4, <3>2 DEF RegistryInv, RegistryCoversLive, Waited
  <2> QED
    BY <2>7, <2>8, <2>9
<1>2. CASE At(t, "kill") /\ r \in thread[t].todo
  <2>0. /\ r[1] \in Jobs /\ status[r[1]] \notin {"none", "pending"}
        /\ \A u \in Goroutines : Holds(u, r[1]) => Settled(u)
        /\ \A p \in Procs : Waited(p) /\ proc[p].job = r[1] => r[2] = p
    BY <1>0, <1>2 DEF RegistryInv, ListedIsLast, ThreadRecs
  <2>1. ~DelayOver(r[1])
    BY <1>0, <1>2 DEF DelayOver
  <2>2. ASSUME NEW w \in Threads, Record(w), Holds(w, r[1])
        PROVE  FALSE
    <3>1. w \in Goroutines /\ At(w, "record")
      BY <1>0, <2>2, WhoseSteps DEF Record, At, Goroutines
    <3> QED
      BY <2>0, <2>2, <3>1 DEF Settled, At, WaitSteps, RecoverSteps
  <2>3. status'[r[1]] \notin {"none", "pending"}
    BY <1>0, <2>0, StaysKnown
  <2>4. ASSUME NEW u \in Goroutines, Holds(u, r[1])'
        PROVE  Settled(u)'
    <3>1. Holds(u, r[1])
      BY <1>0, <2>0, <2>1, <2>2, <2>4, JobsCome DEF JobComes, StartsNow
    <3> QED
      BY <2>0, <2>1, <2>4, <3>1, SettledStays
  <2>5. ASSUME NEW p \in Procs, Waited(p)', proc'[p].job = r[1]
        PROVE  r[2] = p
    <3>1. ASSUME NEW w \in Threads, Record(w), Child(w, p), UNCHANGED proc
          PROVE  Holds(w, r[1])
      BY <1>0, <2>0, <2>5, <3>1 DEF Attached, Holds
    <3>2. Waited(p) /\ proc[p].job = r[1]
      BY <1>0, <2>2, <2>5, <3>1, WaitedSince
    <3> QED
      BY <2>0, <3>2
  <2> QED
    BY <2>3, <2>4, <2>5
<1> QED
  BY <1>0, <1>1, <1>2, ListedSince

LEMMA RegistryInit == Init => RegistryInv
  BY ControlAssumption DEF Init, RegistryInv, RegistryCoversLive, RowsHeld, BootSweeps,
     ListedIsLast, Goroutines, Threads, Idle, NoProcess, At, Alive, AliveSteps

\* A process that is alive and waited for has its row in the registry, though jobs
\* stall, time out and are launched again by the queue and by their waiters: a
\* waiter, which drops the row by job id, drops that of its own process only, and a
\* sweep has killed the process whose row it drops.
THEOREM LiveProcessesAreRegistered ==
    ASSUME NoInterference, "registryStore" \notin Faults
    PROVE  Spec => []RegistryCoversLive
<1> DEFINE Inv == AttachInv /\ FaultsShow /\ HolderInv /\ RegistryInv
<1>1. Init => Inv
  BY AttachedInvariant, FaultsInvariant, HolderInvariant, RegistryInit DEF NoInterference
<1>2. ASSUME Inv, [Next]_vars
      PROVE  Inv'
  <2>0. "restart" \notin Faults /\ TypeInv
    BY <1>2 DEF NoInterference, AttachInv
  <2>1. AttachInv' /\ FaultsShow'
    BY <1>2, <2>0, AttachedInvariant, FaultsInvariant
  <2>2. HolderInv'
    BY <1>2, <2>0, <2>1, HolderInvariant
  <2>3. RowsHeld'
    BY <1>2, RowsHeldKept DEF RowsHeld
  <2>4. ListedIsLast'
    BY <1>2, ListedIsLastKept DEF ListedIsLast
  <2> QED
    BY <1>2, <2>1, <2>2, <2>3, <2>4, CoversLiveKept, BootSweepsKept DEF RegistryInv
<1>3. Inv => RegistryCoversLive
  BY DEF RegistryInv
<1> QED
  BY <1>1, <1>2, <1>3, PTL DEF Spec

-----------------------------------------------------------------------------
(* The sweep, where jobs run one at a time. *)

\* The sweep of a launch comes when no process is at work; that of boot, when
\* none is left.
LEMMA SweepsSpare ==
    ASSUME AttachInv, HolderInv, OneActive, FaultsShow, "recovery" \notin Faults, [Next]_vars,
           NEW p \in Procs, proc'[p].exit = "swept", proc[p].exit # "swept"
    PROVE  proc[p].at \notin {"boot", "discover", "queued", "work", "recovery"}
<1>0. TypeInv /\ Attached
  BY DEF AttachInv
<1>1. PICK t \in Threads : Alive(p) /\ At(t, "kill")
  BY <1>0, ProcChanges DEF ProcChange, NoProcess, ProcMoves
<1>2. t # "boot"
  <2>1. CASE server = "up"
    BY <1>1, <2>1 DEF AttachInv, BootOver, At, Idle
  <2>2. CASE server # "up"
    BY <1>1, <2>2 DEF AttachInv, BootAlone, Alive, NoProcess, AliveSteps
  <2> QED
    BY <2>1, <2>2
<1>3. proc[p].at \notin {"boot", "discover", "queued", "work"}
  BY <1>0, <1>1, <1>2, LaunchAlone DEF At, Goroutines
<1>4. proc[p].at # "recovery"
  BY DEF FaultsShow, ProcAt
<1> QED
  BY <1>3, <1>4

SerialInv == AttachInv /\ FaultsShow /\ HolderInv /\ OneActive

LEMMA SerialInvariant ==
    ASSUME Serial
    PROVE  Spec => []SerialInv
<1>1. Init => SerialInv
  <2>1. Init => OneActive
    BY DEF Init, OneActive, Active, With
  <2> QED
    BY <2>1, AttachedInvariant, FaultsInvariant, HolderInvariant
       DEF SerialInv, Serial, NoInterference
<1>2. ASSUME SerialInv, [Next]_vars
      PROVE  SerialInv'
  <2>0. NoInterference /\ "restart" \notin Faults /\ TypeInv
    BY <1>2 DEF Serial, NoInterference, SerialInv, AttachInv
  <2>1. AttachInv' /\ FaultsShow'
    BY <1>2, <2>0, AttachedInvariant, FaultsInvariant DEF SerialInv
  <2>2. HolderInv'
    BY <1>2, <2>0, <2>1, HolderInvariant DEF SerialInv
  <2>3. Active' \subseteq Active \/ (Active = {} /\ \E j \in Jobs : Active' \subseteq {j})
    BY <1>2, ActiveGrows DEF SerialInv
  <2>4. OneActive'
    BY <1>2, <2>3 DEF SerialInv, OneActive
  <2> QED
    BY <2>1, <2>2, <2>4 DEF SerialInv
<1> QED
  BY <1>1, <1>2, PTL DEF Spec

\* Jobs run one at a time, whichever of the queue, start-pending and a creation
\* gives a job its turn, however processes end and the server reboots.
THEOREM JobsRunSerially ==
    ASSUME Serial
    PROVE  Spec => []OneActiveJob
<1>1. SerialInv => OneActiveJob
  <2>1. ASSUME OneActive
        PROVE  OneActiveJob
    <3>1. CASE Active = {}
      BY <3>1, FS_EmptySet DEF OneActiveJob
    <3>2. ASSUME NEW j \in Active
          PROVE  OneActiveJob
      <4>1. Active = {j}
        BY <2>1, <3>2 DEF OneActive
      <4>2. Cardinality(Active) = 1
        BY <4>1, FS_Singleton
      <4> QED
        BY <4>2 DEF OneActiveJob
    <3> QED
      BY <3>1, <3>2
  <2> QED
    BY <2>1 DEF SerialInv
<1> QED
  BY <1>1, SerialInvariant, PTL

\* No two processes scrape, and a process at work has a running job.
THEOREM WorkersHaveARunningJob ==
    ASSUME Serial
    PROVE  Spec => []WorkIsActive
<1>1. ASSUME SerialInv
      PROVE  WorkIsActive
  <2>0. TypeInv /\ Attached
    BY <1>1 DEF SerialInv, AttachInv
  <2>1. \A p \in Procs : ProcAt(p, "work") => status[proc[p].job] = "running"
    BY <1>1 DEF SerialInv, HolderInv, ProcKnows
  <2>2. ASSUME NEW p \in Procs, NEW q \in Procs, ProcAt(p, "work"), ProcAt(q, "work")
        PROVE  p = q
    <3>1. /\ Alive(p) /\ Alive(q) /\ proc[p].job \in Jobs /\ proc[q].job \in Jobs
      BY <2>0, <2>2 DEF Alive, AliveSteps, ProcAt, TypeInv, ProcsOK
    <3>2. proc[p].job \in Active /\ proc[q].job \in Active
      BY <2>1, <2>2, <3>1 DEF Active, With
    <3>3. proc[p].job = proc[q].job
      BY <1>1, <3>2 DEF SerialInv, OneActive
    <3>4. PICK t \in Goroutines : HasProcess(t, p) /\ Holds(t, proc[p].job)
      BY <2>0, <3>1, HolderOf
    <3>5. PICK u \in Goroutines : HasProcess(u, q) /\ Holds(u, proc[q].job)
      BY <2>0, <3>1, HolderOf
    <3>6. t = u
      BY <1>1, <3>1, <3>3, <3>4, <3>5 DEF SerialInv, HolderInv, OneThread
    <3> QED
      BY <2>0, <3>4, <3>5, <3>6, ProcessOf
  <2> QED
    BY <2>1, <2>2 DEF WorkIsActive
<1> QED
  BY <1>1, SerialInvariant, PTL

\* No sweep kills a process that is at work.
THEOREM SweepsSpareWork ==
    ASSUME Serial
    PROVE  Spec => SweepSparesWork
<1>1. ASSUME SerialInv, [Next]_vars
      PROVE  [\A p \in Procs : proc'[p].exit = "swept" /\ proc[p].exit # "swept"
                => proc[p].at \notin {"boot", "discover", "queued", "work", "recovery"}]_vars
  BY <1>1, SweepsSpare DEF SerialInv, Serial, NoInterference
<1> QED
  BY <1>1, SerialInvariant, PTL DEF Spec, SweepSparesWork

=============================================================================
