------------------------- MODULE VsyncThreadProofs -------------------------
(***************************************************************************)
(* Safety of VsyncThread for any number of threads, callbacks, workers and *)
(* calls.  Everything rests on the lock: what it guards changes only while *)
(* no callback runs, so that a callback that runs was let in by values     *)
(* that still hold.                                                        *)
(***************************************************************************)
EXTENDS VsyncThread, FiniteSetTheorems, TLAPS

(* A worker that does not run is at the start of Routine.                  *)
ParkedInv == \A w \in Workers \ started : at[w] = "begin"

(* A callback runs only with the reports on, and is the one registered.    *)
LockInv ==
    /\ Reporting => enabled
    /\ Reporting => called = callback

(* The calls that returned add up to "off" only if enabled_ is off.        *)
PromiseInv == promise = "off" => ~enabled

(* Only who registers looks after the worker, and only before there is     *)
(* one.                                                                    *)
WorkerInv ==
    /\ \A t \in Threads : call[t].op \in {"register", "worker", "create"} => t \in Registrants
    /\ \A t \in Threads : call[t].op = "create" => ~initialized
    /\ ~initialized => started = {}
    /\ \A v, w \in started : v = w

-----------------------------------------------------------------------------
(* What a thread can be doing.                                             *)
Doing == [op : {"none", "set", "register", "worker", "create"},
          on : BOOLEAN, fn : Callbacks \cup {NoCallback}]

LEMMA DoingMembers ==
    /\ Idle \in Doing
    /\ \A on \in BOOLEAN : [op |-> "set", on |-> on, fn |-> NoCallback] \in Doing
    /\ \A fn \in Callbacks : [op |-> "register", on |-> FALSE, fn |-> fn] \in Doing
BY DEF Idle, Doing

LEMMA KeptIsAPromise ==
    ASSUME NEW t, NEW on
    PROVE  Kept(t, on) \in {"on", "off", "open"}
BY DEF Kept, Word

(* Every step keeps the values in their types, whoever makes it.           *)
THEOREM TypeCorrect == Spec => []TypeOK
<1>1. Init => TypeOK
  <2> SUFFICES ASSUME Init PROVE TypeOK
    OBVIOUS
  <2>1. call \in [Threads -> Doing]
    BY DoingMembers DEF Init
  <2>2. at \in [Workers -> {"begin", "wait", "vblank", "callback"}]
    BY DEF Init
  <2>3. calls \in 0..MaxCalls
    BY MaxCallsAssumption DEF Init
  <2> QED BY <2>1, <2>2, <2>3 DEF Init, TypeOK, Doing
<1>2. TypeOK /\ [Next]_vars => TypeOK'
  <2> SUFFICES ASSUME TypeOK, [Next]_vars PROVE TypeOK'
    OBVIOUS
  <2>0. call \in [Threads -> Doing]
    BY DEF TypeOK, Doing
  <2>1. ASSUME NEW t \in Threads, NEW on \in BOOLEAN, VSyncControl(t, on) PROVE TypeOK'
    <3>1. promise' \in {"on", "off", "open"}
      BY <2>1, KeptIsAPromise DEF VSyncControl, TypeOK
    <3>2. calls' \in 0..MaxCalls
      BY <2>1, MaxCallsAssumption DEF VSyncControl, MayCall, TypeOK
    <3>3. call' \in [Threads -> Doing] /\ clientLock' \in Threads \cup {Nobody}
      BY <2>0, <2>1, DoingMembers DEF VSyncControl, Enter, TypeOK
    <3> QED BY <2>1, <3>1, <3>2, <3>3 DEF VSyncControl, TypeOK, Doing
  <2>2. ASSUME NEW t \in Threads, SetEnabled(t) PROVE TypeOK'
    <3>1. promise' \in {"on", "off", "open"}
      BY <2>2, KeptIsAPromise DEF SetEnabled
    <3>2. enabled' \in BOOLEAN
      BY <2>0, <2>2 DEF SetEnabled, Doing
    <3>3. call' \in [Threads -> Doing] /\ clientLock' \in Threads \cup {Nobody}
      BY <2>0, <2>2, DoingMembers DEF SetEnabled, Leave, TypeOK
    <3> QED BY <2>2, <3>1, <3>2, <3>3 DEF SetEnabled, TypeOK, Doing
  <2>3. ASSUME NEW t \in Threads, NEW fn \in Callbacks, RegisterCallback(t, fn) PROVE TypeOK'
    <3>1. calls' \in 0..MaxCalls
      BY <2>3, MaxCallsAssumption DEF RegisterCallback, MayCall, TypeOK
    <3>2. call' \in [Threads -> Doing] /\ clientLock' \in Threads \cup {Nobody}
      BY <2>0, <2>3, DoingMembers DEF RegisterCallback, Enter, TypeOK
    <3> QED BY <2>3, <3>1, <3>2 DEF RegisterCallback, TypeOK, Doing
  <2>4. ASSUME NEW t \in Threads, SetCallback(t) PROVE TypeOK'
    <3>1. callback' \in Callbacks \cup {NoCallback}
      BY <2>0, <2>4 DEF SetCallback, Doing
    <3>2. call' \in [Threads -> Doing]
      BY <2>0, <2>4 DEF SetCallback, Doing
    <3> QED BY <2>4, <3>1, <3>2 DEF SetCallback, TypeOK, Doing
  <2>5. ASSUME NEW t \in Threads, InitWorker(t) PROVE TypeOK'
    <3>1. call' \in [Threads -> Doing] /\ clientLock' \in Threads \cup {Nobody}
      <4>1. CASE IsInitialized
        BY <2>0, <2>5, <4>1, DoingMembers DEF InitWorker, Leave, TypeOK
      <4>2. CASE ~IsInitialized
        BY <2>0, <2>5, <4>2 DEF InitWorker, TypeOK, Doing
      <4> QED BY <4>1, <4>2
    <3> QED BY <2>5, <3>1 DEF InitWorker, TypeOK, Doing
  <2>6. ASSUME NEW t \in Threads, CreateWorker(t) PROVE TypeOK'
    <3>1. call' \in [Threads -> Doing] /\ clientLock' \in Threads \cup {Nobody}
      BY <2>0, <2>6, DoingMembers DEF CreateWorker, Leave, TypeOK
    <3>2. started' \subseteq Workers /\ initialized' \in BOOLEAN
      BY <2>6 DEF CreateWorker, TypeOK
    <3> QED BY <2>6, <3>1, <3>2 DEF CreateWorker, TypeOK, Doing
  <2>7. ASSUME NEW w \in Workers, WorkerStep(w) PROVE TypeOK'
    BY <2>7 DEF WorkerStep, Look, Vblank, VblankFails, HandlePageFlipEvent, CallbackReturns, TypeOK
  <2>8. CASE UNCHANGED vars
    BY <2>8 DEF vars, TypeOK
  <2>9. CASE Next
    BY <2>1, <2>2, <2>3, <2>4, <2>5, <2>6, <2>7, <2>9 DEF Next, ClientCall, ClientStep
  <2> QED
    BY <2>8, <2>9
<1> QED BY <1>1, <1>2, PTL DEF Spec

-----------------------------------------------------------------------------
(* The lock: while a callback runs, nobody changes what it was let in by.  *)
LEMMA LockKept ==
    ASSUME TypeOK, ParkedInv, LockInv, [Next]_vars
    PROVE  ParkedInv' /\ LockInv'
<1> USE DEF ParkedInv, LockInv, Reporting
<1>1. ASSUME NEW t \in Threads, NEW on \in BOOLEAN, VSyncControl(t, on) PROVE ParkedInv' /\ LockInv'
  BY <1>1 DEF VSyncControl
<1>2. ASSUME NEW t \in Threads, SetEnabled(t) PROVE ParkedInv' /\ LockInv'
  BY <1>2 DEF SetEnabled, LockFree
<1>3. ASSUME NEW t \in Threads, NEW fn \in Callbacks, RegisterCallback(t, fn)
      PROVE  ParkedInv' /\ LockInv'
  BY <1>3 DEF RegisterCallback
<1>4. ASSUME NEW t \in Threads, SetCallback(t) PROVE ParkedInv' /\ LockInv'
  BY <1>4 DEF SetCallback, LockFree
<1>5. ASSUME NEW t \in Threads, InitWorker(t) PROVE ParkedInv' /\ LockInv'
  BY <1>5 DEF InitWorker
<1>6. ASSUME NEW t \in Threads, CreateWorker(t) PROVE ParkedInv' /\ LockInv'
  <2>1. ASSUME NEW w \in Workers \ started, started' = started \cup {w}
        PROVE  ParkedInv' /\ LockInv'
    <3>1. at' = at /\ at[w] = "begin"
      BY <1>6, <2>1 DEF CreateWorker
    <3>2. Reporting' => Reporting
      BY <2>1, <3>1
    <3> QED BY <1>6, <2>1, <3>1, <3>2 DEF CreateWorker
  <2>2. CASE started' = started
    BY <1>6, <2>2 DEF CreateWorker
  <2> QED BY <1>6, <2>1, <2>2 DEF CreateWorker
<1>7. ASSUME NEW w \in Workers, Look(w) \/ Vblank(w) \/ VblankFails(w)
      PROVE  ParkedInv' /\ LockInv'
  BY <1>7 DEF Look, Vblank, VblankFails, TypeOK
<1>8. ASSUME NEW w \in Workers, HandlePageFlipEvent(w) PROVE ParkedInv' /\ LockInv'
  <2>1. ~Reporting
    BY <1>8 DEF HandlePageFlipEvent, LockFree
  <2>2. CASE Reports
    BY <1>8, <2>2 DEF HandlePageFlipEvent, Reports, TypeOK
  <2>3. CASE ~Reports
    BY <1>8, <2>1, <2>3 DEF HandlePageFlipEvent, TypeOK
  <2> QED BY <2>2, <2>3
<1>9. ASSUME NEW w \in Workers, CallbackReturns(w) PROVE ParkedInv' /\ LockInv'
  BY <1>9 DEF CallbackReturns, TypeOK
<1>10. CASE UNCHANGED vars
  BY <1>10 DEF vars
<1>11. CASE Next
  BY <1>1, <1>2, <1>3, <1>4, <1>5, <1>6, <1>7, <1>8, <1>9, <1>11
     DEF Next, ClientCall, ClientStep, WorkerStep
<1> QED BY <1>10, <1>11

(* The promise: VSyncControl that returns and SetEnabled are the only      *)
(* steps that make or break it.                                            *)
LEMMA PromiseKept ==
    ASSUME TypeOK, PromiseInv, [Next]_vars
    PROVE  PromiseInv'
<1> USE DEF PromiseInv
<1>1. ASSUME NEW t \in Threads, NEW on \in BOOLEAN, VSyncControl(t, on) PROVE PromiseInv'
  <2>1. CASE SkipsSame(on)
    BY <1>1, <2>1 DEF VSyncControl, SkipsSame, Kept, Word
  <2>2. CASE ~SkipsSame(on)
    BY <1>1, <2>2 DEF VSyncControl
  <2> QED BY <2>1, <2>2
<1>2. ASSUME NEW t \in Threads, SetEnabled(t) PROVE PromiseInv'
  BY <1>2 DEF SetEnabled, Kept, Word
<1>3. ASSUME NEW t \in Threads, \/ \E fn \in Callbacks : RegisterCallback(t, fn)
                               \/ SetCallback(t) \/ InitWorker(t) \/ CreateWorker(t)
      PROVE  PromiseInv'
  BY <1>3 DEF RegisterCallback, SetCallback, InitWorker, CreateWorker
<1>4. ASSUME NEW w \in Workers, WorkerStep(w) PROVE PromiseInv'
  BY <1>4 DEF WorkerStep, Look, Vblank, VblankFails, HandlePageFlipEvent, CallbackReturns
<1>5. CASE UNCHANGED vars
  BY <1>5 DEF vars
<1>6. CASE Next
  BY <1>1, <1>2, <1>3, <1>4, <1>6 DEF Next, ClientCall, ClientStep
<1> QED BY <1>5, <1>6

(* No worker runs before it is created, no callback without the reports    *)
(* on, no promise of silence without enabled_ off, in any reachable state. *)
LEMMA LockHolds == Spec => [](TypeOK /\ ParkedInv /\ LockInv /\ PromiseInv)
<1>1. Init => ParkedInv /\ LockInv /\ PromiseInv
  BY DEF Init, ParkedInv, LockInv, PromiseInv, Reporting
<1>2. TypeOK /\ ParkedInv /\ LockInv /\ PromiseInv /\ [Next]_vars
        => ParkedInv' /\ LockInv' /\ PromiseInv'
  BY LockKept, PromiseKept
<1> QED BY <1>1, <1>2, TypeCorrect, PTL DEF Spec

(* PageFlipEventHandler::VSyncControl(false) that has returned keeps the   *)
(* callback from running until someone asks for reports again, however     *)
(* many threads call and however long the worker waited for its vblank.    *)
THEOREM OffIsSilent == Spec => []SilentWhenOff
<1>1. LockInv /\ PromiseInv => SilentWhenOff
  BY DEF LockInv, PromiseInv, SilentWhenOff
<1> QED BY <1>1, LockHolds, PTL

(* PageFlipEventHandler::RegisterCallback that has replaced the callback   *)
(* leaves no call of the old one under way.                                *)
THEOREM ReplacedIsSilent == Spec => []ReplacedIsNotCalled
<1>1. LockInv => ReplacedIsNotCalled
  BY DEF LockInv, ReplacedIsNotCalled
<1> QED BY <1>1, LockHolds, PTL

-----------------------------------------------------------------------------
(* One registrant: between its look at initialized_ and the creation of    *)
(* the thread nobody else creates one.                                     *)
LEMMA WorkerKept ==
    ASSUME NEW r, Registrants \subseteq {r}, TypeOK, WorkerInv, [Next]_vars
    PROVE  WorkerInv'
<1> USE DEF WorkerInv
<1>0. call \in [Threads -> Doing]
  BY DEF TypeOK, Doing
<1>1. ASSUME NEW t \in Threads, NEW on \in BOOLEAN, VSyncControl(t, on) PROVE WorkerInv'
  <2>1. CASE SkipsSame(on)
    BY <1>1, <2>1 DEF VSyncControl
  <2>2. CASE ~SkipsSame(on)
    <3>1. call' = [call EXCEPT ![t] = [op |-> "set", on |-> on, fn |-> NoCallback]]
      BY <1>1, <2>2 DEF VSyncControl, Enter
    <3> QED BY <1>0, <1>1, <3>1 DEF VSyncControl
  <2> QED BY <2>1, <2>2
<1>2. ASSUME NEW t \in Threads, SetEnabled(t) PROVE WorkerInv'
  BY <1>0, <1>2 DEF SetEnabled, Leave, Idle
<1>3. ASSUME NEW t \in Threads, t \in Registrants, NEW fn \in Callbacks, RegisterCallback(t, fn)
      PROVE  WorkerInv'
  <2>1. call' = [call EXCEPT ![t] = [op |-> "register", on |-> FALSE, fn |-> fn]]
    BY <1>3 DEF RegisterCallback, Enter
  <2> QED BY <1>0, <1>3, <2>1 DEF RegisterCallback
<1>4. ASSUME NEW t \in Threads, SetCallback(t) PROVE WorkerInv'
  BY <1>0, <1>4 DEF SetCallback, Doing
<1>5. ASSUME NEW t \in Threads, InitWorker(t) PROVE WorkerInv'
  <2>1. CASE IsInitialized
    BY <1>0, <1>5, <2>1 DEF InitWorker, Leave, Idle
  <2>2. CASE ~IsInitialized
    BY <1>0, <1>5, <2>2 DEF InitWorker, IsInitialized, Doing
  <2> QED BY <2>1, <2>2
<1>6. ASSUME NEW t \in Threads, CreateWorker(t) PROVE WorkerInv'
  <2>1. ~initialized /\ started = {} /\ t \in Registrants
    BY <1>6 DEF CreateWorker
  <2>2. \A u \in Threads : call'[u].op \in {"register", "worker", "create"} => u \in Registrants /\ u # t
    BY <1>0, <1>6 DEF CreateWorker, Leave, Idle
  <2>3. \A u \in Threads : call'[u].op # "create"
    BY <2>1, <2>2
  <2>4. \/ \E w \in Workers : started' = {w} /\ initialized' = TRUE
        \/ started' = {}
    BY <1>6, <2>1 DEF CreateWorker
  <2> QED BY <2>2, <2>3, <2>4
<1>7. ASSUME NEW w \in Workers, WorkerStep(w) PROVE WorkerInv'
  BY <1>7 DEF WorkerStep, Look, Vblank, VblankFails, HandlePageFlipEvent, CallbackReturns
<1>8. CASE UNCHANGED vars
  BY <1>8 DEF vars
<1>9. CASE Next
  BY <1>1, <1>2, <1>3, <1>4, <1>5, <1>6, <1>7, <1>9 DEF Next, ClientCall, ClientStep
<1> QED BY <1>8, <1>9

(* A client that registers from one thread only, as the adapter and the    *)
(* test clients do, gets one worker from HWCThread::InitWorker, however    *)
(* often it registers and whichever creations fail.                        *)
THEOREM OneRegistrantOneWorker ==
    ASSUME NEW r, Registrants \subseteq {r}
    PROVE  Spec => []OneWorker
<1>1. Init => WorkerInv
  BY DEF Init, WorkerInv, Idle
<1>2. TypeOK /\ WorkerInv /\ [Next]_vars => WorkerInv'
  BY WorkerKept
<1>3. WorkerInv => OneWorker
  <2> SUFFICES ASSUME WorkerInv PROVE Cardinality(started) <= 1
    BY DEF OneWorker
  <2>1. CASE started = {}
    BY <2>1, FS_EmptySet
  <2>2. CASE started # {}
    <3>1. PICK w \in started : TRUE
      BY <2>2
    <3>2. started = {w}
      BY <3>1 DEF WorkerInv
    <3>3. Cardinality(started) = 1
      BY <3>2, FS_Singleton
    <3> QED BY <3>3
  <2> QED BY <2>1, <2>2
<1> QED BY <1>1, <1>2, <1>3, TypeCorrect, PTL DEF Spec
=============================================================================
