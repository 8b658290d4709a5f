---------------------------- MODULE VsyncThread ----------------------------
(***************************************************************************)
(* PageFlipEventHandler on top of HWCThread: a worker that waits for       *)
(* vblanks and reports them to the client's callback, while threads of the *)
(* client turn the reports on and off and replace the callback.  A         *)
(* critical section of spin_lock_ is one step, but for the callback, which *)
(* runs with the lock held.                                                *)
(***************************************************************************)
EXTENDS Naturals, FiniteSets

CONSTANTS
    Threads,       \* threads of the client
    Registrants,   \* those that register callbacks
    Callbacks, NoCallback,
    Workers,       \* the threads InitWorker may create
    MaxCalls,      \* bound: the calls the client makes
    ClientLocked,  \* the client holds a lock of its own around its calls and
                   \* takes it in its callback, as the test clients' hot plug
                   \* callbacks do
    Nobody

ASSUME ThreadsAssumption == Registrants \subseteq Threads
ASSUME CallbacksAssumption == NoCallback \notin Callbacks
ASSUME WorkersAssumption == IsFiniteSet(Workers)
ASSUME MaxCallsAssumption == MaxCalls \in Nat
ASSUME ClientLockedAssumption == ClientLocked \in BOOLEAN
ASSUME NobodyAssumption == Nobody \notin Threads

VARIABLES
    enabled,      \* enabled_
    callback,     \* callback_
    initialized,  \* HWCThread::initialized_
    started,      \* the workers that run
    at,           \* worker -> where its Routine is
    called,       \* the callback that runs
    call,         \* thread -> what it is doing: [op, on, fn]
    clientLock,   \* who holds the client's lock
    calls,        \* the calls made so far
    promise       \* what the calls that returned add up to: "on", "off" or "open"

vars == <<enabled, callback, initialized, started, at, called, call, clientLock, calls, promise>>

Idle == [op |-> "none", on |-> FALSE, fn |-> NoCallback]

(* enabled_ has no initial value.                                          *)
Init ==
    /\ enabled \in BOOLEAN
    /\ callback = NoCallback
    /\ initialized = FALSE
    /\ started = {}
    /\ at = [w \in Workers |-> "begin"]
    /\ called = NoCallback
    /\ call = [t \in Threads |-> Idle]
    /\ clientLock = Nobody
    /\ calls = 0
    /\ promise = "open"

-----------------------------------------------------------------------------
Word(on) == IF on THEN "on" ELSE "off"

(* A call to VSyncControl(on) has returned: nothing else being asked for,  *)
(* its wish stands.                                                        *)
Kept(t, on) ==
    IF \E u \in Threads \ {t} : call[u].op = "set" /\ call[u].on # on THEN "open" ELSE Word(on)

AlwaysFree == TRUE
LockFree == \A w \in started : at[w] # "callback"

MayCall(t) ==
    /\ call[t].op = "none" /\ calls < MaxCalls
    /\ ClientLocked => clientLock = Nobody

Enter(t, doing) ==
    /\ call' = [call EXCEPT ![t] = doing]
    /\ clientLock' = IF ClientLocked THEN t ELSE clientLock

Leave(t) ==
    /\ call' = [call EXCEPT ![t] = Idle]
    /\ clientLock' = IF ClientLocked THEN Nobody ELSE clientLock

(* VSyncControl compares enabled_ before it takes the lock.                *)
SkipsOther(on) == enabled # on
SkipsSame(on) == enabled = on

VSyncControl(t, on) ==
    /\ MayCall(t)
    /\ calls' = calls + 1
    /\ IF SkipsSame(on)
         THEN promise' = Kept(t, on) /\ UNCHANGED <<call, clientLock>>
         ELSE /\ Enter(t, [op |-> "set", on |-> on, fn |-> NoCallback])
              /\ promise' = IF promise = Word(~on) THEN "open" ELSE promise
    /\ UNCHANGED <<enabled, callback, initialized, started, at, called>>

SetEnabled(t) ==
    /\ call[t].op = "set"
    /\ LockFree
    /\ enabled' = call[t].on
    /\ promise' = Kept(t, call[t].on)
    /\ Leave(t)
    /\ UNCHANGED <<callback, initialized, started, at, called, calls>>

(* RegisterCallback replaces the callback under the lock and then sees to  *)
(* the worker without it.                                                  *)
RegisterCallback(t, fn) ==
    /\ MayCall(t)
    /\ calls' = calls + 1
    /\ Enter(t, [op |-> "register", on |-> FALSE, fn |-> fn])
    /\ UNCHANGED <<enabled, callback, initialized, started, at, called, promise>>

SetCallback(t) ==
    /\ call[t].op = "register"
    /\ LockFree
    /\ callback' = call[t].fn
    /\ call' = [call EXCEPT ![t].op = "worker"]
    /\ UNCHANGED <<enabled, initialized, started, at, called, clientLock, calls, promise>>

NeverInitialized == FALSE
IsInitialized == initialized

InitWorker(t) ==
    /\ call[t].op = "worker"
    /\ IF IsInitialized
         THEN Leave(t)
         ELSE call' = [call EXCEPT ![t].op = "create"] /\ UNCHANGED clientLock
    /\ UNCHANGED <<enabled, callback, initialized, started, at, called, calls, promise>>

(* The thread is created; when that fails RegisterCallback succeeds all    *)
(* the same.                                                               *)
CreateWorker(t) ==
    /\ call[t].op = "create"
    /\ \/ /\ \E w \in Workers \ started : started' = started \cup {w}
          /\ initialized' = TRUE
       \/ UNCHANGED <<started, initialized>>
    /\ Leave(t)
    /\ UNCHANGED <<enabled, callback, at, called, calls, promise>>

-----------------------------------------------------------------------------
(* Routine, over and over: look whether reports are on, wait for a vblank, *)
(* report it.                                                              *)
Look(w) ==
    /\ w \in started /\ at[w] = "begin"
    /\ LockFree
    /\ enabled
    /\ at' = [at EXCEPT ![w] = "wait"]
    /\ UNCHANGED <<enabled, callback, initialized, started, called, call, clientLock, calls, promise>>

Vblank(w) ==
    /\ w \in started /\ at[w] = "wait"
    /\ at' = [at EXCEPT ![w] = "vblank"]
    /\ UNCHANGED <<enabled, callback, initialized, started, called, call, clientLock, calls, promise>>

VblankFails(w) ==
    /\ w \in started /\ at[w] = "wait"
    /\ at' = [at EXCEPT ![w] = "begin"]
    /\ UNCHANGED <<enabled, callback, initialized, started, called, call, clientLock, calls, promise>>

(* HandlePageFlipEvent looks again, under the lock.                        *)
HasCallback == callback # NoCallback
Reports == enabled /\ callback # NoCallback

HandlePageFlipEvent(w) ==
    /\ w \in started /\ at[w] = "vblank"
    /\ LockFree
    /\ at' = [at EXCEPT ![w] = IF Reports THEN "callback" ELSE "begin"]
    /\ called' = IF Reports THEN callback ELSE called
    /\ UNCHANGED <<enabled, callback, initialized, started, call, clientLock, calls, promise>>

CallbackReturns(w) ==
    /\ w \in started /\ at[w] = "callback"
    /\ ClientLocked => clientLock = Nobody
    /\ at' = [at EXCEPT ![w] = "begin"]
    /\ UNCHANGED <<enabled, callback, initialized, started, called, call, clientLock, calls, promise>>

ClientCall(t) ==
    \/ \E on \in BOOLEAN : VSyncControl(t, on)
    \/ t \in Registrants /\ \E fn \in Callbacks : RegisterCallback(t, fn)

ClientStep(t) == SetEnabled(t) \/ SetCallback(t) \/ InitWorker(t) \/ CreateWorker(t)

WorkerStep(w) == Look(w) \/ Vblank(w) \/ VblankFails(w) \/ HandlePageFlipEvent(w) \/ CallbackReturns(w)

Next ==
    \/ \E t \in Threads : ClientCall(t) \/ ClientStep(t)
    \/ \E w \in Workers : WorkerStep(w)

Spec == Init /\ [][Next]_vars

(* Threads are scheduled, and vblanks do not fail for ever.  The client    *)
(* need not call, but a call it made goes on.                              *)
Fairness ==
    /\ \A w \in Workers : WF_vars(WorkerStep(w)) /\ SF_vars(Vblank(w))
    /\ \A t \in Threads : WF_vars(ClientStep(t))
FairSpec == Spec /\ Fairness

-----------------------------------------------------------------------------
(* Every variable holds a value of its type.                               *)
TypeOK ==
    /\ enabled \in BOOLEAN /\ initialized \in BOOLEAN
    /\ callback \in Callbacks \cup {NoCallback}
    /\ called \in Callbacks \cup {NoCallback}
    /\ started \subseteq Workers
    /\ at \in [Workers -> {"begin", "wait", "vblank", "callback"}]
    /\ call \in [Threads -> [op : {"none", "set", "register", "worker", "create"},
                             on : BOOLEAN, fn : Callbacks \cup {NoCallback}]]
    /\ clientLock \in Threads \cup {Nobody}
    /\ calls \in 0..MaxCalls
    /\ promise \in {"on", "off", "open"}

Reporting == \E w \in started : at[w] = "callback"

(* Once VSyncControl(false) has returned, and until someone asks for       *)
(* reports again, the callback does not run: a vblank that was waited for  *)
(* in the meantime is dropped, and a report under way is waited out.       *)
SilentWhenOff == promise = "off" => ~Reporting

(* A callback is never called once RegisterCallback has replaced it: its   *)
(* owner may go.                                                           *)
ReplacedIsNotCalled == Reporting => called = callback

(* A client that registers its callbacks from one thread gets one worker,  *)
(* and so each vblank once.                                                *)
OneWorker == Cardinality(started) <= 1

(* With reports on, a callback and a worker, the next report comes.        *)
ReportsCome ==
    promise = "on" /\ HasCallback /\ started # {} ~> Reporting \/ promise # "on"

(* The callback always returns: it needs nothing the handler holds.        *)
CallbackAlwaysReturns == \A w \in Workers : at[w] = "callback" ~> at[w] # "callback"
=============================================================================
