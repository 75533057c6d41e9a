---------------------------- MODULE BlockingQueue ----------------------------
(***************************************************************************)
(* The queue of core/common/blocking_queue.h over the semaphore of         *)
(* core/common/semaphore.h, with any number of threads inside its calls.   *)
(*                                                                         *)
(* What a thread does under the mutex of the queue is one step, because    *)
(* every other thread just waits for that mutex.  The mutex of the         *)
(* semaphore is kept: try_acquire gives up when another thread holds it.   *)
(* front, back, empty and size read without the mutex, and copying and     *)
(* moving a queue while it is used is not synchronised; neither is         *)
(* modelled.                                                               *)
(***************************************************************************)
EXTENDS Integers, Sequences, FiniteSets

CONSTANTS
  Thread,    \* the threads that share the queue
  Value,     \* ValueT
  Nobody,    \* no thread
  MaxLength  \* bound of this model: so many elements are queued before nobody pushes

ASSUME ThreadAssumption == IsFiniteSet(Thread) /\ Nobody \notin Thread
ASSUME MaxLengthAssumption == MaxLength \in Nat

VARIABLES
  queue,   \* queue_
  avail,   \* avail_ of the semaphore
  holder,  \* who holds the mutex of the semaphore
  thread   \* the call each thread is in, and where it is there

queueVars == <<queue, avail, holder, thread>>

Call  == {"none", "push", "pop", "try_pop", "try_pop_for"}
Place ==
  {"out", "lock", "expired", "held", "late", "asleep",  \* acquire, and release as far as "held"
   "tell",                                              \* notify_one after release
   "pass", "fetch"}                                     \* notify_one after acquire, and pop

At(t, places)    == thread[t].at \in places
Within(t, calls) == thread[t].call \in calls
Go(t, place)     == thread' = [thread EXCEPT ![t].at = place]
Leave(t)         == thread' = [thread EXCEPT ![t] = [call |-> "none", at |-> "out"]]

QueueInit ==
  /\ queue = <<>> /\ avail = 0 /\ holder = Nobody
  /\ thread = [t \in Thread |-> [call |-> "none", at |-> "out"]]

-----------------------------------------------------------------------------
(* push: the element goes into the queue first and is released after that. *)

Push(t, v) ==
  /\ At(t, {"out"}) /\ Len(queue) < MaxLength
  /\ queue' = Append(queue, v)
  /\ thread' = [thread EXCEPT ![t] = [call |-> "push", at |-> "lock"]]
  /\ UNCHANGED <<avail, holder>>

\* pop, try_pop, try_pop_for and try_pop_until begin with the semaphore.
Begin(t, call) ==
  /\ At(t, {"out"})
  /\ thread' = [thread EXCEPT ![t] = [call |-> call, at |-> "lock"]]
  /\ UNCHANGED <<queue, avail, holder>>

-----------------------------------------------------------------------------
(* The semaphore. *)

Lock(t) ==
  /\ At(t, {"lock", "expired"}) /\ holder = Nobody
  /\ holder' = t
  /\ Go(t, IF At(t, {"lock"}) THEN "held" ELSE "late")
  /\ UNCHANGED <<queue, avail>>

\* try_acquire takes a mutex that is held for a semaphore that has nothing.
TryLockFails(t) ==
  /\ Within(t, {"try_pop"}) /\ At(t, {"lock"}) /\ holder # Nobody
  /\ Leave(t)
  /\ UNCHANGED <<queue, avail, holder>>

Release(t) ==
  /\ Within(t, {"push"}) /\ At(t, {"held"})
  /\ avail' = avail + 1 /\ holder' = Nobody
  /\ Go(t, "tell")
  /\ UNCHANGED queue

\* A slip: it does not matter what wait_for returns.
AcquireLate(t) ==
  /\ ~Within(t, {"push"}) /\ At(t, {"held", "late"}) /\ (avail > 0 \/ At(t, {"late"}))
  /\ avail' = avail - 1 /\ holder' = Nobody
  /\ Go(t, "pass")
  /\ UNCHANGED queue

Acquire(t) ==
  /\ ~Within(t, {"push"}) /\ At(t, {"held", "late"}) /\ avail > 0
  /\ avail' = avail - 1 /\ holder' = Nobody
  /\ Go(t, "pass")
  /\ UNCHANGED queue

\* Nothing is there: the wait gives the mutex up as it falls asleep.
FallAsleep(t) ==
  /\ Within(t, {"pop", "try_pop_for"}) /\ At(t, {"held"}) /\ avail = 0
  /\ holder' = Nobody
  /\ Go(t, "asleep")
  /\ UNCHANGED <<queue, avail>>

\* Nothing is there and nothing is waited for, any more.
GiveUp(t) ==
  /\ avail = 0
  /\ \/ Within(t, {"try_pop"}) /\ At(t, {"held"})
     \/ At(t, {"late"})
  /\ holder' = Nobody
  /\ Leave(t)
  /\ UNCHANGED <<queue, avail>>

\* The time of try_pop_for or try_pop_until is over; the predicate is asked once more.
Expire(t) ==
  /\ Within(t, {"try_pop_for"}) /\ At(t, {"asleep"})
  /\ Go(t, "expired")
  /\ UNCHANGED <<queue, avail, holder>>

\* A condition variable may wake up by itself.
WakeUp(t) ==
  /\ At(t, {"asleep"})
  /\ Go(t, "lock")
  /\ UNCHANGED <<queue, avail, holder>>

Asleep == {t \in Thread : At(t, {"asleep"})}

\* What t does after notify_one.
After(t) ==
  IF Within(t, {"push"}) THEN [call |-> "none", at |-> "out"] ELSE [thread[t] EXCEPT !.at = "fetch"]

\* A slip: release tells nobody.
NotifyOnAcquire(t) ==
  /\ At(t, {"tell", "pass"})
  /\ \/ thread' = [thread EXCEPT ![t] = After(t)] /\ (At(t, {"tell"}) \/ Asleep = {})
     \/ \E s \in Asleep :
          At(t, {"pass"}) /\ thread' = [thread EXCEPT ![t] = After(t), ![s].at = "lock"]
  /\ UNCHANGED <<queue, avail, holder>>

\* notify_one wakes one of those asleep, if there is one.
NotifyOne(t) ==
  /\ At(t, {"tell", "pass"})
  /\ \/ Asleep = {} /\ thread' = [thread EXCEPT ![t] = After(t)]
     \/ \E s \in Asleep : thread' = [thread EXCEPT ![t] = After(t), ![s].at = "lock"]
  /\ UNCHANGED <<queue, avail, holder>>

-----------------------------------------------------------------------------
\* What has been acquired is taken: queue_.front() of an empty queue is undefined.
Fetch(t) ==
  /\ At(t, {"fetch"}) /\ queue # <<>>
  /\ queue' = Tail(queue)
  /\ Leave(t)
  /\ UNCHANGED <<avail, holder>>

\* What a thread inside a call does next; when a wait ends is not up to the thread.
Step(t) ==
  \/ Lock(t) \/ TryLockFails(t) \/ Release(t) \/ Acquire(t) \/ FallAsleep(t) \/ GiveUp(t)
  \/ NotifyOne(t) \/ Fetch(t)

QueueNext ==
  \E t \in Thread :
    \/ \E v \in Value : Push(t, v)
    \/ \E call \in {"pop", "try_pop", "try_pop_for"} : Begin(t, call)
    \/ Step(t) \/ Expire(t) \/ WakeUp(t)

QueueSpec == QueueInit /\ [][QueueNext]_queueVars /\ \A t \in Thread : WF_queueVars(Step(t))

-----------------------------------------------------------------------------
Pending == {t \in Thread : Within(t, {"push"}) /\ At(t, {"lock", "held"})}
Claimed == {t \in Thread : At(t, {"pass", "fetch"})}

(* Every element is counted once: by the semaphore, by the push that has   *)
(* yet to release it, or by the pop that has acquired it.  So a pop finds  *)
(* an element whatever other pushes and pops there are, and nothing that   *)
(* has been pushed becomes out of reach.                                   *)
CountedOnce ==
  avail >= 0 /\ Len(queue) = avail + Cardinality(Pending) + Cardinality(Claimed)

(* Whoever sleeps while there is something to acquire will not do so for   *)
(* ever: either all are woken up, or others have acquired everything.      *)
(* Notifications reach only those asleep at that moment, and come after    *)
(* the mutex has been given up.                                            *)
SleepersWake == (Asleep # {} /\ avail > 0) ~> (Asleep = {} \/ avail = 0)
==============================================================================
