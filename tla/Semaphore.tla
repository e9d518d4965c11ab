----------------------------- MODULE Semaphore -----------------------------
(***************************************************************************)
(* Semaphore on Linux: a count and a futex, with one thread that waits on  *)
(* it and any number that post.  Post() wakes the sleeper only if the      *)
(* count was zero; Wait() takes from a count that is not zero, and sleeps  *)
(* only if the kernel still finds zero.                                    *)
(***************************************************************************)
EXTENDS Integers

VARIABLES
    count,   \* libxr_linux_futex_semaphore.count
    waiter   \* where the waiting thread is: in Wait(), or away

WaiterPlaces == {"try", "futex", "asleep", "away"}

SemaphoreInit == count = 0 /\ waiter = "try"

\* Post(): the addition, and the wake that follows it if there is one.
WakeIfMany(prev) == prev > 1  \* mutant: wakes only for a count that was not zero
NeedsWake(prev) == prev = 0
Add == count' = count + 1
Wake == waiter' = IF waiter = "asleep" THEN "try" ELSE waiter

\* Wait() takes one and returns.
TakeOne == waiter = "try" /\ count > 0 /\ count' = count - 1 /\ waiter' = "away"

FindNone == waiter = "try" /\ count = 0 /\ waiter' = "futex" /\ UNCHANGED count

FutexWait ==
    /\ waiter = "futex" /\ waiter' = IF count = 0 THEN "asleep" ELSE "try"
    /\ UNCHANGED count

\* EINTR.
Interrupted == waiter = "asleep" /\ waiter' = "try" /\ UNCHANGED count
=============================================================================
