------------------------------ MODULE TaskQueue ------------------------------
(***************************************************************************)
(* The bounded work queue of the task manager, as a value: a sequence of   *)
(* tasks, a hard limit MaxDepth and a soft limit BusyDepth.  A push never  *)
(* blocks: it answers with a QueueState and leaves the queue alone unless  *)
(* the answer is OK.  The consumer takes from the front.                   *)
(***************************************************************************)
EXTENDS Naturals, Sequences

CONSTANTS MaxDepth,     \* pushes are refused once this many tasks wait
          BusyDepth     \* throttleable pushes are refused above this depth

ASSUME /\ MaxDepth \in Nat \ {0}
       /\ BusyDepth \in Nat
       /\ BusyDepth < MaxDepth

QueueState == {"OK", "THROTTLED", "FULL"}

\* The answer to a push onto q.
Admission(q, allow_throttle) ==
    CASE Len(q) >= MaxDepth                  -> "FULL"
      [] allow_throttle /\ Len(q) > BusyDepth -> "THROTTLED"
      [] OTHER                                -> "OK"

push(q, task, allow_throttle) ==
    IF Admission(q, allow_throttle) = "OK" THEN Append(q, task) ELSE q

\* What the consumer of q takes next, and what is left.
front(q) == Head(q)
pop(q) == Tail(q)

=============================================================================
