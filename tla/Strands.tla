------------------------------ MODULE Strands ------------------------------
(***************************************************************************)
(* The programs whose functions run on the threads that call               *)
(* io_context::run(): timers that count together up to a limit (timer3 and *)
(* timer5 one on one thread, timer4 two on two threads), and posts, with a *)
(* strand and without (strand_test_1).  The strand lets one of its         *)
(* functions run at a time; between the steps of one function every other  *)
(* thread may go on.                                                       *)
(***************************************************************************)
EXTENDS Programs, Integers, Sequences, FiniteSets

CONSTANTS Threads,   \* the threads that may call run()
          MainThread,\* the one that does when there is only one
          Limit,     \* what the counter counts to, 5 or 10 in the code
          Posts      \* how many functions are posted each way, 5 in the code

ASSUME StrandsAssumption == /\ MainThread \in Threads /\ IsFiniteSet(Threads)
                            /\ Limit \in Nat
                            /\ Posts \in Nat

VARIABLES
  waiting,   \* the timers in async_wait
  posted,    \* how many functions main() has posted
  guard,     \* main()'s io_service::work exists
  ready,     \* the functions any thread may run
  strand,    \* the functions the strand holds, in order
  runs,      \* runs[t]: the function t runs, or Nothing
  step,      \* step[t]: where t is, see Steps
  count_,    \* printer::count_
  printed,   \* history: what the timers' functions have printed
  started,   \* history: the strand's posts that have started
  ended      \* history: the posts whose function has returned

functions == <<posted, ready, strand, started, ended>>
threadVars == <<program, waiting, functions, guard, runs, step, count_, printed>>

\* A function: of timer number n, post number n, post number n through the strand.
Kinds == {"timer", "post", "strand post"}
Function(kind, n) == [kind |-> kind, n |-> n]
Functions == [kind : Kinds, n : 1..(Posts + 2)]
Nothing == Function("none", 0)

\* "run": in run(), with no function; "returned": run() has returned.
Steps == {"run", "test", "print", "count", "arm", "returned"}

ThreadTypeOK ==
  /\ waiting \subseteq {1, 2}
  /\ posted \in 0..(2 * Posts)
  /\ guard \in BOOLEAN
  /\ ready \subseteq Functions
  /\ strand \in Seq(Functions)
  /\ runs \in [Threads -> Functions \cup {Nothing}]
  /\ step \in [Threads -> Steps]
  /\ count_ \in Nat
  /\ printed \in Seq(Nat)
  /\ started \in Seq(1..Posts)
  /\ ended \subseteq Functions

Timers ==
  CASE program = "timer4" -> {1, 2}
    [] program \in {"timer3", "timer5"} -> {1}
    [] OTHER -> {}

-----------------------------------------------------------------------------
(* The steps of the code that the actions share, and, before each of them,   *)
(* the faults a change of that code might bring, to try the properties with: *)
(* no action uses one.                                                       *)

\* Fault: async_wait is given the function without bind_executor.
NoStrand(f) == FALSE

\* The function was given to the strand, by bind_executor or by strand.post.
\* timer3 and timer5 have none.
Bound(f) == f.kind = "strand post" \/ program = "timer4"

\* No thread runs a function of the strand.
StrandFree == \A t \in Threads : runs[t] = Nothing \/ ~Bound(runs[t])

\* A function can run: io_context queues it, or the strand does.
Queue(f) ==
  IF Bound(f) THEN strand' = Append(strand, f) /\ UNCHANGED ready
              ELSE ready' = ready \cup {f} /\ UNCHANGED strand

\* Fault: main() makes no io_service::work.
NoGuard == FALSE

\* strand_test_1 starts its threads before it posts anything.
Guarded == program = "strand_test_1"

\* What keeps run() from returning.
Work ==
  \/ waiting # {} \/ guard
  \/ ready # {} \/ strand # <<>>
  \/ \E t \in Threads : runs[t] # Nothing

\* Fault: main() forgets worker.reset().
NeverReset == TRUE

\* There is no io_service::work after worker.reset().
AfterReset == FALSE

\* The number that main() posts next, each way Posts of them, in order.
NextPost ==
  IF posted < Posts THEN Function("post", posted + 1)
                    ELSE Function("strand post", posted + 1 - Posts)

\* The threads that call run().
Runners ==
  CASE program \in {"timer3", "timer5"} -> {MainThread}
    [] program \in {"timer4", "strand_test_1"} -> Threads
    [] OTHER -> {}

-----------------------------------------------------------------------------
ThreadInit ==
  /\ ProgramStarts
  /\ waiting = Timers
  /\ posted = 0
  /\ guard = Guarded
  /\ ready = {} /\ strand = <<>>
  /\ runs = [t \in Threads |-> Nothing]
  /\ step = [t \in Threads |-> IF t \in Runners THEN "run" ELSE "returned"]
  /\ count_ = 0
  /\ printed = <<>> /\ started = <<>> /\ ended = {}

\* The timer number n expires, whenever that is.
Expires(n) ==
  /\ n \in waiting
  /\ waiting' = waiting \ {n}
  /\ Queue(Function("timer", n))
  /\ UNCHANGED <<program, posted, guard, runs, step, count_, printed, started, ended>>

\* main() posts the next function.
Post ==
  /\ guard /\ posted < 2 * Posts
  /\ posted' = posted + 1
  /\ Queue(NextPost)
  /\ UNCHANGED <<program, waiting, guard, runs, step, count_, printed, started, ended>>

\* worker.reset(), when everything has been posted.
ResetWork ==
  /\ guard /\ posted = 2 * Posts
  /\ guard' = AfterReset
  /\ UNCHANGED <<program, waiting, functions, runs, step, count_, printed>>

\* t begins with f.
Begins(t, f) ==
  /\ step[t] = "run"
  /\ runs' = [runs EXCEPT ![t] = f]
  /\ step' = [step EXCEPT ![t] = IF f.kind = "timer" THEN "test" ELSE "print"]
  /\ started' = IF f.kind = "strand post" THEN Append(started, f.n) ELSE started
  /\ UNCHANGED <<program, waiting, posted, guard, count_, printed, ended>>

RunReady(t) ==
  /\ \E f \in ready : Begins(t, f) /\ ready' = ready \ {f}
  /\ UNCHANGED strand

RunStrand(t) ==
  /\ strand # <<>> /\ StrandFree
  /\ Begins(t, Head(strand))
  /\ strand' = Tail(strand)
  /\ UNCHANGED ready

\* async_send_handler: it prints its number and returns.
PrintPost(t) ==
  /\ step[t] = "print" /\ runs[t].kind # "timer"
  /\ ended' = ended \cup {runs[t]}
  /\ runs' = [runs EXCEPT ![t] = Nothing]
  /\ step' = [step EXCEPT ![t] = "run"]
  /\ UNCHANGED <<program, waiting, posted, guard, ready, strand, count_, printed, started>>

\* The function of a timer goes on to next.
GoesOn(t, next) ==
  /\ step' = [step EXCEPT ![t] = next]
  /\ UNCHANGED <<program, functions, guard>>

\* print, print1, print2: if (count_ < Limit), else they return.
TestCount(t) ==
  /\ step[t] = "test"
  /\ IF count_ < Limit
     THEN GoesOn(t, "print") /\ UNCHANGED runs
     ELSE GoesOn(t, "run") /\ runs' = [runs EXCEPT ![t] = Nothing]
  /\ UNCHANGED <<waiting, count_, printed>>

PrintCount(t) ==
  /\ step[t] = "print" /\ runs[t].kind = "timer"
  /\ printed' = Append(printed, count_)
  /\ GoesOn(t, "count")
  /\ UNCHANGED <<waiting, runs, count_>>

\* ++count_
Count(t) ==
  /\ step[t] = "count"
  /\ count_' = count_ + 1
  /\ GoesOn(t, "arm")
  /\ UNCHANGED <<waiting, runs, printed>>

\* expires_at() and async_wait().
ArmTimer(t) ==
  /\ step[t] = "arm"
  /\ waiting' = waiting \cup {runs[t].n}
  /\ GoesOn(t, "run")
  /\ runs' = [runs EXCEPT ![t] = Nothing]
  /\ UNCHANGED <<count_, printed>>

\* run() returns: there is nothing left to do.
RunReturns(t) ==
  /\ step[t] = "run" /\ ~Work
  /\ step' = [step EXCEPT ![t] = "returned"]
  /\ UNCHANGED <<program, waiting, functions, guard, runs, count_, printed>>

ThreadStep(t) ==
  \/ RunReady(t) \/ RunStrand(t)
  \/ PrintPost(t)
  \/ TestCount(t) \/ PrintCount(t) \/ Count(t) \/ ArmTimer(t)
  \/ RunReturns(t)

ThreadNext ==
  \/ \E n \in {1, 2} : Expires(n)
  \/ Post \/ ResetWork
  \/ \E t \in Threads : ThreadStep(t)

ThreadSpec == ThreadInit /\ [][ThreadNext]_threadVars

\* The timers expire, main() goes on, and each thread runs what there is to run.
ThreadFairness ==
  /\ \A n \in {1, 2} : WF_threadVars(Expires(n))
  /\ WF_threadVars(Post \/ ResetWork)
  /\ \A t \in Threads : WF_threadVars(ThreadStep(t))

ThreadFairSpec == ThreadSpec /\ ThreadFairness

-----------------------------------------------------------------------------
(* Safety.                                                                 *)

AllReturned == \A t \in Threads : step[t] = "returned"

\* A number has been printed and not been counted yet.
Uncounted == IF \E t \in Threads : step[t] = "count" THEN 1 ELSE 0

\* However the two threads of timer4 interleave, the timers' functions print every
\* number once, in order and only below the limit: the strand keeps the test, the
\* output and the increment of count_ together.  No run() returns before the last
\* number has been printed ("Final count is").
CountsInOrder ==
  /\ \A i \in 1..Len(printed) : printed[i] = i - 1
  /\ Len(printed) = count_ + Uncounted
  /\ Len(printed) <= Limit
  /\ Timers # {} /\ (\E t \in Runners : step[t] = "returned") => count_ = Limit

\* "It will execute the handlers sequentially in that order" (strand_test_1.cpp:64):
\* the strand's posts start in the order they were posted, each after the one
\* before has returned.  No thread leaves run() before all posts have run: it may
\* have called run() before the first one was there.
StrandKeepsOrder ==
  /\ \A i \in 1..Len(started) : started[i] = i
  /\ \A i \in 1..(Len(started) - 1) : Function("strand post", i) \in ended
  /\ program = "strand_test_1" /\ (\E t \in Runners : step[t] = "returned") =>
       ended = [kind : {"post", "strand post"}, n : 1..Posts]

-----------------------------------------------------------------------------
(* Liveness, under ThreadFairness.                                         *)

\* run() returns on every thread, so the program comes to its end.
ProgramEnds == <>AllReturned
=============================================================================
