------------------------------ MODULE Programs ------------------------------
(***************************************************************************)
(* The small programs of the repository, of which one is started: those    *)
(* that serve on one thread are described in SmallServers, those that time *)
(* or post functions, on one or several threads, in Strands.               *)
(***************************************************************************)

VARIABLE program   \* which program it is

\* cpp_03_example/allocation_server.cpp, reference_counted.cpp and daemon.cpp,
\* server/daytime3.cpp, daytime6.cpp and daytime7.cpp.
Servers == {"allocation_server", "reference_counted", "daytime3", "daytime6",
            "daytime7", "daemon"}

\* timer/timer3.cpp, timer4.cpp and timer5.cpp, and strand_test_1.cpp.
Threaded == {"timer3", "timer4", "timer5", "strand_test_1"}

ProgramStarts == program \in Servers \cup Threaded
=============================================================================
