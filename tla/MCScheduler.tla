---------------------------- MODULE MCScheduler ----------------------------
\* The instances of Scheduler that TLC checks.  Four threads are enough for a
\* first, a last and two middle ones, each of which may finish while any other
\* is suspended.
EXTENDS Scheduler

\* SIGALRM strikes where it does no harm: in a thread outside scheduler_create(),
\* before line 109 tests prev, and between that test and the loads of line 111 ...
HarmlessAlarms == {"run", "unlink", "l111"}

\* ... or anywhere.
AllAlarms == {"pick", "dispatch", "run", "l116", "l117", "l118", "l145", "returned"}
             \cup Creating \cup Unlinking
=============================================================================
