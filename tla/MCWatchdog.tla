----------------------------- MODULE MCWatchdog ----------------------------
(* The program, its watchdog and room for what replaces them.                *)
EXTENDS Watchdog

\* Bound: two crashes, or a call that fails or a late period.
CrashesOrDisturbance == (0..2) \X {0} \cup {<<0, 1>>}

\* Bound: nothing goes wrong.
NoFaults == {<<0, 0>>}
=============================================================================
