---------------------------- MODULE DrainBarrier ----------------------------
(***************************************************************************)
(* What a drain barrier promises, without saying how: a set of admitted    *)
(* sends that grows only while the barrier is open, and one verdict.  The  *)
(* verdict 0 may be given only when nothing is outstanding; any other      *)
(* verdict is an upper bound on what is.                                   *)
(*                                                                         *)
(* DrainGate shows that scenario_drain.go implements this.                 *)
(***************************************************************************)
EXTENDS Integers

CONSTANTS Fires,        \* the goroutines that may send
          Size(_)       \* how many fires a set of them holds
VARIABLES open, outstanding, verdict

avars == <<open, outstanding, verdict>>

\* The barrier has not answered yet.
Unanswered == -1

AInit == /\ open = TRUE
         /\ outstanding = {}
         /\ verdict = Unanswered

Enter(f) == /\ open
            /\ f \notin outstanding
            /\ outstanding' = outstanding \cup {f}
            /\ UNCHANGED <<open, verdict>>

Exit(f) == /\ f \in outstanding
           /\ outstanding' = outstanding \ {f}
           /\ UNCHANGED <<open, verdict>>

Shut == /\ open' = FALSE
        /\ UNCHANGED <<outstanding, verdict>>

Answer == /\ ~open
          /\ verdict = Unanswered
          /\ \/ outstanding = {} /\ verdict' = 0
             \/ /\ verdict' \in Nat \ {0}
                /\ Size(outstanding) <= verdict'
          /\ UNCHANGED <<open, outstanding>>

ANext == \/ \E f \in Fires : Enter(f) \/ Exit(f)
         \/ Shut
         \/ Answer

ASpec == AInit /\ [][ANext]_avars
=============================================================================
