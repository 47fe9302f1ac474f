----------------------------- MODULE WorkQueue -----------------------------
(***************************************************************************)
(* What internal/queue promises to the code that pushes work on it,        *)
(* without the table, the claims or the restarts that implement it:        *)
(*                                                                         *)
(*   - a job is in the hands of at most one worker, and a worker has at    *)
(*     most one job;                                                       *)
(*   - a job whose worker lets go of it without an answer (a crash, an     *)
(*     answer that could not be written) is not lost: it is abandoned, and *)
(*     abandoned work is taken up again;                                   *)
(*   - finished and failed work is never touched again.                    *)
(***************************************************************************)
EXTENDS Naturals

CONSTANTS Job,      \* the identities of pieces of work
          Worker    \* the hands that do it

VARIABLES state,    \* [Job -> State]
          doing     \* [Worker -> SUBSET Job], the job each worker has

vars == <<state, doing>>

State == {"new", "waiting", "active", "abandoned", "finished", "failed"}

Init == /\ state = [j \in Job |-> "new"]
        /\ doing = [w \in Worker |-> {}]

Submit(j) == /\ state[j] = "new"
             /\ state' = [state EXCEPT ![j] = "waiting"]
             /\ UNCHANGED doing

\* A free worker takes waiting work.
Take(w, j) == /\ state[j] = "waiting"
              /\ doing[w] = {}
              /\ state' = [state EXCEPT ![j] = "active"]
              /\ doing' = [doing EXCEPT ![w] = {j}]

\* The worker's answer: done, failed, or "again later".
Answer(w, j) == /\ doing[w] = {j}
                /\ \E s \in {"finished", "failed", "waiting"} :
                      state' = [state EXCEPT ![j] = s]
                /\ doing' = [doing EXCEPT ![w] = {}]

\* The worker lets go of the job and nobody hears what came of it.
LetGo(w, j) == /\ doing[w] = {j}
               /\ state' = [state EXCEPT ![j] = "abandoned"]
               /\ doing' = [doing EXCEPT ![w] = {}]

\* Waiting work that a cancelled claim took off the queue with no worker on it.
Mislay(j) == /\ state[j] = "waiting"
             /\ state' = [state EXCEPT ![j] = "abandoned"]
             /\ UNCHANGED doing

\* The process dies: every worker lets go at once.
LetGoAll == /\ state' = [j \in Job |-> IF \E w \in Worker : j \in doing[w]
                                       THEN "abandoned" ELSE state[j]]
            /\ doing' = [w \in Worker |-> {}]

\* The next process takes up whatever was abandoned.
TakeUpAgain == /\ state' = [j \in Job |-> IF state[j] = "abandoned"
                                          THEN "waiting" ELSE state[j]]
               /\ \A w \in Worker : doing[w] = {}
               /\ UNCHANGED doing

Next == \/ \E j \in Job : Submit(j) \/ Mislay(j)
        \/ \E w \in Worker, j \in Job : Take(w, j) \/ Answer(w, j) \/ LetGo(w, j)
        \/ LetGoAll
        \/ TakeUpAgain

Spec == Init /\ [][Next]_vars
=============================================================================
