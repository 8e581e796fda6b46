----------------------------- MODULE JobLifecycle -----------------------------
(***************************************************************************)
(* What a background job promises to the client that polls it, whatever    *)
(* coroutine, thread and lock sit behind it.  A job comes to rest when     *)
(* nothing that could still write its status is under way; its outcome     *)
(* never changes after that.  A completed job has its result; a result     *)
(* without completion, or an outcome "cancelled", needs somebody who asked *)
(* to cancel.  A job nobody asked to cancel does come to rest.  One that   *)
(* was asked need not: cancelling does not stop the thread, and nobody     *)
(* waits for a thread whose task was cancelled.                            *)
(***************************************************************************)
CONSTANT Jobs

VARIABLES
    phase,      \* "new", "active" or the outcome the job came to rest with
    asked,      \* jobs somebody asked to cancel
    answered    \* jobs whose result can be read

lifecycle == <<phase, asked, answered>>

Outcomes == {"completed", "failed", "cancelled"}

Init ==
    /\ phase = [j \in Jobs |-> "new"]
    /\ asked = {} /\ answered = {}

Submit(j) ==
    /\ phase[j] = "new"
    /\ phase' = [phase EXCEPT ![j] = "active"]
    /\ UNCHANGED <<asked, answered>>

Ask(j) ==
    /\ phase[j] = "active" /\ j \notin asked
    /\ asked' = asked \cup {j}
    /\ UNCHANGED <<phase, answered>>

(* The result of an active job appears; with a cancellation on its way it  *)
(* may be there although the job is not completed.                         *)
Answer(j) ==
    /\ phase[j] = "active" /\ j \notin answered
    /\ answered' = answered \cup {j}
    /\ UNCHANGED <<phase, asked>>

Settle(j) ==
    /\ phase[j] = "active"
    /\ \E o \in Outcomes :
          /\ o = "cancelled" => j \in asked
          /\ o = "completed" => j \in answered
          /\ j \in answered => o = "completed" \/ j \in asked
          /\ phase' = [phase EXCEPT ![j] = o]
    /\ UNCHANGED <<asked, answered>>

(* The last write of the worker stores the result and ends the job. *)
AnswerAndSettle(j) ==
    /\ phase[j] = "active" /\ j \notin answered
    /\ answered' = answered \cup {j}
    /\ phase' = [phase EXCEPT ![j] = "completed"]
    /\ UNCHANGED asked

Next == \E j \in Jobs :
    Submit(j) \/ Ask(j) \/ Answer(j) \/ Settle(j) \/ AnswerAndSettle(j)

Fairness == \A j \in Jobs :
    WF_lifecycle(j \notin asked /\ (Settle(j) \/ AnswerAndSettle(j)))

(* What may happen, and with it what must. *)
SafeSpec == Init /\ [][Next]_lifecycle

Spec == SafeSpec /\ Fairness

=============================================================================
