--------------------------- MODULE RequestOutcomes ---------------------------
(***************************************************************************)
(* What whoever asks for something under a key of his own may rely on,     *)
(* however often he repeats the request, and whoever else repeats it       *)
(* (control/operations.py, its opening words).                             *)
(***************************************************************************)
EXTENDS Naturals

CONSTANTS Keys

VARIABLES
  fate,  \* what became of the request with each key
  took,  \* how often the request with each key has taken effect
  told   \* what was answered so far: pairs of a key and an answer

outcomeVars == <<fate, took, told>>

OutcomesInit ==
  /\ fate = [k \in Keys |-> "new"]
  /\ took = [k \in Keys |-> 0] /\ told = {}

Begin(k) ==
  /\ fate[k] = "new"
  /\ fate' = [fate EXCEPT ![k] = "open"]
  /\ UNCHANGED <<took, told>>

\* It takes effect once, while it is being carried out.
TakeEffect(k) ==
  /\ fate[k] = "open" /\ took[k] = 0
  /\ took' = [took EXCEPT ![k] = 1]
  /\ UNCHANGED <<fate, told>>

\* It succeeds only when it has taken effect, and its outcome is for good.
Decide(k, outcome) ==
  /\ fate[k] = "open"
  /\ outcome = "succeeded" => took[k] = 1
  /\ fate' = [fate EXCEPT ![k] = outcome]
  /\ UNCHANGED <<took, told>>

\* Whoever asks is told how it stands.
Tell(k) ==
  /\ fate[k] # "new"
  /\ told' = told \cup {<<k, fate[k]>>}
  /\ UNCHANGED <<fate, took>>

OutcomesNext ==
  \E k \in Keys :
    \/ Begin(k) \/ TakeEffect(k) \/ Tell(k)
    \/ \E outcome \in {"succeeded", "failed"} : Decide(k, outcome)

OutcomesSpec == OutcomesInit /\ [][OutcomesNext]_outcomeVars
=============================================================================
