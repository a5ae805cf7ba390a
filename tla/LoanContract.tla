---------------------------- MODULE LoanContract ----------------------------
(***************************************************************************)
(* What the owner of a dashboard is promised about the runners lent to one *)
(* peer (control/federation.py, its opening words and those of tick): a    *)
(* loan is given within the quota, a runner of it is there only from then  *)
(* on, and its place is free again only when no runner of it is there.     *)
(***************************************************************************)
EXTENDS Naturals, FiniteSets

CONSTANTS Requests

VARIABLES
  loan,   \* of each request: "none", "asked", "refused", "given", "ending", "over"
  there,  \* requests of which a runner is there
  quota   \* runners the peer may have

loanVars == <<loan, there, quota>>

LoanInit ==
  /\ loan = [q \in Requests |-> "none"] /\ there = {} /\ quota \in Nat

Taken(loans) == Cardinality({q \in Requests : loans[q] \in {"given", "ending"}})

\* What may become of a loan; one that is ending is never given again.
Goes(q) ==
  <<loan[q], loan'[q]>> \in
    {<<"none", "asked">>, <<"asked", "refused">>, <<"asked", "given">>,
     <<"given", "ending">>, <<"ending", "over">>}

\* Several loans may end at once; one at a time is given.
LoanStep ==
  /\ \A q \in Requests : loan'[q] = loan[q] \/ Goes(q)
  /\ \A q \in Requests :
       loan[q] = "asked" /\ loan'[q] = "given" => Taken(loan') = Taken(loan) + 1 /\ Taken(loan') <= quota
  /\ \A q \in Requests : loan[q] = "ending" /\ loan'[q] = "over" => q \notin there'

RunnerStep ==
  /\ \A q \in there' \ there : loan[q] = "given" /\ loan'[q] = "given"
  /\ \A q \in there \ there' : loan[q] \in {"given", "ending"}

\* The owner may change the quota, which gives nothing by itself.
LoanNext ==
  /\ LoanStep /\ RunnerStep
  /\ quota' # quota => there' = there /\ \A q \in Requests : loan'[q] = "given" => loan[q] = "given"

LoanSpec == LoanInit /\ [][LoanNext]_loanVars
=============================================================================
