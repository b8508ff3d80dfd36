----------------------------- MODULE MCOperations -----------------------------
(***************************************************************************)
(* Long work for TLC: a behaviour is one of the server's operations, or of *)
(* the estimator the longest of them, a lens fit, runs.                    *)
(***************************************************************************)
EXTENDS ServerOperations, LensEstimator

VARIABLE part

TwoLayers == <<1, 2>>

\* Whatever a device may meet.
AllFaults == [cpu |-> Faults, mps |-> Faults, cuda |-> Faults]

MCInit ==
  /\ Init /\ EstInit
  /\ part \in {"server", "estimator"}
  /\ part = "server" => device = "cpu" /\ requested = "auto" /\ base = 0

Serve(A) == part = "server" /\ A /\ UNCHANGED <<part, estVars>>
\* Bound: a fit is torn once.
Tearing == step = "caught" /\ (pass.written > 0 \/ (pass.bad /\ pass.upto > span.row))
Estimate == /\ part = "estimator" /\ EstNext
            /\ torn = Exact(0) \/ (torn' = torn /\ ~Tearing')
            /\ UNCHANGED <<part, vars>>

\* Bound: at most one operation ends without a word on how, and none where the
\* lens is prepared or the server stops.
Unheard == {r \in Requests : op[r].end \in {"interrupted", "unencoded"}}
Heard == \/ Unheard = {}
         \/ /\ Cardinality(Unheard) = 1 /\ server = "up"
            /\ \A p \in Preps : prep[p] = [pc |-> "idle", cancel |-> FALSE, end |-> None]
MCNext == (Serve(Next) /\ Heard') \/ Estimate

MCSpec == MCInit /\ [][MCNext]_<<part, vars, estVars>>
               /\ WF_<<part, vars, estVars>>(Serve(Progress))
               /\ WF_<<part, vars, estVars>>(Estimate)

\* Nothing is counted twice or forgotten: a prompt in the sums of a fit, a
\* payload in the budget of the ledger.
AccountsAreExact == SumsAreExact /\ BudgetIsKept

\* Whatever waits, runs or backs off is over at last: a busy server comes to
\* rest, and the estimator's fit ends, fitted or refused.
WorkEnds == WorkIsFinished /\ (part = "estimator" => FitEnds)
=============================================================================
