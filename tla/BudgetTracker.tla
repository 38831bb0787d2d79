---------------------------- MODULE BudgetTracker ----------------------------
(***************************************************************************)
(* A BudgetTracker (runtime/budget.py) as a record and its operations as   *)
(* operators: any number of budgets, on several metrics and in two scopes. *)
(* Every operation holds the tracker's lock.  What a call spends is a      *)
(* natural number for each metric.  Nobody calls check: it is left out.    *)
(***************************************************************************)
EXTENDS Naturals, Sequences, FiniteSets

Metrics == {"cost_usd", "latency_ms", "tokens"}

Budgets == [metric : Metrics, limit : Nat, scope : {"process", "function"}]

Spendings == [Metrics -> Nat]

Trackers == [budgets : Seq(Budgets), totals : Spendings, record_count : Nat]

Nothing == [metric \in Metrics |-> 0]

NewTracker == [budgets |-> << >>, totals |-> Nothing, record_count |-> 0]

\* The budgets that `scope` selects, by place.
InScope(t, scope) == {i \in DOMAIN t.budgets : t.budgets[i].scope = scope}

OnMetric(t, scope, metric) == {i \in InScope(t, scope) : t.budgets[i].metric = metric}

\* record, up to its checks: each budget adds the value to its metric's one total.
Record(t, spent, scope) ==
    [t EXCEPT
        !.totals = [metric \in Metrics |->
            @[metric] + Cardinality(OnMetric(t, scope, metric)) * spent[metric]],
        !.record_count = @ + 1]

\* The checks of record: some budget of the scope is exceeded.
Exceeded(t, scope) ==
    \E i \in InScope(t, scope) : t.totals[t.budgets[i].metric] > t.budgets[i].limit

\* Mutant: the checks come before the totals are added to.
RecordRaisesBefore(t, spent, scope) == Exceeded(t, scope)

RecordRaises(t, spent, scope) == Exceeded(Record(t, spent, scope), scope)

\* reset keeps the budgets.
Reset(t) == [t EXCEPT !.totals = Nothing, !.record_count = 0]
=============================================================================
