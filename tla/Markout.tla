------------------------------ MODULE Markout ------------------------------
(***************************************************************************)
(* backtest::MarkoutAnalyzer: for each fill and each horizon, how far the  *)
(* mid has moved in its favour.  Sums are kept per share; the same sums in *)
(* basis points, and the effective spread, differ by a factor of each fill *)
(* and are left out.                                                       *)
(***************************************************************************)
EXTENDS Integers, Sequences, FiniteSets, Functions

CONSTANT Horizons   \* config_.horizons_ns, a sequence

VARIABLES
    pending,    \* pending_: evaluations waiting for their time
    accum,      \* accum_, by horizon
    num_fills

markoutVars == <<pending, accum, num_fills>>

Accum == [count |-> 0, sum_per_share |-> 0, sum_weight |-> 0, wins |-> 0]
EmptyAccum == [h \in 1..Len(Horizons) |-> Accum]

Init ==
    /\ pending = {}
    /\ accum = EmptyAccum
    /\ num_fills = 0

\* Entries of the heap are told apart by the number of their fill.
RecordFill(ts, side, price, qty) ==
    /\ num_fills' = num_fills + 1
    /\ pending' = pending \cup
         { [fill |-> num_fills + 1, resolve_time |-> ts + Horizons[h], horizon_index |-> h,
            sign |-> IF side = "Buy" THEN 1 ELSE -1, fill_price |-> price, quantity |-> qty]
           : h \in 1..Len(Horizons) }
    /\ UNCHANGED accum

\* Variants named ..._ are plausible slips in the definition that follows them;
\* no specification uses them, the mutation checks do.
Elapsed_After(ts) == { p \in pending : p.resolve_time < ts }

Elapsed(ts) == { p \in pending : p.resolve_time <= ts }

\* Everything that has elapsed is resolved in order of its time; the order
\* does not show in the sums.  A fill without a price is dropped.
OnMid(ts, mid) ==
    LET resolved(h) == { p \in Elapsed(ts) : p.horizon_index = h /\ p.fill_price > 0 }
        perShare(p) == p.sign * (mid - p.fill_price)
    IN  /\ pending' = pending \ Elapsed(ts)
        /\ accum' = [h \in DOMAIN accum |->
              [count |-> accum[h].count + Cardinality(resolved(h)),
               sum_per_share |-> accum[h].sum_per_share + SumFunction([p \in resolved(h) |-> perShare(p)]),
               sum_weight |-> accum[h].sum_weight + SumFunction([p \in resolved(h) |-> p.quantity]),
               wins |-> accum[h].wins + Cardinality({ p \in resolved(h) : perShare(p) > 0 })]]
        /\ UNCHANGED num_fills

UnresolvedFills == Cardinality(pending)

Reset_KeepsPending ==
    /\ accum' = EmptyAccum
    /\ num_fills' = 0
    /\ UNCHANGED pending

Reset ==
    /\ pending' = {}
    /\ accum' = EmptyAccum
    /\ num_fills' = 0

MarkoutTyped ==
    /\ IsFiniteSet(pending)
    /\ \A p \in pending : p.fill \in 1..num_fills /\ p.horizon_index \in 1..Len(Horizons)
    /\ \A h \in 1..Len(Horizons) :
          /\ accum[h].count \in 0..num_fills
          /\ accum[h].wins \in 0..accum[h].count
          /\ accum[h].sum_per_share \in Int /\ accum[h].sum_weight \in Nat
=============================================================================
