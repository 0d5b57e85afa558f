-------------------------------- MODULE Gate --------------------------------
(***************************************************************************)
(* The verdict of ops/promotion_gate.py, as pure operators over what the   *)
(* loaders could read of the two strategies.  Ratios are in hundredths: a  *)
(* margin of 105 is the code's 1.05.  A workspace's artifacts are          *)
(*                                                                         *)
(*   [confs : a set of conf*.yaml, see below,                              *)
(*    ic   : an information coefficient or Missing,                        *)
(*    days : the dates of its daily returns, {} when ret.pkl is unusable,  *)
(*    ir   : [sets of dates -> an annualized IR, Missing when degenerate], *)
(*    mdd  : [sets of dates -> a maximum drawdown, at most 0]],            *)
(*                                                                         *)
(* a conf is [name, readable, market, strategy, costs], strategy being the *)
(* pair of topk and n_drop, each of the last three a value, Absent or Bad, *)
(* and the evidence of the confirmation window is                          *)
(*                                                                         *)
(*   [error : BOOLEAN, candidate, incumbent : an IR or Missing].           *)
(***************************************************************************)
EXTENDS Integers, FiniteSets

CONSTANTS
  IrMargin,       \* ir_margin: 105
  MddTolerance,   \* mdd_tolerance: 125
  MinIc,          \* min_ic: 0
  ConfirmMargin,  \* confirm_ir_margin: 100
  MinOverlap,     \* min_overlap_days: 126
  AllowFirst,     \* allow_first: FALSE
  Missing,        \* what an artifact could not provide
  Absent,         \* what a conf does not say
  Bad             \* what a conf says and nobody can use

ASSUME GateAssumption ==
  /\ IrMargin \in Nat /\ MddTolerance \in Nat /\ ConfirmMargin \in Nat
  /\ MinIc \in Int
  /\ MinOverlap \in Nat \ {0}
  /\ AllowFirst \in BOOLEAN
  /\ Missing \notin Int
  /\ Absent # Bad

Abs(n) == IF n < 0 THEN -n ELSE n

-----------------------------------------------------------------------------
(* Loading: load_metric_bundle, and the conf readers of execution/signal.py *)

\* The snapshot's own conf has no say in the market.
RefreshConf == "conf_pred_refresh.yaml"

\* The confs that say something agree on it, all of them can be read.
Agreed(confs, values) ==
  LET found == values \ {Absent}
  IN IF /\ \A c \in confs : c.readable
        /\ Bad \notin found
        /\ Cardinality(found) = 1
     THEN CHOOSE v \in found : TRUE
     ELSE Missing

\* load_market, load_strategy_params, load_cost_params
Market(confs) ==
  Agreed(confs, {c.market : c \in {d \in confs : d.name # RefreshConf}})
Strategy(confs) == Agreed(confs, {c.strategy : c \in confs})
Costs(confs) == Agreed(confs, {c.costs : c \in confs})

\* load_metric_bundle: every field degrades for itself.
BundleOf(w) ==
  LET strategy == Strategy(w.confs)
  IN [market |-> Market(w.confs),
      topk   |-> IF strategy = Missing THEN Missing ELSE strategy[1],
      ndrop  |-> IF strategy = Missing THEN Missing ELSE strategy[2],
      costs  |-> Costs(w.confs),
      ic |-> w.ic, days |-> w.days, ir |-> w.ir, mdd |-> w.mdd]

-----------------------------------------------------------------------------
(* Parity *)

\* The configuration inputs that must never drift silently.
Parameters(b) == <<b.market, b.topk, b.ndrop, b.costs>>

\* _check_parity: equal on both sides, and known on both sides.
ParityOk(c, i) ==
  \A k \in 1 .. 4 :
    /\ Parameters(c)[k] # Missing
    /\ Parameters(c)[k] = Parameters(i)[k]

-----------------------------------------------------------------------------
(* The legs *)

Shared(c, i) == c.days \cap i.days

\* align_overlap: both series exist and share enough trading days.
Aligned(c, i) ==
  /\ c.days # {}
  /\ i.days # {}
  /\ Cardinality(Shared(c, i)) >= MinOverlap

Exceeds(ours, theirs, margin) ==
  /\ ours # Missing
  /\ theirs # Missing
  /\ 100 * ours > theirs * margin

\* _ir_criterion: the IRs of both over the days both were measured on.
IrLeg(c, i) ==
  /\ Aligned(c, i)
  /\ Exceeds(c.ir[Shared(c, i)], i.ir[Shared(c, i)], IrMargin)

\* _mdd_criterion: magnitudes, and exactly at the tolerance passes.
MddLeg(c, i) ==
  /\ Aligned(c, i)
  /\ 100 * Abs(c.mdd[Shared(c, i)]) <= Abs(i.mdd[Shared(c, i)]) * MddTolerance

\* _ic_criterion
IcLeg(c) == c.ic # Missing /\ c.ic > MinIc

\* Faulty variant: the confirmation only has to have been evaluated.
ConfirmLegAvailable(e) == ~e.error /\ e.candidate # Missing /\ e.incumbent # Missing

\* _confirmation_criterion: anything short of two computed IRs fails.
ConfirmLeg(e) == ~e.error /\ Exceeds(e.candidate, e.incumbent, ConfirmMargin)

-----------------------------------------------------------------------------
(* The verdict *)

\* evaluate_gate with nothing promoted.
PassesFirst(c) == AllowFirst /\ IcLeg(c)

\* evaluate_gate against an incumbent: parity and every criterion.
Passes(c, i, e) ==
  /\ ParityOk(c, i)
  /\ IrLeg(c, i)
  /\ MddLeg(c, i)
  /\ IcLeg(c)
  /\ ConfirmLeg(e)
=============================================================================
