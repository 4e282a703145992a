------------------------------- MODULE RuntimeRules -------------------------------
(***************************************************************************)
(* commands/local_inference_ops.rs: the decision on a model load, from     *)
(* what the preflight measured of the host. It reads state and writes none. *)
(***************************************************************************)
EXTENDS Integers

CONSTANTS MiB,     \* bytes of a mebibyte
          MaxU64   \* the largest u64

ASSUME RuntimeRulesAssumption == MiB \in Nat \ {0} /\ MaxU64 \in Nat

Unknown == -1    \* None: a size or a limit that could not be measured; 0 is a measured one
----------------------------------------------------------------------------
(* preflight_local_inference_model_load on what was measured: each check may *)
(* raise the decision, none lowers it.                                       *)
Sat(n) == IF n > MaxU64 THEN MaxU64 ELSE n
SafeBytes(limit) == Sat(Sat(limit * MiB) * 9) \div 10

AfterPressure(e) ==
  CASE e.pressure = "critical" -> "deny"
    [] e.pressure \in {"warn", "unknown"} -> "warn"
    [] OTHER -> "allow"

AfterThermal(e) ==
  IF e.thermal \in {"serious", "critical"} THEN "deny"
  ELSE IF e.thermal = "fair" /\ AfterPressure(e) = "allow" THEN "warn"
  ELSE AfterPressure(e)

AfterTraining(e) ==
  IF e.training /\ AfterThermal(e) # "deny" THEN "warn" ELSE AfterThermal(e)

Decision(e) ==
  IF e.limit # Unknown /\ e.size # Unknown /\ e.size > SafeBytes(e.limit) THEN "deny"
  ELSE IF /\ e.limit # Unknown /\ e.size # Unknown
          /\ e.training /\ e.size > SafeBytes(e.limit) \div 2 /\ AfterTraining(e) # "deny"
       THEN "warn"
  ELSE AfterTraining(e)

PressureRank(p) == CASE p = "normal" -> 0 [] p = "critical" -> 2 [] OTHER -> 1
ThermalRank(t) == CASE t = "fair" -> 1 [] t \in {"serious", "critical"} -> 2 [] OTHER -> 0
DecisionRank(d) == CASE d = "allow" -> 0 [] d = "warn" -> 1 [] d = "deny" -> 2

(* Evidence that is worse in every respect; a size or a limit is compared *)
(* only when it is known.                                                 *)
Worse(e, f) ==
  /\ PressureRank(e.pressure) <= PressureRank(f.pressure)
  /\ ThermalRank(e.thermal) <= ThermalRank(f.thermal)
  /\ e.training => f.training
  /\ e.size <= f.size
  /\ e.limit = f.limit \/ (e.limit = Unknown) \/ (f.limit # Unknown /\ f.limit <= e.limit)
=============================================================================
