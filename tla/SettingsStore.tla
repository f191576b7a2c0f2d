---------------------------- MODULE SettingsStore ----------------------------
(***************************************************************************)
(* The policy a user sets (mktcore/settings_store.py, table app_settings,  *)
(* and the PUT handlers of api/v1.py).  What is not set is unset: nothing  *)
(* is guessed.  Every setter is a transaction of its own; one handler      *)
(* calls two of them.  Ratios are basis points.                            *)
(***************************************************************************)
EXTENDS Integers, FiniteSets

CONSTANTS
    Unset,
    Numbers,    \* numbers a request may give
    DefaultHigh, DefaultLow, DefaultMinLines, DefaultCell

ASSUME SettingsAssumption ==
    /\ Unset \notin Int /\ Numbers \subseteq Int
    /\ DefaultLow \in Nat /\ DefaultHigh \in Nat /\ DefaultMinLines \in Nat \ {0}
    /\ DefaultLow < DefaultHigh /\ DefaultHigh <= 10000

MaxFloor == 10000
MaxCapacity == 100000
MaxRung == 5000
MaxRungs == 8

Keys7 == {"floor", "capacity", "ladder", "high", "low", "min_lines", "cell"}

VARIABLE
    settings    \* app_settings: key -> value, Unset if there is no row

SettingsInit == settings = [k \in Keys7 |-> Unset]

Store(key, value) == settings' = [settings EXCEPT ![key] = value]

(* set_margin_floor_bp, set_daily_capacity, set_data_gate_thresholds. *)
SetFloor(v) == v \in {Unset} \cup 0..MaxFloor /\ Store("floor", v)
SetCapacity(v) == v \in {Unset} \cup 1..MaxCapacity /\ Store("capacity", v)
SetCell(v) == v \in {Unset} \cup 5..10000 /\ Store("cell", v)

(* set_offer_ladder_bp: an empty ladder takes it away. *)
Ladder(rungs) == IF rungs = {} THEN Unset ELSE rungs
GoodLadder(rungs) == Cardinality(rungs) <= MaxRungs /\ \A r \in rungs : r \in 1..MaxRung

Stored(key, default) == IF settings[key] = Unset THEN default ELSE settings[key]

(* full_price_thresholds: what the user set, else the documented default. *)
Thresholds == [high |-> Stored("high", DefaultHigh), low |-> Stored("low", DefaultLow),
               min_lines |-> Stored("min_lines", DefaultMinLines)]

Given(v, current) == IF v = Unset THEN current ELSE v

(* Mistake: what is not given is compared by its default. *)
AgainstDefaultMistake(high, low, min) ==
    /\ 0 <= Given(low, DefaultLow) /\ Given(low, DefaultLow) < Given(high, DefaultHigh)
    /\ Given(high, DefaultHigh) <= 10000 /\ Given(min, DefaultMinLines) >= 1

(* set_full_price_thresholds: the new ones with those that stay. *)
GoodThresholds(high, low, min) ==
    /\ 0 <= Given(low, Thresholds.low) /\ Given(low, Thresholds.low) < Given(high, Thresholds.high)
    /\ Given(high, Thresholds.high) <= 10000 /\ Given(min, Thresholds.min_lines) >= 1

(* write_offer_policy: the ladder is stored before the thresholds are looked  *)
(* at, and stays when they are refused.                                      *)
WriteOfferPolicy(hasLadder, rungs, high, low, min) ==
    /\ hasLadder => GoodLadder(rungs)
    /\ settings' = [k \in Keys7 |->
         IF k = "ladder" /\ hasLadder THEN Ladder(rungs)
         ELSE IF k \in {"high", "low", "min_lines"} /\ {high, low, min} # {Unset}
                 /\ GoodThresholds(high, low, min)
              THEN Given(CASE k = "high" -> high [] k = "low" -> low [] OTHER -> min, Thresholds[k])
         ELSE settings[k]]

SettingsNext ==
    \/ \E v \in Numbers \cup {Unset} : SetFloor(v) \/ SetCapacity(v) \/ SetCell(v)
    \/ \E rungs \in {S \in SUBSET Numbers : Cardinality(S) <= 1}, given \in BOOLEAN,
          high, low, min \in Numbers \cup {Unset} : WriteOfferPolicy(given, rungs, high, low, min)

-----------------------------------------------------------------------------
(* The classes of full-price buyers never overlap, whichever thresholds were  *)
(* set alone, together or refused: low stays under high.                     *)
ThresholdsOrdered ==
    /\ 0 <= Thresholds.low /\ Thresholds.low < Thresholds.high /\ Thresholds.high <= 10000
    /\ settings["ladder"] # Unset => GoodLadder(settings["ladder"]) /\ settings["ladder"] # {}
=============================================================================
