---------------------------- MODULE RuleSettings ----------------------------
(***************************************************************************)
(* The values a trading rule may have (domain/facts_rules.py): a number,   *)
(* or a marker, and how code reads them.                                   *)
(***************************************************************************)
EXTENDS Integers

CONSTANTS
  NoLimit,       \* a rule set to "none"
  Unset,         \* a rule set to "TBD"; where code computes, "agent_discretion" too
  Unknown        \* None: unavailable, with a gap

SettingsAssumption ==
  /\ NoLimit \notin Int /\ Unset \notin Int /\ Unknown \notin Int
  /\ NoLimit # Unset /\ Unknown # NoLimit /\ Unknown # Unset
ASSUME SettingsAssumption

\* rule: a number, no limit, or a gap.
Rule(setting) == IF setting = Unset THEN Unknown ELSE setting

\* is_fresh, and its callers' reading of the maximal age; times are later the larger.
Fresh(observed, now, maxAge) ==
  /\ observed # Unknown /\ maxAge # Unset
  /\ observed <= now
  /\ maxAge # NoLimit => now - observed <= maxAge
=============================================================================
