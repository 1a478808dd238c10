------------------------------ MODULE SlaTiming ------------------------------
(***************************************************************************)
(* The arithmetic of modules/ticket/services/sla.py: how much of an SLA has*)
(* elapsed, in whole per cent, and which warning level that reaches.       *)
(* Instants and durations are whole seconds.                               *)
(***************************************************************************)
EXTENDS Integers

\* An SLA that was never exceeded has no level.
NoLevel == 0

\* Faulty: divides by the due instant instead of the length of the SLA.
FaultyElapsed(opened, due, current) == ((current - opened) * 100) \div due

\* int(((current - opened) * 100) / (due - opened)): truncation, and the
\* dividend is never negative because opened_at lies in the past.
Elapsed(opened, due, current) ==
  ((current - opened) * 100) \div (due - opened)

\* calculate_sla_response_time_percentage: saturates AT the due time.
ResponsePercentage(responseTime, opened, current) ==
  LET due == opened + responseTime
  IN  IF current >= due THEN 100 ELSE Elapsed(opened, due, current)

\* calculate_sla_resolution_time_percentage: saturates AFTER the due time.
ResolutionPercentage(resolutionTime, opened, current) ==
  LET due == opened + resolutionTime
  IN  IF current > due THEN 100 ELSE Elapsed(opened, due, current)

\* get_enum_from_range, guarded as _check_breach guards it: below 75 there
\* is no level at all.
BreachLevel(percentage) ==
  CASE percentage < 75                       -> NoLevel
    [] percentage >= 75 /\ percentage < 90   -> 75
    [] percentage >= 90 /\ percentage < 100  -> 90
    [] OTHER                                 -> 100

\* The levels for which _check_breach calls handle_warning; level 90 has an
\* enum member and no branch.
AlertLevels == {75, 100}

AlertLevel(percentage) ==
  IF BreachLevel(percentage) \in AlertLevels
  THEN BreachLevel(percentage) ELSE NoLevel

=============================================================================
