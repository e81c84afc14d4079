----------------------------- MODULE RewatchCap -----------------------------
(***************************************************************************)
(* The cap on the shown due-list: frontend domain/rewatch/cap.ts, and the  *)
(* watch pace of domain/settings/pace.ts.  share is a percentage, or Off;  *)
(* so is the pace, one film every intervalDays days.                       *)
(***************************************************************************)
EXTENDS Integers

Off == -1  \* null

\* 1 January is day 1 of its year; day 0 of the model is a 1 January.
dayOfYear(today) == (today % 365) + 1

expectedWatches(intervalDays, today) == dayOfYear(today) \div intervalDays

\* Math.max(0, Math.ceil(a / b))
FlooredQuotient(a, b) == IF a > 0 THEN a \div b ELSE 0
Wanted(a, b) == IF a > 0 THEN -((-a) \div b) ELSE 0

\* The rewatches still wanted.  A share of 100 %, or none, caps nothing: the callers here
\* ask for the shares that do.
PacedCap(share, rewatches, expected) ==
    Wanted(expected * share - 100 * rewatches, 100)
ShareCap(share, watches, rewatches) ==
    Wanted(share * watches - 100 * rewatches, 100 - share)

rewatchCap(share, watches, rewatches, intervalDays, today) ==
    IF intervalDays # Off
      THEN PacedCap(share, rewatches, expectedWatches(intervalDays, today))
      ELSE ShareCap(share, watches, rewatches)
=============================================================================
