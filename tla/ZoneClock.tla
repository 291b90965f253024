------------------------------ MODULE ZoneClock ------------------------------
(***************************************************************************)
(* Wall-clock time around one change of the clocks: utils/timezone.py and  *)
(* RecurringSchedule.compute_next_run.  A zone is what zoneinfo knows of   *)
(* it: the UTC instant of the change and the offsets on both sides.        *)
(***************************************************************************)
EXTENDS Integers

Zone == [at : Int, before : Int, after : Int]

\* A cron expression with one slot in every period (hour, day, week).
Cron == {c \in [period : Nat, phase : Int] : c.period > 0}

Fold == {0, 1}

NoInstant == "NonExistentTimeError"

\* aware_utc.astimezone(tz), its tzinfo stripped
ToLocal(z, u) == u + (IF u < z.at THEN z.before ELSE z.after)

Later(z)   == IF z.before < z.after THEN z.after ELSE z.before
Earlier(z) == IF z.before < z.after THEN z.before ELSE z.after

\* utcoffset() of a naive time with the zone attached: with fold 0 the old
\* offset holds to the end of a repeated or skipped hour, with fold 1 to its
\* beginning.
WallOffset(z, l, fold) ==
  IF l < z.at + (IF fold = 0 THEN Later(z) ELSE Earlier(z))
  THEN z.before
  ELSE z.after

ToUtc(z, l, fold) == l - WallOffset(z, l, fold)

IsNonexistent(z, l) == ToLocal(z, ToUtc(z, l, 0)) # l

IsAmbiguous(z, l) == WallOffset(z, l, 0) # WallOffset(z, l, 1)

LocalizeToUtc(z, l, onGap, fold) ==
  IF IsNonexistent(z, l) /\ onGap = "raise" THEN NoInstant ELSE ToUtc(z, l, fold)

\* u lies in the second pass through a repeated hour, which fold 1 tells apart.
Repeated(z, u) == z.at <= u /\ u < z.at + (z.before - z.after)

\* croniter.get_next: the first slot after l.
NextSlot(c, l) == l + 1 + ((c.phase - l - 1) % c.period)

ComputeNextRun(z, c, after) == ToUtc(z, NextSlot(c, ToLocal(z, after)), 0)

=============================================================================
