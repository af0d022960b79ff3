---------------------------- MODULE MCCronService ----------------------------
(* A recurring and a one-shot job. *)
EXTENDS CronService, TLC

CONSTANTS r1, o1

MCRecurring == {r1}
MCOneShots == {o1}
MCInitialJobs == {{r1}, {o1}}
=============================================================================
