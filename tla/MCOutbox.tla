------------------------------ MODULE MCOutbox ------------------------------
(* TLC instances of Outbox with up to two schedules, which meet in minute 2. *)
EXTENDS Outbox

CONSTANTS s1, s2

TwoSchedules == <<s1, s2>>
OneSchedule  == <<s1>>
NoSchedules  == <<>>

CronMatches(s, minute) == IF s = s1 THEN minute % 3 # 0 ELSE minute % 2 = 0
=============================================================================
