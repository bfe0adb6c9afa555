--------------------------- MODULE MCCalendarMirror ---------------------------
(* CalendarMirror with a Google that answers every insert: what is left to *)
(* go wrong is a crash, or a calendar somebody removed.                    *)
EXTENDS CalendarMirror

AnsweredNext == MirrorNext /\ ~\E op \in sync.todo : InsertUnanswered(op)

AnsweredSpec == MirrorInit /\ [][AnsweredNext]_mirrorVars /\ MirrorFairness
=============================================================================
