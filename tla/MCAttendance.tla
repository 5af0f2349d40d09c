---------------------------- MODULE MCAttendance ----------------------------
(* Instances of Attendance for TLC. *)
EXTENDS Attendance, TLC

CONSTANTS cap, mate, other, seat, elsewhere, i1, i2, u1, u2

\* The mate sits at the captain's table, the other has a table of their own.
TwoTables == {cap, mate, other}
TwoSeats  == {seat, elsewhere}
Occupants == [s \in TwoSeats |-> IF s = seat THEN mate ELSE other]
Captains  == [s \in TwoSeats |-> IF s = seat THEN cap ELSE other]

\* One id that the captain and the mate use for the mate's seat, and the other for
\* another one; the captain uploads in the same batch a mark they may not make.
TwoIds    == {i1, i2}
FourMarks == {cap, mate, other} \X {i1} \cup {<<cap, i2>>}
SeatOf    == [pi \in FourMarks |-> IF pi \in {cap, mate} \X {i1} THEN seat ELSE elsewhere]

TwoUploads == {u1, u2}
=============================================================================
