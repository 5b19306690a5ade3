---------------------------- MODULE MCLaserScan ----------------------------
(* Small scans for LaserScan.                                               *)
EXTENDS LaserScan

R(hor, ver, freq, count) == [hor |-> hor, ver |-> ver, freq |-> freq, count |-> count, att |-> 0]

\* The kinds of rows positions.py describes (lines 33-38), at rates that divide 10 and, as
\* the 4 Hz of the scans, do not, and at one that is refused.
Rows == {R(1, 0, 4, 0), R(0, -1, 2, 0), R(1, 1, 0, 0), R(0, 0, 0, 0), R(0, 1, -3, 1),
         R(-1, 0, -1, 0), R(1, 0, 20, 0)}

MCPlans == {<<r, [q EXCEPT !.att = 1]>> : r \in Rows, q \in Rows}

=============================================================================
