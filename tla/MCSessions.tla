----------------------------- MODULE MCSessions -----------------------------
(* Two sessions, two jobs and two requests: a logout of one session, an    *)
(* expiry or password change of both, and jobs that share a session.       *)
EXTENDS Sessions, TLC

CONSTANTS s1, s2, j1, j2, r1, r2

MCSession == {s1, s2}
MCJob == {j1, j2}
MCRequest == {r1, r2}

(* The sessions keep their types, and the connection of a dead one closes.  *)
ConnectionsEnd == []TypeOK /\ DeadConnectionCloses
=============================================================================
