--------------------------- MODULE MCSurfaceCamera ---------------------------
(* SurfaceCamera for TLC: a rear and a front session, and the session that   *)
(* reopens the rear camera while the teardown of the first is late.          *)
EXTENDS SurfaceCamera

CONSTANTS rear1, rear2, front1

SensorOf == [s \in Session |-> IF s = front1 THEN "front" ELSE "rear"]
=============================================================================
