---------------------------- MODULE MCWebClient -----------------------------
(* Two outstanding requests and six reports: a full one for each team, one  *)
(* seen by a spectator with a flag that cannot be drawn, one without the    *)
(* local player's position, one without a local player, and a failure.      *)
EXTENDS WebClient

\* c is in a vehicle, and b's class is none that has an icon.
Row(who, x, z, yaw, team, alive, occluded) ==
  [who |-> who, x |-> x, z |-> z, yaw |-> yaw, team |-> team,
   alive |-> alive, occluded |-> occluded, isVehicle |-> who = "c",
   playerClass |-> IF who = "b" THEN "Sentry" ELSE "Medic"]

Local(x, z, yaw, team, placed) ==
  [x |-> x, z |-> z, yaw |-> yaw, team |-> team, placed |-> placed]

Flag(x, z, owner, percent) == [x |-> x, z |-> z, owner |-> owner, percent |-> percent]

Success(local, rows, flags) ==
  [status |-> "success", local |-> local, rows |-> rows, flags |-> flags]

Crowd == {Row("a", 2, 0, 1, 1, TRUE, FALSE), Row("b", 0, -1, 3, 2, TRUE, FALSE),
          Row("c", 1, 3, 0, 2, TRUE, TRUE), Row("d", 1, 1, 2, 1, FALSE, FALSE)}

MCReports ==
  {Success(Local(0, 0, 0, 1, TRUE), Crowd, <<Flag(1, 0, 1, 50), Flag(0, 1, 0, 0)>>),
   Success(Local(1, -1, 3, 2, TRUE), Crowd, <<Flag(1, 0, 1, 50)>>),
   Success(Local(1, 1, 1, 0, TRUE), Crowd, <<Flag(1, 0, 2, 99), Flag(0, 1, 1, -1)>>),
   Success(Local(0, 0, 2, 1, FALSE), Crowd, << >>),
   Success(None, Crowd, <<Flag(1, 0, 2, 99)>>),
   [status |-> "failure", local |-> None, rows |-> {}, flags |-> << >>]}

MCRadii == {80, -10, NaN}
=============================================================================
