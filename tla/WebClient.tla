----------------------------- MODULE WebClient ------------------------------
(***************************************************************************)
(* drawmap.js in the browser: a request for /report every 33 ms, whatever  *)
(* became of the earlier ones, and a picture for every answer.  Handlers   *)
(* run to completion; answers arrive in any order, or not at all.          *)
(*                                                                         *)
(* Coordinates are small integers and angles are quarter turns, so that    *)
(* sine and cosine are exact.  A canvas ignores a translation by NaN or    *)
(* an infinite number.                                                     *)
(***************************************************************************)
EXTENDS Integers, Sequences

CONSTANTS Requests,  \* XMLHttpRequest objects that can be outstanding
          Reports,   \* what the game can have the server report
          Radii,     \* what get_dom_int('map_radius') can return
          NaN,       \* parseInt("")
          None,      \* no report; a report without local_player
          MaxMoves   \* bound on moves of the game, the user and the network

ASSUME NaNAssumption == Radii \subseteq Int \cup {NaN} /\ NaN \notin Int
ASSUME NoneAssumption == None \notin Reports
ASSUME MaxMovesAssumption == MaxMoves \in Nat

\* result["local_player"], whose position is missing (not placed) when he is
\* not in the player list, and a row of one of the two teams' lists.
Locals == [x : Int, z : Int, yaw : Int, team : Int, placed : BOOLEAN]
Rows == [who : STRING, x : Int, z : Int, yaw : Int, team : {1, 2}, alive : BOOLEAN,
         occluded : BOOLEAN, isVehicle : BOOLEAN, playerClass : STRING]

\* A report; result["local_player"] is missing when there is no local player.
ASSUME ReportsAssumption ==
  \A r \in Reports :
    /\ r.status \in {"success", "failure"}
    /\ r.local = None \/ r.local \in Locals
    /\ r.rows \subseteq Rows
    /\ r.flags \in Seq([x : Int, z : Int, owner : 0 .. 2, percent : Int])

VARIABLES report,         \* the report that describes the game at this moment
          radius,         \* the map_radius field of the page
          req,            \* req[q]: its state, and the report on its way, if any
          last_response,  \* last_response; None is its initial {status: "failure"}
          canvas,         \* marks painted, and the report they are of (auxiliary)
          ctx,            \* saved states and origin of the canvas context
          moves           \* moves so far

vars == <<report, radius, req, last_response, canvas, ctx, moves>>

\* Answers that are no report: another status than 200, a request that
\* failed, and a body with a number that "%g" printed as nan or inf, which
\* JSON.parse rejects.
Failures == {"500", "lost", "unparsable"}

Idle == [state |-> "idle", body |-> None]
Sent == [state |-> "sent", body |-> None]

Answers == [state : Failures, body : {None}] \cup [state : {"200"}, body : Reports]

Origins == {"corner", "centre", "off"}

Blank == [of |-> None, radius |-> NaN, flags |-> {}, players |-> {}]

TypeOK ==
  /\ report \in Reports
  /\ radius \in Radii
  /\ req \in [Requests -> {Idle, Sent} \cup Answers]
  /\ last_response \in Reports \cup {None}
  /\ canvas.of \in Reports \cup {None}
  /\ canvas.radius \in Radii \cup {NaN}
  /\ ctx \in [depth : 0 .. 2, origin : Origins]
  /\ moves \in 0 .. MaxMoves

\* The page has been loaded; resizeCanvas() has run once.
Init ==
  /\ report \in Reports
  /\ radius \in Radii
  /\ req = [q \in Requests |-> Idle]
  /\ last_response = None
  /\ canvas = Blank
  /\ ctx = [depth |-> 0, origin |-> "corner"]
  /\ moves = 0

-----------------------------------------------------------------------------
(* Where things are drawn. *)

cos(a) == <<1, 0, -1, 0>>[(a % 4) + 1]
sin(a) == <<0, 1, 0, -1>>[(a % 4) + 1]

world_to_player(local, remote) == [x |-> remote.x - local.x, z |-> remote.z - local.z]

\* Mistake: the matrix of the opposite rotation.
player_to_playerup_back(yaw, p) ==
  [x |-> -1 * p.x * cos(yaw) + p.z * sin(yaw),
   z |-> (0 - p.x * sin(yaw)) - p.z * cos(yaw)]

player_to_playerup(yaw, p) ==
  [x |-> -1 * p.x * cos(yaw) - p.z * sin(yaw),
   z |-> p.x * sin(yaw) - p.z * cos(yaw)]

\* playerup_to_map divides by the radius: a negative one mirrors the map, and
\* with NaN or 0 no finite point is left.
Finite(local, rad) == local.placed /\ rad \in Int \ {0}

playerup_to_map(rad, p) == IF rad < 0 THEN [x |-> 0 - p.x, z |-> 0 - p.z] ELSE p

\* Where a thing at p is painted.  Without a finite point, translate() does
\* nothing and the thing is painted at the centre.
Place(local, rad, p) ==
  IF Finite(local, rad)
  THEN playerup_to_map(rad, player_to_playerup(local.yaw, world_to_player(local, p)))
  ELSE [x |-> 0, z |-> 0]

\* The shape: a vehicle, one of four classes, or unknown for "Sentry", too.
Icon(row) ==
  CASE row.isVehicle -> "vehicle"
    [] ~row.isVehicle /\ row.playerClass \in {"Assault", "Medic", "Scout", "Support"}
         -> row.playerClass
    [] OTHER -> "unknown"

\* One round of draw_team's loop, with draw_player.  A vehicle has no arrow.
\* A row has no field "team", so that local.team != remote.team compares with
\* undefined and always holds.
draw_player(local, rad, row, color) ==
  [who   |-> row.who,
   place |-> Place(local, rad, row),
   icon  |-> Icon(row),
   arrow |-> IF row.isVehicle THEN NaN ELSE (row.yaw - local.yaw) % 4,
   color |-> color,
   line  |-> ~row.occluded /\ Finite(local, rad)]

\* draw_team: players without health are skipped.
draw_team(r, rad, t, color) ==
  {draw_player(r.local, rad, row, color) :
     row \in {x \in r.rows : x.team = t /\ x.alive}}

draw_teams(r, rad) ==
  CASE r.local.team = 1 -> draw_team(r, rad, 1, "mate") \cup draw_team(r, rad, 2, "enemy")
    [] r.local.team = 2 -> draw_team(r, rad, 2, "mate") \cup draw_team(r, rad, 1, "enemy")
    [] OTHER -> draw_team(r, rad, 1, "unknown") \cup draw_team(r, rad, 2, "unknown")

\* addColorStop() throws for a negative offset.
Throws(flag) == flag.percent < 0

draw_flag(r, rad, i) ==
  LET f == r.flags[i]
  IN  [who   |-> i,
       place |-> Place(r.local, rad, f),
       color |-> CASE f.owner = 0 -> "neutral"
                   [] f.owner # 0 /\ f.owner = r.local.team -> "mate"
                   [] f.owner # 0 /\ f.owner # r.local.team -> "enemy"]

\* draw_flags: the flags before the first one that throws.
draw_flags(r, rad) ==
  {draw_flag(r, rad, i) : i \in {j \in 1 .. Len(r.flags) :
                                   \A k \in 1 .. j : ~Throws(r.flags[k])}}

-----------------------------------------------------------------------------
(* The picture. *)

\* Mistake: the canvas is assigned its size only when that has changed.
resizeCanvas_changed == ctx

\* resizeCanvas: assigning the size of a canvas clears it and resets its
\* context, with all saved states.  Here: the context afterwards.
resizeCanvas == [depth |-> 0, origin |-> "corner"]

\* ctx.save() and ctx.translate() to the centre of the canvas (or a flag).
Entered(c) == [depth  |-> c.depth + 1,
               origin |-> IF c.origin = "corner" THEN "centre" ELSE "off"]

\* draw_map(), given the response: it may throw for want of a local player
\* or in a flag, and then leaves what it has painted and saved.
draw_map(r) ==
  LET start  == resizeCanvas
      inside == Entered(start)
      paint(flags, players, c) ==
        /\ canvas' = [of      |-> r,
                      radius  |-> radius,
                      flags   |-> {<<inside.origin, m>> : m \in flags},
                      players |-> {<<inside.origin, m>> : m \in players}]
        /\ ctx' = c
  IN  IF r.status # "success" THEN UNCHANGED <<canvas, ctx>>
      ELSE IF r.local = None THEN paint({}, {}, inside)
      ELSE IF \E i \in 1 .. Len(r.flags) : Throws(r.flags[i])
           THEN paint(draw_flags(r, radius), {}, Entered(inside))
           ELSE paint(draw_flags(r, radius), draw_teams(r, radius), start)

-----------------------------------------------------------------------------
\* setInterval(request_data, 33): an XMLHttpRequest is opened and sent.
request_data(q) ==
  /\ req[q] = Idle
  /\ req' = [req EXCEPT ![q] = Sent]
  /\ UNCHANGED <<report, radius, last_response, canvas, ctx, moves>>

\* The server answers with the present state of the game.
answer(q) ==
  /\ req[q] = Sent
  /\ req' = [req EXCEPT ![q] = [state |-> "200", body |-> report]]
  /\ UNCHANGED <<report, radius, last_response, canvas, ctx, moves>>

\* Mistake: the map is drawn before the response is stored.
onreadystatechange_draws_first(q) ==
  /\ req[q].state \in Failures \cup {"200"}
  /\ req' = [req EXCEPT ![q] = Idle]
  /\ IF req[q].state = "200"
     THEN /\ last_response' = req[q].body
          /\ IF last_response = None THEN UNCHANGED <<canvas, ctx>>
                                     ELSE draw_map(last_response)
     ELSE UNCHANGED <<last_response, canvas, ctx>>
  /\ UNCHANGED <<report, radius, moves>>

\* Mistake: a response equal to the last one is not drawn again.
onreadystatechange_if_new(q) ==
  /\ req[q].state \in Failures \cup {"200"}
  /\ req' = [req EXCEPT ![q] = Idle]
  /\ IF req[q].state = "200" /\ req[q].body # last_response
     THEN last_response' = req[q].body /\ draw_map(req[q].body)
     ELSE UNCHANGED <<last_response, canvas, ctx>>
  /\ UNCHANGED <<report, radius, moves>>

\* readyState 4: only a report that can be parsed replaces last_response.
onreadystatechange(q) ==
  /\ req[q].state \in Failures \cup {"200"}
  /\ req' = [req EXCEPT ![q] = Idle]
  /\ IF req[q].state = "200"
     THEN last_response' = req[q].body /\ draw_map(req[q].body)
     ELSE UNCHANGED <<last_response, canvas, ctx>>
  /\ UNCHANGED <<report, radius, moves>>

Move == moves < MaxMoves /\ moves' = moves + 1

\* The game moves on.
play(r) ==
  /\ Move
  /\ report' = r
  /\ UNCHANGED <<radius, req, last_response, canvas, ctx>>

\* The server fails, the connection breaks, or the report has a nan in it.
fail(q, f) ==
  /\ Move
  /\ req[q] = Sent
  /\ req' = [req EXCEPT ![q] = [state |-> f, body |-> None]]
  /\ UNCHANGED <<report, radius, last_response, canvas, ctx>>

\* The user edits the radius field, which the next picture will use.
edit(rad) ==
  /\ Move
  /\ radius' = rad
  /\ UNCHANGED <<report, req, last_response, canvas, ctx>>

\* The window is resized: the listener clears the canvas.
resize ==
  /\ Move
  /\ canvas' = Blank
  /\ ctx' = resizeCanvas
  /\ UNCHANGED <<report, radius, req, last_response>>

Next ==
  \/ \E q \in Requests :
       \/ request_data(q) \/ answer(q) \/ onreadystatechange(q)
       \/ \E f \in Failures : fail(q, f)
  \/ \E r \in Reports : play(r)
  \/ \E rad \in Radii : edit(rad)
  \/ resize

Spec == Init /\ [][Next]_vars

\* The interval timer keeps firing, and every request ends: the server
\* answers or its deadline closes the connection.
FairSpec ==
  /\ Spec
  /\ \A q \in Requests : /\ WF_vars(request_data(q))
                         /\ WF_vars(answer(q))
                         /\ WF_vars(onreadystatechange(q))

-----------------------------------------------------------------------------
\* A report that draw_map() can draw completely.
Drawable(r) ==
  /\ r.status = "success"
  /\ r.local # None
  /\ \A i \in 1 .. Len(r.flags) : ~Throws(r.flags[i])

\* Everything is painted relative to the centre of the canvas, also after a
\* picture that draw_map() left half-way with its states still saved.
NothingIsDisplaced ==
  \A m \in canvas.flags \cup canvas.players : m[1] = "centre"

\* Where a player with this yaw looks: yaw is the angle from the z axis,
\* which points south, and x points east.
Facing(yaw) == [x |-> 0 - sin(yaw), z |-> cos(yaw)]

Dot(p, q) == p.x * q.x + p.z * q.z

\* p as the local player sees it: how far ahead, and how far to his right.
Ahead(local, p) == Dot(p, Facing(local.yaw))
Right(local, p) == Dot(p, Facing(local.yaw + 1))

\* Every living player is on the map of drawmap.js once: what is ahead of the
\* local player is above the centre, what is to his right is right of it;
\* arrows show where players on foot look; no player has another class's icon;
\* his own team, and only that, is in its colour; and lines lead to the
\* players in sight, of whichever team.
PictureIsFaithful ==
  LET r == canvas.of
      seen == {m[2] : m \in canvas.players}
  IN  r # None /\ Drawable(r) /\ r.local.placed /\ canvas.radius \in Int /\ canvas.radius > 0 =>
        /\ {m.who : m \in seen} = {row.who : row \in {x \in r.rows : x.alive}}
        /\ \A m \in seen : \E row \in r.rows :
             LET p == world_to_player(r.local, row)
             IN  /\ m.who = row.who
                 /\ m.place.x = Right(r.local, p)
                 /\ m.place.z = 0 - Ahead(r.local, p)
                 /\ m.icon = "vehicle" <=> row.isVehicle
                 /\ m.icon \in {"vehicle", "unknown", row.playerClass}
                 /\ ~row.isVehicle => /\ sin(m.arrow) = Right(r.local, Facing(row.yaw))
                                      /\ cos(m.arrow) = Ahead(r.local, Facing(row.yaw))
                 /\ m.color = "mate" <=> row.team = r.local.team
                 /\ m.line <=> ~row.occluded

\* When the last response is a success, no other report is on the screen:
\* the picture is that of last_response, or was cleared by the user.
PictureIsCurrent ==
  last_response # None /\ last_response.status = "success" =>
    canvas.of \in {last_response, None}

\* When the game stands still, the screen shows it in the end, whatever went
\* wrong before: late and lost answers, pictures left half-way, failures.
ScreenCatchesUp ==
  <>[](Drawable(report) => canvas.of = report /\ canvas.radius = radius)
=============================================================================
