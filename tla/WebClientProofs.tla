-------------------------- MODULE WebClientProofs ---------------------------
(***************************************************************************)
(* For any set of requests and any reports: pictures are never displaced,  *)
(* show the last response or nothing, and show its players faithfully.     *)
(***************************************************************************)
EXTENDS WebClient, TLAPS

USE NaNAssumption, NoneAssumption, MaxMovesAssumption

Inv == TypeOK /\ NothingIsDisplaced /\ PictureIsCurrent

\* draw_map() begins with resizeCanvas(), so what it leaves behind does not
\* depend on what an earlier call left.
LEMMA DrawMap ==
  ASSUME Inv, NEW r \in Reports, draw_map(r), last_response' = r
  PROVE  /\ canvas'.of \in Reports \cup {None}
         /\ canvas'.radius \in Radii \cup {NaN}
         /\ ctx' \in [depth : 0 .. 2, origin : Origins]
         /\ NothingIsDisplaced'
         /\ PictureIsCurrent'
<1>1. CASE r.status # "success"
  BY <1>1 DEF draw_map, Inv, TypeOK, NothingIsDisplaced, PictureIsCurrent
<1>2. ASSUME NEW F, NEW P, NEW c \in [depth : 0 .. 2, origin : Origins],
             canvas' = [of      |-> r,
                        radius  |-> radius,
                        flags   |-> {<<"centre", m>> : m \in F},
                        players |-> {<<"centre", m>> : m \in P}],
             ctx' = c
      PROVE  /\ canvas'.of \in Reports \cup {None}
             /\ canvas'.radius \in Radii \cup {NaN}
             /\ ctx' \in [depth : 0 .. 2, origin : Origins]
             /\ NothingIsDisplaced'
             /\ PictureIsCurrent'
  BY <1>2 DEF Inv, TypeOK, NothingIsDisplaced, PictureIsCurrent
<1>3. /\ Entered(resizeCanvas) = [depth |-> 1, origin |-> "centre"]
      /\ Entered(Entered(resizeCanvas)) = [depth |-> 2, origin |-> "off"]
      /\ resizeCanvas = [depth |-> 0, origin |-> "corner"]
  BY DEF Entered, resizeCanvas
<1>4. /\ resizeCanvas \in [depth : 0 .. 2, origin : Origins]
      /\ Entered(resizeCanvas) \in [depth : 0 .. 2, origin : Origins]
      /\ Entered(Entered(resizeCanvas)) \in [depth : 0 .. 2, origin : Origins]
      /\ Entered(resizeCanvas).origin = "centre"
  BY <1>3 DEF Origins
<1> DEFINE Bad == \E i \in 1 .. Len(r.flags) : Throws(r.flags[i])
<1>5. CASE r.status = "success" /\ r.local = None
  <2>1. /\ canvas' = [of      |-> r,
                      radius  |-> radius,
                      flags   |-> {<<"centre", m>> : m \in {}},
                      players |-> {<<"centre", m>> : m \in {}}]
        /\ ctx' = Entered(resizeCanvas)
    BY <1>4, <1>5 DEF draw_map
  <2> QED
    BY <1>2, <1>4, <2>1
<1>6. CASE r.status = "success" /\ r.local # None /\ Bad
  <2>1. /\ canvas' = [of      |-> r,
                      radius  |-> radius,
                      flags   |-> {<<"centre", m>> : m \in draw_flags(r, radius)},
                      players |-> {<<"centre", m>> : m \in {}}]
        /\ ctx' = Entered(Entered(resizeCanvas))
    BY <1>4, <1>6 DEF draw_map
  <2> QED
    BY <1>2, <1>4, <2>1
<1>7. CASE r.status = "success" /\ r.local # None /\ ~Bad
  <2>1. /\ canvas' = [of      |-> r,
                      radius  |-> radius,
                      flags   |-> {<<"centre", m>> : m \in draw_flags(r, radius)},
                      players |-> {<<"centre", m>> : m \in draw_teams(r, radius)}]
        /\ ctx' = resizeCanvas
    BY <1>4, <1>7 DEF draw_map
  <2> QED
    BY <1>2, <1>4, <2>1
<1> QED
  BY <1>1, <1>5, <1>6, <1>7

\* An empty canvas, and no response yet.
LEMMA InitInv ==
  Init => Inv
  BY DEF Init, Inv, TypeOK, NothingIsDisplaced, PictureIsCurrent, Blank, Origins

\* An answer is drawn, or ignored.
LEMMA AnswerInv ==
  ASSUME Inv, NEW q \in Requests, onreadystatechange(q)
  PROVE  Inv'
<1>1. req' \in [Requests -> {Idle, Sent} \cup Answers]
  BY DEF Inv, TypeOK, onreadystatechange
<1>2. CASE req[q].state # "200"
  BY <1>1, <1>2 DEF onreadystatechange, Inv, TypeOK, NothingIsDisplaced, PictureIsCurrent
<1>3. CASE req[q].state = "200"
  <2>1. req[q].body \in Reports
    <3>1. req[q] \in {Idle, Sent} \cup Answers
      BY DEF Inv, TypeOK
    <3>2. req[q] # Idle /\ req[q] # Sent
      BY <1>3 DEF Idle, Sent
    <3> QED
      BY <1>3, <3>1, <3>2 DEF Answers, Failures
  <2>2. last_response' = req[q].body /\ draw_map(req[q].body)
    BY <1>3 DEF onreadystatechange
  <2> QED
    BY <1>1, <2>1, <2>2, DrawMap DEF onreadystatechange, Inv, TypeOK
<1> QED
  BY <1>2, <1>3

\* Every step of the page, the network, the game or the user.
LEMMA NextInv ==
  Inv /\ [Next]_vars => Inv'
<1> SUFFICES ASSUME Inv, [Next]_vars
             PROVE  Inv'
  OBVIOUS
<1> USE DEF Inv, TypeOK, NothingIsDisplaced, PictureIsCurrent
<1>1. ASSUME NEW q \in Requests, request_data(q) PROVE Inv'
  BY <1>1 DEF request_data
<1>2. ASSUME NEW q \in Requests, answer(q) PROVE Inv'
  <2>1. [state |-> "200", body |-> report] \in Answers
    BY DEF Answers
  <2> QED
    BY <1>2, <2>1 DEF answer
<1>3. ASSUME NEW q \in Requests, onreadystatechange(q) PROVE Inv'
  BY <1>3, AnswerInv
<1>4. ASSUME NEW q \in Requests, NEW f \in Failures, fail(q, f) PROVE Inv'
  <2>1. [state |-> f, body |-> None] \in Answers
    BY DEF Answers
  <2>2. moves' \in 0 .. MaxMoves
    BY <1>4 DEF fail, Move
  <2> QED
    BY <1>4, <2>1, <2>2 DEF fail
<1>5. ASSUME NEW r \in Reports, play(r) PROVE Inv'
  BY <1>5 DEF play, Move
<1>6. ASSUME NEW rad \in Radii, edit(rad) PROVE Inv'
  BY <1>6 DEF edit, Move
<1>7. CASE resize
  BY <1>7 DEF resize, Move, resizeCanvas, Blank, Origins
<1>8. CASE UNCHANGED vars
  BY <1>8 DEF vars
<1> QED
  BY <1>1, <1>2, <1>3, <1>4, <1>5, <1>6, <1>7, <1>8 DEF Next

\* The invariant of the page.
THEOREM WebClientInvariant ==
  Spec => []Inv
<1>1. Init => Inv
  BY InitInv
<1>2. Inv /\ [Next]_vars => Inv'
  BY NextInv
<1> QED
  BY <1>1, <1>2, PTL DEF Spec

\* However often draw_map() was left half-way, everything is painted
\* relative to the centre of the canvas.
THEOREM PicturesStayCentred ==
  Spec => []NothingIsDisplaced
<1>1. Inv => NothingIsDisplaced
  BY DEF Inv
<1> QED
  BY <1>1, WebClientInvariant, PTL

\* The screen never shows another report than last_response, if that is a
\* success, in whatever order the answers arrive.
THEOREM ScreenShowsLastResponse ==
  Spec => []PictureIsCurrent
<1>1. Inv => PictureIsCurrent
  BY DEF Inv
<1> QED
  BY <1>1, WebClientInvariant, PTL

\* A quarter turn after another, for all coordinates: what player_to_playerup
\* makes of a point is how far it is to the right of the local player, and,
\* upwards on the screen, how far ahead.
THEOREM PlaceIsRelativeToView ==
  ASSUME NEW yaw \in Int, NEW local, local.yaw = yaw,
         NEW p, p.x \in Int, p.z \in Int
  PROVE  /\ player_to_playerup(yaw, p).x = Right(local, p)
         /\ player_to_playerup(yaw, p).z = 0 - Ahead(local, p)
<1>1. /\ cos(yaw) \in {-1, 0, 1} /\ sin(yaw) \in {-1, 0, 1}
      /\ sin(yaw + 1) = cos(yaw) /\ cos(yaw + 1) = 0 - sin(yaw)
  BY DEF cos, sin
<1> QED
  BY <1>1 DEF player_to_playerup, Right, Ahead, Dot, Facing

-----------------------------------------------------------------------------
(* The picture of a report. *)

\* A quarter turn, for every number of quarter turns.
LEMMA QuarterTurns ==
  ASSUME NEW a \in Int
  PROVE  \/ a % 4 = 0 /\ cos(a) = 1 /\ sin(a) = 0
         \/ a % 4 = 1 /\ cos(a) = 0 /\ sin(a) = 1
         \/ a % 4 = 2 /\ cos(a) = -1 /\ sin(a) = 0
         \/ a % 4 = 3 /\ cos(a) = 0 /\ sin(a) = -1
  BY DEF cos, sin

\* The arrow of draw_player() is the remote player's view as the local player
\* sees it.
LEMMA ArrowIsRelativeToView ==
  ASSUME NEW a \in Int, NEW b \in Int, NEW local, local.yaw = b
  PROVE  /\ sin((a - b) % 4) = Right(local, Facing(a))
         /\ cos((a - b) % 4) = Ahead(local, Facing(a))
<1>1. PICK d, e : d = (a - b) % 4 /\ d \in Int /\ e = b + 1 /\ e \in Int
  OBVIOUS
<1>2. /\ Facing(a).x = 0 - sin(a) /\ Facing(a).z = cos(a)
      /\ Facing(b).x = 0 - sin(b) /\ Facing(b).z = cos(b)
      /\ Facing(e).x = 0 - sin(e) /\ Facing(e).z = cos(e)
  BY DEF Facing
<1>3. /\ Right(local, Facing(a)) = (0 - sin(a)) * (0 - sin(e)) + cos(a) * cos(e)
      /\ Ahead(local, Facing(a)) = (0 - sin(a)) * (0 - sin(b)) + cos(a) * cos(b)
  BY <1>1, <1>2 DEF Right, Ahead, Dot
<1>4. /\ a % 4 \in 0 .. 3 /\ b % 4 \in 0 .. 3 /\ e % 4 = ((b % 4) + 1) % 4
      /\ d % 4 = ((a % 4) - (b % 4)) % 4
  BY <1>1
<1>5. CASE b % 4 = 0
  <2>1. e % 4 = 1 /\ d % 4 = a % 4
    BY <1>4, <1>5
  <2> QED
    BY <1>1, <1>3, <1>5, <2>1, QuarterTurns
<1>6. CASE b % 4 = 1
  <2>1. e % 4 = 2 /\ d % 4 = ((a % 4) + 3) % 4
    BY <1>4, <1>6
  <2> QED
    BY <1>1, <1>3, <1>6, <2>1, QuarterTurns
<1>7. CASE b % 4 = 2
  <2>1. e % 4 = 3 /\ d % 4 = ((a % 4) + 2) % 4
    BY <1>4, <1>7
  <2> QED
    BY <1>1, <1>3, <1>7, <2>1, QuarterTurns
<1>8. CASE b % 4 = 3
  <2>1. e % 4 = 0 /\ d % 4 = ((a % 4) + 1) % 4
    BY <1>4, <1>8
  <2> QED
    BY <1>1, <1>3, <1>8, <2>1, QuarterTurns
<1> QED
  BY <1>4, <1>5, <1>6, <1>7, <1>8

\* The icon: a vehicle's, the class's own, or unknown.
LEMMA IconOfRow ==
  ASSUME NEW row \in Rows
  PROVE  /\ Icon(row) = "vehicle" <=> row.isVehicle
         /\ Icon(row) \in {"vehicle", "unknown", row.playerClass}
<1>1. row.isVehicle \in BOOLEAN
  BY DEF Rows
<1>2. CASE row.isVehicle
  BY <1>2 DEF Icon
<1>3. CASE ~row.isVehicle
  BY <1>3 DEF Icon
<1> QED
  BY <1>2, <1>3

\* m is the mark of a row, as the local player should see it.
MarkOf(m, local, row) ==
  LET p == world_to_player(local, row)
  IN  /\ m.who = row.who
      /\ m.place.x = Right(local, p)
      /\ m.place.z = 0 - Ahead(local, p)
      /\ m.icon = "vehicle" <=> row.isVehicle
      /\ m.icon \in {"vehicle", "unknown", row.playerClass}
      /\ ~row.isVehicle => /\ sin(m.arrow) = Right(local, Facing(row.yaw))
                           /\ cos(m.arrow) = Ahead(local, Facing(row.yaw))
      /\ m.color = "mate" <=> row.team = local.team
      /\ m.line <=> ~row.occluded

\* draw_player() with the colour of the row's team.
LEMMA PlayerDrawn ==
  ASSUME NEW local \in Locals, local.placed, NEW rad \in Int, rad > 0, NEW row \in Rows,
         NEW color, color = "mate" <=> row.team = local.team
  PROVE  MarkOf(draw_player(local, rad, row, color), local, row)
<1>1. /\ local.x \in Int /\ local.z \in Int /\ local.yaw \in Int
      /\ row.x \in Int /\ row.z \in Int /\ row.yaw \in Int
      /\ row.isVehicle \in BOOLEAN /\ row.occluded \in BOOLEAN
  BY DEF Locals, Rows
<1>2. Finite(local, rad)
  BY DEF Finite
<1>3. PICK p : p = world_to_player(local, row)
  OBVIOUS
<1>4. p.x \in Int /\ p.z \in Int
  BY <1>1, <1>3 DEF world_to_player
<1>5. Place(local, rad, row) = player_to_playerup(local.yaw, p)
  BY <1>2, <1>3 DEF Place, playerup_to_map
<1>6. /\ Place(local, rad, row).x = Right(local, p)
      /\ Place(local, rad, row).z = 0 - Ahead(local, p)
  BY <1>1, <1>4, <1>5, PlaceIsRelativeToView
<1>7. /\ sin((row.yaw - local.yaw) % 4) = Right(local, Facing(row.yaw))
      /\ cos((row.yaw - local.yaw) % 4) = Ahead(local, Facing(row.yaw))
  BY <1>1, ArrowIsRelativeToView
<1>8. PICK m : m = draw_player(local, rad, row, color)
  OBVIOUS
<1>9. /\ m.who = row.who /\ m.place = Place(local, rad, row) /\ m.icon = Icon(row)
      /\ ~row.isVehicle => m.arrow = (row.yaw - local.yaw) % 4
      /\ m.color = color
  BY <1>8 DEF draw_player
<1>10. m.line <=> ~row.occluded
  BY <1>2, <1>8, Zenon DEF draw_player
<1>11. MarkOf(m, local, row)
  BY <1>3, <1>6, <1>7, <1>9, <1>10, IconOfRow, Zenon DEF MarkOf
<1> QED
  BY <1>8, <1>11

\* What a picture of r is to show of the players.
Faithful(r, seen) ==
  /\ {m.who : m \in seen} = {row.who : row \in {x \in r.rows : x.alive}}
  /\ \A m \in seen : \E row \in r.rows : MarkOf(m, r.local, row)

\* draw_teams() draws the living of both teams, each in his team's colour.
LEMMA TeamsDrawn ==
  ASSUME NEW r \in Reports, NEW rad \in Int, rad > 0, r.local # None, r.local.placed
  PROVE  Faithful(r, draw_teams(r, rad))
<1>1. r.local \in Locals /\ r.rows \subseteq Rows
  BY ReportsAssumption
<1>2. PICK own, other, seen :
        /\ own = (IF r.local.team \in {1, 2} THEN "mate" ELSE "unknown")
        /\ other = (IF r.local.team \in {1, 2} THEN "enemy" ELSE "unknown")
        /\ seen = draw_teams(r, rad)
  OBVIOUS
<1> DEFINE Color(row) == IF row.team = r.local.team THEN own ELSE other
           Mark(row) == draw_player(r.local, rad, row, Color(row))
           Living == {row \in r.rows : row.alive}
<1>3. \A row \in r.rows : row.team \in {1, 2}
  BY <1>1 DEF Rows
<1>4. \A m : m \in seen <=> \E row \in Living : m = Mark(row)
  <2>1. CASE r.local.team = 1
    <3>1. seen = draw_team(r, rad, 1, "mate") \cup draw_team(r, rad, 2, "enemy")
      BY <1>2, <2>1 DEF draw_teams
    <3>2. \A row \in r.rows : /\ row.team = 1 => Color(row) = "mate"
                              /\ row.team = 2 => Color(row) = "enemy"
      BY <1>2, <2>1
    <3> HIDE DEF Color
    <3> QED
      BY <1>3, <3>1, <3>2 DEF draw_team
  <2>2. CASE r.local.team = 2
    <3>1. seen = draw_team(r, rad, 2, "mate") \cup draw_team(r, rad, 1, "enemy")
      BY <1>2, <2>2 DEF draw_teams
    <3>2. \A row \in r.rows : /\ row.team = 2 => Color(row) = "mate"
                              /\ row.team = 1 => Color(row) = "enemy"
      BY <1>2, <2>2
    <3> HIDE DEF Color
    <3> QED
      BY <1>3, <3>1, <3>2 DEF draw_team
  <2>3. CASE r.local.team \notin {1, 2}
    <3>1. seen = draw_team(r, rad, 1, "unknown") \cup draw_team(r, rad, 2, "unknown")
      BY <1>2, <2>3 DEF draw_teams
    <3>2. \A row \in r.rows : Color(row) = "unknown"
      BY <1>2, <2>3
    <3> HIDE DEF Color
    <3> QED
      BY <1>3, <3>1, <3>2 DEF draw_team
  <2> QED
    BY <2>1, <2>2, <2>3
<1>5. \A row \in r.rows : Color(row) = "mate" <=> row.team = r.local.team
  BY <1>2, <1>3
<1> HIDE DEF Color
<1>6. \A row \in r.rows : MarkOf(Mark(row), r.local, row)
  <2> SUFFICES ASSUME NEW row \in r.rows
               PROVE  MarkOf(Mark(row), r.local, row)
    OBVIOUS
  <2>1. row \in Rows /\ (Color(row) = "mate" <=> row.team = r.local.team)
    BY <1>1, <1>5
  <2> QED
    BY <1>1, <2>1, PlayerDrawn, Zenon
<1>7. \A row \in r.rows : Mark(row).who = row.who
  BY DEF draw_player
<1> HIDE DEF Mark
<1>8. {m.who : m \in seen} = {row.who : row \in {x \in r.rows : x.alive}}
  BY <1>4, <1>7
<1>9. \A m \in seen : \E row \in r.rows : MarkOf(m, r.local, row)
  BY <1>4, <1>6
<1> QED
  BY <1>2, <1>8, <1>9 DEF Faithful

\* PictureIsFaithful, of a canvas c.
FaithfulCanvas(c) ==
  c.of # None /\ Drawable(c.of) /\ c.of.local.placed /\ c.radius \in Int /\ c.radius > 0
    => Faithful(c.of, {m[2] : m \in c.players})

\* The property speaks of the canvas alone.
LEMMA PictureIsOfCanvas ==
  PictureIsFaithful <=> FaithfulCanvas(canvas)
  BY Zenon DEF PictureIsFaithful, FaithfulCanvas, Faithful, MarkOf

\* A picture of draw_map() is faithful, or is no picture of a drawable report.
LEMMA DrawnFaithfully ==
  ASSUME NEW r \in Reports, draw_map(r), PictureIsFaithful
  PROVE  PictureIsFaithful'
<1> DEFINE Bad == \E i \in 1 .. Len(r.flags) : Throws(r.flags[i])
<1>1. FaithfulCanvas(canvas)
  BY PictureIsOfCanvas
<1>2. PICK c : c = canvas'
  OBVIOUS
<1>3. FaithfulCanvas(c) => PictureIsFaithful'
  BY <1>2, Zenon DEF PictureIsFaithful, FaithfulCanvas, Faithful, MarkOf
<1>4. CASE r.status # "success"
  <2>1. c = canvas
    BY <1>2, <1>4 DEF draw_map
  <2> QED
    BY <1>1, <1>3, <2>1
<1>5. CASE r.status = "success" /\ (r.local = None \/ Bad)
  <2>1. c.of = r
    BY <1>2, <1>5 DEF draw_map
  <2>2. ~Drawable(r)
    BY <1>5 DEF Drawable
  <2> QED
    BY <1>3, <2>1, <2>2 DEF FaithfulCanvas
<1>6. CASE r.status = "success" /\ r.local # None /\ ~Bad
  <2>1. Entered(resizeCanvas).origin = "centre"
    BY DEF Entered, resizeCanvas
  <2>2. PICK D : D = draw_teams(r, radius)
    OBVIOUS
  <2>3. /\ c.of = r
        /\ c.radius = radius
        /\ c.players = {<<"centre", m>> : m \in D}
    BY <1>2, <1>6, <2>1, <2>2 DEF draw_map
  <2>4. {m[2] : m \in c.players} = D
    <3>1. \A x : <<"centre", x>>[2] = x
      OBVIOUS
    <3>2. \A x : x \in D => x \in {m[2] : m \in c.players}
      <4> SUFFICES ASSUME NEW x \in D PROVE \E m \in c.players : x = m[2]
        OBVIOUS
      <4>1. <<"centre", x>> \in c.players
        BY <2>3
      <4> QED
        BY <3>1, <4>1
    <3>3. \A m \in c.players : m[2] \in D
      BY <2>3, <3>1
    <3> QED
      BY <3>2, <3>3, Zenon
  <2>5. ASSUME r.local.placed, radius \in Int, radius > 0
        PROVE  Faithful(r, D)
    BY <1>6, <2>2, <2>5, TeamsDrawn
  <2> QED
    BY <1>3, <2>3, <2>4, <2>5 DEF FaithfulCanvas
<1> QED
  BY <1>4, <1>5, <1>6

\* Only draw_map() and the user's resizing paint on the canvas.
LEMMA NextFaithful ==
  Inv /\ PictureIsFaithful /\ [Next]_vars => PictureIsFaithful'
<1> SUFFICES ASSUME Inv, PictureIsFaithful, [Next]_vars
             PROVE  PictureIsFaithful'
  OBVIOUS
<1>1. CASE UNCHANGED canvas
  BY <1>1 DEF PictureIsFaithful
<1>2. ASSUME NEW q \in Requests, onreadystatechange(q), req[q].state = "200"
      PROVE  PictureIsFaithful'
  <2>1. req[q].body \in Reports /\ draw_map(req[q].body)
    <3>1. req[q] \in {Idle, Sent} \cup Answers
      BY DEF Inv, TypeOK
    <3>2. req[q] # Idle /\ req[q] # Sent
      BY <1>2 DEF Idle, Sent
    <3> QED
      BY <1>2, <3>1, <3>2 DEF Answers, Failures, onreadystatechange
  <2> QED
    BY <2>1, DrawnFaithfully
<1>3. CASE resize
  BY <1>3 DEF resize, Blank, PictureIsFaithful
<1>4. \/ UNCHANGED canvas
      \/ \E q \in Requests : onreadystatechange(q) /\ req[q].state = "200"
      \/ resize
  BY DEF Next, vars, request_data, answer, onreadystatechange, fail, play, edit
<1> QED
  BY <1>1, <1>2, <1>3, <1>4

\* Whatever report is drawn with a positive radius, by whichever answer: every
\* living player is on the map, where the local player sees him, with his
\* arrow, his icon, his team's colour and his line of sight.
THEOREM PicturesAreFaithful ==
  Spec => []PictureIsFaithful
<1>1. Init => PictureIsFaithful
  BY DEF Init, Blank, PictureIsFaithful
<1>2. Inv /\ PictureIsFaithful /\ [Next]_vars => PictureIsFaithful'
  BY NextFaithful
<1> QED
  BY <1>1, <1>2, WebClientInvariant, PTL DEF Spec
=============================================================================
