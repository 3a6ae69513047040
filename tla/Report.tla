------------------------------- MODULE Report -------------------------------
(***************************************************************************)
(* The handler of /report: one request, running while the game goes on.    *)
(* A step is one load (or one group of loads of the same object); between  *)
(* two of them the game may move.  The walk over the capture points is     *)
(* that of CapturePoints; what a radar::Player constructor can do is what  *)
(* RadarPlayer shows of it: it yields the name and the rest as loaded,     *)
(* BadClientPlayer when there is no name, or, for a null pointer,          *)
(* BadClientPlayer or out_of_range.                                        *)
(***************************************************************************)
EXTENDS CapturePoints

CONSTANTS Slots,    \* max_players (64)
          Obj,      \* addresses of ClientPlayer objects
          Players,  \* the players considered: records of a name and a team
          NoObj     \* a null pointer

ASSUME SlotsAssumption == Slots \in Nat \ {0}
ASSUME NoObjAssumption == NoObj \notin Obj

\* An object whose memory was zeroed has no name pointer.
NoName == "no name"
Zeroed == [name |-> NoName, team |-> 0]

ASSUME PlayersAssumption == Players \subseteq [name : STRING \ {NoName}, team : Int]

VARIABLES manager,      \* GameClientContext's and its manager's pointers
          slot,         \* the PlayerList
          local,        \* m_pLocalPlayer
          obj,          \* what is in each ClientPlayer object
          pc,           \* next load of the request, or its outcome
          startedAt,    \* moves when the request began (auxiliary)
          i,            \* loop variable of read_remote_players
          o,            \* the ClientPlayer read for slot i
          name,         \* its name
          local_name,   \* what read_local_player returned
          local_player, \* result["local_player"]: name, and whose position
          rows,         \* result["team1"], result["team2"]
          present,      \* names seen in a slot since the request began (auxiliary)
          steady        \* slots whose player stayed as he was since then (auxiliary)

playerVars == <<manager, slot, local, obj>>
reqVars == <<startedAt, i, o, name, local_name, local_player, rows>>
reportVars == <<playerVars, pc, reqVars, present, steady, vars>>

Index == 0 .. (Slots - 1)

Pointers == [gameManager : BOOLEAN, playerManager : BOOLEAN, playerList : BOOLEAN]

None == "none"

\* The names of the players in the slots.
InSlots == {obj[slot[k]].name : k \in {j \in Index : slot[j] # NoObj}}

\* Two players never share an object, nor one a name.
Distinct(s, m) ==
  \A j, k \in Index : j # k /\ s[j] # NoObj /\ s[k] # NoObj =>
    s[j] # s[k] /\ m[s[j]].name # m[s[k]].name

\* A request comes in at any moment of the game: no match, a match being
\* set up, or one with players in some of the slots.
ReportInit ==
  /\ Init
  /\ manager \in {p \in Pointers : \A f, g \in DOMAIN p : f # g => p[f] \/ p[g]}
  /\ slot \in [Index -> Obj \cup {NoObj}]
  /\ obj \in [Obj -> Players \cup {Zeroed}]
  /\ \A x \in Obj : (\A k \in Index : slot[k] # x) <=> obj[x] = Zeroed
  /\ Distinct(slot, obj)
  /\ local \in Obj \cup {NoObj}
  /\ pc = "gameManager"
  /\ startedAt = 0
  /\ i = 0
  /\ o = NoObj
  /\ name = ""
  /\ local_name = ""
  /\ local_player = [name |-> None, at |-> None]
  /\ rows = [t \in 1 .. 2 |-> << >>]
  /\ present = {}
  /\ steady = {}

-----------------------------------------------------------------------------
(* The game moves. *)

Move ==
  /\ moves < MaxMoves
  /\ moves' = moves + 1
  /\ UNCHANGED <<pc, reqVars, points, link, walkVars>>

join(k, x, pl) ==
  /\ Move
  /\ slot[k] = NoObj /\ \A j \in Index : slot[j] # x
  /\ slot' = [slot EXCEPT ![k] = x]
  /\ obj' = [obj EXCEPT ![x] = pl]
  /\ Distinct(slot', obj')
  /\ present' = present \cup {pl.name}
  /\ UNCHANGED <<manager, local, steady>>

\* The object of a player who left keeps its contents, or is zeroed.
leave(k) ==
  /\ Move
  /\ slot[k] # NoObj
  /\ slot' = [slot EXCEPT ![k] = NoObj]
  /\ \/ obj' = obj
     \/ obj' = [obj EXCEPT ![slot[k]] = Zeroed]
  /\ steady' = steady \ {k}
  /\ UNCHANGED <<manager, local, present>>

changeTeam(k, t) ==
  /\ Move
  /\ slot[k] # NoObj
  /\ [obj[slot[k]] EXCEPT !.team = t] \in Players
  /\ obj' = [obj EXCEPT ![slot[k]] = [@ EXCEPT !.team = t]]
  /\ steady' = steady \ {k}
  /\ UNCHANGED <<manager, slot, local, present>>

\* A match is set up or torn down.
setPointers(p, x) ==
  /\ Move
  /\ manager' = p
  /\ local' = x
  /\ UNCHANGED <<slot, obj, present, steady>>

PlayersMove ==
  \/ \E k \in Index, x \in Obj, pl \in Players : join(k, x, pl)
  \/ \E k \in Index : leave(k)
  \/ \E k \in Index, t \in 0 .. 2 : changeTeam(k, t)
  \/ \E p \in Pointers, x \in Obj \cup {NoObj} : setPointers(p, x)

PointsMove ==
  /\ Game
  /\ UNCHANGED <<playerVars, pc, reqVars, present, steady>>

-----------------------------------------------------------------------------
(* The request. *)

\* construct_player_manager: each of its two pointers is checked, and its
\* exception becomes a report that says failure.
gameManager ==
  /\ pc = "gameManager"
  /\ pc' = IF manager.gameManager THEN "playerManager"
                                  ELSE "bad client game manager"
  /\ startedAt' = moves
  /\ present' = InSlots
  /\ steady' = {k \in Index : slot[k] # NoObj}
  /\ UNCHANGED <<playerVars, i, o, name, local_name, local_player, rows, vars>>

playerManager ==
  /\ pc = "playerManager"
  /\ pc' = IF manager.playerManager THEN "localPlayer"
                                    ELSE "bad client player manager"
  /\ UNCHANGED <<playerVars, reqVars, present, steady, vars>>

\* A ClientPlayer pointer that leads to an object with a name.
Named(x) == x # NoObj /\ obj[x].name # NoName

\* read_local_player: BadClientPlayer gives the empty name; for a null
\* pointer the name pointer is whatever the stack holds, and if that is a
\* valid address team() throws out_of_range, which nothing catches.
read_local_player ==
  /\ pc = "localPlayer"
  /\ \/ /\ Named(local)
        /\ local_name' = obj[local].name
        /\ local_player' = [local_player EXCEPT !.name = obj[local].name]
        /\ pc' = "players"
     \/ /\ ~Named(local)
        /\ local_name' = ""
        /\ UNCHANGED local_player
        /\ pc' = "players"
     \/ /\ local = NoObj
        /\ pc' = "500"
        /\ UNCHANGED <<local_name, local_player>>
  /\ UNCHANGED <<playerVars, startedAt, i, o, name, rows, present, steady, vars>>

\* player_manager.players() accepts any pointer and keeps it for the whole
\* loop; with an invalid one clientPlayerAt(0) throws out_of_range.
players ==
  /\ pc = "players"
  /\ pc' = IF manager.playerList THEN "clientPlayerAt" ELSE "500"
  /\ i' = 0
  /\ UNCHANGED <<playerVars, startedAt, o, name, local_name, local_player,
                 rows, present, steady, vars>>

\* The end of the loop body.
NextSlot ==
  /\ i' = i + 1
  /\ pc' = IF i + 1 < Slots THEN "clientPlayerAt" ELSE "flags"

\* player_list.clientPlayerAt(i): BadClientPlayer skips the slot.
clientPlayerAt ==
  /\ pc = "clientPlayerAt"
  /\ \/ /\ slot[i] = NoObj
        /\ NextSlot
        /\ o' = NoObj
     \/ /\ slot[i] # NoObj
        /\ o' = slot[i]
        /\ pc' = "name"
        /\ i' = i
  /\ UNCHANGED <<playerVars, startedAt, name, local_name, local_player,
                 rows, present, steady, vars>>

\* Mistake: a name pointer that is not valid is taken for a name.
readName_unchecked ==
  /\ pc = "name"
  /\ name' = obj[o].name
  /\ pc' = "team"
  /\ UNCHANGED <<playerVars, startedAt, i, o, local_name, local_player,
                 rows, present, steady, vars>>

\* Mistake: the handler of BadClientPlayer is around the whole loop.
readName_ends ==
  /\ pc = "name"
  /\ \/ /\ obj[o].name = NoName
        /\ pc' = "flags"
        /\ name' = ""
     \/ /\ obj[o].name # NoName
        /\ name' = obj[o].name
        /\ pc' = "team"
  /\ UNCHANGED <<playerVars, startedAt, i, o, local_name, local_player,
                 rows, present, steady, vars>>

\* p.name(), the first load of the constructor.
readName ==
  /\ pc = "name"
  /\ \/ /\ obj[o].name = NoName
        /\ NextSlot
        /\ name' = ""
     \/ /\ obj[o].name # NoName
        /\ name' = obj[o].name
        /\ pc' = "team"
        /\ i' = i
  /\ UNCHANGED <<playerVars, startedAt, o, local_name, local_player,
                 rows, present, steady, vars>>

\* Mistake: the local player is listed like any other.
readRest_lists_local ==
  LET t == obj[o].team
  IN  /\ pc = "team"
      /\ NextSlot
      /\ local_player' = [local_player EXCEPT
                            !.at = IF name = local_name THEN obj[o].name ELSE @]
      /\ rows' = IF t \in {1, 2}
                 THEN [rows EXCEPT ![t] =
                         Append(@, [name |-> name, at |-> obj[o].name])]
                 ELSE rows
      /\ UNCHANGED <<playerVars, startedAt, o, name, local_name, present, steady, vars>>

\* Mistake: the slot is loaded once more for the position.
readRest_reloads ==
  LET t == obj[o].team
      at == IF slot[i] = NoObj THEN None ELSE obj[slot[i]].name
  IN  /\ pc = "team"
      /\ NextSlot
      /\ \/ /\ name = local_name
            /\ local_player' = [local_player EXCEPT !.at = at]
            /\ rows' = rows
         \/ /\ name # local_name
            /\ rows' = IF t \in {1, 2}
                       THEN [rows EXCEPT ![t] = Append(@, [name |-> name, at |-> at])]
                       ELSE rows
            /\ UNCHANGED local_player
      /\ UNCHANGED <<playerVars, startedAt, o, name, local_name, present, steady, vars>>

\* The rest of the constructor, and of the loop body: the local player is
\* given the position found here and not listed, other players get a row in
\* the list of team 1 or 2.  A row also holds whose position it shows.
readRest ==
  LET t == obj[o].team
  IN  /\ pc = "team"
      /\ NextSlot
      /\ \/ /\ name = local_name
            /\ local_player' = [local_player EXCEPT !.at = obj[o].name]
            /\ rows' = rows
         \/ /\ name # local_name /\ t \notin {1, 2}
            /\ UNCHANGED <<local_player, rows>>
         \/ /\ name # local_name /\ t \in {1, 2}
            /\ rows' = [rows EXCEPT ![t] =
                          Append(@, [name |-> name, at |-> obj[o].name])]
            /\ UNCHANGED local_player
      /\ UNCHANGED <<playerVars, startedAt, o, name, local_name, present, steady, vars>>

\* add_flags_to_result, step by step.
addFlags ==
  /\ pc = "flags"
  /\ \/ (begin \/ Walking) /\ pc' = pc
     \/ walk = "ok" /\ pc' = "success" /\ UNCHANGED vars
     \/ walk = "out_of_range" /\ pc' = "500" /\ UNCHANGED vars
  /\ UNCHANGED <<playerVars, reqVars, present, steady>>

Answered ==
  /\ pc \in {"success", "bad client game manager", "bad client player manager", "500"}
  /\ UNCHANGED reportVars

Handler ==
  \/ gameManager \/ playerManager \/ read_local_player \/ players
  \/ clientPlayerAt \/ readName \/ readRest \/ addFlags

ReportNext == Handler \/ PlayersMove \/ PointsMove \/ Answered

ReportSpec == ReportInit /\ [][ReportNext]_reportVars

-----------------------------------------------------------------------------
\* What a report of the present state of the game says.
LocalName == IF Named(local) THEN obj[local].name ELSE ""

Shown(k, t) ==
  Named(slot[k]) /\ obj[slot[k]].name # LocalName /\ obj[slot[k]].team = t

\* s lists the players of team t in the first n slots, in slot order: at[j]
\* is the slot of its j-th row.
Lists(s, t, n) ==
  \E at \in [1 .. Len(s) -> Index] :
    /\ \A j \in 1 .. Len(s) : /\ at[j] < n /\ Shown(at[j], t)
                              /\ s[j] = [name |-> obj[slot[at[j]]].name,
                                         at   |-> obj[slot[at[j]]].name]
    /\ \A j, k \in 1 .. Len(s) : j < k => at[j] < at[k]
    /\ \A k \in Index : k < n /\ Shown(k, t) => \E j \in 1 .. Len(s) : at[j] = k

\* If the game does not move during the request, the report is the state of
\* the game: everyone else in slot order under his team, the local player's
\* name and position apart from them, all flags; and it fails only for the
\* pointer that is missing (the /report handler and all that it calls).
QuietReportIsSnapshot ==
  moves = startedAt =>
    /\ pc = "success" =>
         /\ \A f \in DOMAIN manager : manager[f]
         /\ \A t \in 1 .. 2 : Lists(rows[t], t, Slots)
         /\ local_player.name = IF Named(local) THEN LocalName ELSE None
         /\ local_player.at = IF LocalName \in InSlots THEN LocalName ELSE None
         /\ flags = points
    /\ pc = "bad client game manager" => ~manager.gameManager
    /\ pc = "bad client player manager" => ~manager.playerManager
    /\ pc = "500" => local = NoObj \/ ~manager.playerList

\* Whatever the game does meanwhile, nobody is listed who was not in a slot
\* at some time during the request.
NoGhostRows ==
  \A t \in 1 .. 2 : \A k \in 1 .. Len(rows[t]) : rows[t][k].name \in present

\* One player's name beside another one's position, or a player listed
\* twice, takes at least two moves of the game within one request (his
\* object or his slot was given up and taken again): a single death, team
\* change, arrival or departure never mixes up rows of read_remote_players.
OneMoveKeepsRowsApart ==
  moves < startedAt + 2 =>
    LET all == {r \in (1 .. 2) \X (1 .. Slots) : r[2] <= Len(rows[r[1]])}
    IN  /\ \A r \in all : rows[r[1]][r[2]].name = rows[r[1]][r[2]].at
        /\ \A r, s \in all :
             r # s => rows[r[1]][r[2]].name # rows[s[1]][s[2]].name
\* A player who keeps his slot and his team all through a request is in its
\* report, once and under his own team, with his own position, however often
\* the others come, go and change meanwhile (read_remote_players): a slot
\* that fails ends neither the loop nor the rows of the others.  Whoever
\* has the name that was read as the local player's gives the local player
\* his position instead, and is not listed.
SteadyPlayersAreListed ==
  pc = "success" =>
    \A k \in steady :
      LET pl     == obj[slot[k]]
          his(t) == {j \in 1 .. Len(rows[t]) : rows[t][j].name = pl.name}
      IN  /\ pl.name = local_name => local_player.at = pl.name
          /\ \A t \in 1 .. 2 :
               IF pl.team = t /\ pl.name # local_name
               THEN \E j \in his(t) : his(t) = {j} /\ rows[t][j].at = pl.name
               ELSE his(t) = {}
=============================================================================
