--------------------------- MODULE CapturePoints ----------------------------
(***************************************************************************)
(* add_flags_to_result: the walk over the game's list of capture points,   *)
(* one load at a time, while the game links and unlinks entities.          *)
(*                                                                         *)
(* A link holds the address of the next entity's link field; first() and   *)
(* next() subtract that field's offset and hasNext() adds it again, so the *)
(* walk stands at the link it followed, and a link of 0 gives a reader on  *)
(* which every guarded load throws (LinkIsReadBack and NullLinkThrows in   *)
(* RadarPlayerProofs).                                                     *)
(***************************************************************************)
EXTENDS Integers, Sequences, SequencesExt

CONSTANTS Entity,    \* addresses of capture point entities
          MaxMoves   \* bound: changes of the list in one behaviour

Null == "null"

ASSUME EntityAssumption == Null \notin Entity /\ IsFiniteSet(Entity)
ASSUME MovesAssumption == MaxMoves \in Nat

VARIABLES points,    \* the game's list, in order
          link,      \* link[e]: e's next, kept or zeroed once e is unlinked
          moves,     \* changes of the list so far
          walk,      \* next load of add_flags_to_result, or its outcome
          flag,      \* the entity the walk stands on
          has_next,  \* the value loaded by hasNext()
          flags,     \* result["flags"]: the entities whose rows were written
          before,    \* the list when the walk began (auxiliary)
          movedAt,   \* moves when the walk began (auxiliary)
          members,   \* entities listed at some time of the walk (auxiliary)
          always,    \* entities listed all through the walk (auxiliary)
          overwritten \* memory of an entity destroyed in the walk changed (auxiliary)

gameVars == <<points, link, moves>>
walkVars == <<walk, flag, has_next, flags, before, movedAt, members, always, overwritten>>
vars == <<points, link, moves, walk, flag, has_next, flags, before, movedAt,
          members, always, overwritten>>

\* What ClientCapturePointEntity_ClassInfo's first holds.
First == IF points = << >> THEN Null ELSE Head(points)

\* The links of the entities in list s; the others keep those of old.
Links(s, old) ==
  [e \in Entity |->
     IF e \in ToSet(s)
     THEN LET i == CHOOSE j \in 1 .. Len(s) : s[j] = e
          IN  IF i < Len(s) THEN s[i + 1] ELSE Null
     ELSE old[e]]

Init ==
  /\ points \in SetToAllKPermutations(Entity)
  /\ link = Links(points, [e \in Entity |-> Null])
  /\ moves = 0
  /\ walk = "idle"
  /\ flag = Null
  /\ has_next = TRUE
  /\ flags = << >>
  /\ before = << >>
  /\ movedAt = 0
  /\ members = {}
  /\ always = {}
  /\ overwritten = FALSE

-----------------------------------------------------------------------------
(* The game. *)

Listed(e) == e \in ToSet(points)

Inserted(s) ==
  /\ points' = s
  /\ link' = Links(s, link)
  /\ members' = IF walk = "idle" THEN {} ELSE members \cup ToSet(s)

\* A capture point is created at either end of the list.
create(e) ==
  /\ moves < MaxMoves
  /\ ~Listed(e)
  /\ \/ Inserted(<<e>> \o points)
     \/ Inserted(Append(points, e))
  /\ moves' = moves + 1
  /\ overwritten' = (overwritten \/ e \in members)
  /\ UNCHANGED <<walk, flag, has_next, flags, before, movedAt, always>>

\* A capture point is destroyed: its memory keeps its link, or is zeroed.
destroy(e) ==
  \E n \in 1 .. Len(points) :
    LET rest == RemoveAt(points, n)
    IN  /\ moves < MaxMoves
        /\ points[n] = e
        /\ points' = rest
        /\ \/ link' = Links(rest, link) /\ overwritten' = overwritten
           \/ link' = [Links(rest, link) EXCEPT ![e] = Null] /\ overwritten' = TRUE
        /\ moves' = moves + 1
        /\ always' = always \ {e}
        /\ UNCHANGED <<walk, flag, has_next, flags, before, movedAt, members>>

-----------------------------------------------------------------------------
(* The walk. *)

\* A request reaches add_flags_to_result.
begin ==
  /\ walk = "idle"
  /\ walk' = "first"
  /\ before' = points
  /\ movedAt' = moves
  /\ members' = ToSet(points)
  /\ always' = ToSet(points)
  /\ overwritten' = FALSE
  /\ UNCHANGED <<points, link, moves, flag, has_next, flags>>

\* ClientCapturePointEntity_ClassInfo::first(): only a null pointer is
\* refused, and NoCapturePointEntityExists means there are no flags.
first ==
  /\ walk = "first"
  /\ flag' = First
  /\ walk' = IF First = Null THEN "ok" ELSE "hasNext"
  /\ has_next' = TRUE
  /\ UNCHANGED <<points, link, moves, flags, before, movedAt, members,
                 always, overwritten>>

\* Mistake: as many rows as there were capture points at the beginning.
hasNext_counted ==
  /\ walk = "hasNext"
  /\ \/ /\ has_next /\ flag # Null
        /\ has_next' = (Len(flags) + 1 < Len(before))
        /\ walk' = "row"
     \/ /\ has_next /\ flag = Null
        /\ walk' = "out_of_range"
        /\ has_next' = has_next
     \/ /\ ~has_next
        /\ walk' = "ok"
        /\ has_next' = has_next
  /\ UNCHANGED <<points, link, moves, flag, flags, before, movedAt, members,
                 always, overwritten>>

\* Mistake: a load that fails is tried again, at the same address.
hasNext_retried ==
  /\ walk = "hasNext"
  /\ has_next' = (has_next /\ (flag = Null \/ link[flag] # Null))
  /\ walk' = IF ~has_next THEN "ok" ELSE IF flag = Null THEN "hasNext" ELSE "row"
  /\ UNCHANGED <<points, link, moves, flag, flags, before, movedAt, members,
                 always, overwritten>>

\* The loop condition, then hasNext().
hasNext ==
  /\ walk = "hasNext"
  /\ \/ /\ has_next /\ flag # Null
        /\ has_next' = (link[flag] # Null)
        /\ walk' = "row"
     \/ /\ has_next /\ flag = Null
        /\ walk' = "out_of_range"
        /\ has_next' = has_next
     \/ /\ ~has_next
        /\ walk' = "ok"
        /\ has_next' = has_next
  /\ UNCHANGED <<points, link, moves, flag, flags, before, movedAt, members,
                 always, overwritten>>

\* The fields of one row.
row ==
  /\ walk = "row"
  /\ flags' = Append(flags, flag)
  /\ walk' = "next"
  /\ UNCHANGED <<points, link, moves, flag, has_next, before, movedAt, members,
                 always, overwritten>>

\* if (has_next) flag = flag.next(): the link is loaded a second time.
next ==
  /\ walk = "next"
  /\ flag' = IF has_next THEN link[flag] ELSE flag
  /\ walk' = "hasNext"
  /\ UNCHANGED <<points, link, moves, has_next, flags, before, movedAt, members,
                 always, overwritten>>

\* Mistake: one result for all requests.
finish_keeps_result ==
  /\ walk \in {"ok", "out_of_range"}
  /\ walk' = "idle"
  /\ flag' = Null
  /\ has_next' = TRUE
  /\ before' = << >>
  /\ movedAt' = 0
  /\ members' = {}
  /\ always' = {}
  /\ overwritten' = FALSE
  /\ UNCHANGED <<gameVars, flags>>

\* The report is sent; the next request starts afresh.
finish ==
  /\ walk \in {"ok", "out_of_range"}
  /\ walk' = "idle"
  /\ flag' = Null
  /\ has_next' = TRUE
  /\ flags' = << >>
  /\ before' = << >>
  /\ movedAt' = 0
  /\ members' = {}
  /\ always' = {}
  /\ overwritten' = FALSE
  /\ UNCHANGED gameVars

Game == \E e \in Entity : create(e) \/ destroy(e)

Walking == first \/ hasNext \/ row \/ next

Next == Game \/ begin \/ Walking \/ finish

Spec == Init /\ [][Next]_vars

\* The worker thread that runs the handler is scheduled.
FairSpec == Spec /\ WF_vars(Walking)
-----------------------------------------------------------------------------
\* The list did not change since the walk began.
Quiet == moves = movedAt

\* Every row is about an entity that was in the list at some time during
\* the walk, also when the walk went on through unlinked entities; and no
\* entity has two rows, unless the memory of a destroyed one was zeroed or
\* used again: then the walk can come back to what it has passed.
RowsWereMembers ==
  walk # "idle" =>
    /\ ToSet(flags) \subseteq members
    /\ ~overwritten => \A j, k \in 1 .. Len(flags) : flags[j] = flags[k] => j = k

\* A capture point that exists all through the walk is reported, unless
\* the memory of a destroyed one was zeroed or used again: then the walk
\* may stop early and still succeed.  While the list stands still the rows
\* are exactly the list, in order, and the walk does not fail.
StablePointsAreReported ==
  /\ walk = "ok" /\ ~overwritten => always \subseteq ToSet(flags)
  /\ walk = "ok" /\ Quiet => flags = before
  /\ walk = "out_of_range" => ~Quiet

\* The walk ends although the game changes the list while it runs.
WalkEnds == walk = "first" ~> walk \in {"ok", "out_of_range"}

\* "None of these are critical, shut-it-down errors" (Exceptions.h:6): a
\* capture point that is not there does not make the report fail.
MissingPointIsHarmless == walk # "out_of_range"
=============================================================================
