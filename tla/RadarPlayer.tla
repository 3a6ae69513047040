---------------------------- MODULE RadarPlayer -----------------------------
(***************************************************************************)
(* radar::Player's constructor, which walks from a ClientPlayer through    *)
(* the game's objects, and the two accessors that yield a ClientPlayer.    *)
(*                                                                         *)
(* The constructor loads every cell at most once, so the game changing     *)
(* memory while it runs cannot be told from another memory at its start:   *)
(* memory is chosen once, and any value may be in any cell (stale, torn,   *)
(* or left in the buffer by a failed ReadProcessMemory).                   *)
(***************************************************************************)
EXTENDS LazyReaders, Sequences

CONSTANTS WeaponName,  \* what weaponName() may find in the game
          Memories,    \* the memories considered: records of PtrCells and a kit
          Off          \* offset of each cell in the object that holds it

\* The pointers loaded on the way, and the values loaded through them.
PtrCell == {"ClientPlayer", "Name", "weakptr", "entity", "weapons", "playerKit",
            "healthComponent", "activeWeapon", "clientWeapon", "prediction"}

Field == {"name", "team", "isVehicle", "yaw", "occluded", "health", "maxHealth",
          "fov", "position"}

\* The four slots of the PlayerKit that are reported.
Slot == {"primary", "secondary", "gadget1", "gadget2"}

KitCell == {"weaponEntityData"}

\* entity may also be NotRead: the second load of clientSoldierEntity()
\* failed and its buffer still holds the first one's result.
NotRead == -2

Memory ==
  [ptr : [PtrCell -> Addr \cup {NotRead}],
   kit : [Slot -> [weapon : Addr, data : Addr, name_ptr : Addr, name : WeaponName]]]

OffCell == PtrCell \cup Field \cup Slot \cup KitCell

ASSUME OffAssumption == Off \in [OffCell -> Offset]

\* Only the second load of clientSoldierEntity() reuses a buffer.
ASSUME MemoriesAssumption ==
  \A m \in Memories :
    m \in Memory /\ \A c \in PtrCell \ {"entity"} : m.ptr[c] \in Addr

VARIABLES mem,          \* the memory of the game
          source,       \* how the ClientPlayer was found
          pc,           \* where the constructor is, or how it ended
          p,            \* base_addr of the ClientPlayer
          cse,          \* base_addr of the ClientSoldierEntity
          got,          \* the fields that have been assigned
          kitName,      \* _primaryName, _secondaryName, _gadget1Name, _gadget2Name
          playerClass   \* _playerClass

vars == <<mem, source, pc, p, cse, got, kitName, playerClass>>

Ended == {"constructed", "BadClientPlayer", "out_of_range"}

Init ==
  /\ mem \in Memories
  /\ source \in {"localPlayer", "clientPlayerAt"}
  /\ pc = "start"
  /\ p = Null
  /\ cse = Null
  /\ got = {}
  /\ kitName = [s \in Slot |-> "unknown"]
  /\ playerClass = "unknown"

-----------------------------------------------------------------------------
\* class_lookup and lookup().
class_lookup ==
  [Assault |-> {"AntiChars", "Dynamite", "TankGewehr"},
   Medic   |-> {"Syringe", "Medic Bag"},
   Support |-> {"SmallAmmopack", "AmmoCrate", "Wrench", "Mortar",
                "RifleGrenadeLauncher"},
   Scout   |-> {"Webbey Scott Flare Gun", "Shield", "Trench Periscope",
                "Tripwire Bomb"}]

lookup(name) ==
  IF \E k \in DOMAIN class_lookup : name \in class_lookup[k]
  THEN CHOOSE k \in DOMAIN class_lookup : name \in class_lookup[k]
  ELSE ""

determine_class(g1, g2) ==
  CASE lookup(g1) # "" -> lookup(g1)
    [] lookup(g1) = "" /\ lookup(g2) # "" -> lookup(g2)
    [] OTHER -> "unknown"

\* k.<slot>().weaponEntityData().weaponName() with the handler around it:
\* two guarded loads, then the name pointer and the name, loaded without a
\* guard on their base.
slotName(kit, s) ==
  LET m      == mem.kit[s]
      weapon == read(kit, Off[s], m.weapon)
      data   == read(weapon, Off["weaponEntityData"], m.data)
  IN  IF data = Throw \/ ~IsValidPtr(m.name_ptr) THEN "" ELSE m.name

-----------------------------------------------------------------------------
\* ClientPlayerManager::localPlayer(), which takes any pointer.
localPlayer ==
  /\ pc = "start" /\ source = "localPlayer"
  /\ p' = mem.ptr["ClientPlayer"]
  /\ pc' = "read_ClientPlayer"
  /\ UNCHANGED <<mem, source, cse, got, kitName, playerClass>>

\* Mistake: clientPlayerAt() does not check the pointer.
clientPlayerAt_unchecked ==
  /\ pc = "start" /\ source = "clientPlayerAt"
  /\ p' = mem.ptr["ClientPlayer"]
  /\ pc' = "read_ClientPlayer"
  /\ UNCHANGED <<mem, source, cse, got, kitName, playerClass>>

\* PlayerList::clientPlayerAt(), which checks it.
clientPlayerAt ==
  /\ pc = "start" /\ source = "clientPlayerAt"
  /\ IF IsValidPtr(mem.ptr["ClientPlayer"])
     THEN p' = mem.ptr["ClientPlayer"] /\ pc' = "read_ClientPlayer"
     ELSE p' = p /\ pc' = "BadClientPlayer"
  /\ UNCHANGED <<mem, source, cse, got, kitName, playerClass>>

\* Player::read_ClientPlayer: name() loads its pointer unguarded, and BadName
\* becomes BadClientPlayer; team() and clientVehicleEntity() are guarded, and
\* what they throw leaves the constructor.
read_ClientPlayer ==
  /\ pc = "read_ClientPlayer"
  /\ \/ /\ ~IsValidPtr(mem.ptr["Name"])
        /\ pc' = "BadClientPlayer"
        /\ got' = got
     \/ /\ IsValidPtr(mem.ptr["Name"])
        /\ ~Readable(p, Off["team"]) \/ ~Readable(p, Off["isVehicle"])
        /\ pc' = "out_of_range"
        /\ got' = got
     \/ /\ IsValidPtr(mem.ptr["Name"])
        /\ Readable(p, Off["team"]) /\ Readable(p, Off["isVehicle"])
        /\ pc' = "clientSoldierEntity"
        /\ got' = got \cup {"name", "team", "isVehicle"}
  /\ UNCHANGED <<mem, source, p, cse, kitName, playerClass>>

\* ClientPlayer::clientSoldierEntity(): two unguarded loads through the weak
\* pointer; BadClientSoldierEntity ends the constructor normally.
clientSoldierEntity ==
  LET indirect == mem.ptr["weakptr"]
      loaded   == IF mem.ptr["entity"] = NotRead THEN indirect
                                                 ELSE mem.ptr["entity"]
      entity   == Minus(loaded, Word)
  IN  /\ pc = "clientSoldierEntity"
      /\ IF IsValidPtr(indirect) /\ IsValidPtr(entity)
         THEN cse' = entity /\ pc' = "read_ClientSoldierEntity"
         ELSE cse' = cse /\ pc' = "constructed"
      /\ UNCHANGED <<mem, source, p, got, kitName, playerClass>>

\* Player::read_ClientSoldierEntity up to its first try: yaw and occluded
\* are loaded outside of any handler.
read_ClientSoldierEntity ==
  /\ pc = "read_ClientSoldierEntity"
  /\ IF Readable(cse, Off["yaw"]) /\ Readable(cse, Off["occluded"])
     THEN got' = got \cup {"yaw", "occluded"} /\ pc' = "read_PlayerKit"
     ELSE got' = got /\ pc' = "out_of_range"
  /\ UNCHANGED <<mem, source, p, cse, kitName, playerClass>>

\* Mistake: one handler around all components, so that a missing kit ends
\* the constructor.
read_PlayerKit_ends ==
  LET weapons == read(cse, Off["weapons"], mem.ptr["weapons"])
      kit     == read(weapons, Off["playerKit"], mem.ptr["playerKit"])
      names   == [s \in Slot |-> slotName(kit, s)]
  IN  /\ pc = "read_PlayerKit"
      /\ IF kit = Throw
         THEN /\ pc' = "constructed"
              /\ UNCHANGED <<kitName, playerClass>>
         ELSE /\ pc' = "read_Health"
              /\ kitName' = names
              /\ playerClass' =
                   IF names["primary"] = "MaximMG0815" THEN "Sentry"
                   ELSE determine_class(names["gadget1"], names["gadget2"])
      /\ UNCHANGED <<mem, source, p, cse, got>>

\* Player::read_PlayerKit, unless loading the kit pointer throws.
read_PlayerKit ==
  LET weapons == read(cse, Off["weapons"], mem.ptr["weapons"])
      kit     == read(weapons, Off["playerKit"], mem.ptr["playerKit"])
      names   == [s \in Slot |-> slotName(kit, s)]
  IN  /\ pc = "read_PlayerKit"
      /\ IF kit = Throw
         THEN UNCHANGED <<kitName, playerClass>>
         ELSE /\ kitName' = names
              /\ playerClass' =
                   IF names["primary"] = "MaximMG0815" THEN "Sentry"
                   ELSE determine_class(names["gadget1"], names["gadget2"])
      /\ pc' = "read_Health"
      /\ UNCHANGED <<mem, source, p, cse, got>>

\* Player::read_BFClientSoldierHealthComponent: health stays assigned when
\* maxHealth throws.
read_Health ==
  LET h == read(cse, Off["healthComponent"], mem.ptr["healthComponent"])
  IN  /\ pc = "read_Health"
      /\ got' = got \cup
           IF ~Readable(h, Off["health"]) THEN {}
           ELSE IF ~Readable(h, Off["maxHealth"]) THEN {"health"}
           ELSE {"health", "maxHealth"}
      /\ pc' = "read_ClientSoldierWeapon"
      /\ UNCHANGED <<mem, source, p, cse, kitName, playerClass>>

\* Player::read_ClientSoldierWeapon.
read_ClientSoldierWeapon ==
  LET w == read(cse, Off["activeWeapon"], mem.ptr["activeWeapon"])
      c == read(w, Off["clientWeapon"], mem.ptr["clientWeapon"])
  IN  /\ pc = "read_ClientSoldierWeapon"
      /\ got' = got \cup IF Readable(c, Off["fov"]) THEN {"fov"} ELSE {}
      /\ pc' = "read_ClientSoldierPrediction"
      /\ UNCHANGED <<mem, source, p, cse, kitName, playerClass>>

\* Player::read_ClientSoldierPrediction, the last step.
read_ClientSoldierPrediction ==
  LET d == read(cse, Off["prediction"], mem.ptr["prediction"])
  IN  /\ pc = "read_ClientSoldierPrediction"
      /\ got' = got \cup IF Readable(d, Off["position"]) THEN {"position"} ELSE {}
      /\ pc' = "constructed"
      /\ UNCHANGED <<mem, source, p, cse, kitName, playerClass>>

\* The constructor is over, normally or with an exception.
Done ==
  /\ pc \in Ended
  /\ UNCHANGED vars

Next ==
  \/ localPlayer
  \/ clientPlayerAt
  \/ read_ClientPlayer
  \/ clientSoldierEntity
  \/ read_ClientSoldierEntity
  \/ read_PlayerKit
  \/ read_Health
  \/ read_ClientSoldierWeapon
  \/ read_ClientSoldierPrediction
  \/ Done

Spec == Init /\ [][Next]_vars

-----------------------------------------------------------------------------
TypeOK ==
  /\ mem \in Memory
  /\ source \in {"localPlayer", "clientPlayerAt"}
  /\ pc \in Ended \cup {"start", "read_ClientPlayer", "clientSoldierEntity",
                        "read_ClientSoldierEntity", "read_PlayerKit", "read_Health",
                        "read_ClientSoldierWeapon", "read_ClientSoldierPrediction"}
  /\ p \in Addr
  /\ cse \in Addr
  /\ got \in SUBSET Field
  /\ kitName \in [Slot -> WeaponName \cup {"", "unknown"}]
  /\ playerClass \in {"unknown", "Sentry", "Assault", "Medic", "Support", "Scout"}

\* Every field of an object at b lies among the valid addresses.
Inside(b) == MinPtr <= b /\ b + MinPtr <= MaxPtr

\* std::out_of_range leaves the constructor only for a ClientPlayer or
\* ClientSoldierEntity pointer that is invalid, or so close to the end of
\* the valid addresses that a field lies beyond them.  A player found by
\* clientPlayerAt(), whose pointer was checked, must be of the second kind:
\* nothing missing further down (RadarPlayer.cpp) aborts the report.
EscapeNeedsBadBase ==
  pc = "out_of_range" =>
    \/ ~Inside(p) /\ (source = "clientPlayerAt" => p + MinPtr > MaxPtr)
    \/ ~Inside(cse) /\ cse + MinPtr > MaxPtr

\* The pointers that lead from the ClientSoldierEntity to a field.
Path ==
  [health    |-> <<"entity", "healthComponent">>,
   maxHealth |-> <<"entity", "healthComponent">>,
   fov       |-> <<"entity", "activeWeapon", "clientWeapon">>,
   position  |-> <<"entity", "prediction">>,
   playerKit |-> <<"entity", "weapons">>]

Object(c) == IF c = "entity" THEN cse ELSE mem.ptr[c]

\* f can be loaded: the address of every cell on its path is valid.
Sound(f) ==
  \A i \in 1 .. Len(Path[f]) :
    LET cell == IF i < Len(Path[f]) THEN Path[f][i + 1] ELSE f
    IN  IsValidPtr(Plus(Object(Path[f][i]), Off[cell]))

\* The name of slot s can be loaded through the kit.
SoundSlot(s) ==
  /\ IsValidPtr(Plus(mem.ptr["playerKit"], Off[s]))
  /\ IsValidPtr(Plus(mem.kit[s].weapon, Off["weaponEntityData"]))
  /\ IsValidPtr(mem.kit[s].name_ptr)

\* What the report has to say of slot s.
NameOf(s) ==
  IF ~Sound("playerKit") THEN "unknown" ELSE IF SoundSlot(s) THEN mem.kit[s].name ELSE ""

\* The gadgets say that the player is a k: the second one is asked when the
\* first belongs to no class.
GadgetsSay(k) ==
  \/ NameOf("gadget1") \in class_lookup[k]
  \/ /\ \A c \in DOMAIN class_lookup : NameOf("gadget1") \notin class_lookup[c]
     /\ NameOf("gadget2") \in class_lookup[k]

\* "It tries very hard to return whatever is known about a player"
\* (RadarPlayer.h): once the soldier is known, each of its components is
\* reported exactly when its own pointers are sound, whatever is wrong with
\* the others.  A slot of a sound kit has the name behind its pointers, or
\* the empty name if these are not sound; and the class is exactly the one
\* that the names say.
WhatIsKnownIsReported ==
  pc = "constructed" /\ "yaw" \in got =>
    /\ \A f \in {"health", "fov", "position"} : f \in got <=> Sound(f)
    /\ "maxHealth" \in got <=> Sound("health") /\ Sound("maxHealth")
    /\ \A s \in Slot : kitName[s] = NameOf(s)
    /\ playerClass = "Sentry" <=> NameOf("primary") = "MaximMG0815"
    /\ NameOf("primary") # "MaximMG0815" =>
         /\ \A k \in DOMAIN class_lookup : playerClass = k <=> GadgetsSay(k)
         /\ playerClass = "unknown" <=> \A k \in DOMAIN class_lookup : ~GadgetsSay(k)
=============================================================================
