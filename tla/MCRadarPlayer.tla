--------------------------- MODULE MCRadarPlayer ----------------------------
(***************************************************************************)
(* Memories with a sound kit and at most two arbitrary pointers, and sound *)
(* memories with arbitrary names and at most one arbitrary pointer in each *)
(* slot of the kit.                                                        *)
(***************************************************************************)
EXTENDS RadarPlayer, FiniteSetsExt

Good == 12

\* Null, the limits of IsValidPtr and the top of the address space.
OddPtr == {Null, MinPtr - 1, MinPtr, MaxPtr - 1, Space - 1}

GunNames == {"MaximMG0815", "Dynamite", "Syringe", "Kolibri"}

GoodWeapon(n) == [weapon |-> Good, data |-> Good, name_ptr |-> Good, name |-> n]

GoodKit == [s \in Slot |-> GoodWeapon("Kolibri")]

GoodPtr == [c \in PtrCell |-> Good]

MaxFaults == 2

FaultyPtrs ==
  UNION {{[c \in PtrCell |-> IF c \in F THEN g[c] ELSE Good] :
            g \in [F -> OddPtr]} : F \in kSubset(MaxFaults, PtrCell)}

\* The failed second load of clientSoldierEntity(), with one odd weakptr.
UnreadEntity ==
  {[GoodPtr EXCEPT !["entity"] = NotRead, !["weakptr"] = w] : w \in OddPtr \cup {Good}}

Weapons ==
  {GoodWeapon(n) : n \in GunNames} \cup
  UNION {{[GoodWeapon("Dynamite") EXCEPT !.weapon = w],
          [GoodWeapon("Dynamite") EXCEPT !.data = w],
          [GoodWeapon("Dynamite") EXCEPT !.name_ptr = w]} : w \in {Null, MaxPtr - 1}}

Kits == {[GoodKit EXCEPT !["primary"] = a, !["gadget1"] = b, !["gadget2"] = c] :
           a, b, c \in Weapons}

\* The other slot.
SecondKits == {[GoodKit EXCEPT !["secondary"] = a] : a \in Weapons}

MCMemories ==
  {[ptr |-> f, kit |-> GoodKit] : f \in FaultyPtrs \cup UnreadEntity} \cup
  {[ptr |-> GoodPtr, kit |-> k] : k \in Kits \cup SecondKits}

\* Small offsets in the order of the structures in BFTypes.h.
MCOff == [c \in OffCell |->
  CASE c \in {"primary", "ClientPlayer"} -> 0
    [] c \in {"secondary", "Name", "healthComponent", "health", "weaponEntityData",
              "position"} -> 1
    [] c \in {"gadget1", "team", "prediction", "maxHealth"} -> 2
    [] c \in {"weakptr", "yaw", "fov"} -> 3
    [] c \in {"gadget2", "isVehicle", "weapons"} -> 4
    [] c \in {"playerKit", "clientWeapon", "activeWeapon"} -> 5
    [] c \in {"occluded", "entity"} -> 6
    [] OTHER -> 0]
=============================================================================
