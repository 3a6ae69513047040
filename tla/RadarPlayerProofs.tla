------------------------- MODULE RadarPlayerProofs --------------------------
(***************************************************************************)
(* Which pointers can make radar::Player's constructor throw, and what it  *)
(* reports when it does not, for every memory, every layout of the         *)
(* structures and every address range.                                     *)
(***************************************************************************)
EXTENDS RadarPlayer, TLAPS

-----------------------------------------------------------------------------
\* uintptr_t arithmetic: next() subtracts an offset that hasNext() adds
\* again, and the sum is the address that was loaded.
LEMMA LinkIsReadBack ==
  ASSUME NEW a \in Addr, NEW off \in Offset
  PROVE  Minus(a, off) \in Addr /\ Plus(Minus(a, off), off) = a
  BY PtrAssumption DEF Addr, Offset, Minus, Plus

\* A reader on a null link refuses the load of the link, whatever the
\* offset of the link field: the sum is address 0.
LEMMA NullLinkThrows ==
  ASSUME NEW off \in Offset
  PROVE  ~Readable(Minus(Null, off), off)
  <1>1. Null \in Addr
    BY PtrAssumption DEF Null, Addr
  <1> QED
    BY <1>1, LinkIsReadBack, PtrAssumption DEF Readable, IsValidPtr, Null

\* The guard of read<T> lets every field pass of an object that lies inside
\* the valid addresses.
LEMMA InsideIsReadable ==
  ASSUME NEW b \in Addr, NEW off \in Offset, Inside(b)
  PROVE  Readable(b, off)
  BY PtrAssumption DEF Addr, Offset, Inside, Readable, Throw, Plus, IsValidPtr

-----------------------------------------------------------------------------
(* The inductive invariant: what has been checked of the two objects the   *)
(* constructor stands on.                                                  *)

AtSoldier == {"read_ClientSoldierEntity", "read_PlayerKit", "read_Health",
              "read_ClientSoldierWeapon", "read_ClientSoldierPrediction"}

CheckedPointers ==
  /\ mem \in Memories
  /\ source = "clientPlayerAt" /\ pc \notin {"start", "BadClientPlayer"}
       => IsValidPtr(p)
  /\ pc \in AtSoldier => IsValidPtr(cse)

Inv == TypeOK /\ CheckedPointers /\ EscapeNeedsBadBase

\* The offset of every cell is one of those BFTypes.h can hold.
LEMMA OffsetOf == \A c \in OffCell : Off[c] \in Offset
  BY OffAssumption

\* The class is one that the report knows.
LEMMA ClassType ==
  ASSUME NEW g1, NEW g2
  PROVE  determine_class(g1, g2) \in {"unknown", "Assault", "Medic", "Support", "Scout"}
  <1>1. \A g : lookup(g) \in {"", "Assault", "Medic", "Support", "Scout"}
    BY DEF lookup, class_lookup
  <1> QED
    BY <1>1 DEF determine_class

\* Before the first load.
LEMMA InitInv == Init => Inv
  <1> SUFFICES ASSUME Init PROVE Inv
    OBVIOUS
  <1>1. mem \in Memory
    BY MemoriesAssumption DEF Init
  <1>2. kitName \in [Slot -> WeaponName \cup {"", "unknown"}]
    BY DEF Init
  <1>3. Null \in Addr
    BY PtrAssumption DEF Null, Addr
  <1> QED
    BY <1>1, <1>2, <1>3
    DEF Init, Inv, TypeOK, CheckedPointers, EscapeNeedsBadBase, AtSoldier, Ended

\* The ClientPlayer is found.
LEMMA FoundInv == Inv /\ (localPlayer \/ clientPlayerAt) => Inv'
  BY MemoriesAssumption
  DEF localPlayer, clientPlayerAt, Inv, TypeOK, CheckedPointers,
      EscapeNeedsBadBase, AtSoldier, Ended, PtrCell

\* read_ClientPlayer throws only for a base that is not inside.
LEMMA ClientPlayerInv == Inv /\ read_ClientPlayer => Inv'
  <1> SUFFICES ASSUME Inv, read_ClientPlayer PROVE Inv'
    OBVIOUS
  <1>1. CASE pc' = "out_of_range"
    <2>1. ~Inside(p)
      BY <1>1, InsideIsReadable, OffsetOf
      DEF read_ClientPlayer, Inv, TypeOK, OffCell, Field
    <2>2. IsValidPtr(p) => p + MinPtr > MaxPtr
      <3>1. p \in Addr
        BY DEF Inv, TypeOK
      <3> QED
        BY <2>1, <3>1, PtrAssumption DEF Inside, IsValidPtr, Addr
    <2>3. EscapeNeedsBadBase'
      BY <2>1, <2>2 DEF read_ClientPlayer, Inv, CheckedPointers, EscapeNeedsBadBase,
         Inside, AtSoldier
    <2>4. TypeOK'
      BY <1>1 DEF read_ClientPlayer, Inv, TypeOK, Ended
    <2> QED
      BY <1>1, <2>3, <2>4
      DEF read_ClientPlayer, Inv, CheckedPointers, AtSoldier
  <1>2. CASE pc' # "out_of_range"
    BY <1>2
    DEF read_ClientPlayer, Inv, TypeOK, CheckedPointers, EscapeNeedsBadBase,
        AtSoldier, Ended, Field
  <1> QED
    BY <1>1, <1>2

\* clientSoldierEntity() hands on a pointer it has checked.
LEMMA SoldierFoundInv == Inv /\ clientSoldierEntity => Inv'
  <1> SUFFICES ASSUME Inv, clientSoldierEntity PROVE Inv'
    OBVIOUS
  <1> DEFINE indirect == mem.ptr["weakptr"]
             loaded == IF mem.ptr["entity"] = NotRead THEN indirect
                                                      ELSE mem.ptr["entity"]
  <1>1. loaded \in Addr
    BY MemoriesAssumption DEF Inv, CheckedPointers, Memory, PtrCell
  <1>2. Minus(loaded, Word) \in Addr
    BY <1>1, PtrAssumption DEF Addr, Minus
  <1> HIDE DEF loaded
  <1> QED
    BY <1>2
    DEF clientSoldierEntity, loaded, Inv, TypeOK, CheckedPointers,
        EscapeNeedsBadBase, AtSoldier, Ended

\* yaw and occluded throw only for a soldier that is not inside.
LEMMA SoldierInv == Inv /\ read_ClientSoldierEntity => Inv'
  <1> SUFFICES ASSUME Inv, read_ClientSoldierEntity PROVE Inv'
    OBVIOUS
  <1>1. CASE pc' = "out_of_range"
    <2>1. ~Inside(cse)
      BY <1>1, InsideIsReadable, OffsetOf
      DEF read_ClientSoldierEntity, Inv, TypeOK, OffCell, Field
    <2>2. IsValidPtr(cse) => cse + MinPtr > MaxPtr
      <3>1. cse \in Addr
        BY DEF Inv, TypeOK
      <3> QED
        BY <2>1, <3>1, PtrAssumption DEF Inside, IsValidPtr, Addr
    <2>3. EscapeNeedsBadBase'
      BY <2>1, <2>2 DEF read_ClientSoldierEntity, Inv, CheckedPointers, EscapeNeedsBadBase,
         Inside, AtSoldier
    <2>4. TypeOK'
      BY <1>1 DEF read_ClientSoldierEntity, Inv, TypeOK, Ended
    <2> QED
      BY <1>1, <2>3, <2>4
      DEF read_ClientSoldierEntity, Inv, CheckedPointers, AtSoldier
  <1>2. CASE pc' # "out_of_range"
    BY <1>2
    DEF read_ClientSoldierEntity, Inv, TypeOK, CheckedPointers,
        EscapeNeedsBadBase, AtSoldier, Ended, Field
  <1> QED
    BY <1>1, <1>2

\* The kit throws nothing, and its names and class are known ones.
LEMMA KitInv == Inv /\ read_PlayerKit => Inv'
  <1> SUFFICES ASSUME Inv, read_PlayerKit PROVE Inv'
    OBVIOUS
  <1>1. \A kit : \A s \in Slot : slotName(kit, s) \in WeaponName \cup {"", "unknown"}
    <2>1. \A s \in Slot : mem.kit[s].name \in WeaponName
      BY DEF Inv, TypeOK, Memory
    <2> QED
      BY <2>1 DEF slotName
  <1>2. kitName' \in [Slot -> WeaponName \cup {"", "unknown"}]
    <2>1. kitName' = kitName \/ \E kit : kitName' = [s \in Slot |-> slotName(kit, s)]
      BY DEF read_PlayerKit
    <2>2. kitName \in [Slot -> WeaponName \cup {"", "unknown"}]
      BY DEF Inv, TypeOK
    <2> QED
      BY <1>1, <2>1, <2>2
  <1>3. playerClass' \in {"unknown", "Sentry", "Assault", "Medic", "Support", "Scout"}
    BY ClassType DEF read_PlayerKit, Inv, TypeOK
  <1> QED
    BY <1>2, <1>3
    DEF read_PlayerKit, Inv, TypeOK, CheckedPointers, EscapeNeedsBadBase,
        AtSoldier, Ended

\* The components after the kit only add fields.
LEMMA ComponentsInv ==
  Inv /\ (read_Health \/ read_ClientSoldierWeapon \/ read_ClientSoldierPrediction) => Inv'
  <1> SUFFICES ASSUME Inv,
                      read_Health \/ read_ClientSoldierWeapon \/ read_ClientSoldierPrediction
               PROVE  Inv'
    OBVIOUS
  <1>1. got' \in SUBSET Field
    BY DEF read_Health, read_ClientSoldierWeapon, read_ClientSoldierPrediction,
           Inv, TypeOK, Field
  <1> QED
    BY <1>1
    DEF read_Health, read_ClientSoldierWeapon, read_ClientSoldierPrediction,
        Inv, TypeOK, CheckedPointers, EscapeNeedsBadBase, AtSoldier, Ended

\* One step of the constructor.
LEMMA NextInv == Inv /\ [Next]_vars => Inv'
  <1>1. Inv /\ UNCHANGED vars => Inv'
    BY DEF vars, Inv, TypeOK, CheckedPointers, EscapeNeedsBadBase
  <1> QED
    BY <1>1, FoundInv, ClientPlayerInv, SoldierFoundInv, SoldierInv, KitInv,
       ComponentsInv DEF Next, Done

-----------------------------------------------------------------------------
\* Inv holds throughout the constructor.
THEOREM RadarPlayerInvariant == Spec => []Inv
  <1> QED
    BY InitInv, NextInv, PTL DEF Spec

\* The variables of the constructor keep their types.
THEOREM RadarPlayerType == Spec => []TypeOK
  <1>1. Inv => TypeOK
    BY DEF Inv
  <1> QED
    BY <1>1, RadarPlayerInvariant, PTL

\* Only a ClientPlayer or a ClientSoldierEntity at the edge of the valid
\* addresses, or an unchecked ClientPlayer, lets std::out_of_range out of
\* radar::Player's constructor.
THEOREM OnlyABadBaseEscapes == Spec => []EscapeNeedsBadBase
  <1>1. Inv => EscapeNeedsBadBase
    BY DEF Inv
  <1> QED
    BY <1>1, RadarPlayerInvariant, PTL

-----------------------------------------------------------------------------
(* What is reported, in the order in which the constructor finds it.       *)

Components == {"health", "maxHealth", "fov", "position"}

\* Every slot has its name, and the class is the one that the names say.
KitReported ==
  /\ \A s \in Slot : kitName[s] = NameOf(s)
  /\ playerClass = "Sentry" <=> NameOf("primary") = "MaximMG0815"
  /\ NameOf("primary") # "MaximMG0815" =>
       /\ \A k \in DOMAIN class_lookup : playerClass = k <=> GadgetsSay(k)
       /\ playerClass = "unknown" <=> \A k \in DOMAIN class_lookup : ~GadgetsSay(k)

HealthReported ==
  /\ "health" \in got <=> Sound("health")
  /\ "maxHealth" \in got <=> Sound("health") /\ Sound("maxHealth")

\* Which of the components have been decided when the constructor stands at
\* pc: the others are still as the member initialisers left them.
Progress ==
  /\ pc \in {"start", "read_ClientPlayer", "clientSoldierEntity",
             "read_ClientSoldierEntity"} => "yaw" \notin got
  /\ pc \in {"start", "read_ClientPlayer", "clientSoldierEntity",
             "read_ClientSoldierEntity", "read_PlayerKit"} =>
       kitName = [s \in Slot |-> "unknown"] /\ playerClass = "unknown"
  /\ pc \in {"start", "read_ClientPlayer", "clientSoldierEntity",
             "read_ClientSoldierEntity", "read_PlayerKit", "read_Health"} =>
       got \cap Components = {}
  /\ pc \in {"read_Health", "read_ClientSoldierWeapon",
             "read_ClientSoldierPrediction"} => KitReported
  /\ pc \in {"read_ClientSoldierWeapon", "read_ClientSoldierPrediction"} =>
       HealthReported /\ "position" \notin got
  /\ pc = "read_ClientSoldierWeapon" => "fov" \notin got
  /\ pc = "read_ClientSoldierPrediction" => ("fov" \in got <=> Sound("fov"))
  /\ WhatIsKnownIsReported

\* The table of the classes, one row after the other.
LEMMA Classes ==
  /\ DOMAIN class_lookup = {"Assault", "Medic", "Support", "Scout"}
  /\ class_lookup["Assault"] = {"AntiChars", "Dynamite", "TankGewehr"}
  /\ class_lookup["Medic"] = {"Syringe", "Medic Bag"}
  /\ class_lookup["Support"] = {"SmallAmmopack", "AmmoCrate", "Wrench", "Mortar",
                                "RifleGrenadeLauncher"}
  /\ class_lookup["Scout"] = {"Webbey Scott Flare Gun", "Shield", "Trench Periscope",
                              "Tripwire Bomb"}
  <1>1. DOMAIN class_lookup = {"Assault", "Medic", "Support", "Scout"}
    BY DEF class_lookup
  <1>2. class_lookup["Assault"] = {"AntiChars", "Dynamite", "TankGewehr"}
    BY DEF class_lookup
  <1>3. class_lookup["Medic"] = {"Syringe", "Medic Bag"}
    BY DEF class_lookup
  <1>4. class_lookup["Support"] = {"SmallAmmopack", "AmmoCrate", "Wrench", "Mortar",
                                   "RifleGrenadeLauncher"}
    BY DEF class_lookup
  <1>5. class_lookup["Scout"] = {"Webbey Scott Flare Gun", "Shield",
                                 "Trench Periscope", "Tripwire Bomb"}
    BY DEF class_lookup
  <1> QED
    BY <1>1, <1>2, <1>3, <1>4, <1>5

\* No class has the name of something else.
LEMMA ClassNames ==
  \A k \in DOMAIN class_lookup : k # "" /\ k # "unknown" /\ k # "Sentry"
  BY Classes

\* "unknown" is no gadget of a class.
LEMMA UnknownIsNoGadget ==
  \A k \in DOMAIN class_lookup : "unknown" \notin class_lookup[k]
  <1> SUFFICES ASSUME NEW k \in {"Assault", "Medic", "Support", "Scout"}
               PROVE  "unknown" \notin class_lookup[k]
    BY Classes
  <1>1. "unknown" \notin class_lookup["Assault"]
    BY Classes
  <1>2. "unknown" \notin class_lookup["Medic"]
    BY Classes
  <1>3. "unknown" \notin class_lookup["Support"]
    BY Classes
  <1>4. "unknown" \notin class_lookup["Scout"]
    BY Classes
  <1> QED
    BY <1>1, <1>2, <1>3, <1>4

\* No gadget belongs to two classes.
LEMMA OneClassEach ==
  ASSUME NEW g, NEW k \in DOMAIN class_lookup, NEW c \in DOMAIN class_lookup,
         g \in class_lookup[k], g \in class_lookup[c]
  PROVE  k = c
  <1>1. g \in class_lookup["Assault"] =>
          g \notin class_lookup["Medic"] /\ g \notin class_lookup["Support"]
          /\ g \notin class_lookup["Scout"]
    BY Classes
  <1>2. g \in class_lookup["Medic"] =>
          g \notin class_lookup["Support"] /\ g \notin class_lookup["Scout"]
    BY Classes
  <1>3. g \in class_lookup["Support"] => g \notin class_lookup["Scout"]
    BY Classes
  <1>4. k \in {"Assault", "Medic", "Support", "Scout"}
        /\ c \in {"Assault", "Medic", "Support", "Scout"}
    BY Classes
  <1> QED
    <2>1. CASE k = "Assault"
      BY <1>1, <1>4, <2>1, Zenon
    <2>2. CASE k = "Medic"
      BY <1>1, <1>2, <1>4, <2>2, Zenon
    <2>3. CASE k = "Support"
      BY <1>1, <1>2, <1>3, <1>4, <2>3, Zenon
    <2>4. CASE k = "Scout"
      BY <1>1, <1>2, <1>3, <1>4, <2>4, Zenon
    <2> QED
      BY <1>4, <2>1, <2>2, <2>3, <2>4, Zenon

\* lookup() finds the class of a gadget, or none.
LEMMA LookupIsExact ==
  ASSUME NEW g
  PROVE  /\ \A k \in DOMAIN class_lookup : lookup(g) = k <=> g \in class_lookup[k]
         /\ lookup(g) = "" <=> \A k \in DOMAIN class_lookup : g \notin class_lookup[k]
  <1>1. CASE \E k \in DOMAIN class_lookup : g \in class_lookup[k]
    <2>1. lookup(g) \in DOMAIN class_lookup /\ g \in class_lookup[lookup(g)]
      BY <1>1, Zenon DEF lookup
    <2>2. \A k \in DOMAIN class_lookup : g \in class_lookup[k] => k = lookup(g)
      BY <2>1, OneClassEach, Zenon
    <2> QED
      BY <1>1, <2>1, <2>2, ClassNames, Zenon
  <1>2. CASE ~ \E k \in DOMAIN class_lookup : g \in class_lookup[k]
    <2>1. lookup(g) = ""
      BY <1>2, Zenon DEF lookup
    <2> QED
      BY <1>2, <2>1, ClassNames, Zenon
  <1> QED
    BY <1>1, <1>2

\* What two gadgets say: the second is asked when the first says nothing.
Says(g1, g2, k) ==
  \/ g1 \in class_lookup[k]
  \/ /\ \A c \in DOMAIN class_lookup : g1 \notin class_lookup[c]
     /\ g2 \in class_lookup[k]

\* determine_class() is exactly what the gadgets say, or "unknown" if they
\* say nothing.
LEMMA ClassIsExact ==
  ASSUME NEW g1, NEW g2
  PROVE  /\ \A k \in DOMAIN class_lookup : determine_class(g1, g2) = k <=> Says(g1, g2, k)
         /\ determine_class(g1, g2) = "unknown" <=>
              \A k \in DOMAIN class_lookup : ~Says(g1, g2, k)
         /\ determine_class(g1, g2) # "Sentry"
  <1>0. determine_class(g1, g2) # "Sentry"
    <2>1. "Sentry" \notin {"unknown", "Assault", "Medic", "Support", "Scout"}
      OBVIOUS
    <2> QED
      BY <2>1, ClassType, Zenon
  <1>1. CASE lookup(g1) # ""
    <2>1. determine_class(g1, g2) = lookup(g1)
      BY <1>1, Zenon DEF determine_class
    <2>2. PICK k \in DOMAIN class_lookup : g1 \in class_lookup[k]
      BY <1>1, LookupIsExact, Zenon
    <2>3. \A c \in DOMAIN class_lookup : Says(g1, g2, c) <=> g1 \in class_lookup[c]
      BY <2>2, Zenon DEF Says
    <2>4. lookup(g1) = k
      BY <2>2, LookupIsExact, Zenon
    <2> QED
      BY <1>0, <2>1, <2>2, <2>3, <2>4, LookupIsExact, ClassNames, Zenon
  <1>2. CASE lookup(g1) = "" /\ lookup(g2) # ""
    <2>1. determine_class(g1, g2) = lookup(g2)
      BY <1>2, Zenon DEF determine_class
    <2>2. PICK k \in DOMAIN class_lookup : g2 \in class_lookup[k]
      BY <1>2, LookupIsExact, Zenon
    <2>3. \A c \in DOMAIN class_lookup : g1 \notin class_lookup[c]
      BY <1>2, LookupIsExact, Zenon
    <2>4. \A c \in DOMAIN class_lookup : Says(g1, g2, c) <=> g2 \in class_lookup[c]
      BY <2>3, Zenon DEF Says
    <2>5. lookup(g2) = k
      BY <2>2, LookupIsExact, Zenon
    <2> QED
      BY <1>0, <2>1, <2>2, <2>4, <2>5, LookupIsExact, ClassNames, Zenon
  <1>3. CASE lookup(g1) = "" /\ lookup(g2) = ""
    <2>1. determine_class(g1, g2) = "unknown"
      BY <1>3, Zenon DEF determine_class
    <2>2. \A c \in DOMAIN class_lookup : g1 \notin class_lookup[c] /\ g2 \notin class_lookup[c]
      BY <1>3, LookupIsExact, Zenon
    <2>3. \A c \in DOMAIN class_lookup : ~Says(g1, g2, c)
      BY <2>2, Zenon DEF Says
    <2> QED
      BY <1>0, <2>1, <2>3, ClassNames, Zenon
  <1> QED
    BY <1>1, <1>2, <1>3

\* A pointer loaded by read<T>: it can be read through exactly when the
\* load passed its guard and the address behind it is valid.
LEMMA ChainedRead ==
  ASSUME NEW b \in Addr, NEW off, NEW v \in Addr, NEW off2
  PROVE  /\ read(b, off, v) # Throw <=> IsValidPtr(Plus(b, off))
         /\ read(b, off, v) = Throw \/ read(b, off, v) = v
         /\ Readable(read(b, off, v), off2) <=>
              IsValidPtr(Plus(b, off)) /\ IsValidPtr(Plus(v, off2))
  <1>1. b # Throw /\ v # Throw
    BY PtrAssumption DEF Addr, Throw
  <1> QED
    BY <1>1, Zenon DEF read, Readable

\* Sound, one cell after the other.
LEMMA SoundPaths ==
  /\ \A f \in {"health", "maxHealth"} :
       Sound(f) <=> /\ IsValidPtr(Plus(cse, Off["healthComponent"]))
                    /\ IsValidPtr(Plus(mem.ptr["healthComponent"], Off[f]))
  /\ Sound("position") <=> /\ IsValidPtr(Plus(cse, Off["prediction"]))
                           /\ IsValidPtr(Plus(mem.ptr["prediction"], Off["position"]))
  /\ Sound("playerKit") <=> /\ IsValidPtr(Plus(cse, Off["weapons"]))
                            /\ IsValidPtr(Plus(mem.ptr["weapons"], Off["playerKit"]))
  /\ Sound("fov") <=> /\ IsValidPtr(Plus(cse, Off["activeWeapon"]))
                      /\ IsValidPtr(Plus(mem.ptr["activeWeapon"], Off["clientWeapon"]))
                      /\ IsValidPtr(Plus(mem.ptr["clientWeapon"], Off["fov"]))
  <1>1. \A f \in {"health", "maxHealth"} :
          Sound(f) <=> /\ IsValidPtr(Plus(cse, Off["healthComponent"]))
                       /\ IsValidPtr(Plus(mem.ptr["healthComponent"], Off[f]))
    <2> TAKE f \in {"health", "maxHealth"}
    <2>1. Path[f] = <<"entity", "healthComponent">>
      BY DEF Path
    <2> QED
      BY <2>1 DEF Sound, Object
  <1>2. Sound("position") <=>
          /\ IsValidPtr(Plus(cse, Off["prediction"]))
          /\ IsValidPtr(Plus(mem.ptr["prediction"], Off["position"]))
    <2>1. Path["position"] = <<"entity", "prediction">>
      BY DEF Path
    <2> QED
      BY <2>1 DEF Sound, Object
  <1>3. Sound("playerKit") <=>
          /\ IsValidPtr(Plus(cse, Off["weapons"]))
          /\ IsValidPtr(Plus(mem.ptr["weapons"], Off["playerKit"]))
    <2>1. Path["playerKit"] = <<"entity", "weapons">>
      BY DEF Path
    <2> QED
      BY <2>1 DEF Sound, Object
  <1>4. Sound("fov") <=>
          /\ IsValidPtr(Plus(cse, Off["activeWeapon"]))
          /\ IsValidPtr(Plus(mem.ptr["activeWeapon"], Off["clientWeapon"]))
          /\ IsValidPtr(Plus(mem.ptr["clientWeapon"], Off["fov"]))
    <2>1. Path["fov"] = <<"entity", "activeWeapon", "clientWeapon">>
      BY DEF Path
    <2> QED
      BY <2>1 DEF Sound, Object
  <1> QED
    BY <1>1, <1>2, <1>3, <1>4

\* The pointers below the soldier are values that memory can hold.
LEMMA PointersLoaded ==
  Inv => /\ cse \in Addr
         /\ \A c \in PtrCell \ {"entity"} : mem.ptr[c] \in Addr
  BY MemoriesAssumption DEF Inv, TypeOK, CheckedPointers

\* Sound looks at memory and at the soldier only.
LEMMA SoundKept ==
  mem' = mem /\ cse' = cse => \A f \in DOMAIN Path : Sound(f)' <=> Sound(f)
  <1> SUFFICES ASSUME mem' = mem, cse' = cse, NEW f \in DOMAIN Path
               PROVE  Sound(f)' <=> Sound(f)
    OBVIOUS
  <1>1. \A c : Object(c)' = Object(c)
    BY DEF Object
  <1> QED
    BY <1>1 DEF Sound

\* So do the names, and what the gadgets say.
LEMMA NamesKept ==
  mem' = mem /\ cse' = cse =>
    /\ \A s \in Slot : NameOf(s)' = NameOf(s)
    /\ \A k \in DOMAIN class_lookup : GadgetsSay(k)' <=> GadgetsSay(k)
  <1> SUFFICES ASSUME mem' = mem, cse' = cse
               PROVE  /\ \A s \in Slot : NameOf(s)' = NameOf(s)
                      /\ \A k \in DOMAIN class_lookup : GadgetsSay(k)' <=> GadgetsSay(k)
    OBVIOUS
  <1>1. Sound("playerKit")' <=> Sound("playerKit")
    BY SoundKept DEF Path
  <1>2. \A s \in Slot : SoundSlot(s)' <=> SoundSlot(s)
    BY DEF SoundSlot
  <1>3. \A s \in Slot : NameOf(s)' = NameOf(s)
    BY <1>1, <1>2, Zenon DEF NameOf
  <1>4. NameOf("gadget1")' = NameOf("gadget1") /\ NameOf("gadget2")' = NameOf("gadget2")
    BY <1>3 DEF Slot
  <1> QED
    BY <1>3, <1>4, Zenon DEF GadgetsSay

\* What slotName() gives for a kit that was loaded.
LEMMA SlotIsNamed ==
  ASSUME Inv, Sound("playerKit"), NEW s \in Slot
  PROVE  slotName(mem.ptr["playerKit"], s) = NameOf(s)
  <1> DEFINE kit == mem.ptr["playerKit"]
             m == mem.kit[s]
             weapon == read(kit, Off[s], m.weapon)
             data == read(weapon, Off["weaponEntityData"], m.data)
  <1>1. kit \in Addr /\ m.weapon \in Addr /\ m.data \in Addr
    <2>1. mem \in Memory
      BY DEF Inv, TypeOK
    <2>2. m \in [weapon : Addr, data : Addr, name_ptr : Addr, name : WeaponName]
      BY <2>1 DEF Memory
    <2> QED
      BY <2>2, PointersLoaded DEF PtrCell
  <1>2. m.data # Throw
    BY <1>1, PtrAssumption DEF Addr, Throw
  <1>3. Readable(weapon, Off["weaponEntityData"]) <=>
          /\ IsValidPtr(Plus(kit, Off[s]))
          /\ IsValidPtr(Plus(m.weapon, Off["weaponEntityData"]))
    <2>1. \A b, v \in Addr : \A off, off2 :
            Readable(read(b, off, v), off2) <=>
              IsValidPtr(Plus(b, off)) /\ IsValidPtr(Plus(v, off2))
      BY ChainedRead, Zenon
    <2> HIDE DEF kit, m
    <2> QED
      BY <1>1, <2>1, Zenon
  <1>4. data # Throw <=> Readable(weapon, Off["weaponEntityData"])
    BY <1>2, Zenon DEF read
  <1>5. slotName(kit, s) = IF data = Throw \/ ~IsValidPtr(m.name_ptr) THEN "" ELSE m.name
    BY Zenon DEF slotName
  <1>6. SoundSlot(s) <=> data # Throw /\ IsValidPtr(m.name_ptr)
    BY <1>3, <1>4, Zenon DEF SoundSlot
  <1>7. NameOf(s) = IF SoundSlot(s) THEN m.name ELSE ""
    <2>1. Sound("playerKit") => NameOf(s) = IF SoundSlot(s) THEN m.name ELSE ""
      BY Zenon DEF NameOf
    <2> QED
      BY <2>1
  <1>8. slotName(kit, s) = NameOf(s)
    <2>1. CASE SoundSlot(s)
      <3>1. ~(data = Throw \/ ~IsValidPtr(m.name_ptr))
        BY <1>6, <2>1, Zenon
      <3> HIDE DEF kit, m, data
      <3> QED
        BY <1>5, <1>7, <2>1, <3>1
    <2>2. CASE ~SoundSlot(s)
      <3>1. data = Throw \/ ~IsValidPtr(m.name_ptr)
        BY <1>6, <2>2, Zenon
      <3> HIDE DEF kit, m, data
      <3> QED
        BY <1>5, <1>7, <2>2, <3>1
    <2> QED
      BY <2>1, <2>2, Zenon
  <1> QED
    BY <1>8, Zenon

\* Before the first load.
LEMMA InitProgress == Init => Progress
  BY Zenon DEF Init, Progress, WhatIsKnownIsReported

\* Up to the soldier's own fields nothing of a component is known.
LEMMA FirstStepsProgress ==
  Inv /\ Progress
      /\ (localPlayer \/ clientPlayerAt \/ read_ClientPlayer
            \/ clientSoldierEntity \/ read_ClientSoldierEntity) => Progress'
  BY DEF localPlayer, clientPlayerAt, read_ClientPlayer, clientSoldierEntity,
         read_ClientSoldierEntity, Progress, WhatIsKnownIsReported, Components

\* The kit: an unsound one leaves the names alone, and a sound one gives
\* each slot the name behind its own pointers.
LEMMA KitIsReported == Inv /\ Progress /\ read_PlayerKit => KitReported'
  <1> SUFFICES ASSUME Inv, Progress, read_PlayerKit PROVE KitReported'
    OBVIOUS
  <1> DEFINE weapons == read(cse, Off["weapons"], mem.ptr["weapons"])
             kit == read(weapons, Off["playerKit"], mem.ptr["playerKit"])
             names == [s \in Slot |-> slotName(kit, s)]
  <1>1. mem' = mem /\ cse' = cse
    BY DEF read_PlayerKit
  <1>2. cse \in Addr /\ mem.ptr["weapons"] \in Addr /\ mem.ptr["playerKit"] \in Addr
    BY PointersLoaded DEF PtrCell
  <1>3. Sound("playerKit") <=> Readable(weapons, Off["playerKit"])
    BY <1>2, ChainedRead, SoundPaths
  <1>4. mem.ptr["playerKit"] # Throw
    BY <1>2, PtrAssumption DEF Addr, Throw
  <1>5. kit # Throw <=> Sound("playerKit")
    BY <1>3, <1>4 DEF read
  <1>6. kit # Throw => kit = mem.ptr["playerKit"]
    BY DEF read
  <1>7. "primary" \in Slot /\ "gadget1" \in Slot /\ "gadget2" \in Slot
    BY DEF Slot
  <1>8. /\ \A s \in Slot : kitName'[s] = NameOf(s)
        /\ playerClass' = IF NameOf("primary") = "MaximMG0815" THEN "Sentry"
                          ELSE determine_class(NameOf("gadget1"), NameOf("gadget2"))
    <2>1. CASE kit = Throw
      <3>1. kitName' = kitName /\ playerClass' = playerClass
        BY <2>1 DEF read_PlayerKit
      <3>2. kitName = [s \in Slot |-> "unknown"] /\ playerClass = "unknown"
        BY DEF read_PlayerKit, Progress
      <3>3. \A s \in Slot : NameOf(s) = "unknown"
        BY <1>5, <2>1, Zenon DEF NameOf
      <3>4. \A k \in DOMAIN class_lookup : ~Says("unknown", "unknown", k)
        BY UnknownIsNoGadget, Zenon DEF Says
      <3>5. determine_class("unknown", "unknown") = "unknown"
        BY <3>4, ClassIsExact, Zenon
      <3>6. NameOf("primary") # "MaximMG0815"
        BY <1>7, <3>3
      <3> QED
        BY <1>7, <3>1, <3>2, <3>3, <3>5, <3>6
    <2>2. CASE kit # Throw
      <3>1. /\ kitName' = names
            /\ playerClass' = IF names["primary"] = "MaximMG0815" THEN "Sentry"
                              ELSE determine_class(names["gadget1"], names["gadget2"])
        BY <2>2 DEF read_PlayerKit
      <3>2. \A s \in Slot : names[s] = NameOf(s)
        BY <1>5, <1>6, <2>2, SlotIsNamed, Zenon
      <3> HIDE DEF names
      <3> QED
        BY <1>7, <3>1, <3>2
    <2> QED
      BY <2>1, <2>2
  <1>9. /\ \A s \in Slot : NameOf(s)' = NameOf(s)
        /\ \A k \in DOMAIN class_lookup : GadgetsSay(k)' <=> GadgetsSay(k)
    BY <1>1, NamesKept
  <1>10. \A k \in DOMAIN class_lookup :
           GadgetsSay(k) <=> Says(NameOf("gadget1"), NameOf("gadget2"), k)
    BY Zenon DEF GadgetsSay, Says
  <1> DEFINE g1 == NameOf("gadget1")
             g2 == NameOf("gadget2")
  <1>11. playerClass' = "Sentry" <=> NameOf("primary") = "MaximMG0815"
    BY <1>8, ClassIsExact, Zenon
  <1>12. ASSUME NameOf("primary") # "MaximMG0815"
         PROVE  /\ \A k \in DOMAIN class_lookup : playerClass' = k <=> GadgetsSay(k)
                /\ playerClass' = "unknown" <=> \A k \in DOMAIN class_lookup : ~GadgetsSay(k)
    <2>1. playerClass' = determine_class(g1, g2)
      BY <1>8, <1>12, Zenon
    <2>2. /\ \A k \in DOMAIN class_lookup : determine_class(g1, g2) = k <=> Says(g1, g2, k)
          /\ determine_class(g1, g2) = "unknown" <=>
               \A k \in DOMAIN class_lookup : ~Says(g1, g2, k)
      BY ClassIsExact, Zenon
    <2> QED
      BY <1>10, <2>1, <2>2, Zenon
  <1> QED
    BY <1>7, <1>8, <1>9, <1>11, <1>12, Zenon DEF KitReported

\* The kit decided nothing else.
LEMMA KitProgress == Inv /\ Progress /\ read_PlayerKit => Progress'
  <1> SUFFICES ASSUME Inv, Progress, read_PlayerKit PROVE Progress'
    OBVIOUS
  <1>1. pc = "read_PlayerKit" /\ pc' = "read_Health" /\ got' = got
    BY DEF read_PlayerKit
  <1>2. (got \cap Components)' = {}
    BY <1>1 DEF Progress, Components
  <1> QED
    BY <1>1, <1>2, KitIsReported DEF Progress, WhatIsKnownIsReported

\* What has been said of the kit stays true: nothing that it is about changes.
LEMMA KitKept ==
  KitReported /\ UNCHANGED <<mem, cse, kitName, playerClass>> => KitReported'
  <1> SUFFICES ASSUME KitReported, UNCHANGED <<mem, cse, kitName, playerClass>>
               PROVE  KitReported'
    OBVIOUS
  <1>1. /\ \A s \in Slot : NameOf(s)' = NameOf(s)
        /\ \A k \in DOMAIN class_lookup : GadgetsSay(k)' <=> GadgetsSay(k)
    BY NamesKept
  <1>2. NameOf("primary")' = NameOf("primary")
    BY <1>1 DEF Slot
  <1> QED
    BY <1>1, <1>2, Zenon DEF KitReported

\* health and maxHealth lie behind the same component, one guard each.
LEMMA HealthProgress == Inv /\ Progress /\ read_Health => Progress'
  <1> SUFFICES ASSUME Inv, Progress, read_Health PROVE Progress'
    OBVIOUS
  <1> DEFINE h == read(cse, Off["healthComponent"], mem.ptr["healthComponent"])
  <1>1. /\ pc = "read_Health" /\ pc' = "read_ClientSoldierWeapon"
        /\ mem' = mem /\ cse' = cse /\ kitName' = kitName /\ playerClass' = playerClass
        /\ got' = got \cup IF ~Readable(h, Off["health"]) THEN {}
                           ELSE IF ~Readable(h, Off["maxHealth"]) THEN {"health"}
                           ELSE {"health", "maxHealth"}
    BY DEF read_Health
  <1>2. cse \in Addr /\ mem.ptr["healthComponent"] \in Addr
    BY PointersLoaded DEF PtrCell
  <1>3. \A f \in {"health", "maxHealth"} : Sound(f) <=> Readable(h, Off[f])
    BY <1>2, ChainedRead, SoundPaths
  <1>4. \A f \in {"health", "maxHealth"} : Sound(f)' <=> Sound(f)
    BY <1>1, SoundKept DEF Path
  <1>5. got \cap Components = {}
    BY <1>1 DEF Progress
  <1> HIDE DEF h
  <1>6. HealthReported'
    BY <1>1, <1>3, <1>4, <1>5 DEF HealthReported, Components
  <1>7. "fov" \notin got' /\ "position" \notin got'
    BY <1>1, <1>5 DEF Components
  <1>8. KitReported'
    BY <1>1, KitKept DEF Progress
  <1> QED
    BY <1>1, <1>6, <1>7, <1>8, Zenon DEF Progress, WhatIsKnownIsReported

\* What has been said of the health component stays true.
LEMMA HealthKept ==
  HealthReported /\ UNCHANGED <<mem, cse>>
                 /\ (\A f \in {"health", "maxHealth"} : f \in got' <=> f \in got)
    => HealthReported'
  <1>1. UNCHANGED <<mem, cse>> =>
          \A f \in {"health", "maxHealth"} : Sound(f)' <=> Sound(f)
    BY SoundKept DEF Path
  <1> QED
    BY <1>1 DEF HealthReported

\* The field of view lies behind two pointers of the active weapon.
LEMMA WeaponProgress == Inv /\ Progress /\ read_ClientSoldierWeapon => Progress'
  <1> SUFFICES ASSUME Inv, Progress, read_ClientSoldierWeapon PROVE Progress'
    OBVIOUS
  <1> DEFINE w == read(cse, Off["activeWeapon"], mem.ptr["activeWeapon"])
             c == read(w, Off["clientWeapon"], mem.ptr["clientWeapon"])
  <1>1. /\ pc = "read_ClientSoldierWeapon" /\ pc' = "read_ClientSoldierPrediction"
        /\ mem' = mem /\ cse' = cse /\ kitName' = kitName /\ playerClass' = playerClass
        /\ got' = got \cup IF Readable(c, Off["fov"]) THEN {"fov"} ELSE {}
    BY DEF read_ClientSoldierWeapon
  <1>2. cse \in Addr /\ mem.ptr["activeWeapon"] \in Addr /\ mem.ptr["clientWeapon"] \in Addr
    BY PointersLoaded DEF PtrCell
  <1>3. Readable(w, Off["clientWeapon"]) <=>
          /\ IsValidPtr(Plus(cse, Off["activeWeapon"]))
          /\ IsValidPtr(Plus(mem.ptr["activeWeapon"], Off["clientWeapon"]))
    BY <1>2, ChainedRead
  <1>4. Readable(c, Off["fov"]) <=>
          /\ Readable(w, Off["clientWeapon"])
          /\ IsValidPtr(Plus(mem.ptr["clientWeapon"], Off["fov"]))
    <2>1. mem.ptr["clientWeapon"] # Throw
      BY <1>2, PtrAssumption DEF Addr, Throw
    <2> HIDE DEF w
    <2> QED
      BY <2>1 DEF read, Readable
  <1>5. Sound("fov") <=> Readable(c, Off["fov"])
    BY <1>3, <1>4, SoundPaths, Zenon
  <1>6. Sound("fov")' <=> Sound("fov")
    BY <1>1, SoundKept DEF Path
  <1> HIDE DEF c
  <1>7. "fov" \notin got /\ "position" \notin got /\ HealthReported /\ KitReported
    BY <1>1 DEF Progress
  <1>8. ("fov" \in got' <=> Sound("fov")') /\ "position" \notin got'
    BY <1>1, <1>5, <1>6, <1>7
  <1>9. \A f \in {"health", "maxHealth"} : f \in got' <=> f \in got
    BY <1>1
  <1>10. HealthReported' /\ KitReported'
    BY <1>1, <1>7, <1>9, HealthKept, KitKept
  <1> QED
    BY <1>1, <1>8, <1>10, Zenon DEF Progress, WhatIsKnownIsReported

\* With the position every component has been decided.
LEMMA PredictionProgress ==
  Inv /\ Progress /\ read_ClientSoldierPrediction => Progress'
  <1> SUFFICES ASSUME Inv, Progress, read_ClientSoldierPrediction PROVE Progress'
    OBVIOUS
  <1> DEFINE d == read(cse, Off["prediction"], mem.ptr["prediction"])
  <1>1. /\ pc = "read_ClientSoldierPrediction" /\ pc' = "constructed"
        /\ mem' = mem /\ cse' = cse /\ kitName' = kitName /\ playerClass' = playerClass
        /\ got' = got \cup IF Readable(d, Off["position"]) THEN {"position"} ELSE {}
    BY DEF read_ClientSoldierPrediction
  <1>2. cse \in Addr /\ mem.ptr["prediction"] \in Addr
    BY PointersLoaded DEF PtrCell
  <1>3. Sound("position") <=> Readable(d, Off["position"])
    BY <1>2, ChainedRead, SoundPaths
  <1>4. \A f \in {"fov", "position"} : Sound(f)' <=> Sound(f)
    BY <1>1, SoundKept DEF Path
  <1> HIDE DEF d
  <1>5. /\ "position" \notin got /\ HealthReported /\ KitReported
        /\ "fov" \in got <=> Sound("fov")
    BY <1>1 DEF Progress
  <1>6. /\ "position" \in got' <=> Sound("position")'
        /\ "fov" \in got' <=> Sound("fov")'
    BY <1>1, <1>3, <1>4, <1>5
  <1>7. \A f \in {"health", "maxHealth"} : f \in got' <=> f \in got
    BY <1>1
  <1>8. HealthReported' /\ KitReported'
    BY <1>1, <1>5, <1>7, HealthKept, KitKept
  <1>9. WhatIsKnownIsReported'
    BY <1>6, <1>8 DEF WhatIsKnownIsReported, HealthReported, KitReported
  <1> QED
    BY <1>1, <1>9, Zenon DEF Progress

\* What is known says the same of a state that has the same values.
LEMMA KnownKept ==
  UNCHANGED vars => (WhatIsKnownIsReported' <=> WhatIsKnownIsReported)
  <1> SUFFICES ASSUME UNCHANGED vars
               PROVE  WhatIsKnownIsReported' <=> WhatIsKnownIsReported
    OBVIOUS
  <1>1. \A f \in DOMAIN Path : Sound(f)' <=> Sound(f)
    BY SoundKept DEF vars
  <1>2. \A f \in {"health", "maxHealth", "fov", "position"} : Sound(f)' <=> Sound(f)
    BY <1>1 DEF Path
  <1>3. /\ \A s \in Slot : NameOf(s)' = NameOf(s)
        /\ \A k \in DOMAIN class_lookup : GadgetsSay(k)' <=> GadgetsSay(k)
    BY NamesKept DEF vars
  <1>4. NameOf("primary")' = NameOf("primary")
    BY <1>3 DEF Slot
  <1>5. pc' = pc /\ got' = got /\ kitName' = kitName /\ playerClass' = playerClass
    BY DEF vars
  <1> QED
    BY <1>2, <1>3, <1>4, <1>5 DEF WhatIsKnownIsReported

\* Steps that change nothing.
LEMMA IdleProgress == Inv /\ Progress /\ UNCHANGED vars => Progress'
  <1> SUFFICES ASSUME Inv, Progress, UNCHANGED vars PROVE Progress'
    OBVIOUS
  <1>1. \A f \in DOMAIN Path : Sound(f)' <=> Sound(f)
    BY SoundKept DEF vars
  <1>2. KitReported => KitReported'
    BY KitKept DEF vars
  <1>3. HealthReported' <=> HealthReported
    BY <1>1 DEF HealthReported, Path, vars
  <1> QED
    BY <1>1, <1>2, <1>3, KnownKept DEF Progress, Path, vars

\* Whatever is wrong with the other components, each component of a known
\* soldier is reported exactly when its own pointers are sound, each slot of
\* the kit has exactly its own name, and the class is the one they say.
THEOREM KnownIsReported == Spec => []WhatIsKnownIsReported
  <1>1. Inv /\ Progress /\ [Next]_vars => Progress'
    BY FirstStepsProgress, KitProgress, HealthProgress, WeaponProgress,
       PredictionProgress, IdleProgress DEF Next, Done
  <1>2. Progress => WhatIsKnownIsReported
    BY DEF Progress
  <1> QED
    BY InitProgress, <1>1, <1>2, RadarPlayerInvariant, PTL DEF Spec
=============================================================================
