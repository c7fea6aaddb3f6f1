------------------------------ MODULE MapWorld ------------------------------
(***************************************************************************)
(* One map of a MapServer (MapServer/maps): its monsters, the items lying  *)
(* on it, the players on it, its spawn points and its timers.              *)
(*                                                                         *)
(* The map has an actor: what an action here does to objects is one        *)
(* function handed to Do.  Other goroutines are the spawn loop, which      *)
(* registers an object before it hands it over, and a timer for every      *)
(* death.  Health is left out: a hit is deadly or it is not.               *)
(***************************************************************************)
EXTENDS Naturals, FiniteSets

CONSTANTS
  Players,
  Points,      \* the spawn points of the map
  MaxCount,    \* MaxCount[s]: how many objects of s there may be
  MaxDrop,     \* most items one monster drops
  MaxObject,   \* bound: object ids
  Litter,      \* how many items lie on the map to begin with
  MaxTimers,   \* bound: timers of one player's deaths at a time
  Nowhere      \* no spawn point

ASSUME WorldAssumption ==
  /\ MaxCount \in [Points -> Nat]
  /\ MaxDrop \in Nat /\ MaxObject \in Nat /\ MaxTimers \in Nat
  /\ Litter \in 0 .. MaxObject
  /\ Nowhere \notin Points

VARIABLES
  lastObject,  \* nextMapObjectID
  monsters, items, here,    \* m.objects: monsters, loot, players
  dead,        \* the players here without health
  reviving,    \* reviving[p]: timers started for p's object by its deaths
  respawns,    \* timers started by the deaths of monsters
  created,     \* made by checkSpawnPoints and not yet added to the map
  spawnedBy,   \* the spawn point of an object, Nowhere if it has none
  count        \* count[s]: currentCount of s

points == <<created, spawnedBy, count>>
folk == <<here, dead, reviving>>
world == <<lastObject, monsters, items, folk, respawns, points>>

Objects == 1 .. MaxObject

WorldTypeOK ==
  /\ lastObject \in 0 .. MaxObject
  /\ monsters \subseteq 1 .. lastObject
  /\ items \subseteq 1 .. lastObject
  /\ created \subseteq 1 .. lastObject
  /\ here \subseteq Players /\ dead \subseteq here
  /\ reviving \in [Players -> 0 .. MaxTimers]
  /\ respawns \in Nat
  /\ spawnedBy \in [Objects -> Points \union {Nowhere}]
  /\ count \in [Points -> Nat]

\* A quiet map: the players are on it, an item or more have been left lying.
WorldInit ==
  /\ lastObject = Litter
  /\ items = 1 .. Litter
  /\ monsters = {} /\ created = {}
  /\ here = Players /\ dead = {}
  /\ reviving = [p \in Players |-> 0]
  /\ respawns = 0
  /\ spawnedBy = [o \in Objects |-> Nowhere]
  /\ count = [s \in Points |-> 0]

-----------------------------------------------------------------------------
(* The spawn loop *)

\* First half of checkSpawnPoints, for one point that is due: under the lock of
\* the spawn manager the object is made, registered and counted.  The loop adds
\* what it has made before it looks at a point again.
Create(s) ==
  /\ count[s] < MaxCount[s] /\ lastObject < MaxObject
  /\ \A o \in created : spawnedBy[o] # s
  /\ lastObject' = lastObject + 1
  /\ created' = created \union {lastObject'}
  /\ spawnedBy' = [spawnedBy EXCEPT ![lastObject'] = s]
  /\ count' = [count EXCEPT ![s] = @ + 1]
  /\ UNCHANGED <<monsters, items, folk, respawns>>

\* Second half, without the lock: the map's actor adds it.
Add(o) ==
  /\ o \in created
  /\ created' = created \ {o}
  /\ monsters' = monsters \union {o}
  /\ UNCHANGED <<lastObject, items, folk, respawns, spawnedBy, count>>

\* Mutant of Uncount: the first point with a count is given back, as before MAP-8.
UncountFirst(o) ==
  /\ spawnedBy' = [spawnedBy EXCEPT ![o] = Nowhere]
  /\ IF spawnedBy[o] = Nowhere THEN UNCHANGED count
     ELSE \E s \in Points : /\ count[s] > 0
                            /\ count' = [count EXCEPT ![s] = @ - 1]
  /\ UNCHANGED created

\* SpawnManager.RemoveObject: nothing for an object no point has spawned.
Uncount(o) ==
  /\ spawnedBy' = [spawnedBy EXCEPT ![o] = Nowhere]
  /\ count' = IF spawnedBy[o] # Nowhere /\ count[spawnedBy[o]] > 0
                THEN [count EXCEPT ![spawnedBy[o]] = @ - 1] ELSE count
  /\ UNCHANGED created

-----------------------------------------------------------------------------
(* attackTargetLocked, one function on the map's actor *)

Drops(n) == (lastObject + 1) .. (lastObject + n)

\* handleMonsterDeath: n items are dropped, another monster is scheduled, the
\* dead one is removed.  The reward is the caller's.
MonsterDies(o, n) ==
  /\ o \in monsters /\ n \in 0 .. MaxDrop /\ lastObject + n <= MaxObject
  /\ items' = items \union Drops(n)
  /\ lastObject' = lastObject + n
  /\ respawns' = respawns + 1
  /\ monsters' = monsters \ {o}
  /\ Uncount(o)
  /\ UNCHANGED folk

\* handlePlayerDeath, also when he is dead already: every deadly hit starts a
\* timer.
PlayerDies(p) ==
  /\ p \in here /\ reviving[p] < MaxTimers
  /\ dead' = dead \union {p}
  /\ reviving' = [reviving EXCEPT ![p] = @ + 1]
  /\ UNCHANGED <<lastObject, monsters, items, here, respawns, points>>

\* The timer of a monster's death: one more monster, which is no point's.
Respawn ==
  /\ respawns > 0 /\ lastObject < MaxObject
  /\ respawns' = respawns - 1
  /\ lastObject' = lastObject + 1
  /\ monsters' = monsters \union {lastObject'}
  /\ UNCHANGED <<items, folk, points>>

\* The timer of a player's death, of whom it finds on the map.
Revive(p) ==
  /\ reviving[p] > 0
  /\ reviving' = [reviving EXCEPT ![p] = @ - 1]
  /\ dead' = dead \ {p}
  /\ UNCHANGED <<lastObject, monsters, items, here, respawns, points>>

\* Mutant of Take: the item is marked and not removed.
TakeAndLeave(o) == o \in items /\ UNCHANGED world

\* PickupNearest: the nearest item in reach is any item.
Take(o) ==
  /\ o \in items
  /\ items' = items \ {o}
  /\ UNCHANGED <<lastObject, monsters, folk, respawns, points>>

\* AddPlayer: a new object, which the timers of an earlier one do not touch.
Appear(p) ==
  /\ here' = here \union {p}
  /\ dead' = dead \ {p}
  /\ reviving' = [reviving EXCEPT ![p] = 0]
  /\ UNCHANGED <<lastObject, monsters, items, respawns, points>>

\* RemovePlayer
Disappear(p) ==
  /\ here' = here \ {p}
  /\ dead' = dead \ {p}
  /\ reviving' = [reviving EXCEPT ![p] = 0]
  /\ UNCHANGED <<lastObject, monsters, items, respawns, points>>

\* what the map does by itself
Life ==
  \/ \E s \in Points : Create(s)
  \/ \E o \in created : Add(o)
  \/ Respawn
  \/ \E p \in Players : Revive(p)

\* what requests make it do
Deed ==
  \/ \E o \in monsters, n \in 0 .. MaxDrop : MonsterDies(o, n)
  \/ \E p \in Players : PlayerDies(p) \/ Appear(p) \/ Disappear(p)
  \/ \E o \in items : Take(o)

WorldNext == Life \/ Deed

WorldSpec == WorldInit /\ [][WorldNext]_world

-----------------------------------------------------------------------------
(* A count that is too high stops a point for good, one that is too low       *)
(* overfills it (spawn_manager.go:26, 187); objects are registered by one     *)
(* goroutine, added by a second and removed by a third party.                 *)

\* An object is registered with a point exactly as long as it is about to be
\* added or on the map, and the point counts as many.
PointsCounted ==
  \A s \in Points :
    LET mine == {o \in Objects : spawnedBy[o] = s}
    IN  mine \subseteq monsters \union created /\ count[s] = Cardinality(mine)
=============================================================================
