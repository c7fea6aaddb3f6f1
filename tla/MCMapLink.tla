------------------------------ MODULE MCMapLink ------------------------------
(* Constants of MapLink for TLC.                                           *)
EXTENDS MapLink, TLC

CONSTANTS near, far, nearMap, farMap, p1, p2, town, field, arena

\* Two realms, near and far, with a MapServer each.  Both have a map `town`, as
\* ids come from the same configuration, and an instance numbered `field`: that
\* on farMap is an activity's, that on nearMap another one.  A second activity
\* may run on the MapServer of near itself, in the instance `arena`.
RealmOfBoth == p1 :> near @@ p2 :> far
RealmOfOne == p1 :> near
HomeOfBoth == near :> nearMap @@ far :> farMap
HomeOfOne == near :> nearMap
MapsOfBoth == nearMap :> {town, field} @@ farMap :> {town, field}
Activity == {<<farMap, field>>}
Activities == {<<nearMap, arena>>, <<farMap, field>>}
MapsWithArena == nearMap :> {town, field, arena} @@ farMap :> {town, field}
NoVia == {}
CrossOnly == {"cross"}

\* All but the history `astray`: no step and neither property of MapLinkRealms
\* reads it.
ButAstray == <<lobby, player, queues, seq, local, sending, asked, msVars, link, restarts>>
==============================================================================
