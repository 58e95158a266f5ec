------------------------------- MODULE MCField -------------------------------
(* Herbs anybody may pick while they live, with fewer transforms than their   *)
(* count; a lever that is used up by one control and charged again; a wolf.   *)
EXTENDS Field

CONSTANTS p1, p2, herb, lever, wolf

MCPlayers == {p1, p2}
MCSpawners == {herb, lever, wolf}
By(h, l, w) == [s \in MCSpawners |-> CASE s = herb -> h [] s = lever -> l
                                       [] s = wolf -> w]
MCKind == By("EnvObj", "EnvObj", "Npc")
MCSpawnCount == By(2, 1, 1)
MCTransforms == By(1, 1, 1)
MCRespawn == By(1, 0, 0)
MCLifeTime == By(1, 0, 0)
MCInitState == By("Activate", "Deactivate", "Activate")
MCDuration == By(0, 0, 0)
MCControlCount == By(0, 1, 0)
MCChargeTime == By(0, 1, 0)
MCRemoveEmpty == By(FALSE, TRUE, FALSE)
MCNear == By({p1}, {p1, p2}, {})
MCCommanders == By({}, {p1}, {})
MCEntry == By(0, 1, 0)
MCUnloaded == {p2}
=============================================================================
