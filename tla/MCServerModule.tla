--------------------------- MODULE MCServerModule ---------------------------
(* Three certifications for ServerModule: a first one, one after the farm was
   rearranged, and one in which most of it is missing. *)
EXTENDS ServerModule, TLC

CONSTANTS v1, v2, agent, gateway, acc1, acc2, shard1, shard2, log1, log2, absent

MCKeys == 0 .. 2
MCVersions == {v1, v2}
MCNames == {agent, gateway}
MCConfigs == {acc1, acc2, shard1, shard2, log1, log2}

E(list, key, value) ==
  [list |-> list, record |-> TRUE, key |-> key, value |-> value]
Skipped(list) == [list |-> list, record |-> FALSE, key |-> 0, value |-> v1]
Body(division, module, shard) ==
  [division |-> division, module |-> module, shard |-> shard]

\* FarmContent has a skipped entry and one more than its index can count.
First ==
  << E("ServerBody", 1, Body(1, 1, 1)), E("ServerBody", 2, Body(0, 2, 2)),
     E("Module", 1, agent), E("Module", 2, gateway),
     E("Division", 1, acc1),
     E("FarmContent", 0, v1), Skipped("FarmContent"), E("FarmContent", 0, v2),
     E("Shard", 1, [shard |-> shard1, log |-> log1]) >>

\* This server has moved to another division and shard, and the modules have
\* changed their numbers: for a while both carry one name.
Moved ==
  << E("ServerBody", 1, Body(2, 2, 2)),
     E("Module", 1, gateway), E("Module", 2, agent),
     E("Division", 1, acc2), E("Division", 2, acc1),
     Skipped("FarmContent"), E("FarmContent", 0, v1),
     E("Shard", 2, [shard |-> shard2, log |-> log2]) >>

\* A body of no shard, named twice, a division that was never listed.
Sparse ==
  << E("ServerBody", 1, Body(0, 1, 1)), E("ServerBody", 1, Body(2, 1, 0)),
     E("Content", 1, v1), E("Farm", 1, v2), E("ServerMachine", 2, v1),
     E("ServerCord", 2, v2) >>

MCCerts == {First, Moved, Sparse}
=============================================================================
