--------------------------- MODULE MCFsciGattClient ---------------------------
(* Two links and the commands that differ in their buffers.                *)
EXTENDS FsciGattClient, TLC

CONSTANTS l1, l2
MCLink == {l1, l2}
Sym == Permutations(MCLink)
MCCommands == {"DiscoverAllPrimaryServices", "DiscoverPrimaryServicesByUuid",
               "FindIncludedServices",  "ReadUsingCharacteristicUuid",
               "ReadMultipleCharacteristicValues", "WriteCharacteristicValue"}
=============================================================================
