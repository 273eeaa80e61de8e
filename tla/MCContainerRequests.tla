------------------------- MODULE MCContainerRequests -------------------------
(* Two servers that share a cache, as app.module.ts:187-205 asks for, or    *)
(* have one each, as the store of the version that is installed.           *)
EXTENDS ContainerRequests

CONSTANTS s1, s2, c1, c2

MCCacheMaps == {[s \in Servers |-> c1], [s \in Servers |-> IF s = s1 THEN c1 ELSE c2]}

Two(o1, o2) == [ops |-> <<o1, o2, "none">>, faults |-> 1]
Three(o1, o2, o3) == [ops |-> <<o1, o2, o3>>, faults |-> 0]

(* Any two requests with one failed command or crash, and these three.     *)
MCPlans ==
    LET ops == Readers \cup Writers
    IN  {Two(o1, o2) : o1 \in ops, o2 \in ops} \cup
        {Three("get", "get", "update"), Three("get", "update", "softDelete"),
         Three("get", "restore", "permanentDelete"),
         Three("update", "status", "itemSave"), Three("get", "softDelete", "restore")}

=============================================================================
