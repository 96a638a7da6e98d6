-------------------------- MODULE MCTopologyGraph --------------------------
(***************************************************************************)
(* A provider with a region, a host in it, and on the host a process and a *)
(* container with another.  The keys of an answer put some children before *)
(* their parents.                                                          *)
(***************************************************************************)
EXTENDS TopologyGraph, TLC

CONSTANTS provider, region, host, container, process, inner

MCKind ==
    (provider :> "cloud_provider") @@ (region :> "cloud_region") @@ (host :> "host")
    @@ (container :> "container") @@ (process :> "process")
    @@ (inner :> "process")
MCParent ==
    (provider :> Root) @@ (region :> provider) @@ (host :> region)
    @@ (container :> host) @@ (process :> host) @@ (inner :> container)
MCKeys == <<region, process, host, inner, container, provider>>
MCEdge == {<<host, process>>, <<process, inner>>}
=============================================================================
