----------------------------- MODULE MCScanQueue -----------------------------
(***************************************************************************)
(* Instances of ScanQueue for TLC: two mounts, the directories / and /a,   *)
(* and the kinds of request the enqueuers make.                            *)
(***************************************************************************)
EXTENDS ScanQueue, TLC

CONSTANTS m1, m2, m3, p1, p2

\* m1 and m2 share a provider, m3 has its own.
MCMounts == {m1, m2, m3}
OneMount == {m1}
MCProviders == {p1, p2}
MCProviderOf == [m \in Mounts |-> IF m = m3 THEN p2 ELSE p1]

MCPaths == {"/", "/a"}
MCAncestors == "/" :> {"/"} @@ "/a" :> {"/", "/a"}

Ask(m, p, k, d) == [mount |-> m, path |-> p, mode |-> k, delay |-> d]

\* One mount: a scan of all of it, a scan of a directory, and a webhook about
\* that directory with its debounce.
OneMountRequests == {Ask(m1, "/", "recursive", 0),
                     Ask(m1, "/a", "recursive", 0),
                     Ask(m1, "/a", "current_level", 1)}

\* Three mounts: requests that merge on m1, and one of each other mount.
ThreeMountRequests == {Ask(m1, "/", "recursive", 0),
                       Ask(m1, "/", "current_level", 0),
                       Ask(m2, "/", "recursive", 0),
                       Ask(m3, "/", "recursive", 0)}

EventSymmetry == Permutations(Events)

=============================================================================
