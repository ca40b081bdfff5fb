---------------------------- MODULE MCLibraryScan ----------------------------
(***************************************************************************)
(* An instance of LibraryScan for TLC: a mount with one subdirectory that  *)
(* holds a film in two containers (of one base name, so they share their   *)
(* .strm), a subtitle for it or an index.bif for the directory, and a      *)
(* .ignore; the root holds another film.                                   *)
(***************************************************************************)
EXTENDS LibraryScan, TLC

CONSTANTS top, sub, mkv, mp4, srt, bif, ign, movie,
          filmStrm, srtOut, bifOut, ignOut, movieStrm

MCDirs == {top, sub}
MCBelow == top :> {top, sub} @@ sub :> {sub}
MCParent == top :> top @@ sub :> top
MCDirOf == [f \in Files |-> IF f = movie THEN top ELSE sub]
MCMedia == Files \cap {mkv, mp4, movie}
MCSidecarsOf == [m \in Media |-> Files \cap (IF m = movie THEN {} ELSE {srt, bif})]
MCCompanionsOf == [m \in Media |-> MCSidecarsOf[m] \ {bif}]

\* The two containers differ in nothing but their names.
FilmSymmetry == Permutations({mkv, mp4})
MCIgnoreFiles == Files \cap {ign}

OutName(f) == IF f \in {mkv, mp4} THEN filmStrm
              ELSE IF f = srt THEN srtOut
              ELSE IF f = bif THEN bifOut
              ELSE IF f = ign THEN ignOut ELSE movieStrm

MCOuts == {OutName(f) : f \in Files}
MCOutOf == [f \in Files |-> OutName(f)]

ScanOf(mode, d) == [mode |-> mode, dir |-> d, overwrite |-> FALSE]

WholeMount == {ScanOf("recursive", top)}
NoScans == {}

HookScan(mode) == [mode |-> mode, overwrite |-> TRUE]

Level == {HookScan("current_level")}
Subtree == {HookScan("recursive")}
LevelOrSubtree == Level \cup Subtree

=============================================================================
