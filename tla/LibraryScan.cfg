SPECIFICATION Spec
CONSTANTS
  top = top
  sub = sub
  mkv = mkv
  mp4 = mp4
  srt = srt
  bif = bif
  ign = ign
  movie = movie
  filmStrm = filmStrm
  srtOut = srtOut
  bifOut = bifOut
  ignOut = ignOut
  movieStrm = movieStrm
  NoFile = NoFile
  Dirs <- MCDirs
  Root = top
  Below <- MCBelow
  Parent <- MCParent
  Files = {mkv, mp4, srt, bif, ign}
  DirOf <- MCDirOf
  Media <- MCMedia
  Artwork = {}
  SidecarsOf <- MCSidecarsOf
  CompanionsOf <- MCCompanionsOf
  IgnoreFiles <- MCIgnoreFiles
  Outs <- MCOuts
  OutOf <- MCOutOf
  Manual <- WholeMount
  HookScans <- LevelOrSubtree
  Volatile = {sub}
  Faults = TRUE
  MaxChanges = 2
  MaxCrashes = 1
SYMMETRY FilmSymmetry
INVARIANT TypeOK
INVARIANT Mirror
INVARIANT IndexComplete
PROPERTY KeepsLive
CHECK_DEADLOCK FALSE
