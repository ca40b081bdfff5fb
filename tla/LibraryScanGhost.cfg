SPECIFICATION Spec
CONSTANTS
  top = top
  sub = sub
  mkv = mkv
  mp4 = mp4
  srt = srt
  bif = bif
  ign = ign
  movie = movie
  filmStrm = filmStrm
  srtOut = srtOut
  bifOut = bifOut
  ignOut = ignOut
  movieStrm = movieStrm
  NoFile = NoFile
  Dirs <- MCDirs
  Root = top
  Below <- MCBelow
  Parent <- MCParent
  Files = {mkv, movie}
  DirOf <- MCDirOf
  Media <- MCMedia
  Artwork = {}
  SidecarsOf <- MCSidecarsOf
  CompanionsOf <- MCCompanionsOf
  IgnoreFiles <- MCIgnoreFiles
  Outs <- MCOuts
  OutOf <- MCOutOf
  Manual <- NoScans
  HookScans <- Level
  Volatile = {sub}
  Faults = FALSE
  MaxChanges = 2
  MaxCrashes = 0
INVARIANT DeletedStaysDeleted
CHECK_DEADLOCK FALSE
