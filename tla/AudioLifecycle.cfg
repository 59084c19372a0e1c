SPECIFICATION RuntimeSpec
CONSTANTS
  MaxTrips = 2
  MaxQueue = 2
  MaxGeneration = 5
  MaxBlocks = 2
  Subjects = {25, 500}
  Recoverable = {25}
  NoSubject = NoSubject
  Saved = Saved
  NullPhoto = NullPhoto
  MaxPhotos = 3
  Grace = 1
INVARIANTS PauseFollowsLifecycle BackgroundQueueBounded
INVARIANTS AxesAreOfThisSession PhotosKeepTheirSubject
PROPERTY NoBackgroundAudioHeard
