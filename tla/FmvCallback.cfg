\* One movie, stopped by a key while the audio device plays it.
CONSTANTS
  Movies = {"ddv", "mov"}
  NotFound = {"none"}
  Stream <- MCStream
  EndsByFailing = {"ddv"}
  BytesPerFrame = 2
  Required = 3
  CallbackLens = {1}
  MaxPlays = 1
SPECIFICATION FmvSpec
INVARIANT CallbackIsProtected
