CONSTANTS
  Medias = {m1, m2}
  MaxGeneration = 3
SPECIFICATION FairSpec
INVARIANTS TypeOK AttachedIsServed CameraReleased
PROPERTIES OnlyOpenWindowStops StallRecovered ClientGetsVideo
