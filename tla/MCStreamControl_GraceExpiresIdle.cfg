CONSTANTS
  Medias = {m1, m2}
  MaxGeneration = 3
SPECIFICATION Spec
PROPERTY GraceExpiresIdle
