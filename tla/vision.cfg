SPECIFICATION Spec
CONSTANTS
  img1 = img1
  img2 = img2
  img3 = img3
  img4 = img4
  r1 = r1
  r2 = r2
  Requests = {r1, r2}
  Images = {img1, img2, img3, img4}
  Asked <- MCAsked
  Lengths = {1, 3}
  Batch = 2
  Golden = 2
  Depth = 3
  Share = 2
  Marker = 1
  PerRequest = 2
  PerProcess = 2
  MaxLosses = 1
INVARIANT VisionSound
CHECK_DEADLOCK FALSE
