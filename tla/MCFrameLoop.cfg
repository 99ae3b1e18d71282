SPECIFICATION FairSpec
CONSTANTS
  Dirs = {}
  Sides = {}
  Remote = {"a"}
  MaxHeld = 1
  s1 = s1
  Shots = {s1}
  MaxUnread = 3
  None = None
PROPERTIES PressSpansFrames NothingReplayed PictureIsWhole ReadyIsFresh RemotePressEnds QuitHeard
