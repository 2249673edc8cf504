SPECIFICATION Spec
CONSTANTS
  ver = ver
  soft = soft
  rain = rain
  None = None
  Driver = {ver}
  Tyre = {soft}
  Weather = {rain}
  Meeting = {}
  Sessions <- AnchoredOnly
  Ended = 10
  MaxDownloads = 2
INVARIANT DownloadsReplayAlike
