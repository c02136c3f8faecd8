\* Two fields are typed in between two saves; a repeater's screen is touched
\* four times, closing and opening it again included.
CONSTANTS
  blank = blank
  nokey = nokey
  nosource = nosource
  enc = enc
  plain = plain
  other = other
  k1 = k1
  k2 = k2
  hand = hand
  ReadSettings <- MCReadSettings
  Typed <- MCTyped
  Blank <- blank
  MaxTyped = 2
  Listed <- MCListed
  Unlisted <- MCUnlisted
  Snapshots <- MCSnapshots
  Configs <- MCConfigs
  Fitting <- MCFitting
  HandKeys <- MCHandKeys
  NoKey <- nokey
  NoSource <- nosource
  MaxTouches = 4
SPECIFICATION Spec
INVARIANTS
  EffectiveIsWritten
  NothingLeftToSave
  SavedFitsSource
PROPERTIES
  WrittenIsShown
  HandKeyKept
\* Nothing is left to do once the user has touched what may be touched.
CHECK_DEADLOCK FALSE
