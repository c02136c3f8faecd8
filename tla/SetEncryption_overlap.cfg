\* Two enables, one with a given key, and a disable of one device overlap; up to
\* two failures or restarts.
SPECIFICATION Spec
CONSTANTS
  on = on
  on2 = on2
  off = off
  Calls = {on, on2, off}
  NoCall = NoCall
  Enable = {on, on2}
  GivenKey <- OneKeyGiven
  Keys = {1, 2, 3, 4, 5, 6, 7}
  FirstKey = 2
  NoKey = NoKey
  NotLoaded = NotLoaded
  Tries = 2
  MaxFaults = 2
INVARIANTS
  OneTalker
  NoSilentDisagreement
  KeyAccounted
PROPERTIES
  EntryFollowsDevice
  RerunResyncs
  EncryptingKeepsKey
