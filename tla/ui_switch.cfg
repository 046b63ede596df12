\* A switch of site, and what is shown after it.  The address, the clicks and the versions run
\* out, so the model may stop.
CHECK_DEADLOCK FALSE
SPECIFICATION PagesSpec
CONSTANTS
  Sites <- MCSites
  Owned <- MCSites
  Hosts <- MCHosts
  Reports = {"pages"}
  Ranges = {"30d", "7d"}
  DefaultRange = "30d"
  AllHosts = "all"
  MaxClicks = 3
  NoSite = "none"
  Slots = {1, 2}
  Databases = {d1, d2}
  LastPage = 2
  MaxAsked = 2
  NoDatabase = none
  MaxVersion = 1
  MaxWaiting = 2
  Unserved = 9
  Texts <- MCTexts
INVARIANTS
  SwitchShowsSelected
