\* From the command line to the end of the process, with two NICs.
CONSTANTS
  None = None  NotANumber = NotANumber  NoFile = NoFile  Unreadable = Unreadable
  NicId = {n1, n2}
  CmdLines <- MCCmdLines
  Files <- MCFiles
  Limits <- MCLimits
  Numbers <- MCNumbers
  DefaultMtu = 1500
SPECIFICATION LifecycleFairSpec
INVARIANTS FindsMaximum OptionsApply StopDropsNoCall VhostSpansNics
  StopDestroysNics
PROPERTIES ShutdownEnds
