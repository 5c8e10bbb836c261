(* boot to the shell and a command, with an interrupt anywhere, and a failure
   and a second one anywhere, also in the first one's handler; the hart does
   stop: in the panic handler's wfi, in the shell's, or spinning *)
SPECIFICATION FairSpec
CONSTANTS
    hart = h1
    MaxDepth = 2
    Pieces = 2
    MaxInterrupts = 1
    MaxCommands = 1
    MaxFailures = 2
CHECK_DEADLOCK FALSE
INVARIANTS TypeOK ConsoleTextWhole QuietDevicesAgree OneLockAtATime
PROPERTIES BootCompletes TrapsReturn PanicReachesUart PanicReachesConsole
