\* callbacks that register, unregister and drop the bearer under a walk
SPECIFICATION Spec
CONSTANTS
    MaxIds = 4
    MaxFrames = 3
    Handled = {"req", "all"}
    Received = {"req", "ntf"}
INVARIANT ContractSuffices
INVARIANT HooksOnce
INVARIANT NobodyMissed
PROPERTY SilentAfterUnregister
CHECK_DEADLOCK FALSE
