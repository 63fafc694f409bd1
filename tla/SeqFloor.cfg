SPECIFICATION Spec
CONSTANTS
    Reserve = 3
    MaxFloor = 12
    MaxEmit = 2
    MaxBoot = 4
    FaultSets = {{}, {"settingsWrite"}, {"sidecarWrite"}, {"settingsRead", "settingsWrite"}}
INVARIANT FreshEpoch
