SPECIFICATION FairSpec
CONSTANTS
    main = main usb = usb attic = attic c1 = c1 s1 = s1 s2 = s2 none = none unset = unset dac = dac hdmi = hdmi
    Zones = {main, usb, attic}
    Enabled = {main, usb}
    Primary = main
    Callers = {c1}
    Sources = {s1, s2}
    None = none
    Unset = unset
    Volumes = {0}
    Trims <- TrimSet
    Devices = {dac}
    Choices = {}
    Default <- DefaultOf
    DefaultVolume = 2
    MaxVolume = 2
    MaxFaults = 1
    MaxRequests = 2
    MaxLives = 2
CHECK_DEADLOCK FALSE
INVARIANTS
    TypeOK
    SoundsAsSet
    LiveIsSaved
    
PROPERTIES
    PrimaryRestored
