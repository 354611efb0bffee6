\* The comment of settings_init on the bytes of the file after its end.
SPECIFICATION FileSpec
CONSTANTS
    FileSize = 11
    BufSize = 3
    ConfItems = 2
    ConfValues = {0, 1}
    MaxVersions = 2
INVARIANT StartsAtFileEnd
CHECK_DEADLOCK TRUE
