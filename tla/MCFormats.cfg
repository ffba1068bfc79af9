CONSTANTS
    Files <- MCFiles
    Headers <- MCHeaders
    default_block_size <- MCDefaultBlockSize
    Uploads <- MCUploads
    Servers <- MCServers

SPECIFICATION MCSpec
INVARIANTS
    BodyIsRequested
    UploadedIsRestorable
    NamesSelectThemselves

CHECK_DEADLOCK FALSE
