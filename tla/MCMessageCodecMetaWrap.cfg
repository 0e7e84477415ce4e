\* Frames with corrupt metadata key lengths, decoded by either reader.
CONSTANTS
    ServicePaths <- MCServicePaths
    ServiceMethods <- MCServiceMethods
    MetaKeys <- MCMetaKeys
    MetaValues <- MCMetaValues
    Payloads <- MCPayloads
    BadKeyLens <- MCBadKeyLens
    PathExtra = {4}
    MaxMessageLength = 0
    MaxDecodes = 2
CHECK_DEADLOCK FALSE
SPECIFICATION Spec
INVARIANT MetaOverrunIsKVMissing
