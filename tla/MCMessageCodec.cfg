\* Valid and corrupt frames decoded by the server (pooled message) and the
\* client (fresh message), two decodes in a row. The readers may stop.
CONSTANTS
    ServicePaths <- MCServicePaths
    ServiceMethods <- MCServiceMethods
    MetaKeys <- MCMetaKeys
    MetaValues <- MCMetaValues
    Payloads <- MCPayloads
    BadKeyLens <- MCBadKeyLens
    PathExtra = {4}
    MaxMessageLength = 0
    MaxDecodes = 2
CHECK_DEADLOCK FALSE
SPECIFICATION Spec
INVARIANT TypeOK
INVARIANT RoundTrip
INVARIANT NoReadBeyondFrame
