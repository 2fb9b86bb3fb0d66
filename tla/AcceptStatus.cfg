\* ON and OFF, written.
CONSTANTS
    Kinds = {"operating_status"}
    Epc <- EpcOf
    Canonicals <- MCCanonicals
    Edts <- MCEdts
    FromCanonicalFn <- Encode
    ToCanonicalFn <- Decode
    ValidatorFn <- Validate
SPECIFICATION Spec
INVARIANT RepresentableIsAccepted
