\* An instance list, written and read back.
CONSTANTS
    Kinds = {"instance_list"}
    Epc <- EpcOf
    Canonicals <- MCCanonicals
    Edts <- MCEdts
    FromCanonicalFn <- Encode
    ToCanonicalFn <- Decode
    ValidatorFn <- Validate
SPECIFICATION Spec
INVARIANT RoundTrip
