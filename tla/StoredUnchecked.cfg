\* Data whose validator answers Ok(false).
CONSTANTS
    Kinds = {"instance_list"}
    Epc <- EpcOf
    Canonicals <- MCCanonicals
    Edts <- MCEdts
    FromCanonicalFn <- Encode
    ToCanonicalFn <- Decode
    ValidatorFn <- Validate
SPECIFICATION Spec
INVARIANT StoredIsValid
