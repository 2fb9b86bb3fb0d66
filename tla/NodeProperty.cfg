\* Every kind of property.
CONSTANTS
    Kinds <- AllKinds
    Epc <- EpcOf
    Canonicals <- MCCanonicals
    Edts <- MCEdts
    FromCanonicalFn <- Encode
    ToCanonicalFn <- Decode
    ValidatorFn <- Validate
SPECIFICATION Spec
INVARIANTS
    TypeOK
    HeaderWellFormed
    RoundTripElsewhere
    ConvertsBackElsewhere
    MapsUnderstood
    AcceptedElsewhere
    CalmElsewhere
    ValidElsewhere
PROPERTY FailuresKeepValue
