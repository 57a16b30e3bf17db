SPECIFICATION FairSpec
CONSTANTS
    Call = {c1, c2}
    Preferred = "vllm"
    MaxRetries = 3
    None = None
INVARIANTS TypeOK FallbackServes ChoiceHadReason PaidOnce
PROPERTIES CallsEnd
