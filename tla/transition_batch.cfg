\* A change of the plan or a misstatement, and a contribution gone wrong,
\* under a profile without and a profile with a service fee.
SPECIFICATION Spec
CONSTANTS
    MaxMoney = 200
    Profiles <- BothProfiles
    Paddings <- NoPadding
    MaxHostFaults = 1
    MaxLapses = 1
INVARIANTS
    HonestBatchIsAccepted
    AcceptedBatchIsHonest
    HonestStatementFixesMaterial
    ReachedAuthorityIsBacked
    ReachedNullifierIsAuthorized
    PublicSumsSuffice
    RecipientsCanRecover
CHECK_DEADLOCK FALSE
