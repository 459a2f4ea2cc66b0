CONSTANTS
    alice = alice
    bob = bob
    sponsor = sponsor
    None = None
    Embedded = TRUE
    Flows = {1, 2}
    Origin = alice
    Recipient = bob
    Sponsor = sponsor
    Balance = 7
    Amounts = {}
    Percents = {50}
    Floors = {1, 2}
    Lifetime = 1
    MaxHeight = 1
    MaxQuotes = 2
    Scale = 1
    Growth = 1
    MaxTransfer = 10
    MaxSponsorFee = 10
SPECIFICATION Spec
INVARIANTS TypeOK OneTransferPerPage ShownOutcomeIsTrue ExactOutflow
PROPERTIES OutcomeReported
