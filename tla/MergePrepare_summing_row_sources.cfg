CONSTANTS
    NumParts = 2
    NumIndexes = 1
    Modes = {"Ordinary", "Collapsing", "Summing", "Aggregating", "Replacing", "Graphite", "VersionedCollapsing"}
    SettingsChoices <- MCSettingsChoices
    TTLChoices <- MCTTLChoices
SPECIFICATION Spec
INVARIANT RowSourcesWrittenForReaders
