CONSTANTS
    Documents <- MCDocuments
    SlugOf <- MCSlugOf
    ColumnKeys <- MCColumnKeys
    Numeric = {"7"}
    NoiseKeys = {"http"}
    MinRunes = 3
    MaxRunes = 22
    Preview = 7
    LongLine = 8
    Rooms = {3, 4, 6, 8, 12, 24}
SPECIFICATION Spec
INVARIANTS TablesExact RecordsTrue LastValueWins
