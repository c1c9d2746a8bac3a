CONSTANTS
    Thread = {t1, t2}
    Kind = {"expression"}
    MaxDefs = 1
    MaxId <- MCMaxId
SPECIFICATION Spec
INVARIANTS TypeOK OwnedByExactlyOne IssuedUntilAsked AskedAreGone ErrorsMeanContention
PROPERTIES NewIdsAreUnknown ImplementsRegistry CallsReturn
