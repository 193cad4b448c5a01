SPECIFICATION Spec
CONSTANTS
    w1 = w1
    w2 = w2
    x = x
    y = y
    c1 = c1
    c2 = c2
    c3 = c3
    p1 = p1
    p2 = p2
    d1 = d1
    d2 = d2
    r1 = r1
    r2 = r2
    r3 = r3
    NoID = NoID
    Places = {x, y}
    Texts = {NoID, c1, c2, c3, p1, p2, d1, d2}
    Names = {r1, r2, r3}
    Writers = {w1, w2}
    Entries <- AliasEntries
INVARIANTS WrittenPlaceHasRow RefusalIsARace
