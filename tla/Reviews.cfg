\* Votes, reports, edits, moderations and responses race.
SPECIFICATION Spec
CONSTANTS
    r1 = r1
    r2 = r2
    ana = ana
    bia = bia
    caio = caio
    davi = davi
    eva = eva
    w1 = w1
    w2 = w2
    low = low
    high = high
    thanks = thanks
    sorry = sorry
    Reviews = {r1}
    Users = {ana, bia, caio, eva}
    Author <- AuthorIsAna
    Admins = {eva, caio}
    Responders <- BiaAndCaio
    Nobody = Nobody
    Ratings = {low, high}
    Texts = {thanks, sorry}
    NoText = NoText
    Lists <- OneOrRepeated
    Workers = {w1, w2}
    Mixes <- Separately
    Day = 2
    MaxClock = 4
    MaxCount = 2
    AutoFlagAfter = 1
SYMMETRY WorkerSymmetry
INVARIANTS
    TypeOK
    CountersMatchVotes
PROPERTIES
    EditsAreTimely
    ChangesAreSigned
