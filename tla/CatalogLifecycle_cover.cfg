\* A cover is bound beside an older one while a merge is on its way.
CONSTANTS
    a1 = a1
    e1 = e1
    e2 = e2
    e3 = e3
    cover_image = cover_image
    file = file
    Asset = {a1}
    Entity = {e1, e2, e3}
    Role = {cover_image, file}
    Cover = cover_image
    BindingId = {1, 2}
    Binder = {b1}
    Delivery = {d1}
    Nobody = Nobody
    MaxTime = 2
    Reader = {r1}
    MaxProbe = 2
SPECIFICATION MCSpec
PROPERTY
    FreshCoverSurvives
