CONSTANTS
    Proc = {p1}
    Doubled = {}
    MaxBoxes = 2
    MaxPosted = 1
SPECIFICATION RestlessSpec
PROPERTY
    ReconnectsAutomatically
