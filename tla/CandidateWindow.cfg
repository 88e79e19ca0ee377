CONSTANTS
    wide = wide
    narrow = narrow
    dense = dense
    None = None
    Monitors = {wide, narrow, dense}
    Primary = wide
    Scale <- MCScale
    WorkArea <- MCWorkArea
    Pages <- MCPages
    Preedits = {0, 900}
    SelKey = 16
    Cursors = {2}
    Owners = {wide, None}
SPECIFICATION Spec
INVARIANTS
    TypeOK
    SizedForItsMonitor
    LayoutIsSound
    ShowsWhatIsHeld
    GestureIsTracked
