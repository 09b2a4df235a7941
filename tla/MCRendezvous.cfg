CONSTANTS
    dev1 = dev1
    dev2 = dev2
    c1 = c1
    c2 = c2
    Device = {dev1, dev2}
    Conn = {c1, c2}
    None = None
    Depth = 2
    MaxTargets = 1
    MaxBytes = 2
    CallTtl = 1
    MaxBindings = 1
    MaxAttachments = 1
    AttachTtl = 1
    BindingTtl = 1
    Sizes = {1, 2, 3}
    MaxCalls = 3
    MaxEpoch = 2
    MaxHolders = 2
    MaxLag = 1
SYMMETRY Symmetry
SPECIFICATION Spec
INVARIANTS
    MailboxAgrees
    OnePlace
    NeverLate
    NothingStranded
PROPERTY AttachmentStands
