\* Both dialogs; two handlers in flight, three objects, two camera requests, one fault.
SPECIFICATION Spec
CONSTANTS
    Modes = {"create", "edit"}
    Tasks = {1, 2}
    MaxUploads = 3
    MaxAsks = 2
    MaxFaults = 1
INVARIANTS PhotoSafe NoObjectLeaked CameraOffWhenClosed
